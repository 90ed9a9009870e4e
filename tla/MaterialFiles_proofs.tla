----------------------------- MODULE MaterialFiles_proofs -----------------------------
(* Theorems about the two places that keep a material's file.  The gateway's cache,  *)
(* GatewayCache: for any requests, bundles and faults, a request is served a whole   *)
(* published asset unless two downloads of its name met.  The control plane's files, *)
(* index and rows, Materials: for any uploads, deletions, transcodings, failures and *)
(* restarts, the three agree but for the encounters that no lock keeps apart.        *)
EXTENDS GatewayCache, Materials, FiniteSetTheorems, WellFoundedInduction, TLAPS

Places == {"new", "fetching", "fetched", "look", "get", "copy", "close", "serve", "served", "over"}
Parts == Seq(Assets \cup {Hole})

RequestType ==
  [at : Places, wants : Assets \cup {"policy", "ads", "nothing"}, bundle : Versions \cup {0},
   todo : Seq(Assets), inode : Inodes \cup {None}, done : 0..Chunks, got : Parts]

VariablesTyped ==
  /\ published \in Versions /\ cached \in Versions \cup {0}
  /\ tmp \in [Names -> Inodes \cup {None}]
  /\ file \in [Names -> Inodes \cup {None}]
  /\ data \in [Inodes -> Parts]
  /\ \A i \in Inodes : Len(data[i]) <= Chunks
  /\ request \in [Requests -> RequestType]

(* The assets that have been published; bundles and requests hold no others.         *)
Issued == {a \in Assets : \E v \in 1..published : a \in Range(Bundles[v])}

Writing(r) == request[r].at \in {"copy", "close"}

(* What a request holds at each place of its handler.                                *)
Holds(r) ==
  /\ request[r].bundle <= published
  /\ request[r].at = "fetched" => request[r].bundle > 0
  /\ request[r].todo \in Seq(Issued)
  /\ request[r].at \in {"look", "get", "copy", "close", "serve", "served"} => request[r].todo # <<>>
  /\ Writing(r) <=> request[r].inode # None
  /\ request[r].at = "copy" => request[r].done < Chunks
  /\ request[r].at = "close" => request[r].done = Chunks
  /\ request[r].at = "serve" => file[NameOf(r)] # None

RequestsHold == cached <= published /\ \A r \in Requests : Holds(r)

(* No inode has two names.                                                           *)
NamesApart ==
  /\ \A m, n \in Names : tmp[m] # None => tmp[m] # file[n]
  /\ \A m, n \in Names : m # n => (tmp[m] # None => tmp[m] # tmp[n])
  /\ \A m, n \in Names : m # n => (file[m] # None => file[m] # file[n])

(* What a download has open is under no other name, and open under no other.         *)
WritersApart ==
  /\ \A r \in Requests : Writing(r) =>
       \A n \in Names \ {NameOf(r)} : request[r].inode \notin {tmp[n], file[n]}
  /\ \A r, o \in Requests :
       Writing(r) /\ Writing(o) /\ request[o].inode = request[r].inode => NameOf(o) = NameOf(r)

(* A download of a name that was never crossed has the .tmp file to itself.          *)
Whole(a, k) == [j \in 1..k |-> a]

Alone(r) ==
  Writing(r) /\ NameOf(r) \notin crossed =>
    /\ tmp[NameOf(r)] = request[r].inode
    /\ data[request[r].inode] = Whole(Asset(r), request[r].done)
    /\ \A o \in Requests : Writing(o) /\ NameOf(o) = NameOf(r) => o = r

WritersAlone == \A r \in Requests : Alone(r)

(* A finished file of such a name is the whole of a published asset of that name.    *)
WholeOf(n, parts) == \E b \in Issued : Name[b] = n /\ parts = Whole(b, Chunks)

FilesWhole == \A n \in Names \ crossed : file[n] # None => WholeOf(n, data[file[n]])
AnswersWhole ==
  \A r \in Requests : request[r].at = "served" /\ NameOf(r) \notin crossed => WholeOf(NameOf(r), request[r].got)

CacheInv ==
  /\ VariablesTyped
  /\ RequestsHold
  /\ NamesApart
  /\ WritersApart
  /\ WritersAlone
  /\ FilesWhole
  /\ AnswersWhole
--------------------------------------------------------------------------------
(* What the assumption on the constants gives for Versions, Names and Inodes.        *)
LEMMA ConstantFacts ==
  /\ Versions \subseteq Nat \ {0} /\ 1 \in Versions
  /\ \A b \in Versions \cup {0} : b \in Nat
  /\ \A v \in Versions : Bundles[v] \in Seq(Assets)
  /\ \A a \in Assets : Name[a] \in Names
  /\ None \notin Inodes
BY GatewayCacheConstants DEF Versions, Names

(* The heads and tails of a request's list of assets.                                *)
LEMMA HeadTail ==
  ASSUME NEW S, NEW s \in Seq(S), s # <<>>
  PROVE  Head(s) \in S /\ Tail(s) \in Seq(S) /\ (Len(s) > 1 => Tail(s) # <<>>)
<1>1. Head(s) \in S /\ Tail(s) \in Seq(S) /\ Len(Tail(s)) = Len(s) - 1
  OBVIOUS
<1>2. Len(s) > 1 => Len(Tail(s)) # Len(<<>>)
  BY <1>1
<1> QED
  BY <1>1, <1>2

(* The parts of a copy that nobody disturbs: Written adds one more of the asset.     *)
LEMMA WholeParts ==
  ASSUME NEW a, NEW k \in 0..Chunks
  PROVE  /\ Len(Whole(a, k)) = k
         /\ k > 0 => Written(Whole(a, k - 1), k, a) = Whole(a, k)
         /\ Whole(a, 0) = <<>>
<1>1. \A m \in Nat : Whole(a, m) \in Seq({a}) /\ Len(Whole(a, m)) = m
  BY DEF Whole
<1>2. k \in Nat
  BY DEF Chunks
<1>3. Whole(a, 0) = <<>>
  BY <1>1
<1>4. ASSUME k > 0 PROVE Written(Whole(a, k - 1), k, a) = Whole(a, k)
  <2>1. Len(Whole(a, k - 1)) = k - 1
    BY <1>1, <1>2, <1>4
  <2>2. Written(Whole(a, k - 1), k, a) =
          [j \in 1..k |-> IF j = k THEN a ELSE IF j <= k - 1 THEN Whole(a, k - 1)[j] ELSE Hole]
    BY <2>1, <1>2 DEF Written
  <2>3. \A j \in 1..k : j # k => j \in 1..(k - 1) /\ Whole(a, k - 1)[j] = a
    BY <1>2 DEF Whole
  <2> QED
    BY <2>2, <2>3, <1>2 DEF Whole
<1> QED
  BY <1>1, <1>2, <1>3, <1>4

(* Whatever a file holds, a write leaves parts, and no more than there are.          *)
LEMMA WrittenParts ==
  ASSUME NEW parts \in Parts, Len(parts) <= Chunks, NEW k \in 1..Chunks, NEW a \in Assets
  PROVE  Written(parts, k, a) \in Parts /\ Len(Written(parts, k, a)) <= Chunks
<1> DEFINE m == IF Len(parts) > k THEN Len(parts) ELSE k
<1>1. m \in Nat /\ m <= Chunks /\ Len(parts) \in Nat
  BY DEF Chunks, Parts
<1>2. \A j \in 1..m : Written(parts, k, a)[j] \in Assets \cup {Hole}
  BY <1>1 DEF Written, Parts
<1>3. Written(parts, k, a) = [j \in 1..m |-> Written(parts, k, a)[j]]
  BY DEF Written
<1> HIDE DEF m
<1> QED
  BY <1>1, <1>2, <1>3 DEF Parts

(* getDeviceBundle has answered with a bundle that was published.                    *)
LEMMA BundleHeld ==
  ASSUME VariablesTyped, NEW q \in RequestType, q.inode = None, NEW b \in 1..published
  PROVE  LET p == WithBundle(q, b) IN
         /\ p \in RequestType /\ p.bundle = b /\ p.inode = None
         /\ p.todo \in Seq(Issued) /\ p.at \in {"look", "over"}
         /\ p.at = "look" => p.todo # <<>>
<1> DEFINE todo == CASE q.wants = "policy" -> <<>>
                     [] q.wants = "ads" -> Bundles[b]
                     [] OTHER -> IF q.wants \in Range(Bundles[b]) THEN <<q.wants>> ELSE <<>>
           p == WithBundle(q, b)
<1>1. b \in Versions /\ Bundles[b] \in Seq(Assets)
  BY ConstantFacts, GatewayCacheConstants DEF VariablesTyped, Versions
<1>2. Range(Bundles[b]) \subseteq Issued
  BY <1>1 DEF Issued, Range
<1>3. Bundles[b] \in Seq(Issued)
  BY <1>1, <1>2 DEF Range
<1>4. todo \in Seq(Issued)
  <2>1. CASE q.wants = "policy"
    BY <2>1
  <2>2. CASE q.wants # "policy" /\ q.wants = "ads"
    BY <2>2, <1>3
  <2>3. CASE q.wants # "policy" /\ q.wants # "ads"
    BY <2>3, <1>2
  <2> QED
    BY <2>1, <2>2, <2>3
<1>5. todo \in Seq(Assets)
  BY <1>4 DEF Issued
<1>6. p = [q EXCEPT !.bundle = b, !.todo = todo, !.at = IF todo = <<>> THEN "over" ELSE "look"]
  BY DEF WithBundle
<1> HIDE DEF todo, p
<1>7. /\ p \in RequestType /\ p.bundle = b /\ p.inode = None /\ p.todo = todo
      /\ p.at = IF todo = <<>> THEN "over" ELSE "look"
  BY <1>1, <1>5, <1>6 DEF RequestType, Places
<1> QED
  BY <1>4, <1>7 DEF p

(* ensureAssetCached has returned.                                                   *)
LEMMA Returned ==
  ASSUME NEW q \in RequestType, q.todo # <<>>, q.todo \in Seq(Issued)
  PROVE  /\ \A p \in {Cached(q), NotCached(q)} :
              /\ p \in RequestType /\ p.bundle = q.bundle /\ p.inode = q.inode
              /\ p.todo \in Seq(Issued)
              /\ p.at \in {"look", "serve", "over"}
              /\ p.at \in {"look", "serve"} => p.todo # <<>>
              /\ p.at = "serve" => p.todo = q.todo
         /\ NotCached(q).at # "serve"
<1>1. q.todo \in Seq(Assets)
  BY DEF RequestType
<1>2. Tail(q.todo) \in Seq(Assets) /\ Tail(q.todo) \in Seq(Issued) /\ (Len(q.todo) > 1 => Tail(q.todo) # <<>>)
  BY <1>1, HeadTail
<1>3. CASE q.wants # "ads"
  <2>1. Cached(q) = [q EXCEPT !.at = "serve"] /\ NotCached(q) = [q EXCEPT !.at = "over"]
    BY <1>3 DEF Cached, NotCached
  <2> QED
    BY <2>1 DEF RequestType, Places
<1>4. CASE q.wants = "ads"
  <2> DEFINE p == [q EXCEPT !.todo = Tail(@), !.at = IF Len(q.todo) > 1 THEN "look" ELSE "over"]
  <2>1. Cached(q) = p /\ NotCached(q) = p
    BY <1>4 DEF Cached, NotCached
  <2>2. /\ p \in RequestType /\ p.bundle = q.bundle /\ p.inode = q.inode /\ p.todo = Tail(q.todo)
        /\ p.at = IF Len(q.todo) > 1 THEN "look" ELSE "over"
    BY <1>2 DEF RequestType, Places
  <2> HIDE DEF p
  <2> QED
    BY <2>1, <2>2, <1>2
<1> QED
  BY <1>3, <1>4

(* The image of a finite set under a function is no larger than the set.             *)
LEMMA ImageSize ==
  ASSUME NEW S, IsFiniteSet(S), NEW f, DOMAIN f = S
  PROVE  LET T == {f[x] : x \in S} IN
         IsFiniteSet(T) /\ Cardinality(T) \in Nat /\ Cardinality(T) <= Cardinality(S)
<1> DEFINE T == {f[x] : x \in S}
           g == [x \in S |-> f[x]]
<1>1. g \in Surjection(S, T)
  BY DEF Surjection
<1>2. IsFiniteSet(T) /\ Cardinality(T) <= Cardinality(S)
  BY <1>1, FS_Surjection
<1> QED
  BY <1>2, FS_CardinalityType

(* os.Create finds a free inode when nothing is under the .tmp name: every name      *)
(* and every open file takes one at most, and neither this name's .tmp nor this      *)
(* request has one.                                                                  *)
LEMMA FreeInode ==
  ASSUME VariablesTyped, NEW n \in Names, tmp[n] = None,
         NEW r \in Requests, request[r].inode = None
  PROVE  Inodes \ Referenced # {}
<1> DEFINE N == Cardinality(Names)
           R == Cardinality(Requests)
           open == [o \in Requests \ {r} |-> request[o].inode]
           under == [m \in Names \ {n} |-> tmp[m]]
           A == {under[m] : m \in Names \ {n}}
           B == {file[m] : m \in Names}
           C == {open[o] : o \in Requests \ {r}}
<1>1. IsFiniteSet(Names)
  <2>1. Names = {Name[a] : a \in Assets} /\ DOMAIN Name = Assets /\ IsFiniteSet(Assets)
    BY GatewayCacheConstants DEF Names
  <2> QED
    BY <2>1, ImageSize, Zenon
<1>2. /\ N \in Nat /\ R \in Nat /\ N > 0 /\ R > 0
      /\ IsFiniteSet(Names \ {n}) /\ Cardinality(Names \ {n}) = N - 1
      /\ IsFiniteSet(Requests \ {r}) /\ Cardinality(Requests \ {r}) = R - 1
  <2>1. IsFiniteSet(Requests)
    BY GatewayCacheConstants
  <2>2. /\ IsFiniteSet(Names \ {n}) /\ Cardinality(Names \ {n}) = N - 1
        /\ IsFiniteSet(Requests \ {r}) /\ Cardinality(Requests \ {r}) = R - 1
    BY <1>1, <2>1, FS_RemoveElement
  <2>3. N \in Nat /\ R \in Nat /\ Cardinality(Names \ {n}) \in Nat /\ Cardinality(Requests \ {r}) \in Nat
    BY <1>1, <2>1, <2>2, FS_CardinalityType
  <2> QED
    BY <2>2, <2>3
<1>3. IsFiniteSet(A) /\ Cardinality(A) \in Nat /\ Cardinality(A) <= N - 1
  <2>1. DOMAIN under = Names \ {n}
    OBVIOUS
  <2> HIDE DEF under
  <2> QED
    BY <1>2, <2>1, ImageSize
<1>4. IsFiniteSet(B) /\ Cardinality(B) \in Nat /\ Cardinality(B) <= N
  <2>1. DOMAIN file = Names
    BY DEF VariablesTyped
  <2> QED
    BY <1>1, <2>1, ImageSize
<1>5. IsFiniteSet(C) /\ Cardinality(C) \in Nat /\ Cardinality(C) <= R - 1
  <2>1. DOMAIN open = Requests \ {r}
    OBVIOUS
  <2> HIDE DEF open
  <2> QED
    BY <1>2, <2>1, ImageSize
<1>6. IsFiniteSet(A \cup B \cup C) /\ Cardinality(A \cup B \cup C) <= 2 * N + R - 2
  <2> HIDE DEF A, B, C, N, R
  <2>1. IsFiniteSet(A \cup B) /\ Cardinality(A \cup B) = Cardinality(A) + Cardinality(B) - Cardinality(A \cap B)
    BY <1>3, <1>4, FS_Union
  <2>2. IsFiniteSet(A \cap B) /\ IsFiniteSet((A \cup B) \cap C)
    <3>1. A \cap B \in SUBSET A /\ (A \cup B) \cap C \in SUBSET C
      OBVIOUS
    <3> QED
      BY <3>1, <1>3, <1>5, FS_Subset
  <2>3. /\ IsFiniteSet(A \cup B \cup C)
        /\ Cardinality(A \cup B \cup C)
             = Cardinality(A \cup B) + Cardinality(C) - Cardinality((A \cup B) \cap C)
    BY <2>1, <1>5, FS_Union
  <2>4. Cardinality(A \cap B) \in Nat /\ Cardinality((A \cup B) \cap C) \in Nat
    BY <2>2, FS_CardinalityType
  <2> QED
    BY <2>1, <2>3, <2>4, <1>2, <1>3, <1>4, <1>5
<1>7. IsFiniteSet(Inodes) /\ Cardinality(Inodes) = R + 2 * N
  <2>1. R + 2 * N \in Int /\ ~(1 > R + 2 * N) /\ Inodes = 1..(R + 2 * N)
    BY <1>2 DEF Inodes
  <2>2. IsFiniteSet(1..(R + 2 * N)) /\ Cardinality(1..(R + 2 * N)) = (R + 2 * N) - 1 + 1
    BY <2>1, FS_Interval
  <2> QED
    BY <2>1, <2>2
<1>8. ~(Inodes \subseteq A \cup B \cup C)
  <2> SUFFICES ASSUME Inodes \subseteq A \cup B \cup C PROVE FALSE
    OBVIOUS
  <2> HIDE DEF A, B, C, N, R
  <2>1. Cardinality(Inodes) <= Cardinality(A \cup B \cup C)
    BY <1>6, FS_Subset
  <2>2. Cardinality(A \cup B \cup C) \in Nat
    BY <1>6, FS_CardinalityType
  <2> QED
    BY <2>1, <2>2, <1>6, <1>7, <1>2
<1>9. PICK j \in Inodes : j \notin A \cup B \cup C
  BY <1>8
<1>10. j # None
  BY ConstantFacts
<1>11. j \notin Referenced
  <2>1. \A m \in Names : j # tmp[m]
    BY <1>9, <1>10
  <2>2. \A m \in Names : j # file[m]
    BY <1>9
  <2>3. \A o \in Requests : j # request[o].inode
    BY <1>9, <1>10
  <2> QED
    BY <2>1, <2>2, <2>3 DEF Referenced
<1> QED
  BY <1>9, <1>11

--------------------------------------------------------------------------------
(* What has been published stays so.                                                 *)
LEMMA IssuedGrows ==
  ASSUME published \in Nat, published' \in Nat, published <= published'
  PROVE  Issued \subseteq Issued'
<1> SUFFICES ASSUME NEW a \in Issued PROVE a \in Issued'
  OBVIOUS
<1>1. PICK v \in 1..published : a \in Range(Bundles[v])
  BY DEF Issued
<1> QED
  BY <1>1 DEF Issued

(* A request that a step leaves alone still holds what it held.                      *)
LEMMA HoldsStill ==
  ASSUME VariablesTyped, NEW r \in Requests, Holds(r), request'[r] = request[r],
         published' \in Versions, published <= published',
         \A n \in Names : file[n] # None => file'[n] # None
  PROVE  Holds(r)'
<1>1. published \in Nat /\ published' \in Nat /\ request[r] \in RequestType
  BY ConstantFacts DEF VariablesTyped
<1>2. Issued \subseteq Issued'
  BY <1>1, IssuedGrows
<1>3. request[r].todo \in Seq(Issued')
  BY <1>2 DEF Holds
<1>4. request[r].bundle <= published'
  <2>1. request[r].bundle \in Versions \cup {0}
    BY <1>1 DEF RequestType
  <2>2. request[r].bundle \in Nat
    BY <2>1, ConstantFacts
  <2> QED
    BY <2>2, <1>1 DEF Holds
<1>5. request[r].at = "serve" => file'[NameOf(r)] # None
  <2>1. request[r].todo \in Seq(Assets) /\ (request[r].at = "serve" => request[r].todo # <<>>)
    BY <1>1 DEF Holds, RequestType
  <2>2. request[r].at = "serve" => NameOf(r) \in Names
    BY <2>1, HeadTail, ConstantFacts DEF NameOf, Asset
  <2> QED
    BY <2>2 DEF Holds
<1> QED
  BY <1>3, <1>4, <1>5 DEF Holds, Writing, NameOf, Asset

(* Where a request has an asset at hand, it is a published one and has a name.       *)
LEMMA AtHand ==
  ASSUME VariablesTyped, NEW r \in Requests, Holds(r),
         request[r].at \in {"look", "get", "copy", "close", "serve", "served"}
  PROVE  Asset(r) \in Issued /\ Asset(r) \in Assets /\ NameOf(r) \in Names
<1>1. request[r].todo \in Seq(Issued) /\ request[r].todo # <<>>
  BY DEF Holds
<1>2. Asset(r) \in Issued
  BY <1>1, HeadTail DEF Asset
<1> QED
  BY <1>2, ConstantFacts DEF Issued, NameOf

(* A step that writes no file and gives nobody one to write, at most takes .tmp      *)
(* names away where no untroubled download goes on, keeps the rest.                  *)
LEMMA FilesStill ==
  ASSUME CacheInv, VariablesTyped', published <= published',
         UNCHANGED <<data, file, crossed>>,
         \A n \in Names : tmp'[n] \in {tmp[n], None},
         \A o \in Requests : request'[o] = request[o] \/ ~Writing(o)',
         \A o \in Requests : Writing(o) /\ request'[o] = request[o] /\ NameOf(o) \notin crossed
                               => tmp'[NameOf(o)] = tmp[NameOf(o)]
  PROVE  NamesApart' /\ WritersApart' /\ WritersAlone' /\ FilesWhole'
<1>1. \A o \in Requests : Writing(o)' =>
        request'[o] = request[o] /\ (Writing(o)' <=> Writing(o)) /\ NameOf(o)' = NameOf(o) /\ Asset(o)' = Asset(o)
  BY DEF Writing, NameOf, Asset
<1>2. published \in Nat /\ published' \in Nat
  BY ConstantFacts DEF VariablesTyped, CacheInv
<1>3. Issued \subseteq Issued'
  BY <1>2, IssuedGrows
<1>5. \A o \in Requests : Writing(o) => NameOf(o) \in Names
  BY AtHand DEF CacheInv, RequestsHold, Writing
<1>6. NamesApart'
  BY DEF NamesApart, CacheInv
<1>7. WritersApart'
  <2>1. ASSUME NEW o \in Requests, Writing(o)', NEW n \in Names \ {NameOf(o)'}
        PROVE  request'[o].inode \notin {tmp'[n], file'[n]}
    <3>1. /\ request'[o] = request[o] /\ Writing(o) /\ n \in Names \ {NameOf(o)}
          /\ request[o].inode \notin {tmp[n], file[n]} /\ request[o].inode # None
      BY <1>1, <2>1 DEF CacheInv, WritersApart, RequestsHold, Holds
    <3> QED
      BY <3>1
  <2>2. ASSUME NEW r \in Requests, NEW o \in Requests, Writing(r)', Writing(o)',
               request'[o].inode = request'[r].inode
        PROVE  NameOf(o)' = NameOf(r)'
    BY <1>1, <2>2 DEF CacheInv, WritersApart
  <2> QED
    BY <2>1, <2>2 DEF WritersApart
<1>8. WritersAlone'
  <2> SUFFICES ASSUME NEW r \in Requests, Writing(r)', NameOf(r)' \notin crossed'
               PROVE  /\ tmp'[NameOf(r)'] = request'[r].inode
                      /\ data'[request'[r].inode] = Whole(Asset(r)', request'[r].done)
                      /\ \A o \in Requests : Writing(o)' /\ NameOf(o)' = NameOf(r)' => o = r
    BY DEF WritersAlone, Alone, Whole
  <2>1. /\ request'[r] = request[r] /\ Writing(r) /\ NameOf(r)' = NameOf(r) /\ Asset(r)' = Asset(r)
        /\ NameOf(r) \notin crossed /\ Alone(r)
    BY <1>1 DEF CacheInv, WritersAlone
  <2>2. tmp'[NameOf(r)] = tmp[NameOf(r)]
    BY <2>1
  <2>3. \A o \in Requests : Writing(o)' /\ NameOf(o)' = NameOf(r)' => o = r
    BY <1>1, <2>1 DEF Alone
  <2> QED
    BY <2>1, <2>2, <2>3 DEF Alone
<1>9. FilesWhole'
  <2> SUFFICES ASSUME NEW n \in Names \ crossed', file'[n] # None
               PROVE  WholeOf(n, data[file[n]])'
    BY DEF FilesWhole
  <2>1. WholeOf(n, data[file[n]])
    BY DEF CacheInv, FilesWhole
  <2> QED
    BY <2>1, <1>3 DEF WholeOf, Whole
<1> QED
  BY <1>6, <1>7, <1>8, <1>9

(* What has been served before is not looked at again.                               *)
LEMMA AnswersStill ==
  ASSUME CacheInv, VariablesTyped', published <= published', crossed \subseteq crossed',
         \A o \in Requests : request'[o] = request[o] \/ request'[o].at # "served"
  PROVE  AnswersWhole'
<1>1. published \in Nat /\ published' \in Nat
  BY ConstantFacts DEF VariablesTyped, CacheInv
<1>2. Issued \subseteq Issued'
  BY <1>1, IssuedGrows
<1> SUFFICES ASSUME NEW r \in Requests, request'[r].at = "served", NameOf(r)' \notin crossed'
             PROVE  WholeOf(NameOf(r), request[r].got)'
  BY DEF AnswersWhole
<1>3. request'[r] = request[r] /\ NameOf(r)' = NameOf(r) /\ NameOf(r) \notin crossed
  BY DEF NameOf, Asset
<1>4. WholeOf(NameOf(r), request[r].got)
  BY <1>3 DEF CacheInv, AnswersWhole
<1> QED
  BY <1>2, <1>3, <1>4 DEF WholeOf, Whole

(* A step of one request, which holds no open file and goes on as q says.            *)
LEMMA QuietStep ==
  ASSUME CacheInv, NEW r \in Requests, NEW q \in RequestType,
         request' = [request EXCEPT ![r] = q],
         UNCHANGED <<published, file, data, crossed>>,
         cached' \in 0..published,
         tmp' \in [Names -> Inodes \cup {None}], \A n \in Names : tmp'[n] \in {tmp[n], None},
         \A o \in Requests \ {r} : Writing(o) /\ NameOf(o) \notin crossed
                                     => tmp'[NameOf(o)] = tmp[NameOf(o)],
         q.inode = None, q.at \notin {"copy", "close", "served"},
         q.bundle <= published, q.at = "fetched" => q.bundle > 0,
         q.todo \in Seq(Issued), q.at \in {"look", "get", "serve"} => q.todo # <<>>,
         q.at = "serve" => file[Name[Head(q.todo)]] # None
  PROVE  CacheInv'
<1>1. /\ published \in Versions /\ published \in Nat /\ 0..published \subseteq Versions \cup {0}
      /\ request' \in [Requests -> RequestType]
  BY ConstantFacts DEF CacheInv, VariablesTyped, Versions
<1>2. VariablesTyped'
  BY <1>1 DEF CacheInv, VariablesTyped
<1>3. request'[r] = q /\ \A o \in Requests \ {r} : request'[o] = request[o]
  BY DEF CacheInv, VariablesTyped
<1>4. Issued' = Issued
  BY DEF Issued
<1>5. Holds(r)'
  BY <1>3, <1>4 DEF Holds, Writing, NameOf, Asset
<1>6. \A o \in Requests \ {r} : Holds(o)'
  BY <1>1, <1>3, HoldsStill DEF CacheInv, RequestsHold
<1>7. RequestsHold'
  <2>1. cached' <= published'
    BY <1>1
  <2> QED
    BY <2>1, <1>5, <1>6 DEF RequestsHold
<1>8. ~Writing(r)' /\ request'[r].at # "served"
  BY <1>3 DEF Writing
<1>9. ASSUME NEW o \in Requests, Writing(o), request'[o] = request[o], NameOf(o) \notin crossed
      PROVE  tmp'[NameOf(o)] = tmp[NameOf(o)]
  BY <1>8, <1>9 DEF Writing
<1>10. NamesApart' /\ WritersApart' /\ WritersAlone' /\ FilesWhole' /\ AnswersWhole'
  <2>1. published <= published'
    BY <1>1
  <2>2. \A o \in Requests : request'[o] = request[o] \/ (~Writing(o)' /\ request'[o].at # "served")
    BY <1>3, <1>8
  <2> QED
    BY <2>1, <2>2, <1>2, <1>9, FilesStill, AnswersStill
<1> QED
  BY <1>2, <1>7, <1>10 DEF CacheInv

(* The fields of a request, one by one.                                              *)
LEMMA Fields ==
  ASSUME VariablesTyped, RequestsHold, NEW r \in Requests
  PROVE  /\ request[r] \in RequestType
         /\ request[r].bundle \in Versions \cup {0} /\ request[r].bundle \in 0..published
         /\ request[r].inode \in Inodes \cup {None} /\ request[r].done \in 0..Chunks
         /\ request[r].todo \in Seq(Issued) /\ request[r].todo \in Seq(Assets)
         /\ request[r].wants \in Assets \cup {"policy", "ads", "nothing"}
         /\ Holds(r)
<1>1. request[r] \in RequestType /\ Holds(r)
  BY DEF VariablesTyped, RequestsHold
<1>2. request[r].bundle \in Versions \cup {0} /\ published \in Nat
  BY <1>1, ConstantFacts DEF RequestType, VariablesTyped
<1>3. request[r].bundle \in Nat
  BY <1>2, ConstantFacts
<1> QED
  BY <1>1, <1>2, <1>3 DEF RequestType, Holds

--------------------------------------------------------------------------------
(* Nothing is cached, and no request has begun.                                      *)
LEMMA InitHolds == Init => CacheInv
<1> SUFFICES ASSUME Init PROVE CacheInv
  OBVIOUS
<1>1. Fresh \in RequestType /\ Fresh.at = "new" /\ Fresh.inode = None /\ Fresh.bundle = 0 /\ Fresh.todo = <<>>
  <2>1. <<>> \in Seq(Assets) /\ <<>> \in Parts
    BY DEF Parts
  <2> QED
    BY <2>1 DEF Fresh, RequestType, Places, Chunks, Parts
<1>2. \A r \in Requests : request[r] = Fresh
  BY DEF Init
<1>3. VariablesTyped
  <2>1. <<>> \in Parts /\ Len(<<>>) <= Chunks
    BY DEF Parts, Chunks
  <2> QED
    BY <2>1, <1>1, ConstantFacts DEF Init, VariablesTyped
<1>4. RequestsHold
  <2>1. <<>> \in Seq(Issued) /\ published = 1 /\ cached = 0
    BY DEF Init
  <2>2. ASSUME NEW r \in Requests PROVE Holds(r)
    <3>1. request[r].at = "new" /\ request[r].inode = None /\ request[r].bundle = 0 /\ request[r].todo = <<>>
      BY <1>1, <1>2
    <3> QED
      BY <2>1, <3>1 DEF Holds, Writing
  <2> QED
    BY <2>1, <2>2 DEF RequestsHold
<1>5. NamesApart /\ FilesWhole
  BY DEF Init, NamesApart, FilesWhole
<1>6. WritersApart /\ WritersAlone /\ AnswersWhole
  BY <1>1, <1>2 DEF WritersApart, WritersAlone, Alone, AnswersWhole, Writing
<1> QED
  BY <1>3, <1>4, <1>5, <1>6 DEF CacheInv

(* A step of nobody.                                                                 *)
LEMMA StutterStep == ASSUME CacheInv, UNCHANGED vars PROVE CacheInv'
<1>1. VariablesTyped'
  BY DEF CacheInv, VariablesTyped, vars
<1>2. Issued' = Issued
  BY DEF Issued, vars
<1>3. RequestsHold' /\ NamesApart' /\ WritersApart'
  BY <1>2 DEF CacheInv, RequestsHold, Holds, NamesApart, WritersApart, Writing, NameOf, Asset, vars
<1>4. WritersAlone' /\ FilesWhole' /\ AnswersWhole'
  BY <1>2 DEF CacheInv, WritersAlone, Alone, FilesWhole, AnswersWhole, WholeOf, Whole, Writing, NameOf, Asset, vars
<1> QED
  BY <1>1, <1>3, <1>4 DEF CacheInv

(* The control plane publishes, or the bundle's key expires.                         *)
LEMMA PublishStep == ASSUME CacheInv, Publish \/ Expire PROVE CacheInv'
<1>1. /\ published' \in Versions /\ published <= published' /\ cached' \in Versions \cup {0}
      /\ cached' <= published' /\ UNCHANGED <<tmp, file, data, request, crossed>>
  <2>1. published \in Nat /\ Len(Bundles) \in Nat /\ cached \in Nat /\ cached <= published
    BY ConstantFacts, GatewayCacheConstants DEF CacheInv, VariablesTyped, RequestsHold
  <2>2. CASE Publish
    BY <2>1, <2>2 DEF Publish, Versions, CacheInv, VariablesTyped
  <2>3. CASE Expire
    BY <2>1, <2>3 DEF Expire, CacheInv, VariablesTyped
  <2> QED
    BY <2>2, <2>3
<1>2. VariablesTyped'
  BY <1>1 DEF CacheInv, VariablesTyped
<1>3. RequestsHold'
  BY <1>1, HoldsStill DEF CacheInv, RequestsHold
<1>4. NamesApart' /\ WritersApart' /\ WritersAlone' /\ FilesWhole' /\ AnswersWhole'
  <2>1. \A n \in Names : tmp'[n] \in {tmp[n], None}
    BY <1>1
  <2> QED
    BY <1>1, <1>2, <2>1, FilesStill, AnswersStill
<1> QED
  BY <1>2, <1>3, <1>4 DEF CacheInv

(* getDeviceBundle, as far as Redis.                                                 *)
LEMMA AskStep ==
  ASSUME CacheInv, NEW r \in Requests, NEW wants \in Assets \cup {"policy", "ads"}, Ask(r, wants)
  PROVE  CacheInv'
<1> DEFINE q == [request[r] EXCEPT !.wants = wants]
           p == IF cached # 0 THEN WithBundle(q, cached) ELSE [q EXCEPT !.at = "fetching"]
<1>1. request[r] \in RequestType /\ Holds(r) /\ request[r].at = "new" /\ request[r].inode = None
      /\ request[r].bundle <= published /\ request[r].todo \in Seq(Issued)
  BY Fields DEF CacheInv, Holds, Writing, Ask
<1>2. /\ q \in RequestType /\ q.inode = None /\ q.bundle = request[r].bundle /\ q.todo = request[r].todo
  BY <1>1 DEF RequestType, Places
<1>3. cached \in 0..published /\ (cached # 0 => cached \in 1..published)
  BY ConstantFacts DEF CacheInv, VariablesTyped, RequestsHold
<1>4. /\ request' = [request EXCEPT ![r] = p]
      /\ UNCHANGED <<published, cached, tmp, file, data, crossed>>
  BY DEF Ask
<1> HIDE DEF q
<1>5. /\ p \in RequestType /\ p.inode = None /\ p.at \in {"look", "over", "fetching"}
      /\ p.bundle <= published /\ p.todo \in Seq(Issued) /\ (p.at = "look" => p.todo # <<>>)
  <2>1. CASE cached # 0
    BY <2>1, <1>2, <1>3, BundleHeld DEF CacheInv
  <2>2. CASE cached = 0
    BY <2>2, <1>1, <1>2 DEF RequestType, Places
  <2> QED
    BY <2>1, <2>2
<1> HIDE DEF p
<1>6. tmp' \in [Names -> Inodes \cup {None}] /\ (\A n \in Names : tmp'[n] \in {tmp[n], None}) /\ tmp' = tmp
  BY <1>4 DEF CacheInv, VariablesTyped
<1> QED
  BY <1>3, <1>4, <1>5, <1>6, QuietStep

(* The rest of getDeviceBundle: the control plane's answer, and its way into Redis.  *)
LEMMA FetchStep ==
  ASSUME CacheInv, NEW r \in Requests, FetchBundle(r) \/ FetchFails(r) \/ KeepBundle(r)
  PROVE  CacheInv'
<1>1. request[r] \in RequestType /\ Holds(r) /\ request[r].at \in {"fetching", "fetched"}
      /\ request[r].inode = None /\ request[r].bundle \in 0..published /\ request[r].todo \in Seq(Issued)
      /\ (request[r].at = "fetched" => request[r].bundle \in 1..published)
      /\ request \in [Requests -> RequestType]
  BY Fields DEF CacheInv, Holds, Writing, FetchBundle, FetchFails, KeepBundle, VariablesTyped
<1>2. published \in Versions /\ published \in Nat /\ published > 0 /\ cached \in 0..published
  BY ConstantFacts DEF CacheInv, VariablesTyped, RequestsHold
<1>3. UNCHANGED <<published, tmp, file, data, crossed>>
  BY DEF FetchBundle, FetchFails, KeepBundle
<1>4. tmp' \in [Names -> Inodes \cup {None}] /\ (\A n \in Names : tmp'[n] \in {tmp[n], None}) /\ tmp' = tmp
  BY <1>3 DEF CacheInv, VariablesTyped
<1>5. CASE FetchBundle(r)
  <2> DEFINE p == [request[r] EXCEPT !.bundle = published, !.at = "fetched"]
  <2>1. request' = [request EXCEPT ![r] = p] /\ cached' = cached
    BY <1>1, <1>5 DEF FetchBundle
  <2>2. p \in RequestType /\ p.inode = None /\ p.at = "fetched" /\ p.bundle = published /\ p.todo = request[r].todo
    BY <1>1, <1>2 DEF RequestType, Places
  <2> HIDE DEF p
  <2>3. /\ cached' \in 0..published /\ p.bundle <= published /\ p.todo \in Seq(Issued)
        /\ p.at = "fetched" => p.bundle > 0
    BY <1>1, <1>2, <2>1, <2>2
  <2> QED
    BY <1>3, <1>4, <2>1, <2>2, <2>3, QuietStep
<1>6. CASE FetchFails(r)
  <2> DEFINE p == [request[r] EXCEPT !.at = "over"]
  <2>1. request' = [request EXCEPT ![r] = p] /\ cached' = cached
    BY <1>6 DEF FetchFails
  <2>2. p \in RequestType /\ p.inode = None /\ p.at = "over" /\ p.bundle = request[r].bundle /\ p.todo = request[r].todo
    BY <1>1 DEF RequestType, Places
  <2> HIDE DEF p
  <2>3. /\ cached' \in 0..published /\ p.bundle <= published /\ p.todo \in Seq(Issued)
        /\ p.at = "fetched" => p.bundle > 0
    BY <1>1, <1>2, <2>1, <2>2
  <2> QED
    BY <1>3, <1>4, <2>1, <2>2, <2>3, QuietStep
<1>7. CASE KeepBundle(r)
  <2> DEFINE p == WithBundle(request[r], request[r].bundle)
  <2>1. request' = [request EXCEPT ![r] = p] /\ cached' = request[r].bundle /\ request[r].at = "fetched"
    BY <1>7 DEF KeepBundle
  <2>2. /\ p \in RequestType /\ p.inode = None /\ p.at \in {"look", "over"} /\ p.bundle = request[r].bundle
        /\ p.todo \in Seq(Issued) /\ (p.at = "look" => p.todo # <<>>)
    BY <1>1, <2>1, BundleHeld DEF CacheInv
  <2> HIDE DEF p
  <2>3. p.bundle <= published /\ cached' \in 0..published
    BY <2>1, <2>2, <1>1, <1>2
  <2> QED
    BY <1>1, <1>3, <1>4, <2>1, <2>2, <2>3, QuietStep
<1> QED
  BY <1>5, <1>6, <1>7

(* ensureAssetCached's test, and the download that gets no file.                     *)
LEMMA LookStep ==
  ASSUME CacheInv, NEW r \in Requests, Look(r) \/ GetFails(r)
  PROVE  CacheInv'
<1> DEFINE q == request[r]
<1>1. q \in RequestType /\ Holds(r) /\ q.at \in {"look", "get"} /\ q.inode = None
      /\ q.bundle <= published /\ q.todo \in Seq(Issued) /\ q.todo # <<>>
  BY Fields DEF CacheInv, Holds, Writing, Look, GetFails
<1>2. cached \in 0..published
  BY ConstantFacts DEF CacheInv, VariablesTyped, RequestsHold
<1>3. UNCHANGED <<published, cached, tmp, file, data, crossed>>
  BY DEF Look, GetFails
<1>4. tmp' \in [Names -> Inodes \cup {None}] /\ (\A n \in Names : tmp'[n] \in {tmp[n], None}) /\ tmp' = tmp
  BY <1>3 DEF CacheInv, VariablesTyped
<1>5. PICK p \in {Cached(q), NotCached(q), [q EXCEPT !.at = "get"]} :
        /\ request' = [request EXCEPT ![r] = p]
        /\ p = Cached(q) => file[NameOf(r)] # None \/ p = NotCached(q)
  <2>1. CASE Look(r) /\ FileExistsWithSize(NameOf(r))
    <3>1. request' = [request EXCEPT ![r] = Cached(q)] /\ file[NameOf(r)] # None
      BY <2>1 DEF Look, FileExistsWithSize
    <3> QED
      BY <3>1
  <2>2. CASE Look(r) /\ ~FileExistsWithSize(NameOf(r))
    <3>1. request' = [request EXCEPT ![r] = [q EXCEPT !.at = "get"]]
      BY <2>2 DEF Look
    <3>2. q.todo # <<>>
      BY <1>1
    <3>3. [q EXCEPT !.at = "get"] # Cached(q)
      <4>1. [q EXCEPT !.at = "get"].at = "get"
        BY <1>1 DEF RequestType
      <4> QED
        BY <4>1, <1>1, Returned
    <3> QED
      BY <3>1, <3>3
  <2>3. CASE GetFails(r)
    <3>1. request' = [request EXCEPT ![r] = NotCached(q)]
      BY <2>3 DEF GetFails
    <3> QED
      BY <3>1
  <2> QED
    BY <2>1, <2>2, <2>3
<1>6. /\ p \in RequestType /\ p.inode = None /\ p.bundle = q.bundle /\ p.todo \in Seq(Issued)
      /\ p.at \in {"look", "get", "serve", "over"} /\ (p.at # "over" => p.todo # <<>>)
      /\ p.at = "serve" => p.todo = q.todo /\ p # NotCached(q) /\ p = Cached(q)
  <2>1. CASE p \in {Cached(q), NotCached(q)}
    BY <1>1, <2>1, Returned
  <2>2. CASE p = [q EXCEPT !.at = "get"]
    BY <1>1, <2>2 DEF RequestType, Places
  <2> QED
    BY <2>1, <2>2
<1>7. p.at = "serve" => file[Name[Head(p.todo)]] # None
  BY <1>5, <1>6 DEF NameOf, Asset
<1> HIDE DEF q
<1> QED
  BY <1>1, <1>2, <1>3, <1>4, <1>5, <1>6, <1>7, QuietStep

(* os.Create truncates what is under the .tmp name or takes a free inode: either     *)
(* way nobody else reads it, but a writer of the same name, which crosses the name.  *)
LEMMA CreateStep ==
  ASSUME CacheInv, NEW r \in Requests, CreateTmp(r)
  PROVE  CacheInv'
<1> DEFINE n == NameOf(r)
           i == IF tmp[n] # None THEN tmp[n] ELSE CHOOSE j \in Inodes \ Referenced : TRUE
           q == [request[r] EXCEPT !.at = "copy", !.inode = i, !.done = 0]
<1>1. /\ VariablesTyped /\ RequestsHold /\ NamesApart /\ WritersApart /\ WritersAlone /\ FilesWhole
      /\ request[r] \in RequestType /\ Holds(r) /\ request[r].at = "get" /\ request[r].inode = None
      /\ n \in Names /\ ~Writing(r)
  BY Fields, AtHand DEF CacheInv, Holds, Writing, CreateTmp
<1>2. /\ tmp' = [tmp EXCEPT ![n] = i]
      /\ data' = [data EXCEPT ![i] = <<>>]
      /\ request' = [request EXCEPT ![r].at = "copy", ![r].inode = i, ![r].done = 0]
      /\ crossed' = IF \E o \in Requests : request[o].at \in {"copy", "close"} /\ NameOf(o) = n
                    THEN crossed \cup {n} ELSE crossed
      /\ UNCHANGED <<published, cached, file, faults>>
  BY DEF CreateTmp
<1>3. /\ i \in Inodes /\ i # None
      /\ \A m \in Names : i # file[m]
      /\ \A m \in Names \ {n} : i # tmp[m]
      /\ \A o \in Requests : Writing(o) /\ request[o].inode = i => NameOf(o) = n
  <2>1. CASE tmp[n] # None
    <3>1. i = tmp[n] /\ i \in Inodes
      BY <2>1, <1>1 DEF VariablesTyped
    <3> HIDE DEF i
    <3>2. \A o \in Requests : Writing(o) /\ request[o].inode = i => NameOf(o) = n
      BY <3>1, <1>1 DEF WritersApart
    <3> QED
      BY <3>1, <3>2, <2>1, <1>1 DEF NamesApart
  <2>2. CASE tmp[n] = None
    <3>1. Inodes \ Referenced # {}
      BY <2>2, <1>1, FreeInode
    <3>2. i \in Inodes \ Referenced
      BY <2>2, <3>1
    <3> HIDE DEF i
    <3> QED
      BY <3>2, ConstantFacts DEF Referenced
  <2> QED
    BY <2>1, <2>2
<1> HIDE DEF i
<1>4. q \in RequestType /\ q.at = "copy" /\ q.inode = i /\ q.done = 0 /\ q.todo = request[r].todo
      /\ q.bundle = request[r].bundle
  <2>1. "copy" \in Places /\ 0 \in 0..Chunks /\ i \in Inodes \cup {None}
    BY <1>3 DEF Places, Chunks
  <2>2. request[r] \in RequestType /\ q = [request[r] EXCEPT !.at = "copy", !.inode = i, !.done = 0]
    BY <1>1
  <2> HIDE DEF q
  <2> QED
    BY <2>1, <2>2 DEF RequestType
<1>5. request' = [request EXCEPT ![r] = q]
  BY <1>1, <1>2 DEF VariablesTyped
<1> HIDE DEF q
<1>6. request'[r] = q /\ \A o \in Requests \ {r} : request'[o] = request[o]
  BY <1>5, <1>1 DEF VariablesTyped
<1>7. /\ tmp'[n] = i /\ \A m \in Names \ {n} : tmp'[m] = tmp[m]
      /\ data'[i] = <<>> /\ \A j \in Inodes \ {i} : data'[j] = data[j]
  BY <1>1, <1>2, <1>3 DEF VariablesTyped
<1>8. VariablesTyped'
  <2>1. <<>> \in Parts /\ Len(<<>>) <= Chunks
    BY DEF Parts, Chunks
  <2>2. tmp' \in [Names -> Inodes \cup {None}] /\ data' \in [Inodes -> Parts]
    BY <1>1, <1>2, <1>3, <2>1 DEF VariablesTyped
  <2>3. \A j \in Inodes : Len(data'[j]) <= Chunks
    BY <1>1, <1>7, <2>1 DEF VariablesTyped
  <2>4. request' \in [Requests -> RequestType]
    BY <1>1, <1>4, <1>5 DEF VariablesTyped
  <2> QED
    BY <1>1, <1>2, <2>2, <2>3, <2>4 DEF VariablesTyped
<1>9. published' = published /\ published \in Versions /\ published <= published' /\ Issued' = Issued
  BY <1>1, <1>2, ConstantFacts DEF VariablesTyped, Issued
<1>10. RequestsHold'
  <2>1. Holds(r)'
    BY <1>1, <1>3, <1>4, <1>6, <1>9 DEF Holds, Writing, Chunks
  <2>2. \A o \in Requests \ {r} : Holds(o)'
    BY <1>1, <1>2, <1>6, <1>9, HoldsStill DEF RequestsHold
  <2> QED
    BY <1>1, <1>2, <2>1, <2>2 DEF RequestsHold
<1>11. /\ Writing(r)' /\ NameOf(r)' = n /\ Asset(r)' = Asset(r)
       /\ \A o \in Requests \ {r} : (Writing(o)' <=> Writing(o)) /\ NameOf(o)' = NameOf(o) /\ Asset(o)' = Asset(o)
  BY <1>4, <1>6 DEF Writing, NameOf, Asset
<1>12. NamesApart'
  BY <1>1, <1>2, <1>3, <1>7 DEF NamesApart
<1>13. \A o \in Requests \ {r} : Writing(o) => request[o].inode # None /\ NameOf(o) \in Names
                                             /\ request[o].inode \in Inodes
  BY <1>1, Fields, AtHand DEF Holds, Writing
<1>14. WritersApart'
  <2>1. ASSUME NEW o \in Requests, Writing(o)', NEW m \in Names \ {NameOf(o)'}
        PROVE  request'[o].inode \notin {tmp'[m], file'[m]}
    <3>1. CASE o = r
      BY <3>1, <2>1, <1>2, <1>3, <1>4, <1>6, <1>7, <1>11
    <3>2. CASE o # r
      <4>1. Writing(o) /\ m # NameOf(o) /\ request'[o].inode = request[o].inode
        BY <3>2, <2>1, <1>6, <1>11
      <4>2. request[o].inode \notin {tmp[m], file[m]}
        BY <4>1, <1>1 DEF WritersApart
      <4>3. m = n => request[o].inode # i
        BY <4>1, <1>3
      <4> QED
        BY <4>1, <4>2, <4>3, <1>2, <1>7
    <3> QED
      BY <3>1, <3>2
  <2>2. ASSUME NEW x \in Requests, NEW o \in Requests, Writing(x)', Writing(o)',
               request'[o].inode = request'[x].inode
        PROVE  NameOf(o)' = NameOf(x)'
    <3>1. CASE x # r /\ o # r
      BY <3>1, <2>2, <1>1, <1>6, <1>11 DEF WritersApart
    <3>2. CASE x = r \/ o = r
      BY <3>2, <2>2, <1>3, <1>4, <1>6, <1>11
    <3> QED
      BY <3>1, <3>2
  <2> QED
    BY <2>1, <2>2 DEF WritersApart
<1>15. WritersAlone'
  <2> SUFFICES ASSUME NEW x \in Requests, Writing(x)', NameOf(x)' \notin crossed'
               PROVE  /\ tmp'[NameOf(x)'] = request'[x].inode
                      /\ data'[request'[x].inode] = Whole(Asset(x)', request'[x].done)
                      /\ \A o \in Requests : Writing(o)' /\ NameOf(o)' = NameOf(x)' => o = x
    BY DEF WritersAlone, Alone, Whole
  <2>1. \A o \in Requests : Writing(o) => NameOf(o) # n \/ n \in crossed'
    BY <1>2 DEF Writing
  <2>2. CASE x = r
    <3>1. Whole(Asset(x)', request'[x].done) = <<>>
      BY <2>2, <1>4, <1>6, WholeParts DEF Chunks
    <3> QED
      BY <2>1, <2>2, <3>1, <1>4, <1>6, <1>7, <1>11
  <2>3. CASE x # r
    <3>1. Writing(x) /\ NameOf(x) # n /\ NameOf(x) \notin crossed /\ request'[x] = request[x]
          /\ NameOf(x)' = NameOf(x) /\ Asset(x)' = Asset(x)
      BY <2>1, <2>3, <1>2, <1>6, <1>11
    <3>2. /\ tmp[NameOf(x)] = request[x].inode
          /\ data[request[x].inode] = Whole(Asset(x), request[x].done)
          /\ \A o \in Requests : Writing(o) /\ NameOf(o) = NameOf(x) => o = x
      BY <3>1, <1>1 DEF WritersAlone, Alone
    <3>3. request[x].inode # i /\ request[x].inode \in Inodes /\ NameOf(x) \in Names
      BY <3>1, <2>3, <1>3, <1>13
    <3> QED
      BY <3>1, <3>2, <3>3, <1>7, <1>11
  <2> QED
    BY <2>2, <2>3
<1>16. FilesWhole'
  <2> SUFFICES ASSUME NEW m \in Names \ crossed', file'[m] # None
               PROVE  WholeOf(m, data[file[m]])'
    BY DEF FilesWhole
  <2>1. WholeOf(m, data[file[m]]) /\ file[m] \in Inodes \ {i}
    BY <1>1, <1>2, <1>3 DEF FilesWhole, VariablesTyped
  <2>2. data'[file'[m]] = data[file[m]]
    BY <2>1, <1>2, <1>7
  <2> QED
    BY <2>1, <2>2, <1>9 DEF WholeOf, Whole
<1>17. AnswersWhole'
  <2>1. crossed \subseteq crossed' /\ \A o \in Requests : request'[o] = request[o] \/ request'[o].at # "served"
    BY <1>2, <1>4, <1>6
  <2> QED
    BY <2>1, <1>8, <1>9, AnswersStill
<1> QED
  BY <1>8, <1>10, <1>12, <1>14, <1>15, <1>16, <1>17 DEF CacheInv

(* A part of io.Copy: into a file that is under no finished name unless crossed.     *)
LEMMA CopyStep ==
  ASSUME CacheInv, NEW r \in Requests, CopyPart(r)
  PROVE  CacheInv'
<1> DEFINE n == NameOf(r)
           i == request[r].inode
           k == request[r].done + 1
           at == IF k = Chunks THEN "close" ELSE "copy"
           q == [request[r] EXCEPT !.done = k, !.at = at]
<1>1. /\ VariablesTyped /\ RequestsHold /\ NamesApart /\ WritersApart /\ WritersAlone /\ FilesWhole
      /\ request[r] \in RequestType /\ Holds(r) /\ request[r].at = "copy" /\ i \in Inodes /\ i # None
      /\ n \in Names /\ Asset(r) \in Assets /\ Writing(r)
      /\ request[r].done \in 0..Chunks /\ request[r].done < Chunks
  BY Fields, AtHand DEF CacheInv, Holds, Writing, CopyPart
<1>2. k \in 1..Chunks /\ k - 1 = request[r].done /\ (k # Chunks => k < Chunks)
  BY <1>1 DEF Chunks
<1>3. /\ data' = [data EXCEPT ![i] = Written(@, k, Asset(r))]
      /\ request' = [request EXCEPT ![r].done = k, ![r].at = at]
      /\ UNCHANGED <<published, cached, tmp, file, crossed, faults>>
  BY DEF CopyPart
<1> HIDE DEF k
<1>4. q \in RequestType /\ q.at = at /\ q.inode = i /\ q.done = k /\ q.todo = request[r].todo
      /\ q.bundle = request[r].bundle
  <2>1. at \in Places /\ k \in 0..Chunks
    BY <1>2 DEF Places, Chunks
  <2>2. request[r] \in RequestType
    BY <1>1
  <2> HIDE DEF at
  <2> QED
    BY <2>1, <2>2 DEF RequestType
<1>5. request' = [request EXCEPT ![r] = q]
  BY <1>1, <1>3 DEF VariablesTyped
<1> HIDE DEF i, q
<1>6. request'[r] = q /\ \A o \in Requests \ {r} : request'[o] = request[o]
  BY <1>5, <1>1 DEF VariablesTyped
<1>7. data'[i] = Written(data[i], k, Asset(r)) /\ \A j \in Inodes \ {i} : data'[j] = data[j]
  BY <1>1, <1>3 DEF VariablesTyped
<1>8. VariablesTyped'
  <2>1. data[i] \in Parts /\ Len(data[i]) <= Chunks
    BY <1>1 DEF VariablesTyped
  <2>2. Written(data[i], k, Asset(r)) \in Parts /\ Len(Written(data[i], k, Asset(r))) <= Chunks
    BY <2>1, <1>1, <1>2, WrittenParts
  <2>3. data' \in [Inodes -> Parts]
    BY <1>1, <1>3, <2>2 DEF VariablesTyped
  <2>4. \A j \in Inodes : Len(data'[j]) <= Chunks
    BY <1>1, <1>7, <2>2 DEF VariablesTyped
  <2>5. request' \in [Requests -> RequestType]
    BY <1>1, <1>4, <1>5 DEF VariablesTyped
  <2> QED
    BY <1>1, <1>3, <2>3, <2>4, <2>5 DEF VariablesTyped
<1>9. published' = published /\ published \in Versions /\ published <= published' /\ Issued' = Issued
  BY <1>1, <1>3, ConstantFacts DEF VariablesTyped, Issued
<1>10. RequestsHold'
  <2>1. Holds(r)'
    BY <1>1, <1>2, <1>4, <1>6, <1>9 DEF Holds, Writing
  <2>2. \A o \in Requests \ {r} : Holds(o)'
    BY <1>1, <1>3, <1>6, <1>9, HoldsStill DEF RequestsHold
  <2> QED
    BY <1>1, <1>3, <2>1, <2>2 DEF RequestsHold
<1>11. \A o \in Requests : /\ Writing(o)' <=> Writing(o)
                           /\ NameOf(o)' = NameOf(o) /\ Asset(o)' = Asset(o)
                           /\ request'[o].inode = request[o].inode
  BY <1>1, <1>4, <1>6 DEF Writing, NameOf, Asset, i
<1>12. NamesApart'
  BY <1>1, <1>3 DEF NamesApart
<1>13. WritersApart'
  <2>1. ASSUME NEW o \in Requests, Writing(o)', NEW m \in Names \ {NameOf(o)'}
        PROVE  request'[o].inode \notin {tmp'[m], file'[m]}
    BY <2>1, <1>1, <1>3, <1>11 DEF WritersApart
  <2>2. ASSUME NEW x \in Requests, NEW o \in Requests, Writing(x)', Writing(o)',
               request'[o].inode = request'[x].inode
        PROVE  NameOf(o)' = NameOf(x)'
    BY <2>2, <1>1, <1>11 DEF WritersApart
  <2> QED
    BY <2>1, <2>2 DEF WritersApart
<1>14. WritersAlone'
  <2> SUFFICES ASSUME NEW x \in Requests, Writing(x)', NameOf(x)' \notin crossed'
               PROVE  /\ tmp'[NameOf(x)'] = request'[x].inode
                      /\ data'[request'[x].inode] = Whole(Asset(x)', request'[x].done)
                      /\ \A o \in Requests : Writing(o)' /\ NameOf(o)' = NameOf(x)' => o = x
    BY DEF WritersAlone, Alone, Whole
  <2>1. Writing(x) /\ NameOf(x) \notin crossed
    BY <1>3, <1>11
  <2>2. /\ tmp[NameOf(x)] = request[x].inode
        /\ data[request[x].inode] = Whole(Asset(x), request[x].done)
        /\ \A o \in Requests : Writing(o) /\ NameOf(o) = NameOf(x) => o = x
    BY <2>1, <1>1 DEF WritersAlone, Alone
  <2>3. data'[request'[x].inode] = Whole(Asset(x)', request'[x].done)
    <3>1. CASE x = r
      <4>1. Written(Whole(Asset(r), k - 1), k, Asset(r)) = Whole(Asset(r), k)
        <5>1. k \in 0..Chunks /\ k > 0
          BY <1>2 DEF Chunks
        <5> QED
          BY <5>1, WholeParts
      <4>2. data[i] = Whole(Asset(r), k - 1)
        BY <2>2, <3>1, <1>2 DEF i
      <4> QED
        BY <4>1, <4>2, <3>1, <1>4, <1>6, <1>7, <1>11
    <3>2. CASE x # r
      <4>1. request[x].inode # i
        <5>1. request[x].inode = i => NameOf(x) = NameOf(r)
          BY <1>1, <2>1 DEF WritersApart, i
        <5> QED
          BY <5>1, <2>2, <3>2, <1>1
      <4>2. request[x].inode \in Inodes
        <5>1. request[x].inode \in Inodes \cup {None} /\ request[x].inode # None
          BY <1>1, <2>1, Fields DEF Holds
        <5> QED
          BY <5>1
      <4> QED
        BY <4>1, <4>2, <3>2, <2>2, <1>6, <1>7, <1>11
    <3> QED
      BY <3>1, <3>2
  <2> QED
    BY <2>2, <2>3, <1>3, <1>11
<1>15. FilesWhole'
  <2> SUFFICES ASSUME NEW m \in Names \ crossed', file'[m] # None
               PROVE  WholeOf(m, data[file[m]])'
    BY DEF FilesWhole
  <2>1. WholeOf(m, data[file[m]]) /\ file[m] \in Inodes /\ m \notin crossed
    BY <1>1, <1>3 DEF FilesWhole, VariablesTyped
  <2>2. file[m] # i
    <3>1. CASE m = n
      BY <3>1, <2>1, <1>1 DEF WritersAlone, Alone, NamesApart, i
    <3>2. CASE m # n
      BY <3>2, <1>1 DEF WritersApart, i
    <3> QED
      BY <3>1, <3>2
  <2>3. data'[file'[m]] = data[file[m]]
    BY <2>1, <2>2, <1>3, <1>7
  <2> QED
    BY <2>1, <2>3, <1>9 DEF WholeOf, Whole
<1>16. AnswersWhole'
  <2>1. crossed \subseteq crossed' /\ \A o \in Requests : request'[o] = request[o] \/ request'[o].at # "served"
    BY <1>3, <1>4, <1>6
  <2> QED
    BY <2>1, <1>8, <1>9, AnswersStill
<1> QED
  BY <1>8, <1>10, <1>12, <1>13, <1>14, <1>15, <1>16 DEF CacheInv

(* A request that closes its file.                                                   *)
LEMMA ClosedRequest ==
  ASSUME NEW q \in RequestType
  PROVE  /\ Closed(q) \in RequestType /\ Closed(q).inode = None /\ Closed(q).todo = q.todo
         /\ Closed(q).bundle = q.bundle /\ Closed(q).at = q.at
<1>1. None \in Inodes \cup {None} /\ 0 \in 0..Chunks
  BY DEF Chunks
<1> QED
  BY <1>1 DEF RequestType, Closed

(* CopyFails, and the RenameTmp that finds nothing under the .tmp name.              *)
LEMMA BreakStep ==
  ASSUME CacheInv, NEW r \in Requests, CopyFails(r) \/ (RenameTmp(r) /\ tmp[NameOf(r)] = None)
  PROVE  CacheInv'
<1> DEFINE n == NameOf(r)
           q == NotCached(Closed(request[r]))
<1>1. /\ VariablesTyped /\ RequestsHold /\ WritersAlone
      /\ request[r] \in RequestType /\ Holds(r) /\ Writing(r) /\ n \in Names
      /\ request[r].todo # <<>> /\ request[r].todo \in Seq(Issued) /\ request[r].bundle <= published
  BY Fields, AtHand DEF CacheInv, Holds, Writing, CopyFails, RenameTmp
<1>2. /\ request' = [request EXCEPT ![r] = q]
      /\ UNCHANGED <<published, cached, file, data, crossed>>
      /\ tmp' = [tmp EXCEPT ![n] = None] \/ tmp' = tmp
  BY DEF CopyFails, RenameTmp
<1>3. /\ q \in RequestType /\ q.inode = None /\ q.bundle <= published /\ q.todo \in Seq(Issued)
      /\ q.at \in {"look", "over"} /\ (q.at = "look" => q.todo # <<>>)
  <2>1. /\ Closed(request[r]) \in RequestType /\ Closed(request[r]).inode = None
        /\ Closed(request[r]).todo = request[r].todo /\ Closed(request[r]).bundle = request[r].bundle
    BY <1>1, ClosedRequest
  <2> QED
    BY <1>1, <2>1, Returned
<1>4. /\ tmp' \in [Names -> Inodes \cup {None}]
      /\ \A m \in Names : tmp'[m] \in {tmp[m], None} /\ (m # n => tmp'[m] = tmp[m])
  BY <1>1, <1>2 DEF VariablesTyped
<1>5. \A o \in Requests \ {r} : Writing(o) /\ NameOf(o) \notin crossed => tmp'[NameOf(o)] = tmp[NameOf(o)]
  <2> SUFFICES ASSUME NEW o \in Requests \ {r}, Writing(o), NameOf(o) \notin crossed
               PROVE  tmp'[NameOf(o)] = tmp[NameOf(o)]
    OBVIOUS
  <2>1. NameOf(o) \in Names
    BY <1>1, AtHand DEF RequestsHold, Writing
  <2>2. NameOf(o) # n
    BY <1>1 DEF WritersAlone, Alone
  <2> QED
    BY <2>1, <2>2, <1>4
<1>6. cached' \in 0..published
  BY <1>1, <1>2, ConstantFacts DEF VariablesTyped, RequestsHold
<1> HIDE DEF q
<1> QED
  BY <1>2, <1>3, <1>4, <1>5, <1>6, QuietStep

(* The rename of a file: complete and the name's own, unless the name is crossed.    *)
LEMMA RenameStep ==
  ASSUME CacheInv, NEW r \in Requests, RenameTmp(r), tmp[NameOf(r)] # None
  PROVE  CacheInv'
<1> DEFINE n == NameOf(r)
           q == Cached(Closed(request[r]))
<1>1. /\ VariablesTyped /\ RequestsHold /\ NamesApart /\ WritersApart /\ WritersAlone /\ FilesWhole
      /\ request[r] \in RequestType /\ Holds(r) /\ request[r].at = "close" /\ Writing(r) /\ n \in Names
      /\ request[r].todo # <<>> /\ request[r].todo \in Seq(Issued) /\ request[r].bundle <= published
      /\ Asset(r) \in Issued /\ request[r].done = Chunks
  BY Fields, AtHand DEF CacheInv, Holds, Writing, RenameTmp
<1>2. /\ request' = [request EXCEPT ![r] = q]
      /\ file' = [file EXCEPT ![n] = tmp[n]]
      /\ tmp' = [tmp EXCEPT ![n] = None]
      /\ UNCHANGED <<published, cached, data, crossed>>
  BY DEF RenameTmp, TmpRenamed
<1>3. /\ q \in RequestType /\ q.inode = None /\ q.bundle <= published /\ q.todo \in Seq(Issued)
      /\ q.at \in {"look", "serve", "over"} /\ (q.at # "over" => q.todo # <<>>)
      /\ q.at = "serve" => q.todo = request[r].todo
  <2>1. /\ Closed(request[r]) \in RequestType /\ Closed(request[r]).inode = None
        /\ Closed(request[r]).todo = request[r].todo /\ Closed(request[r]).bundle = request[r].bundle
    BY <1>1, ClosedRequest
  <2> QED
    BY <1>1, <2>1, Returned
<1> HIDE DEF q
<1>4. request'[r] = q /\ \A o \in Requests \ {r} : request'[o] = request[o]
  BY <1>2, <1>1 DEF VariablesTyped
<1>5. /\ file'[n] = tmp[n] /\ \A m \in Names \ {n} : file'[m] = file[m]
      /\ tmp'[n] = None /\ \A m \in Names \ {n} : tmp'[m] = tmp[m]
      /\ tmp[n] \in Inodes
  BY <1>1, <1>2 DEF VariablesTyped
<1>6. VariablesTyped'
  <2>1. file' \in [Names -> Inodes \cup {None}] /\ tmp' \in [Names -> Inodes \cup {None}]
    BY <1>1, <1>2, <1>5 DEF VariablesTyped
  <2>2. request' \in [Requests -> RequestType]
    BY <1>1, <1>2, <1>3 DEF VariablesTyped
  <2> QED
    BY <1>1, <1>2, <2>1, <2>2 DEF VariablesTyped
<1>7. published' = published /\ published \in Versions /\ published <= published' /\ Issued' = Issued
  BY <1>1, <1>2, ConstantFacts DEF VariablesTyped, Issued
<1>8. RequestsHold'
  <2>1. Holds(r)'
    <3>1. q.at = "serve" => file'[NameOf(r)'] # None
      BY <1>3, <1>4, <1>5 DEF NameOf, Asset
    <3> QED
      BY <3>1, <1>3, <1>4, <1>7 DEF Holds, Writing
  <2>2. \A o \in Requests \ {r} : Holds(o)'
    <3>1. \A m \in Names : file[m] # None => file'[m] # None
      BY <1>5, ConstantFacts
    <3> QED
      BY <3>1, <1>1, <1>2, <1>4, <1>7, HoldsStill DEF RequestsHold
  <2> QED
    BY <1>1, <1>2, <2>1, <2>2 DEF RequestsHold
<1>9. NamesApart'
  BY <1>1, <1>5 DEF NamesApart
<1>10. \A o \in Requests : Writing(o)' =>
         /\ o # r /\ Writing(o) /\ request'[o] = request[o]
         /\ NameOf(o)' = NameOf(o) /\ Asset(o)' = Asset(o) /\ request[o].inode # None
  BY <1>1, <1>3, <1>4 DEF Writing, NameOf, Asset, RequestsHold, Holds
<1>11. WritersApart'
  <2>1. ASSUME NEW o \in Requests, Writing(o)', NEW m \in Names \ {NameOf(o)'}
        PROVE  request'[o].inode \notin {tmp'[m], file'[m]}
    BY <2>1, <1>1, <1>5, <1>10 DEF WritersApart
  <2>2. ASSUME NEW x \in Requests, NEW o \in Requests, Writing(x)', Writing(o)',
               request'[o].inode = request'[x].inode
        PROVE  NameOf(o)' = NameOf(x)'
    BY <2>2, <1>1, <1>10 DEF WritersApart
  <2> QED
    BY <2>1, <2>2 DEF WritersApart
<1>12. WritersAlone'
  <2> SUFFICES ASSUME NEW x \in Requests, Writing(x)', NameOf(x)' \notin crossed'
               PROVE  /\ tmp'[NameOf(x)'] = request'[x].inode
                      /\ data'[request'[x].inode] = Whole(Asset(x)', request'[x].done)
                      /\ \A o \in Requests : Writing(o)' /\ NameOf(o)' = NameOf(x)' => o = x
    BY DEF WritersAlone, Alone, Whole
  <2>1. /\ tmp[NameOf(x)] = request[x].inode
        /\ data[request[x].inode] = Whole(Asset(x), request[x].done)
        /\ \A o \in Requests : Writing(o) /\ NameOf(o) = NameOf(x) => o = x
    BY <1>1, <1>2, <1>10 DEF WritersAlone, Alone
  <2>2. NameOf(x) # n /\ NameOf(x) \in Names
    BY <2>1, <1>1, <1>10, AtHand DEF RequestsHold, Writing
  <2> QED
    BY <2>1, <2>2, <1>2, <1>5, <1>10
<1>13. FilesWhole'
  <2> SUFFICES ASSUME NEW m \in Names \ crossed', file'[m] # None
               PROVE  WholeOf(m, data[file[m]])'
    BY DEF FilesWhole
  <2>1. CASE m # n
    <3>1. WholeOf(m, data[file[m]]) /\ data'[file'[m]] = data[file[m]]
      BY <2>1, <1>1, <1>2, <1>5 DEF FilesWhole
    <3> QED
      BY <3>1, <1>7 DEF WholeOf, Whole
  <2>2. CASE m = n
    <3>1. data'[file'[m]] = Whole(Asset(r), Chunks)
      BY <2>2, <1>1, <1>2, <1>5 DEF WritersAlone, Alone
    <3> QED
      BY <2>2, <3>1, <1>1, <1>7 DEF WholeOf, Whole, NameOf
  <2> QED
    BY <2>1, <2>2
<1>14. AnswersWhole'
  <2>1. crossed \subseteq crossed' /\ \A o \in Requests : request'[o] = request[o] \/ request'[o].at # "served"
    BY <1>2, <1>3, <1>4
  <2> QED
    BY <2>1, <1>6, <1>7, AnswersStill
<1> QED
  BY <1>6, <1>8, <1>9, <1>11, <1>12, <1>13, <1>14 DEF CacheInv

(* http.ServeFile hands out what the finished name shows.                            *)
LEMMA ServeStep ==
  ASSUME CacheInv, NEW r \in Requests, ServeFile(r)
  PROVE  CacheInv'
<1> DEFINE got == data[file[NameOf(r)]]
           q == [request[r] EXCEPT !.at = "served", !.got = got]
<1>1. /\ VariablesTyped /\ RequestsHold /\ FilesWhole /\ AnswersWhole
      /\ request[r] \in RequestType /\ Holds(r) /\ request[r].at = "serve" /\ NameOf(r) \in Names
      /\ file[NameOf(r)] # None /\ request[r].inode = None
      /\ request[r].todo # <<>> /\ request[r].todo \in Seq(Issued) /\ request[r].bundle <= published
  BY Fields, AtHand DEF CacheInv, Holds, Writing, ServeFile
<1>2. /\ request' = [request EXCEPT ![r].at = "served", ![r].got = got]
      /\ UNCHANGED <<published, cached, tmp, file, data, crossed>>
  BY DEF ServeFile
<1>3. got \in Parts
  BY <1>1 DEF VariablesTyped
<1> HIDE DEF got
<1>4. q \in RequestType /\ q.at = "served" /\ q.inode = None /\ q.got = got /\ q.todo = request[r].todo
      /\ q.bundle = request[r].bundle
  <2>1. request[r] \in RequestType /\ "served" \in Places /\ request[r].inode = None
    BY <1>1 DEF Places
  <2> QED
    BY <2>1, <1>3 DEF RequestType
<1>5. request' = [request EXCEPT ![r] = q]
  BY <1>1, <1>2 DEF VariablesTyped
<1> HIDE DEF q
<1>6. request'[r] = q /\ \A o \in Requests \ {r} : request'[o] = request[o]
  BY <1>5, <1>1 DEF VariablesTyped
<1>7. VariablesTyped'
  BY <1>1, <1>2, <1>4, <1>5 DEF VariablesTyped
<1>8. published' = published /\ published \in Versions /\ published <= published' /\ Issued' = Issued
  BY <1>1, <1>2, ConstantFacts DEF VariablesTyped, Issued
<1>9. RequestsHold'
  <2>1. Holds(r)'
    BY <1>1, <1>4, <1>6, <1>8 DEF Holds, Writing
  <2>2. \A o \in Requests \ {r} : Holds(o)'
    BY <1>1, <1>2, <1>6, <1>8, HoldsStill DEF RequestsHold
  <2> QED
    BY <1>1, <1>2, <2>1, <2>2 DEF RequestsHold
<1>10. NamesApart' /\ WritersApart' /\ WritersAlone' /\ FilesWhole'
  <2>1. \A o \in Requests : request'[o] = request[o] \/ ~Writing(o)'
    BY <1>4, <1>6 DEF Writing
  <2> QED
    BY <2>1, <1>2, <1>7, <1>8, FilesStill
<1>11. AnswersWhole'
  <2> SUFFICES ASSUME NEW o \in Requests, request'[o].at = "served", NameOf(o)' \notin crossed'
               PROVE  WholeOf(NameOf(o), request[o].got)'
    BY DEF AnswersWhole
  <2>1. NameOf(o)' = NameOf(o)
    BY <1>4, <1>6 DEF NameOf, Asset
  <2>2. WholeOf(NameOf(o), request'[o].got)
    <3>1. CASE o = r
      BY <3>1, <2>1, <1>1, <1>2, <1>4, <1>6 DEF FilesWhole, got
    <3>2. CASE o # r
      BY <3>2, <2>1, <1>1, <1>2, <1>6 DEF AnswersWhole
    <3> QED
      BY <3>1, <3>2
  <2> QED
    BY <2>1, <2>2, <1>8 DEF WholeOf, Whole
<1> QED
  BY <1>7, <1>9, <1>10, <1>11 DEF CacheInv

(* A restart of the gateway closes every file, and keeps the .tmp files.             *)
LEMMA RestartStep == ASSUME CacheInv, Restart PROVE CacheInv'
<1> DEFINE Ended(q) == [Closed(q) EXCEPT !.at = "over"]
<1>1. /\ VariablesTyped /\ RequestsHold
      /\ request' = [o \in Requests |-> IF request[o].at \in {"new", "served"} THEN request[o]
                                       ELSE Ended(request[o])]
      /\ UNCHANGED <<published, cached, tmp, file, data, crossed>>
  BY DEF CacheInv, Restart
<1>2. ASSUME NEW o \in Requests
      PROVE  /\ request'[o] = request[o]
                \/ /\ request'[o].at = "over" /\ request'[o].inode = None
                   /\ request'[o].bundle = request[o].bundle /\ request'[o].todo = request[o].todo
             /\ request'[o] \in RequestType
  <2>1. request[o] \in RequestType
    BY <1>1 DEF VariablesTyped
  <2>2. /\ Closed(request[o]) \in RequestType /\ Closed(request[o]).inode = None
        /\ Closed(request[o]).todo = request[o].todo /\ Closed(request[o]).bundle = request[o].bundle
    BY <2>1, ClosedRequest
  <2>3. /\ Ended(request[o]) \in RequestType /\ Ended(request[o]).at = "over"
        /\ Ended(request[o]).inode = None
        /\ Ended(request[o]).bundle = request[o].bundle /\ Ended(request[o]).todo = request[o].todo
    <3>1. "over" \in Places
      BY DEF Places
    <3> QED
      BY <3>1, <2>2 DEF RequestType
  <2> HIDE DEF Ended
  <2> QED
    BY <1>1, <2>1, <2>3
<1>3. VariablesTyped'
  <2>1. request' \in [Requests -> RequestType]
    <3>1. request' = [o \in Requests |-> request'[o]]
      BY <1>1
    <3> QED
      BY <3>1, <1>2
  <2> QED
    BY <1>1, <2>1 DEF VariablesTyped
<1>4. published' = published /\ published \in Versions /\ published <= published' /\ Issued' = Issued
  BY <1>1, ConstantFacts DEF VariablesTyped, Issued
<1>5. RequestsHold'
  <2> SUFFICES ASSUME NEW o \in Requests PROVE Holds(o)'
    BY <1>1 DEF RequestsHold
  <2>1. CASE request'[o] = request[o]
    BY <2>1, <1>1, <1>4, HoldsStill DEF RequestsHold
  <2>2. CASE request'[o] # request[o]
    BY <2>2, <1>1, <1>2, <1>4 DEF RequestsHold, Holds, Writing
  <2> QED
    BY <2>1, <2>2
<1>6. NamesApart' /\ WritersApart' /\ WritersAlone' /\ FilesWhole' /\ AnswersWhole'
  <2>1. \A o \in Requests : request'[o] = request[o] \/ (~Writing(o)' /\ request'[o].at # "served")
    BY <1>2 DEF Writing
  <2> QED
    BY <2>1, <1>1, <1>3, <1>4, FilesStill, AnswersStill
<1> QED
  BY <1>3, <1>5, <1>6 DEF CacheInv

(* The invariant is inductive.                                                       *)
LEMMA CacheStep == CacheInv /\ [Next]_vars => CacheInv'
<1> SUFFICES ASSUME CacheInv, [Next]_vars PROVE CacheInv'
  OBVIOUS
<1>1. CASE UNCHANGED vars
  BY <1>1, StutterStep
<1>2. CASE Publish \/ Expire
  BY <1>2, PublishStep
<1>3. CASE Restart
  BY <1>3, RestartStep
<1>4. ASSUME NEW r \in Requests, NEW wants \in Assets \cup {"policy", "ads"}, Ask(r, wants) PROVE CacheInv'
  BY <1>4, AskStep
<1>5. ASSUME NEW r \in Requests, FetchBundle(r) \/ FetchFails(r) \/ KeepBundle(r) PROVE CacheInv'
  BY <1>5, FetchStep
<1>6. ASSUME NEW r \in Requests, Look(r) \/ GetFails(r) PROVE CacheInv'
  BY <1>6, LookStep
<1>7. ASSUME NEW r \in Requests, CreateTmp(r) PROVE CacheInv'
  BY <1>7, CreateStep
<1>8. ASSUME NEW r \in Requests, CopyPart(r) PROVE CacheInv'
  BY <1>8, CopyStep
<1>9. ASSUME NEW r \in Requests, CopyFails(r) \/ RenameTmp(r) PROVE CacheInv'
  BY <1>9, BreakStep, RenameStep
<1>10. ASSUME NEW r \in Requests, ServeFile(r) PROVE CacheInv'
  BY <1>10, ServeStep
<1> QED
  BY <1>1, <1>2, <1>3, <1>4, <1>5, <1>6, <1>7, <1>8, <1>9, <1>10 DEF Next

(* Hence it always holds.                                                            *)
LEMMA CacheInvariant == Spec => []CacheInv
BY InitHolds, CacheStep, PTL DEF Spec

(* The handlers' variables keep their types, and no inode of the cache directory     *)
(* ever has two names (downloadFileToPath's .tmp file and rename).                   *)
THEOREM TypeCorrect == Spec => []TypeOK
<1>1. CacheInv => TypeOK
  <2> SUFFICES ASSUME CacheInv PROVE TypeOK
    OBVIOUS
  <2>1. \A r \in Requests : request[r].done \in 0..Chunks /\ request[r].bundle \in Versions \cup {0}
    BY Fields DEF CacheInv
  <2> QED
    BY <2>1 DEF CacheInv, VariablesTyped, NamesApart, TypeOK
<1> QED
  BY <1>1, CacheInvariant, PTL

(* GetMaterialFile serves the whole of one published asset of the name, unless two   *)
(* downloads had its .tmp file open together.                                        *)
THEOREM FilesServedWhole == Spec => []ServedWhole
<1>1. CacheInv => ServedWhole
  BY DEF CacheInv, AnswersWhole, ServedWhole, WholeOf, Whole, Issued
<1> QED
  BY <1>1, CacheInvariant, PTL

--------------------------------------------------------------------------------
(* The control plane: materials.py and material_service.py.                          *)
(* What is under way.                                                                *)
Working(u) == upload[u].at \in {"taken", "indexed"}
Stored(u) == upload[u].at \in {"indexed", "answered", "lost"}
Busy(j) == job[j].at \notin {"waiting", "over"}
Deletes(j) == job[j].at \in {"row", "entry", "unlink"}

UploadType == [at : {"waiting", "taken", "indexed", "answered", "lost"}, id : Ids \cup {0}]
JobType ==
  [at : {"waiting", "row", "entry", "mark", "finish", "over"}, id : Ids \cup {0}]
  \cup [at : {"unlink"}, id : Ids, of : Uploads \cup {Ghost}]

MaterialsTyped ==
  /\ index \in [Ids -> Entries \cup {Nothing}]
  /\ rows \in [Ids -> Uploads \cup {Nothing}]
  /\ disk \in [Ids \X UploadNames -> (Uploads \ Links) \cup {Nothing}]
  /\ upload \in [Uploads -> UploadType]
  /\ \A u \in Uploads : upload[u].at # "waiting" => upload[u].id \in Ids
  /\ \A u \in Links : upload[u].at # "taken"
  /\ job \in [Jobs -> JobType]
  /\ \A j \in Jobs : job[j].at # "waiting" => job[j].id \in Ids
  /\ gone \subseteq Uploads

(* Who meets at an id has been noted.                                                *)
MeetingsNoted ==
  /\ \A u, v \in Uploads : Working(u) /\ Working(v) /\ u # v /\ upload[u].id = upload[v].id
       => <<upload[u].id, {"upload"}>> \in mixed
  /\ \A u \in Uploads : \A j \in Jobs : Working(u) /\ Busy(j) /\ upload[u].id = job[j].id
       => <<upload[u].id, {KindOf(j), "upload"}>> \in mixed
  /\ \A j, k \in Jobs : Busy(j) /\ Busy(k) /\ j # k /\ job[j].id = job[k].id
       => <<job[j].id, {KindOf(j), KindOf(k)}>> \in mixed

(* An entry is of an upload that was given its id, and no entry is of a deleted one. *)
EntriesOwned ==
  /\ \A i \in Ids : index[i] # Nothing =>
       \A u \in Uploads : u = index[i].content => upload[u].id = i /\ Stored(u) /\ u \notin gone
  /\ \A u \in gone : Stored(u)
  /\ \A j \in Jobs : job[j].at = "unlink" /\ job[j].of \in Uploads =>
       job[j].of \in gone /\ upload[job[j].of].id = job[j].id

(* The entry and the file of an upload, while nothing has met it.                    *)
Has(u, i) ==
  /\ index[i] # Nothing /\ index[i].content = u
  /\ disk[<<i, UploadName[u]>>] = u \/ u \in Links
  /\ \A j \in Jobs : job[j].at = "unlink" => job[j].id # i
  /\ \A v \in Uploads : upload[v].at = "taken" => upload[v].id # i

UploadsKept ==
  \A u \in Uploads \ gone : LET i == upload[u].id IN
    upload[u].at \in {"indexed", "answered"} /\ Calm(i, {{"upload"}, {"upload", "delete"}})
      => Has(u, i)

(* The file of a deleted upload is gone, or about to go, if nothing kept it.         *)
Keeps == {{"delete", "disk"}, {"delete", "restart"}}
FilesGo ==
  \A u \in gone : LET i == upload[u].id IN
    Calm(i, Keeps) /\ disk[<<i, UploadName[u]>>] = u
      => \E j \in Jobs : job[j].at = "unlink" /\ job[j].id = i /\ job[j].of = u

(* The row and the entry of an id, at every place of an upload and of a deletion.    *)
Encounters ==
  {{"upload"}, {"upload", "delete"}, {"delete", "transcode"}, {"upload", "db"},
   {"delete", "db"}, {"delete", "disk"}, {"upload", "restart"}, {"delete", "restart"}}

InStep(i) ==
  /\ \A u \in Uploads : upload[u].at = "taken" /\ upload[u].id = i => rows[i] = Nothing /\ index[i] = Nothing
  /\ \A u \in Uploads : upload[u].at = "indexed" /\ upload[u].id = i =>
       rows[i] = Nothing /\ index[i] # Nothing /\ index[i].content = u
  /\ \A j \in Jobs : job[j].id = i /\ job[j].at = "entry" => rows[i] = Nothing
  /\ \A j \in Jobs : job[j].id = i /\ job[j].at \in {"mark", "finish"} => index[i] # Nothing
  /\ rows[i] # Nothing => index[i] # Nothing /\ index[i].content = rows[i]
  /\ index[i] # Nothing /\ index[i].content # rows[i] =>
       \/ \E u \in Uploads : upload[u].at = "indexed" /\ upload[u].id = i
       \/ \E j \in Jobs : job[j].id = i /\ job[j].at = "entry"

RowsInStep == \A i \in Ids : Calm(i, Encounters) => InStep(i)

MaterialsInv ==
  /\ MaterialsTyped
  /\ MeetingsNoted
  /\ EntriesOwned
  /\ UploadsKept
  /\ FilesGo
  /\ RowsInStep
--------------------------------------------------------------------------------
(* A set of numbers that is not empty has a least one.                               *)
LEMMA Least ==
  ASSUME NEW I \in SUBSET Nat, I # {}
  PROVE  \E i \in I : \A j \in I : i <= j
<1>1. IsWellFoundedOn(OpToRel(<, Nat), Nat)
  BY NatLessThanWellFounded
<1>2. PICK i \in I : \A j \in I : ~(<<j, i>> \in OpToRel(<, Nat))
  BY <1>1, WFMin
<1>3. \A j \in I : ~(j < i)
  BY <1>2 DEF OpToRel
<1> QED
  BY <1>3

(* A set of numbers up to a bound that holds 0 has a greatest element.               *)
LEMMA Greatest ==
  ASSUME NEW b \in Nat, NEW S \in SUBSET (0..b), 0 \in S
  PROVE  Max(S) \in S /\ \A j \in S : j <= Max(S)
<1> DEFINE J == {b - i : i \in S}
<1>1. J \in SUBSET Nat /\ J # {}
  OBVIOUS
<1> HIDE DEF J
<1>4. PICK d \in J : \A e \in J : d <= e
  BY <1>1, Least
<1>5. PICK m \in S : d = b - m
  BY DEF J
<1>6. \A j \in S : m >= j
  <2> SUFFICES ASSUME NEW j \in S PROVE m >= j
    OBVIOUS
  <2>1. b - m <= b - j
    BY <1>4, <1>5 DEF J
  <2> QED
    BY <2>1
<1>7. Max(S) \in S /\ \A j \in S : Max(S) >= j
  BY <1>6, Zenon DEF Max
<1> QED
  BY <1>7

(* get_next_material_id: nothing in the index has the id, and no row that was seen.  *)
LEMMA NextIdFree ==
  ASSUME NEW dbAnswers \in BOOLEAN, NEW i \in Ids, i = NextId(dbAnswers)
  PROVE  index[i] = Nothing /\ (dbAnswers => rows[i] = Nothing)
<1> DEFINE S == {0} \cup Taken(index) \cup (IF dbAnswers THEN Taken(rows) ELSE {})
<1>1. MaxId \in Nat
  BY MaterialsConstants
<1>2. S \in SUBSET (0..MaxId) /\ 0 \in S
  BY <1>1 DEF Taken, Ids
<1>3. i = 1 + Max(S)
  BY DEF NextId
<1> HIDE DEF S
<1>4. Max(S) \in S /\ \A j \in S : j <= Max(S)
  BY <1>1, <1>2, Greatest
<1>5. Max(S) \in 0..MaxId
  BY <1>2, <1>4
<1>6. ~(i <= Max(S))
  BY <1>3, <1>5
<1>7. i \notin S
  BY <1>4, <1>6
<1> QED
  BY <1>7 DEF S, Taken

(* The fields of uploads and jobs, one by one.                                       *)
LEMMA UploadFields ==
  ASSUME MaterialsTyped, NEW u \in Uploads
  PROVE  /\ upload[u] \in UploadType /\ upload[u].id \in Ids \cup {0}
         /\ upload[u].at \in {"waiting", "taken", "indexed", "answered", "lost"}
         /\ upload[u].at # "waiting" => upload[u].id \in Ids
         /\ UploadName[u] \in UploadNames
BY MaterialsConstants DEF MaterialsTyped, UploadType, UploadNames

(* What a job holds.                                                          *)
LEMMA JobFields ==
  ASSUME MaterialsTyped, NEW j \in Jobs
  PROVE  /\ job[j] \in JobType /\ job[j].id \in Ids \cup {0}
         /\ job[j].at \in {"waiting", "row", "entry", "mark", "finish", "over", "unlink"}
         /\ job[j].at # "waiting" => job[j].id \in Ids
         /\ job[j].at = "unlink" => job[j].of \in Uploads \cup {Ghost}
BY DEF MaterialsTyped, JobType

(* An upload, or a job, goes on: the others stay where they are.                     *)
LEMMA UploadMoves ==
  ASSUME MaterialsTyped, NEW u \in Uploads, NEW i \in Ids, NEW at \in {"taken", "indexed", "answered", "lost"},
         at = "taken" => u \notin Links,
         upload' = [upload EXCEPT ![u] = Under(at, i)]
                   \/ (upload' = [upload EXCEPT ![u].at = at] /\ upload[u].id = i)
  PROVE  /\ upload' \in [Uploads -> UploadType]
         /\ \A v \in Uploads : upload'[v].at # "waiting" => upload'[v].id \in Ids
         /\ \A v \in Links : upload'[v].at # "taken"
         /\ upload'[u].at = at /\ upload'[u].id = i
         /\ \A v \in Uploads \ {u} : upload'[v] = upload[v]
<1>1. upload \in [Uploads -> UploadType] /\ upload[u] \in UploadType /\ Links \subseteq Uploads
  BY MaterialsConstants DEF MaterialsTyped
<1>2. upload' \in [Uploads -> UploadType] /\ upload'[u].at = at /\ upload'[u].id = i
  BY <1>1 DEF UploadType, Under
<1>3. \A v \in Uploads \ {u} : upload'[v] = upload[v]
  BY <1>1
<1> QED
  BY <1>1, <1>2, <1>3 DEF MaterialsTyped

(* A job moves to another step, and the others stay.                          *)
LEMMA JobMoves ==
  ASSUME MaterialsTyped, NEW j \in Jobs, NEW i \in Ids, NEW at \in {"row", "entry", "mark", "finish", "over"},
         job' = [job EXCEPT ![j] = Under(at, i)]
         \/ (job' = [job EXCEPT ![j].at = at] /\ job[j].id = i /\ job[j].at # "unlink")
  PROVE  /\ job' \in [Jobs -> JobType]
         /\ \A k \in Jobs : job'[k].at # "waiting" => job'[k].id \in Ids
         /\ job'[j].at = at /\ job'[j].id = i
         /\ \A k \in Jobs \ {j} : job'[k] = job[k]
<1>1. job \in [Jobs -> JobType] /\ job[j] \in JobType
  BY DEF MaterialsTyped
<1>2. CASE job' = [job EXCEPT ![j] = Under(at, i)]
  <2>1. Under(at, i) \in JobType /\ Under(at, i).at = at /\ Under(at, i).id = i
    BY DEF Under, JobType
  <2> QED
    BY <1>1, <1>2, <2>1 DEF MaterialsTyped
<1>3. CASE job' = [job EXCEPT ![j].at = at] /\ job[j].id = i /\ job[j].at # "unlink"
  <2> DEFINE p == [job[j] EXCEPT !.at = at]
  <2>1. job[j] \in [at : {"waiting", "row", "entry", "mark", "finish", "over"}, id : Ids \cup {0}]
    BY <1>1, <1>3 DEF JobType
  <2>2. p \in [at : {"waiting", "row", "entry", "mark", "finish", "over"}, id : Ids \cup {0}]
        /\ p.at = at /\ p.id = i
    BY <1>3, <2>1
  <2>3. job' = [job EXCEPT ![j] = p]
    BY <1>3
  <2>4. p \in JobType
    BY <2>2 DEF JobType
  <2> HIDE DEF p
  <2> QED
    BY <1>1, <2>2, <2>3, <2>4 DEF MaterialsTyped
<1> QED
  BY <1>2, <1>3

(* transcode_material and update_material_status change no entry's content, and      *)
(* leave no entry out.                                                               *)
LEMMA StatusSet ==
  ASSUME MaterialsTyped, NEW i \in Ids, NEW s \in Statuses
  PROVE  /\ WithStatus(i, s) \in [Ids -> Entries \cup {Nothing}]
         /\ \A k \in Ids \ {i} : WithStatus(i, s)[k] = index[k]
         /\ WithStatus(i, s)[i] # Nothing
         /\ WithStatus(i, s)[i].content = IF index[i] = Nothing THEN Ghost ELSE index[i].content
<1>1. index \in [Ids -> Entries \cup {Nothing}] /\ (index[i] # Nothing => index[i] \in Entries)
  BY DEF MaterialsTyped
<1> DEFINE e == IF index[i] = Nothing THEN Entry(Ghost, s) ELSE [index[i] EXCEPT !.status = s]
<1>2. e \in Entries /\ e.content = IF index[i] = Nothing THEN Ghost ELSE index[i].content
  BY <1>1 DEF Entries, Entry
<1>3. WithStatus(i, s) = [index EXCEPT ![i] = e]
  BY <1>1 DEF WithStatus
<1> HIDE DEF e
<1>4. Nothing \notin Entries
  BY MaterialsConstants
<1> QED
  BY <1>1, <1>2, <1>3, <1>4

--------------------------------------------------------------------------------
(* What a beginning of kind k meets at an id is noted.                               *)
LEMMA MeetsAll ==
  ASSUME NEW i, NEW k
  PROVE  /\ \A u \in Uploads : Working(u) /\ upload[u].id = i => <<i, {k, "upload"}>> \in Meets(i, k)
         /\ \A j \in Jobs : Busy(j) /\ job[j].id = i => <<i, {k, KindOf(j)}>> \in Meets(i, k)
<1>1. \A u \in Uploads : Working(u) /\ upload[u].id = i => "upload" \in UnderWay(i)
  BY DEF Working, UnderWay
<1>2. \A j \in Jobs : Busy(j) /\ job[j].id = i => KindOf(j) \in UnderWay(i)
  BY DEF Busy, UnderWay
<1> QED
  BY <1>1, <1>2 DEF Meets

(* A step in which nothing begins.                                                   *)
LEMMA MeetingsStay ==
  ASSUME MeetingsNoted, mixed \subseteq mixed',
         \A u \in Uploads : Working(u)' => Working(u) /\ upload'[u].id = upload[u].id,
         \A j \in Jobs : Busy(j)' => Busy(j) /\ job'[j].id = job[j].id /\ KindOf(j)' = KindOf(j)
  PROVE  MeetingsNoted'
<1>1. ASSUME NEW u \in Uploads, NEW v \in Uploads, Working(u)', Working(v)', u # v,
             upload'[u].id = upload'[v].id
      PROVE  <<upload'[u].id, {"upload"}>> \in mixed'
  BY <1>1 DEF MeetingsNoted
<1>2. ASSUME NEW u \in Uploads, NEW j \in Jobs, Working(u)', Busy(j)', upload'[u].id = job'[j].id
      PROVE  <<upload'[u].id, {KindOf(j)', "upload"}>> \in mixed'
  BY <1>2 DEF MeetingsNoted
<1>3. ASSUME NEW j \in Jobs, NEW k \in Jobs, Busy(j)', Busy(k)', j # k, job'[j].id = job'[k].id
      PROVE  <<job'[j].id, {KindOf(j)', KindOf(k)'}>> \in mixed'
  BY <1>3 DEF MeetingsNoted
<1> QED
  BY <1>1, <1>2, <1>3 DEF MeetingsNoted

(* A step that brings no new entry, deletes none and gives no job a file to remove.  *)
LEMMA EntriesStay ==
  ASSUME EntriesOwned, gone' = gone,
         \A i \in Ids : index'[i] # Nothing /\ index'[i].content \in Uploads =>
           index[i] # Nothing /\ index[i].content = index'[i].content,
         \A u \in Uploads : Stored(u) => Stored(u)' /\ upload'[u].id = upload[u].id,
         \A u \in gone : u \in Uploads,
         \A j \in Jobs : job'[j].at = "unlink" =>
           job[j].at = "unlink" /\ job'[j].of = job[j].of /\ job'[j].id = job[j].id
  PROVE  EntriesOwned'
<1>1. ASSUME NEW i \in Ids, NEW u \in Uploads, index'[i] # Nothing, index'[i].content = u
      PROVE  upload'[u].id = i /\ Stored(u)' /\ u \notin gone'
  BY <1>1 DEF EntriesOwned
<1>2. \A u \in gone' : Stored(u)'
  BY DEF EntriesOwned
<1>3. ASSUME NEW j \in Jobs, job'[j].at = "unlink", job'[j].of \in Uploads
      PROVE  job'[j].of \in gone' /\ upload'[job'[j].of].id = job'[j].id
  BY <1>3 DEF EntriesOwned
<1> QED
  BY <1>1, <1>2, <1>3 DEF EntriesOwned

(* A step that takes no entry and no file from the id of u.                          *)
LEMMA KeptStays ==
  ASSUME UploadsKept, NEW u \in Uploads, u \notin gone', gone \subseteq gone', mixed \subseteq mixed',
         upload[u].at \in {"indexed", "answered"}, upload'[u].id = upload[u].id,
         Calm(upload[u].id, {{"upload"}, {"upload", "delete"}})',
         index[upload[u].id] # Nothing /\ index[upload[u].id].content = u =>
           index'[upload[u].id] # Nothing /\ index'[upload[u].id].content = u,
         disk'[<<upload[u].id, UploadName[u]>>] = disk[<<upload[u].id, UploadName[u]>>],
         \A j \in Jobs : job'[j].at = "unlink" /\ job'[j].id = upload[u].id =>
           job[j].at = "unlink" /\ job[j].id = upload[u].id,
         \A v \in Uploads : upload'[v].at = "taken" /\ upload'[v].id = upload[u].id =>
           upload[v].at = "taken" /\ upload[v].id = upload[u].id
  PROVE  Has(u, upload[u].id)'
<1>1. Calm(upload[u].id, {{"upload"}, {"upload", "delete"}})
  BY DEF Calm
<1>2. Has(u, upload[u].id)
  BY <1>1 DEF UploadsKept
<1> QED
  BY <1>2 DEF Has

(* A step that leaves the disk and the pending removals alone.                       *)
LEMMA FilesStay ==
  ASSUME FilesGo, gone' = gone, gone \subseteq Uploads, disk' = disk, mixed \subseteq mixed',
         \A u \in gone : upload'[u].id = upload[u].id,
         \A j \in Jobs : job[j].at = "unlink" => job'[j] = job[j]
  PROVE  FilesGo'
<1> SUFFICES ASSUME NEW u \in gone', Calm(upload[u].id, Keeps)',
                    disk'[<<upload'[u].id, UploadName[u]>>] = u
             PROVE  \E j \in Jobs : job'[j].at = "unlink" /\ job'[j].id = upload'[u].id /\ job'[j].of = u
  BY DEF FilesGo
<1>1. Calm(upload[u].id, Keeps) /\ disk[<<upload[u].id, UploadName[u]>>] = u
  BY DEF Calm
<1> QED
  BY <1>1 DEF FilesGo

(* A step that changes nothing of what InStep looks at, at this id.                  *)
LEMMA InStepStays ==
  ASSUME NEW i \in Ids, InStep(i), rows'[i] = rows[i],
         (index'[i] # Nothing) <=> (index[i] # Nothing),
         index[i] # Nothing => index'[i].content = index[i].content,
         \A u \in Uploads : \A at \in {"taken", "indexed"} :
           upload'[u].at = at /\ upload'[u].id = i <=> upload[u].at = at /\ upload[u].id = i,
         \A j \in Jobs : job'[j].id = i /\ job'[j].at = "entry" <=> job[j].id = i /\ job[j].at = "entry",
         \A j \in Jobs : job'[j].id = i /\ job'[j].at \in {"mark", "finish"} =>
           (job[j].id = i /\ job[j].at \in {"mark", "finish"}) \/ index[i] # Nothing
  PROVE  InStep(i)'
<1>1. /\ \A u \in Uploads : upload'[u].at = "taken" /\ upload'[u].id = i => rows'[i] = Nothing /\ index'[i] = Nothing
      /\ \A u \in Uploads : upload'[u].at = "indexed" /\ upload'[u].id = i =>
           rows'[i] = Nothing /\ index'[i] # Nothing /\ index'[i].content = u
  BY DEF InStep
<1>2. /\ \A j \in Jobs : job'[j].id = i /\ job'[j].at = "entry" => rows'[i] = Nothing
      /\ \A j \in Jobs : job'[j].id = i /\ job'[j].at \in {"mark", "finish"} => index'[i] # Nothing
  BY DEF InStep
<1>3. rows'[i] # Nothing => index'[i] # Nothing /\ index'[i].content = rows'[i]
  BY DEF InStep
<1>4. index'[i] # Nothing /\ index'[i].content # rows'[i] =>
        \/ \E u \in Uploads : upload'[u].at = "indexed" /\ upload'[u].id = i
        \/ \E j \in Jobs : job'[j].id = i /\ job'[j].at = "entry"
  BY DEF InStep
<1> QED
  BY <1>1, <1>2, <1>3, <1>4 DEF InStep

(* Less was calm before than is now.                                                 *)
LEMMA CalmBefore ==
  ASSUME NEW i, NEW S, mixed \subseteq mixed', Calm(i, S)'
  PROVE  Calm(i, S)
BY DEF Calm

(* What an id whose history is calm has not met, spelled out.                        *)
LEMMA CalmMeans ==
  ASSUME NEW i, Calm(i, Encounters)
  PROVE  /\ <<i, {"upload"}>> \notin mixed
         /\ <<i, {"upload", "delete"}>> \notin mixed /\ <<i, {"delete", "upload"}>> \notin mixed
         /\ <<i, {"delete", "transcode"}>> \notin mixed /\ <<i, {"transcode", "delete"}>> \notin mixed
         /\ <<i, {"upload", "db"}>> \notin mixed /\ <<i, {"delete", "db"}>> \notin mixed
         /\ <<i, {"delete", "disk"}>> \notin mixed
         /\ <<i, {"upload", "restart"}>> \notin mixed /\ <<i, {"restart", "upload"}>> \notin mixed
         /\ <<i, {"delete", "restart"}>> \notin mixed /\ <<i, {"restart", "delete"}>> \notin mixed
<1>1. /\ {"delete", "upload"} = {"upload", "delete"} /\ {"transcode", "delete"} = {"delete", "transcode"}
      /\ {"restart", "upload"} = {"upload", "restart"} /\ {"restart", "delete"} = {"delete", "restart"}
  OBVIOUS
<1> QED
  BY <1>1 DEF Calm, Encounters

(* The kind of a job by its place.                                                   *)
LEMMA Kinds ==
  ASSUME MaterialsTyped, NEW j \in Jobs
  PROVE  /\ Busy(j) <=> job[j].at \in {"row", "entry", "unlink", "mark", "finish"}
         /\ Deletes(j) => Busy(j) /\ KindOf(j) = "delete"
         /\ Busy(j) /\ ~Deletes(j) => job[j].at \in {"mark", "finish"}
         /\ job[j].at \in {"mark", "finish"} => Busy(j) /\ KindOf(j) = "transcode"
BY JobFields DEF Busy, Deletes, KindOf

--------------------------------------------------------------------------------
(* The invariant holds at the start.                                          *)
LEMMA InitMaterials == MaterialsInit => MaterialsInv
<1> SUFFICES ASSUME MaterialsInit PROVE MaterialsInv
  OBVIOUS
<1>1. (\A u \in Uploads : upload[u].at = "waiting") /\ (\A j \in Jobs : job[j].at = "waiting")
  BY DEF MaterialsInit, Waiting
<1>2. MaterialsTyped
  <2>1. Waiting \in UploadType /\ Waiting \in JobType /\ Waiting.at = "waiting"
    BY DEF Waiting, UploadType, JobType
  <2> QED
    BY <2>1, MaterialsConstants DEF MaterialsInit, MaterialsTyped
<1>3. MeetingsNoted /\ EntriesOwned
  BY <1>1 DEF MaterialsInit, MeetingsNoted, EntriesOwned, Working, Busy
<1>4. UploadsKept /\ FilesGo /\ RowsInStep
  BY <1>1 DEF MaterialsInit, UploadsKept, FilesGo, RowsInStep, InStep
<1> QED
  BY <1>2, <1>3, <1>4 DEF MaterialsInv

(* An upload takes an id that nothing it has seen holds.                             *)
LEMMA TakeStep ==
  ASSUME MaterialsInv, NEW u \in Uploads, NEW i \in Ids, NEW dbAnswers \in BOOLEAN,
         NEW at \in {"taken", "indexed"}, Takes(u, i, dbAnswers, at),
         \/ at = "taken" /\ u \notin Links /\ index' = index
         \/ at = "indexed" /\ u \in Links /\ index' = [index EXCEPT ![i] = Entry(u, "uploaded")]
  PROVE  MaterialsInv'
<1>1. /\ MaterialsTyped /\ MeetingsNoted /\ EntriesOwned /\ UploadsKept /\ FilesGo /\ RowsInStep
      /\ upload[u].at = "waiting" /\ ~Working(u) /\ ~Stored(u) /\ u \notin gone
  BY DEF MaterialsInv, Takes, Working, Stored, EntriesOwned
<1>2. index[i] = Nothing /\ (dbAnswers => rows[i] = Nothing)
  BY NextIdFree DEF Takes
<1>3. /\ mixed \subseteq mixed' /\ Meets(i, "upload") \subseteq mixed'
      /\ ~dbAnswers => <<i, {"upload", "db"}>> \in mixed'
      /\ UNCHANGED <<rows, disk, job, gone>>
      /\ upload' = [upload EXCEPT ![u] = Under(at, i)]
  BY DEF Takes
<1>4. /\ upload' \in [Uploads -> UploadType]
      /\ \A v \in Uploads : upload'[v].at # "waiting" => upload'[v].id \in Ids
      /\ \A v \in Links : upload'[v].at # "taken"
      /\ upload'[u].at = at /\ upload'[u].id = i
      /\ \A v \in Uploads \ {u} : upload'[v] = upload[v]
  BY <1>1, <1>3, UploadMoves
<1>5. /\ index' \in [Ids -> Entries \cup {Nothing}]
      /\ \A k \in Ids \ {i} : index'[k] = index[k]
      /\ at = "taken" => index'[i] = Nothing
      /\ at = "indexed" => index'[i] # Nothing /\ index'[i].content = u
  <2>1. Entry(u, "uploaded") \in Entries /\ Entry(u, "uploaded").content = u
        /\ Entry(u, "uploaded") # Nothing
    BY MaterialsConstants DEF Entry, Entries, Statuses
  <2> QED
    BY <1>1, <1>2, <2>1 DEF MaterialsTyped
<1>6. MaterialsTyped'
  BY <1>1, <1>3, <1>4, <1>5 DEF MaterialsTyped
<1>7. /\ \A v \in Uploads \ {u} : (Working(v)' <=> Working(v)) /\ (Stored(v)' <=> Stored(v))
      /\ Working(u)' /\ (at = "indexed" => Stored(u)')
      /\ \A j \in Jobs : (Busy(j)' <=> Busy(j)) /\ KindOf(j)' = KindOf(j)
  BY <1>3, <1>4 DEF Working, Stored, Busy, KindOf
<1>8. /\ \A v \in Uploads : Working(v) /\ upload[v].id = i => <<i, {"upload"}>> \in mixed'
      /\ \A j \in Jobs : Busy(j) /\ job[j].id = i => <<i, {KindOf(j), "upload"}>> \in mixed'
  <2>1. {"upload", "upload"} = {"upload"}
    OBVIOUS
  <2>2. \A j : {"upload", KindOf(j)} = {KindOf(j), "upload"}
    OBVIOUS
  <2> QED
    BY <2>1, <2>2, <1>3, MeetsAll
<1>9. MeetingsNoted'
  <2>1. ASSUME NEW v \in Uploads, NEW w \in Uploads, Working(v)', Working(w)', v # w,
               upload'[v].id = upload'[w].id
        PROVE  <<upload'[v].id, {"upload"}>> \in mixed'
    BY <2>1, <1>1, <1>3, <1>4, <1>7, <1>8 DEF MeetingsNoted
  <2>2. ASSUME NEW v \in Uploads, NEW j \in Jobs, Working(v)', Busy(j)', upload'[v].id = job'[j].id
        PROVE  <<upload'[v].id, {KindOf(j)', "upload"}>> \in mixed'
    BY <2>2, <1>1, <1>3, <1>4, <1>7, <1>8 DEF MeetingsNoted
  <2>3. ASSUME NEW j \in Jobs, NEW k \in Jobs, Busy(j)', Busy(k)', j # k, job'[j].id = job'[k].id
        PROVE  <<job'[j].id, {KindOf(j)', KindOf(k)'}>> \in mixed'
    BY <2>3, <1>1, <1>3, <1>7 DEF MeetingsNoted
  <2> QED
    BY <2>1, <2>2, <2>3 DEF MeetingsNoted
<1>10. EntriesOwned'
  <2>1. ASSUME NEW k \in Ids, NEW v \in Uploads, index'[k] # Nothing, index'[k].content = v
        PROVE  upload'[v].id = k /\ Stored(v)' /\ v \notin gone'
    <3>1. CASE k = i
      BY <3>1, <2>1, <1>1, <1>3, <1>4, <1>5, <1>7
    <3>2. CASE k # i
      <4>1. upload[v].id = k /\ Stored(v) /\ v \notin gone
        BY <3>2, <2>1, <1>1, <1>5 DEF EntriesOwned
      <4> QED
        BY <4>1, <1>1, <1>3, <1>4, <1>7
    <3> QED
      BY <3>1, <3>2
  <2>2. \A v \in gone' : Stored(v)'
    BY <1>1, <1>3, <1>7 DEF EntriesOwned, MaterialsTyped
  <2>3. ASSUME NEW j \in Jobs, job'[j].at = "unlink", job'[j].of \in Uploads
        PROVE  job'[j].of \in gone' /\ upload'[job'[j].of].id = job'[j].id
    BY <2>3, <1>1, <1>3, <1>4 DEF EntriesOwned
  <2> QED
    BY <2>1, <2>2, <2>3 DEF EntriesOwned
<1>11. UploadsKept'
  <2> SUFFICES ASSUME NEW v \in Uploads, v \notin gone', upload'[v].at \in {"indexed", "answered"},
                      Calm(upload[v].id, {{"upload"}, {"upload", "delete"}})'
               PROVE  Has(v, upload[v].id)'
    BY DEF UploadsKept
  <2>1. CASE v = u
    <3>1. Calm(i, {{"upload"}, {"upload", "delete"}})'
      BY <2>1, <1>4 DEF Calm
    <3>2. <<i, {"upload"}>> \notin mixed' /\ <<i, {"delete", "upload"}>> \notin mixed'
      <4>1. {"delete", "upload"} = {"upload", "delete"}
        OBVIOUS
      <4> QED
        BY <4>1, <3>1 DEF Calm
    <3>3. at = "indexed" /\ u \in Links
      BY <2>1, <1>4
    <3>4. \A j \in Jobs : job'[j].at = "unlink" => job'[j].id # i
      <4>1. \A j \in Jobs : job[j].at = "unlink" => Busy(j) /\ KindOf(j) = "delete"
        BY DEF Busy, KindOf
      <4> QED
        BY <4>1, <3>2, <1>3, <1>8
    <3>5. \A w \in Uploads : upload'[w].at = "taken" => upload'[w].id # i
      <4>1. \A w \in Uploads \ {u} : upload'[w].at = "taken" => Working(w)
        BY <1>4 DEF Working
      <4> QED
        BY <4>1, <3>2, <3>3, <1>4, <1>8
    <3>6. index'[i] # Nothing /\ index'[i].content = u
      BY <3>3, <1>5
    <3>7. upload'[v].id = i
      BY <2>1, <1>4
    <3> QED
      BY <2>1, <3>3, <3>4, <3>5, <3>6, <3>7 DEF Has
  <2>2. CASE v # u
    <3>1. upload'[v] = upload[v] /\ upload[v].id \in Ids
      BY <2>2, <1>1, <1>4, UploadFields
    <3>2. Calm(upload[v].id, {{"upload"}, {"upload", "delete"}})
      BY <3>1, <1>3 DEF Calm
    <3>3. Has(v, upload[v].id)
      BY <3>1, <3>2, <1>1, <1>3 DEF UploadsKept
    <3>4. upload[v].id # i
      BY <3>3, <1>2 DEF Has
    <3>5. index'[upload[v].id] = index[upload[v].id]
      BY <3>1, <3>4, <1>5
    <3> QED
      BY <3>1, <3>3, <3>4, <3>5, <1>3, <1>4 DEF Has
  <2> QED
    BY <2>1, <2>2
<1>12. FilesGo'
  <2>1. \A v \in gone : upload'[v].id = upload[v].id
    BY <1>1, <1>4 DEF MaterialsTyped
  <2> QED
    BY <2>1, <1>1, <1>3, FilesStay DEF MaterialsTyped
<1>13. RowsInStep'
  <2> SUFFICES ASSUME NEW k \in Ids, Calm(k, Encounters)' PROVE InStep(k)'
    BY DEF RowsInStep
  <2>1. InStep(k)
    BY <1>1, <1>3, CalmBefore DEF RowsInStep
  <2>2. CASE k # i
    <3>1. \A v \in Uploads : \A a \in {"taken", "indexed"} :
             upload'[v].at = a /\ upload'[v].id = k <=> upload[v].at = a /\ upload[v].id = k
      BY <2>2, <1>1, <1>4
    <3> QED
      BY <2>1, <2>2, <3>1, <1>3, <1>5, InStepStays
  <2>3. CASE k = i
    <3>1. /\ <<i, {"upload"}>> \notin mixed' /\ <<i, {"delete", "upload"}>> \notin mixed'
          /\ <<i, {"upload", "db"}>> \notin mixed'
      <4>1. {"delete", "upload"} = {"upload", "delete"}
        OBVIOUS
      <4> QED
        BY <4>1, <2>3 DEF Calm, Encounters
    <3>2. rows'[i] = Nothing
      BY <3>1, <1>2, <1>3
    <3>3. \A v \in Uploads \ {u} : upload'[v].at \in {"taken", "indexed"} => upload'[v].id # i
      BY <3>1, <1>4, <1>8 DEF Working
    <3>4. \A j \in Jobs : job'[j].id = i => job'[j].at \notin {"entry", "mark", "finish"}
      <4>1. \A j \in Jobs : job[j].id = i => ~Deletes(j)
        BY <3>1, <1>1, <1>8, Kinds
      <4>2. \A j \in Jobs : job[j].id = i => job[j].at \notin {"mark", "finish"}
        BY <2>1, <2>3, <1>2 DEF InStep
      <4> QED
        BY <4>1, <4>2, <1>3 DEF Deletes
    <3>5. at = "indexed" => upload'[u].at = "indexed" /\ upload'[u].id = i
      BY <1>4
    <3> QED
      BY <2>3, <3>2, <3>3, <3>4, <3>5, <1>4, <1>5 DEF InStep
  <2> QED
    BY <2>2, <2>3
<1> QED
  BY <1>6, <1>9, <1>10, <1>11, <1>12, <1>13 DEF MaterialsInv

(* The file of an upload and its entry: upsert_material.                             *)
LEMMA StoreStep ==
  ASSUME MaterialsInv, NEW u \in Uploads, StoreUpload(u)
  PROVE  MaterialsInv'
<1> DEFINE i == upload[u].id
<1>1. /\ MaterialsTyped /\ MeetingsNoted /\ EntriesOwned /\ UploadsKept /\ FilesGo /\ RowsInStep
      /\ upload[u].at = "taken" /\ Working(u) /\ ~Stored(u) /\ u \notin gone /\ u \notin Links
  BY DEF MaterialsInv, MaterialsTyped, StoreUpload, Working, Stored, EntriesOwned
<1>2. i \in Ids /\ UploadName[u] \in UploadNames /\ <<i, UploadName[u]>> \in Ids \X UploadNames
  BY <1>1, UploadFields
<1>3. /\ UNCHANGED <<rows, job, mixed, gone>>
      /\ upload' = [upload EXCEPT ![u].at = "indexed"]
      /\ index' = [index EXCEPT ![i] = Entry(u, "uploaded")]
      /\ disk' = [disk EXCEPT ![<<i, UploadName[u]>>] = u]
  BY DEF StoreUpload
<1>4. /\ upload' \in [Uploads -> UploadType]
      /\ \A v \in Uploads : upload'[v].at # "waiting" => upload'[v].id \in Ids
      /\ \A v \in Links : upload'[v].at # "taken"
      /\ upload'[u].at = "indexed" /\ upload'[u].id = i
      /\ \A v \in Uploads \ {u} : upload'[v] = upload[v]
  BY <1>1, <1>2, <1>3, UploadMoves
<1>5. /\ index' \in [Ids -> Entries \cup {Nothing}]
      /\ \A k \in Ids \ {i} : index'[k] = index[k]
      /\ index'[i] # Nothing /\ index'[i].content = u
      /\ disk' \in [Ids \X UploadNames -> (Uploads \ Links) \cup {Nothing}]
      /\ disk'[<<i, UploadName[u]>>] = u
      /\ \A f \in (Ids \X UploadNames) \ {<<i, UploadName[u]>>} : disk'[f] = disk[f]
  <2>1. Entry(u, "uploaded") \in Entries /\ Entry(u, "uploaded").content = u
        /\ Entry(u, "uploaded") # Nothing
    BY MaterialsConstants DEF Entry, Entries, Statuses
  <2> HIDE DEF i
  <2> QED
    BY <1>1, <1>2, <1>3, <2>1 DEF MaterialsTyped
<1> HIDE DEF i
<1>6. MaterialsTyped'
  BY <1>1, <1>3, <1>4, <1>5 DEF MaterialsTyped
<1>7. /\ \A v \in Uploads : (Working(v)' <=> Working(v)) /\ upload'[v].id = upload[v].id
      /\ \A v \in Uploads : Stored(v) => Stored(v)'
      /\ Stored(u)'
      /\ \A j \in Jobs : (Busy(j)' <=> Busy(j)) /\ KindOf(j)' = KindOf(j)
  BY <1>1, <1>3, <1>4 DEF Working, Stored, Busy, KindOf, i
<1>8. MeetingsNoted'
  BY <1>1, <1>3, <1>7, MeetingsStay
<1>9. EntriesOwned'
  <2>1. ASSUME NEW k \in Ids, NEW v \in Uploads, index'[k] # Nothing, index'[k].content = v
        PROVE  upload'[v].id = k /\ Stored(v)' /\ v \notin gone'
    <3>1. CASE k = i
      BY <3>1, <2>1, <1>1, <1>3, <1>4, <1>5, <1>7
    <3>2. CASE k # i
      <4>1. upload[v].id = k /\ Stored(v) /\ v \notin gone
        BY <3>2, <2>1, <1>1, <1>5 DEF EntriesOwned
      <4> QED
        BY <4>1, <1>3, <1>7
    <3> QED
      BY <3>1, <3>2
  <2>2. \A v \in gone' : Stored(v)'
    BY <1>1, <1>3, <1>7 DEF EntriesOwned, MaterialsTyped
  <2>3. ASSUME NEW j \in Jobs, job'[j].at = "unlink", job'[j].of \in Uploads
        PROVE  job'[j].of \in gone' /\ upload'[job'[j].of].id = job'[j].id
    BY <2>3, <1>1, <1>3, <1>7 DEF EntriesOwned
  <2> QED
    BY <2>1, <2>2, <2>3 DEF EntriesOwned
(* Whoever else works at this id has met the upload.                                 *)
<1>10. /\ \A v \in Uploads : v # u /\ Working(v) /\ upload[v].id = i => <<i, {"upload"}>> \in mixed'
       /\ \A j \in Jobs : Busy(j) /\ job[j].id = i => <<i, {KindOf(j), "upload"}>> \in mixed'
  BY <1>1, <1>3 DEF MeetingsNoted, i
<1>11. {"delete", "upload"} = {"upload", "delete"} /\ {"transcode", "upload"} = {"upload", "transcode"}
  OBVIOUS
<1>12. UploadsKept'
  <2> SUFFICES ASSUME NEW v \in Uploads, v \notin gone', upload'[v].at \in {"indexed", "answered"},
                      Calm(upload[v].id, {{"upload"}, {"upload", "delete"}})'
               PROVE  Has(v, upload[v].id)'
    BY <1>7 DEF UploadsKept
  <2>1. CASE v = u
    <3>1. <<i, {"upload"}>> \notin mixed' /\ <<i, {"delete", "upload"}>> \notin mixed'
      BY <2>1, <1>4, <1>11 DEF Calm
    <3>2. \A j \in Jobs : job'[j].at = "unlink" => job'[j].id # i
      <4>1. \A j \in Jobs : job[j].at = "unlink" => Busy(j) /\ KindOf(j) = "delete"
        BY DEF Busy, KindOf
      <4> QED
        BY <4>1, <3>1, <1>3, <1>10
    <3>3. \A w \in Uploads : upload'[w].at = "taken" => upload'[w].id # i
      <4>1. \A w \in Uploads \ {u} : upload'[w].at = "taken" => Working(w)
        BY <1>4 DEF Working
      <4> QED
        BY <4>1, <3>1, <1>4, <1>7, <1>10
    <3> QED
      BY <2>1, <3>2, <3>3, <1>4, <1>5, <1>7 DEF Has
  <2>2. CASE v # u
    <3>1. upload'[v] = upload[v] /\ upload[v].id \in Ids
      BY <2>2, <1>1, <1>4, UploadFields
    <3>2. Calm(upload[v].id, {{"upload"}, {"upload", "delete"}})
      BY <3>1, <1>3 DEF Calm
    <3>3. Has(v, upload[v].id)
      BY <3>1, <3>2, <1>1, <1>3 DEF UploadsKept
    <3>4. upload[v].id # i
      BY <3>3, <1>1 DEF Has, i
    <3>5. /\ index'[upload[v].id] = index[upload[v].id]
          /\ disk'[<<upload[v].id, UploadName[v]>>] = disk[<<upload[v].id, UploadName[v]>>]
      <4>1. <<upload[v].id, UploadName[v]>> \in (Ids \X UploadNames) \ {<<i, UploadName[u]>>}
        BY <3>1, <3>4, <1>1, UploadFields
      <4> QED
        BY <4>1, <3>1, <3>4, <1>5
    <3> QED
      BY <3>1, <3>3, <3>4, <3>5, <1>3, <1>4, <1>7 DEF Has
  <2> QED
    BY <2>1, <2>2
<1>13. FilesGo'
  <2> SUFFICES ASSUME NEW v \in gone', Calm(upload[v].id, Keeps)',
                      disk'[<<upload'[v].id, UploadName[v]>>] = v
               PROVE  \E j \in Jobs : job'[j].at = "unlink" /\ job'[j].id = upload'[v].id /\ job'[j].of = v
    BY DEF FilesGo
  <2>1. v \in Uploads /\ v \in gone /\ v # u /\ upload'[v].id = upload[v].id /\ upload[v].id \in Ids
    BY <1>1, <1>3, <1>7, UploadFields DEF MaterialsTyped, EntriesOwned, Stored
  <2>2. disk[<<upload[v].id, UploadName[v]>>] = v
    <3>1. <<upload[v].id, UploadName[v]>> \in Ids \X UploadNames
      BY <2>1, <1>1, UploadFields
    <3>2. <<upload[v].id, UploadName[v]>> # <<i, UploadName[u]>>
      BY <2>1, <1>5
    <3> QED
      BY <2>1, <3>1, <3>2, <1>5
  <2>3. Calm(upload[v].id, Keeps)
    BY <2>1, <1>3 DEF Calm
  <2> QED
    BY <2>1, <2>2, <2>3, <1>1, <1>3 DEF FilesGo
<1>14. RowsInStep'
  <2> SUFFICES ASSUME NEW k \in Ids, Calm(k, Encounters)' PROVE InStep(k)'
    BY DEF RowsInStep
  <2>1. InStep(k)
    BY <1>1, <1>3, CalmBefore DEF RowsInStep
  <2>2. CASE k # i
    <3>1. \A v \in Uploads : \A a \in {"taken", "indexed"} :
             upload'[v].at = a /\ upload'[v].id = k <=> upload[v].at = a /\ upload[v].id = k
      BY <2>2, <1>4 DEF i
    <3> QED
      BY <2>1, <2>2, <3>1, <1>3, <1>5, InStepStays
  <2>3. CASE k = i
    <3>1. <<i, {"upload"}>> \notin mixed' /\ <<i, {"delete", "upload"}>> \notin mixed'
      BY <2>3, <1>11 DEF Calm, Encounters
    <3>2. rows'[i] = Nothing
      BY <2>1, <2>3, <1>1, <1>3 DEF InStep, i
    <3>3. \A v \in Uploads \ {u} : upload'[v].at \in {"taken", "indexed"} => upload'[v].id # i
      BY <3>1, <1>4, <1>10 DEF Working
    <3>4. \A j \in Jobs : job'[j].id = i => job'[j].at # "entry"
      <4>1. \A j \in Jobs : job[j].id = i => ~Deletes(j)
        BY <3>1, <1>1, <1>10, Kinds
      <4> QED
        BY <4>1, <1>3 DEF Deletes
    <3> QED
      BY <2>3, <3>2, <3>3, <3>4, <1>4, <1>5 DEF InStep
  <2> QED
    BY <2>2, <2>3
<1> QED
  BY <1>6, <1>8, <1>9, <1>12, <1>13, <1>14 DEF MaterialsInv

(* A file that is written without an entry is one of an upload that nobody deleted.  *)
LEMMA StoreFailsStep ==
  ASSUME MaterialsInv, NEW u \in Uploads, StoreUploadFails(u)
  PROVE  MaterialsInv'
<1> DEFINE i == upload[u].id
           f == <<i, UploadName[u]>>
<1>1. /\ MaterialsTyped /\ MeetingsNoted /\ EntriesOwned /\ UploadsKept /\ FilesGo /\ RowsInStep
      /\ upload[u].at = "taken" /\ Working(u) /\ u \notin gone /\ u \notin Links
  BY DEF MaterialsInv, MaterialsTyped, StoreUploadFails, Working, Stored, EntriesOwned
<1>2. i \in Ids /\ f \in Ids \X UploadNames
  BY <1>1, UploadFields
<1>3. /\ UNCHANGED <<index, rows, job, gone>> /\ mixed \subseteq mixed'
      /\ upload' = [upload EXCEPT ![u] = Under("lost", i)]
      /\ disk' = disk \/ disk' = [disk EXCEPT ![f] = u]
  BY DEF StoreUploadFails, Fails
<1>4. /\ upload' \in [Uploads -> UploadType]
      /\ \A v \in Uploads : upload'[v].at # "waiting" => upload'[v].id \in Ids
      /\ \A v \in Links : upload'[v].at # "taken"
      /\ upload'[u].at = "lost" /\ upload'[u].id = i
      /\ \A v \in Uploads \ {u} : upload'[v] = upload[v]
  BY <1>1, <1>2, <1>3, UploadMoves
<1>5. /\ disk' \in [Ids \X UploadNames -> (Uploads \ Links) \cup {Nothing}]
      /\ \A g \in Ids \X UploadNames : disk'[g] = disk[g] \/ (g = f /\ disk'[g] = u)
  <2> HIDE DEF f
  <2> QED
    BY <1>1, <1>2, <1>3 DEF MaterialsTyped
<1>6. /\ \A v \in Uploads : (Working(v)' => Working(v)) /\ upload'[v].id = upload[v].id
      /\ \A v \in Uploads : Stored(v) => Stored(v)'
      /\ \A j \in Jobs : (Busy(j)' <=> Busy(j)) /\ KindOf(j)' = KindOf(j)
  BY <1>1, <1>3, <1>4 DEF Working, Stored, Busy, KindOf
<1>7. MaterialsTyped'
  BY <1>1, <1>3, <1>4, <1>5 DEF MaterialsTyped
<1>8. MeetingsNoted'
  BY <1>1, <1>3, <1>6, MeetingsStay
<1>9. EntriesOwned'
  BY <1>1, <1>3, <1>6, EntriesStay DEF MaterialsTyped
<1>10. UploadsKept'
  <2> SUFFICES ASSUME NEW v \in Uploads, v \notin gone', upload'[v].at \in {"indexed", "answered"},
                      Calm(upload[v].id, {{"upload"}, {"upload", "delete"}})'
               PROVE  Has(v, upload[v].id)'
    BY <1>6 DEF UploadsKept
  <2>1. v # u /\ v \notin gone /\ upload'[v] = upload[v] /\ upload[v].at \in {"indexed", "answered"}
    BY <1>3, <1>4
  <2>2. Calm(upload[v].id, {{"upload"}, {"upload", "delete"}})
    BY <2>1, <1>3 DEF Calm
  <2>3. Has(v, upload[v].id) /\ upload[v].id \in Ids /\ UploadName[v] \in UploadNames
    BY <2>1, <2>2, <1>1, UploadFields DEF UploadsKept
  <2>4. upload[v].id # i
    BY <2>3, <1>1 DEF Has
  <2>5. disk'[<<upload[v].id, UploadName[v]>>] = disk[<<upload[v].id, UploadName[v]>>]
    BY <2>3, <2>4, <1>5
  <2>6. \A w \in Uploads : upload'[w].at = "taken" /\ upload'[w].id = upload[v].id =>
          upload[w].at = "taken" /\ upload[w].id = upload[v].id
    BY <1>4
  <2> QED
    BY <2>1, <2>2, <2>5, <2>6, <1>1, <1>3, KeptStays
<1>11. FilesGo'
  <2> SUFFICES ASSUME NEW v \in gone', Calm(upload[v].id, Keeps)',
                      disk'[<<upload'[v].id, UploadName[v]>>] = v
               PROVE  \E j \in Jobs : job'[j].at = "unlink" /\ job'[j].id = upload'[v].id /\ job'[j].of = v
    BY <1>1, <1>3, <1>6 DEF FilesGo, MaterialsTyped
  <2>1. v \in Uploads /\ v \in gone /\ v # u /\ upload'[v].id = upload[v].id /\ upload[v].id \in Ids
        /\ UploadName[v] \in UploadNames
    BY <1>1, <1>3, <1>6, UploadFields DEF MaterialsTyped, EntriesOwned, Stored
  <2>2. disk[<<upload[v].id, UploadName[v]>>] = v
    <3>1. <<upload[v].id, UploadName[v]>> \in Ids \X UploadNames
      BY <2>1
    <3> QED
      BY <2>1, <3>1, <1>5
  <2>3. Calm(upload[v].id, Keeps)
    BY <2>1, <1>3 DEF Calm
  <2> QED
    BY <2>1, <2>2, <2>3, <1>1, <1>3 DEF FilesGo
<1>12. RowsInStep'
  <2> SUFFICES ASSUME NEW k \in Ids, Calm(k, Encounters)' PROVE InStep(k)'
    BY DEF RowsInStep
  <2>1. InStep(k)
    BY <1>1, <1>3, CalmBefore DEF RowsInStep
  <2>2. /\ \A v \in Uploads : upload'[v].at = "taken" => upload[v].at = "taken"
        /\ \A v \in Uploads : upload'[v].at = "indexed" <=> upload[v].at = "indexed"
    BY <1>1, <1>4
  <2> QED
    BY <2>1, <2>2, <1>3, <1>6 DEF InStep
<1> QED
  BY <1>7, <1>8, <1>9, <1>10, <1>11, <1>12 DEF MaterialsInv

(* insert_material, and the answer.                                                  *)
LEMMA PersistStep ==
  ASSUME MaterialsInv, NEW u \in Uploads, PersistUpload(u)
  PROVE  MaterialsInv'
<1> DEFINE i == upload[u].id
<1>1. /\ MaterialsTyped /\ MeetingsNoted /\ EntriesOwned /\ UploadsKept /\ FilesGo /\ RowsInStep
      /\ upload[u].at = "indexed" /\ Working(u) /\ Stored(u)
  BY DEF MaterialsInv, MaterialsTyped, PersistUpload, Working, Stored
<1>2. i \in Ids
  BY <1>1, UploadFields
<1>3. PICK ok \in BOOLEAN :
        /\ Called(i, "upload", "db", ok)
        /\ rows' = IF ok THEN [rows EXCEPT ![i] = u] ELSE rows
  BY DEF PersistUpload
<1>4. /\ UNCHANGED <<index, disk, job, gone>>
      /\ upload' = [upload EXCEPT ![u].at = "answered"]
      /\ mixed \subseteq mixed' /\ (~ok => <<i, {"upload", "db"}>> \in mixed')
  BY <1>3 DEF PersistUpload, Called, Fails
<1>5. /\ upload' \in [Uploads -> UploadType]
      /\ \A v \in Uploads : upload'[v].at # "waiting" => upload'[v].id \in Ids
      /\ \A v \in Links : upload'[v].at # "taken"
      /\ upload'[u].at = "answered" /\ upload'[u].id = i
      /\ \A v \in Uploads \ {u} : upload'[v] = upload[v]
  BY <1>1, <1>2, <1>4, UploadMoves
<1>6. /\ rows' \in [Ids -> Uploads \cup {Nothing}]
      /\ \A k \in Ids \ {i} : rows'[k] = rows[k]
      /\ ok => rows'[i] = u
  <2> HIDE DEF i
  <2> QED
    BY <1>1, <1>2, <1>3 DEF MaterialsTyped
<1> HIDE DEF i
<1>7. MaterialsTyped'
  BY <1>1, <1>4, <1>5, <1>6 DEF MaterialsTyped
<1>8. /\ \A v \in Uploads : (Working(v)' => Working(v)) /\ upload'[v].id = upload[v].id
      /\ \A v \in Uploads : Stored(v) => Stored(v)'
      /\ \A j \in Jobs : (Busy(j)' <=> Busy(j)) /\ KindOf(j)' = KindOf(j)
  BY <1>1, <1>4, <1>5 DEF Working, Stored, Busy, KindOf, i
<1>9. MeetingsNoted'
  BY <1>1, <1>4, <1>8, MeetingsStay
<1>10. EntriesOwned'
  BY <1>1, <1>4, <1>8, EntriesStay DEF MaterialsTyped
<1>11. UploadsKept'
  <2> SUFFICES ASSUME NEW v \in Uploads, v \notin gone', upload'[v].at \in {"indexed", "answered"},
                      Calm(upload[v].id, {{"upload"}, {"upload", "delete"}})'
               PROVE  Has(v, upload[v].id)'
    BY <1>8 DEF UploadsKept
  <2>1. upload[v].at \in {"indexed", "answered"}
    BY <1>1, <1>5
  <2>2. \A w \in Uploads : upload'[w].at = "taken" => upload[w].at = "taken"
    BY <1>5
  <2> QED
    BY <2>1, <2>2, <1>1, <1>4, <1>8, KeptStays
<1>12. FilesGo'
  BY <1>1, <1>4, <1>8, FilesStay DEF MaterialsTyped
<1>13. RowsInStep'
  <2> SUFFICES ASSUME NEW k \in Ids, Calm(k, Encounters)' PROVE InStep(k)'
    BY DEF RowsInStep
  <2>1. InStep(k)
    BY <1>1, <1>4, CalmBefore DEF RowsInStep
  <2>2. CASE k # i
    <3>1. \A v \in Uploads : \A a \in {"taken", "indexed"} :
             upload'[v].at = a /\ upload'[v].id = k <=> upload[v].at = a /\ upload[v].id = k
      BY <2>2, <1>5 DEF i
    <3> QED
      BY <2>1, <2>2, <3>1, <1>4, <1>6, InStepStays
  <2>3. CASE k = i
    <3>1. <<i, {"upload"}>> \notin mixed' /\ <<i, {"delete", "upload"}>> \notin mixed'
          /\ <<i, {"upload", "db"}>> \notin mixed'
      <4>1. {"delete", "upload"} = {"upload", "delete"}
        OBVIOUS
      <4> QED
        BY <4>1, <2>3 DEF Calm, Encounters
    <3>2. rows'[i] = u /\ index'[i] # Nothing /\ index'[i].content = u
      BY <2>1, <2>3, <3>1, <1>1, <1>4, <1>6 DEF InStep, i
    <3>3. \A v \in Uploads : upload'[v].at \in {"taken", "indexed"} => upload'[v].id # i
      <4>1. \A v \in Uploads : v # u /\ Working(v) /\ upload[v].id = i => <<i, {"upload"}>> \in mixed'
        BY <1>1, <1>4 DEF MeetingsNoted, i
      <4> QED
        BY <4>1, <3>1, <1>5 DEF Working
    <3>4. \A j \in Jobs : job'[j].id = i => job'[j].at # "entry"
      <4>1. \A j \in Jobs : Busy(j) /\ job[j].id = i => <<i, {KindOf(j), "upload"}>> \in mixed'
        BY <1>1, <1>4 DEF MeetingsNoted, i
      <4>2. \A j \in Jobs : job[j].id = i => ~Deletes(j)
        BY <3>1, <4>1, <1>1, Kinds
      <4> QED
        BY <4>2, <1>4 DEF Deletes
    <3> QED
      BY <2>3, <3>2, <3>3, <3>4 DEF InStep
  <2> QED
    BY <2>2, <2>3
<1> QED
  BY <1>7, <1>9, <1>10, <1>11, <1>12, <1>13 DEF MaterialsInv

(* A deletion or a transcoding begins: what it meets at its id is noted.             *)
LEMMA BeginStep ==
  ASSUME MaterialsInv, NEW j \in Jobs, NEW i \in Ids, NEW at \in {"row", "mark"}, NEW kind,
         \/ at = "row" /\ kind = "delete"
         \/ at = "mark" /\ kind = "transcode" /\ index[i] # Nothing,
         job[j].at = "waiting", job' = [job EXCEPT ![j] = Under(at, i)],
         mixed' = mixed \cup Meets(i, kind),
         UNCHANGED <<index, rows, disk, upload, gone>>
  PROVE  MaterialsInv'
<1>1. /\ MaterialsTyped /\ MeetingsNoted /\ EntriesOwned /\ UploadsKept /\ FilesGo /\ RowsInStep
      /\ ~Busy(j) /\ mixed \subseteq mixed'
  BY DEF MaterialsInv, Busy
<1>2. /\ job' \in [Jobs -> JobType]
      /\ \A k \in Jobs : job'[k].at # "waiting" => job'[k].id \in Ids
      /\ job'[j].at = at /\ job'[j].id = i
      /\ \A k \in Jobs \ {j} : job'[k] = job[k]
  BY <1>1, JobMoves
<1>3. MaterialsTyped'
  BY <1>1, <1>2 DEF MaterialsTyped
<1>4. /\ \A u \in Uploads : (Working(u)' <=> Working(u)) /\ (Stored(u)' <=> Stored(u))
      /\ \A k \in Jobs \ {j} : (Busy(k)' <=> Busy(k)) /\ KindOf(k)' = KindOf(k)
      /\ KindOf(j)' = kind
  BY <1>2 DEF Working, Stored, Busy, KindOf
<1>5. /\ \A u \in Uploads : Working(u) /\ upload[u].id = i => <<i, {kind, "upload"}>> \in mixed'
      /\ \A k \in Jobs : Busy(k) /\ job[k].id = i => <<i, {kind, KindOf(k)}>> \in mixed'
      /\ \A k \in Jobs : Busy(k) /\ job[k].id = i => <<i, {KindOf(k), kind}>> \in mixed'
  <2>1. \A k : {kind, KindOf(k)} = {KindOf(k), kind}
    OBVIOUS
  <2> QED
    BY <2>1, MeetsAll
<1>6. MeetingsNoted'
  <2>1. ASSUME NEW u \in Uploads, NEW v \in Uploads, Working(u)', Working(v)', u # v,
               upload'[u].id = upload'[v].id
        PROVE  <<upload'[u].id, {"upload"}>> \in mixed'
    BY <2>1, <1>1, <1>4 DEF MeetingsNoted
  <2>2. ASSUME NEW u \in Uploads, NEW k \in Jobs, Working(u)', Busy(k)', upload'[u].id = job'[k].id
        PROVE  <<upload'[u].id, {KindOf(k)', "upload"}>> \in mixed'
    BY <2>2, <1>1, <1>2, <1>4, <1>5 DEF MeetingsNoted
  <2>3. ASSUME NEW k \in Jobs, NEW l \in Jobs, Busy(k)', Busy(l)', k # l, job'[k].id = job'[l].id
        PROVE  <<job'[k].id, {KindOf(k)', KindOf(l)'}>> \in mixed'
    <3>1. CASE k # j /\ l # j
      BY <3>1, <2>3, <1>1, <1>2, <1>4 DEF MeetingsNoted
    <3>2. CASE k = j
      BY <3>2, <2>3, <1>2, <1>4, <1>5
    <3>3. CASE l = j
      BY <3>3, <2>3, <1>2, <1>4, <1>5
    <3> QED
      BY <3>1, <3>2, <3>3
  <2> QED
    BY <2>1, <2>2, <2>3 DEF MeetingsNoted
<1>7. EntriesOwned'
  BY <1>1, <1>2, <1>4, EntriesStay DEF MaterialsTyped
<1>8. UploadsKept'
  <2> SUFFICES ASSUME NEW v \in Uploads, v \notin gone', upload'[v].at \in {"indexed", "answered"},
                      Calm(upload[v].id, {{"upload"}, {"upload", "delete"}})'
               PROVE  Has(v, upload[v].id)'
    BY DEF UploadsKept
  <2>1. \A k \in Jobs : job'[k].at = "unlink" => job[k] = job'[k]
    BY <1>2
  <2> QED
    BY <2>1, <1>1, KeptStays
<1>9. FilesGo'
  <2>1. \A k \in Jobs : job[k].at = "unlink" => job'[k] = job[k]
    BY <1>2
  <2> QED
    BY <2>1, <1>1, FilesStay DEF MaterialsTyped
<1>10. RowsInStep'
  <2> SUFFICES ASSUME NEW k \in Ids, Calm(k, Encounters)' PROVE InStep(k)'
    BY DEF RowsInStep
  <2>1. InStep(k)
    BY <1>1, CalmBefore DEF RowsInStep
  <2>2. /\ \A l \in Jobs : job'[l].id = k /\ job'[l].at = "entry" <=> job[l].id = k /\ job[l].at = "entry"
        /\ \A l \in Jobs : job'[l].id = k /\ job'[l].at \in {"mark", "finish"} =>
             (job[l].id = k /\ job[l].at \in {"mark", "finish"}) \/ index[k] # Nothing
    BY <1>2
  <2> QED
    BY <2>1, <2>2, InStepStays
<1> QED
  BY <1>3, <1>6, <1>7, <1>8, <1>9, <1>10 DEF MaterialsInv

(* A deletion begins.                                                         *)
LEMMA DeleteStep ==
  ASSUME MaterialsInv, NEW j \in Jobs, NEW i \in Ids, Delete(j, i)
  PROVE  MaterialsInv'
BY BeginStep DEF Delete

(* A transcoding begins.                                                      *)
LEMMA TranscodeStep ==
  ASSUME MaterialsInv, NEW j \in Jobs, NEW i \in Ids, Transcode(j, i)
  PROVE  MaterialsInv'
BY BeginStep DEF Transcode

(* delete_one_material takes the row away, if the database answers.                  *)
LEMMA DeleteRowStep ==
  ASSUME MaterialsInv, NEW j \in Jobs, DeleteRow(j)
  PROVE  MaterialsInv'
<1> DEFINE i == job[j].id
<1>1. /\ MaterialsTyped /\ MeetingsNoted /\ EntriesOwned /\ UploadsKept /\ FilesGo /\ RowsInStep
      /\ job[j].at = "row" /\ Busy(j) /\ KindOf(j) = "delete"
  BY DEF MaterialsInv, DeleteRow, Busy, KindOf
<1>2. i \in Ids
  BY <1>1, JobFields
<1>3. PICK ok \in BOOLEAN :
        /\ Called(i, "delete", "db", ok)
        /\ rows' = IF ok THEN [rows EXCEPT ![i] = Nothing] ELSE rows
  BY DEF DeleteRow
<1>4. /\ UNCHANGED <<index, disk, upload, gone>>
      /\ job' = [job EXCEPT ![j].at = "entry"]
      /\ mixed \subseteq mixed' /\ (~ok => <<i, {"delete", "db"}>> \in mixed')
  BY <1>3 DEF DeleteRow, Called, Fails
<1>5. /\ job' \in [Jobs -> JobType]
      /\ \A k \in Jobs : job'[k].at # "waiting" => job'[k].id \in Ids
      /\ job'[j].at = "entry" /\ job'[j].id = i
      /\ \A k \in Jobs \ {j} : job'[k] = job[k]
  BY <1>1, <1>2, <1>4, JobMoves
<1>6. /\ rows' \in [Ids -> Uploads \cup {Nothing}]
      /\ \A k \in Ids \ {i} : rows'[k] = rows[k]
      /\ ok => rows'[i] = Nothing
  <2> HIDE DEF i
  <2> QED
    BY <1>1, <1>2, <1>3 DEF MaterialsTyped
<1>7. \A k \in Jobs : job'[k].id = job[k].id /\ (Busy(k)' <=> Busy(k)) /\ KindOf(k)' = KindOf(k)
  BY <1>1, <1>5 DEF Busy, KindOf
<1>8. \A u \in Uploads : (Working(u)' <=> Working(u)) /\ (Stored(u)' <=> Stored(u))
  BY <1>4 DEF Working, Stored
<1> HIDE DEF i
<1>9. MaterialsTyped'
  BY <1>1, <1>4, <1>5, <1>6 DEF MaterialsTyped
<1>10. MeetingsNoted'
  BY <1>1, <1>4, <1>7, <1>8, MeetingsStay
<1>11. \A k \in Jobs : job'[k].at = "unlink" \/ job[k].at = "unlink" => job[k] = job'[k]
  BY <1>1, <1>5
<1>12. EntriesOwned'
  BY <1>1, <1>4, <1>8, <1>11, EntriesStay DEF MaterialsTyped
<1>13. UploadsKept'
  <2> SUFFICES ASSUME NEW v \in Uploads, v \notin gone', upload'[v].at \in {"indexed", "answered"},
                      Calm(upload[v].id, {{"upload"}, {"upload", "delete"}})'
               PROVE  Has(v, upload[v].id)'
    BY <1>4 DEF UploadsKept
  <2> QED
    BY <1>1, <1>4, <1>11, KeptStays
<1>14. FilesGo'
  BY <1>1, <1>4, <1>11, FilesStay DEF MaterialsTyped
<1>15. RowsInStep'
  <2> SUFFICES ASSUME NEW k \in Ids, Calm(k, Encounters)' PROVE InStep(k)'
    BY DEF RowsInStep
  <2>1. InStep(k)
    BY <1>1, <1>4, CalmBefore DEF RowsInStep
  <2>2. CASE k # i
    <3>1. /\ \A l \in Jobs : job'[l].id = k /\ job'[l].at = "entry" <=> job[l].id = k /\ job[l].at = "entry"
          /\ \A l \in Jobs : job'[l].id = k /\ job'[l].at \in {"mark", "finish"} =>
               job[l].id = k /\ job[l].at \in {"mark", "finish"}
      BY <2>2, <1>5, <1>7 DEF i
    <3> QED
      BY <2>1, <2>2, <3>1, <1>4, <1>6, InStepStays
  <2>3. CASE k = i
    <3>1. /\ <<i, {"upload", "delete"}>> \notin mixed' /\ <<i, {"delete", "transcode"}>> \notin mixed'
          /\ <<i, {"transcode", "delete"}>> \notin mixed' /\ <<i, {"delete", "db"}>> \notin mixed'
          /\ <<i, {"delete", "upload"}>> \notin mixed'
      <4>1. {"transcode", "delete"} = {"delete", "transcode"} /\ {"delete", "upload"} = {"upload", "delete"}
        OBVIOUS
      <4> QED
        BY <4>1, <2>3 DEF Calm, Encounters
    <3>2. rows'[i] = Nothing
      BY <3>1, <1>4, <1>6
    <3>3. \A u \in Uploads : upload'[u].at \in {"taken", "indexed"} => upload'[u].id # i
      <4>1. \A u \in Uploads : Working(u) => upload[u].id # i
        BY <3>1, <1>1, <1>4 DEF MeetingsNoted, i
      <4> QED
        BY <4>1, <1>4 DEF Working
    <3>4. \A l \in Jobs : job'[l].id = i => job'[l].at \notin {"mark", "finish"}
      <4>1. ASSUME NEW l \in Jobs, job[l].id = i, job[l].at \in {"mark", "finish"} PROVE FALSE
        <5>1. Busy(l) /\ KindOf(l) = "transcode" /\ l # j
          BY <4>1, <1>1, Kinds
        <5>2. <<i, {"transcode", "delete"}>> \in mixed
          BY <5>1, <4>1, <1>1 DEF MeetingsNoted, i
        <5> QED
          BY <5>2, <3>1, <1>4
      <4> QED
        BY <4>1, <1>5, <1>7
    <3> QED
      BY <2>3, <3>2, <3>3, <3>4, <1>5 DEF InStep
  <2> QED
    BY <2>2, <2>3
<1> QED
  BY <1>9, <1>10, <1>12, <1>13, <1>14, <1>15 DEF MaterialsInv

(* ... the entry, or a 404 ...                                                       *)
LEMMA DeleteEntryStep ==
  ASSUME MaterialsInv, NEW j \in Jobs, DeleteEntry(j)
  PROVE  MaterialsInv'
<1> DEFINE i == job[j].id
<1>1. /\ MaterialsTyped /\ MeetingsNoted /\ EntriesOwned /\ UploadsKept /\ FilesGo /\ RowsInStep
      /\ job[j].at = "entry" /\ Busy(j) /\ KindOf(j) = "delete"
  BY DEF MaterialsInv, DeleteEntry, Busy, KindOf
<1>2. i \in Ids
  BY <1>1, JobFields
<1>3. UNCHANGED <<rows, disk, upload, mixed>>
  BY DEF DeleteEntry
<1>4. \A u \in Uploads : (Working(u)' <=> Working(u)) /\ (Stored(u)' <=> Stored(u))
  BY <1>3 DEF Working, Stored
(* No upload and no transcoding works at this id, if its history is calm.            *)
<1>5. \A u \in Uploads : Working(u) /\ upload[u].id = i => <<i, {"delete", "upload"}>> \in mixed
  BY <1>1 DEF MeetingsNoted
<1>6. \A k \in Jobs : Busy(k) /\ job[k].id = i /\ k # j => <<i, {KindOf(k), "delete"}>> \in mixed
  BY <1>1 DEF MeetingsNoted
<1>7. \A k \in Ids : InStep(k) /\ Calm(k, Encounters) /\ k = i =>
        /\ rows[i] = Nothing
        /\ \A u \in Uploads : upload[u].at \in {"taken", "indexed"} => upload[u].id # i
        /\ \A l \in Jobs : job[l].id = i => job[l].at \notin {"mark", "finish"}
  <2> SUFFICES ASSUME InStep(i), Calm(i, Encounters)
               PROVE  /\ rows[i] = Nothing
                      /\ \A u \in Uploads : upload[u].at \in {"taken", "indexed"} => upload[u].id # i
                      /\ \A l \in Jobs : job[l].id = i => job[l].at \notin {"mark", "finish"}
    OBVIOUS
  <2>1. <<i, {"delete", "upload"}>> \notin mixed /\ <<i, {"transcode", "delete"}>> \notin mixed
    BY CalmMeans
  <2>2. rows[i] = Nothing
    BY <1>1 DEF InStep
  <2>3. \A u \in Uploads : upload[u].at \in {"taken", "indexed"} => upload[u].id # i
    BY <2>1, <1>5 DEF Working
  <2>4. ASSUME NEW l \in Jobs, job[l].id = i, job[l].at \in {"mark", "finish"} PROVE FALSE
    <3>1. Busy(l) /\ KindOf(l) = "transcode" /\ l # j
      BY <2>4, <1>1, Kinds
    <3> QED
      BY <3>1, <2>1, <2>4, <1>6
  <2> QED
    BY <2>2, <2>3, <2>4
<1>8. CASE index[i] = Nothing
  <2>1. job' = [job EXCEPT ![j].at = "over"] /\ UNCHANGED <<index, gone>>
    BY <1>8 DEF DeleteEntry
  <2>2. /\ job' \in [Jobs -> JobType]
        /\ \A k \in Jobs : job'[k].at # "waiting" => job'[k].id \in Ids
        /\ job'[j].at = "over" /\ job'[j].id = i
        /\ \A k \in Jobs \ {j} : job'[k] = job[k]
    BY <1>1, <1>2, <2>1, JobMoves
  <2>3. \A k \in Jobs : Busy(k)' => Busy(k) /\ job'[k].id = job[k].id /\ KindOf(k)' = KindOf(k)
    BY <2>2 DEF Busy, KindOf
  <2>4. \A k \in Jobs : job'[k].at = "unlink" \/ job[k].at = "unlink" => job[k] = job'[k]
    BY <1>1, <2>2
  <2>5. MaterialsTyped'
    BY <1>1, <1>3, <2>1, <2>2 DEF MaterialsTyped
  <2>6. MeetingsNoted'
    BY <1>1, <1>3, <1>4, <2>3, MeetingsStay
  <2>7. EntriesOwned'
    BY <1>1, <1>3, <1>4, <2>1, <2>4, EntriesStay DEF MaterialsTyped
  <2>8. UploadsKept'
    <3> SUFFICES ASSUME NEW v \in Uploads, v \notin gone', upload'[v].at \in {"indexed", "answered"},
                        Calm(upload[v].id, {{"upload"}, {"upload", "delete"}})'
                 PROVE  Has(v, upload[v].id)'
      BY <1>3 DEF UploadsKept
    <3> QED
      BY <1>1, <1>3, <2>1, <2>4, KeptStays
  <2>9. FilesGo'
    BY <1>1, <1>3, <2>1, <2>4, FilesStay DEF MaterialsTyped
  <2>10. RowsInStep'
    <3> SUFFICES ASSUME NEW k \in Ids, Calm(k, Encounters)' PROVE InStep(k)'
      BY DEF RowsInStep
    <3>1. Calm(k, Encounters) /\ InStep(k)
      BY <1>1, <1>3, CalmBefore DEF RowsInStep
    <3>2. CASE k # i
      <4>1. /\ \A l \in Jobs : job'[l].id = k /\ job'[l].at = "entry" <=> job[l].id = k /\ job[l].at = "entry"
            /\ \A l \in Jobs : job'[l].id = k /\ job'[l].at \in {"mark", "finish"} =>
                 job[l].id = k /\ job[l].at \in {"mark", "finish"}
        BY <3>2, <2>2
      <4> QED
        BY <3>1, <4>1, <1>3, <2>1, InStepStays
    <3>3. CASE k = i
      <4>1. /\ rows[i] = Nothing
            /\ \A u \in Uploads : upload[u].at \in {"taken", "indexed"} => upload[u].id # i
            /\ \A l \in Jobs : job[l].id = i => job[l].at \notin {"mark", "finish"}
        BY <3>1, <3>3, <1>7
      <4>2. /\ rows'[i] = Nothing /\ index'[i] = Nothing
            /\ \A u \in Uploads : upload'[u].at \in {"taken", "indexed"} => upload'[u].id # i
            /\ \A l \in Jobs : job'[l].id = i => job'[l].at \notin {"mark", "finish"}
        BY <4>1, <1>3, <1>8, <2>1, <2>2
      <4> HIDE DEF i
      <4> QED
        BY <3>3, <4>2 DEF InStep
    <3> QED
      BY <3>2, <3>3
  <2> QED
    BY <2>5, <2>6, <2>7, <2>8, <2>9, <2>10 DEF MaterialsInv
<1>9. CASE index[i] # Nothing
  <2> DEFINE c == index[i].content
  <2>1. /\ index' = [index EXCEPT ![i] = Nothing]
        /\ job' = [job EXCEPT ![j] = [at |-> "unlink", id |-> i, of |-> c]]
        /\ gone' = gone \cup ({c} \ {Ghost})
    BY <1>9 DEF DeleteEntry
  <2>2. c \in Uploads \cup {Ghost}
    <3>1. index[i] \in Entries
      BY <1>1, <1>2, <1>9 DEF MaterialsTyped
    <3> QED
      BY <3>1 DEF Entries
  <2>3. Ghost \notin Uploads
    BY MaterialsConstants
  <2>4. c \in Uploads => upload[c].id = i /\ Stored(c) /\ c \notin gone
    BY <1>1, <1>2, <1>9 DEF EntriesOwned
  <2> HIDE DEF i, c
  <2>5. /\ job' \in [Jobs -> JobType]
        /\ job'[j].at = "unlink" /\ job'[j].id = i /\ job'[j].of = c
        /\ \A k \in Jobs \ {j} : job'[k] = job[k]
    <3> DEFINE p == [at |-> "unlink", id |-> i, of |-> c]
    <3>1. p \in JobType /\ p.at = "unlink" /\ p.id = i /\ p.of = c
      BY <1>2, <2>2 DEF JobType
    <3>2. job' = [job EXCEPT ![j] = p]
      BY <2>1
    <3> HIDE DEF p
    <3> QED
      BY <1>1, <3>1, <3>2 DEF MaterialsTyped
  <2>6. \A k \in Jobs : job'[k].at # "waiting" => job'[k].id \in Ids
    BY <1>1, <1>2, <2>5 DEF MaterialsTyped
  <2>7. /\ index' \in [Ids -> Entries \cup {Nothing}]
        /\ \A k \in Ids \ {i} : index'[k] = index[k]
        /\ index'[i] = Nothing
    BY <1>1, <1>2, <2>1 DEF MaterialsTyped
  <2>8. gone' \subseteq Uploads /\ gone \subseteq gone' /\ (c \in Uploads => c \in gone')
        /\ \A u \in gone' : u \in gone \/ (u = c /\ u \in Uploads)
    BY <1>1, <2>1, <2>2, <2>3 DEF MaterialsTyped
  <2>9. MaterialsTyped'
    BY <1>1, <1>3, <2>5, <2>6, <2>7, <2>8 DEF MaterialsTyped
  <2>10. \A k \in Jobs : job'[k].id = job[k].id /\ (Busy(k)' <=> Busy(k)) /\ KindOf(k)' = KindOf(k)
    BY <1>1, <2>5 DEF Busy, KindOf, i
  <2>11. MeetingsNoted'
    BY <1>1, <1>3, <1>4, <2>10, MeetingsStay
  <2>12. EntriesOwned'
    <3>1. ASSUME NEW k \in Ids, NEW u \in Uploads, index'[k] # Nothing, index'[k].content = u
          PROVE  upload'[u].id = k /\ Stored(u)' /\ u \notin gone'
      <4>1. k # i /\ index[k] # Nothing /\ index[k].content = u
        BY <3>1, <2>7
      <4>2. upload[u].id = k /\ Stored(u) /\ u \notin gone
        BY <4>1, <1>1 DEF EntriesOwned
      <4>3. u # c
        BY <4>1, <4>2, <2>4
      <4> QED
        BY <4>2, <4>3, <1>3, <1>4, <2>8
    <3>2. \A u \in gone' : Stored(u)'
      BY <1>1, <1>4, <2>4, <2>8 DEF EntriesOwned, MaterialsTyped
    <3>3. ASSUME NEW k \in Jobs, job'[k].at = "unlink", job'[k].of \in Uploads
          PROVE  job'[k].of \in gone' /\ upload'[job'[k].of].id = job'[k].id
      <4>1. CASE k = j
        BY <4>1, <3>3, <1>3, <2>4, <2>5, <2>8
      <4>2. CASE k # j
        BY <4>2, <3>3, <1>1, <1>3, <2>5, <2>8 DEF EntriesOwned
      <4> QED
        BY <4>1, <4>2
    <3> QED
      BY <3>1, <3>2, <3>3 DEF EntriesOwned
  <2>13. UploadsKept'
    <3> SUFFICES ASSUME NEW v \in Uploads, v \notin gone', upload'[v].at \in {"indexed", "answered"},
                        Calm(upload[v].id, {{"upload"}, {"upload", "delete"}})'
                 PROVE  Has(v, upload[v].id)'
      BY <1>3 DEF UploadsKept
    <3>1. upload[v].id \in Ids /\ Has(v, upload[v].id)
      <4>1. v \notin gone /\ upload[v].at \in {"indexed", "answered"} /\ upload[v].id \in Ids
        BY <1>1, <1>3, <2>8, UploadFields
      <4>2. Calm(upload[v].id, {{"upload"}, {"upload", "delete"}})
        BY <1>3 DEF Calm
      <4> QED
        BY <4>1, <4>2, <1>1 DEF UploadsKept
    <3>2. v # c
      BY <2>8
    <3>3. upload[v].id # i
      BY <3>1, <3>2 DEF Has, c
    <3>4. index'[upload[v].id] = index[upload[v].id]
      BY <3>1, <3>3, <2>7
    <3>5. \A k \in Jobs : job'[k].at = "unlink" => job'[k].id # upload[v].id
      BY <3>1, <3>3, <2>5 DEF Has
    <3> QED
      BY <3>1, <3>4, <3>5, <1>3 DEF Has
  <2>14. FilesGo'
    <3> SUFFICES ASSUME NEW v \in gone', Calm(upload[v].id, Keeps)',
                        disk[<<upload[v].id, UploadName[v]>>] = v
                 PROVE  \E k \in Jobs : job'[k].at = "unlink" /\ job'[k].id = upload[v].id /\ job'[k].of = v
      BY <1>3 DEF FilesGo
    <3>1. CASE v = c
      BY <3>1, <2>4, <2>5, <2>8
    <3>2. CASE v # c
      <4>1. v \in gone /\ Calm(upload[v].id, Keeps)
        BY <3>2, <2>8, <1>3 DEF Calm
      <4>2. PICK k \in Jobs : job[k].at = "unlink" /\ job[k].id = upload[v].id /\ job[k].of = v
        BY <4>1, <1>1 DEF FilesGo
      <4> QED
        BY <4>2, <1>1, <2>5
    <3> QED
      BY <3>1, <3>2
  <2>15. RowsInStep'
    <3> SUFFICES ASSUME NEW k \in Ids, Calm(k, Encounters)' PROVE InStep(k)'
      BY DEF RowsInStep
    <3>1. Calm(k, Encounters) /\ InStep(k)
      BY <1>1, <1>3, CalmBefore DEF RowsInStep
    <3>2. CASE k # i
      <4>1. /\ \A l \in Jobs : job'[l].id = k /\ job'[l].at = "entry" <=> job[l].id = k /\ job[l].at = "entry"
            /\ \A l \in Jobs : job'[l].id = k /\ job'[l].at \in {"mark", "finish"} =>
                 job[l].id = k /\ job[l].at \in {"mark", "finish"}
        BY <3>2, <2>5, <2>10
      <4>2. index'[k] = index[k]
        BY <3>2, <2>7
      <4> QED
        BY <3>1, <4>1, <4>2, <1>3, InStepStays
    <3>3. CASE k = i
      <4>1. /\ rows[i] = Nothing
            /\ \A u \in Uploads : upload[u].at \in {"taken", "indexed"} => upload[u].id # i
            /\ \A l \in Jobs : job[l].id = i => job[l].at \notin {"mark", "finish"}
        BY <3>1, <3>3, <1>7 DEF i
      <4>2. /\ rows'[i] = Nothing /\ index'[i] = Nothing
            /\ \A u \in Uploads : upload'[u].at \in {"taken", "indexed"} => upload'[u].id # i
            /\ \A l \in Jobs : job'[l].id = i => job'[l].at \notin {"mark", "finish"}
        BY <4>1, <1>3, <2>5, <2>7, <2>10
      <4> QED
        BY <3>3, <4>2 DEF InStep
    <3> QED
      BY <3>2, <3>3
  <2> QED
    BY <2>9, <2>11, <2>12, <2>13, <2>14, <2>15 DEF MaterialsInv
<1> QED
  BY <1>8, <1>9

(* ... and the file that the entry named.                                            *)
LEMMA UnlinkStep ==
  ASSUME MaterialsInv, NEW j \in Jobs, Unlink(j)
  PROVE  MaterialsInv'
<1> DEFINE i == job[j].id
           f == <<i, UploadName[job[j].of]>>
<1>1. /\ MaterialsTyped /\ MeetingsNoted /\ EntriesOwned /\ UploadsKept /\ FilesGo /\ RowsInStep
      /\ job[j].at = "unlink" /\ Busy(j) /\ KindOf(j) = "delete"
  BY DEF MaterialsInv, Unlink, Busy, KindOf
<1>2. i \in Ids /\ job[j].of \in Uploads \cup {Ghost}
  BY <1>1, JobFields
<1>3. /\ UNCHANGED <<index, rows, upload, gone>> /\ mixed \subseteq mixed'
      /\ job' = [job EXCEPT ![j] = Under("over", i)]
      /\ job[j].of \in Links \cup {Ghost} => disk' = disk
      /\ job[j].of \notin Links \cup {Ghost} =>
           disk' = [disk EXCEPT ![f] = Nothing] \/ (disk' = disk /\ <<i, {"delete", "disk"}>> \in mixed')
  BY DEF Unlink, Called, Fails
<1>4. /\ job' \in [Jobs -> JobType]
      /\ \A k \in Jobs : job'[k].at # "waiting" => job'[k].id \in Ids
      /\ job'[j].at = "over" /\ job'[j].id = i
      /\ \A k \in Jobs \ {j} : job'[k] = job[k]
  BY <1>1, <1>2, <1>3, JobMoves
<1>5. /\ disk' \in [Ids \X UploadNames -> (Uploads \ Links) \cup {Nothing}]
      /\ \A g \in Ids \X UploadNames : g # f => disk'[g] = disk[g]
      /\ \A g \in Ids \X UploadNames : disk'[g] # Nothing => disk'[g] = disk[g]
      /\ job[j].of \in Uploads \ Links => disk'[f] = Nothing \/ <<i, {"delete", "disk"}>> \in mixed'
  <2>1. CASE job[j].of \in Links \cup {Ghost}
    BY <2>1, <1>1, <1>3, MaterialsConstants DEF MaterialsTyped
  <2>2. CASE job[j].of \notin Links \cup {Ghost} /\ disk' = [disk EXCEPT ![f] = Nothing]
    <3>1. f \in Ids \X UploadNames
      BY <2>2, <1>1, <1>2, <1>3, UploadFields
    <3> HIDE DEF f
    <3> QED
      BY <2>2, <3>1, <1>1 DEF MaterialsTyped
  <2>3. CASE disk' = disk /\ <<i, {"delete", "disk"}>> \in mixed'
    BY <2>3, <1>1 DEF MaterialsTyped
  <2> QED
    BY <2>1, <2>2, <2>3, <1>3
<1>6. \A u \in Uploads : (Working(u)' <=> Working(u)) /\ (Stored(u)' <=> Stored(u))
  BY <1>3 DEF Working, Stored
<1>7. \A k \in Jobs : Busy(k)' => Busy(k) /\ job'[k].id = job[k].id /\ KindOf(k)' = KindOf(k)
  BY <1>4 DEF Busy, KindOf
<1>8. \A k \in Jobs : job'[k].at = "unlink" => job[k] = job'[k]
  BY <1>4
<1>9. MaterialsTyped'
  BY <1>1, <1>3, <1>4, <1>5 DEF MaterialsTyped
<1>10. MeetingsNoted'
  BY <1>1, <1>3, <1>6, <1>7, MeetingsStay
<1>11. EntriesOwned'
  BY <1>1, <1>3, <1>6, <1>8, EntriesStay DEF MaterialsTyped
<1>12. UploadsKept'
  <2> SUFFICES ASSUME NEW v \in Uploads, v \notin gone', upload'[v].at \in {"indexed", "answered"},
                      Calm(upload[v].id, {{"upload"}, {"upload", "delete"}})'
               PROVE  Has(v, upload[v].id)'
    BY <1>3 DEF UploadsKept
  <2>1. v \notin gone /\ upload[v].at \in {"indexed", "answered"}
        /\ Calm(upload[v].id, {{"upload"}, {"upload", "delete"}})
    BY <1>3 DEF Calm
  <2>2. Has(v, upload[v].id) /\ upload[v].id \in Ids /\ UploadName[v] \in UploadNames
    BY <2>1, <1>1, UploadFields DEF UploadsKept
  <2>3. upload[v].id # i
    BY <2>2, <1>1 DEF Has
  <2>4. disk'[<<upload[v].id, UploadName[v]>>] = disk[<<upload[v].id, UploadName[v]>>]
    <3>1. <<upload[v].id, UploadName[v]>> \in Ids \X UploadNames /\ <<upload[v].id, UploadName[v]>> # f
      BY <2>2, <2>3
    <3> HIDE DEF f
    <3> QED
      BY <3>1, <1>5
  <2> QED
    BY <2>1, <2>4, <1>1, <1>3, <1>8, KeptStays
<1>13. FilesGo'
  <2> SUFFICES ASSUME NEW v \in gone', Calm(upload[v].id, Keeps)',
                      disk'[<<upload[v].id, UploadName[v]>>] = v
               PROVE  \E k \in Jobs : job'[k].at = "unlink" /\ job'[k].id = upload[v].id /\ job'[k].of = v
    BY <1>3 DEF FilesGo
  <2>1. v \in gone /\ v \in Uploads /\ v # Nothing /\ Calm(upload[v].id, Keeps)
        /\ upload[v].at # "waiting"
    BY <1>1, <1>3, MaterialsConstants DEF Calm, MaterialsTyped, EntriesOwned, Stored
  <2>2. <<upload[v].id, UploadName[v]>> \in Ids \X UploadNames
    BY <2>1, <1>1, UploadFields
  <2>3. disk[<<upload[v].id, UploadName[v]>>] = v /\ v \notin Links
    BY <2>1, <2>2, <1>5 DEF MaterialsTyped
  <2>4. PICK k \in Jobs : job[k].at = "unlink" /\ job[k].id = upload[v].id /\ job[k].of = v
    BY <2>1, <2>3, <1>1 DEF FilesGo
  <2>5. k # j
    <3>1. ASSUME k = j PROVE FALSE
      <4>1. disk'[f] = v /\ job[j].of \in Uploads \ Links /\ upload[v].id = i
        BY <3>1, <2>1, <2>3, <2>4
      <4>2. <<i, {"delete", "disk"}>> \notin mixed'
        BY <4>1, <1>3 DEF Calm, Keeps
      <4> QED
        BY <4>1, <4>2, <2>1, <1>5
    <3> QED
      BY <3>1
  <2> QED
    BY <2>4, <2>5, <1>4
<1>14. RowsInStep'
  <2> SUFFICES ASSUME NEW k \in Ids, Calm(k, Encounters)' PROVE InStep(k)'
    BY DEF RowsInStep
  <2>1. InStep(k)
    BY <1>1, <1>3, CalmBefore DEF RowsInStep
  <2>2. /\ \A l \in Jobs : job'[l].id = k /\ job'[l].at = "entry" <=> job[l].id = k /\ job[l].at = "entry"
        /\ \A l \in Jobs : job'[l].id = k /\ job'[l].at \in {"mark", "finish"} =>
             job[l].id = k /\ job[l].at \in {"mark", "finish"}
    BY <1>1, <1>4
  <2> QED
    BY <2>1, <2>2, <1>3, InStepStays
<1> QED
  BY <1>9, <1>10, <1>11, <1>12, <1>13, <1>14 DEF MaterialsInv

(* A deletion or a transcoding ends without its entry.                               *)
LEMMA IndexFailsStep ==
  ASSUME MaterialsInv, NEW j \in Jobs, IndexWriteFails(j)
  PROVE  MaterialsInv'
<1> DEFINE i == job[j].id
<1>1. /\ MaterialsTyped /\ MeetingsNoted /\ EntriesOwned /\ UploadsKept /\ FilesGo /\ RowsInStep
      /\ job[j].at \in {"entry", "mark", "finish"} /\ Busy(j)
  BY DEF MaterialsInv, IndexWriteFails, Busy
<1>2. i \in Ids
  BY <1>1, JobFields
<1>3. /\ UNCHANGED <<index, rows, disk, upload, gone>> /\ mixed \subseteq mixed'
      /\ job' = [job EXCEPT ![j].at = "over"]
      /\ job[j].at = "entry" => <<i, {"delete", "disk"}>> \in mixed'
  BY DEF IndexWriteFails, Fails, KindOf
<1>4. /\ job' \in [Jobs -> JobType]
      /\ \A k \in Jobs : job'[k].at # "waiting" => job'[k].id \in Ids
      /\ job'[j].at = "over" /\ job'[j].id = i
      /\ \A k \in Jobs \ {j} : job'[k] = job[k]
  BY <1>1, <1>2, <1>3, JobMoves
<1>5. \A u \in Uploads : (Working(u)' <=> Working(u)) /\ (Stored(u)' <=> Stored(u))
  BY <1>3 DEF Working, Stored
<1>6. \A k \in Jobs : Busy(k)' => Busy(k) /\ job'[k].id = job[k].id /\ KindOf(k)' = KindOf(k)
  BY <1>4 DEF Busy, KindOf
<1>7. \A k \in Jobs : job'[k].at = "unlink" \/ job[k].at = "unlink" => job[k] = job'[k]
  BY <1>1, <1>4
<1>8. MaterialsTyped'
  BY <1>1, <1>3, <1>4 DEF MaterialsTyped
<1>9. MeetingsNoted'
  BY <1>1, <1>3, <1>5, <1>6, MeetingsStay
<1>10. EntriesOwned'
  BY <1>1, <1>3, <1>5, <1>7, EntriesStay DEF MaterialsTyped
<1>11. UploadsKept'
  <2> SUFFICES ASSUME NEW v \in Uploads, v \notin gone', upload'[v].at \in {"indexed", "answered"},
                      Calm(upload[v].id, {{"upload"}, {"upload", "delete"}})'
               PROVE  Has(v, upload[v].id)'
    BY <1>3 DEF UploadsKept
  <2> QED
    BY <1>1, <1>3, <1>7, KeptStays
<1>12. FilesGo'
  BY <1>1, <1>3, <1>7, FilesStay DEF MaterialsTyped
<1>13. RowsInStep'
  <2> SUFFICES ASSUME NEW k \in Ids, Calm(k, Encounters)' PROVE InStep(k)'
    BY DEF RowsInStep
  <2>1. InStep(k)
    BY <1>1, <1>3, CalmBefore DEF RowsInStep
  <2>2. job[j].at = "entry" => k # i
    BY <1>3 DEF Calm, Encounters
  <2>3. /\ \A l \in Jobs : job'[l].id = k /\ job'[l].at = "entry" <=> job[l].id = k /\ job[l].at = "entry"
        /\ \A l \in Jobs : job'[l].id = k /\ job'[l].at \in {"mark", "finish"} =>
             job[l].id = k /\ job[l].at \in {"mark", "finish"}
    BY <2>2, <1>4
  <2> QED
    BY <2>1, <2>3, <1>3, InStepStays
<1> QED
  BY <1>8, <1>9, <1>10, <1>11, <1>12, <1>13 DEF MaterialsInv

(* A status is written, and a transcoding may go on with it: an entry keeps its      *)
(* content, and one that is made by it is of no upload.                              *)
LEMMA StatusStep ==
  ASSUME MaterialsInv, NEW i \in Ids, NEW s \in Statuses,
         index' = WithStatus(i, s),
         UNCHANGED <<rows, disk, upload, mixed, gone>>,
         \/ job' = job /\ index[i] # Nothing
         \/ \E j \in Jobs : \E at \in {"finish", "over"} :
              /\ job[j].at \in {"mark", "finish"} /\ job[j].id = i
              /\ job' = [job EXCEPT ![j].at = at]
  PROVE  MaterialsInv'
<1>1. /\ MaterialsTyped /\ MeetingsNoted /\ EntriesOwned /\ UploadsKept /\ FilesGo /\ RowsInStep
      /\ Ghost \notin Uploads
  BY MaterialsConstants DEF MaterialsInv
<1>2. /\ index' \in [Ids -> Entries \cup {Nothing}]
      /\ \A k \in Ids \ {i} : index'[k] = index[k]
      /\ index'[i] # Nothing
      /\ index'[i].content = IF index[i] = Nothing THEN Ghost ELSE index[i].content
  BY <1>1, StatusSet
<1>3. /\ job' \in [Jobs -> JobType]
      /\ \A k \in Jobs : job'[k].at # "waiting" => job'[k].id \in Ids
      /\ \A k \in Jobs : job'[k] = job[k]
                      \/ /\ job[k].at \in {"mark", "finish"} /\ job[k].id = i
                         /\ job'[k].at \in {"finish", "over"} /\ job'[k].id = i
  <2>1. CASE job' = job
    BY <2>1, <1>1 DEF MaterialsTyped
  <2>2. CASE \E j \in Jobs : \E at \in {"finish", "over"} :
               /\ job[j].at \in {"mark", "finish"} /\ job[j].id = i
               /\ job' = [job EXCEPT ![j].at = at]
    <3>1. PICK j \in Jobs, at \in {"finish", "over"} :
            /\ job[j].at \in {"mark", "finish"} /\ job[j].id = i
            /\ job' = [job EXCEPT ![j].at = at]
      BY <2>2
    <3>2. /\ job' \in [Jobs -> JobType]
          /\ \A k \in Jobs : job'[k].at # "waiting" => job'[k].id \in Ids
          /\ job'[j].at = at /\ job'[j].id = i
          /\ \A k \in Jobs \ {j} : job'[k] = job[k]
      BY <1>1, <3>1, JobMoves
    <3> QED
      BY <3>1, <3>2
  <2> QED
    BY <2>1, <2>2
<1>4. /\ \A u \in Uploads : (Working(u)' <=> Working(u)) /\ (Stored(u)' <=> Stored(u))
      /\ \A k \in Jobs : Busy(k)' => Busy(k) /\ job'[k].id = job[k].id /\ KindOf(k)' = KindOf(k)
      /\ \A k \in Jobs : job'[k].at = "unlink" \/ job[k].at = "unlink" => job[k] = job'[k]
  <2>1. \A u \in Uploads : (Working(u)' <=> Working(u)) /\ (Stored(u)' <=> Stored(u))
    BY DEF Working, Stored
  <2> QED
    BY <2>1, <1>3 DEF Busy, KindOf
<1>5. MaterialsTyped'
  BY <1>1, <1>2, <1>3 DEF MaterialsTyped
<1>6. MeetingsNoted'
  BY <1>1, <1>4, MeetingsStay
<1>7. EntriesOwned'
  <2>1. \A k \in Ids : index'[k] # Nothing /\ index'[k].content \in Uploads =>
          index[k] # Nothing /\ index[k].content = index'[k].content
    BY <1>1, <1>2
  <2> QED
    BY <2>1, <1>1, <1>4, EntriesStay DEF MaterialsTyped
<1>8. UploadsKept'
  <2> SUFFICES ASSUME NEW v \in Uploads, v \notin gone', upload'[v].at \in {"indexed", "answered"},
                      Calm(upload[v].id, {{"upload"}, {"upload", "delete"}})'
               PROVE  Has(v, upload[v].id)'
    BY DEF UploadsKept
  <2>1. upload[v].id \in Ids
    BY <1>1, UploadFields
  <2>2. index[upload[v].id] # Nothing /\ index[upload[v].id].content = v =>
          index'[upload[v].id] # Nothing /\ index'[upload[v].id].content = v
    BY <2>1, <1>2
  <2> QED
    BY <2>2, <1>1, <1>4, KeptStays
<1>9. FilesGo'
  BY <1>1, <1>4, FilesStay DEF MaterialsTyped
<1>10. RowsInStep'
  <2> SUFFICES ASSUME NEW k \in Ids, Calm(k, Encounters)' PROVE InStep(k)'
    BY DEF RowsInStep
  <2>1. InStep(k)
    BY <1>1, CalmBefore DEF RowsInStep
  <2>2. k = i => index[i] # Nothing
    BY <2>1 DEF InStep
  <2>3. /\ (index'[k] # Nothing) <=> (index[k] # Nothing)
        /\ index[k] # Nothing => index'[k].content = index[k].content
    BY <2>2, <1>2
  <2>4. /\ \A l \in Jobs : job'[l].id = k /\ job'[l].at = "entry" <=> job[l].id = k /\ job[l].at = "entry"
        /\ \A l \in Jobs : job'[l].id = k /\ job'[l].at \in {"mark", "finish"} =>
             job[l].id = k /\ job[l].at \in {"mark", "finish"}
    BY <1>3
  <2> QED
    BY <2>1, <2>3, <2>4, InStepStays
<1> QED
  BY <1>5, <1>6, <1>7, <1>8, <1>9, <1>10 DEF MaterialsInv

(* A job marks its material as transcoding.                                   *)
LEMMA MarkStep ==
  ASSUME MaterialsInv, NEW j \in Jobs, MarkTranscoding(j)
  PROVE  MaterialsInv'
<1>1. job[j].id \in Ids
  BY JobFields DEF MaterialsInv, MarkTranscoding
<1>2. \E k \in Jobs : \E at \in {"finish", "over"} :
        /\ job[k].at \in {"mark", "finish"} /\ job[k].id = job[j].id
        /\ job' = [job EXCEPT ![k].at = at]
  BY DEF MarkTranscoding
<1>3. "transcoding" \in Statuses /\ index' = WithStatus(job[j].id, "transcoding")
      /\ UNCHANGED <<rows, disk, upload, mixed, gone>>
  BY DEF MarkTranscoding, Statuses
<1> QED
  BY <1>1, <1>2, <1>3, StatusStep

(* A job ends its transcoding.                                                *)
LEMMA FinishStep ==
  ASSUME MaterialsInv, NEW j \in Jobs, FinishTranscoding(j)
  PROVE  MaterialsInv'
<1>1. job[j].id \in Ids
  BY JobFields DEF MaterialsInv, FinishTranscoding
<1>2. \E k \in Jobs : \E at \in {"finish", "over"} :
        /\ job[k].at \in {"mark", "finish"} /\ job[k].id = job[j].id
        /\ job' = [job EXCEPT ![k].at = at]
  BY DEF FinishTranscoding
<1>3. "ready" \in Statuses /\ index' = WithStatus(job[j].id, "ready")
      /\ UNCHANGED <<rows, disk, upload, mixed, gone>>
  BY DEF FinishTranscoding, Statuses
<1> QED
  BY <1>1, <1>2, <1>3, StatusStep

(* A status is updated.                                                       *)
LEMMA UpdateStep ==
  ASSUME MaterialsInv, NEW i \in Ids, NEW s \in {"transcoding", "done", "failed"}, UpdateStatus(i, s)
  PROVE  MaterialsInv'
<1>1. s \in Statuses
  BY DEF Statuses
<1> QED
  BY <1>1, StatusStep DEF UpdateStatus

(* A restart: what was under way at an id is over, and its history says so.          *)
LEMMA ControlPlaneRestarts ==
  ASSUME MaterialsInv, RestartControlPlane
  PROVE  MaterialsInv'
<1>1. MaterialsTyped /\ MeetingsNoted /\ EntriesOwned /\ UploadsKept /\ FilesGo /\ RowsInStep
  BY DEF MaterialsInv
<1>2. /\ UNCHANGED <<index, rows, disk, gone>>
      /\ mixed \subseteq mixed' /\ \A i \in Ids : Meets(i, "restart") \subseteq mixed'
      /\ upload' = [u \in Uploads |-> IF upload[u].at \in {"taken", "indexed"}
                                     THEN Under("lost", upload[u].id) ELSE upload[u]]
      /\ job' = [j \in Jobs |-> IF job[j].at = "waiting" THEN Waiting
                               ELSE Under("over", job[j].id)]
  BY DEF RestartControlPlane
<1>3. /\ upload' \in [Uploads -> UploadType]
      /\ \A u \in Uploads : upload'[u].at # "waiting" => upload'[u].id \in Ids
      /\ \A u \in Uploads : Working(u) => upload'[u].at = "lost" /\ upload'[u].id = upload[u].id
      /\ \A u \in Uploads : ~Working(u) => upload'[u] = upload[u]
      /\ \A u \in Uploads : ~Working(u)'
  <2>1. \A u \in Uploads : Working(u) =>
          /\ Under("lost", upload[u].id) \in UploadType
          /\ Under("lost", upload[u].id).at = "lost" /\ Under("lost", upload[u].id).id = upload[u].id
          /\ upload'[u] = Under("lost", upload[u].id) /\ upload[u].id \in Ids
    BY <1>1, <1>2, UploadFields DEF Under, UploadType, Working
  <2>2. \A u \in Uploads : ~Working(u) => upload'[u] = upload[u]
    BY <1>2 DEF Working
  <2>3. upload' \in [Uploads -> UploadType]
    <3>1. \A u \in Uploads : (IF upload[u].at \in {"taken", "indexed"}
                               THEN Under("lost", upload[u].id) ELSE upload[u]) \in UploadType
      BY <2>1, <1>1, UploadFields DEF Working
    <3> QED
      BY <3>1, <1>2
  <2>4. \A u \in Uploads : upload'[u].at \notin {"taken", "indexed"}
    BY <2>1, <2>2 DEF Working
  <2>5. \A u \in Uploads : ~Working(u)'
    BY <2>4 DEF Working
  <2> QED
    BY <2>1, <2>2, <2>3, <2>5, <1>1 DEF MaterialsTyped
<1>4. /\ job' \in [Jobs -> JobType]
      /\ \A j \in Jobs : job'[j].at \in {"waiting", "over"}
      /\ \A j \in Jobs : job'[j].at # "waiting" => job'[j].id \in Ids
  <2>1. \A j \in Jobs : job[j].at = "waiting" => job'[j] = Waiting
    BY <1>2
  <2>2. \A j \in Jobs : job[j].at # "waiting" => job'[j] = Under("over", job[j].id) /\ job[j].id \in Ids
    BY <1>1, <1>2, JobFields
  <2>3. Waiting \in JobType /\ Waiting.at = "waiting"
    BY DEF Waiting, JobType
  <2>4. \A i \in Ids : Under("over", i) \in JobType /\ Under("over", i).at = "over" /\ Under("over", i).id = i
    BY DEF Under, JobType
  <2>5. job' \in [Jobs -> JobType]
    <3>1. \A j \in Jobs : (IF job[j].at = "waiting" THEN Waiting
                            ELSE Under("over", job[j].id)) \in JobType
      BY <2>2, <2>3, <2>4
    <3> QED
      BY <3>1, <1>2
  <2> QED
    BY <2>1, <2>2, <2>3, <2>4, <2>5
<1>5. MaterialsTyped'
  <2>1. \A u \in Links : upload'[u].at # "taken"
    BY <1>3, MaterialsConstants DEF Working
  <2> QED
    BY <2>1, <1>1, <1>2, <1>3, <1>4 DEF MaterialsTyped
<1>6. \A j \in Jobs : ~Busy(j)'
  BY <1>4 DEF Busy
<1>7. \A u \in Uploads : (Stored(u) => Stored(u)') /\ upload'[u].id = upload[u].id
                        /\ (upload'[u].at \in {"indexed", "answered"} => upload[u].at = "answered")
  BY <1>3 DEF Working, Stored
<1>8. MeetingsNoted'
  BY <1>1, <1>2, <1>3, <1>6, MeetingsStay
<1>9. EntriesOwned'
  BY <1>1, <1>2, <1>4, <1>7, EntriesStay DEF MaterialsTyped
<1>10. UploadsKept'
  <2> SUFFICES ASSUME NEW v \in Uploads, v \notin gone', upload'[v].at \in {"indexed", "answered"},
                      Calm(upload[v].id, {{"upload"}, {"upload", "delete"}})'
               PROVE  Has(v, upload[v].id)'
    BY <1>7 DEF UploadsKept
  <2>1. /\ upload[v].at = "answered"
        /\ \A j \in Jobs : job'[j].at # "unlink"
        /\ \A w \in Uploads : upload'[w].at # "taken"
    BY <1>3, <1>4, <1>7 DEF Working
  <2> QED
    BY <2>1, <1>1, <1>2, <1>7, KeptStays
(* An id at which a file was to go, or whose row and entry were under way, has met   *)
(* the restart.                                                                      *)
<1>11. /\ \A i \in Ids : \A u \in Uploads :
             Working(u) /\ upload[u].id = i => <<i, {"restart", "upload"}>> \in mixed'
       /\ \A i \in Ids : \A j \in Jobs :
             Busy(j) /\ job[j].id = i => <<i, {"restart", KindOf(j)}>> \in mixed'
  BY <1>2, MeetsAll
<1>12. FilesGo'
  <2> SUFFICES ASSUME NEW v \in gone', Calm(upload[v].id, Keeps)',
                      disk[<<upload[v].id, UploadName[v]>>] = v
               PROVE  FALSE
    <3>1. \A v \in gone' : upload'[v].id = upload[v].id
      BY <1>1, <1>2, <1>7 DEF MaterialsTyped
    <3> QED
      BY <3>1, <1>2 DEF FilesGo
  <2>1. v \in gone /\ upload'[v].id = upload[v].id /\ <<upload[v].id, {"restart", "delete"}>> \notin mixed'
    <3>1. v \in gone /\ upload'[v].id = upload[v].id
      BY <1>1, <1>2, <1>7 DEF MaterialsTyped
    <3>2. {"restart", "delete"} = {"delete", "restart"}
      OBVIOUS
    <3> QED
      BY <3>1, <3>2 DEF Calm, Keeps
  <2>2. Calm(upload[v].id, Keeps)
    BY <2>1, <1>2 DEF Calm
  <2>3. PICK j \in Jobs : job[j].at = "unlink" /\ job[j].id = upload[v].id
    BY <2>1, <2>2, <1>1 DEF FilesGo
  <2>4. Busy(j) /\ KindOf(j) = "delete" /\ job[j].id \in Ids
    BY <2>3, <1>1, JobFields DEF Busy, KindOf
  <2> QED
    BY <2>1, <2>3, <2>4, <1>11
<1>13. RowsInStep'
  <2> SUFFICES ASSUME NEW i \in Ids, Calm(i, Encounters)' PROVE InStep(i)'
    BY DEF RowsInStep
  <2>1. InStep(i)
    BY <1>1, <1>2, CalmBefore DEF RowsInStep
  <2>2. <<i, {"restart", "upload"}>> \notin mixed' /\ <<i, {"restart", "delete"}>> \notin mixed'
    <3>1. {"restart", "upload"} = {"upload", "restart"} /\ {"restart", "delete"} = {"delete", "restart"}
      OBVIOUS
    <3> QED
      BY <3>1 DEF Calm, Encounters
  <2>3. \A u \in Uploads : \A at \in {"taken", "indexed"} :
          upload'[u].at = at /\ upload'[u].id = i <=> upload[u].at = at /\ upload[u].id = i
    BY <2>2, <1>3, <1>11 DEF Working
  <2>4. \A j \in Jobs : job[j].id = i => job[j].at # "entry"
    BY <2>2, <1>11 DEF Busy, KindOf
  <2> QED
    BY <2>1, <2>3, <2>4, <1>2, <1>4, InStepStays
<1> QED
  BY <1>5, <1>8, <1>9, <1>10, <1>12, <1>13 DEF MaterialsInv

(* Every step of the control plane keeps the invariant.                              *)
LEMMA MaterialsStep == MaterialsInv /\ [MaterialsNext]_materialsVars => MaterialsInv'
<1> SUFFICES ASSUME MaterialsInv, [MaterialsNext]_materialsVars PROVE MaterialsInv'
  OBVIOUS
<1>1. ASSUME NEW u \in Uploads, TakeId(u) PROVE MaterialsInv'
  BY <1>1, TakeStep DEF TakeId
<1>2. ASSUME NEW u \in Uploads, UploadLink(u) PROVE MaterialsInv'
  BY <1>2, TakeStep DEF UploadLink
<1>3. CASE UNCHANGED materialsVars
  <2>1. /\ MaterialsTyped /\ MeetingsNoted /\ EntriesOwned /\ UploadsKept /\ FilesGo /\ RowsInStep
        /\ UNCHANGED <<index, rows, disk, upload, job, mixed, gone>>
    BY <1>3 DEF MaterialsInv, materialsVars
  <2>2. MaterialsTyped' /\ MeetingsNoted' /\ EntriesOwned'
    BY <2>1 DEF MaterialsTyped, MeetingsNoted, EntriesOwned, Working, Stored, Busy, KindOf
  <2>3. UploadsKept' /\ FilesGo'
    BY <2>1 DEF UploadsKept, FilesGo, Has, Calm
  <2>4. RowsInStep'
    BY <2>1 DEF RowsInStep, InStep, Calm
  <2> QED
    BY <2>2, <2>3, <2>4 DEF MaterialsInv
<1>4. CASE \E u \in Uploads : TakeId(u) \/ UploadLink(u) \/ StoreUpload(u) \/ PersistUpload(u)
                               \/ StoreUploadFails(u)
  BY <1>1, <1>2, <1>4, StoreStep, StoreFailsStep, PersistStep
<1>5. CASE \E j \in Jobs :
             \/ \E i \in Ids : Delete(j, i) \/ Transcode(j, i)
             \/ DeleteRow(j) \/ DeleteEntry(j) \/ Unlink(j)
             \/ MarkTranscoding(j) \/ FinishTranscoding(j) \/ IndexWriteFails(j)
  BY <1>5, DeleteStep, TranscodeStep, DeleteRowStep, DeleteEntryStep, UnlinkStep, MarkStep, FinishStep,
     IndexFailsStep
<1>6. CASE \E i \in Ids, s \in {"transcoding", "done", "failed"} : UpdateStatus(i, s)
  BY <1>6, UpdateStep
<1>7. CASE RestartControlPlane
  BY <1>7, ControlPlaneRestarts
<1> QED
  BY <1>3, <1>4, <1>5, <1>6, <1>7 DEF MaterialsNext

--------------------------------------------------------------------------------
(* The invariant holds throughout.                                                   *)
LEMMA MaterialsInvariant == MaterialsSpec => []MaterialsInv
<1> QED
  BY InitMaterials, MaterialsStep, PTL DEF MaterialsSpec

(* Every variable has the type the code gives it.                                    *)
THEOREM MaterialsTypeCorrect == MaterialsSpec => []MaterialsTypeOK
<1>1. MaterialsInv => MaterialsTypeOK
  <2> SUFFICES ASSUME MaterialsInv PROVE MaterialsTypeOK
    OBVIOUS
  <2>1. MaterialsTyped
    BY DEF MaterialsInv
  <2>2. \A u \in Uploads : upload[u].id \in Ids \cup {0}
    BY <2>1, UploadFields
  <2>3. \A j \in Jobs : job[j].id \in Ids \cup {0}
    BY <2>1, JobFields
  <2>4. disk \in [Ids \X UploadNames -> Uploads \cup {Nothing}]
    BY <2>1 DEF MaterialsTyped
  <2> QED
    BY <2>1, <2>2, <2>3, <2>4 DEF MaterialsTyped, MaterialsTypeOK
<1> QED
  BY <1>1, MaterialsInvariant, PTL

(* upload_material's file, entry and row, and delete_one_material's: an answered     *)
(* upload that nobody deleted keeps its entry and its file, the file of a deleted    *)
(* one is gone, and the row is the entry's, but for the encounters named; those of   *)
(* a deletion with the disk are an unlink that fails unheard and an index that could *)
(* not be written (material_service.py:217-249).                                     *)
THEOREM StoresAgree == MaterialsSpec => []MaterialsAgree
<1>1. MaterialsInv => MaterialsAgree
  <2> SUFFICES ASSUME MaterialsInv PROVE MaterialsAgree
    OBVIOUS
  <2>1. MaterialsTyped /\ UploadsKept /\ FilesGo /\ RowsInStep
    BY DEF MaterialsInv
  <2>2. \A u \in Uploads : Working(u) => "upload" \in UnderWay(upload[u].id)
    BY DEF Working, UnderWay
  <2>3. \A j \in Jobs : Busy(j) => KindOf(j) \in UnderWay(job[j].id)
    BY DEF Busy, UnderWay
  <2>4. ASSUME NEW u \in Uploads, NEW i \in Ids, upload[u] = Under("answered", i), u \notin gone,
               Calm(i, {{"upload"}, {"upload", "delete"}})
        PROVE  /\ index[i] # Nothing /\ index[i].content = u
               /\ disk[<<i, UploadName[u]>>] = u \/ u \in Links
    <3>1. upload[u].at = "answered" /\ upload[u].id = i
      BY <2>4 DEF Under
    <3> QED
      BY <2>1, <2>4, <3>1 DEF UploadsKept, Has
  <2>5. ASSUME NEW u \in gone, UnderWay(upload[u].id) = {}, Calm(upload[u].id, Keeps)
        PROVE  disk[<<upload[u].id, UploadName[u]>>] # u
    <3> SUFFICES ASSUME disk[<<upload[u].id, UploadName[u]>>] = u PROVE FALSE
      OBVIOUS
    <3>1. PICK j \in Jobs : job[j].at = "unlink" /\ job[j].id = upload[u].id
      BY <2>1, <2>5 DEF FilesGo
    <3> QED
      BY <3>1, <2>3, <2>5 DEF Busy
  <2>6. ASSUME NEW i \in Ids, UnderWay(i) = {}, Calm(i, Encounters)
        PROVE  rows[i] = IF index[i] = Nothing THEN Nothing ELSE index[i].content
    <3>1. InStep(i)
      BY <2>1, <2>6 DEF RowsInStep
    <3>2. ~\E u \in Uploads : upload[u].at = "indexed" /\ upload[u].id = i
      BY <2>2, <2>6 DEF Working
    <3>3. ~\E j \in Jobs : job[j].id = i /\ job[j].at = "entry"
      BY <2>3, <2>6 DEF Busy
    <3> QED
      BY <3>1, <3>2, <3>3 DEF InStep
  <2> QED
    BY <2>4, <2>5, <2>6 DEF MaterialsAgree, Encounters, Keeps
<1> QED
  BY <1>1, MaterialsInvariant, PTL
================================================================================
