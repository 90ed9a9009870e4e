-------------------------- MODULE Campaigns_proofs --------------------------
(* Theorems of Campaigns, for any number of requests, schedules and versions:    *)
(* its types, what a device is served, what a saved version keeps, and what a    *)
(* deletion leaves.                                                              *)
EXTENDS Campaigns, WellFoundedInduction, TLAPS

--------------------------------------------------------------------------------
(* A call: what it holds, and where a call of its kind can be.                   *)
Held == [kind : {"create", "update", "publish", "republish", "rollback", "delete"},
         at : {"version", "insert", "store", "save", "validate", "mark", "mark row",
               "read", "draft", "draft row", "delete", "forget"},
         rec : Records \cup {Nothing}, shared : BOOLEAN,
         schedule : Schedules \cup {Nothing}, version : Versions \cup {0}]

Placed(c) ==
  /\ c.kind = "create" => c.at \in {"insert", "store", "save"}
  /\ c.kind = "update" => c.at \in {"version", "insert", "store", "save"}
  /\ c.kind = "publish" => c.at \in {"validate", "save", "mark", "mark row"}
  /\ c.kind = "republish" =>
       c.at \in {"read", "draft", "draft row", "validate", "mark", "mark row"}
  /\ c.kind = "rollback" => c.at \in {"read", "draft", "draft row"}
  /\ c.kind = "delete" => c.at \in {"delete", "forget"}

Equipped(c) ==
  /\ c.kind # "delete" => c.schedule \in Schedules
  /\ c.kind \in {"rollback", "republish"} \/ c.at \in {"insert", "store", "save"} =>
       c.version \in Versions
  /\ c.at \in {"version", "save", "validate", "mark", "mark row", "draft", "draft row"} =>
       c.rec \in Records

TypeInv ==
  /\ TypeOK
  /\ call \in [Requests -> Held \cup {Idle}]
  /\ \A r \in Active : Placed(call[r]) /\ Equipped(call[r])
  /\ calls \in Nat

(* Nothing is there before the first call, which is alone while it creates the   *)
(* campaign; whatever runs together is noted; and a call that shares its object  *)
(* with the store has what the store has.                                        *)
Beginning == calls = 0 => /\ Active = {} /\ row = Nothing /\ mem = Nothing
                          /\ saved = NoVersions /\ memSaved = NoVersions /\ ~removed
Alone == \A q, r \in Active : q # r => call[q].kind # "create"
Noted == \A q, r \in Active : q # r => {call[q].kind, call[r].kind} \in mixed
SharedIsMem == \A r \in Active : call[r].shared => call[r].rec = mem

CallInv == TypeInv /\ Beginning /\ Alone /\ Noted /\ SharedIsMem

--------------------------------------------------------------------------------
(* Every record that says published has a valid schedule, wherever it is, and a  *)
(* publication marks the schedule that it has validated.                         *)
ValidRec(rec) == IsPublished(rec) => rec.schedule \in Valid

Publishes(r) ==
  /\ call[r].kind \in {"publish", "republish"}
  /\ call[r].at \in {"validate", "save", "mark", "mark row"}

Knows(r) ==
  /\ Publishes(r) \/ (call[r].kind = "republish" /\ call[r].at = "draft row") =>
       call[r].rec.schedule = call[r].schedule
  /\ Publishes(r) /\ call[r].at # "validate" => call[r].schedule \in Valid
  /\ Publishes(r) /\ up /\ row # Nothing => row.schedule = call[r].schedule

ServedInv ==
  \/ PublicationMet
  \/ /\ ValidRec(row) /\ ValidRec(mem)
     /\ \A r \in Active : ValidRec(call[r].rec) /\ Knows(r)

--------------------------------------------------------------------------------
(* What is left after a deletion.                                                *)
DeletedInv ==
  \/ DeletionMet
  \/ /\ \A r \in Active : call[r].at = "forget" => row = Nothing /\ saved = NoVersions
     /\ removed => /\ row = Nothing /\ mem = Nothing
                   /\ saved = NoVersions /\ memSaved = NoVersions
                   /\ \A r \in Active : call[r].kind = "delete"

--------------------------------------------------------------------------------
(* Whoever holds a version and a schedule agrees with all others: h gives each   *)
(* version its schedule.                                                         *)
RecAgrees(rec, h) == rec # Nothing => rec.schedule = h[rec.version]

CallAgrees(c, h) ==
  /\ c.kind \in {"rollback", "republish"} \/ c.at \in {"insert", "store", "save"} =>
       c.schedule = h[c.version]
  /\ c.at \in {"save", "validate", "mark", "mark row", "draft row"} =>
       c.rec.schedule = h[c.rec.version]
  /\ c.kind = "publish" /\ c.at = "validate" => c.rec.schedule = c.schedule

Agrees(h) ==
  /\ \A v \in Versions : saved[v] \in {Nothing, h[v]} /\ memSaved[v] \in {Nothing, h[v]}
  /\ RecAgrees(row, h) /\ RecAgrees(mem, h)
  /\ \A r \in Active : CallAgrees(call[r], h)

(* A version that is not above one that is saved somewhere; and what makes a new *)
(* version new: nobody holds one above all those that its update can see.        *)
Known(v) == \E k \in Numbers(saved) \cup Numbers(memSaved) : v <= k

CallBound(c) ==
  /\ c.kind \in {"rollback", "republish"} \/ c.at = "save" => Known(c.version)
  /\ \/ c.at \in {"draft row", "save", "mark", "mark row"}
     \/ c.kind = "republish" /\ c.at = "validate"
     => Known(c.rec.version)
  /\ c.kind = "publish" /\ c.at = "validate" =>
       Known(c.rec.version) \/ (row # Nothing /\ c.rec.version <= row.version)
  /\ c.kind = "update" /\ c.at = "version" /\ up /\ row # Nothing =>
       Known(row.version) \/ (~c.shared /\ row.version <= c.rec.version)
  /\ c.kind = "update" /\ c.at = "insert" /\ up /\ row # Nothing =>
       Known(row.version) \/ row.version <= c.version

Bounded ==
  /\ mem # Nothing => Known(mem.version) \/ \E r \in Active : call[r].kind = "delete"
  /\ \A r \in Active : CallBound(call[r])

VersionInv ==
  \/ VersionMet
  \/ (\E h \in [Versions -> Schedules \cup {Nothing}] : Agrees(h)) /\ Bounded

--------------------------------------------------------------------------------
(* The greatest version is one that can be seen: a bounded set of numbers that   *)
(* is not empty has a greatest element, because the numbers are well-founded.    *)

(* A set of numbers that is not empty has a least one.                          *)
LEMMA Least ==
  ASSUME NEW I \in SUBSET Nat, I # {}
  PROVE  \E i \in I : \A j \in I : i <= j
<1>1. IsWellFoundedOn(OpToRel(<, Nat), Nat)
  BY NatLessThanWellFounded
<1>2. PICK i \in I : \A j \in I : ~(<<j, i>> \in OpToRel(<, Nat))
  BY <1>1, WFMin
<1>3. \A j \in I : ~(j < i)
  BY <1>2 DEF OpToRel
<1>4. QED
  BY <1>3

(* Max is above a version and all of a set of versions.                         *)
LEMMA MaxOfVersions ==
  ASSUME NEW I \in SUBSET Versions, NEW v \in Versions \cup {0}
  PROVE  Max({v} \cup I) \in Nat /\ \A j \in {v} \cup I : j <= Max({v} \cup I)
<1> DEFINE S == {v} \cup I
           n == MaxVersion
           J == {n - i : i \in S}
<1>n. n \in Nat
  BY CampaignsConstants
<1>1. \A i \in S : i \in Nat /\ n - i \in Nat
  BY <1>n DEF Versions
<1>2. J \in SUBSET Nat /\ J # {}
  BY <1>1
<1>3. PICK k \in J : \A j \in J : k <= j
  BY <1>2, Least
<1>4. PICK i \in S : k = n - i
  BY <1>3
<1>5. \A j \in S : n - j \in J
  OBVIOUS
<1>s. i \in S
  BY <1>4
<1> HIDE DEF J, S
<1>6. ASSUME NEW j \in S PROVE i >= j
  <2>1. k <= n - j
    BY <1>3, <1>5
  <2>2. i \in Nat /\ j \in Nat
    BY <1>1, <1>s
  <2>3. QED
    BY <2>1, <2>2, <1>4, <1>n
<1>7. \E x \in S : \A y \in S : x >= y
  BY <1>6, <1>s
<1>8. Max(S) \in S /\ \A y \in S : Max(S) >= y
  BY <1>7 DEF Max
<1>9. QED
  BY <1>1, <1>8 DEF S

(* The versions that are saved are versions.                                    *)
LEMMA NumbersFacts ==
  ASSUME TypeOK
  PROVE  Numbers(saved) \in SUBSET Versions /\ Numbers(memSaved) \in SUBSET Versions
BY DEF Numbers

(* The next version is above all that an update can see.                         *)
LEMMA NextVersionAbove ==
  ASSUME TypeOK, NEW rec \in Records
  PROVE  /\ NextVersion(rec) > rec.version
         /\ \A k \in Numbers(memSaved) : NextVersion(rec) > k
         /\ up => \A k \in Numbers(saved) : NextVersion(rec) > k
<1> DEFINE I == Numbers(memSaved) \cup (IF up THEN Numbers(saved) ELSE {})
<1>1. I \in SUBSET Versions /\ rec.version \in Versions
  BY NumbersFacts DEF Records
<1>2. {rec.version} \cup I
      = {rec.version} \cup Numbers(memSaved) \cup (IF up THEN Numbers(saved) ELSE {})
  OBVIOUS
<1>3. NextVersion(rec) = 1 + Max({rec.version} \cup I)
  BY <1>2 DEF NextVersion
<1>4. \A j \in {rec.version} \cup I : j \in Nat
  BY <1>1, CampaignsConstants DEF Versions
<1> HIDE DEF I
<1>v. PICK v \in Versions : v = rec.version
  BY <1>1
<1>5. /\ Max({v} \cup I) \in Nat
      /\ \A j \in {v} \cup I : j <= Max({v} \cup I)
  BY <1>1, MaxOfVersions
<1>6. \A j \in {rec.version} \cup I : NextVersion(rec) > j
  <2>1. NextVersion(rec) = 1 + Max({v} \cup I)
    BY <1>3, <1>v
  <2>2. \A j \in {v} \cup I : j \in Nat
    BY <1>4, <1>v
  <2> DEFINE m == Max({v} \cup I)
  <2> HIDE DEF m
  <2>3. m \in Nat /\ (\A j \in {v} \cup I : j <= m) /\ NextVersion(rec) = 1 + m
    BY <2>1, <1>5 DEF m
  <2>4. \A j \in {v} \cup I : NextVersion(rec) > j
    BY <2>2, <2>3
  <2>5. QED
    BY <2>4, <1>v
<1>7. Numbers(memSaved) \subseteq I /\ (up => Numbers(saved) \subseteq I)
  BY DEF I
<1>8. QED
  BY <1>6, <1>7

--------------------------------------------------------------------------------
(* Types.  An idle request is no call; a call moves on, or ends.                 *)
LEMMA IdleApart == Idle \notin Held
<1>1. Idle.at = "idle"
  BY DEF Idle
<1>2. \A c \in Held : c.at # "idle"
  BY DEF Held
<1>3. QED
  BY <1>1, <1>2

(* What a call is.                                                              *)
LEMMA CallFacts ==
  ASSUME TypeInv, NEW r \in Active
  PROVE  /\ r \in Requests /\ call[r] \in Held
         /\ Placed(call[r]) /\ Equipped(call[r])
BY DEF TypeInv, Active

(* One call changes, and what it becomes is a call that is where its kind can be. *)
LEMMA Becomes ==
  ASSUME TypeInv, NEW r \in Requests,
         call' = [call EXCEPT ![r] = call'[r]],
         call'[r] = Idle \/ (call'[r] \in Held /\ Placed(call'[r]) /\ Equipped(call'[r]))
  PROVE  /\ call' \in [Requests -> Held \cup {Idle}]
         /\ \A q \in Active' : /\ call'[q] \in Held
                               /\ Placed(call'[q]) /\ Equipped(call'[q])
         /\ \A q \in Requests \ {r} : call'[q] = call[q]
<1>1. call \in [Requests -> Held \cup {Idle}] /\ \A q \in Active : Placed(call[q]) /\ Equipped(call[q])
  BY DEF TypeInv
<1>2. call' \in [Requests -> Held \cup {Idle}] /\ \A q \in Requests \ {r} : call'[q] = call[q]
  BY <1>1
<1>3. ASSUME NEW q \in Active' 
      PROVE  call'[q] \in Held /\ Placed(call'[q]) /\ Equipped(call'[q])
  <2>1. q \in Requests /\ call'[q] # Idle
    BY <1>3 DEF Active
  <2>2. CASE q = r
    BY <2>1, <2>2
  <2>3. CASE q # r
    <3>1. q \in Active /\ call'[q] = call[q]
      BY <1>2, <2>1, <2>3 DEF Active
    <3>2. QED
      BY <1>1, <2>1, <3>1, <1>2
  <2>4. QED
    BY <2>2, <2>3
<1>4. QED
  BY <1>2, <1>3

(* A call goes on: only its place changes.                                      *)
LEMMA GoesFacts ==
  ASSUME TypeInv, NEW r \in Active,
         NEW a \in {"store", "save", "validate", "mark", "mark row"}, Goes(r, a)
  PROVE  /\ call' = [call EXCEPT ![r] = call'[r]]
         /\ call'[r] \in Held /\ call'[r].at = a
         /\ call'[r].kind = call[r].kind /\ call'[r].rec = call[r].rec
         /\ call'[r].shared = call[r].shared
         /\ call'[r].schedule = call[r].schedule /\ call'[r].version = call[r].version
<1>1. call \in [Requests -> Held \cup {Idle}] /\ r \in Requests /\ call[r] \in Held
  BY CallFacts DEF TypeInv
<1>2. call'[r] = [call[r] EXCEPT !.at = a] /\ call' = [call EXCEPT ![r] = call'[r]]
  BY <1>1 DEF Goes
<1>3. QED
  BY <1>1, <1>2 DEF Held

(* A call ends.                                                                 *)
LEMMA EndsFacts ==
  ASSUME TypeInv, NEW r \in Active, Ends(r)
  PROVE  call' = [call EXCEPT ![r] = call'[r]] /\ call'[r] = Idle
BY DEF Ends, TypeInv, Active

(* A call that begins.                                                           *)
LEMMA Joins ==
  ASSUME TypeInv, NEW r \in Requests, NEW c \in Held,
         call[r] = Idle, \A q \in Active : call[q].kind # "create",
         calls' = calls + 1, call' = [call EXCEPT ![r] = c],
         mixed' = mixed \cup {{c.kind, call[q].kind} : q \in Active}
  PROVE  /\ r \notin Active /\ call'[r] = c
         /\ call' = [call EXCEPT ![r] = call'[r]]
         /\ calls' \in Nat /\ calls' # 0
         /\ mixed \subseteq mixed'
         /\ \A q \in Active : call[q].kind # "create" /\ {c.kind, call[q].kind} \in mixed'
<1>1. call \in [Requests -> Held \cup {Idle}] /\ calls \in Nat
  BY DEF TypeInv
<1>2. call'[r] = c
  BY <1>1
<1>3. call' = [call EXCEPT ![r] = call'[r]]
  BY <1>1, <1>2
<1>4. calls' \in Nat /\ calls' # 0
  BY <1>1
<1>5. r \notin Active
  BY DEF Active
<1>6. mixed \subseteq mixed' /\ \A q \in Active : {c.kind, call[q].kind} \in mixed'
  OBVIOUS
<1>7. QED
  BY <1>2, <1>3, <1>4, <1>5, <1>6

(* What is found of the campaign is in the store, or is the store's row.         *)
LEMMA FoundFacts ==
  ASSUME TypeOK
  PROVE  /\ Found \in Records \cup {Nothing}
         /\ InRow => Found = row /\ row # Nothing /\ up
         /\ ~InRow => Found = mem
BY DEF TypeOK, Found, InRow

(* The fields of a campaign.                                                    *)
LEMMA RecordFacts ==
  /\ 0 \notin Versions
  /\ \A rec \in Records : /\ rec.status \in {"draft", "published"}
                          /\ rec.schedule \in Schedules /\ rec.version \in Versions
BY CampaignsConstants DEF Records, Versions

(* A call ends, or a call that is where its kind can be: types.                  *)
LEMMA TypeOfCalls ==
  ASSUME TypeInv, NEW r \in Requests,
         call' = [call EXCEPT ![r] = call'[r]],
         call'[r] = Idle \/ (call'[r] \in Held /\ Placed(call'[r]) /\ Equipped(call'[r])),
         calls' \in Nat,
         up' \in BOOLEAN, removed' \in BOOLEAN,
         row' \in Records \cup {Nothing}, mem' \in Records \cup {Nothing},
         saved' \in [Versions -> Schedules \cup {Nothing}],
         memSaved' \in [Versions -> Schedules \cup {Nothing}]
  PROVE  TypeInv'
<1>1. /\ call' \in [Requests -> Held \cup {Idle}]
      /\ \A q \in Active' : /\ call'[q] \in Held
                            /\ Placed(call'[q]) /\ Equipped(call'[q])
  BY Becomes
<1>2. \A c \in Held : /\ c.rec \in Records \cup {Nothing}
                      /\ c.schedule \in Schedules \cup {Nothing}
                      /\ c.version \in Versions \cup {0}
  BY DEF Held
<1>3. \A q \in Active' : /\ call'[q].rec \in Records \cup {Nothing}
                         /\ call'[q].schedule \in Schedules \cup {Nothing}
                         /\ call'[q].version \in Versions \cup {0}
  BY <1>1, <1>2
<1>4. TypeOK'
  BY <1>3 DEF TypeOK
<1>5. QED
  BY <1>1, <1>4 DEF TypeInv

(* The types of the stores.                                                     *)
LEMMA StoreTypes ==
  ASSUME TypeOK
  PROVE  /\ up \in BOOLEAN /\ removed \in BOOLEAN
         /\ row \in Records \cup {Nothing} /\ mem \in Records \cup {Nothing}
         /\ saved \in [Versions -> Schedules \cup {Nothing}]
         /\ memSaved \in [Versions -> Schedules \cup {Nothing}]
BY DEF TypeOK

(* Stores that do not change keep their types.                                  *)
LEMMA SameStore ==
  ASSUME TypeOK, UNCHANGED store
  PROVE  /\ row' \in Records \cup {Nothing} /\ mem' \in Records \cup {Nothing}
         /\ saved' \in [Versions -> Schedules \cup {Nothing}]
         /\ memSaved' \in [Versions -> Schedules \cup {Nothing}]
BY DEF TypeOK, store

(* Where each beginning puts a call.                                             *)
LEMMA CreateMoves ==
  ASSUME TypeInv, NEW r \in Requests, NEW s \in Schedules, Create(r, s)
  PROVE  /\ TypeInv' /\ r \notin Active /\ calls' # 0 /\ calls = 0
         /\ UNCHANGED <<up, store, removed>>
         /\ call' = [call EXCEPT ![r] = call'[r]] /\ call'[r] \in Held
         /\ mixed \subseteq mixed'
         /\ \A q \in Active : call[q].kind # "create" /\ {call'[r].kind, call[q].kind} \in mixed'
         /\ call'[r].kind = "create" /\ call'[r].at = "insert" /\ ~call'[r].shared
         /\ call'[r].rec = Nothing /\ call'[r].schedule = s /\ call'[r].version = 1
<1>a. 1 \in Versions
  BY CampaignsConstants DEF Versions
<1> DEFINE d == [kind |-> "create", at |-> "insert", rec |-> Nothing, shared |-> FALSE,
                 schedule |-> s, version |-> 1]
<1>b. d \in Held
  BY <1>a DEF Held
<1>c. d.kind = "create" /\ d.at = "insert" /\ d.rec = Nothing /\ ~d.shared
      /\ d.schedule = s /\ d.version = 1
  OBVIOUS
<1>d. /\ TypeOK /\ UNCHANGED <<up, store, removed>> /\ calls = 0
      /\ call[r] = Idle /\ \A q \in Active : call[q].kind # "create"
      /\ calls' = calls + 1 /\ call' = [call EXCEPT ![r] = d]
      /\ mixed' = mixed \cup {{"create", call[q].kind} : q \in Active}
  BY DEF TypeInv, Create, Begins
<1> HIDE DEF d
<1>1. PICK c \in Held : c = d
  BY <1>b
<1>2. /\ r \notin Active /\ call'[r] = c
      /\ call' = [call EXCEPT ![r] = call'[r]]
      /\ calls' \in Nat /\ calls' # 0
      /\ mixed \subseteq mixed'
      /\ \A q \in Active : call[q].kind # "create" /\ {c.kind, call[q].kind} \in mixed'
  BY <1>c, <1>d, <1>1, Joins
<1>3. Placed(c) /\ Equipped(c)
  BY <1>1, <1>a, <1>c DEF Placed, Equipped
<1>4. TypeInv'
  BY <1>d, <1>2, <1>3, TypeOfCalls, SameStore, StoreTypes
<1>5. QED
  BY <1>c, <1>d, <1>1, <1>2, <1>4

(* delete_campaign begins.                                                      *)
LEMMA DeleteMoves ==
  ASSUME TypeInv, NEW r \in Requests, Delete(r)
  PROVE  /\ TypeInv' /\ r \notin Active /\ calls' # 0
         /\ UNCHANGED <<up, store, removed>>
         /\ call' = [call EXCEPT ![r] = call'[r]] /\ call'[r] \in Held
         /\ mixed \subseteq mixed'
         /\ \A q \in Active : call[q].kind # "create" /\ {call'[r].kind, call[q].kind} \in mixed'
         /\ call'[r].kind = "delete" /\ call'[r].at = "delete" /\ ~call'[r].shared
         /\ call'[r].rec = Nothing
<1> DEFINE d == [kind |-> "delete", at |-> "delete", rec |-> Nothing, shared |-> FALSE,
                 schedule |-> Nothing, version |-> 0]
<1>b. d \in Held
  BY DEF Held
<1>c. d.kind = "delete" /\ d.at = "delete" /\ d.rec = Nothing /\ ~d.shared
  OBVIOUS
<1>d. /\ TypeOK /\ UNCHANGED <<up, store, removed>>
      /\ call[r] = Idle /\ \A q \in Active : call[q].kind # "create"
      /\ calls' = calls + 1 /\ call' = [call EXCEPT ![r] = d]
      /\ mixed' = mixed \cup {{"delete", call[q].kind} : q \in Active}
  BY DEF TypeInv, Delete, Begins
<1> HIDE DEF d
<1>1. PICK c \in Held : c = d
  BY <1>b
<1>2. /\ r \notin Active /\ call'[r] = c
      /\ call' = [call EXCEPT ![r] = call'[r]]
      /\ calls' \in Nat /\ calls' # 0
      /\ mixed \subseteq mixed'
      /\ \A q \in Active : call[q].kind # "create" /\ {c.kind, call[q].kind} \in mixed'
  BY <1>c, <1>d, <1>1, Joins
<1>3. Placed(c) /\ Equipped(c)
  BY <1>1, <1>c DEF Placed, Equipped
<1>4. TypeInv'
  BY <1>d, <1>2, <1>3, TypeOfCalls, SameStore, StoreTypes
<1>5. QED
  BY <1>c, <1>d, <1>1, <1>2, <1>4

(* rollback_campaign begins, with the schedule of a version that is saved.      *)
LEMMA RollbackMoves ==
  ASSUME TypeInv, NEW r \in Requests, NEW kind \in {"rollback", "republish"},
         NEW v \in Versions, Rollback(r, kind, v)
  PROVE  /\ TypeInv' /\ r \notin Active /\ calls' # 0
         /\ UNCHANGED <<up, store, removed>>
         /\ call' = [call EXCEPT ![r] = call'[r]] /\ call'[r] \in Held
         /\ mixed \subseteq mixed'
         /\ \A q \in Active : call[q].kind # "create" /\ {call'[r].kind, call[q].kind} \in mixed'
         /\ call'[r].kind = kind /\ call'[r].at = "read" /\ ~call'[r].shared
         /\ call'[r].rec = Nothing /\ call'[r].version = v
         /\ call'[r].schedule # Nothing
         /\ \/ call'[r].schedule = saved[v]
            \/ call'[r].schedule = memSaved[v]
<1> DEFINE s == IF up /\ saved[v] # Nothing THEN saved[v] ELSE memSaved[v]
<1>0. PICK t \in Schedules : t = s
  BY DEF Rollback, TypeInv, TypeOK
<1>s. t # Nothing /\ (t = saved[v] \/ t = memSaved[v])
  BY <1>0, CampaignsConstants
<1> DEFINE d == [kind |-> kind, at |-> "read", rec |-> Nothing, shared |-> FALSE,
                 schedule |-> t, version |-> v]
<1>b. d \in Held
  BY DEF Held
<1>c. d.kind = kind /\ d.at = "read" /\ d.rec = Nothing /\ ~d.shared
      /\ d.schedule = t /\ d.version = v
  OBVIOUS
<1>d. /\ TypeOK /\ UNCHANGED <<up, store, removed>>
      /\ call[r] = Idle /\ \A q \in Active : call[q].kind # "create"
      /\ calls' = calls + 1 /\ call' = [call EXCEPT ![r] = d]
      /\ mixed' = mixed \cup {{kind, call[q].kind} : q \in Active}
  BY <1>0 DEF TypeInv, Rollback, Begins
<1> HIDE DEF d, s
<1>1. PICK c \in Held : c = d
  BY <1>b
<1>2. /\ r \notin Active /\ call'[r] = c
      /\ call' = [call EXCEPT ![r] = call'[r]]
      /\ calls' \in Nat /\ calls' # 0
      /\ mixed \subseteq mixed'
      /\ \A q \in Active : call[q].kind # "create" /\ {c.kind, call[q].kind} \in mixed'
  BY <1>c, <1>d, <1>1, Joins
<1>3. Placed(c) /\ Equipped(c)
  BY <1>1, <1>c DEF Placed, Equipped
<1>4. TypeInv'
  BY <1>d, <1>2, <1>3, TypeOfCalls, SameStore, StoreTypes
<1>5. QED
  BY <1>c, <1>d, <1>s, <1>1, <1>2, <1>4

(* publish_campaign or update_campaign_strategy begins, with the campaign it found. *)
LEMMA ReaderMoves ==
  ASSUME TypeInv, NEW r \in Requests,
         \/ Publish(r)
         \/ \E s \in Schedules : Update(r, s)
  PROVE  /\ TypeInv' /\ r \notin Active /\ calls' # 0
         /\ UNCHANGED <<up, store, removed>>
         /\ call' = [call EXCEPT ![r] = call'[r]] /\ call'[r] \in Held
         /\ mixed \subseteq mixed'
         /\ \A q \in Active : call[q].kind # "create" /\ {call'[r].kind, call[q].kind} \in mixed'
         /\ call'[r].rec \in Records /\ call'[r].rec # Nothing
         /\ \/ ~call'[r].shared /\ call'[r].rec = row /\ up
            \/ call'[r].shared /\ call'[r].rec = mem /\ (up => row = Nothing)
         /\ \/ /\ call'[r].kind = "publish" /\ call'[r].at = "validate" 
               /\ call'[r].schedule = call'[r].rec.schedule
            \/ call'[r].kind = "update" /\ call'[r].at = "version"
<1>t. TypeOK
  BY DEF TypeInv
<1>0. PICK rec \in Records : rec = Found /\ rec # Nothing
  BY <1>t, FoundFacts DEF Publish, Update
<1> DEFINE d(kind, at, s) == [kind |-> kind, at |-> at, rec |-> rec, shared |-> ~InRow,
                              schedule |-> s, version |-> 0]
<1>1. PICK kind \in {"publish", "update"}, at \in {"validate", "version"}, s \in Schedules :
        /\ \/ kind = "publish" /\ at = "validate" /\ s = rec.schedule
           \/ kind = "update" /\ at = "version"
        /\ call' = [call EXCEPT ![r] = d(kind, at, s)]
        /\ mixed' = mixed \cup {{kind, call[q].kind} : q \in Active}
  <2>1. CASE Publish(r)
    <3>1. call' = [call EXCEPT ![r] = d("publish", "validate", rec.schedule)]
          /\ mixed' = mixed \cup {{"publish", call[q].kind} : q \in Active}
      BY <2>1, <1>0 DEF Publish, Begins
    <3>2. rec.schedule \in Schedules
      BY RecordFacts
    <3> HIDE DEF d
    <3>3. QED
      BY <3>1, <3>2
  <2>2. CASE \E s \in Schedules : Update(r, s)
    <3>1. PICK s \in Schedules : Update(r, s)
      BY <2>2
    <3>2. call' = [call EXCEPT ![r] = d("update", "version", s)]
          /\ mixed' = mixed \cup {{"update", call[q].kind} : q \in Active}
      BY <3>1, <1>0 DEF Update, Begins
    <3> HIDE DEF d
    <3>3. QED
      BY <3>2
  <2>3. QED
    BY <2>1, <2>2
<1>2. /\ UNCHANGED <<up, store, removed>>
      /\ call[r] = Idle /\ \A q \in Active : call[q].kind # "create"
      /\ calls' = calls + 1
  BY DEF Publish, Update, Begins
<1>3. d(kind, at, s) \in Held
  BY DEF Held
<1>4. /\ d(kind, at, s).kind = kind /\ d(kind, at, s).at = at /\ d(kind, at, s).rec = rec
      /\ d(kind, at, s).schedule = s /\ (d(kind, at, s).shared <=> ~InRow)
  OBVIOUS
<1> HIDE DEF d
<1>5. PICK c \in Held : c = d(kind, at, s)
  BY <1>3
<1>6. /\ r \notin Active /\ call'[r] = c
      /\ call' = [call EXCEPT ![r] = call'[r]]
      /\ calls' \in Nat /\ calls' # 0
      /\ mixed \subseteq mixed'
      /\ \A q \in Active : call[q].kind # "create" /\ {c.kind, call[q].kind} \in mixed'
  BY <1>1, <1>2, <1>4, <1>5, Joins
<1>7. Placed(c) /\ Equipped(c)
  BY <1>1, <1>4, <1>5 DEF Placed, Equipped
<1>8. TypeInv'
  BY <1>t, <1>2, <1>6, <1>7, TypeOfCalls, SameStore, StoreTypes
<1>9. \/ ~c.shared /\ rec = row /\ up
      \/ c.shared /\ rec = mem /\ (up => row = Nothing)
  BY <1>t, <1>0, <1>4, <1>5, FoundFacts DEF InRow
<1>10. c.kind = kind /\ c.at = at /\ c.rec = rec /\ c.schedule = s
  BY <1>4, <1>5
<1>11. QED
  BY <1>0, <1>1, <1>2, <1>6, <1>8, <1>9, <1>10

--------------------------------------------------------------------------------
(* What each step of a call does with it.                                        *)
LEMMA KindAt ==
  ASSUME TypeInv, NEW r \in Active
  PROVE  /\ call[r].at \in {"insert", "store"} => call[r].kind \in {"create", "update"}
         /\ call[r].at = "version" => call[r].kind = "update"
         /\ call[r].at = "save" => call[r].kind \in {"create", "update", "publish"}
         /\ call[r].at \in {"validate", "mark", "mark row"} =>
              call[r].kind \in {"publish", "republish"}
         /\ call[r].at \in {"read", "draft", "draft row"} =>
              call[r].kind \in {"rollback", "republish"}
         /\ call[r].at \in {"delete", "forget"} => call[r].kind = "delete"
BY CallFacts DEF Placed, Held

(* Whoever is at a place is a call.                                             *)
LEMMA AtFacts ==
  ASSUME TypeInv, NEW r, NEW a, At(r, a)
  PROVE  r \in Active /\ r \in Requests /\ call[r].at = a /\ call[r] \in Held
BY CallFacts DEF At

(* _next_campaign_version.                                                      *)
LEMMA ChooseMoves ==
  ASSUME TypeInv, NEW r \in Requests, ChooseVersion(r)
  PROVE  /\ TypeInv' /\ r \in Active
         /\ call[r].kind = "update" /\ call[r].at = "version" /\ call[r].rec \in Records
         /\ UNCHANGED <<up, store, removed, calls>>
         /\ call' = [call EXCEPT ![r] = call'[r]] /\ call'[r] \in Held
         /\ call'[r].kind = "update" /\ call'[r].at = "insert"
         /\ call'[r].rec = Nothing /\ ~call'[r].shared
         /\ call'[r].schedule = call[r].schedule
         /\ call'[r].version = NextVersion(call[r].rec)
         /\ call'[r].version \in Versions
         /\ mixed \subseteq mixed' /\ (~up => {"update", "db"} \in mixed')
<1>1. /\ TypeOK /\ r \in Active /\ call[r].at = "version" /\ call[r] \in Held
      /\ call \in [Requests -> Held \cup {Idle}] /\ calls \in Nat
  BY AtFacts DEF TypeInv, ChooseVersion
<1>2. call[r].kind = "update" /\ call[r].rec \in Records /\ call[r].schedule \in Schedules
  BY <1>1, KindAt, CallFacts DEF Equipped
<1>3. PICK n \in Versions : n = NextVersion(call[r].rec)
  BY DEF ChooseVersion
<1>4. /\ call' = [call EXCEPT ![r].at = "insert", ![r].version = n,
                              ![r].rec = Nothing, ![r].shared = FALSE]
      /\ UNCHANGED <<up, store, removed, calls>>
  BY <1>3 DEF ChooseVersion, bounds
<1>5. mixed' = IF up THEN mixed ELSE mixed \cup {{"update", "db"}}
  BY DEF ChooseVersion
<1>6. /\ call'[r] \in Held /\ call'[r].kind = "update" /\ call'[r].at = "insert"
      /\ call'[r].rec = Nothing /\ ~call'[r].shared
      /\ call'[r].schedule = call[r].schedule /\ call'[r].version = n
  BY <1>1, <1>2, <1>4 DEF Held
<1>7. call' = [call EXCEPT ![r] = call'[r]]
  BY <1>1, <1>4
<1>8. Placed(call'[r]) /\ Equipped(call'[r])
  BY <1>2, <1>6 DEF Placed, Equipped
<1>9. TypeInv'
  BY <1>1, <1>4, <1>6, <1>7, <1>8, TypeOfCalls, SameStore, StoreTypes
<1>10. mixed \subseteq mixed' /\ (~up => {"update", "db"} \in mixed')
  BY <1>5
<1>11. QED
  BY <1>1, <1>2, <1>3, <1>4, <1>6, <1>7, <1>9, <1>10

(* The fields of a campaign that is made.                                       *)
LEMMA CampaignType ==
  ASSUME NEW st \in {"draft", "published"}, NEW s \in Schedules, NEW v \in Versions
  PROVE  /\ Campaign(st, s, v) \in Records
         /\ Campaign(st, s, v).status = st /\ Campaign(st, s, v).schedule = s
         /\ Campaign(st, s, v).version = v
BY DEF Campaign, Records

(* Marking changes the status only.                                             *)
LEMMA MarkedType ==
  ASSUME NEW rec \in Records
  PROVE  /\ Marked(rec) \in Records
         /\ Marked(rec).status = "published" /\ Marked(rec).schedule = rec.schedule
         /\ Marked(rec).version = rec.version
BY DEF Marked, Records

(* The row that an update or a creation writes.                                 *)
LEMMA InsertMoves ==
  ASSUME TypeInv, NEW r \in Requests, InsertCampaign(r)
  PROVE  /\ TypeInv' /\ r \in Active
         /\ call[r].kind \in {"create", "update"} /\ call[r].at = "insert"
         /\ call[r].schedule \in Schedules /\ call[r].version \in Versions
         /\ UNCHANGED <<up, saved, mem, memSaved, mixed, removed, calls>>
         /\ call' = [call EXCEPT ![r] = call'[r]] /\ call'[r] \in Held
         /\ call'[r].at = "store" /\ call'[r].kind = call[r].kind /\ call'[r].rec = call[r].rec
         /\ call'[r].shared = call[r].shared
         /\ call'[r].schedule = call[r].schedule /\ call'[r].version = call[r].version
         /\ ~up => row' = row
         /\ up => /\ row' \in Records /\ row'.status = "draft"
                  /\ row'.schedule = call[r].schedule /\ row'.version = call[r].version
<1>1. /\ TypeOK /\ r \in Active /\ call[r].at = "insert" /\ call[r] \in Held /\ calls \in Nat
  BY AtFacts DEF TypeInv, InsertCampaign
<1>2. /\ call[r].kind \in {"create", "update"}
      /\ call[r].schedule \in Schedules /\ call[r].version \in Versions
  BY <1>1, KindAt, CallFacts DEF Equipped
<1>3. /\ Goes(r, "store") /\ UNCHANGED <<up, saved, mem, memSaved, mixed, removed, calls>>
      /\ row' = IF up THEN Campaign("draft", call[r].schedule, call[r].version) ELSE row
  BY DEF InsertCampaign, bounds
<1>4. /\ call' = [call EXCEPT ![r] = call'[r]]
      /\ call'[r] \in Held /\ call'[r].at = "store"
      /\ call'[r].kind = call[r].kind /\ call'[r].rec = call[r].rec
      /\ call'[r].shared = call[r].shared
      /\ call'[r].schedule = call[r].schedule /\ call'[r].version = call[r].version
  BY <1>1, <1>3, GoesFacts
<1>5. Placed(call'[r]) /\ Equipped(call'[r])
  BY <1>2, <1>4 DEF Placed, Equipped
<1>6. /\ ~up => row' = row
      /\ up => /\ row' \in Records /\ row'.status = "draft"
               /\ row'.schedule = call[r].schedule /\ row'.version = call[r].version
  BY <1>2, <1>3, CampaignType
<1>7. row' \in Records \cup {Nothing}
  BY <1>1, <1>6, StoreTypes
<1>8. TypeInv'
  BY <1>1, <1>3, <1>4, <1>5, <1>7, TypeOfCalls, StoreTypes
<1>9. QED
  BY <1>1, <1>2, <1>3, <1>4, <1>6, <1>8

(* _save_campaign_version writes the version it was given.                      *)
LEMMA SaveMoves ==
  ASSUME TypeInv, NEW r \in Requests, SaveVersion(r)
  PROVE  /\ TypeInv' /\ r \in Active
         /\ call[r].kind \in {"create", "update", "publish"} /\ call[r].at = "save"
         /\ call[r].schedule \in Schedules /\ call[r].version \in Versions
         /\ UNCHANGED <<up, row, mem, memSaved, mixed, removed, calls>>
         /\ saved' = IF up THEN [saved EXCEPT ![call[r].version] = call[r].schedule] ELSE saved
         /\ call' = [call EXCEPT ![r] = call'[r]]
         /\ \/ call'[r] = Idle
            \/ /\ call[r].kind = "publish"
               /\ call'[r] \in Held
               /\ call'[r].at = "mark" /\ call'[r].kind = call[r].kind /\ call'[r].rec = call[r].rec
               /\ call'[r].shared = call[r].shared
               /\ call'[r].schedule = call[r].schedule /\ call'[r].version = call[r].version
<1>1. /\ TypeOK /\ r \in Active /\ call[r].at = "save" /\ call[r] \in Held /\ calls \in Nat
  BY AtFacts DEF TypeInv, SaveVersion
<1>2. /\ call[r].kind \in {"create", "update", "publish"}
      /\ call[r].schedule \in Schedules /\ call[r].version \in Versions
      /\ call[r].rec \in Records
  BY <1>1, KindAt, CallFacts DEF Equipped
<1>3. /\ Ends(r) \/ (Goes(r, "mark") /\ call[r].kind = "publish")
      /\ UNCHANGED <<up, row, mem, memSaved, mixed, removed, calls>>
      /\ saved' = IF up THEN [saved EXCEPT ![call[r].version] = call[r].schedule] ELSE saved
  BY DEF SaveVersion, bounds
<1>4. /\ call' = [call EXCEPT ![r] = call'[r]]
      /\ \/ call'[r] = Idle
         \/ /\ call[r].kind = "publish"
            /\ call'[r] \in Held
            /\ call'[r].at = "mark" /\ call'[r].kind = call[r].kind /\ call'[r].rec = call[r].rec
            /\ call'[r].shared = call[r].shared
            /\ call'[r].schedule = call[r].schedule /\ call'[r].version = call[r].version
  BY <1>1, <1>3, GoesFacts, EndsFacts
<1>5. call'[r] = Idle \/ (call'[r] \in Held /\ Placed(call'[r]) /\ Equipped(call'[r]))
  BY <1>2, <1>4 DEF Placed, Equipped
<1>7. saved' \in [Versions -> Schedules \cup {Nothing}]
  BY <1>1, <1>2, <1>3, StoreTypes
<1>8. TypeInv'
  BY <1>1, <1>3, <1>4, <1>5, <1>7, TypeOfCalls, StoreTypes
<1>9. QED
  BY <1>1, <1>2, <1>3, <1>4, <1>8

(* Validation ends a publication, or lets it go on to its next step.            *)
LEMMA ValidateMoves ==
  ASSUME TypeInv, NEW r \in Requests, Validate(r)
  PROVE  /\ TypeInv' /\ r \in Active
         /\ call[r].at = "validate" /\ call[r].kind \in {"publish", "republish"}
         /\ call[r].schedule \in Schedules /\ call[r].rec \in Records
         /\ UNCHANGED <<up, row, saved, mem, mixed, removed, calls>>
         /\ call' = [call EXCEPT ![r] = call'[r]]
         /\ \/ call'[r] = Idle /\ UNCHANGED memSaved
            \/ /\ call[r].schedule \in Valid
               /\ call'[r] \in Held /\ call'[r].kind = call[r].kind /\ call'[r].rec = call[r].rec
               /\ call'[r].shared = call[r].shared /\ call'[r].schedule = call[r].schedule
               /\ \/ /\ call[r].kind = "publish" /\ call'[r].at = "save"
                     /\ call'[r].version = call[r].rec.version
                     /\ memSaved' = [memSaved EXCEPT ![call[r].rec.version] = call[r].schedule]
                  \/ /\ call[r].kind = "republish" /\ call'[r].at = "mark"
                     /\ call'[r].version = call[r].version
                     /\ UNCHANGED memSaved
<1>1. /\ TypeOK /\ r \in Active /\ call[r].at = "validate" /\ call[r] \in Held /\ calls \in Nat
      /\ call \in [Requests -> Held \cup {Idle}]
  BY AtFacts DEF TypeInv, Validate
<1>2. /\ call[r].kind \in {"publish", "republish"}
      /\ call[r].schedule \in Schedules /\ call[r].rec \in Records
      /\ call[r].rec.version \in Versions
      /\ call[r].kind = "republish" => call[r].version \in Versions
  BY <1>1, KindAt, CallFacts, RecordFacts DEF Equipped
<1>3. UNCHANGED <<up, row, saved, mem, mixed, removed, calls>>
  BY DEF Validate, bounds
<1>4. \/ Ends(r) /\ UNCHANGED memSaved
      \/ /\ call[r].schedule \in Valid /\ call[r].kind = "publish"
         /\ memSaved' = [memSaved EXCEPT ![call[r].rec.version] = call[r].schedule]
         /\ call' = [call EXCEPT ![r].at = "save", ![r].version = call[r].rec.version]
      \/ /\ call[r].schedule \in Valid /\ call[r].kind = "republish"
         /\ Goes(r, "mark")
         /\ UNCHANGED memSaved
  BY DEF Validate
<1>5. CASE Ends(r) /\ UNCHANGED memSaved
  <2>1. call' = [call EXCEPT ![r] = call'[r]] /\ call'[r] = Idle
    BY <1>1, <1>5, EndsFacts
  <2>2. TypeInv'
    BY <1>1, <1>3, <1>5, <2>1, TypeOfCalls, StoreTypes
  <2>3. QED
    BY <1>1, <1>2, <1>3, <1>5, <2>1, <2>2
<1>6. CASE /\ call[r].schedule \in Valid /\ call[r].kind = "publish"
           /\ memSaved' = [memSaved EXCEPT ![call[r].rec.version] = call[r].schedule]
           /\ call' = [call EXCEPT ![r].at = "save", ![r].version = call[r].rec.version]
  <2>1. /\ call' = [call EXCEPT ![r] = call'[r]]
        /\ call'[r] \in Held /\ call'[r].kind = call[r].kind /\ call'[r].rec = call[r].rec
        /\ call'[r].shared = call[r].shared /\ call'[r].schedule = call[r].schedule
        /\ call'[r].at = "save" /\ call'[r].version = call[r].rec.version
    BY <1>1, <1>2, <1>6 DEF Held
  <2>2. Placed(call'[r]) /\ Equipped(call'[r])
    BY <1>2, <1>6, <2>1 DEF Placed, Equipped
  <2>3. memSaved' \in [Versions -> Schedules \cup {Nothing}]
    BY <1>1, <1>2, <1>6, StoreTypes
  <2>4. TypeInv'
    BY <1>1, <1>3, <2>1, <2>2, <2>3, TypeOfCalls, StoreTypes
  <2>5. QED
    BY <1>1, <1>2, <1>3, <1>6, <2>1, <2>4
<1>7. CASE /\ call[r].schedule \in Valid /\ call[r].kind = "republish"
           /\ Goes(r, "mark")
           /\ UNCHANGED memSaved
  <2>1. /\ call' = [call EXCEPT ![r] = call'[r]]
        /\ call'[r] \in Held /\ call'[r].kind = call[r].kind /\ call'[r].rec = call[r].rec
        /\ call'[r].shared = call[r].shared /\ call'[r].schedule = call[r].schedule
        /\ call'[r].at = "mark" /\ call'[r].version = call[r].version
    BY <1>1, <1>7, GoesFacts
  <2>2. Placed(call'[r]) /\ Equipped(call'[r])
    BY <1>2, <1>7, <2>1 DEF Placed, Equipped
  <2>4. TypeInv'
    BY <1>1, <1>3, <1>7, <2>1, <2>2, TypeOfCalls, StoreTypes
  <2>5. QED
    BY <1>1, <1>2, <1>3, <1>7, <2>1, <2>4
<1>8. QED
  BY <1>4, <1>5, <1>6, <1>7

(* The row is marked, and keeps its schedule and its version.                   *)
LEMMA MarkRowMoves ==
  ASSUME TypeInv, NEW r \in Requests, MarkRow(r)
  PROVE  /\ TypeInv' /\ r \in Active
         /\ call[r].at = "mark row" /\ call[r].kind \in {"publish", "republish"}
         /\ UNCHANGED <<up, saved, mem, memSaved, mixed, removed, calls>>
         /\ call' = [call EXCEPT ![r] = call'[r]] /\ call'[r] = Idle
         /\ \/ row' = row
            \/ /\ up /\ row # Nothing /\ row \in Records /\ row' \in Records
               /\ row'.schedule = row.schedule /\ row'.version = row.version
<1>1. /\ TypeOK /\ r \in Active /\ call[r].at = "mark row" /\ call[r] \in Held /\ calls \in Nat
  BY AtFacts DEF TypeInv, MarkRow
<1>2. call[r].kind \in {"publish", "republish"}
  BY <1>1, KindAt
<1>3. /\ UNCHANGED <<up, saved, mem, memSaved, mixed, removed, calls>>
      /\ row' = (IF InRow THEN Marked(row) ELSE row) /\ Ends(r)
  BY DEF MarkRow, bounds
<1>4. call' = [call EXCEPT ![r] = call'[r]] /\ call'[r] = Idle
  BY <1>1, <1>3, EndsFacts
<1>5. \/ row' = row
      \/ /\ up /\ row # Nothing /\ row \in Records /\ row' \in Records
         /\ row'.schedule = row.schedule /\ row'.version = row.version
  BY <1>1, <1>3, StoreTypes, MarkedType DEF InRow
<1>6. TypeInv'
  BY <1>1, <1>3, <1>4, <1>5, TypeOfCalls, StoreTypes
<1>7. QED
  BY <1>1, <1>2, <1>3, <1>4, <1>5, <1>6

(* A rollback reads the campaign, from the row or from memory.                  *)
LEMMA ReadMoves ==
  ASSUME TypeInv, NEW r \in Requests, ReadCampaign(r)
  PROVE  /\ TypeInv' /\ r \in Active
         /\ call[r].at = "read" /\ call[r].kind \in {"rollback", "republish"}
         /\ UNCHANGED <<up, store, mixed, removed, calls>>
         /\ call' = [call EXCEPT ![r] = call'[r]]
         /\ \/ call'[r] = Idle
            \/ /\ call'[r] \in Held /\ call'[r].kind = call[r].kind /\ call'[r].at = "draft"
               /\ call'[r].schedule = call[r].schedule /\ call'[r].version = call[r].version
               /\ call'[r].rec \in Records
               /\ \/ ~call'[r].shared /\ call'[r].rec = row
                  \/ call'[r].shared /\ call'[r].rec = mem
<1>1. /\ TypeOK /\ r \in Active /\ call[r].at = "read" /\ call[r] \in Held /\ calls \in Nat
      /\ call \in [Requests -> Held \cup {Idle}]
  BY AtFacts DEF TypeInv, ReadCampaign
<1>2. /\ call[r].kind \in {"rollback", "republish"}
      /\ call[r].schedule \in Schedules /\ call[r].version \in Versions
  BY <1>1, KindAt, CallFacts DEF Equipped
<1>3. /\ UNCHANGED <<up, store, mixed, removed, calls>>
      /\ \/ Ends(r)
         \/ /\ Found # Nothing
            /\ call' = [call EXCEPT ![r].at = "draft", ![r].rec = Found, ![r].shared = ~InRow]
  BY DEF ReadCampaign, bounds
<1>4. CASE Ends(r)
  <2>1. call' = [call EXCEPT ![r] = call'[r]] /\ call'[r] = Idle
    BY <1>1, <1>4, EndsFacts
  <2>2. TypeInv'
    BY <1>1, <1>3, <2>1, TypeOfCalls, StoreTypes, SameStore
  <2>3. QED
    BY <1>1, <1>2, <1>3, <2>1, <2>2
<1>5. CASE /\ Found # Nothing
           /\ call' = [call EXCEPT ![r].at = "draft", ![r].rec = Found, ![r].shared = ~InRow]
  <2>1. PICK rec \in Records : rec = Found /\ ((InRow /\ rec = row) \/ (~InRow /\ rec = mem))
    BY <1>1, <1>5, FoundFacts
  <2>2. call' = [call EXCEPT ![r].at = "draft", ![r].rec = rec, ![r].shared = ~InRow]
    BY <1>5, <2>1
  <2>3. /\ call' = [call EXCEPT ![r] = call'[r]]
        /\ call'[r] \in Held /\ call'[r].kind = call[r].kind /\ call'[r].at = "draft"
        /\ call'[r].schedule = call[r].schedule /\ call'[r].version = call[r].version
        /\ call'[r].rec = rec /\ (call'[r].shared <=> ~InRow)
    BY <1>1, <2>2 DEF Held
  <2>4. Placed(call'[r]) /\ Equipped(call'[r])
    BY <1>2, <2>3 DEF Placed, Equipped
  <2>5. TypeInv'
    BY <1>1, <1>3, <2>3, <2>4, TypeOfCalls, StoreTypes, SameStore
  <2>6. QED
    BY <1>1, <1>2, <1>3, <2>1, <2>3, <2>5
<1>6. QED
  BY <1>3, <1>4, <1>5

(* A rollback writes the row.                                                   *)
LEMMA RollbackRowMoves ==
  ASSUME TypeInv, NEW r \in Requests, RollbackRow(r)
  PROVE  /\ TypeInv' /\ r \in Active
         /\ call[r].at = "draft row" /\ call[r].kind \in {"rollback", "republish"}
         /\ call[r].rec \in Records
         /\ UNCHANGED <<up, saved, mem, memSaved, mixed, removed, calls>>
         /\ row' = IF up THEN call[r].rec ELSE row
         /\ call' = [call EXCEPT ![r] = call'[r]]
         /\ \/ call'[r] = Idle
            \/ /\ call[r].kind = "republish"
               /\ call'[r] \in Held
               /\ call'[r].at = "validate" /\ call'[r].kind = call[r].kind
               /\ call'[r].rec = call[r].rec /\ call'[r].shared = call[r].shared
               /\ call'[r].schedule = call[r].schedule /\ call'[r].version = call[r].version
<1>1. /\ TypeOK /\ r \in Active /\ call[r].at = "draft row" /\ call[r] \in Held /\ calls \in Nat
  BY AtFacts DEF TypeInv, RollbackRow
<1>2. /\ call[r].kind \in {"rollback", "republish"}
      /\ call[r].schedule \in Schedules /\ call[r].version \in Versions
      /\ call[r].rec \in Records
  BY <1>1, KindAt, CallFacts DEF Equipped
<1>3. /\ Ends(r) \/ (Goes(r, "validate") /\ call[r].kind = "republish")
      /\ UNCHANGED <<up, saved, mem, memSaved, mixed, removed, calls>>
      /\ row' = IF up THEN call[r].rec ELSE row
  BY DEF RollbackRow, bounds
<1>4. /\ call' = [call EXCEPT ![r] = call'[r]]
      /\ \/ call'[r] = Idle
         \/ /\ call[r].kind = "republish"
            /\ call'[r] \in Held
            /\ call'[r].at = "validate" /\ call'[r].kind = call[r].kind
            /\ call'[r].rec = call[r].rec /\ call'[r].shared = call[r].shared
            /\ call'[r].schedule = call[r].schedule /\ call'[r].version = call[r].version
  BY <1>1, <1>3, GoesFacts, EndsFacts
<1>5. call'[r] = Idle \/ (call'[r] \in Held /\ Placed(call'[r]) /\ Equipped(call'[r]))
  BY <1>2, <1>4 DEF Placed, Equipped
<1>6. row' \in Records \cup {Nothing}
  BY <1>1, <1>2, <1>3, StoreTypes
<1>7. TypeInv'
  BY <1>1, <1>3, <1>4, <1>5, <1>6, TypeOfCalls, StoreTypes
<1>8. QED
  BY <1>1, <1>2, <1>3, <1>4, <1>7

(* A deletion empties the tables, or finds no database.                         *)
LEMMA DeleteRowMoves ==
  ASSUME TypeInv, NEW r \in Requests, DeleteRow(r)
  PROVE  /\ TypeInv' /\ r \in Active
         /\ call[r].at = "delete" /\ call[r].kind = "delete"
         /\ UNCHANGED <<up, mem, memSaved, removed, calls>>
         /\ mixed \subseteq mixed'
         /\ \/ row' = Nothing /\ saved' = NoVersions
            \/ ~up /\ UNCHANGED <<row, saved>> /\ {"delete", "db"} \in mixed'
         /\ call' = [call EXCEPT ![r] = call'[r]] /\ call'[r] \in Held
         /\ call'[r].kind = "delete" /\ call'[r].at = "forget"
         /\ call'[r].rec = call[r].rec /\ call'[r].shared = call[r].shared
<1>1. /\ TypeOK /\ r \in Active /\ call[r].at = "delete" /\ call[r] \in Held /\ calls \in Nat
      /\ call \in [Requests -> Held \cup {Idle}]
  BY AtFacts DEF TypeInv, DeleteRow
<1>2. call[r].kind = "delete"
  BY <1>1, KindAt
<1>3. UNCHANGED <<up, mem, memSaved, removed, calls>>
  BY DEF DeleteRow, bounds
<1>4. /\ mixed \subseteq mixed'
      /\ \/ row' = Nothing /\ saved' = NoVersions
         \/ ~up /\ UNCHANGED <<row, saved>> /\ {"delete", "db"} \in mixed'
  BY DEF DeleteRow
<1>5. PICK v \in {0, 1} : call' = [call EXCEPT ![r].at = "forget", ![r].version = v]
  <2>1. call' = [call EXCEPT ![r].at = "forget", ![r].version = IF InRow THEN 1 ELSE 0]
    BY DEF DeleteRow
  <2>2. CASE InRow
    BY <2>1, <2>2
  <2>3. CASE ~InRow
    BY <2>1, <2>3
  <2>4. QED
    BY <2>2, <2>3
<1>6. v \in Versions \cup {0}
  BY <1>5, CampaignsConstants DEF Versions
<1>7. /\ call' = [call EXCEPT ![r] = call'[r]] /\ call'[r] \in Held
      /\ call'[r].kind = "delete" /\ call'[r].at = "forget"
      /\ call'[r].rec = call[r].rec /\ call'[r].shared = call[r].shared
  BY <1>1, <1>2, <1>5, <1>6 DEF Held
<1>8. Placed(call'[r]) /\ Equipped(call'[r])
  BY <1>2, <1>7 DEF Placed, Equipped
<1>9. /\ row' \in Records \cup {Nothing}
      /\ saved' \in [Versions -> Schedules \cup {Nothing}]
  BY <1>1, <1>4, StoreTypes DEF NoVersions
<1>10. TypeInv'
  BY <1>1, <1>3, <1>7, <1>8, <1>9, TypeOfCalls, StoreTypes
<1>11. QED
  BY <1>1, <1>2, <1>3, <1>4, <1>7, <1>10

--------------------------------------------------------------------------------
(* Steps that other calls notice: what is put into the store or taken from it.   *)
LEMMA TypeOfAll ==
  ASSUME TypeInv,
         call' \in [Requests -> Held \cup {Idle}],
         \A q \in Active' : Placed(call'[q]) /\ Equipped(call'[q]),
         calls' \in Nat,
         up' \in BOOLEAN, removed' \in BOOLEAN,
         row' \in Records \cup {Nothing}, mem' \in Records \cup {Nothing},
         saved' \in [Versions -> Schedules \cup {Nothing}],
         memSaved' \in [Versions -> Schedules \cup {Nothing}]
  PROVE  TypeInv'
<1>1. \A c \in Held : /\ c.rec \in Records \cup {Nothing}
                      /\ c.schedule \in Schedules \cup {Nothing}
                      /\ c.version \in Versions \cup {0}
  BY DEF Held
<1>2. \A q \in Active' : call'[q] \in Held
  BY DEF Active
<1>3. TypeOK'
  BY <1>1, <1>2 DEF TypeOK
<1>4. QED
  BY <1>3 DEF TypeInv

(* What a put does to another call: its place, kind, schedule and version stay.  *)
SamePlace(c, d) ==
  /\ d.kind = c.kind /\ d.at = c.at /\ d.schedule = c.schedule /\ d.version = c.version

OtherAfterPut(q, rec, inPlace) ==
  \/ q \notin Active /\ call'[q] = Idle
  \/ /\ q \in Active /\ call'[q] \in Held /\ SamePlace(call[q], call'[q])
     /\ Placed(call'[q]) /\ Equipped(call'[q])
     /\ \/ call'[q].rec = call[q].rec /\ ~call'[q].shared
        \/ inPlace /\ call[q].shared /\ call'[q].rec = rec

(* Another call either keeps its object to itself, or sees the change.          *)
LEMMA PutsOther ==
  ASSUME TypeInv, NEW r \in Active, NEW rec \in Records,
         NEW at \in {"save", "mark row", "draft row"}, NEW inPlace \in BOOLEAN,
         Puts(r, rec, at, inPlace),
         NEW q \in Requests, q # r
  PROVE  OtherAfterPut(q, rec, inPlace)
<1>1. call \in [Requests -> Held \cup {Idle}]
  BY DEF TypeInv
<1>2. CASE ~(q \in Active /\ call[q].shared)
  <2>1. call'[q] = call[q]
    BY <1>2 DEF Puts
  <2>2. QED
    BY <2>1, <1>2, CallFacts DEF SamePlace, Active, OtherAfterPut
<1>3. CASE q \in Active /\ call[q].shared
  <2>1. call[q] \in Held /\ Placed(call[q]) /\ Equipped(call[q])
    BY <1>3, CallFacts
  <2>2. CASE inPlace
    <3>1. call'[q] = [call[q] EXCEPT !.rec = rec]
      BY <1>3, <2>2 DEF Puts
    <3>2. call'[q] \in Held /\ SamePlace(call[q], call'[q]) /\ call'[q].rec = rec
      BY <2>1, <3>1 DEF Held, SamePlace
    <3>3. Placed(call'[q]) /\ Equipped(call'[q])
      BY <2>1, <3>2 DEF Placed, Equipped, SamePlace
    <3>4. QED
      BY <1>3, <2>2, <3>2, <3>3 DEF OtherAfterPut
  <2>3. CASE ~inPlace
    <3>1. call'[q] = [call[q] EXCEPT !.shared = FALSE]
      BY <1>3, <2>3 DEF Puts
    <3>2. call'[q] \in Held /\ SamePlace(call[q], call'[q])
          /\ call'[q].rec = call[q].rec /\ ~call'[q].shared
      BY <2>1, <3>1 DEF Held, SamePlace
    <3>3. Placed(call'[q]) /\ Equipped(call'[q])
      BY <2>1, <3>2 DEF Placed, Equipped, SamePlace
    <3>4. QED
      BY <1>3, <3>2, <3>3 DEF OtherAfterPut
  <2>4. QED
    BY <2>2, <2>3
<1>4. QED
  BY <1>2, <1>3

(* The call that puts an object shares it with the store.                       *)
LEMMA PutsSelf ==
  ASSUME TypeInv, NEW r \in Active, NEW rec \in Records,
         NEW at \in {"save", "mark row", "draft row"}, NEW inPlace \in BOOLEAN,
         Puts(r, rec, at, inPlace)
  PROVE  /\ call'[r] \in Held /\ call'[r].kind = call[r].kind /\ call'[r].at = at
         /\ call'[r].rec = rec /\ call'[r].shared
         /\ call'[r].schedule = call[r].schedule /\ call'[r].version = call[r].version
<1>1. call[r] \in Held /\ r \in Requests
  BY CallFacts
<1>2. call'[r] = [call[r] EXCEPT !.at = at, !.rec = rec, !.shared = TRUE]
  BY <1>1 DEF Puts
<1>3. QED
  BY <1>1, <1>2 DEF Held

(* A put leaves every call a call.                                              *)
LEMMA PutsTypes ==
  ASSUME TypeInv, NEW r \in Active, NEW rec \in Records,
         NEW at \in {"save", "mark row", "draft row"}, NEW inPlace \in BOOLEAN,
         Puts(r, rec, at, inPlace), Placed(call'[r]), Equipped(call'[r])
  PROVE  /\ call' \in [Requests -> Held \cup {Idle}]
         /\ \A q \in Active' : Placed(call'[q]) /\ Equipped(call'[q])
<1>1. ASSUME NEW q \in Requests, q # r
      PROVE  /\ call'[q] \in Held \cup {Idle}
             /\ call'[q] # Idle => Placed(call'[q]) /\ Equipped(call'[q])
  <2>1. OtherAfterPut(q, rec, inPlace)
    BY <1>1, PutsOther
  <2>2. \/ q \notin Active /\ call'[q] = Idle
        \/ call'[q] \in Held /\ Placed(call'[q]) /\ Equipped(call'[q])
    BY <2>1, Zenon DEF OtherAfterPut
  <2>3. QED
    BY <2>2
<1>2. call'[r] \in Held
  BY PutsSelf
<1>3. \A q \in Requests : /\ call'[q] \in Held \cup {Idle}
                          /\ call'[q] # Idle => Placed(call'[q]) /\ Equipped(call'[q])
  BY <1>1, <1>2
<1>4. \E f : call' = [q \in Requests |-> f[q]]
  <2> DEFINE f == [q \in Requests |->
       CASE q = r -> [call[r] EXCEPT !.at = at, !.rec = rec, !.shared = TRUE]
         [] q # r /\ ~(q \in Active /\ call[q].shared) -> call[q]
         [] q # r /\ q \in Active /\ call[q].shared ->
              IF inPlace THEN [call[q] EXCEPT !.rec = rec]
              ELSE [call[q] EXCEPT !.shared = FALSE]]
  <2>1. call' = f
    BY DEF Puts
  <2>2. f = [q \in Requests |-> f[q]]
    OBVIOUS
  <2> HIDE DEF f
  <2>3. QED
    BY <2>1, <2>2
<1>5. call' \in [Requests -> Held \cup {Idle}]
  BY <1>3, <1>4
<1>6. QED
  BY <1>3, <1>5 DEF Active

(* StoreCampaign, MarkInMemory and RollbackInMemory.                             *)
LEMMA StoreMoves ==
  ASSUME TypeInv, NEW r \in Requests, StoreCampaign(r)
  PROVE  /\ TypeInv' /\ r \in Active
         /\ call[r].at = "store" /\ call[r].kind \in {"create", "update"}
         /\ call[r].schedule \in Schedules /\ call[r].version \in Versions
         /\ UNCHANGED <<up, row, saved, mixed, removed, calls>>
         /\ memSaved' = [memSaved EXCEPT ![call[r].version] = call[r].schedule]
         /\ call'[r] \in Held /\ call'[r].kind = call[r].kind /\ call'[r].at = "save"
         /\ call'[r].rec = mem' /\ call'[r].shared
         /\ call'[r].schedule = call[r].schedule /\ call'[r].version = call[r].version
         /\ mem' \in Records /\ mem'.status = "draft"
         /\ mem'.schedule = call[r].schedule /\ mem'.version = call[r].version
         /\ \A q \in Requests \ {r} : OtherAfterPut(q, mem', FALSE)
<1>1. /\ TypeOK /\ r \in Active /\ call[r].at = "store" /\ call[r] \in Held /\ calls \in Nat
  BY AtFacts DEF TypeInv, StoreCampaign
<1>2. /\ call[r].kind \in {"create", "update"}
      /\ call[r].schedule \in Schedules /\ call[r].version \in Versions
  BY <1>1, KindAt, CallFacts DEF Equipped
<1>3. PICK rec \in Records : /\ rec = Campaign("draft", call[r].schedule, call[r].version)
                             /\ rec.status = "draft" /\ rec.schedule = call[r].schedule
                             /\ rec.version = call[r].version
  BY <1>2, CampaignType
<1>4. /\ Puts(r, rec, "save", FALSE) /\ mem' = rec
      /\ memSaved' = [memSaved EXCEPT ![call[r].version] = call[r].schedule]
      /\ UNCHANGED <<up, row, saved, mixed, removed, calls>>
  BY <1>3 DEF StoreCampaign, Puts, bounds
<1>5. /\ call'[r] \in Held /\ call'[r].kind = call[r].kind /\ call'[r].at = "save"
      /\ call'[r].rec = rec /\ call'[r].shared
      /\ call'[r].schedule = call[r].schedule /\ call'[r].version = call[r].version
  BY <1>1, <1>4, PutsSelf
<1>6. Placed(call'[r]) /\ Equipped(call'[r])
  BY <1>2, <1>5 DEF Placed, Equipped
<1>7. /\ call' \in [Requests -> Held \cup {Idle}]
      /\ \A q \in Active' : Placed(call'[q]) /\ Equipped(call'[q])
  BY <1>1, <1>4, <1>6, PutsTypes
<1>8. \A q \in Requests \ {r} : OtherAfterPut(q, rec, FALSE)
  BY <1>1, <1>4, PutsOther
<1>9. memSaved' \in [Versions -> Schedules \cup {Nothing}]
  BY <1>1, <1>2, <1>4, StoreTypes
<1>10. TypeInv'
  BY <1>1, <1>4, <1>7, <1>9, TypeOfAll, StoreTypes
<1>11. QED
  BY <1>1, <1>2, <1>3, <1>4, <1>5, <1>8, <1>10

(* _mark_campaign_published, in memory.                                         *)
LEMMA MarkMoves ==
  ASSUME TypeInv, NEW r \in Requests, MarkInMemory(r)
  PROVE  /\ TypeInv' /\ r \in Active
         /\ call[r].at = "mark" /\ call[r].kind \in {"publish", "republish"}
         /\ call[r].rec \in Records
         /\ UNCHANGED <<up, row, saved, memSaved, mixed, removed, calls>>
         /\ call'[r] \in Held /\ call'[r].kind = call[r].kind /\ call'[r].at = "mark row"
         /\ call'[r].rec = mem' /\ call'[r].shared
         /\ call'[r].schedule = call[r].schedule /\ call'[r].version = call[r].version
         /\ mem' \in Records
         /\ mem'.schedule = call[r].rec.schedule /\ mem'.version = call[r].rec.version
         /\ \A q \in Requests \ {r} : OtherAfterPut(q, mem', call[r].shared)
<1>1. /\ TypeOK /\ r \in Active /\ call[r].at = "mark" /\ call[r] \in Held /\ calls \in Nat
  BY AtFacts DEF TypeInv, MarkInMemory
<1>2. /\ call[r].kind \in {"publish", "republish"} /\ call[r].rec \in Records
      /\ call[r].schedule \in Schedules
      /\ call[r].kind = "republish" => call[r].version \in Versions
  BY <1>1, KindAt, CallFacts DEF Equipped
<1>3. PICK rec \in Records : /\ rec = Marked(call[r].rec)
                             /\ rec.schedule = call[r].rec.schedule
                             /\ rec.version = call[r].rec.version
  BY <1>2, MarkedType
<1>4. PICK inPlace \in BOOLEAN : inPlace = call[r].shared
  BY <1>1 DEF Held
<1>5. /\ Puts(r, rec, "mark row", inPlace) /\ mem' = rec
      /\ UNCHANGED <<up, row, saved, memSaved, mixed, removed, calls>>
  BY <1>3, <1>4 DEF MarkInMemory, Puts, bounds
<1>6. /\ call'[r] \in Held /\ call'[r].kind = call[r].kind /\ call'[r].at = "mark row"
      /\ call'[r].rec = rec /\ call'[r].shared
      /\ call'[r].schedule = call[r].schedule /\ call'[r].version = call[r].version
  BY <1>1, <1>5, PutsSelf
<1>7. Placed(call'[r]) /\ Equipped(call'[r])
  BY <1>2, <1>6 DEF Placed, Equipped
<1>8. /\ call' \in [Requests -> Held \cup {Idle}]
      /\ \A q \in Active' : Placed(call'[q]) /\ Equipped(call'[q])
  BY <1>1, <1>5, <1>7, PutsTypes
<1>9. \A q \in Requests \ {r} : OtherAfterPut(q, rec, call[r].shared)
  BY <1>1, <1>4, <1>5, PutsOther
<1>10. TypeInv'
  BY <1>1, <1>5, <1>8, TypeOfAll, StoreTypes
<1>11. QED
  BY <1>1, <1>2, <1>3, <1>5, <1>6, <1>9, <1>10

(* A rollback writes the copy in memory.                                        *)
LEMMA RollbackInMemoryMoves ==
  ASSUME TypeInv, NEW r \in Requests, RollbackInMemory(r)
  PROVE  /\ TypeInv' /\ r \in Active
         /\ call[r].at = "draft" /\ call[r].kind \in {"rollback", "republish"}
         /\ call[r].schedule \in Schedules /\ call[r].version \in Versions
         /\ UNCHANGED <<up, row, saved, memSaved, mixed, removed, calls>>
         /\ call'[r] \in Held /\ call'[r].kind = call[r].kind /\ call'[r].at = "draft row"
         /\ call'[r].rec = mem' /\ call'[r].shared
         /\ call'[r].schedule = call[r].schedule /\ call'[r].version = call[r].version
         /\ mem' \in Records /\ mem'.status = "draft"
         /\ mem'.schedule = call[r].schedule /\ mem'.version = call[r].version
         /\ \A q \in Requests \ {r} : OtherAfterPut(q, mem', call[r].shared)
<1>1. /\ TypeOK /\ r \in Active /\ call[r].at = "draft" /\ call[r] \in Held /\ calls \in Nat
  BY AtFacts DEF TypeInv, RollbackInMemory
<1>2. /\ call[r].kind \in {"rollback", "republish"}
      /\ call[r].schedule \in Schedules /\ call[r].version \in Versions
  BY <1>1, KindAt, CallFacts DEF Equipped
<1>3. PICK rec \in Records : /\ rec = Campaign("draft", call[r].schedule, call[r].version)
                             /\ rec.status = "draft" /\ rec.schedule = call[r].schedule
                             /\ rec.version = call[r].version
  BY <1>2, CampaignType
<1>4. PICK inPlace \in BOOLEAN : inPlace = call[r].shared
  BY <1>1 DEF Held
<1>5. /\ Puts(r, rec, "draft row", inPlace) /\ mem' = rec
      /\ UNCHANGED <<up, row, saved, memSaved, mixed, removed, calls>>
  BY <1>3, <1>4 DEF RollbackInMemory, Puts, bounds
<1>6. /\ call'[r] \in Held /\ call'[r].kind = call[r].kind /\ call'[r].at = "draft row"
      /\ call'[r].rec = rec /\ call'[r].shared
      /\ call'[r].schedule = call[r].schedule /\ call'[r].version = call[r].version
  BY <1>1, <1>5, PutsSelf
<1>7. Placed(call'[r]) /\ Equipped(call'[r])
  BY <1>2, <1>6 DEF Placed, Equipped
<1>8. /\ call' \in [Requests -> Held \cup {Idle}]
      /\ \A q \in Active' : Placed(call'[q]) /\ Equipped(call'[q])
  BY <1>1, <1>5, <1>7, PutsTypes
<1>9. \A q \in Requests \ {r} : OtherAfterPut(q, rec, call[r].shared)
  BY <1>1, <1>4, <1>5, PutsOther
<1>10. TypeInv'
  BY <1>1, <1>5, <1>8, TypeOfAll, StoreTypes
<1>11. QED
  BY <1>1, <1>2, <1>3, <1>5, <1>6, <1>9, <1>10

(* Forget: the others keep what they hold, and share it no more.                 *)
LEMMA ForgetMoves ==
  ASSUME TypeInv, NEW r \in Requests, Forget(r)
  PROVE  /\ TypeInv' /\ r \in Active
         /\ call[r].at = "forget" /\ call[r].kind = "delete"
         /\ UNCHANGED <<up, row, saved, mixed, calls>>
         /\ mem' = Nothing /\ memSaved' = NoVersions
         /\ call'[r] = Idle
         /\ \A q \in Requests \ {r} : OtherAfterPut(q, Nothing, FALSE)
<1>1. /\ TypeOK /\ r \in Active /\ call[r].at = "forget" /\ call[r] \in Held /\ calls \in Nat
      /\ call \in [Requests -> Held \cup {Idle}]
  BY AtFacts DEF TypeInv, Forget
<1>2. call[r].kind = "delete"
  BY <1>1, KindAt
<1>3. /\ UNCHANGED <<up, row, saved, mixed, calls>>
      /\ mem' = Nothing /\ memSaved' = NoVersions
  BY DEF Forget, bounds, store
<1>4. call' = [q \in Requests |->
       IF q \in Active \ {r} THEN [call[q] EXCEPT !.shared = FALSE]
       ELSE IF q = r THEN Idle ELSE call[q]]
  BY DEF Forget
<1>5. ASSUME NEW q \in Requests, q # r
      PROVE  OtherAfterPut(q, Nothing, FALSE) /\ call'[q] \in Held \cup {Idle}
  <2>1. CASE q \notin Active
    BY <1>4, <1>5, <2>1 DEF OtherAfterPut, Active
  <2>2. CASE q \in Active
    <3>1. call[q] \in Held /\ Placed(call[q]) /\ Equipped(call[q])
      BY <2>2, CallFacts
    <3>2. call'[q] = [call[q] EXCEPT !.shared = FALSE]
      BY <1>4, <1>5, <2>2
    <3>3. call'[q] \in Held /\ SamePlace(call[q], call'[q])
          /\ call'[q].rec = call[q].rec /\ ~call'[q].shared
      BY <3>1, <3>2 DEF Held, SamePlace
    <3>4. Placed(call'[q]) /\ Equipped(call'[q])
      BY <3>1, <3>3 DEF Placed, Equipped, SamePlace
    <3>5. QED
      BY <2>2, <3>3, <3>4 DEF OtherAfterPut
  <2>3. QED
    BY <2>1, <2>2
<1>6. call'[r] = Idle
  BY <1>4
<1>7. call' \in [Requests -> Held \cup {Idle}]
  <2>1. \A q \in Requests : call'[q] \in Held \cup {Idle}
    BY <1>5, <1>6
  <2> DEFINE f == [q \in Requests |->
       IF q \in Active \ {r} THEN [call[q] EXCEPT !.shared = FALSE]
       ELSE IF q = r THEN Idle ELSE call[q]]
  <2>2. call' = f /\ f = [q \in Requests |-> f[q]]
    BY <1>4
  <2> HIDE DEF f
  <2>3. QED
    BY <2>1, <2>2
<1>8. \A q \in Active' : Placed(call'[q]) /\ Equipped(call'[q])
  BY <1>5, <1>6 DEF Active, OtherAfterPut
<1>9. memSaved' \in [Versions -> Schedules \cup {Nothing}]
  BY <1>3 DEF NoVersions
<1>10. removed' \in BOOLEAN
  <2>1. removed' = (removed \/ call[r].version = 1 \/ mem # Nothing)
    BY DEF Forget
  <2>2. QED
    BY <2>1, Zenon
<1>11. TypeInv'
  BY <1>1, <1>3, <1>7, <1>8, <1>9, <1>10, TypeOfAll, StoreTypes
<1>12. QED
  BY <1>1, <1>2, <1>3, <1>5, <1>6, <1>11

(* Postgres goes away or comes back.                                            *)
LEMMA DatabaseMoves ==
  ASSUME TypeInv, DatabaseChanges
  PROVE  /\ TypeInv' /\ UNCHANGED <<store, call, removed, calls>>
         /\ mixed \subseteq mixed' /\ \A q \in Active : {call[q].kind, "db"} \in mixed'
<1>1. /\ UNCHANGED <<store, call, removed, calls>> /\ up' = ~up
      /\ mixed' = mixed \cup {{call[q].kind, "db"} : q \in Active}
  BY DEF DatabaseChanges
<1>2. up' \in BOOLEAN
  BY <1>1, Zenon
<1>3. Active' = Active /\ TypeOK
  BY <1>1 DEF Active, TypeInv
<1>4. /\ call' \in [Requests -> Held \cup {Idle}] /\ calls' \in Nat
      /\ \A q \in Active' : Placed(call'[q]) /\ Equipped(call'[q])
  BY <1>1, <1>3 DEF TypeInv
<1>5. TypeInv'
  BY <1>1, <1>2, <1>3, <1>4, TypeOfAll, StoreTypes, SameStore
<1>6. QED
  BY <1>1, <1>5

(* A restart leaves the database, and no call.                                  *)
LEMMA RestartMoves ==
  ASSUME TypeInv, Restart
  PROVE  /\ TypeInv' /\ UNCHANGED <<up, row, saved, mixed, removed, calls>>
         /\ mem' = Nothing /\ memSaved' = NoVersions /\ Active' = {}
<1>1. /\ UNCHANGED <<up, row, saved, mixed, removed, calls>>
      /\ mem' = Nothing /\ memSaved' = NoVersions /\ call' = [q \in Requests |-> Idle]
  BY DEF Restart
<1>2. TypeOK /\ calls \in Nat
  BY DEF TypeInv
<1>3. Active' = {} /\ call' \in [Requests -> Held \cup {Idle}]
  BY <1>1 DEF Active
<1>4. memSaved' \in [Versions -> Schedules \cup {Nothing}]
  BY <1>1 DEF NoVersions
<1>5. TypeInv'
  BY <1>1, <1>2, <1>3, <1>4, TypeOfAll, StoreTypes
<1>6. QED
  BY <1>1, <1>3, <1>5

--------------------------------------------------------------------------------
(* The facts about calls that hold whatever runs together.                       *)
Frame(r) ==
  \A q \in Requests \ {r} :
    /\ q \in Active' <=> q \in Active
    /\ q \in Active => /\ SamePlace(call[q], call'[q])
                       /\ call'[q].rec # call[q].rec => call[q].shared
                       /\ call'[q].shared => call[q].shared

(* A step that changes its own call only keeps the others.                      *)
LEMMA FrameOfLocal ==
  ASSUME TypeInv, NEW r \in Requests, call' = [call EXCEPT ![r] = call'[r]]
  PROVE  Frame(r) /\ \A q \in Requests \ {r} : call'[q] = call[q]
<1>1. \A q \in Requests \ {r} : call'[q] = call[q]
  BY DEF TypeInv
<1>2. QED
  BY <1>1 DEF Frame, Active, SamePlace

(* A put keeps the others in their places.                                      *)
LEMMA FrameOfPut ==
  ASSUME TypeInv, SharedIsMem, NEW r \in Requests, NEW rec, NEW inPlace \in BOOLEAN,
         \A q \in Requests \ {r} : OtherAfterPut(q, rec, inPlace)
  PROVE  Frame(r)
<1>1. SUFFICES ASSUME NEW q \in Requests \ {r}
               PROVE  /\ q \in Active' <=> q \in Active
                      /\ q \in Active => /\ SamePlace(call[q], call'[q])
                                         /\ call'[q].rec # call[q].rec => call[q].shared
                                         /\ call'[q].shared => call[q].shared
  BY DEF Frame
<1>2. OtherAfterPut(q, rec, inPlace)
  OBVIOUS
<1>3. \/ q \notin Active /\ call'[q] = Idle
      \/ /\ q \in Active /\ call'[q] \in Held /\ SamePlace(call[q], call'[q])
         /\ \/ call'[q].rec = call[q].rec /\ ~call'[q].shared
            \/ call[q].shared /\ call'[q].rec = rec
  BY <1>2, Zenon DEF OtherAfterPut
<1>4. QED
  BY <1>3, IdleApart DEF Active

(* A step of one call keeps what is said of who runs together.                  *)
LEMMA FrameKeeps ==
  ASSUME CallInv, NEW r \in Active, Frame(r),
         call'[r] = Idle \/ call'[r].kind = call[r].kind,
         mixed \subseteq mixed', calls' = calls
  PROVE  Beginning' /\ Alone' /\ Noted'
<1>1. r \in Requests /\ calls # 0 /\ Alone /\ Noted
  BY DEF CallInv, Beginning, Active
<1>2. \A q \in Active' : q \in Active /\ call'[q].kind = call[q].kind
  BY DEF Frame, SamePlace, Active
<1>3. Beginning'
  BY <1>1 DEF Beginning
<1>4. Alone'
  BY <1>1, <1>2 DEF Alone
<1>5. Noted'
  BY <1>1, <1>2 DEF Noted
<1>6. QED
  BY <1>3, <1>4, <1>5

(* So does a call that begins.                                                  *)
LEMMA JoinKeeps ==
  ASSUME CallInv, NEW r \in Requests, r \notin Active, calls' # 0,
         call' = [call EXCEPT ![r] = call'[r]],
         mixed \subseteq mixed',
         \A q \in Active : call[q].kind # "create" /\ {call'[r].kind, call[q].kind} \in mixed',
         call'[r].kind = "create" => Active = {}
  PROVE  Beginning' /\ Alone' /\ Noted' /\ Active' \subseteq Active \cup {r}
         /\ \A q \in Active : q # r /\ q \in Active' /\ call'[q] = call[q]
<1>1. TypeInv /\ Alone /\ Noted
  BY DEF CallInv
<1>2. \A q \in Active' : q = r \/ (q \in Active /\ call'[q] = call[q])
  BY <1>1, FrameOfLocal DEF Frame, Active
<1>3. \A q \in Active : q # r /\ q \in Active' /\ call'[q] = call[q]
  BY <1>1, FrameOfLocal DEF Frame, Active
<1>4. Beginning'
  BY DEF Beginning
<1>5. Alone'
  BY <1>1, <1>2 DEF Alone
<1>6. Noted'
  <2>1. SUFFICES ASSUME NEW p \in Active', NEW q \in Active', p # q
                 PROVE  {call'[p].kind, call'[q].kind} \in mixed'
    BY DEF Noted
  <2>2. CASE p = r
    BY <1>2, <2>1, <2>2
  <2>3. CASE q = r
    <3>1. {call'[q].kind, call'[p].kind} \in mixed'
      BY <1>2, <2>1, <2>3
    <3>2. {call'[q].kind, call'[p].kind} = {call'[p].kind, call'[q].kind}
      OBVIOUS
    <3>3. QED
      BY <3>1, <3>2
  <2>4. CASE p # r /\ q # r
    BY <1>1, <1>2, <2>1, <2>4 DEF Noted
  <2>5. QED
    BY <2>2, <2>3, <2>4
<1>7. QED
  BY <1>2, <1>3, <1>4, <1>5, <1>6

(* CallInv after a step that changes its own call only.                         *)
LEMMA LocalCall ==
  ASSUME CallInv, TypeInv', NEW r \in Active, call' = [call EXCEPT ![r] = call'[r]],
         mixed \subseteq mixed', calls' = calls, mem' = mem,
         \/ call'[r] = Idle
         \/ /\ call'[r].kind = call[r].kind
            /\ call'[r].shared => call'[r].rec = mem
  PROVE  CallInv'
<1>1. r \in Requests /\ TypeInv /\ SharedIsMem
  BY DEF CallInv, Active
<1>2. Frame(r) /\ \A q \in Requests \ {r} : call'[q] = call[q]
  BY <1>1, FrameOfLocal
<1>3. Beginning' /\ Alone' /\ Noted'
  BY <1>2, FrameKeeps
<1>4. \A q \in Active' : call'[q].shared => call'[q].rec = mem'
  BY <1>1, <1>2 DEF Frame, Active, SharedIsMem
<1>5. QED
  BY <1>3, <1>4 DEF CallInv, SharedIsMem

(* CallInv after a put.                                                         *)
LEMMA PutCall ==
  ASSUME CallInv, TypeInv', NEW r \in Active, NEW inPlace \in BOOLEAN, NEW rec,
         mem' = rec, \A q \in Requests \ {r} : OtherAfterPut(q, rec, inPlace),
         mixed \subseteq mixed', calls' = calls,
         \/ call'[r] = Idle
         \/ /\ call'[r].kind = call[r].kind
            /\ call'[r].rec = rec
  PROVE  CallInv' /\ Frame(r)
<1>1. r \in Requests /\ TypeInv /\ SharedIsMem
  BY DEF CallInv, Active
<1>2. Frame(r)
  BY <1>1, FrameOfPut
<1>3. Beginning' /\ Alone' /\ Noted'
  BY <1>2, FrameKeeps
<1>4. ASSUME NEW q \in Active', call'[q].shared
      PROVE  call'[q].rec = mem'
  <2>1. CASE q = r
    BY <1>4, <2>1 DEF Active
  <2>2. CASE q # r
    <3>1. q \in Requests \ {r} /\ call'[q] # Idle
      BY <2>2 DEF Active
    <3>2. OtherAfterPut(q, rec, inPlace)
      BY <3>1
    <3>3. \/ call'[q] = Idle
          \/ ~call'[q].shared
          \/ call'[q].rec = rec
      BY <3>2, Zenon DEF OtherAfterPut
    <3>4. QED
      BY <3>1, <3>3, <1>4
  <2>3. QED
    BY <2>1, <2>2
<1>5. SharedIsMem'
  BY <1>4 DEF SharedIsMem
<1>6. QED
  BY <1>2, <1>3, <1>5 DEF CallInv

(* CallInv after a beginning.                                                   *)
LEMMA JoinCall ==
  ASSUME CallInv, TypeInv', NEW r \in Requests, r \notin Active, calls' # 0,
         call' = [call EXCEPT ![r] = call'[r]], call'[r] \in Held,
         mixed \subseteq mixed', UNCHANGED store,
         \A q \in Active : call[q].kind # "create" /\ {call'[r].kind, call[q].kind} \in mixed',
         call'[r].kind = "create" => calls = 0,
         call'[r].shared => call'[r].rec = mem
  PROVE  CallInv' /\ \A q \in Active : q # r /\ q \in Active' /\ call'[q] = call[q]
<1>1. TypeInv /\ SharedIsMem /\ (calls = 0 => Active = {}) /\ mem' = mem
  BY DEF CallInv, Beginning, store
<1>2. /\ Beginning' /\ Alone' /\ Noted' /\ Active' \subseteq Active \cup {r}
      /\ \A q \in Active : q # r /\ q \in Active' /\ call'[q] = call[q]
  BY <1>1, JoinKeeps
<1>3. \A q \in Active' : call'[q].shared => call'[q].rec = mem'
  BY <1>1, <1>2 DEF SharedIsMem
<1>4. QED
  BY <1>2, <1>3 DEF CallInv, SharedIsMem

(* A shared object is what the store has.                                       *)
LEMMA SharedFacts ==
  ASSUME CallInv, NEW r \in Active
  PROVE  call[r].shared => call[r].rec = mem
BY DEF CallInv, SharedIsMem

(* What a step of one call does to the others.                                   *)
LEMMA StepsCall ==
  ASSUME CallInv, NEW r \in Requests, Steps(r)
  PROVE  CallInv' /\ r \in Active /\ Frame(r) /\ mixed \subseteq mixed'
<1>t. TypeInv /\ SharedIsMem
  BY DEF CallInv
<1>1. CASE ChooseVersion(r)
  BY <1>t, <1>1, ChooseMoves, LocalCall, FrameOfLocal DEF store
<1>2. CASE InsertCampaign(r)
  BY <1>t, <1>2, InsertMoves, LocalCall, FrameOfLocal, SharedFacts
<1>3. CASE SaveVersion(r)
  BY <1>t, <1>3, SaveMoves, LocalCall, FrameOfLocal, SharedFacts
<1>4. CASE Validate(r)
  BY <1>t, <1>4, ValidateMoves, LocalCall, FrameOfLocal, SharedFacts
<1>5. CASE MarkRow(r)
  BY <1>t, <1>5, MarkRowMoves, LocalCall, FrameOfLocal
<1>6. CASE ReadCampaign(r)
  BY <1>t, <1>6, ReadMoves, LocalCall, FrameOfLocal DEF store
<1>7. CASE RollbackRow(r)
  BY <1>t, <1>7, RollbackRowMoves, LocalCall, FrameOfLocal, SharedFacts
<1>8. CASE DeleteRow(r)
  BY <1>t, <1>8, DeleteRowMoves, LocalCall, FrameOfLocal, SharedFacts
<1>9. CASE StoreCampaign(r)
  <2>1. PICK inPlace \in BOOLEAN : inPlace = FALSE
    OBVIOUS
  <2>2. \A q \in Requests \ {r} : OtherAfterPut(q, mem', inPlace)
    BY <1>t, <1>9, <2>1, StoreMoves
  <2>3. QED
    BY <1>t, <1>9, <2>2, StoreMoves, PutCall
<1>10. CASE MarkInMemory(r)
  <2>1. PICK inPlace \in BOOLEAN : inPlace = call[r].shared
    BY <1>t, <1>10, MarkMoves, CallFacts DEF Held
  <2>2. \A q \in Requests \ {r} : OtherAfterPut(q, mem', inPlace)
    BY <1>t, <1>10, <2>1, MarkMoves
  <2>3. QED
    BY <1>t, <1>10, <2>2, MarkMoves, PutCall
<1>11. CASE RollbackInMemory(r)
  <2>1. PICK inPlace \in BOOLEAN : inPlace = call[r].shared
    BY <1>t, <1>11, RollbackInMemoryMoves, CallFacts DEF Held
  <2>2. \A q \in Requests \ {r} : OtherAfterPut(q, mem', inPlace)
    BY <1>t, <1>11, <2>1, RollbackInMemoryMoves
  <2>3. QED
    BY <1>t, <1>11, <2>2, RollbackInMemoryMoves, PutCall
<1>12. CASE Forget(r)
  <2>1. PICK inPlace \in BOOLEAN : inPlace = FALSE
    OBVIOUS
  <2>2. \A q \in Requests \ {r} : OtherAfterPut(q, mem', inPlace)
    BY <1>t, <1>12, <2>1, ForgetMoves
  <2>3. QED
    BY <1>t, <1>12, <2>2, ForgetMoves, PutCall
<1>13. QED
  BY <1>1, <1>2, <1>3, <1>4, <1>5, <1>6, <1>7, <1>8, <1>9, <1>10, <1>11, <1>12 DEF Steps

(* A beginning changes no store and no other call.                               *)
Begun(r) ==
  /\ r \notin Active /\ call' = [call EXCEPT ![r] = call'[r]] /\ call'[r] \in Held
  /\ UNCHANGED <<up, store, removed>>
  /\ mixed \subseteq mixed'
  /\ \A q \in Active : {call'[r].kind, call[q].kind} \in mixed'
  /\ \A q \in Active : q # r /\ q \in Active' /\ call'[q] = call[q]
  /\ call'[r].shared => call'[r].rec = mem
  /\ \/ /\ call'[r].kind = "create" /\ call'[r].at = "insert" /\ call'[r].rec = Nothing
        /\ call'[r].schedule \in Schedules /\ call'[r].version \in Versions
        /\ calls = 0
     \/ call'[r].kind = "delete" /\ call'[r].at = "delete" /\ call'[r].rec = Nothing
     \/ /\ call'[r].kind \in {"rollback", "republish"} /\ call'[r].at = "read"
        /\ call'[r].rec = Nothing /\ call'[r].version \in Versions
        /\ call'[r].schedule # Nothing
        /\ \/ call'[r].schedule = saved[call'[r].version]
           \/ call'[r].schedule = memSaved[call'[r].version]
     \/ /\ call'[r].rec \in Records /\ call'[r].rec # Nothing
        /\ \/ ~call'[r].shared /\ call'[r].rec = row /\ up
           \/ call'[r].shared /\ call'[r].rec = mem /\ (up => row = Nothing)
        /\ \/ /\ call'[r].kind = "publish" /\ call'[r].at = "validate"
              /\ call'[r].schedule = call'[r].rec.schedule
           \/ call'[r].kind = "update" /\ call'[r].at = "version"

(* Every beginning is one of those.                                             *)
LEMMA BeginsCall ==
  ASSUME CallInv, NEW r \in Requests,
         \/ \E s \in Schedules : Create(r, s) \/ Update(r, s)
         \/ \E v \in Versions, kind \in {"rollback", "republish"} : Rollback(r, kind, v)
         \/ Publish(r) \/ Delete(r)
  PROVE  CallInv' /\ Begun(r)
<1>t. TypeInv
  BY DEF CallInv
<1>1. ASSUME NEW s \in Schedules, Create(r, s)
      PROVE  CallInv' /\ Begun(r)
  <2>1. 1 \in Versions
    BY CampaignsConstants DEF Versions
  <2>2. /\ TypeInv' /\ r \notin Active /\ calls' # 0 /\ calls = 0
        /\ UNCHANGED <<up, store, removed>>
        /\ call' = [call EXCEPT ![r] = call'[r]] /\ call'[r] \in Held
        /\ mixed \subseteq mixed'
        /\ \A q \in Active : call[q].kind # "create" /\ {call'[r].kind, call[q].kind} \in mixed'
        /\ call'[r].kind = "create" /\ call'[r].at = "insert" /\ ~call'[r].shared
        /\ call'[r].rec = Nothing /\ call'[r].schedule = s /\ call'[r].version = 1
    BY <1>t, <1>1, CreateMoves
  <2>3. CallInv' /\ \A q \in Active : q # r /\ q \in Active' /\ call'[q] = call[q]
    BY <2>2, JoinCall
  <2>4. QED
    BY <2>1, <2>2, <2>3 DEF Begun
<1>2. CASE Delete(r)
  <2>2. /\ TypeInv' /\ r \notin Active /\ calls' # 0
        /\ UNCHANGED <<up, store, removed>>
        /\ call' = [call EXCEPT ![r] = call'[r]] /\ call'[r] \in Held
        /\ mixed \subseteq mixed'
        /\ \A q \in Active : call[q].kind # "create" /\ {call'[r].kind, call[q].kind} \in mixed'
        /\ call'[r].kind = "delete" /\ call'[r].at = "delete" /\ ~call'[r].shared
        /\ call'[r].rec = Nothing
    BY <1>t, <1>2, DeleteMoves
  <2>3. CallInv' /\ \A q \in Active : q # r /\ q \in Active' /\ call'[q] = call[q]
    BY <2>2, JoinCall
  <2>4. QED
    BY <2>2, <2>3 DEF Begun
<1>3. ASSUME NEW v \in Versions, NEW kind \in {"rollback", "republish"}, Rollback(r, kind, v)
      PROVE  CallInv' /\ Begun(r)
  <2>2. /\ TypeInv' /\ r \notin Active /\ calls' # 0
        /\ UNCHANGED <<up, store, removed>>
        /\ call' = [call EXCEPT ![r] = call'[r]] /\ call'[r] \in Held
        /\ mixed \subseteq mixed'
        /\ \A q \in Active : call[q].kind # "create" /\ {call'[r].kind, call[q].kind} \in mixed'
        /\ call'[r].kind = kind /\ call'[r].at = "read" /\ ~call'[r].shared
        /\ call'[r].rec = Nothing /\ call'[r].version = v
        /\ call'[r].schedule # Nothing
        /\ \/ call'[r].schedule = saved[v]
           \/ call'[r].schedule = memSaved[v]
    BY <1>t, <1>3, RollbackMoves
  <2>3. CallInv' /\ \A q \in Active : q # r /\ q \in Active' /\ call'[q] = call[q]
    BY <2>2, JoinCall
  <2>4. QED
    BY <2>2, <2>3 DEF Begun
<1>4. CASE Publish(r) \/ \E s \in Schedules : Update(r, s)
  <2>2. /\ TypeInv' /\ r \notin Active /\ calls' # 0
        /\ UNCHANGED <<up, store, removed>>
        /\ call' = [call EXCEPT ![r] = call'[r]] /\ call'[r] \in Held
        /\ mixed \subseteq mixed'
        /\ \A q \in Active : call[q].kind # "create" /\ {call'[r].kind, call[q].kind} \in mixed'
        /\ call'[r].rec \in Records /\ call'[r].rec # Nothing
        /\ \/ ~call'[r].shared /\ call'[r].rec = row /\ up
           \/ call'[r].shared /\ call'[r].rec = mem /\ (up => row = Nothing)
        /\ \/ /\ call'[r].kind = "publish" /\ call'[r].at = "validate"
              /\ call'[r].schedule = call'[r].rec.schedule
           \/ call'[r].kind = "update" /\ call'[r].at = "version"
    BY <1>t, <1>4, ReaderMoves
  <2>3. CallInv' /\ \A q \in Active : q # r /\ q \in Active' /\ call'[q] = call[q]
    BY <2>2, JoinCall
  <2>4. QED
    BY <2>2, <2>3 DEF Begun
<1>5. QED
  BY <1>1, <1>2, <1>3, <1>4

(* CallInv holds at the start.                                                  *)
LEMMA InitCall == Init => CallInv
<1>1. SUFFICES ASSUME Init PROVE CallInv
  OBVIOUS
<1>2. /\ up \in BOOLEAN /\ removed \in BOOLEAN
      /\ row \in Records \cup {Nothing} /\ mem \in Records \cup {Nothing}
      /\ saved \in [Versions -> Schedules \cup {Nothing}]
      /\ memSaved \in [Versions -> Schedules \cup {Nothing}]
      /\ call \in [Requests -> Held \cup {Idle}] /\ calls \in Nat
  BY <1>1 DEF Init, NoVersions
<1>3. Active = {}
  BY <1>1 DEF Init, Active
<1>4. TypeInv
  BY <1>2, <1>3 DEF TypeInv, TypeOK
<1>5. Beginning /\ Alone /\ Noted /\ SharedIsMem
  BY <1>1, <1>3 DEF Init, Beginning, Alone, Noted, SharedIsMem
<1>6. QED
  BY <1>4, <1>5 DEF CallInv

(* A beginning keeps the other calls.                                           *)
LEMMA BegunOthers ==
  ASSUME CallInv, NEW r \in Requests, Begun(r)
  PROVE  \A q \in Active' : q = r \/ (q \in Active /\ call'[q] = call[q])
<1>1. call' = [call EXCEPT ![r] = call'[r]] /\ TypeInv
  BY DEF Begun, CallInv
<1>2. QED
  BY <1>1, FrameOfLocal DEF Frame, Active

(* Every step begins a call, takes it further, or comes from outside.            *)
LEMMA NextSplit ==
  ASSUME CallInv, [Next]_vars
  PROVE  /\ CallInv' /\ mixed \subseteq mixed'
         /\ \/ \E r \in Requests : Begun(r)
            \/ \E r \in Requests : Steps(r)
            \/ DatabaseChanges
            \/ Restart
            \/ UNCHANGED vars
<1>t. TypeInv
  BY DEF CallInv
<1>1. ASSUME NEW r \in Requests,
             \/ \E s \in Schedules : Create(r, s) \/ Update(r, s)
             \/ \E v \in Versions, kind \in {"rollback", "republish"} : Rollback(r, kind, v)
             \/ Publish(r) \/ Delete(r)
      PROVE  CallInv' /\ mixed \subseteq mixed' /\ Begun(r)
  <2>1. CallInv' /\ Begun(r)
    BY <1>1, BeginsCall
  <2>2. QED
    BY <2>1 DEF Begun
<1>2. ASSUME NEW r \in Requests, Steps(r)
      PROVE  CallInv' /\ mixed \subseteq mixed'
  BY <1>2, StepsCall
<1>3. CASE DatabaseChanges
  <2>1. TypeInv' /\ UNCHANGED <<store, call, removed, calls>> /\ mixed \subseteq mixed'
    BY <1>t, <1>3, DatabaseMoves
  <2>2. Active' = Active /\ mem' = mem
    BY <2>1 DEF Active, store
  <2>3. Beginning' /\ Alone' /\ Noted' /\ SharedIsMem'
    BY <2>1, <2>2 DEF CallInv, Beginning, Alone, Noted, SharedIsMem, store
  <2>4. QED
    BY <1>3, <2>1, <2>3 DEF CallInv
<1>4. CASE Restart
  <2>1. /\ TypeInv' /\ UNCHANGED <<up, row, saved, mixed, removed, calls>>
        /\ mem' = Nothing /\ memSaved' = NoVersions /\ Active' = {}
    BY <1>t, <1>4, RestartMoves
  <2>2. Beginning' /\ Alone' /\ Noted' /\ SharedIsMem'
    BY <2>1 DEF CallInv, Beginning, Alone, Noted, SharedIsMem
  <2>3. QED
    BY <1>4, <2>1, <2>2 DEF CallInv
<1>5. CASE UNCHANGED vars
  <2>1. UNCHANGED <<up, row, saved, mem, memSaved, call, mixed, removed, calls>>
        /\ Active' = Active
    BY <1>5 DEF vars, store, bounds, Active
  <2>2. TypeInv'
    BY <1>t, <2>1 DEF TypeInv, TypeOK
  <2>3. Beginning' /\ Alone' /\ Noted' /\ SharedIsMem'
    BY <2>1 DEF CallInv, Beginning, Alone, Noted, SharedIsMem
  <2>4. QED
    BY <1>5, <2>1, <2>2, <2>3 DEF CallInv
<1>6. \/ \E r \in Requests :
           \/ \E s \in Schedules : Create(r, s) \/ Update(r, s)
           \/ \E v \in Versions, kind \in {"rollback", "republish"} : Rollback(r, kind, v)
           \/ Publish(r) \/ Delete(r)
      \/ \E r \in Requests : Steps(r)
      \/ DatabaseChanges \/ Restart \/ UNCHANGED vars
  BY DEF Next
<1>7. QED
  BY <1>1, <1>2, <1>3, <1>4, <1>5, <1>6

(* Every variable keeps the type the code gives it (campaigns.py).               *)
THEOREM TypeCorrect == Spec => []TypeOK
<1>1. CallInv /\ [Next]_vars => CallInv'
  BY NextSplit
<1>2. CallInv => TypeOK
  BY DEF CallInv, TypeInv
<1>3. QED
  BY <1>1, <1>2, InitCall, PTL DEF Spec

--------------------------------------------------------------------------------
(* What devices are served.                                                      *)
Clean ==
  /\ ValidRec(row) /\ ValidRec(mem)
  /\ \A r \in Active : ValidRec(call[r].rec) /\ Knows(r)

(* Without an encounter, what runs with a publication does not write the campaign. *)
LEMMA PublisherAlone ==
  ASSUME CallInv, ~PublicationMet, NEW p \in Active, NEW q \in Active, p # q,
         call[p].kind \in {"publish", "republish"}
  PROVE  call[q].kind = "delete" \/ (call[q].kind = "publish" /\ call[p].kind = "publish")
<1>1. {call[p].kind, call[q].kind} \in mixed /\ call[q].kind # "create" /\ call[q] \in Held
  BY CallFacts DEF CallInv, Noted, Alone
<1>2. \A a \in {"publish", "republish"}, b \in {"update", "rollback", "republish"} :
        {a, b} \notin mixed
  BY DEF PublicationMet
<1>3. call[q].kind \in {"update", "publish", "republish", "rollback", "delete"}
  BY <1>1 DEF Held
<1>4. CASE call[q].kind \in {"update", "rollback", "republish"}
  BY <1>1, <1>2, <1>4
<1>5. CASE call[q].kind = "publish" /\ call[p].kind = "republish"
  <2>1. {"republish", "publish"} = {"publish", "republish"}
    OBVIOUS
  <2>2. QED
    BY <1>1, <1>2, <1>5, <2>1
<1>6. QED
  BY <1>3, <1>4, <1>5

(* A beginning keeps the published records valid.                               *)
LEMMA ServedBegins ==
  ASSUME CallInv, Clean, NEW r \in Requests, Begun(r)
  PROVE  Clean'
<1>1. UNCHANGED <<up, row, mem>>
  BY DEF Begun, store
<1>2. ASSUME NEW q \in Active', q # r
      PROVE  (ValidRec(call[q].rec) /\ Knows(q))'
  <2>1. q \in Active /\ call'[q] = call[q]
    BY <1>2, BegunOthers
  <2>2. QED
    BY <1>1, <2>1 DEF Clean, ValidRec, IsPublished, Knows, Publishes
<1>3. ValidRec(Nothing) /\ ValidRec(row) /\ ValidRec(mem)
  BY DEF Clean, ValidRec, IsPublished
<1>4. ValidRec(call'[r].rec)
  BY <1>3 DEF Begun
<1>5. Knows(r)'
  <2>1. CASE call'[r].kind = "publish" /\ call'[r].at = "validate"
    <3>1. /\ call'[r].schedule = call'[r].rec.schedule
          /\ \/ call'[r].rec = row
             \/ up => row = Nothing
      BY <2>1 DEF Begun
    <3>2. QED
      BY <1>1, <2>1, <3>1 DEF Knows, Publishes
  <2>2. CASE ~(call'[r].kind = "publish" /\ call'[r].at = "validate")
    <3>1. \/ call'[r].kind \in {"create", "delete", "update"}
          \/ call'[r].at = "read"
      BY <2>2 DEF Begun
    <3>2. QED
      BY <3>1 DEF Knows, Publishes
  <2>3. QED
    BY <2>1, <2>2
<1>6. \A q \in Active' : (ValidRec(call[q].rec) /\ Knows(q))'
  BY <1>2, <1>4, <1>5 DEF ValidRec, IsPublished
<1>7. QED
  BY <1>1, <1>3, <1>6 DEF Clean, ValidRec, IsPublished

(* So does a step that changes its own call and perhaps the row.                *)
LEMMA ServedLocal ==
  ASSUME CallInv, Clean, NEW r \in Active, call' = [call EXCEPT ![r] = call'[r]],
         UNCHANGED <<up, mem>>, ValidRec(row'),
         \A q \in Active : q # r /\ Publishes(q) /\ up /\ row' # Nothing =>
           row'.schedule = call[q].schedule,
         call'[r] = Idle \/ (ValidRec(call'[r].rec) /\ Knows(r)')
  PROVE  Clean'
<1>1. ASSUME NEW q \in Active', q # r
      PROVE  ValidRec(call'[q].rec) /\ Knows(q)'
  <2>1. q \in Active /\ call'[q] = call[q]
    BY <1>1, FrameOfLocal DEF CallInv, Frame, Active
  <2>2. QED
    BY <1>1, <2>1 DEF Clean, Knows, Publishes
<1>2. \A q \in Active' : ValidRec(call'[q].rec) /\ Knows(q)'
  BY <1>1 DEF Active
<1>3. ValidRec(mem')
  BY DEF Clean
<1>4. QED
  BY <1>2, <1>3 DEF Clean, ValidRec, IsPublished

(* And a put.                                                                   *)
LEMMA ServedPut ==
  ASSUME CallInv, Clean, NEW r \in Active, NEW rec, NEW inPlace \in BOOLEAN,
         UNCHANGED <<up, row>>, mem' = rec, ValidRec(rec),
         \A q \in Requests \ {r} : OtherAfterPut(q, rec, inPlace),
         \A q \in Active : q # r /\ inPlace /\ call[q].shared
                           /\ call[q].kind \in {"publish", "republish"} =>
           rec.schedule = mem.schedule,
         call'[r] = Idle \/ (ValidRec(call'[r].rec) /\ Knows(r)')
  PROVE  Clean'
<1>1. ASSUME NEW q \in Active', q # r
      PROVE  ValidRec(call'[q].rec) /\ Knows(q)'
  <2>1. q \in Requests \ {r} /\ call'[q] # Idle
    BY <1>1 DEF Active
  <2>2. OtherAfterPut(q, rec, inPlace)
    BY <2>1
  <2>3. /\ q \in Active /\ SamePlace(call[q], call'[q])
        /\ \/ call'[q].rec = call[q].rec
           \/ inPlace /\ call[q].shared /\ call'[q].rec = rec
    BY <2>1, <2>2, Zenon DEF OtherAfterPut
  <2>4. ValidRec(call[q].rec) /\ Knows(q)
    BY <2>3 DEF Clean
  <2>5. ValidRec(call'[q].rec)
    BY <2>3, <2>4
  <2>6. CASE call'[q].rec = call[q].rec
    BY <2>3, <2>4, <2>6 DEF Knows, Publishes, SamePlace
  <2>7. CASE inPlace /\ call[q].shared /\ call'[q].rec = rec
    <3>1. call[q].rec = mem
      BY <2>3, <2>7, SharedFacts
    <3>2. call[q].kind \in {"publish", "republish"} => rec.schedule = call[q].rec.schedule
      BY <1>1, <2>3, <2>7, <3>1
    <3>3. Publishes(q)' <=> Publishes(q)
      BY <2>3 DEF Publishes, SamePlace
    <3>4. QED
      BY <2>3, <2>4, <2>7, <3>2, <3>3 DEF Knows, Publishes, SamePlace
  <2>8. QED
    BY <2>3, <2>5, <2>6, <2>7
<1>2. \A q \in Active' : ValidRec(call'[q].rec) /\ Knows(q)'
  BY <1>1 DEF Active
<1>3. ValidRec(row)
  BY DEF Clean
<1>4. QED
  BY <1>2, <1>3 DEF Clean, ValidRec, IsPublished

(* Every step of a call is one of those.                                        *)
LEMMA ServedSteps ==
  ASSUME CallInv, Clean, ~PublicationMet, NEW r \in Requests, Steps(r)
  PROVE  Clean'
<1>t. TypeInv /\ r \in Active
  BY StepsCall DEF CallInv
<1>c. /\ ValidRec(row) /\ ValidRec(mem) /\ ValidRec(call[r].rec) /\ Knows(r)
      /\ \A q \in Active : Knows(q)
      /\ ValidRec(Nothing)
  BY <1>t DEF Clean, ValidRec, IsPublished
<1>p. \A q \in Active : q # r /\ Publishes(q) =>
        call[r].kind \in {"publish", "delete"}
  BY <1>t, PublisherAlone DEF Publishes
<1>s. ASSUME row' = row
      PROVE  \A q \in Active : q # r /\ Publishes(q) /\ up /\ row' # Nothing =>
               row'.schedule = call[q].schedule
  BY <1>s, <1>c DEF Knows
<1>1. CASE ChooseVersion(r)
  <2>1. /\ UNCHANGED <<up, row, mem>> /\ call' = [call EXCEPT ![r] = call'[r]]
        /\ call'[r].kind = "update" /\ call'[r].rec = Nothing
    BY <1>t, <1>1, ChooseMoves DEF store
  <2>2. Knows(r)'
    BY <2>1 DEF Knows, Publishes
  <2>3. QED
    BY <1>t, <1>c, <1>s, <2>1, <2>2, ServedLocal
<1>2. CASE InsertCampaign(r)
  <2>1. /\ UNCHANGED <<up, mem>> /\ call' = [call EXCEPT ![r] = call'[r]]
        /\ call'[r].kind = call[r].kind /\ call[r].kind \in {"create", "update"}
        /\ call'[r].rec = call[r].rec
        /\ row' = row \/ row'.status = "draft"
    BY <1>t, <1>2, InsertMoves
  <2>2. Knows(r)'
    BY <2>1 DEF Knows, Publishes
  <2>3. ValidRec(row')
    BY <1>c, <2>1 DEF ValidRec, IsPublished
  <2>4. \A q \in Active : q # r => ~Publishes(q)
    BY <1>p, <2>1
  <2>5. QED
    BY <1>t, <1>c, <2>1, <2>2, <2>3, <2>4, ServedLocal
<1>3. CASE SaveVersion(r)
  <2>1. /\ UNCHANGED <<up, row, mem>> /\ call' = [call EXCEPT ![r] = call'[r]]
        /\ call[r].at = "save"
        /\ \/ call'[r] = Idle
           \/ /\ call[r].kind = "publish" /\ call'[r].kind = call[r].kind
              /\ call'[r].at = "mark" /\ call'[r].rec = call[r].rec
              /\ call'[r].schedule = call[r].schedule
    BY <1>t, <1>3, SaveMoves
  <2>2. call'[r] = Idle \/ (ValidRec(call'[r].rec) /\ Knows(r)')
    BY <1>c, <2>1 DEF Knows, Publishes
  <2>3. QED
    BY <1>t, <1>c, <1>s, <2>1, <2>2, ServedLocal
<1>4. CASE Validate(r)
  <2>1. /\ UNCHANGED <<up, row, mem>> /\ call' = [call EXCEPT ![r] = call'[r]]
        /\ call[r].at = "validate" /\ call[r].kind \in {"publish", "republish"}
        /\ \/ call'[r] = Idle
           \/ /\ call[r].schedule \in Valid /\ call'[r].kind = call[r].kind
              /\ call'[r].at \in {"save", "mark"} /\ call'[r].rec = call[r].rec
              /\ call'[r].schedule = call[r].schedule
    BY <1>t, <1>4, ValidateMoves
  <2>2. call'[r] = Idle \/ (ValidRec(call'[r].rec) /\ Knows(r)')
    BY <1>c, <2>1 DEF Knows, Publishes
  <2>3. QED
    BY <1>t, <1>c, <1>s, <2>1, <2>2, ServedLocal
<1>5. CASE MarkRow(r)
  <2>1. /\ UNCHANGED <<up, mem>> /\ call' = [call EXCEPT ![r] = call'[r]]
        /\ call[r].at = "mark row" /\ call[r].kind \in {"publish", "republish"}
        /\ call'[r] = Idle
        /\ \/ row' = row
           \/ up /\ row # Nothing /\ row'.schedule = row.schedule
    BY <1>t, <1>5, MarkRowMoves
  <2>2. up /\ row # Nothing => row.schedule = call[r].schedule /\ call[r].schedule \in Valid
    BY <1>c, <2>1 DEF Knows, Publishes
  <2>3. ValidRec(row')
    BY <1>c, <2>1, <2>2 DEF ValidRec
  <2>4. \A q \in Active : q # r /\ Publishes(q) /\ up /\ row' # Nothing =>
          row'.schedule = call[q].schedule
    BY <1>c, <2>1 DEF Knows
  <2>5. QED
    BY <1>t, <2>1, <2>3, <2>4, ServedLocal
<1>6. CASE ReadCampaign(r)
  <2>1. /\ UNCHANGED <<up, row, mem>> /\ call' = [call EXCEPT ![r] = call'[r]]
        /\ \/ call'[r] = Idle
           \/ /\ call'[r].at = "draft"
              /\ call'[r].rec = row \/ call'[r].rec = mem
    BY <1>t, <1>6, ReadMoves DEF store
  <2>2. call'[r] = Idle \/ (ValidRec(call'[r].rec) /\ Knows(r)')
    BY <1>c, <2>1 DEF Knows, Publishes
  <2>3. QED
    BY <1>t, <1>c, <1>s, <2>1, <2>2, ServedLocal
<1>7. CASE RollbackRow(r)
  <2>1. /\ UNCHANGED <<up, mem>> /\ call' = [call EXCEPT ![r] = call'[r]]
        /\ call[r].at = "draft row" /\ call[r].kind \in {"rollback", "republish"}
        /\ row' = IF up THEN call[r].rec ELSE row
        /\ \/ call'[r] = Idle
           \/ /\ call[r].kind = "republish" /\ call'[r].kind = call[r].kind
              /\ call'[r].at = "validate" /\ call'[r].rec = call[r].rec
              /\ call'[r].schedule = call[r].schedule
    BY <1>t, <1>7, RollbackRowMoves
  <2>2. row' = row \/ row' = call[r].rec
    BY <2>1
  <2>3. ValidRec(row')
    BY <1>c, <2>2
  <2>4. call'[r] = Idle \/ (ValidRec(call'[r].rec) /\ Knows(r)')
    BY <1>c, <2>1 DEF Knows, Publishes
  <2>5. \A q \in Active : q # r => ~Publishes(q)
    BY <1>p, <2>1
  <2>6. QED
    BY <1>t, <2>1, <2>3, <2>4, <2>5, ServedLocal
<1>8. CASE DeleteRow(r)
  <2>1. /\ UNCHANGED <<up, mem>> /\ call' = [call EXCEPT ![r] = call'[r]]
        /\ call'[r].kind = "delete" /\ call'[r].rec = call[r].rec
        /\ row' = row \/ row' = Nothing
    BY <1>t, <1>8, DeleteRowMoves
  <2>2. Knows(r)' /\ ValidRec(call'[r].rec)
    BY <1>c, <2>1 DEF Knows, Publishes
  <2>3. ValidRec(row')
    BY <1>c, <2>1
  <2>4. QED
    BY <1>t, <1>s, <2>1, <2>2, <2>3, ServedLocal
<1>9. CASE StoreCampaign(r)
  <2>1. /\ UNCHANGED <<up, row>> /\ call[r].kind \in {"create", "update"}
        /\ mem'.status = "draft"
        /\ call'[r].kind = call[r].kind /\ call'[r].rec = mem'
        /\ \A q \in Requests \ {r} : OtherAfterPut(q, mem', FALSE)
    BY <1>t, <1>9, StoreMoves
  <2>2. PICK inPlace \in BOOLEAN : inPlace = FALSE
    OBVIOUS
  <2>3. \A q \in Requests \ {r} : OtherAfterPut(q, mem', inPlace)
    BY <2>1, <2>2
  <2>4. ValidRec(mem') /\ ValidRec(call'[r].rec)
    BY <2>1 DEF ValidRec, IsPublished
  <2>5. Knows(r)'
    BY <2>1 DEF Knows, Publishes
  <2>6. \A q \in Active : q # r => call[q].kind \notin {"publish", "republish"}
    BY <1>t, <2>1, PublisherAlone
  <2>7. QED
    BY <1>t, <2>1, <2>3, <2>4, <2>5, <2>6, ServedPut
<1>10. CASE MarkInMemory(r)
  <2>1. /\ UNCHANGED <<up, row>> /\ call[r].kind \in {"publish", "republish"}
        /\ call[r].at = "mark"
        /\ mem'.schedule = call[r].rec.schedule
        /\ call'[r].kind = call[r].kind /\ call'[r].rec = mem' /\ call'[r].at = "mark row"
        /\ call'[r].schedule = call[r].schedule
        /\ \A q \in Requests \ {r} : OtherAfterPut(q, mem', call[r].shared)
    BY <1>t, <1>10, MarkMoves
  <2>2. PICK inPlace \in BOOLEAN : inPlace = call[r].shared
    BY <1>t, CallFacts DEF Held
  <2>3. \A q \in Requests \ {r} : OtherAfterPut(q, mem', inPlace)
    BY <2>1, <2>2
  <2>4. call[r].rec.schedule = call[r].schedule /\ call[r].schedule \in Valid
    BY <1>c, <2>1 DEF Knows, Publishes
  <2>5. ValidRec(mem') /\ ValidRec(call'[r].rec)
    BY <2>1, <2>4 DEF ValidRec
  <2>6. Knows(r)'
    BY <1>c, <2>1, <2>4 DEF Knows, Publishes
  <2>7. inPlace => mem'.schedule = mem.schedule
    BY <1>t, <2>1, <2>2, SharedFacts
  <2>8. QED
    BY <1>t, <2>1, <2>3, <2>5, <2>6, <2>7, ServedPut
<1>11. CASE RollbackInMemory(r)
  <2>1. /\ UNCHANGED <<up, row>> /\ call[r].kind \in {"rollback", "republish"}
        /\ mem'.status = "draft" /\ mem'.schedule = call[r].schedule
        /\ call'[r].kind = call[r].kind /\ call'[r].rec = mem'
        /\ call'[r].at = "draft row" /\ call'[r].schedule = call[r].schedule
        /\ \A q \in Requests \ {r} : OtherAfterPut(q, mem', call[r].shared)
    BY <1>t, <1>11, RollbackInMemoryMoves
  <2>2. PICK inPlace \in BOOLEAN : inPlace = call[r].shared
    BY <1>t, CallFacts DEF Held
  <2>3. \A q \in Requests \ {r} : OtherAfterPut(q, mem', inPlace)
    BY <2>1, <2>2
  <2>4. ValidRec(mem') /\ ValidRec(call'[r].rec)
    BY <2>1 DEF ValidRec, IsPublished
  <2>5. Knows(r)'
    BY <2>1 DEF Knows, Publishes
  <2>6. \A q \in Active : q # r => call[q].kind \notin {"publish", "republish"}
    BY <1>t, <2>1, PublisherAlone
  <2>7. QED
    BY <1>t, <2>1, <2>3, <2>4, <2>5, <2>6, ServedPut
<1>12. CASE Forget(r)
  <2>1. /\ UNCHANGED <<up, row>> /\ mem' = Nothing /\ call'[r] = Idle
        /\ \A q \in Requests \ {r} : OtherAfterPut(q, Nothing, FALSE)
    BY <1>t, <1>12, ForgetMoves
  <2>2. PICK inPlace \in BOOLEAN : inPlace = FALSE
    OBVIOUS
  <2>3. \A q \in Requests \ {r} : OtherAfterPut(q, mem', inPlace)
    BY <2>1, <2>2
  <2>4. QED
    BY <1>t, <1>c, <2>1, <2>2, <2>3, ServedPut
<1>13. QED
  BY <1>1, <1>2, <1>3, <1>4, <1>5, <1>6, <1>7, <1>8, <1>9, <1>10, <1>11, <1>12 DEF Steps

(* ServedInv is inductive.                                                      *)
LEMMA ServedStep ==
  ASSUME CallInv, ServedInv, [Next]_vars
  PROVE  ServedInv'
<1>1. CallInv' /\ mixed \subseteq mixed'
  BY NextSplit
<1>2. PublicationMet => PublicationMet'
  BY <1>1 DEF PublicationMet
<1>3. SUFFICES ASSUME ~PublicationMet' PROVE Clean'
  BY <1>2 DEF ServedInv, Clean
<1>4. ~PublicationMet /\ Clean /\ TypeInv
  BY <1>2, <1>3 DEF ServedInv, Clean, CallInv
<1>5. CASE \E r \in Requests : Begun(r)
  BY <1>4, <1>5, ServedBegins
<1>6. CASE \E r \in Requests : Steps(r)
  BY <1>4, <1>6, ServedSteps
<1>7. CASE DatabaseChanges
  <2>1. /\ UNCHANGED <<store, call, removed, calls>>
        /\ \A q \in Active : {call[q].kind, "db"} \in mixed'
    BY <1>4, <1>7, DatabaseMoves
  <2>a. \A p \in {"publish", "republish"} : {p, "db"} \notin mixed'
    BY <1>3 DEF PublicationMet
  <2>2. \A q \in Active : ~Publishes(q)
    BY <2>1, <2>a DEF Publishes
  <2>3. Active' = Active /\ \A q \in Active' : ~Publishes(q)'
    BY <2>1, <2>2 DEF Active, Publishes
  <2>4. \A q \in Active' : ValidRec(call[q].rec)' /\ Knows(q)'
    BY <1>4, <2>1, <2>3 DEF Clean, Knows, ValidRec, IsPublished
  <2>5. ValidRec(row)' /\ ValidRec(mem)'
    BY <1>4, <2>1 DEF Clean, store, ValidRec, IsPublished
  <2>6. QED
    BY <2>4, <2>5 DEF Clean
<1>8. CASE Restart
  <2>1. UNCHANGED <<up, row>> /\ mem' = Nothing /\ Active' = {}
    BY <1>4, <1>8, RestartMoves
  <2>2. QED
    BY <1>4, <2>1 DEF Clean, ValidRec, IsPublished
<1>9. CASE UNCHANGED vars
  <2>1. UNCHANGED <<up, row, mem, call>> /\ Active' = Active
    BY <1>9 DEF vars, store, Active
  <2>2. QED
    BY <1>4, <2>1 DEF Clean, ValidRec, IsPublished, Knows, Publishes
<1>10. QED
  BY <1>5, <1>6, <1>7, <1>8, <1>9, NextSplit

(* A device is given only a schedule that passed the validation, unless a        *)
(* publication ran together with a call that writes the campaign or met an       *)
(* outage (publish_campaign, _get_published_campaign_for_device).                *)
THEOREM ServedIsValid == Spec => []ServedValidated
<1>1. Init => CallInv /\ ServedInv
  <2>1. Init => row = Nothing /\ mem = Nothing /\ Active = {}
    BY DEF Init, Active
  <2>2. QED
    BY <2>1, InitCall DEF ServedInv, ValidRec, IsPublished
<1>2. CallInv /\ ServedInv /\ [Next]_vars => (CallInv /\ ServedInv)'
  BY NextSplit, ServedStep
<1>3. ServedInv => ServedValidated
  BY DEF ServedInv, ServedValidated, Served, ValidRec, IsPublished
<1>4. QED
  BY <1>1, <1>2, <1>3, PTL DEF Spec

--------------------------------------------------------------------------------
(* What a deletion leaves.                                                       *)
Gone ==
  /\ \A r \in Active : call[r].at = "forget" => row = Nothing /\ saved = NoVersions
  /\ removed => /\ row = Nothing /\ mem = Nothing
                /\ saved = NoVersions /\ memSaved = NoVersions
                /\ \A r \in Active : call[r].kind = "delete"

(* Without an encounter, only deletions run with a deletion.                    *)
LEMMA DeletersAlone ==
  ASSUME CallInv, ~DeletionMet, NEW r \in Active, NEW q \in Active,
         call[r].kind = "delete"
  PROVE  call[q].kind = "delete"
<1>1. SUFFICES ASSUME call[q].kind # "delete" PROVE FALSE
  OBVIOUS
<1>2. q # r /\ {call[r].kind, call[q].kind} \in mixed
  BY <1>1 DEF CallInv, Noted
<1>3. {"delete", call[q].kind} # {"delete"} /\ "delete" \in {"delete", call[q].kind}
  BY <1>1
<1>4. QED
  BY <1>2, <1>3 DEF DeletionMet

(* Nothing but a deletion can begin when the campaign is gone.                  *)
LEMMA GoneBegins ==
  ASSUME CallInv, Gone, NEW r \in Requests, Begun(r)
  PROVE  Gone'
<1>1. UNCHANGED <<row, mem, saved, memSaved, removed>>
  BY DEF Begun, store
<1>2. \A q \in Active' : q = r \/ (q \in Active /\ call'[q] = call[q])
  BY BegunOthers
<1>3. call'[r].at # "forget"
  BY DEF Begun
<1>4. ASSUME removed
      PROVE  call'[r].kind = "delete"
  <2>1. /\ row = Nothing /\ mem = Nothing /\ saved = NoVersions /\ memSaved = NoVersions
        /\ calls # 0
    BY <1>4 DEF Gone, CallInv, Beginning
  <2>2. \A v \in Versions : saved[v] = Nothing /\ memSaved[v] = Nothing
    BY <2>1 DEF NoVersions
  <2>3. QED
    BY <2>1, <2>2 DEF Begun
<1>5. QED
  BY <1>1, <1>2, <1>3, <1>4 DEF Gone

(* A deletion leaves nothing, and nothing else runs then.                       *)
LEMMA GoneSteps ==
  ASSUME CallInv, Gone, ~DeletionMet', NEW r \in Requests, Steps(r)
  PROVE  Gone'
<1>1. TypeInv /\ CallInv' /\ r \in Active /\ Frame(r) /\ mixed \subseteq mixed'
  BY StepsCall DEF CallInv
<1>2. ~DeletionMet
  BY <1>1 DEF DeletionMet
<1>k. \A q \in Active' : q \in Active /\ (q # r => SamePlace(call[q], call'[q]))
  BY <1>1 DEF Frame, Active
<1>3. CASE DeleteRow(r)
  <2>1. /\ call[r].kind = "delete" /\ call'[r].kind = "delete"
        /\ UNCHANGED <<mem, memSaved, removed>>
        /\ \/ row' = Nothing /\ saved' = NoVersions
           \/ {"delete", "db"} \in mixed'
    BY <1>1, <1>3, DeleteRowMoves
  <2>2. "delete" \in {"delete", "db"} /\ {"delete", "db"} # {"delete"}
    OBVIOUS
  <2>3. {"delete", "db"} \notin mixed'
    BY <2>2 DEF DeletionMet
  <2>4. \A q \in Active : call[q].kind = "delete"
    BY <1>1, <1>2, <2>1, DeletersAlone
  <2>5. \A q \in Active' : call'[q].kind = "delete"
    BY <1>k, <2>1, <2>4 DEF SamePlace
  <2>6. QED
    BY <2>1, <2>3, <2>5 DEF Gone
<1>4. CASE Forget(r)
  <2>1. /\ call[r].kind = "delete" /\ call[r].at = "forget" /\ UNCHANGED <<row, saved>>
        /\ mem' = Nothing /\ memSaved' = NoVersions /\ call'[r] = Idle
    BY <1>1, <1>4, ForgetMoves
  <2>2. \A q \in Active : call[q].kind = "delete"
    BY <1>1, <1>2, <2>1, DeletersAlone
  <2>3. \A q \in Active' : call'[q].kind = "delete"
    BY <1>k, <2>1, <2>2 DEF SamePlace, Active
  <2>4. row = Nothing /\ saved = NoVersions
    BY <1>1, <2>1 DEF Gone
  <2>5. QED
    BY <2>1, <2>3, <2>4 DEF Gone
<1>5. CASE ~DeleteRow(r) /\ ~Forget(r)
  <2>1. /\ call[r].kind # "delete" /\ UNCHANGED removed
        /\ call'[r] = Idle \/ call'[r].kind = call[r].kind
    <3>1. CASE ChooseVersion(r)
      BY <1>1, <3>1, ChooseMoves
    <3>2. CASE InsertCampaign(r)
      BY <1>1, <3>2, InsertMoves
    <3>3. CASE SaveVersion(r)
      BY <1>1, <3>3, SaveMoves
    <3>4. CASE Validate(r)
      BY <1>1, <3>4, ValidateMoves
    <3>5. CASE MarkRow(r)
      BY <1>1, <3>5, MarkRowMoves
    <3>6. CASE ReadCampaign(r)
      BY <1>1, <3>6, ReadMoves
    <3>7. CASE RollbackRow(r)
      BY <1>1, <3>7, RollbackRowMoves
    <3>8. CASE StoreCampaign(r)
      BY <1>1, <3>8, StoreMoves
    <3>9. CASE MarkInMemory(r)
      BY <1>1, <3>9, MarkMoves
    <3>10. CASE RollbackInMemory(r)
      BY <1>1, <3>10, RollbackInMemoryMoves
    <3>11. QED
      BY <1>5, <3>1, <3>2, <3>3, <3>4, <3>5, <3>6, <3>7, <3>8, <3>9, <3>10 DEF Steps
  <2>2. ~removed
    BY <1>1, <2>1 DEF Gone
  <2>3. \A q \in Active : call[q].kind # "delete"
    BY <1>1, <1>2, <2>1, DeletersAlone
  <2>4. \A q \in Active' : call'[q].kind # "delete"
    BY <1>k, <2>1, <2>3 DEF SamePlace, Active
  <2>5. TypeInv'
    BY <1>1 DEF CallInv
  <2>6. \A q \in Active' : call'[q].at = "forget" => call'[q].kind = "delete"
    BY <2>5 DEF TypeInv, Placed, Active, Held
  <2>7. QED
    BY <2>1, <2>2, <2>4, <2>6 DEF Gone
<1>6. QED
  BY <1>3, <1>4, <1>5

(* DeletedInv is inductive.                                                     *)
LEMMA DeletedStep ==
  ASSUME CallInv, DeletedInv, [Next]_vars
  PROVE  DeletedInv'
<1>1. CallInv' /\ mixed \subseteq mixed' /\ TypeInv
  BY NextSplit DEF CallInv
<1>2. DeletionMet => DeletionMet'
  BY <1>1 DEF DeletionMet
<1>3. SUFFICES ASSUME ~DeletionMet' PROVE Gone'
  BY <1>2 DEF DeletedInv, Gone
<1>4. Gone
  BY <1>2, <1>3 DEF DeletedInv, Gone
<1>5. CASE \E r \in Requests : Begun(r)
  BY <1>4, <1>5, GoneBegins
<1>6. CASE \E r \in Requests : Steps(r)
  BY <1>3, <1>4, <1>6, GoneSteps
<1>7. CASE DatabaseChanges
  <2>1. UNCHANGED <<store, call, removed>>
    BY <1>1, <1>7, DatabaseMoves
  <2>2. QED
    BY <1>4, <2>1 DEF Gone, store, Active
<1>8. CASE Restart
  <2>1. /\ UNCHANGED <<row, saved, removed>>
        /\ mem' = Nothing /\ memSaved' = NoVersions /\ Active' = {}
    BY <1>1, <1>8, RestartMoves
  <2>2. QED
    BY <1>4, <2>1 DEF Gone
<1>9. CASE UNCHANGED vars
  BY <1>4, <1>9 DEF vars, store, Gone, Active
<1>10. QED
  BY <1>5, <1>6, <1>7, <1>8, <1>9, NextSplit

(* A campaign whose deletion was answered with ok is given to no device, unless  *)
(* the deletion met another call or an outage (delete_campaign).                 *)
THEOREM DeletedIsGone == Spec => []DeletedStays
<1>1. Init => CallInv /\ DeletedInv
  <2>1. Init => ~removed /\ Active = {}
    BY DEF Init, Active
  <2>2. QED
    BY <2>1, InitCall DEF DeletedInv
<1>2. CallInv /\ DeletedInv /\ [Next]_vars => (CallInv /\ DeletedInv)'
  BY NextSplit, DeletedStep
<1>3. DeletedInv => DeletedStays
  BY DEF DeletedInv, DeletedStays, Served, IsPublished
<1>4. QED
  BY <1>1, <1>2, <1>3, PTL DEF Spec

--------------------------------------------------------------------------------
(* What a saved version keeps.  First, who can be under way together.            *)
LEMMA Company ==
  ASSUME CallInv, ~VersionMet, NEW p \in Active, NEW q \in Active, p # q
  PROVE  /\ call[p].kind \in {"update", "publish", "republish", "rollback", "delete"}
         /\ ~(call[p].kind = "update" /\ call[q].kind = "update")
         /\ call[p].kind = "publish" => call[q].kind \notin {"rollback", "republish"}
         /\ call[p].kind = "delete" => call[q].kind = "delete"
<1>1. /\ {call[p].kind, call[q].kind} \in mixed
      /\ call[p].kind # "create" /\ call[q].kind # "create"
      /\ call[p] \in Held /\ call[q] \in Held
  BY CallFacts DEF CallInv, Noted, Alone
<1>2. /\ call[p].kind \in {"update", "publish", "republish", "rollback", "delete"}
      /\ call[q].kind \in {"update", "publish", "republish", "rollback", "delete"}
  BY <1>1 DEF Held
<1>3. /\ {"update"} \notin mixed /\ {"publish", "rollback"} \notin mixed
      /\ {"publish", "republish"} \notin mixed
      /\ \A k \in {"update", "publish", "rollback", "republish"} : {"delete", k} \notin mixed
  BY DEF VersionMet
<1>4. ~(call[p].kind = "update" /\ call[q].kind = "update")
  <2>1. {"update", "update"} = {"update"}
    OBVIOUS
  <2>2. QED
    BY <1>1, <1>3, <2>1
<1>5. call[p].kind = "publish" => call[q].kind \notin {"rollback", "republish"}
  BY <1>1, <1>3
<1>6. call[p].kind = "delete" => call[q].kind = "delete"
  BY <1>1, <1>2, <1>3
<1>7. QED
  BY <1>2, <1>4, <1>5, <1>6

(* Without an encounter, no deletion runs with another call.                    *)
LEMMA NoDeletion ==
  ASSUME CallInv, ~VersionMet, NEW r \in Active, call[r].kind # "delete"
  PROVE  \A q \in Active : call[q].kind # "delete"
BY Company

(* What is known stays known, until a deletion or a restart.                     *)
KnownKept == \A v : Known(v) => Known(v)'

(* Known depends on the saved versions only.                                    *)
LEMMA KnownSame ==
  ASSUME UNCHANGED <<saved, memSaved>>
  PROVE  KnownKept
BY DEF KnownKept, Known, Numbers

(* A version is known if it is saved, or is not above one that is known.        *)
LEMMA KnownFacts ==
  ASSUME TypeOK
  PROVE  /\ \A v \in Versions : v \in Nat
         /\ \A v \in Versions : saved[v] # Nothing \/ memSaved[v] # Nothing => Known(v)
         /\ \A v, w \in Versions : Known(w) /\ v <= w => Known(v)
<1>1. \A v \in Versions : v \in Nat
  BY CampaignsConstants DEF Versions
<1>2. \A v \in Versions : saved[v] # Nothing \/ memSaved[v] # Nothing => Known(v)
  BY <1>1 DEF Known, Numbers
<1>3. ASSUME NEW v \in Versions, NEW w \in Versions, Known(w), v <= w
      PROVE  Known(v)
  <2>1. PICK k \in Numbers(saved) \cup Numbers(memSaved) : w <= k
    BY <1>3 DEF Known
  <2>2. k \in Nat /\ v \in Nat /\ w \in Nat
    BY <1>1 DEF Numbers
  <2>3. v <= k
    BY <1>3, <2>1, <2>2
  <2>4. QED
    BY <2>3 DEF Known
<1>4. QED
  BY <1>1, <1>2, <1>3

(* To save a version makes it known.                                            *)
LEMMA KnownGrows ==
  ASSUME TypeOK, NEW n \in Versions, NEW s \in Schedules,
         \/ saved' = [saved EXCEPT ![n] = s] /\ UNCHANGED memSaved
         \/ memSaved' = [memSaved EXCEPT ![n] = s] /\ UNCHANGED saved
  PROVE  KnownKept /\ Known(n)'
<1>1. \A v \in Versions : v \in Nat
  BY KnownFacts
<1>2. s # Nothing
  BY CampaignsConstants
<1>3. Numbers(saved) \subseteq Numbers(saved)' /\ Numbers(memSaved) \subseteq Numbers(memSaved)'
      /\ n \in Numbers(saved)' \cup Numbers(memSaved)'
  BY <1>2 DEF TypeOK, Numbers
<1>4. KnownKept
  BY <1>3 DEF KnownKept, Known
<1>5. n <= n
  BY <1>1
<1>6. Known(n)'
  BY <1>3, <1>5 DEF Known
<1>7. QED
  BY <1>4, <1>6

--------------------------------------------------------------------------------
(* Agreement: h stays what it is, but for a version that is new.                 *)
Map == [Versions -> Schedules \cup {Nothing}]

(* Agreement after a step that changes its own call only.                       *)
LEMMA AgreeLocal ==
  ASSUME CallInv, NEW h \in Map, Agrees(h), NEW r \in Active, call' = [call EXCEPT ![r] = call'[r]],
         \A v \in Versions : saved'[v] \in {Nothing, h[v]} /\ memSaved'[v] \in {Nothing, h[v]},
         RecAgrees(row', h), RecAgrees(mem', h),
         call'[r] = Idle \/ CallAgrees(call'[r], h)
  PROVE  Agrees(h)'
<1>1. \A q \in Active' : q = r \/ (q \in Active /\ call'[q] = call[q])
  BY FrameOfLocal DEF CallInv, Frame, Active
<1>2. \A q \in Active : CallAgrees(call[q], h)
  BY DEF Agrees
<1>3. \A q \in Active' : CallAgrees(call'[q], h)
  BY <1>1, <1>2 DEF Active
<1>4. QED
  BY <1>3 DEF Agrees, RecAgrees, CallAgrees

(* Agreement after a put of a record that agrees.                               *)
LEMMA AgreePut ==
  ASSUME CallInv, NEW h \in Map, Agrees(h), NEW r \in Active, NEW rec \in Records,
         NEW inPlace \in BOOLEAN, mem' = rec, UNCHANGED row,
         \A v \in Versions : saved'[v] \in {Nothing, h[v]} /\ memSaved'[v] \in {Nothing, h[v]},
         rec.schedule = h[rec.version], CallAgrees(call'[r], h),
         \A q \in Requests \ {r} : OtherAfterPut(q, rec, inPlace),
         \A q \in Active : q # r /\ inPlace /\ call[q].shared /\ call[q].kind = "publish" =>
           rec.schedule = mem.schedule
  PROVE  Agrees(h)'
<1>1. ASSUME NEW q \in Active', q # r
      PROVE  CallAgrees(call'[q], h)
  <2>1. q \in Requests \ {r} /\ call'[q] # Idle
    BY <1>1 DEF Active
  <2>2. OtherAfterPut(q, rec, inPlace)
    BY <2>1
  <2>3. /\ q \in Active /\ SamePlace(call[q], call'[q])
        /\ \/ call'[q].rec = call[q].rec
           \/ inPlace /\ call[q].shared /\ call'[q].rec = rec
    BY <2>1, <2>2, Zenon DEF OtherAfterPut
  <2>4. CallAgrees(call[q], h)
    BY <2>3 DEF Agrees
  <2>5. CASE call'[q].rec = call[q].rec
    BY <2>3, <2>4, <2>5 DEF CallAgrees, SamePlace
  <2>6. CASE inPlace /\ call[q].shared /\ call'[q].rec = rec
    <3>1. call[q].kind = "publish" => rec.schedule = call[q].rec.schedule
      BY <1>1, <2>3, <2>6, SharedFacts
    <3>2. QED
      BY <2>3, <2>4, <2>6, <3>1 DEF CallAgrees, SamePlace
  <2>7. QED
    BY <2>3, <2>5, <2>6
<1>2. \A q \in Active' : CallAgrees(call'[q], h)
  BY <1>1
<1>3. RecAgrees(row', h) /\ RecAgrees(mem', h)
  BY DEF Agrees, RecAgrees
<1>4. QED
  BY <1>2, <1>3 DEF Agrees, RecAgrees, CallAgrees

(* Every step but the choice of a version keeps what the versions have.          *)
LEMMA AgreeSteps ==
  ASSUME CallInv, ~VersionMet, NEW h \in Map, Agrees(h),
         NEW r \in Requests, Steps(r), ~ChooseVersion(r)
  PROVE  Agrees(h)'
<1>t. TypeInv /\ r \in Active
  BY StepsCall DEF CallInv
<1>a. /\ \A v \in Versions : saved[v] \in {Nothing, h[v]} /\ memSaved[v] \in {Nothing, h[v]}
      /\ RecAgrees(row, h) /\ RecAgrees(mem, h) /\ CallAgrees(call[r], h)
      /\ RecAgrees(Nothing, h)
      /\ saved \in Map /\ memSaved \in Map
  BY <1>t, StoreTypes DEF Agrees, RecAgrees, TypeInv, Map
<1>n. \A v \in Versions : NoVersions[v] \in {Nothing, h[v]}
  BY DEF NoVersions
<1>2. CASE InsertCampaign(r)
  <2>1. /\ UNCHANGED <<saved, memSaved, mem>> /\ call' = [call EXCEPT ![r] = call'[r]]
        /\ call[r].at = "insert" /\ call[r].kind \in {"create", "update"}
        /\ call'[r].at = "store" /\ call'[r].kind = call[r].kind
        /\ call'[r].schedule = call[r].schedule /\ call'[r].version = call[r].version
        /\ \/ row' = row
           \/ row'.schedule = call[r].schedule /\ row'.version = call[r].version
    BY <1>t, <1>2, InsertMoves, StoreTypes DEF TypeInv
  <2>2. CallAgrees(call'[r], h) /\ RecAgrees(row', h)
    BY <1>a, <2>1 DEF CallAgrees, RecAgrees
  <2>3. QED
    BY <1>t, <1>a, <2>1, <2>2, AgreeLocal
<1>3. CASE SaveVersion(r)
  <2>1. /\ UNCHANGED <<row, memSaved, mem>> /\ call' = [call EXCEPT ![r] = call'[r]]
        /\ call[r].at = "save" /\ call[r].version \in Versions
        /\ saved' = IF up THEN [saved EXCEPT ![call[r].version] = call[r].schedule] ELSE saved
        /\ \/ call'[r] = Idle
           \/ /\ call[r].kind = "publish" /\ call'[r].kind = call[r].kind
              /\ call'[r].at = "mark" /\ call'[r].rec = call[r].rec
    BY <1>t, <1>3, SaveMoves
  <2>2. call'[r] = Idle \/ CallAgrees(call'[r], h)
    BY <1>a, <2>1 DEF CallAgrees
  <2>3. call[r].schedule = h[call[r].version]
    BY <1>a, <2>1 DEF CallAgrees
  <2>4. \A v \in Versions : saved'[v] \in {Nothing, h[v]}
    BY <1>a, <2>1, <2>3 DEF Map
  <2>5. QED
    BY <1>t, <1>a, <2>1, <2>2, <2>4, AgreeLocal
<1>4. CASE Validate(r)
  <2>1. /\ UNCHANGED <<row, saved, mem>> /\ call' = [call EXCEPT ![r] = call'[r]]
        /\ call[r].at = "validate" /\ call[r].kind \in {"publish", "republish"}
        /\ call[r].rec.version \in Versions
        /\ \/ call'[r] = Idle /\ UNCHANGED memSaved
           \/ /\ call'[r].kind = call[r].kind /\ call'[r].rec = call[r].rec
              /\ call'[r].schedule = call[r].schedule
              /\ \/ /\ call[r].kind = "publish" /\ call'[r].at = "save"
                    /\ call'[r].version = call[r].rec.version
                    /\ memSaved' = [memSaved EXCEPT ![call[r].rec.version] = call[r].schedule]
                 \/ /\ call[r].kind = "republish" /\ call'[r].at = "mark"
                    /\ call'[r].version = call[r].version
                    /\ UNCHANGED memSaved
    BY <1>t, <1>4, ValidateMoves, RecordFacts
  <2>2. /\ call[r].kind = "publish" => call[r].schedule = h[call[r].rec.version]
        /\ call'[r] = Idle \/ CallAgrees(call'[r], h)
    BY <1>a, <2>1 DEF CallAgrees
  <2>3. \A v \in Versions : memSaved'[v] \in {Nothing, h[v]}
    BY <1>a, <2>1, <2>2 DEF Map
  <2>4. QED
    BY <1>t, <1>a, <2>1, <2>2, <2>3, AgreeLocal
<1>5. CASE MarkRow(r)
  <2>1. /\ UNCHANGED <<saved, memSaved, mem>> /\ call' = [call EXCEPT ![r] = call'[r]]
        /\ call'[r] = Idle
        /\ \/ row' = row
           \/ row # Nothing /\ row'.schedule = row.schedule /\ row'.version = row.version
    BY <1>t, <1>5, MarkRowMoves
  <2>2. RecAgrees(row', h)
    BY <1>a, <2>1 DEF RecAgrees
  <2>3. QED
    BY <1>t, <1>a, <2>1, <2>2, AgreeLocal
<1>6. CASE ReadCampaign(r)
  <2>1. /\ UNCHANGED <<row, saved, memSaved, mem>> /\ call' = [call EXCEPT ![r] = call'[r]]
        /\ call[r].kind \in {"rollback", "republish"}
        /\ \/ call'[r] = Idle
           \/ /\ call'[r].kind = call[r].kind /\ call'[r].at = "draft"
              /\ call'[r].schedule = call[r].schedule /\ call'[r].version = call[r].version
    BY <1>t, <1>6, ReadMoves DEF store
  <2>2. call'[r] = Idle \/ CallAgrees(call'[r], h)
    BY <1>a, <2>1 DEF CallAgrees
  <2>3. QED
    BY <1>t, <1>a, <2>1, <2>2, AgreeLocal
<1>7. CASE RollbackRow(r)
  <2>1. /\ UNCHANGED <<saved, memSaved, mem>> /\ call' = [call EXCEPT ![r] = call'[r]]
        /\ call[r].at = "draft row"
        /\ row' = IF up THEN call[r].rec ELSE row
        /\ \/ call'[r] = Idle
           \/ /\ call[r].kind = "republish" /\ call'[r].kind = call[r].kind
              /\ call'[r].at = "validate" /\ call'[r].rec = call[r].rec
              /\ call'[r].schedule = call[r].schedule /\ call'[r].version = call[r].version
    BY <1>t, <1>7, RollbackRowMoves
  <2>2. call'[r] = Idle \/ CallAgrees(call'[r], h)
    BY <1>a, <2>1 DEF CallAgrees
  <2>3. row' = row \/ row' = call[r].rec
    BY <2>1
  <2>4. RecAgrees(row', h)
    BY <1>a, <2>1, <2>3 DEF RecAgrees, CallAgrees
  <2>5. QED
    BY <1>t, <1>a, <2>1, <2>2, <2>4, AgreeLocal
<1>8. CASE DeleteRow(r)
  <2>1. /\ UNCHANGED <<memSaved, mem>> /\ call' = [call EXCEPT ![r] = call'[r]]
        /\ call'[r].kind = "delete" /\ call'[r].at = "forget"
        /\ row' = row \/ row' = Nothing
        /\ saved' = saved \/ saved' = NoVersions
    BY <1>t, <1>8, DeleteRowMoves
  <2>2. CallAgrees(call'[r], h) /\ RecAgrees(row', h)
    BY <1>a, <2>1 DEF CallAgrees
  <2>3. \A v \in Versions : saved'[v] \in {Nothing, h[v]}
    BY <1>a, <1>n, <2>1
  <2>4. QED
    BY <1>t, <1>a, <2>1, <2>2, <2>3, AgreeLocal
<1>9. CASE StoreCampaign(r)
  <2>1. /\ UNCHANGED <<row, saved>> /\ call[r].at = "store" /\ call[r].version \in Versions
        /\ call[r].kind \in {"create", "update"}
        /\ memSaved' = [memSaved EXCEPT ![call[r].version] = call[r].schedule]
        /\ mem' \in Records
        /\ mem'.schedule = call[r].schedule /\ mem'.version = call[r].version
        /\ call'[r].kind = call[r].kind /\ call'[r].at = "save" /\ call'[r].rec = mem'
        /\ call'[r].schedule = call[r].schedule /\ call'[r].version = call[r].version
        /\ \A q \in Requests \ {r} : OtherAfterPut(q, mem', FALSE)
    BY <1>t, <1>9, StoreMoves
  <2>2. PICK inPlace \in BOOLEAN : inPlace = FALSE
    OBVIOUS
  <2>3. \A q \in Requests \ {r} : OtherAfterPut(q, mem', inPlace)
    BY <2>1, <2>2
  <2>4. call[r].schedule = h[call[r].version]
    BY <1>a, <2>1 DEF CallAgrees
  <2>5. \A v \in Versions : memSaved'[v] \in {Nothing, h[v]}
    BY <1>a, <2>1, <2>4 DEF Map
  <2>6. CallAgrees(call'[r], h) /\ mem'.schedule = h[mem'.version]
    BY <2>1, <2>4 DEF CallAgrees
  <2>7. PICK rec \in Records : rec = mem'
    BY <2>1
  <2>8. QED
    BY <1>t, <1>a, <2>1, <2>2, <2>3, <2>5, <2>6, <2>7, AgreePut
<1>10. CASE MarkInMemory(r)
  <2>1. /\ UNCHANGED <<row, saved, memSaved>> /\ call[r].at = "mark"
        /\ call[r].kind \in {"publish", "republish"}
        /\ mem' \in Records
        /\ mem'.schedule = call[r].rec.schedule /\ mem'.version = call[r].rec.version
        /\ call'[r].kind = call[r].kind /\ call'[r].at = "mark row" /\ call'[r].rec = mem'
        /\ call'[r].schedule = call[r].schedule /\ call'[r].version = call[r].version
        /\ \A q \in Requests \ {r} : OtherAfterPut(q, mem', call[r].shared)
    BY <1>t, <1>10, MarkMoves
  <2>2. PICK inPlace \in BOOLEAN : inPlace = call[r].shared
    BY <1>t, CallFacts DEF Held
  <2>3. \A q \in Requests \ {r} : OtherAfterPut(q, mem', inPlace)
    BY <2>1, <2>2
  <2>4. call[r].rec.schedule = h[call[r].rec.version]
    BY <1>a, <2>1 DEF CallAgrees
  <2>5. CallAgrees(call'[r], h) /\ mem'.schedule = h[mem'.version]
    BY <1>a, <2>1, <2>4 DEF CallAgrees
  <2>6. inPlace => mem'.schedule = mem.schedule
    BY <1>t, <2>1, <2>2, SharedFacts
  <2>7. PICK rec \in Records : rec = mem'
    BY <2>1
  <2>8. QED
    BY <1>t, <1>a, <2>1, <2>3, <2>5, <2>6, <2>7, AgreePut
<1>11. CASE RollbackInMemory(r)
  <2>1. /\ UNCHANGED <<row, saved, memSaved>>
        /\ call[r].kind \in {"rollback", "republish"}
        /\ mem' \in Records
        /\ mem'.schedule = call[r].schedule /\ mem'.version = call[r].version
        /\ call'[r].kind = call[r].kind /\ call'[r].at = "draft row" /\ call'[r].rec = mem'
        /\ call'[r].schedule = call[r].schedule /\ call'[r].version = call[r].version
        /\ \A q \in Requests \ {r} : OtherAfterPut(q, mem', call[r].shared)
    BY <1>t, <1>11, RollbackInMemoryMoves
  <2>2. PICK inPlace \in BOOLEAN : inPlace = call[r].shared
    BY <1>t, CallFacts DEF Held
  <2>3. \A q \in Requests \ {r} : OtherAfterPut(q, mem', inPlace)
    BY <2>1, <2>2
  <2>5. CallAgrees(call'[r], h) /\ mem'.schedule = h[mem'.version]
    BY <1>a, <2>1 DEF CallAgrees
  <2>6. \A q \in Active : q # r => call[q].kind # "publish"
    BY <1>t, <2>1, Company
  <2>7. PICK rec \in Records : rec = mem'
    BY <2>1
  <2>8. QED
    BY <1>t, <1>a, <2>1, <2>3, <2>5, <2>6, <2>7, AgreePut
<1>12. CASE Forget(r)
  <2>1. /\ UNCHANGED <<row, saved>> /\ mem' = Nothing /\ memSaved' = NoVersions
        /\ call'[r] = Idle /\ call[r].kind = "delete"
    BY <1>t, <1>12, ForgetMoves
  <2>2. \A q \in Active' : q \in Active /\ q # r /\ SamePlace(call[q], call'[q])
    BY <2>1, <1>12, StepsCall DEF Frame, Active
  <2>3. \A q \in Active : q # r => call[q].kind = "delete"
    BY <1>t, <2>1, Company
  <2>4. TypeInv'
    BY <1>12, StepsCall DEF CallInv
  <2>5. ASSUME NEW q \in Active'
        PROVE  CallAgrees(call'[q], h)
    <3>1. call'[q].kind = "delete"
      BY <2>2, <2>3 DEF SamePlace
    <3>2. call'[q].at \in {"delete", "forget"}
      BY <2>4, <3>1 DEF TypeInv, Placed
    <3>3. QED
      BY <3>1, <3>2 DEF CallAgrees
  <2>6. QED
    BY <1>a, <1>n, <2>1, <2>5 DEF Agrees, RecAgrees, CallAgrees
<1>13. QED
  BY <1>2, <1>3, <1>4, <1>5, <1>6, <1>7, <1>8, <1>9, <1>10, <1>11, <1>12 DEF Steps

(* A new version is above all that the other calls hold, so that it may be given *)
(* the schedule of its update.                                                   *)
LEMMA NewAbove ==
  ASSUME CallInv, CallInv', ~VersionMet', Bounded, NEW r \in Requests, ChooseVersion(r)
  PROVE  LET n == NextVersion(call[r].rec)
         IN /\ \A v \in Versions : Known(v) => v < n
            /\ call[r].rec \in Records /\ call[r].rec.version < n
            /\ row # Nothing => row.version < n
            /\ mem # Nothing => mem.version < n
            /\ ~VersionMet /\ up
<1> DEFINE n == NextVersion(call[r].rec)
<1>1. /\ TypeInv /\ TypeOK /\ r \in Active /\ call[r].kind = "update" /\ call[r].at = "version"
      /\ call[r].rec \in Records /\ n \in Versions /\ mixed \subseteq mixed'
      /\ ~up => {"update", "db"} \in mixed'
  BY ChooseMoves DEF CallInv, TypeInv
<1>2. up /\ ~VersionMet
  <2>1. {"update", "db"} \notin mixed'
    BY DEF VersionMet
  <2>2. VersionMet => VersionMet'
    BY <1>1 DEF VersionMet
  <2>3. QED
    BY <1>1, <2>1, <2>2
<1>3. /\ n > call[r].rec.version
      /\ \A k \in Numbers(memSaved) : n > k
      /\ \A k \in Numbers(saved) : n > k
  BY <1>1, <1>2, NextVersionAbove
<1>4. /\ \A v \in Versions : v \in Nat
      /\ \A rec \in Records : rec.version \in Versions
      /\ row # Nothing => row \in Records
      /\ mem # Nothing => mem \in Records
      /\ Numbers(saved) \in SUBSET Versions /\ Numbers(memSaved) \in SUBSET Versions
  BY <1>1, KnownFacts, RecordFacts, StoreTypes, NumbersFacts
<1> HIDE DEF n
<1>5. ASSUME NEW v \in Versions, Known(v)
      PROVE  v < n
  <2>1. PICK k \in Numbers(saved) \cup Numbers(memSaved) : v <= k
    BY <1>5 DEF Known
  <2>2. n > k /\ k \in Nat /\ n \in Nat /\ v \in Nat
    BY <1>1, <1>3, <1>4
  <2>3. QED
    BY <2>1, <2>2
<1>6. call[r].rec.version < n
  BY <1>1, <1>3, <1>4
<1>7. row # Nothing => row.version < n
  <2>1. SUFFICES ASSUME row # Nothing PROVE row.version < n
    OBVIOUS
  <2>2. Known(row.version) \/ row.version <= call[r].rec.version
    BY <1>1, <1>2, <2>1 DEF Bounded, CallBound
  <2>3. row.version \in Versions /\ call[r].rec.version \in Versions
    BY <1>1, <1>4, <2>1
  <2>4. QED
    BY <1>1, <1>4, <1>5, <1>6, <2>2, <2>3
<1>8. mem # Nothing => mem.version < n
  BY <1>1, <1>2, <1>4, <1>5, NoDeletion DEF Bounded
<1>9. QED
  BY <1>1, <1>2, <1>5, <1>6, <1>7, <1>8 DEF n

(* Whoever holds a version is below the new one, which gets its schedule from its update. *)
LEMMA AgreeChoose ==
  ASSUME CallInv, CallInv', ~VersionMet', NEW h \in Map, Agrees(h), Bounded,
         NEW r \in Requests, ChooseVersion(r)
  PROVE  \E g \in Map : Agrees(g)'
<1>1. /\ TypeInv /\ TypeOK /\ r \in Active /\ call[r].kind = "update" /\ call[r].at = "version"
      /\ UNCHANGED <<row, mem, saved, memSaved>>
      /\ call' = [call EXCEPT ![r] = call'[r]]
      /\ call'[r].kind = "update" /\ call'[r].at = "insert"
      /\ call'[r].schedule = call[r].schedule
      /\ call'[r].version = NextVersion(call[r].rec)
      /\ call'[r].version \in Versions /\ call[r].schedule \in Schedules \cup {Nothing}
  BY ChooseMoves, CallFacts DEF CallInv, TypeInv, store, Held
<1>2. PICK n \in Versions : n = NextVersion(call[r].rec)
  BY <1>1
<1>3. PICK s \in Schedules \cup {Nothing} : s = call[r].schedule
  BY <1>1
<1>4. /\ \A v \in Versions : v \in Nat /\ (Known(v) => v < n)
      /\ row # Nothing => row.version < n
      /\ mem # Nothing => mem.version < n
      /\ ~VersionMet
  BY <1>1, <1>2, NewAbove, KnownFacts
<1>5. PICK g \in Map : g[n] = s /\ \A v \in Versions : v < n => g[v] = h[v]
  <2>1. [h EXCEPT ![n] = s] \in Map
    BY DEF Map
  <2>2. [h EXCEPT ![n] = s][n] = s /\ \A v \in Versions : v < n => [h EXCEPT ![n] = s][v] = h[v]
    BY <1>4 DEF Map
  <2>3. QED
    BY <2>1, <2>2
<1>6. \A v \in Versions : saved[v] \in {Nothing, g[v]} /\ memSaved[v] \in {Nothing, g[v]}
  <2>1. \A v \in Versions : saved[v] # Nothing \/ memSaved[v] # Nothing => Known(v)
    BY <1>1, KnownFacts
  <2>2. QED
    BY <1>4, <1>5, <2>1 DEF Agrees
<1>7. /\ row # Nothing => row \in Records /\ row.version \in Versions
      /\ mem # Nothing => mem \in Records /\ mem.version \in Versions
  BY <1>1, StoreTypes, RecordFacts
<1>8. RecAgrees(row, g) /\ RecAgrees(mem, g)
  BY <1>4, <1>5, <1>7 DEF Agrees, RecAgrees
<1>9. ASSUME NEW q \in Active, q # r
      PROVE  CallAgrees(call[q], g)
  <2>1. /\ call[q].kind \in {"publish", "rollback", "republish"}
        /\ Placed(call[q]) /\ Equipped(call[q]) /\ CallAgrees(call[q], h) /\ CallBound(call[q])
    <3>1. call[q].kind # "delete"
      BY <1>1, <1>4, NoDeletion
    <3>2. QED
      BY <1>1, <1>4, <1>9, <3>1, Company, CallFacts DEF Agrees, Bounded
  <2>2. ASSUME call[q].kind \in {"rollback", "republish"} \/ call[q].at \in {"insert", "store", "save"}
        PROVE  call[q].schedule = g[call[q].version]
    <3>1. call[q].version \in Versions /\ Known(call[q].version)
      BY <2>1, <2>2 DEF Placed, Equipped, CallBound
    <3>2. call[q].schedule = h[call[q].version]
      BY <2>1, <2>2 DEF CallAgrees
    <3>3. QED
      BY <1>4, <1>5, <3>1, <3>2
  <2>3. ASSUME call[q].at \in {"save", "validate", "mark", "mark row", "draft row"}
        PROVE  call[q].rec.schedule = g[call[q].rec.version]
    <3>1. call[q].rec.version \in Versions
      BY <2>1, <2>3, RecordFacts DEF Equipped
    <3>2. Known(call[q].rec.version) \/ (row # Nothing /\ call[q].rec.version <= row.version)
      BY <2>1, <2>3 DEF CallBound, Placed
    <3>3. call[q].rec.version < n
      BY <1>4, <1>7, <3>1, <3>2
    <3>4. call[q].rec.schedule = h[call[q].rec.version]
      BY <2>1, <2>3 DEF CallAgrees
    <3>5. QED
      BY <1>5, <3>1, <3>3, <3>4
  <2>4. QED
    BY <2>1, <2>2, <2>3 DEF CallAgrees
<1>10. CallAgrees(call'[r], g)
  BY <1>1, <1>2, <1>3, <1>5 DEF CallAgrees
<1>11. \A q \in Active' : q = r \/ (q \in Active /\ call'[q] = call[q])
  BY <1>1, FrameOfLocal DEF Frame, Active
<1>12. \A q \in Active' : CallAgrees(call'[q], g)
  BY <1>9, <1>10, <1>11
<1>13. Agrees(g)'
  BY <1>1, <1>6, <1>8, <1>12 DEF Agrees, RecAgrees, CallAgrees
<1>14. QED
  BY <1>13

(* The first call gives the first version its schedule; all others take what is there. *)
LEMMA AgreeBegins ==
  ASSUME CallInv, CallInv', NEW h \in Map, Agrees(h), NEW r \in Requests, Begun(r)
  PROVE  \E g \in Map : Agrees(g)'
<1>1. /\ UNCHANGED <<row, mem, saved, memSaved>> /\ TypeInv /\ TypeOK
      /\ \A q \in Active' : q = r \/ (q \in Active /\ call'[q] = call[q])
  BY BegunOthers DEF Begun, CallInv, TypeInv, store
<1>2. CASE call'[r].kind = "create"
  <2>1. /\ call'[r].at = "insert" /\ call'[r].version \in Versions
        /\ call'[r].schedule \in Schedules /\ calls = 0
    BY <1>2 DEF Begun
  <2>2. Active = {} /\ row = Nothing /\ mem = Nothing /\ saved = NoVersions /\ memSaved = NoVersions
    BY <2>1 DEF CallInv, Beginning
  <2>3. PICK n \in Versions, s \in Schedules : n = call'[r].version /\ s = call'[r].schedule
    BY <2>1
  <2>4. PICK g \in Map : g[n] = s
    <3>1. [h EXCEPT ![n] = s] \in Map /\ [h EXCEPT ![n] = s][n] = s
      BY DEF Map
    <3>2. QED
      BY <3>1
  <2>5. CallAgrees(call'[r], g)
    BY <1>2, <2>1, <2>3, <2>4 DEF CallAgrees
  <2>6. \A v \in Versions : saved'[v] \in {Nothing, g[v]} /\ memSaved'[v] \in {Nothing, g[v]}
    BY <1>1, <2>2 DEF NoVersions
  <2>7. \A q \in Active' : CallAgrees(call'[q], g)
    BY <1>1, <2>2, <2>5
  <2>8. RecAgrees(row', g) /\ RecAgrees(mem', g)
    BY <1>1, <2>2 DEF RecAgrees
  <2>9. Agrees(g)'
    BY <2>6, <2>7, <2>8 DEF Agrees, RecAgrees, CallAgrees
  <2>10. QED
    BY <2>9
<1>3. CASE call'[r].kind # "create"
  <2>1. CallAgrees(call'[r], h)
    <3>1. CASE call'[r].kind = "delete"
      BY <3>1 DEF Begun, CallAgrees
    <3>2. CASE call'[r].kind \in {"rollback", "republish"}
      BY <3>2 DEF Begun, CallAgrees, Agrees
    <3>3. CASE call'[r].kind \in {"publish", "update"}
      <4>1. /\ call'[r].rec = row \/ call'[r].rec = mem
            /\ call'[r].rec # Nothing
            /\ \/ /\ call'[r].kind = "publish" /\ call'[r].at = "validate"
                  /\ call'[r].schedule = call'[r].rec.schedule
               \/ call'[r].kind = "update" /\ call'[r].at = "version"
        BY <3>3 DEF Begun
      <4>2. call'[r].rec.schedule = h[call'[r].rec.version]
        BY <4>1 DEF Agrees, RecAgrees
      <4>3. QED
        BY <4>1, <4>2 DEF CallAgrees
    <3>4. QED
      BY <1>3, <3>1, <3>2, <3>3 DEF Begun
  <2>2. \A q \in Active' : CallAgrees(call'[q], h)
    BY <1>1, <2>1 DEF Agrees
  <2>3. Agrees(h)'
    BY <1>1, <2>2 DEF Agrees, RecAgrees, CallAgrees
  <2>4. QED
    BY <2>3
<1>4. QED
  BY <1>2, <1>3

--------------------------------------------------------------------------------
(* Bounds: what is known stays known, and the row keeps its version, but for the *)
(* steps that write it.                                                          *)
RowKept ==
  /\ up' = up
  /\ \/ row' = row
     \/ row # Nothing /\ row' # Nothing /\ row'.version = row.version

(* The bounds of a call that keeps its place.                                   *)
LEMMA BoundOther ==
  ASSUME KnownKept, RowKept, NEW c, NEW d, CallBound(c), SamePlace(c, d),
         \/ d.rec = c.rec /\ (d.shared => c.shared)
         \/ c.shared /\ Known(d.rec.version)'
  PROVE  CallBound(d)'
<1>1. /\ d.kind = c.kind /\ d.at = c.at /\ d.version = c.version
      /\ \A v : Known(v) => Known(v)'
  BY DEF SamePlace, KnownKept
<1>2. c.kind \in {"rollback", "republish"} \/ c.at = "save" => Known(d.version)'
  BY <1>1 DEF CallBound
<1>3. \/ c.at \in {"draft row", "save", "mark", "mark row"}
      \/ c.kind = "republish" /\ c.at = "validate"
      => Known(d.rec.version)'
  BY <1>1 DEF CallBound
<1>4. c.kind = "publish" /\ c.at = "validate" =>
        Known(d.rec.version)' \/ (row' # Nothing /\ d.rec.version <= row'.version)
  BY <1>1 DEF CallBound, RowKept
<1>5. c.kind = "update" /\ c.at = "version" /\ up' /\ row' # Nothing =>
        Known(row.version)' \/ (~d.shared /\ row'.version <= d.rec.version)
  BY <1>1 DEF CallBound, RowKept
<1>6. c.kind = "update" /\ c.at = "insert" /\ up' /\ row' # Nothing =>
        Known(row.version)' \/ row'.version <= d.version
  BY <1>1 DEF CallBound, RowKept
<1>7. QED
  BY <1>1, <1>2, <1>3, <1>4, <1>5, <1>6 DEF CallBound

(* The bounds of the calls that a step does not take further.                   *)
LEMMA BoundFrame ==
  ASSUME CallInv, Bounded, KnownKept, RowKept, NEW r \in Active, Frame(r),
         \A q \in Active : q # r /\ call'[q].rec # call[q].rec => Known(call[q].rec.version)'
  PROVE  \A q \in Active' : q # r => CallBound(call[q])'
<1>1. SUFFICES ASSUME NEW q \in Active', q # r PROVE CallBound(call[q])'
  OBVIOUS
<1>2. /\ q \in Active /\ SamePlace(call[q], call'[q])
      /\ call'[q].rec # call[q].rec => call[q].shared /\ Known(call[q].rec.version)'
      /\ call'[q].shared => call[q].shared
  BY <1>1 DEF Frame, Active
<1>3. PICK c, d : c = call[q] /\ d = call'[q]
  OBVIOUS
<1>4. CallBound(c) /\ SamePlace(c, d)
  BY <1>2, <1>3 DEF Bounded
<1>5. \/ d.rec = c.rec /\ (d.shared => c.shared)
      \/ c.shared /\ Known(d.rec.version)'
  BY <1>2, <1>3
<1>6. CallBound(d)'
  BY <1>4, <1>5, BoundOther
<1>7. QED
  BY <1>3, <1>6 DEF CallBound

(* All bounds, after a step that takes nothing away.                            *)
LEMMA BoundStep ==
  ASSUME CallInv, ~VersionMet, Bounded, KnownKept, RowKept, NEW r \in Active, Frame(r),
         call[r].kind # "delete",
         \A q \in Active : q # r /\ call'[q].rec # call[q].rec => Known(call[q].rec.version)',
         mem' = mem \/ Known(mem.version)',
         call'[r] = Idle \/ CallBound(call[r])'
  PROVE  Bounded'
<1>1. \A q \in Active' : q # r => CallBound(call[q])'
  BY BoundFrame
<1>2. mem # Nothing => Known(mem.version)
  BY NoDeletion DEF Bounded
<1>3. mem' # Nothing => Known(mem.version)'
  BY <1>2 DEF KnownKept
<1>4. \A q \in Active' : CallBound(call[q])'
  BY <1>1 DEF Active
<1>5. QED
  BY <1>3, <1>4 DEF Bounded

(* All bounds, after a put of a record of a known version.                      *)
LEMMA BoundPut ==
  ASSUME CallInv, ~VersionMet, Bounded, KnownKept, RowKept, NEW r \in Active, Frame(r),
         call[r].kind # "delete", Known(mem.version)', NEW inPlace \in BOOLEAN,
         \A q \in Requests \ {r} : OtherAfterPut(q, mem', inPlace),
         CallBound(call[r])'
  PROVE  Bounded'
<1>1. ASSUME NEW q \in Active, q # r, call'[q].rec # call[q].rec
      PROVE  Known(call[q].rec.version)'
  <2>1. OtherAfterPut(q, mem', inPlace)
    BY <1>1 DEF Active
  <2>2. call'[q].rec = mem'
    BY <1>1, <2>1, Zenon DEF OtherAfterPut
  <2>3. call'[q].rec.version = mem'.version
    BY <2>2
  <2>4. QED
    BY <2>3 DEF Known
<1>2. QED
  BY <1>1, BoundStep

(* Every step of a call keeps the bounds.                                       *)
LEMMA BoundSteps ==
  ASSUME CallInv, CallInv', ~VersionMet', Bounded, NEW r \in Requests, Steps(r)
  PROVE  Bounded'
<1>t. /\ TypeInv /\ TypeOK /\ r \in Active /\ Frame(r) /\ CallBound(call[r])
      /\ \A v \in Versions : v \in Nat
  BY StepsCall, KnownFacts DEF CallInv, TypeInv, Bounded
<1>v. ~VersionMet
  BY StepsCall DEF VersionMet
<1>l. ASSUME call' = [call EXCEPT ![r] = call'[r]]
      PROVE  \A q \in Active : q # r => call'[q] = call[q]
  BY <1>t, <1>l, FrameOfLocal DEF Active
<1>1. CASE ChooseVersion(r)
  <2>1. /\ UNCHANGED <<up, row, mem, saved, memSaved>> /\ call' = [call EXCEPT ![r] = call'[r]]
        /\ call[r].kind = "update" /\ call'[r].kind = "update" /\ call'[r].at = "insert"
        /\ call'[r].version = NextVersion(call[r].rec) /\ call'[r].version \in Versions
    BY <1>t, <1>1, ChooseMoves DEF store
  <2>2. KnownKept /\ RowKept
    BY <2>1, KnownSame DEF RowKept
  <2>3. row # Nothing => row.version < call'[r].version
    BY <1>1, <2>1, NewAbove
  <2>4. row # Nothing => row.version \in Nat /\ call'[r].version \in Nat
    BY <1>t, <2>1, StoreTypes, RecordFacts
  <2>5. row' # Nothing => row'.version <= call'[r].version
    BY <2>1, <2>3, <2>4
  <2>6. CallBound(call[r])'
    BY <2>1, <2>5 DEF CallBound
  <2>7. QED
    BY <1>t, <1>v, <1>l, <2>1, <2>2, <2>6, BoundStep
<1>2. CASE InsertCampaign(r)
  <2>1. /\ UNCHANGED <<up, mem, saved, memSaved>> /\ call' = [call EXCEPT ![r] = call'[r]]
        /\ call[r].kind \in {"create", "update"} /\ call[r].at = "insert"
        /\ call'[r].kind = call[r].kind /\ call'[r].at = "store"
        /\ call[r].version \in Versions
        /\ ~up => row' = row
        /\ up => row' \in Records /\ row'.version = call[r].version
    BY <1>t, <1>2, InsertMoves
  <2>2. KnownKept
    BY <2>1, KnownSame
  <2>3. CallBound(call[r])'
    BY <2>1 DEF CallBound
  <2>4. CASE ~up
    <3>1. RowKept
      BY <2>1, <2>4 DEF RowKept
    <3>2. QED
      BY <1>t, <1>v, <1>l, <2>1, <2>2, <2>3, <3>1, BoundStep
  <2>5. CASE up
    <3>0. row' # Nothing
      BY <2>1, <2>5, CampaignsConstants
    <3>1. ASSUME NEW q \in Active', q # r
          PROVE  CallBound(call[q])'
      <4>1. q \in Active /\ call'[q] = call[q] /\ CallBound(call[q])
        BY <1>t, <1>l, <2>1, <3>1 DEF Frame, Bounded, Active
      <4>2. /\ call[q].kind \in {"publish", "rollback", "republish", "delete"}
            /\ Placed(call[q]) /\ Equipped(call[q])
        BY <1>t, <1>v, <2>1, <3>1, <4>1, Company, CallFacts DEF CallInv, Alone
      <4>3. PICK c : c = call[q]
        OBVIOUS
      <4>4. ASSUME c.kind = "publish", c.at = "validate"
            PROVE  Known(c.rec.version)' \/ (row' # Nothing /\ c.rec.version <= row'.version)
        <5>1. Known(c.rec.version) \/ (row # Nothing /\ c.rec.version <= row.version)
          BY <4>1, <4>3, <4>4 DEF CallBound
        <5>2. CASE Known(c.rec.version)
          BY <2>2, <5>2 DEF KnownKept
        <5>3. CASE row # Nothing /\ c.rec.version <= row.version
          <6>1. Known(row.version) \/ row.version <= call[r].version
            <7>1. call[r].kind = "update"
              BY <1>t, <2>1, <3>1, <4>1 DEF CallInv, Alone
            <7>2. QED
              BY <1>t, <2>1, <2>5, <5>3, <7>1 DEF CallBound
          <6>2. row.version \in Versions /\ c.rec.version \in Versions
            BY <1>t, <4>2, <4>3, <4>4, <5>3, StoreTypes, RecordFacts DEF Equipped
          <6>3. CASE Known(row.version)
            <7>1. Known(c.rec.version)
              BY <1>t, <5>3, <6>2, <6>3, KnownFacts
            <7>2. QED
              BY <2>2, <7>1 DEF KnownKept
          <6>4. CASE row.version <= call[r].version
            BY <1>t, <2>1, <2>5, <3>0, <5>3, <6>2, <6>4
          <6>5. QED
            BY <6>1, <6>3, <6>4
        <5>4. QED
          BY <5>1, <5>2, <5>3
      <4>5. CallBound(c)'
        BY <2>2, <4>1, <4>2, <4>3, <4>4 DEF CallBound, KnownKept
      <4>6. QED
        BY <4>1, <4>3, <4>5 DEF CallBound
    <3>2. \A q \in Active' : CallBound(call[q])'
      BY <2>3, <3>1
    <3>3. mem' # Nothing => Known(mem.version)'
      BY <1>t, <1>v, <2>1, <2>2, NoDeletion DEF Bounded, KnownKept
    <3>4. QED
      BY <3>2, <3>3 DEF Bounded
  <2>6. QED
    BY <2>4, <2>5
<1>3. CASE SaveVersion(r)
  <2>1. /\ UNCHANGED <<up, row, mem, memSaved>> /\ call' = [call EXCEPT ![r] = call'[r]]
        /\ call[r].kind # "delete" /\ call[r].at = "save"
        /\ call[r].version \in Versions /\ call[r].schedule \in Schedules
        /\ saved' = IF up THEN [saved EXCEPT ![call[r].version] = call[r].schedule] ELSE saved
        /\ \/ call'[r] = Idle
           \/ /\ call'[r].kind = "publish" /\ call'[r].at = "mark" /\ call'[r].rec = call[r].rec
    BY <1>t, <1>3, SaveMoves
  <2>2. KnownKept
    <3>1. CASE up
      BY <1>t, <2>1, <3>1, KnownGrows
    <3>2. CASE ~up
      BY <2>1, <3>2, KnownSame
    <3>3. QED
      BY <3>1, <3>2
  <2>3. RowKept
    BY <2>1 DEF RowKept
  <2>4. Known(call[r].rec.version) 
    BY <1>t, <2>1 DEF CallBound
  <2>5. call'[r] = Idle \/ CallBound(call[r])'
    <3>1. PICK v : v = call[r].rec.version
      OBVIOUS
    <3>2. Known(v)'
      BY <2>2, <2>4, <3>1 DEF KnownKept
    <3>3. QED
      BY <2>1, <3>1, <3>2 DEF CallBound
  <2>6. QED
    BY <1>t, <1>v, <1>l, <2>1, <2>2, <2>3, <2>5, BoundStep
<1>4. CASE Validate(r)
  <2>1. /\ UNCHANGED <<up, row, mem, saved>> /\ call' = [call EXCEPT ![r] = call'[r]]
        /\ call[r].at = "validate" /\ call[r].kind \in {"publish", "republish"}
        /\ call[r].rec.version \in Versions /\ call[r].schedule \in Schedules
        /\ \/ call'[r] = Idle /\ UNCHANGED memSaved
           \/ /\ call'[r].kind = call[r].kind /\ call'[r].rec = call[r].rec
              /\ \/ /\ call[r].kind = "publish" /\ call'[r].at = "save"
                    /\ call'[r].version = call[r].rec.version
                    /\ memSaved' = [memSaved EXCEPT ![call[r].rec.version] = call[r].schedule]
                 \/ /\ call[r].kind = "republish" /\ call'[r].at = "mark"
                    /\ call'[r].version = call[r].version
                    /\ UNCHANGED memSaved
    BY <1>t, <1>4, ValidateMoves, RecordFacts
  <2>2. PICK v, w : v = call[r].rec.version /\ w = call[r].version
    OBVIOUS
  <2>3. KnownKept /\ (call[r].kind = "publish" => call'[r] = Idle \/ Known(v)')
    BY <1>t, <2>1, <2>2, KnownGrows, KnownSame
  <2>4. call[r].kind = "republish" => Known(v)' /\ Known(w)'
    BY <1>t, <2>1, <2>2, <2>3 DEF CallBound, KnownKept
  <2>5. call'[r] = Idle \/ CallBound(call[r])'
    BY <2>1, <2>2, <2>3, <2>4 DEF CallBound
  <2>6. RowKept
    BY <2>1 DEF RowKept
  <2>7. QED
    BY <1>t, <1>v, <1>l, <2>1, <2>3, <2>5, <2>6, BoundStep
<1>5. CASE MarkRow(r)
  <2>1. /\ UNCHANGED <<up, saved, memSaved, mem>> /\ call' = [call EXCEPT ![r] = call'[r]]
        /\ call'[r] = Idle /\ call[r].kind \in {"publish", "republish"}
        /\ \/ row' = row
           \/ row # Nothing /\ row' \in Records /\ row'.version = row.version
    BY <1>t, <1>5, MarkRowMoves
  <2>2. KnownKept /\ RowKept
    BY <2>1, KnownSame, CampaignsConstants DEF RowKept
  <2>3. QED
    BY <1>t, <1>v, <1>l, <2>1, <2>2, BoundStep
<1>6. CASE ReadCampaign(r)
  <2>1. /\ UNCHANGED <<up, row, saved, memSaved, mem>> /\ call' = [call EXCEPT ![r] = call'[r]]
        /\ call[r].kind \in {"rollback", "republish"}
        /\ \/ call'[r] = Idle
           \/ /\ call'[r].kind = call[r].kind /\ call'[r].at = "draft"
              /\ call'[r].version = call[r].version
    BY <1>t, <1>6, ReadMoves DEF store
  <2>2. KnownKept /\ RowKept
    BY <2>1, KnownSame DEF RowKept
  <2>3. PICK v : v = call[r].version
    OBVIOUS
  <2>4. Known(v)'
    BY <1>t, <2>1, <2>2, <2>3 DEF CallBound, KnownKept
  <2>5. call'[r] = Idle \/ CallBound(call[r])'
    BY <2>1, <2>3, <2>4 DEF CallBound
  <2>6. QED
    BY <1>t, <1>v, <1>l, <2>1, <2>2, <2>5, BoundStep
<1>7. CASE RollbackRow(r)
  <2>1. /\ UNCHANGED <<up, saved, memSaved, mem>> /\ call' = [call EXCEPT ![r] = call'[r]]
        /\ call[r].at = "draft row" /\ call[r].kind \in {"rollback", "republish"}
        /\ row' = IF up THEN call[r].rec ELSE row
        /\ \/ call'[r] = Idle
           \/ /\ call[r].kind = "republish" /\ call'[r].kind = call[r].kind
              /\ call'[r].at = "validate" /\ call'[r].rec = call[r].rec
              /\ call'[r].version = call[r].version
    BY <1>t, <1>7, RollbackRowMoves
  <2>2. KnownKept
    BY <2>1, KnownSame
  <2>3. PICK v, w : v = call[r].rec.version /\ w = call[r].version
    OBVIOUS
  <2>4. Known(v)' /\ Known(w)'
    BY <1>t, <2>1, <2>2, <2>3 DEF CallBound, KnownKept
  <2>5. call'[r] = Idle \/ CallBound(call[r])'
    BY <2>1, <2>3, <2>4 DEF CallBound
  <2>6. CASE ~up
    <3>1. RowKept
      BY <2>1, <2>6 DEF RowKept
    <3>2. QED
      BY <1>t, <1>v, <1>l, <2>1, <2>2, <2>5, <3>1, BoundStep
  <2>7. CASE up
    <3>1. ASSUME NEW q \in Active', q # r
          PROVE  CallBound(call[q])'
      <4>1. q \in Active /\ call'[q] = call[q] /\ CallBound(call[q])
        BY <1>t, <1>l, <2>1, <3>1 DEF Frame, Bounded, Active
      <4>2. call[q].kind # "publish"
        BY <1>t, <1>v, <2>1, <3>1, <4>1, Company
      <4>3. PICK c : c = call[q]
        OBVIOUS
      <4>4. Known(row.version)'
        <5>1. row'.version = v
          BY <2>1, <2>3, <2>7
        <5>2. QED
          BY <2>4, <5>1 DEF Known
      <4>5. CallBound(c)'
        BY <2>2, <4>1, <4>2, <4>3, <4>4 DEF CallBound, KnownKept
      <4>6. QED
        BY <4>1, <4>3, <4>5 DEF CallBound
    <3>2. \A q \in Active' : CallBound(call[q])'
      BY <2>5, <3>1 DEF Active
    <3>3. mem' # Nothing => Known(mem.version)'
      BY <1>t, <1>v, <2>1, <2>2, NoDeletion DEF Bounded, KnownKept
    <3>4. QED
      BY <3>2, <3>3 DEF Bounded
  <2>8. QED
    BY <2>6, <2>7
<1>8. CASE StoreCampaign(r)
  <2>1. /\ UNCHANGED <<up, row, saved>> /\ call[r].kind \in {"create", "update"}
        /\ call[r].version \in Versions /\ call[r].schedule \in Schedules
        /\ memSaved' = [memSaved EXCEPT ![call[r].version] = call[r].schedule]
        /\ mem'.version = call[r].version
        /\ call'[r].kind = call[r].kind /\ call'[r].at = "save" /\ call'[r].rec = mem'
        /\ call'[r].version = call[r].version
        /\ \A q \in Requests \ {r} : OtherAfterPut(q, mem', FALSE)
    BY <1>t, <1>8, StoreMoves
  <2>2. PICK inPlace \in BOOLEAN : inPlace = FALSE
    OBVIOUS
  <2>3. \A q \in Requests \ {r} : OtherAfterPut(q, mem', inPlace)
    BY <2>1, <2>2
  <2>4. PICK n \in Versions, s \in Schedules : n = call[r].version /\ s = call[r].schedule
    BY <2>1
  <2>5. KnownKept /\ Known(n)'
    BY <1>t, <2>1, <2>4, KnownGrows
  <2>6. Known(mem.version)' /\ CallBound(call[r])'
    BY <2>1, <2>4, <2>5 DEF CallBound
  <2>7. RowKept
    BY <2>1 DEF RowKept
  <2>8. QED
    BY <1>t, <1>v, <2>1, <2>3, <2>5, <2>6, <2>7, BoundPut
<1>9. CASE MarkInMemory(r)
  <2>1. /\ UNCHANGED <<up, row, saved, memSaved>> /\ call[r].kind \in {"publish", "republish"}
        /\ call[r].at = "mark"
        /\ mem'.version = call[r].rec.version
        /\ call'[r].kind = call[r].kind /\ call'[r].at = "mark row" /\ call'[r].rec = mem'
        /\ call'[r].version = call[r].version
        /\ \A q \in Requests \ {r} : OtherAfterPut(q, mem', call[r].shared)
    BY <1>t, <1>9, MarkMoves
  <2>2. PICK inPlace \in BOOLEAN : inPlace = call[r].shared
    BY <1>t, CallFacts DEF Held
  <2>3. \A q \in Requests \ {r} : OtherAfterPut(q, mem', inPlace)
    BY <2>1, <2>2
  <2>4. PICK v, w : v = call[r].rec.version /\ w = call[r].version
    OBVIOUS
  <2>5. KnownKept /\ RowKept
    BY <2>1, KnownSame DEF RowKept
  <2>6. Known(v)' /\ (call[r].kind = "republish" => Known(w)')
    BY <1>t, <2>1, <2>4, <2>5 DEF CallBound, KnownKept
  <2>7. Known(mem.version)' /\ CallBound(call[r])'
    BY <2>1, <2>4, <2>6 DEF CallBound
  <2>8. QED
    BY <1>t, <1>v, <2>1, <2>3, <2>5, <2>7, BoundPut
<1>10. CASE RollbackInMemory(r)
  <2>1. /\ UNCHANGED <<up, row, saved, memSaved>> /\ call[r].kind \in {"rollback", "republish"}
        /\ mem'.version = call[r].version
        /\ call'[r].kind = call[r].kind /\ call'[r].at = "draft row" /\ call'[r].rec = mem'
        /\ call'[r].version = call[r].version
        /\ \A q \in Requests \ {r} : OtherAfterPut(q, mem', call[r].shared)
    BY <1>t, <1>10, RollbackInMemoryMoves
  <2>2. PICK inPlace \in BOOLEAN : inPlace = call[r].shared
    BY <1>t, CallFacts DEF Held
  <2>3. \A q \in Requests \ {r} : OtherAfterPut(q, mem', inPlace)
    BY <2>1, <2>2
  <2>4. PICK w : w = call[r].version
    OBVIOUS
  <2>5. KnownKept /\ RowKept
    BY <2>1, KnownSame DEF RowKept
  <2>6. Known(w)'
    BY <1>t, <2>1, <2>4, <2>5 DEF CallBound, KnownKept
  <2>7. Known(mem.version)' /\ CallBound(call[r])'
    BY <2>1, <2>4, <2>6 DEF CallBound
  <2>8. QED
    BY <1>t, <1>v, <2>1, <2>3, <2>5, <2>7, BoundPut
<1>11. CASE DeleteRow(r) \/ Forget(r)
  <2>1. /\ call[r].kind = "delete" /\ (call'[r] = Idle \/ call'[r].kind = "delete")
        /\ \/ mem' = Nothing
           \/ mem' = mem /\ r \in Active' /\ call'[r].kind = "delete"
    BY <1>t, <1>11, DeleteRowMoves, ForgetMoves, IdleApart DEF Active
  <2>2. \A q \in Active' : call'[q].kind = "delete"
    BY <1>t, <1>v, <2>1, Company DEF Frame, SamePlace, Active
  <2>3. TypeInv'
    BY DEF CallInv
  <2>4. \A q \in Active' : call'[q].at \in {"delete", "forget"}
    BY <2>2, <2>3 DEF TypeInv, Placed
  <2>5. \A q \in Active' : CallBound(call[q])'
    BY <2>2, <2>4 DEF CallBound
  <2>6. QED
    BY <2>1, <2>2, <2>5 DEF Bounded
<1>12. QED
  BY <1>1, <1>2, <1>3, <1>4, <1>5, <1>6, <1>7, <1>8, <1>9, <1>10, <1>11 DEF Steps

(* A beginning keeps the bounds.                                                *)
LEMMA BoundBegins ==
  ASSUME CallInv, CallInv', ~VersionMet', Bounded, NEW r \in Requests, Begun(r)
  PROVE  Bounded'
<1>1. /\ UNCHANGED <<up, row, mem, saved, memSaved>> /\ TypeInv /\ TypeOK /\ mixed \subseteq mixed'
      /\ \A q \in Active' : q = r \/ (q \in Active /\ call'[q] = call[q])
      /\ \A q \in Active : q \in Active' /\ call'[q] = call[q]
      /\ \A q \in Active : {call'[r].kind, call[q].kind} \in mixed'
      /\ \A v \in Versions : v \in Nat
  BY BegunOthers, KnownFacts DEF Begun, CallInv, TypeInv, store
<1>2. KnownKept /\ RowKept
  BY <1>1, KnownSame DEF RowKept
<1>3. mem' # Nothing => Known(mem.version)' \/ \E q \in Active' : call'[q].kind = "delete"
  BY <1>1, <1>2 DEF Bounded, KnownKept
<1>4. ASSUME NEW q \in Active', q # r
      PROVE  CallBound(call[q])'
  <2>1. PICK c : c = call[q]
    OBVIOUS
  <2>2. call'[q] = c /\ CallBound(c)
    BY <1>1, <1>4, <2>1 DEF Bounded
  <2>3. CallBound(c)'
    BY <1>2, <2>2, BoundOther DEF SamePlace
  <2>4. QED
    BY <2>2, <2>3 DEF CallBound
<1>5. CallBound(call[r])'
  <2>1. CASE call'[r].kind \in {"create", "delete"}
    BY <2>1 DEF Begun, CallBound
  <2>2. CASE call'[r].kind \in {"rollback", "republish"}
    <3>1. PICK v \in Versions : v = call'[r].version
      BY <2>2 DEF Begun
    <3>2. saved[v] # Nothing \/ memSaved[v] # Nothing
      BY <2>2, <3>1 DEF Begun
    <3>3. Known(v)'
      BY <1>1, <1>2, <3>2, KnownFacts DEF KnownKept
    <3>4. call'[r].at = "read"
      BY <2>2 DEF Begun
    <3>5. QED
      BY <2>2, <3>1, <3>3, <3>4 DEF CallBound
  <2>3. CASE call'[r].kind = "publish"
    <3>1. /\ call'[r].at = "validate" /\ call'[r].rec \in Records /\ call'[r].rec # Nothing
          /\ call'[r].rec = row \/ call'[r].rec = mem
      BY <2>3 DEF Begun
    <3>2. \A q \in Active : call[q].kind # "delete"
      <4>1. \A k \in {"update", "publish", "rollback", "republish"} : {"delete", k} \notin mixed'
        BY DEF VersionMet
      <4>2. {"publish", "delete"} \notin mixed'
        BY <4>1
      <4>3. QED
        BY <1>1, <2>3, <4>2
    <3>3. PICK rec \in Records : rec = call'[r].rec
      BY <3>1
    <3>4. CASE rec = mem
      <4>1. Known(rec.version)
        BY <3>1, <3>2, <3>3, <3>4 DEF Bounded
      <4>2. Known(rec.version)'
        BY <1>2, <4>1 DEF KnownKept
      <4>3. QED
        BY <2>3, <3>1, <3>3, <4>2 DEF CallBound
    <3>5. CASE rec = row
      <4>1. row' # Nothing /\ rec.version <= row'.version
        BY <1>1, <3>1, <3>3, <3>5, RecordFacts
      <4>2. QED
        BY <2>3, <3>1, <3>3, <4>1 DEF CallBound
    <3>6. QED
      BY <3>1, <3>3, <3>4, <3>5
  <2>4. CASE call'[r].kind = "update"
    <3>1. /\ call'[r].at = "version" /\ call'[r].rec \in Records /\ call'[r].rec # Nothing
          /\ \/ ~call'[r].shared /\ call'[r].rec = row
             \/ up => row = Nothing
      BY <2>4 DEF Begun
    <3>2. up' /\ row' # Nothing => ~call'[r].shared /\ row'.version <= call'[r].rec.version
      BY <1>1, <3>1, RecordFacts
    <3>3. QED
      BY <2>4, <3>1, <3>2 DEF CallBound
  <2>5. QED
    BY <2>1, <2>2, <2>3, <2>4 DEF Begun
<1>6. \A q \in Active' : CallBound(call[q])'
  BY <1>4, <1>5
<1>7. QED
  BY <1>3, <1>6 DEF Bounded

(* Without an update on its way, an outage changes nothing that bounds a version;*)
(* a restart ends all calls and leaves the database what it was.                 *)
LEMMA VersionOutside ==
  ASSUME CallInv, CallInv', ~VersionMet', NEW h \in Map, Agrees(h), Bounded,
         DatabaseChanges \/ Restart \/ UNCHANGED vars
  PROVE  Agrees(h)' /\ Bounded'
<1>t. TypeInv
  BY DEF CallInv
<1>1. CASE DatabaseChanges
  <2>1. /\ UNCHANGED <<row, mem, saved, memSaved, call>> /\ Active' = Active
        /\ \A q \in Active : {call[q].kind, "db"} \in mixed'
    BY <1>t, <1>1, DatabaseMoves DEF store, Active
  <2>2. {"update", "db"} \notin mixed'
    BY DEF VersionMet
  <2>3. \A q \in Active : call[q].kind # "update"
    BY <2>1, <2>2
  <2>4. Agrees(h)'
    BY <2>1 DEF Agrees, RecAgrees, CallAgrees
  <2>5. \A v : Known(v) => Known(v)'
    BY <2>1, KnownSame DEF KnownKept
  <2>6. ASSUME NEW q \in Active'
        PROVE  CallBound(call[q])'
    <3>1. PICK c : c = call[q]
      OBVIOUS
    <3>2. call'[q] = c /\ CallBound(c) /\ c.kind # "update"
      BY <2>1, <2>3, <3>1 DEF Bounded
    <3>3. CallBound(c)'
      BY <2>1, <2>5, <3>2 DEF CallBound
    <3>4. QED
      BY <3>2, <3>3 DEF CallBound
  <2>7. mem' # Nothing => Known(mem.version)' \/ \E q \in Active' : call'[q].kind = "delete"
    BY <2>1, <2>5 DEF Bounded
  <2>8. QED
    BY <2>4, <2>6, <2>7 DEF Bounded
<1>2. CASE Restart
  <2>1. /\ UNCHANGED <<row, saved>> /\ mem' = Nothing /\ memSaved' = NoVersions /\ Active' = {}
    BY <1>t, <1>2, RestartMoves
  <2>2. Agrees(h)'
    BY <2>1 DEF Agrees, RecAgrees, NoVersions
  <2>3. Bounded'
    BY <2>1 DEF Bounded
  <2>4. QED
    BY <2>2, <2>3
<1>3. CASE UNCHANGED vars
  <2>1. UNCHANGED <<up, row, mem, saved, memSaved, call>> /\ Active' = Active
    BY <1>3 DEF vars, store, Active
  <2>2. Agrees(h)'
    BY <2>1 DEF Agrees, RecAgrees, CallAgrees
  <2>3. Bounded'
    BY <2>1 DEF Bounded, CallBound, Known, Numbers
  <2>4. QED
    BY <2>2, <2>3
<1>4. QED
  BY <1>1, <1>2, <1>3

(* VersionInv is inductive.                                                     *)
LEMMA VersionStep ==
  ASSUME CallInv, VersionInv, [Next]_vars
  PROVE  VersionInv'
<1>1. CallInv' /\ mixed \subseteq mixed'
  BY NextSplit
<1>2. VersionMet => VersionMet'
  BY <1>1 DEF VersionMet
<1>3. SUFFICES ASSUME ~VersionMet'
               PROVE  (\E g \in Map : Agrees(g)') /\ Bounded'
  BY <1>2 DEF VersionInv, Map
<1>4. /\ ~VersionMet /\ Bounded
      /\ \E h \in Map : Agrees(h)
  BY <1>2, <1>3 DEF VersionInv, Map
<1>h. PICK h \in Map : Agrees(h)
  BY <1>4
<1>5. ASSUME NEW r \in Requests, Begun(r)
      PROVE  (\E g \in Map : Agrees(g)') /\ Bounded'
  BY <1>1, <1>3, <1>4, <1>h, <1>5, AgreeBegins, BoundBegins
<1>6. ASSUME NEW r \in Requests, Steps(r)
      PROVE  (\E g \in Map : Agrees(g)') /\ Bounded'
  <2>1. CASE ChooseVersion(r)
    BY <1>1, <1>3, <1>4, <1>h, <1>6, <2>1, AgreeChoose, BoundSteps
  <2>2. CASE ~ChooseVersion(r)
    BY <1>1, <1>3, <1>4, <1>h, <1>6, <2>2, AgreeSteps, BoundSteps
  <2>3. QED
    BY <2>1, <2>2
<1>7. CASE DatabaseChanges \/ Restart \/ UNCHANGED vars
  BY <1>1, <1>3, <1>4, <1>h, <1>7, VersionOutside
<1>8. QED
  BY <1>5, <1>6, <1>7, NextSplit

(* A step that writes over a saved version writes what h gives it, and so what   *)
(* was there; a deletion takes it away.                                          *)
LEMMA SavedKept ==
  ASSUME CallInv, VersionInv, [Next]_vars, NEW v \in Versions
  PROVE  saved[v] = Nothing \/ saved'[v] \in {saved[v], Nothing} \/ VersionMet
<1>1. SUFFICES ASSUME ~VersionMet
               PROVE  saved[v] = Nothing \/ saved'[v] \in {saved[v], Nothing}
  OBVIOUS
<1>t. TypeInv /\ saved \in Map
  BY StoreTypes DEF CallInv, TypeInv, Map
<1>2. PICK h \in Map : Agrees(h)
  BY <1>1 DEF VersionInv, Map
<1>3. ASSUME NEW r \in Requests, Steps(r)
      PROVE  saved[v] = Nothing \/ saved'[v] \in {saved[v], Nothing}
  <2>1. CASE SaveVersion(r)
    <3>1. /\ r \in Active /\ call[r].at = "save" /\ call[r].version \in Versions
          /\ saved' = IF up THEN [saved EXCEPT ![call[r].version] = call[r].schedule] ELSE saved
      BY <1>t, <2>1, SaveMoves
    <3>2. call[r].schedule = h[call[r].version] /\ saved[v] \in {Nothing, h[v]}
      BY <1>2, <3>1 DEF Agrees, CallAgrees
    <3>3. QED
      BY <1>t, <3>1, <3>2 DEF Map
  <2>2. CASE DeleteRow(r)
    <3>1. saved' = NoVersions \/ saved' = saved
      BY <1>t, <2>2, DeleteRowMoves
    <3>2. QED
      BY <3>1 DEF NoVersions
  <2>3. CASE ~SaveVersion(r) /\ ~DeleteRow(r)
    <3>1. saved' = saved
      BY <1>3, <2>3 DEF Steps, ChooseVersion, InsertCampaign, StoreCampaign, Validate,
        MarkInMemory, MarkRow, ReadCampaign, RollbackInMemory, RollbackRow, Forget, store
    <3>2. QED
      BY <3>1
  <2>4. QED
    BY <2>1, <2>2, <2>3
<1>4. CASE \E r \in Requests : Begun(r)
  BY <1>4 DEF Begun, store
<1>5. CASE DatabaseChanges \/ Restart \/ UNCHANGED vars
  BY <1>5 DEF DatabaseChanges, Restart, vars, store
<1>6. QED
  BY <1>3, <1>4, <1>5, NextSplit

(* A saved version keeps its schedule, whatever calls, outages and restarts      *)
(* there are, but for the encounters that VersionMet names                       *)
(* (_save_campaign_version, _next_campaign_version, rollback_campaign).          *)
THEOREM VersionsKept == Spec => VersionsStay
<1>1. Init => CallInv /\ VersionInv
  <2>1. SUFFICES ASSUME Init PROVE VersionInv
    BY InitCall
  <2>2. /\ row = Nothing /\ mem = Nothing /\ Active = {}
        /\ saved = NoVersions /\ memSaved = NoVersions
    BY <2>1 DEF Init, Active
  <2>3. NoVersions \in [Versions -> Schedules \cup {Nothing}]
    BY DEF NoVersions
  <2>4. Agrees(NoVersions) /\ Bounded
    BY <2>2 DEF Agrees, RecAgrees, Bounded
  <2>5. QED
    BY <2>3, <2>4 DEF VersionInv
<1>2. CallInv /\ VersionInv /\ [Next]_vars => (CallInv /\ VersionInv)'
  BY NextSplit, VersionStep
<1>3. CallInv /\ VersionInv /\ [Next]_vars =>
        [\A v \in Versions :
           saved[v] = Nothing \/ saved'[v] \in {saved[v], Nothing} \/ VersionMet]_vars
  BY SavedKept
<1>4. QED
  BY <1>1, <1>2, <1>3, PTL DEF Spec, VersionsStay
================================================================================
