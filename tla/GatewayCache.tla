------------------------------- MODULE GatewayCache -------------------------------
(* The gateway's two caches (handler.go): the device's bundle in Redis, with a TTL,  *)
(* and the material files on disk, under their file names.  A handler that misses   *)
(* either one goes upstream; handlers run concurrently and take no lock.            *)
EXTENDS Integers, FiniteSets, Sequences, SequencesExt

CONSTANTS
  Requests,     (* the device's HTTP requests                                       *)
  Assets,       (* the assets of the bundles; each stands for its id, url and bytes *)
  Name,         (* their file names                                                 *)
  Bundles,      (* the bundles the control plane publishes, in order                *)
  None,         (* no file                                                          *)
  Hole,         (* a part of a file that nobody has written                         *)
  MaxFaults     (* bound: calls upstream that fail, and restarts                    *)

Names == {Name[a] : a \in Assets}
Versions == 1..Len(Bundles)
Chunks == 2     (* a file is copied in this many parts                              *)
(* Enough for what can be open, in place and left over at the same time.            *)
Inodes == 1..(Cardinality(Requests) + 2 * Cardinality(Names))

ASSUME GatewayCacheConstants ==
  /\ IsFiniteSet(Requests) /\ IsFiniteSet(Assets)
  /\ DOMAIN Name = Assets /\ Bundles \in Seq(Seq(Assets)) /\ Len(Bundles) > 0
  /\ None \notin Inodes /\ Hole \notin Assets
  /\ MaxFaults \in Nat

VARIABLES
  published,    (* the version of the bundle that the control plane answers with    *)
  cached,       (* the version of the bundle in Redis, or 0                         *)
  tmp, file,    (* Names -> the inode under that name, with and without .tmp        *)
  data,         (* Inodes -> its parts                                              *)
  request,      (* Requests -> where it is and what it holds                        *)
  crossed,      (* history: names that two downloads have had open together         *)
  faults

vars == <<published, cached, tmp, file, data, request, crossed, faults>>

(* todo: assets still to look at; asset: the one at hand; inode, done: the file a   *)
(* download has open and the parts of it copied; got: the parts served.             *)
Fresh == [at |-> "new", wants |-> "nothing", bundle |-> 0, todo |-> <<>>,
          inode |-> None, done |-> 0, got |-> <<>>]

Init ==
  /\ published = 1
  /\ cached = 0
  /\ tmp = [n \in Names |-> None]
  /\ file = [n \in Names |-> None]
  /\ data = [i \in Inodes |-> <<>>]
  /\ request = [r \in Requests |-> Fresh]
  /\ crossed = {}
  /\ faults = 0

Fault == faults < MaxFaults /\ faults' = faults + 1

(* The control plane's answer changes; the TTL of the key runs out.                 *)
Publish ==
  /\ published < Len(Bundles)
  /\ published' = published + 1
  /\ UNCHANGED <<cached, tmp, file, data, request, crossed, faults>>

Expire ==
  /\ cached # 0
  /\ cached' = 0
  /\ UNCHANGED <<published, tmp, file, data, request, crossed, faults>>

--------------------------------------------------------------------------------
(* What a handler does with its bundle b: GetDevicePolicy and GetSchedule answer    *)
(* from it, GetAds looks at every asset, GetMaterialFile at the one it was asked    *)
(* for, or answers 404.                                                             *)
WithBundle(q, b) ==
  LET todo == CASE q.wants = "policy" -> <<>>
                [] q.wants = "ads" -> Bundles[b]
                [] OTHER -> IF q.wants \in Range(Bundles[b]) THEN <<q.wants>> ELSE <<>>
  IN [q EXCEPT !.bundle = b, !.todo = todo, !.at = IF todo = <<>> THEN "over" ELSE "look"]

(* getDeviceBundle: from Redis, or from the control plane.                          *)
Ask(r, wants) ==
  /\ request[r].at = "new"
  /\ LET q == [request[r] EXCEPT !.wants = wants] IN
     request' = [request EXCEPT ![r] = IF cached # 0 THEN WithBundle(q, cached)
                                       ELSE [q EXCEPT !.at = "fetching"]]
  /\ UNCHANGED <<published, cached, tmp, file, data, crossed, faults>>

FetchBundle(r) ==
  /\ request[r].at = "fetching"
  /\ request' = [request EXCEPT ![r].bundle = published, ![r].at = "fetched"]
  /\ UNCHANGED <<published, cached, tmp, file, data, crossed, faults>>

FetchFails(r) ==
  /\ request[r].at = "fetching"
  /\ request' = [request EXCEPT ![r].at = "over"]
  /\ Fault
  /\ UNCHANGED <<published, cached, tmp, file, data, crossed>>

(* The Set comes after the answer: a slower handler puts back an older bundle.      *)
KeepBundle(r) ==
  /\ request[r].at = "fetched"
  /\ cached' = request[r].bundle
  /\ request' = [request EXCEPT ![r] = WithBundle(@, @.bundle)]
  /\ UNCHANGED <<published, tmp, file, data, crossed, faults>>

--------------------------------------------------------------------------------
Asset(r) == Head(request[r].todo)
NameOf(r) == Name[Asset(r)]

FileExistsWithSize(n) == file[n] # None /\ data[file[n]] # <<>>

(* ensureAssetCached has returned: GetMaterialFile serves, GetAds goes on.          *)
Cached(q) ==
  IF q.wants # "ads" THEN [q EXCEPT !.at = "serve"]
  ELSE [q EXCEPT !.todo = Tail(@), !.at = IF Len(q.todo) > 1 THEN "look" ELSE "over"]

(* The same with an error: GetMaterialFile answers 502, GetAds logs it.             *)
NotCached(q) == IF q.wants # "ads" THEN [q EXCEPT !.at = "over"] ELSE Cached(q)

Look(r) ==
  /\ request[r].at = "look"
  /\ request' = [request EXCEPT ![r] = IF FileExistsWithSize(NameOf(r)) THEN Cached(@)
                                       ELSE [@ EXCEPT !.at = "get"]]
  /\ UNCHANGED <<published, cached, tmp, file, data, crossed, faults>>

(* downloadFileToPath: no answer, or another status than 200.                       *)
GetFails(r) ==
  /\ request[r].at = "get"
  /\ request' = [request EXCEPT ![r] = NotCached(@)]
  /\ Fault
  /\ UNCHANGED <<published, cached, tmp, file, data, crossed>>

Referenced ==
  {tmp[n] : n \in Names} \cup {file[n] : n \in Names} \cup {request[r].inode : r \in Requests}

(* os.Create: a new file under the .tmp name, or the one there, truncated.          *)
CreateTmp(r) ==
  /\ request[r].at = "get"
  /\ LET n == NameOf(r)
         i == IF tmp[n] # None THEN tmp[n] ELSE CHOOSE j \in Inodes \ Referenced : TRUE
     IN /\ tmp' = [tmp EXCEPT ![n] = i]
        /\ data' = [data EXCEPT ![i] = <<>>]
        /\ request' = [request EXCEPT ![r].at = "copy", ![r].inode = i, ![r].done = 0]
        /\ crossed' = IF \E o \in Requests : request[o].at \in {"copy", "close"} /\ NameOf(o) = n
                      THEN crossed \cup {n} ELSE crossed
  /\ UNCHANGED <<published, cached, file, faults>>

(* One write of io.Copy, at the writer's own offset.                                *)
Written(parts, k, a) ==
  [j \in 1..(IF Len(parts) > k THEN Len(parts) ELSE k) |->
     IF j = k THEN a ELSE IF j <= Len(parts) THEN parts[j] ELSE Hole]

CopyPart(r) ==
  /\ request[r].at = "copy"
  /\ LET k == request[r].done + 1 IN
     /\ data' = [data EXCEPT ![request[r].inode] = Written(@, k, Asset(r))]
     /\ request' = [request EXCEPT ![r].done = k, ![r].at = IF k = Chunks THEN "close" ELSE "copy"]
  /\ UNCHANGED <<published, cached, tmp, file, crossed, faults>>

Closed(q) == [q EXCEPT !.inode = None, !.done = 0]

(* The connection breaks, or the 30 s are over: the .tmp name is removed.           *)
CopyFailsUnnoticed(r) ==  (* mutant: the error of io.Copy is dropped *)
  /\ request[r].at = "copy"
  /\ request' = [request EXCEPT ![r].at = "close"]
  /\ Fault
  /\ UNCHANGED <<published, cached, tmp, file, data, crossed>>

CopyFails(r) ==
  /\ request[r].at = "copy"
  /\ tmp' = [tmp EXCEPT ![NameOf(r)] = None]
  /\ request' = [request EXCEPT ![r] = NotCached(Closed(@))]
  /\ Fault
  /\ UNCHANGED <<published, cached, file, data, crossed>>

(* Close and os.Rename: whatever is under the .tmp name, if there is anything.      *)
TmpLinked(n) == tmp  (* mutant: linked, not renamed *)

TmpRenamed(n) == [tmp EXCEPT ![n] = None]

RenameTmp(r) ==
  /\ request[r].at = "close"
  /\ LET n == NameOf(r) IN
     IF tmp[n] # None
     THEN /\ file' = [file EXCEPT ![n] = tmp[n]]
          /\ tmp' = TmpRenamed(n)
          /\ request' = [request EXCEPT ![r] = Cached(Closed(@))]
     ELSE /\ request' = [request EXCEPT ![r] = NotCached(Closed(@))]
          /\ UNCHANGED <<tmp, file>>
  /\ UNCHANGED <<published, cached, data, crossed, faults>>

(* http.ServeFile.                                                                  *)
ServeFile(r) ==
  /\ request[r].at = "serve"
  /\ request' = [request EXCEPT ![r].at = "served", ![r].got = data[file[NameOf(r)]]]
  /\ UNCHANGED <<published, cached, tmp, file, data, crossed, faults>>

(* A restart of the gateway: its requests end where they are; Redis and the disk    *)
(* keep what they hold, .tmp files included.                                        *)
Restart ==
  /\ \E r \in Requests : request[r].at \notin {"new", "over", "served"}
  /\ request' = [r \in Requests |-> IF request[r].at \in {"new", "served"} THEN request[r]
                                   ELSE [Closed(request[r]) EXCEPT !.at = "over"]]
  /\ Fault
  /\ UNCHANGED <<published, cached, tmp, file, data, crossed>>

Next ==
  \/ Publish \/ Expire \/ Restart
  \/ \E r \in Requests :
       \/ \E wants \in Assets \cup {"policy", "ads"} : Ask(r, wants)
       \/ FetchBundle(r) \/ FetchFails(r) \/ KeepBundle(r)
       \/ Look(r) \/ GetFails(r) \/ CreateTmp(r) \/ CopyPart(r) \/ CopyFails(r)
       \/ RenameTmp(r) \/ ServeFile(r)

Spec == Init /\ [][Next]_vars
--------------------------------------------------------------------------------
(* Types; and no inode has two names, what is under a .tmp name is not what a       *)
(* finished name shows.                                                             *)
TypeOK ==
  /\ published \in Versions /\ cached \in Versions \cup {0}
  /\ \A n \in Names : {tmp[n], file[n]} \subseteq Inodes \cup {None}
  /\ \A m, n \in Names : tmp[m] # None => tmp[m] # file[n]
  /\ \A i \in Inodes : Len(data[i]) <= Chunks
  /\ \A r \in Requests : request[r].done \in 0..Chunks /\ request[r].bundle \in Versions \cup {0}

(* A request for a material is served the whole of one published asset of that file *)
(* name (its own, where no other has the name), through failing downloads, restarts *)
(* and changes of the bundle: unless two downloads had the name's .tmp file open    *)
(* together, which one shared .tmp path and no lock permit.                         *)
ServedWhole ==
  \A r \in Requests : request[r].at = "served" /\ NameOf(r) \notin crossed =>
    \E b \in Assets : /\ Name[b] = NameOf(r)
                      /\ \E v \in 1..published : b \in Range(Bundles[v])
                      /\ request[r].got = [k \in 1..Chunks |-> b]
================================================================================
