------------------------- MODULE DeviceCommands_proofs -------------------------
(* Theorems of DeviceCommands, for any requests, devices and number of failures: *)
(* its types, whose picture a caller gets, and what command_logs may claim.      *)
EXTENDS DeviceCommands, FiniteSetTheorems, WellFoundedInduction, TLAPS

--------------------------------------------------------------------------------
(* The latest of the rows that are open: a bounded set of numbers that is not    *)
(* empty has a greatest element, because the numbers are well-founded.          *)

(* A set of numbers that is not empty has a least one.                          *)
LEMMA Least ==
  ASSUME NEW I \in SUBSET Nat, I # {}
  PROVE  \E i \in I : \A j \in I : i <= j
<1>1. IsWellFoundedOn(OpToRel(<, Nat), Nat)
  BY NatLessThanWellFounded
<1>2. PICK i \in I : \A j \in I : ~(<<j, i>> \in OpToRel(<, Nat))
  BY <1>1, WFMin
<1>3. \A j \in I : ~(j < i)
  BY <1>2 DEF OpToRel
<1>4. QED
  BY <1>3

(* A bounded set of numbers that is not empty has a greatest one.               *)
LEMMA Greatest ==
  ASSUME NEW n \in Nat, NEW I \in SUBSET (1..n), I # {}
  PROVE  \E i \in I : \A j \in I : j <= i
<1> DEFINE J == {n - i : i \in I}
<1>1. \A i \in I : n - i \in Nat
  OBVIOUS
<1>2. J \in SUBSET Nat /\ J # {}
  BY <1>1
<1>3. PICK k \in J : \A j \in J : k <= j
  BY <1>2, Least
<1>4. PICK i \in I : k = n - i
  BY <1>3
<1>5. \A j \in I : n - j \in J
  OBVIOUS
<1>6. QED
  BY <1>3, <1>4, <1>5

(* The latest open request of a device is a request, and is for that device.    *)
LEMMA LatestFacts ==
  ASSUME order \in Seq(Requests), NEW S, NEW d, Open(S, d) # {}
  PROVE  /\ Latest(Open(S, d)) \in Requests \cap S
         /\ Target[Latest(Open(S, d))] = d
<1>1. /\ Open(S, d) \in SUBSET (1..Len(order)) /\ Len(order) \in Nat
      /\ \A i \in Open(S, d) : order[i] \in Requests \cap S /\ Target[order[i]] = d
  BY DEF Open
<1>2. \E i \in Open(S, d) : \A j \in Open(S, d) : j <= i
  BY <1>1, Greatest
<1>3. (CHOOSE i \in Open(S, d) : \A j \in Open(S, d) : j <= i) \in Open(S, d)
  BY <1>2
<1>4. QED
  BY <1>1, <1>3 DEF Latest

(* The bound on failures is kept. *)
FaultNames == {"insert", "unwritten", "offline", "slow", "lost", "update", "guess", "upload"}

(* Faults are spent one for each name, and never beyond their bound.            *)
LEMMA FailType ==
  ASSUME faults \in 0..MaxFaults, NEW F \in SUBSET FaultNames, Fail(F)
  PROVE  faults' \in 0..MaxFaults
<1> DEFINE sends   == ((({"insert"} \cup {"unwritten"}) \cup {"offline"}) \cup {"slow"}) \cup {"lost"}
           updates == ({"update"} \cup {"guess"}) \cup {"upload"}
<1>1. \A S, x : IsFiniteSet(S) => IsFiniteSet(S \cup {x})
  BY FS_AddElement
<1>2. IsFiniteSet(sends) /\ IsFiniteSet(updates)
  BY <1>1, FS_Singleton
<1>3. IsFiniteSet(sends \cup updates)
  <2> HIDE DEF sends, updates
  <2>1. QED
    BY <1>2, FS_Union
<1>4. IsFiniteSet(F)
  <2>1. F \in SUBSET (sends \cup updates)
    BY DEF FaultNames
  <2> HIDE DEF sends, updates
  <2>2. QED
    BY <1>3, <2>1, FS_Subset
<1>5. Cardinality(F) \in Nat
  BY <1>4, FS_CardinalityType
<1>6. QED
  BY <1>5, CommandConstants DEF Fail

(* The faults of a sending are among the names of faults.                       *)
LEMMA SendFaultNames ==
  ASSUME NEW F \in SendFaults
  PROVE  F \in SUBSET FaultNames
<1>1. PICK I \in {{}, {"insert"}, {"unwritten"}}, S \in {{}, {"offline"}, {"slow"}, {"lost"}} : F = I \cup S
  BY DEF SendFaults
<1>2. QED
  BY <1>1 DEF FaultNames

--------------------------------------------------------------------------------
(* The inductive invariant. *)

(* A command travels to its device. *)
CommandsTravel ==
  \A d \in Devices : \A i \in DOMAIN toDevice[d] : Target[toDevice[d][i]] = d

(* What a callback carries: the picture of its own capture, or none; it comes   *)
(* from a device that has answered something.                                   *)
CallbackTrue(m) ==
  /\ m.snapshot => m.req \in Captures /\ m.url \in {m.req, Empty}
  /\ ~m.snapshot => m.req \notin Captures
  /\ m.req # None => m.req \in answered /\ Target[m.req] = m.dev
  /\ \E s \in answered : Target[s] = m.dev

(* The picture left for a waiter was taken by a device that answered. *)
DataTrue ==
  \A d \in Devices : data[d] \in Captures => data[d] \in answered /\ Target[data[d]] = d

(* Whoever waits while a rival's command is under way, or its picture is there,  *)
(* has been noted as overlapping.                                               *)
RivalsNoted ==
  \A r \in Captures : \A s \in Captures \ {r} :
    /\ req[r].st = "waiting" /\ Target[s] = Target[r]
    /\ UnderWay(s) \/ data[Target[r]] = s
    => r \in mixed

CallsTrue == \A m \in calls : CallbackTrue(m)

(* Only captures are waited for. *)
OnlyCapturesWait == \A r \in Requests : req[r].st = "waiting" => r \in Captures

TypeInv == TypeOK /\ CommandsTravel /\ CallsTrue /\ OnlyCapturesWait

SnapshotInv == DataTrue /\ RivalsNoted /\ WaitersWait /\ OwnPicture

(* The types once more, apart from the variables, for the provers.               *)
ReqType == [st : {"idle", "waiting", "ok", "failed"}, url : Captures \cup {None}]
RowType == [st : {"none", "pending", "sent", "failed", "success"}, url : Pictures]
CallType == [dev : Devices, snapshot : BOOLEAN, req : Requests \cup {None}, url : Pictures]

(* What the constants tell apart.                                               *)
LEMMA Values ==
  /\ None \notin Requests /\ Empty \notin Requests /\ None # Empty
  /\ Captures \subseteq Requests
  /\ \A r \in Requests : Target[r] \in Devices
BY CommandConstants DEF Captures

--------------------------------------------------------------------------------
(* The types. *)

(* TypeInv holds at the start.                                                  *)
LEMMA TypeInit == Init => TypeInv
<1> SUFFICES ASSUME Init PROVE TypeInv
  OBVIOUS
<1>1. /\ req \in [Requests -> ReqType] /\ rows \in [Requests -> RowType]
  BY DEF Init, ReqType, RowType, Pictures
<1>2. /\ waiter \in [Devices -> Captures \cup {None}] /\ data \in [Devices -> Pictures]
  BY DEF Init, Pictures
<1>3. order \in Seq(Requests) /\ toDevice \in [Devices -> Seq(Requests)]
  BY DEF Init
<1>4. /\ woken = {} /\ mem = {} /\ calls = {} /\ faults \in 0..MaxFaults /\ answered = {}
      /\ guessed = {} /\ mixed = {} /\ skipped = {}
  BY CommandConstants DEF Init
<1>5. OnlyCapturesWait /\ CommandsTravel
  BY DEF Init, OnlyCapturesWait, CommandsTravel
<1>6. QED
  BY <1>1, <1>2, <1>3, <1>4, <1>5 DEF TypeInv, TypeOK, CallsTrue, ReqType, RowType

(* A request that moves on is a request.                                         *)
LEMMA RequestMoves ==
  ASSUME req \in [Requests -> ReqType], NEW r \in Requests,
         NEW st \in {"idle", "waiting", "ok", "failed"}, req' = [req EXCEPT ![r].st = st]
  PROVE  req' \in [Requests -> ReqType]
BY DEF ReqType

(* A row that is given a status is a row.                                       *)
LEMMA RowMoves ==
  ASSUME rows \in [Requests -> RowType], NEW r \in Requests,
         NEW st \in {"none", "pending", "sent", "failed", "success"},
         rows' = rows \/ rows' = [rows EXCEPT ![r].st = st]
  PROVE  rows' \in [Requests -> RowType]
BY DEF RowType

(* The order of rows grows by a request.                                        *)
LEMMA OrderGrows ==
  ASSUME order \in Seq(Requests), NEW r \in Requests,
         order' = order \/ order' = Append(order, r)
  PROVE  order' \in Seq(Requests)
OBVIOUS

(* A command that is queued for its device is that device's.                    *)
LEMMA DeliversType ==
  ASSUME TypeOK, CommandsTravel, NEW r \in Requests, NEW F, Delivers(r, F)
  PROVE  toDevice' \in [Devices -> Seq(Requests)] /\ CommandsTravel'
<1>1. toDevice \in [Devices -> Seq(Requests)] /\ Target[r] \in Devices
  BY Values DEF TypeOK
<1>2. toDevice[Target[r]] \in Seq(Requests)
  BY <1>1
<1>3. /\ Append(toDevice[Target[r]], r) \in Seq(Requests)
      /\ \A i \in DOMAIN Append(toDevice[Target[r]], r) :
           Target[Append(toDevice[Target[r]], r)[i]] = Target[r]
  BY <1>1, <1>2 DEF CommandsTravel
<1>4. \/ toDevice' = toDevice
      \/ toDevice' = [toDevice EXCEPT ![Target[r]] = Append(@, r)]
  BY DEF Delivers
<1>5. toDevice' \in [Devices -> Seq(Requests)]
  BY <1>1, <1>3, <1>4
<1>6. CommandsTravel'
  BY <1>1, <1>3, <1>4 DEF CommandsTravel
<1>7. QED
  BY <1>5, <1>6

(* A row that is marked stays a row.                                            *)
LEMMA MarksType ==
  ASSUME TypeOK, NEW r \in Requests, NEW url \in Pictures, Marks(r, url)
  PROVE  rows' \in [Requests -> RowType]
BY DEF TypeOK, Marks, RowType

(* So does a row that is guessed.                                               *)
LEMMA GuessType ==
  ASSUME TypeOK, NEW S, NEW d, NEW url \in Pictures, Guess(S, d, url)
  PROVE  rows' \in [Requests -> RowType] /\ guessed' \in SUBSET Requests
<1>t. /\ rows \in [Requests -> RowType] /\ guessed \in SUBSET Requests /\ order \in Seq(Requests)
  BY DEF TypeOK, RowType
<1>1. CASE Open(S, d) = {}
  BY <1>t, <1>1 DEF Guess
<1>2. CASE Open(S, d) # {}
  <2>1. Latest(Open(S, d)) \in Requests
    BY <1>t, <1>2, LatestFacts
  <2>2. Marks(Latest(Open(S, d)), url) /\ guessed' = guessed \cup {Latest(Open(S, d))}
    BY <1>2 DEF Guess
  <2>3. QED
    BY <1>t, <2>1, <2>2, MarksType
<1>3. QED
  BY <1>1, <1>2

(* TypeInv is inductive.                                                        *)
LEMMA TypeStep == TypeInv /\ [Next]_vars => TypeInv'
<1> SUFFICES ASSUME TypeInv, [Next]_vars PROVE TypeInv'
  OBVIOUS
<1>t. /\ req \in [Requests -> ReqType] /\ rows \in [Requests -> RowType]
      /\ waiter \in [Devices -> Captures \cup {None}] /\ data \in [Devices -> Pictures]
      /\ woken \in SUBSET Captures /\ mem \in SUBSET (Requests \ Captures)
      /\ order \in Seq(Requests) /\ toDevice \in [Devices -> Seq(Requests)]
      /\ calls \in SUBSET CallType /\ faults \in 0..MaxFaults
      /\ answered \in SUBSET Requests /\ guessed \in SUBSET Requests
      /\ mixed \in SUBSET Captures /\ skipped \in SUBSET Captures
      /\ \A m \in calls : CallbackTrue(m)
      /\ OnlyCapturesWait
  BY DEF TypeInv, TypeOK, CallsTrue, ReqType, RowType, CallType
<1>o. TypeOK /\ CommandsTravel
  BY DEF TypeInv
<1>u. toDevice' = toDevice => CommandsTravel'
  BY <1>o DEF CommandsTravel
<1>1. ASSUME NEW r \in Requests, RequestSnapshot(r) PROVE TypeInv'
  <2>1. PICK F \in SendFaults :
          /\ Fail(F) /\ Delivers(r, F)
          /\ IF Raises(F) THEN Popped(r) ELSE Registered(r)
          /\ req' = [req EXCEPT ![r].st = IF Raises(F) THEN "failed" ELSE "waiting"]
          /\ \/ rows' = rows /\ order' = order
             \/ rows' = [rows EXCEPT ![r].st = "pending"] /\ order' = Append(order, r)
    BY <1>1 DEF RequestSnapshot
  <2>2. /\ UNCHANGED <<woken, mem, calls, answered, guessed, skipped>> /\ r \in Captures
        /\ mixed' = IF Rivals(r) = {} THEN mixed ELSE mixed \cup Rivals(r) \cup {r}
    BY <1>1 DEF RequestSnapshot
  <2>3. faults' \in 0..MaxFaults
    BY <1>t, <2>1, SendFaultNames, FailType
  <2>4. toDevice' \in [Devices -> Seq(Requests)] /\ CommandsTravel'
    BY <1>o, <2>1, DeliversType
  <2>5. waiter' \in [Devices -> Captures \cup {None}] /\ data' \in [Devices -> Pictures]
    <3>1. /\ \/ waiter' = [waiter EXCEPT ![Target[r]] = None]
             \/ waiter' = [waiter EXCEPT ![Target[r]] = r]
          /\ data' = [data EXCEPT ![Target[r]] = None]
      BY <2>1 DEF Popped, Registered
    <3>2. QED
      BY <1>t, <2>2, <3>1 DEF Pictures
  <2>6. req' \in [Requests -> ReqType] /\ rows' \in [Requests -> RowType]
    <3>1. \E st \in {"idle", "waiting", "ok", "failed"} : req' = [req EXCEPT ![r].st = st]
      BY <2>1
    <3>2. rows' = rows \/ rows' = [rows EXCEPT ![r].st = "pending"]
      BY <2>1
    <3>3. QED
      BY <1>t, <3>1, <3>2, RequestMoves, RowMoves
  <2>7. order' \in Seq(Requests)
    <3>1. order' = order \/ order' = Append(order, r)
      BY <2>1
    <3>2. QED
      BY <1>t, <3>1, OrderGrows
  <2>8. mixed' \in SUBSET Captures
    BY <1>t, <2>2 DEF Rivals
  <2>9. CallsTrue'
    BY <1>t, <2>2 DEF CallsTrue, CallbackTrue
  <2>10. OnlyCapturesWait'
    BY <1>t, <2>1, <2>2 DEF OnlyCapturesWait
  <2>11. QED
    BY <1>t, <2>2, <2>3, <2>4, <2>5, <2>6, <2>7, <2>8, <2>9, <2>10
       DEF TypeInv, TypeOK, ReqType, RowType, CallType
<1>2. ASSUME NEW r \in Requests, SendCommand(r) PROVE TypeInv'
  <2>1. PICK F \in SendFaults :
          /\ Fail(F) /\ Delivers(r, F)
          /\ req' = [req EXCEPT ![r].st = IF Raises(F) THEN "failed" ELSE "ok"]
          /\ \/ rows' = rows /\ order' = order
             \/ rows' = [rows EXCEPT ![r].st = SendStatus(F)] /\ order' = Append(order, r)
          /\ mem' = mem \/ mem' = mem \cup {r}
    BY <1>2 DEF SendCommand
  <2>2. /\ UNCHANGED <<waiter, data, woken, calls, answered, guessed, mixed, skipped>>
        /\ r \notin Captures
    BY <1>2 DEF SendCommand, history
  <2>3. faults' \in 0..MaxFaults
    BY <1>t, <2>1, SendFaultNames, FailType
  <2>4. toDevice' \in [Devices -> Seq(Requests)] /\ CommandsTravel'
    BY <1>o, <2>1, DeliversType
  <2>5. req' \in [Requests -> ReqType] /\ rows' \in [Requests -> RowType]
    <3>1. \E st \in {"idle", "waiting", "ok", "failed"} : req' = [req EXCEPT ![r].st = st]
      BY <2>1
    <3>2. rows' = rows \/ rows' = [rows EXCEPT ![r].st = SendStatus(F)]
      BY <2>1
    <3>3. SendStatus(F) \in {"none", "pending", "sent", "failed", "success"}
      BY DEF SendStatus
    <3>4. QED
      BY <1>t, <3>1, <3>2, <3>3, RequestMoves, RowMoves
  <2>6. order' \in Seq(Requests) /\ mem' \in SUBSET (Requests \ Captures)
    <3>1. order' = order \/ order' = Append(order, r)
      BY <2>1
    <3>2. mem' = mem \/ mem' = mem \cup {r}
      BY <2>1
    <3>3. mem' \in SUBSET (Requests \ Captures)
      BY <1>t, <2>2, <3>2
    <3>4. QED
      BY <1>t, <3>1, <3>3, OrderGrows
  <2>7. CallsTrue'
    BY <1>t, <2>2 DEF CallsTrue, CallbackTrue
  <2>8. OnlyCapturesWait'
    BY <1>t, <2>1 DEF OnlyCapturesWait, ReqType
  <2>9. QED
    BY <1>t, <1>u, <2>2, <2>3, <2>4, <2>5, <2>6, <2>7, <2>8
       DEF TypeInv, TypeOK, ReqType, RowType, CallType
<1>3. ASSUME NEW r \in Requests, Resume(r) PROVE TypeInv'
  <2>1. /\ UNCHANGED <<woken, mem, order, toDevice, calls, answered, guessed, mixed>>
        /\ Popped(r) /\ r \in woken
    BY <1>3 DEF Resume
  <2>2. /\ data[Target[r]] \notin {None, Empty} => data[Target[r]] \in Captures
        /\ r \in Captures
    BY <1>t, <2>1, Values DEF Pictures
  <2>3. req' \in [Requests -> ReqType]
    <3>1. \/ /\ data[Target[r]] \notin {None, Empty}
             /\ req' = [req EXCEPT ![r] = [st |-> "ok", url |-> data[Target[r]]]]
          \/ req' = [req EXCEPT ![r] = [st |-> "failed", url |-> None]]
      BY <1>3 DEF Resume
    <3>2. QED
      <4>1. CASE req' = [req EXCEPT ![r] = [st |-> "failed", url |-> None]]
        BY <1>t, <4>1 DEF ReqType
      <4>2. CASE /\ data[Target[r]] \notin {None, Empty}
                 /\ req' = [req EXCEPT ![r] = [st |-> "ok", url |-> data[Target[r]]]]
        <5>1. [st |-> "ok", url |-> data[Target[r]]] \in ReqType
          BY <2>2, <4>2 DEF ReqType
        <5>2. QED
          BY <1>t, <4>2, <5>1
      <4>3. QED
        BY <3>1, <4>1, <4>2
  <2>4. rows' \in [Requests -> RowType]
    <3>1. rows' = rows \/ rows' = [rows EXCEPT ![r] = [st |-> "success", url |-> data[Target[r]]]]
      BY <1>3 DEF Resume
    <3>2. data[Target[r]] \in Pictures
      BY <1>t, Values
    <3>3. QED
      BY <1>t, <3>1, <3>2 DEF RowType
  <2>5. faults' \in 0..MaxFaults
    <3>1. faults' = faults \/ Fail({"update"})
      BY <1>3 DEF Resume
    <3>2. {"update"} \in SUBSET FaultNames
      BY DEF FaultNames
    <3>3. QED
      BY <1>t, <3>1, <3>2, FailType
  <2>6. skipped' \in SUBSET Captures
    BY <1>3, <1>t, <2>2 DEF Resume
  <2>7. waiter' \in [Devices -> Captures \cup {None}] /\ data' \in [Devices -> Pictures]
    BY <1>t, <2>1 DEF Popped, Pictures
  <2>8. CallsTrue'
    BY <1>t, <2>1 DEF CallsTrue, CallbackTrue
  <2>9. OnlyCapturesWait'
    BY <1>3, <1>t, <2>2 DEF OnlyCapturesWait, Resume
  <2>10. QED
    BY <1>t, <1>u, <2>1, <2>3, <2>4, <2>5, <2>6, <2>7, <2>8, <2>9
       DEF TypeInv, TypeOK, ReqType, RowType, CallType
<1>4. ASSUME NEW r \in Requests, Timeout(r) PROVE TypeInv'
  <2>1. /\ UNCHANGED <<woken, rows, mem, order, toDevice, calls, faults, answered, guessed, mixed>>
        /\ Popped(r)
        /\ req' = [req EXCEPT ![r].st = "failed"]
        /\ skipped' = IF data[Target[r]] = None THEN skipped ELSE skipped \cup {r}
        /\ r \in Captures
    BY <1>4, <1>t DEF Timeout, rowVars, OnlyCapturesWait
  <2>2. req' \in [Requests -> ReqType]
    BY <1>t, <2>1 DEF ReqType
  <2>3. waiter' \in [Devices -> Captures \cup {None}] /\ data' \in [Devices -> Pictures]
    BY <1>t, <2>1 DEF Popped, Pictures
  <2>4. skipped' \in SUBSET Captures
    BY <1>t, <2>1
  <2>5. CallsTrue'
    BY <1>t, <2>1 DEF CallsTrue, CallbackTrue
  <2>6. OnlyCapturesWait'
    BY <1>t, <2>1 DEF OnlyCapturesWait, ReqType
  <2>7. QED
    BY <1>t, <1>u, <2>1, <2>2, <2>3, <2>4, <2>5, <2>6
       DEF TypeInv, TypeOK, ReqType, RowType, CallType
<1>5. ASSUME NEW d \in Devices, Answer(d) PROVE TypeInv'
  <2>1. /\ toDevice[d] # <<>> /\ toDevice' = [toDevice EXCEPT ![d] = Tail(@)]
        /\ UNCHANGED <<req, waiter, data, woken, rows, mem, order, guessed, mixed, skipped>>
    BY <1>5 DEF Answer, loopVars, rowVars
  <2>2. /\ toDevice[d] \in Seq(Requests) /\ Head(toDevice[d]) \in Requests
        /\ Tail(toDevice[d]) \in Seq(Requests)
    BY <1>t, <2>1
  <2>r. PICK r \in Requests : r = Head(toDevice[d])
    BY <2>2
  <2>3. PICK F \in {{}, {"lost"}} \cup IF r \in Captures THEN {{"upload"}} ELSE {} :
          /\ Fail(F)
          /\ calls' = IF "lost" \in F THEN calls
                      ELSE calls \cup {[dev |-> d, snapshot |-> r \in Captures,
                                        req |-> IF Kind[r] = "reboot" THEN None ELSE r,
                                        url |-> CASE r \notin Captures -> None
                                                  [] F = {"upload"}    -> Empty
                                                  [] OTHER             -> Picture(r)]}
          /\ answered' = answered \cup IF "lost" \in F THEN {} ELSE {r}
    BY <1>5, <2>r DEF Answer
  <2>4. F \in SUBSET FaultNames
    BY <2>3 DEF FaultNames
  <2>5. faults' \in 0..MaxFaults
    BY <1>t, <2>3, <2>4, FailType
  <2> DEFINE m == [dev |-> d, snapshot |-> r \in Captures,
                   req |-> IF Kind[r] = "reboot" THEN None ELSE r,
                   url |-> CASE r \notin Captures -> None
                             [] F = {"upload"}    -> Empty
                             [] OTHER             -> Picture(r)]
  <2>6. calls' = calls \/ (calls' = calls \cup {m} /\ r \in answered')
    BY <2>3
  <2>7. m \in CallType
    <3>1. CASE r \in Captures
      <4>1. m.url \in {r, Empty} /\ m.req \in {r, None}
        BY <3>1 DEF Picture
      <4>2. (r \in Captures) = TRUE
        BY <3>1
      <4>3. m = [dev |-> d, snapshot |-> TRUE, req |-> m.req, url |-> m.url]
        BY <4>2
      <4>4. QED
        BY <2>2, <3>1, <4>1, <4>3 DEF CallType, Pictures
    <3>2. CASE r \notin Captures
      <4>1. m.url = None /\ m.req \in {r, None}
        BY <3>2
      <4>2. (r \in Captures) = FALSE
        BY <3>2
      <4>3. m = [dev |-> d, snapshot |-> FALSE, req |-> m.req, url |-> m.url]
        BY <4>2
      <4>4. QED
        BY <2>2, <4>1, <4>3 DEF CallType, Pictures
    <3>3. QED
      BY <3>1, <3>2
  <2>8. /\ m.dev = d
        /\ m.snapshot <=> r \in Captures
        /\ m.req \in {r, None} /\ (r \in Captures => m.req = r)
        /\ r \in Captures => m.url \in {r, Empty}
    BY DEF Picture, Captures
  <2>9. Target[r] = d
    <3>1. 1 \in DOMAIN toDevice[d] /\ r = toDevice[d][1]
      BY <2>1, <2>2, <2>r
    <3>2. QED
      BY <1>o, <3>1 DEF CommandsTravel
  <2>10. answered \subseteq answered' /\ answered' \in SUBSET Requests
    BY <1>t, <2>2, <2>3
  <2>11. CallsTrue'
    <3>1. \A c \in calls : CallbackTrue(c)'
      BY <1>t, <2>10 DEF CallbackTrue
    <3>2. r \in answered' => CallbackTrue(m)'
      <4> HIDE DEF m
      <4>1. QED
        BY <2>2, <2>8, <2>9, Values DEF CallbackTrue
    <3> HIDE DEF m
    <3>3. QED
      BY <2>6, <3>1, <3>2 DEF CallsTrue
  <2>12. toDevice' \in [Devices -> Seq(Requests)] /\ CommandsTravel'
    <3>1. \A i \in DOMAIN Tail(toDevice[d]) : Target[Tail(toDevice[d])[i]] = d
      BY <1>o, <2>1, <2>2 DEF CommandsTravel
    <3>2. toDevice' \in [Devices -> Seq(Requests)]
      BY <1>t, <2>1, <2>2
    <3>3. CommandsTravel'
      BY <1>o, <1>t, <2>1, <3>1 DEF CommandsTravel
    <3>4. QED
      BY <3>2, <3>3
  <2>13. OnlyCapturesWait'
    BY <1>t, <2>1 DEF OnlyCapturesWait
  <2>14. calls' \in SUBSET CallType
    BY <1>t, <2>6, <2>7
  <2>15. QED
    BY <1>t, <2>1, <2>5, <2>10, <2>11, <2>12, <2>13, <2>14
       DEF TypeInv, TypeOK, ReqType, RowType, CallType
<1>6. ASSUME NEW m \in calls, SnapshotCallback(m) PROVE TypeInv'
  <2>1. /\ UNCHANGED <<req, waiter, mem, order, toDevice, answered, mixed>>
        /\ m.snapshot /\ calls' = calls \ {m}
    BY <1>6 DEF SnapshotCallback
  <2>2. m \in CallType /\ m.req \in Captures /\ m.dev \in Devices /\ m.url \in Pictures
    BY <1>t, <2>1 DEF CallbackTrue, CallType
  <2>3. data' \in [Devices -> Pictures]
    <3>1. data' = data \/ data' = [data EXCEPT ![m.dev] = m.url]
      BY <1>6 DEF SnapshotCallback
    <3>2. QED
      BY <1>t, <2>2, <3>1
  <2>4. woken' \in SUBSET Captures
    <3>1. woken' = woken \/ (waiter[m.dev] # None /\ woken' = woken \cup {waiter[m.dev]})
      BY <1>6 DEF SnapshotCallback
    <3>2. QED
      BY <1>t, <2>2, <3>1
  <2>5. /\ rows' \in [Requests -> RowType]
        /\ guessed' \in SUBSET Requests
    <3>1. \/ rows' = rows /\ guessed' = guessed
          \/ Marks(m.req, m.url) /\ guessed' = guessed
          \/ Guess(Requests \ mem, m.dev, m.url)
      BY <1>6 DEF SnapshotCallback
    <3>2. QED
      BY <1>o, <1>t, <2>2, <3>1, MarksType, GuessType, Values
  <2>6. faults' \in 0..MaxFaults /\ skipped' \in SUBSET Captures
    <3>1. \/ faults' = faults /\ skipped' = skipped
          \/ Fail({"update"}) /\ skipped' = skipped \cup {m.req}
      BY <1>6 DEF SnapshotCallback
    <3>2. {"update"} \in SUBSET FaultNames
      BY DEF FaultNames
    <3>3. QED
      BY <1>t, <2>2, <3>1, <3>2, FailType
  <2>7. CallsTrue' /\ OnlyCapturesWait'
    BY <1>t, <2>1 DEF CallsTrue, CallbackTrue, OnlyCapturesWait
  <2>8. QED
    BY <1>t, <1>u, <2>1, <2>3, <2>4, <2>5, <2>6, <2>7
       DEF TypeInv, TypeOK, ReqType, RowType, CallType
<1>7. ASSUME NEW m \in calls, CommandCallback(m) PROVE TypeInv'
  <2>1. /\ UNCHANGED <<req, waiter, data, woken, mem, order, toDevice, answered, mixed, skipped>>
        /\ calls' = calls \ {m}
    BY <1>7 DEF CommandCallback, loopVars
  <2>2. m \in CallType /\ m.req \in Requests \cup {None} /\ None \in Pictures
    BY <1>t DEF CallType, Pictures
  <2>3. PICK F \in SUBSET {"update", "guess"} :
          /\ Fail(F)
          /\ \/ m.req # None /\ Marks(m.req, None) /\ guessed' = guessed
             \/ rows' = rows /\ guessed' = guessed
             \/ \E S \in SUBSET Requests : Guess(S, m.dev, None)
    <3>1. mem \in SUBSET Requests /\ Requests \ mem \in SUBSET Requests
      BY <1>t
    <3>2. QED
      BY <1>7, <3>1 DEF CommandCallback, ById
  <2>4. faults' \in 0..MaxFaults
    <3>1. F \in SUBSET FaultNames
      BY DEF FaultNames
    <3>2. QED
      BY <1>t, <2>3, <3>1, FailType
  <2>5. /\ rows' \in [Requests -> RowType]
        /\ guessed' \in SUBSET Requests
    <3>1. CASE m.req # None /\ Marks(m.req, None) /\ guessed' = guessed
      BY <1>o, <1>t, <2>2, <3>1, MarksType
    <3>2. CASE \E S \in SUBSET Requests : Guess(S, m.dev, None)
      BY <1>o, <2>2, <3>2, GuessType
    <3>3. QED
      BY <1>t, <2>3, <3>1, <3>2
  <2>6. CallsTrue' /\ OnlyCapturesWait'
    BY <1>t, <2>1 DEF CallsTrue, CallbackTrue, OnlyCapturesWait
  <2>7. QED
    BY <1>t, <1>u, <2>1, <2>4, <2>5, <2>6
       DEF TypeInv, TypeOK, ReqType, RowType, CallType
<1>8. CASE UNCHANGED vars
  <2>1. TypeOK' = TypeOK
    BY <1>8 DEF TypeOK, vars, loopVars, rowVars, history
  <2>2. CallsTrue' /\ OnlyCapturesWait'
    BY <1>t, <1>8 DEF CallsTrue, CallbackTrue, OnlyCapturesWait, vars, loopVars, rowVars, history
  <2>3. QED
    BY <1>8, <1>o, <1>u, <2>1, <2>2 DEF TypeInv, vars
<1>9. QED
  BY <1>1, <1>2, <1>3, <1>4, <1>5, <1>6, <1>7, <1>8 DEF Next

(* Every variable keeps its type (device_snapshot_service.py, commands.py).      *)
THEOREM TypeCorrect == Spec => []TypeOK
BY TypeInit, TypeStep, PTL DEF Spec, TypeInv

--------------------------------------------------------------------------------
(* The pictures. *)

(* SnapshotInv holds at the start.                                              *)
LEMMA SnapshotInit == Init => SnapshotInv /\ SuccessTrue
<1> SUFFICES ASSUME Init PROVE SnapshotInv /\ SuccessTrue
  OBVIOUS
<1>1. /\ \A r \in Requests : req[r].st = "idle" /\ rows[r].st = "none"
      /\ \A d \in Devices : waiter[d] = None /\ data[d] = None
      /\ guessed = {}
  BY DEF Init
<1>2. DataTrue /\ RivalsNoted /\ WaitersWait /\ OwnPicture
  BY <1>1, Values DEF DataTrue, RivalsNoted, WaitersWait, OwnPicture
<1>3. SuccessTrue
  BY <1>1 DEF SuccessTrue, SuccessAnswered, GuessStaysHome
<1>4. QED
  BY <1>2, <1>3 DEF SnapshotInv

(* Sending puts nothing but the command itself under way. *)
LEMMA UnderWayDelivers ==
  ASSUME TypeOK, NEW r \in Requests, NEW F, Delivers(r, F), calls' = calls,
         NEW s \in Requests, UnderWay(s)'
  PROVE  UnderWay(s) \/ s = r
<1>1. toDevice \in [Devices -> Seq(Requests)] /\ Target[r] \in Devices /\ Target[s] \in Devices
  BY Values DEF TypeOK
<1>2. CASE \E m \in calls' : m.req = s
  BY <1>2 DEF UnderWay
<1>3. CASE \E i \in DOMAIN toDevice'[Target[s]] : toDevice'[Target[s]][i] = s
  <2>1. CASE toDevice'[Target[s]] = toDevice[Target[s]]
    BY <1>3, <2>1 DEF UnderWay
  <2>2. CASE toDevice'[Target[s]] = Append(toDevice[Target[s]], r)
    <3>1. PICK i \in DOMAIN Append(toDevice[Target[s]], r) : Append(toDevice[Target[s]], r)[i] = s
      BY <1>3, <2>2
    <3>2. toDevice[Target[s]] \in Seq(Requests)
      BY <1>1
    <3>3. i \in DOMAIN toDevice[Target[s]] \/ s = r
      BY <3>1, <3>2
    <3>4. QED
      BY <3>1, <3>2, <3>3 DEF UnderWay
  <2>3. QED
    BY <1>1, <2>1, <2>2 DEF Delivers
<1>4. QED
  BY <1>2, <1>3 DEF UnderWay

(* An answer is under way as its command was. *)
LEMMA UnderWayAnswer ==
  ASSUME TypeInv, NEW d \in Devices, Answer(d), NEW s \in Requests, UnderWay(s)'
  PROVE  UnderWay(s)
<1>1. toDevice[d] # <<>> /\ toDevice' = [toDevice EXCEPT ![d] = Tail(@)]
  BY DEF Answer
<1>2. toDevice \in [Devices -> Seq(Requests)] /\ Target[s] \in Devices /\ toDevice[d] \in Seq(Requests)
  BY Values DEF TypeInv, TypeOK
<1>3. CASE \E i \in DOMAIN toDevice'[Target[s]] : toDevice'[Target[s]][i] = s
  <2>1. CASE Target[s] # d
    BY <1>1, <1>2, <1>3, <2>1 DEF UnderWay
  <2>2. CASE Target[s] = d
    <3>1. PICK i \in DOMAIN Tail(toDevice[d]) : Tail(toDevice[d])[i] = s
      BY <1>1, <1>2, <1>3, <2>2
    <3>2. i + 1 \in DOMAIN toDevice[d] /\ toDevice[d][i + 1] = s
      BY <1>1, <1>2, <3>1
    <3>3. QED
      BY <2>2, <3>2 DEF UnderWay
  <2>3. QED
    BY <2>1, <2>2
<1>4. CASE \E m \in calls' : m.req = s
  <2>1. PICK m \in calls' : m.req = s
    BY <1>4
  <2>2. CASE m \in calls
    BY <2>1, <2>2 DEF UnderWay
  <2>3. CASE m \notin calls
    <3>1. m.req = IF Kind[Head(toDevice[d])] = "reboot" THEN None ELSE Head(toDevice[d])
      BY <2>1, <2>3 DEF Answer
    <3>2. s = Head(toDevice[d])
      BY <2>1, <3>1, Values
    <3>3. 1 \in DOMAIN toDevice[d] /\ toDevice[d][1] = s
      BY <1>1, <1>2, <3>2
    <3>4. Target[s] = d
      BY <3>3 DEF TypeInv, CommandsTravel
    <3>5. QED
      BY <3>3, <3>4 DEF UnderWay
  <2>4. QED
    BY <2>2, <2>3
<1>5. QED
  BY <1>3, <1>4 DEF UnderWay

(* SnapshotInv is inductive.                                                    *)
LEMMA SnapshotStep == TypeInv /\ SnapshotInv /\ [Next]_vars => SnapshotInv'
<1> SUFFICES ASSUME TypeInv, SnapshotInv, [Next]_vars PROVE SnapshotInv'
  OBVIOUS
<1>t. /\ req \in [Requests -> ReqType]
      /\ waiter \in [Devices -> Captures \cup {None}] /\ data \in [Devices -> Pictures]
      /\ woken \in SUBSET Captures /\ mixed \in SUBSET Captures
      /\ \A m \in calls : CallbackTrue(m) /\ m.dev \in Devices
      /\ OnlyCapturesWait
  BY DEF TypeInv, TypeOK, CallsTrue, ReqType
<1>o. TypeOK
  BY DEF TypeInv
<1>i. DataTrue /\ RivalsNoted /\ WaitersWait /\ OwnPicture
  BY DEF SnapshotInv
<1>v. /\ None \notin Captures /\ Empty \notin Captures /\ Captures \subseteq Requests
      /\ \A r \in Captures : Target[r] \in Devices
  BY Values
(* What leaves the waiters, the pictures and the captures alone, or forgets some. *)
<1>q. ASSUME UNCHANGED <<waiter, data, mixed>>, woken' = woken, answered \subseteq answered',
             \A x \in Captures : req'[x] = req[x],
             \A s \in Captures : UnderWay(s)' => UnderWay(s)
      PROVE  SnapshotInv'
  <2>1. DataTrue' /\ RivalsNoted'
    BY <1>i, <1>q, <1>v DEF DataTrue, RivalsNoted
  <2>2. \A d \in Devices : waiter[d] # None => req'[waiter[d]] = req[waiter[d]]
    BY <1>t, <1>q
  <2>3. WaitersWait'
    BY <1>i, <1>q, <2>2 DEF WaitersWait
  <2>4. OwnPicture'
    BY <1>i, <1>q DEF OwnPicture
  <2>5. QED
    BY <2>1, <2>3, <2>4 DEF SnapshotInv
<1>1. ASSUME NEW r \in Requests, RequestSnapshot(r) PROVE SnapshotInv'
  <2>1. PICK F \in SendFaults :
          /\ Delivers(r, F)
          /\ IF Raises(F) THEN Popped(r) ELSE Registered(r)
          /\ req' = [req EXCEPT ![r].st = IF Raises(F) THEN "failed" ELSE "waiting"]
    BY <1>1 DEF RequestSnapshot
  <2>2. /\ UNCHANGED <<woken, calls, answered>> /\ r \in Captures /\ req[r].st = "idle"
        /\ mixed' = IF Rivals(r) = {} THEN mixed ELSE mixed \cup Rivals(r) \cup {r}
    BY <1>1 DEF RequestSnapshot
  <2>3. /\ \A x \in Requests : x # r => req'[x] = req[x]
        /\ req'[r].st \in {"failed", "waiting"}
        /\ \A d \in Devices : d # Target[r] => waiter'[d] = waiter[d] /\ data'[d] = data[d]
        /\ data'[Target[r]] = None
        /\ waiter'[Target[r]] # None => waiter'[Target[r]] = r /\ req'[r].st = "waiting"
    <3>1. CASE Raises(F)
      BY <1>t, <1>v, <2>1, <2>2, <3>1 DEF Popped, ReqType
    <3>2. CASE ~Raises(F)
      BY <1>t, <1>v, <2>1, <2>2, <3>2 DEF Registered, ReqType
    <3>3. QED
      BY <3>1, <3>2
  <2>4. \A s \in Captures : UnderWay(s)' => UnderWay(s) \/ s = r
    BY <1>o, <1>v, <2>1, <2>2, UnderWayDelivers
  <2>5. DataTrue'
    BY <1>i, <1>v, <2>2, <2>3 DEF DataTrue
  <2>6. WaitersWait'
    <3> SUFFICES ASSUME NEW d \in Devices
                 PROVE  /\ waiter'[d] # None => req'[waiter'[d]].st = "waiting" /\ Target[waiter'[d]] = d
                        /\ data'[d] # None => waiter'[d] \in woken'
      BY DEF WaitersWait
    <3>1. CASE d = Target[r]
      BY <2>3, <3>1
    <3>2. CASE d # Target[r]
      BY <1>i, <1>t, <1>v, <2>2, <2>3, <3>2 DEF WaitersWait
    <3>3. QED
      BY <3>1, <3>2
  <2>7. mixed \subseteq mixed'
    BY <2>2
  <2>8. RivalsNoted'
    <3> SUFFICES ASSUME NEW x \in Captures, NEW s \in Captures \ {x},
                        req'[x].st = "waiting", Target[s] = Target[x],
                        UnderWay(s)' \/ data'[Target[x]] = s
                 PROVE  x \in mixed'
      BY DEF RivalsNoted
    <3>1. CASE x = r
      <4>1. UnderWay(s)
        BY <1>v, <2>3, <2>4, <3>1
      <4>2. s \in Rivals(r)
        BY <3>1, <4>1 DEF Rivals
      <4>3. QED
        BY <2>2, <3>1, <4>2
    <3>2. CASE x # r /\ s = r
      <4>1. x \in Rivals(r)
        BY <1>v, <2>3, <3>2 DEF Rivals
      <4>2. QED
        BY <2>2, <4>1
    <3>3. CASE x # r /\ s # r
      <4>1. req[x].st = "waiting" /\ (UnderWay(s) \/ data[Target[x]] = s)
        BY <1>v, <2>3, <2>4, <3>3
      <4>2. QED
        BY <1>i, <2>7, <4>1 DEF RivalsNoted
    <3>4. QED
      BY <3>1, <3>2, <3>3
  <2>9. OwnPicture'
    BY <1>i, <1>v, <2>3, <2>7 DEF OwnPicture
  <2>10. QED
    BY <2>5, <2>6, <2>8, <2>9 DEF SnapshotInv
<1>2. ASSUME NEW r \in Requests, SendCommand(r) PROVE SnapshotInv'
  <2>1. PICK F \in SendFaults :
          /\ Delivers(r, F)
          /\ req' = [req EXCEPT ![r].st = IF Raises(F) THEN "failed" ELSE "ok"]
    BY <1>2 DEF SendCommand
  <2>2. /\ UNCHANGED <<waiter, data, woken, calls, answered, mixed>> /\ r \notin Captures
    BY <1>2 DEF SendCommand, history
  <2>3. \A x \in Captures : req'[x] = req[x]
    BY <1>t, <1>v, <2>1, <2>2
  <2>4. \A s \in Captures : UnderWay(s)' => UnderWay(s)
    BY <1>o, <1>v, <2>1, <2>2, UnderWayDelivers
  <2>5. QED
    BY <1>q, <2>2, <2>3, <2>4
<1>3. ASSUME NEW r \in Requests, Resume(r) \/ Timeout(r) PROVE SnapshotInv'
  <2>1. /\ UNCHANGED <<woken, toDevice, calls, answered, mixed>>
        /\ Popped(r) /\ req[r].st = "waiting" /\ r \in Captures
    BY <1>3, <1>t DEF Resume, Timeout, rowVars, OnlyCapturesWait
  <2>2. /\ \A d \in Devices : d # Target[r] => waiter'[d] = waiter[d] /\ data'[d] = data[d]
        /\ data'[Target[r]] = None /\ waiter'[Target[r]] = None
    BY <1>t, <1>v, <2>1 DEF Popped
  <2>3. /\ \A x \in Requests : x # r => req'[x] = req[x]
        /\ \/ req'[r].st = "failed"
           \/ req'[r].st = "ok" /\ req'[r].url = data[Target[r]] /\ data[Target[r]] \in Captures
    <3>1. CASE Timeout(r)
      BY <1>t, <3>1 DEF Timeout, ReqType
    <3>2. CASE Resume(r) /\ req' = [req EXCEPT ![r] = [st |-> "failed", url |-> None]]
      BY <1>t, <3>2
    <3>3. CASE /\ data[Target[r]] \notin {None, Empty}
               /\ req' = [req EXCEPT ![r] = [st |-> "ok", url |-> data[Target[r]]]]
      <4>1. data[Target[r]] \in Captures
        BY <1>t, <1>v, <2>1, <3>3 DEF Pictures
      <4>2. QED
        BY <1>t, <3>3, <4>1
    <3>4. QED
      BY <1>3, <3>1, <3>2, <3>3 DEF Resume
  <2>4. \A s \in Captures : UnderWay(s)' <=> UnderWay(s)
    BY <2>1 DEF UnderWay
  <2>5. DataTrue'
    BY <1>i, <1>v, <2>1, <2>2 DEF DataTrue
  <2>6. WaitersWait'
    <3> SUFFICES ASSUME NEW d \in Devices
                 PROVE  /\ waiter'[d] # None => req'[waiter'[d]].st = "waiting" /\ Target[waiter'[d]] = d
                        /\ data'[d] # None => waiter'[d] \in woken'
      BY DEF WaitersWait
    <3>1. CASE d = Target[r]
      BY <2>2, <3>1
    <3>2. CASE d # Target[r]
      BY <1>i, <1>t, <1>v, <2>1, <2>2, <2>3, <3>2 DEF WaitersWait
    <3>3. QED
      BY <3>1, <3>2
  <2>7. RivalsNoted'
    <3> SUFFICES ASSUME NEW x \in Captures, NEW s \in Captures \ {x},
                        req'[x].st = "waiting", Target[s] = Target[x],
                        UnderWay(s)' \/ data'[Target[x]] = s
                 PROVE  x \in mixed
      BY <2>1 DEF RivalsNoted
    <3>1. x # r /\ req[x].st = "waiting"
      BY <1>v, <2>3
    <3>2. UnderWay(s) \/ data[Target[x]] = s
      BY <1>v, <2>2, <2>4
    <3>3. QED
      BY <1>i, <3>1, <3>2 DEF RivalsNoted
  <2>8. OwnPicture'
    <3> SUFFICES ASSUME NEW x \in Captures, req'[x].st = "ok"
                 PROVE  /\ Target[req'[x].url] = Target[x]
                        /\ x \notin mixed => req'[x].url = x
      BY <2>1 DEF OwnPicture
    <3>1. CASE x # r
      BY <1>i, <1>v, <2>3, <3>1 DEF OwnPicture
    <3>2. CASE x = r
      <4>1. req'[r].url = data[Target[r]] /\ data[Target[r]] \in Captures
        BY <2>3, <3>2
      <4>2. Target[data[Target[r]]] = Target[r]
        BY <1>i, <1>v, <2>1, <4>1 DEF DataTrue
      <4>3. r \notin mixed => data[Target[r]] = r
        BY <1>i, <2>1, <4>1, <4>2 DEF RivalsNoted
      <4>4. QED
        BY <3>2, <4>1, <4>2, <4>3
    <3>3. QED
      BY <3>1, <3>2
  <2>9. QED
    BY <2>5, <2>6, <2>7, <2>8 DEF SnapshotInv
<1>4. ASSUME NEW d \in Devices, Answer(d) PROVE SnapshotInv'
  <2>1. UNCHANGED <<req, waiter, data, woken, mixed>> /\ answered \subseteq answered'
    BY <1>4 DEF Answer, loopVars
  <2>2. \A s \in Captures : UnderWay(s)' => UnderWay(s)
    BY <1>4, <1>v, UnderWayAnswer
  <2>3. QED
    BY <1>q, <2>1, <2>2
<1>5. ASSUME NEW m \in calls, SnapshotCallback(m) PROVE SnapshotInv'
  <2>1. /\ UNCHANGED <<req, waiter, toDevice, answered, mixed>>
        /\ m.snapshot /\ calls' = calls \ {m}
        /\ \/ data' = data /\ woken' = woken
           \/ /\ waiter[m.dev] # None
              /\ data' = [data EXCEPT ![m.dev] = m.url]
              /\ woken' = woken \cup {waiter[m.dev]}
    BY <1>5 DEF SnapshotCallback
  <2>2. \A s \in Captures : UnderWay(s)' => UnderWay(s)
    BY <2>1 DEF UnderWay
  <2>3. CASE data' = data /\ woken' = woken
    BY <1>q, <2>1, <2>2, <2>3
  <2>4. CASE /\ waiter[m.dev] # None
             /\ data' = [data EXCEPT ![m.dev] = m.url]
             /\ woken' = woken \cup {waiter[m.dev]}
    <3>1. /\ m.req \in Captures /\ m.url \in {m.req, Empty} /\ m.dev \in Devices
          /\ m.req \in answered /\ Target[m.req] = m.dev
      BY <1>t, <1>v, <2>1 DEF CallbackTrue
    <3>2. \A d \in Devices : data'[d] = IF d = m.dev THEN m.url ELSE data[d]
      BY <1>t, <2>4
    <3>3. DataTrue'
      BY <1>i, <1>v, <2>1, <3>1, <3>2 DEF DataTrue
    <3>4. WaitersWait'
      BY <1>i, <2>1, <2>4, <3>2 DEF WaitersWait
    <3>5. RivalsNoted'
      <4> SUFFICES ASSUME NEW x \in Captures, NEW s \in Captures \ {x},
                          req[x].st = "waiting", Target[s] = Target[x],
                          UnderWay(s)' \/ data'[Target[x]] = s
                   PROVE  x \in mixed
        BY <2>1 DEF RivalsNoted
      <4>1. UnderWay(s) \/ data[Target[x]] = s
        <5>1. CASE UnderWay(s)'
          BY <2>2, <5>1
        <5>2. CASE data'[Target[x]] = s /\ Target[x] = m.dev
          <6>1. m.req = s
            BY <1>v, <3>1, <3>2, <5>2
          <6>2. QED
            BY <6>1 DEF UnderWay
        <5>3. CASE data'[Target[x]] = s /\ Target[x] # m.dev
          BY <1>v, <3>2, <5>3
        <5>4. QED
          BY <5>1, <5>2, <5>3
      <4>2. QED
        BY <1>i, <4>1 DEF RivalsNoted
    <3>6. OwnPicture'
      BY <1>i, <2>1 DEF OwnPicture
    <3>7. QED
      BY <3>3, <3>4, <3>5, <3>6 DEF SnapshotInv
  <2>5. QED
    BY <2>1, <2>3, <2>4
<1>6. ASSUME NEW m \in calls, CommandCallback(m) PROVE SnapshotInv'
  <2>1. /\ UNCHANGED <<req, waiter, data, woken, toDevice, answered, mixed>>
        /\ calls' = calls \ {m}
    BY <1>6 DEF CommandCallback, loopVars
  <2>2. \A s \in Captures : UnderWay(s)' => UnderWay(s)
    BY <2>1 DEF UnderWay
  <2>3. QED
    BY <1>q, <2>1, <2>2
<1>7. CASE UNCHANGED vars
  <2>1. UNCHANGED <<req, waiter, data, woken, mixed, answered, toDevice, calls>>
    BY <1>7 DEF vars, loopVars, history
  <2>2. \A s \in Captures : UnderWay(s)' => UnderWay(s)
    BY <2>1 DEF UnderWay
  <2>3. QED
    BY <1>q, <2>1, <2>2
<1>8. QED
  BY <1>1, <1>2, <1>3, <1>4, <1>5, <1>6, <1>7 DEF Next

(* A caller gets the picture of a capture of its device, and its own unless the *)
(* two were noted as overlapping; only requests that still wait are registered, *)
(* each under its own device (_waiters of device_snapshot_service.py).           *)
THEOREM PicturesBelong == Spec => []PicturesOwned
<1>1. SnapshotInv => PicturesOwned
  BY DEF SnapshotInv, PicturesOwned
<1>2. QED
  BY TypeInit, TypeStep, SnapshotInit, SnapshotStep, <1>1, PTL DEF Spec

--------------------------------------------------------------------------------
(* What command_logs claims. *)

(* SuccessTrue is inductive, given the others.                                  *)
LEMMA SuccessStep == TypeInv /\ SnapshotInv /\ SuccessTrue /\ [Next]_vars => SuccessTrue'
<1> SUFFICES ASSUME TypeInv, SnapshotInv, SuccessTrue, [Next]_vars PROVE SuccessTrue'
  OBVIOUS
<1>t. /\ rows \in [Requests -> RowType] /\ order \in Seq(Requests)
      /\ waiter \in [Devices -> Captures \cup {None}] /\ data \in [Devices -> Pictures]
      /\ \A m \in calls : CallbackTrue(m) /\ m.req \in Requests \cup {None}
      /\ OnlyCapturesWait
  BY DEF TypeInv, TypeOK, CallsTrue, RowType
<1>v. /\ None \notin Captures /\ Empty \notin Captures /\ Captures \subseteq Requests
      /\ \A r \in Captures : Target[r] \in Devices
  BY Values
<1>s. SuccessAnswered /\ GuessStaysHome
  BY DEF SuccessTrue
(* Rows that become a success are answered, or excused. *)
<1>q. ASSUME answered \subseteq answered', mixed \subseteq mixed', guessed \subseteq guessed',
             \A r \in Requests :
               rows'[r].st = "success" => rows[r].st = "success" \/ r \in answered \cup mixed \cup guessed',
             \A r \in guessed' : r \in guessed \/ \E s \in answered : Target[s] = Target[r]
      PROVE  SuccessTrue'
  BY <1>s, <1>q DEF SuccessTrue, SuccessAnswered, GuessStaysHome
(* A row marked by its id, or found by its device. *)
<1>m. ASSUME NEW r \in Requests, NEW url, Marks(r, url)
      PROVE  \A x \in Requests : rows'[x].st = "success" => rows[x].st = "success" \/ x = r
  BY <1>m, <1>t DEF Marks
<1>g. ASSUME NEW S, NEW d, NEW url, Guess(S, d, url), \E s \in answered : Target[s] = d
      PROVE  /\ guessed \subseteq guessed'
             /\ \A x \in Requests : rows'[x].st = "success" => rows[x].st = "success" \/ x \in guessed'
             /\ \A x \in guessed' : x \in guessed \/ \E s \in answered : Target[s] = Target[x]
  <2>1. CASE Open(S, d) = {}
    BY <1>g, <2>1 DEF Guess
  <2>2. CASE Open(S, d) # {}
    <3>1. Latest(Open(S, d)) \in Requests /\ Target[Latest(Open(S, d))] = d
      BY <1>t, <2>2, LatestFacts
    <3>2. Marks(Latest(Open(S, d)), url) /\ guessed' = guessed \cup {Latest(Open(S, d))}
      BY <1>g, <2>2 DEF Guess
    <3>3. \A x \in Requests : rows'[x].st = "success" => rows[x].st = "success" \/ x = Latest(Open(S, d))
      BY <1>m, <3>1, <3>2
    <3>4. QED
      BY <1>g, <3>1, <3>2, <3>3
  <2>3. QED
    BY <2>1, <2>2
<1>1. ASSUME NEW r \in Requests, RequestSnapshot(r) PROVE SuccessTrue'
  <2>1. /\ UNCHANGED <<answered, guessed>> /\ mixed \subseteq mixed'
        /\ rows' = rows \/ rows' = [rows EXCEPT ![r].st = "pending"]
    BY <1>1 DEF RequestSnapshot
  <2>2. \A x \in Requests : rows'[x].st = "success" => rows[x].st = "success"
    BY <1>t, <2>1 DEF RowType
  <2>3. QED
    BY <1>q, <2>1, <2>2
<1>2. ASSUME NEW r \in Requests, SendCommand(r) PROVE SuccessTrue'
  <2>1. /\ UNCHANGED <<answered, guessed, mixed>>
        /\ rows' = rows \/ \E F : rows' = [rows EXCEPT ![r].st = SendStatus(F)]
    BY <1>2 DEF SendCommand, history
  <2>2. \A x \in Requests : rows'[x].st = "success" => rows[x].st = "success"
    BY <1>t, <2>1 DEF RowType, SendStatus
  <2>3. QED
    BY <1>q, <2>1, <2>2
<1>3. ASSUME NEW r \in Requests, Resume(r) PROVE SuccessTrue'
  <2>1. /\ UNCHANGED <<answered, guessed, mixed>> /\ req[r].st = "waiting" /\ r \in Captures
        /\ \/ rows' = rows
           \/ /\ data[Target[r]] \notin {None, Empty}
              /\ rows' = [rows EXCEPT ![r] = [st |-> "success", url |-> data[Target[r]]]]
    BY <1>3, <1>t DEF Resume, OnlyCapturesWait
  <2>2. data[Target[r]] \notin {None, Empty} => r \in answered \cup mixed
    <3> SUFFICES ASSUME data[Target[r]] \notin {None, Empty}, r \notin mixed PROVE r \in answered
      OBVIOUS
    <3>1. data[Target[r]] \in Captures
      BY <1>t, <1>v, <2>1 DEF Pictures
    <3>2. data[Target[r]] \in answered /\ Target[data[Target[r]]] = Target[r]
      BY <1>v, <2>1, <3>1 DEF SnapshotInv, DataTrue
    <3>3. data[Target[r]] = r
      BY <2>1, <3>1, <3>2 DEF SnapshotInv, RivalsNoted
    <3>4. QED
      BY <3>2, <3>3
  <2>3. \A x \in Requests : rows'[x].st = "success" =>
          rows[x].st = "success" \/ x \in answered \cup mixed
    BY <1>t, <2>1, <2>2
  <2>4. QED
    BY <1>q, <2>1, <2>3
<1>4. ASSUME NEW r \in Requests, Timeout(r) PROVE SuccessTrue'
  BY <1>4, <1>q DEF Timeout, rowVars
<1>5. ASSUME NEW d \in Devices, Answer(d) PROVE SuccessTrue'
  <2>1. UNCHANGED <<rows, guessed, mixed>> /\ answered \subseteq answered'
    BY <1>5 DEF Answer, rowVars
  <2>2. QED
    BY <1>q, <2>1
<1>6. ASSUME NEW m \in calls, SnapshotCallback(m) PROVE SuccessTrue'
  <2>1. /\ UNCHANGED <<answered, mixed>> /\ m.req \in answered /\ m.req \in Requests
        /\ \E s \in answered : Target[s] = m.dev
    BY <1>6, <1>t, <1>v DEF SnapshotCallback, CallbackTrue
  <2>2. \/ rows' = rows /\ guessed' = guessed
        \/ Marks(m.req, m.url) /\ guessed' = guessed
        \/ Guess(Requests \ mem, m.dev, m.url)
    BY <1>6 DEF SnapshotCallback
  <2>3. CASE rows' = rows /\ guessed' = guessed
    BY <1>q, <2>1, <2>3
  <2>4. CASE Marks(m.req, m.url) /\ guessed' = guessed
    <3>1. \A x \in Requests : rows'[x].st = "success" => rows[x].st = "success" \/ x = m.req
      BY <1>m, <2>1, <2>4
    <3>2. QED
      BY <1>q, <2>1, <2>4, <3>1
  <2>5. CASE Guess(Requests \ mem, m.dev, m.url)
    <3>1. /\ guessed \subseteq guessed'
          /\ \A x \in Requests : rows'[x].st = "success" => rows[x].st = "success" \/ x \in guessed'
          /\ \A x \in guessed' : x \in guessed \/ \E s \in answered : Target[s] = Target[x]
      BY <1>g, <2>1, <2>5
    <3>2. QED
      BY <1>q, <2>1, <3>1
  <2>6. QED
    BY <2>2, <2>3, <2>4, <2>5
<1>7. ASSUME NEW m \in calls, CommandCallback(m) PROVE SuccessTrue'
  <2>1. /\ UNCHANGED <<answered, mixed>> /\ CallbackTrue(m) /\ m.req \in Requests \cup {None}
        /\ \E s \in answered : Target[s] = m.dev
    BY <1>7, <1>t DEF CommandCallback, CallbackTrue
  <2>2. \/ m.req # None /\ Marks(m.req, None) /\ guessed' = guessed
        \/ rows' = rows /\ guessed' = guessed
        \/ \E S : Guess(S, m.dev, None)
    BY <1>7 DEF CommandCallback, ById
  <2>3. CASE m.req # None /\ Marks(m.req, None) /\ guessed' = guessed
    <3>1. m.req \in Requests /\ m.req \in answered
      BY <2>1, <2>3 DEF CallbackTrue
    <3>2. \A x \in Requests : rows'[x].st = "success" => rows[x].st = "success" \/ x = m.req
      BY <1>m, <2>3, <3>1
    <3>3. QED
      BY <1>q, <2>1, <2>3, <3>1, <3>2
  <2>4. CASE \E S : Guess(S, m.dev, None)
    <3>1. /\ guessed \subseteq guessed'
          /\ \A x \in Requests : rows'[x].st = "success" => rows[x].st = "success" \/ x \in guessed'
          /\ \A x \in guessed' : x \in guessed \/ \E s \in answered : Target[s] = Target[x]
      BY <1>g, <2>1, <2>4
    <3>2. QED
      BY <1>q, <2>1, <3>1
  <2>5. CASE rows' = rows /\ guessed' = guessed
    BY <1>q, <2>1, <2>5
  <2>6. QED
    BY <2>2, <2>3, <2>4, <2>5
<1>8. CASE UNCHANGED vars
  BY <1>8, <1>q DEF vars, rowVars, history
<1>9. QED
  BY <1>1, <1>2, <1>3, <1>4, <1>5, <1>6, <1>7, <1>8 DEF Next

(* A row of command_logs says success only for a command whose answer left its   *)
(* device, unless the row was guessed or its capture overlapped another; and a   *)
(* guess never leaves the device that answered (update_command_status).          *)
THEOREM SuccessClaims == Spec => []SuccessTrue
<1>1. Init => SuccessTrue
  BY SnapshotInit
<1>2. QED
  BY TypeInit, TypeStep, SnapshotInit, SnapshotStep, SuccessStep, <1>1, PTL DEF Spec

================================================================================
