---------------------------- MODULE PlayLogs_proofs ----------------------------
(* Theorems of PlayLogs, for any logs, batch limit and number of faults: its     *)
(* types, what becomes of every log, and that it implements LogLedger.           *)
EXTENDS PlayLogs, FiniteSetTheorems, SequenceTheorems, TLAPS

(* A consumer that is down remembers nothing, and polled messages are held only *)
(* until there is a database connection.                                        *)
ConsumerShape ==
  /\ consumer.st = "down" => batch = {} /\ todo = {}
  /\ consumer.st # "fetched" => fetched = {}

TypeInv == TypeOK /\ ConsumerShape

(* A fault is counted.                                                        *)
LEMMA FaultsCount == ASSUME NEW f, Happens(f), faults \in Nat
                     PROVE  faults' \in Nat /\ harmed' \in BOOLEAN
BY DEF Happens

(* What is rolled back were logs.                                             *)
LEMMA RollBackType ==
  ASSUME undone \in SUBSET Logs, uploaded \in SUBSET Logs, RollBack,
         pending \in [rows : SUBSET Logs, marks : SUBSET Logs]
  PROVE  /\ undone' \in SUBSET Logs /\ uploaded' \in SUBSET Logs
         /\ pending' \in [rows : SUBSET Logs, marks : SUBSET Logs]
BY DEF RollBack, Nothing

(* What joins a transaction.                                                  *)
LEMMA JoinsType ==
  ASSUME pending \in [rows : SUBSET Logs, marks : SUBSET Logs],
         NEW R \in SUBSET Logs, NEW M \in SUBSET Logs, Joins(R, M)
  PROVE  pending' \in [rows : SUBSET Logs, marks : SUBSET Logs]
BY DEF Joins

(* The logs of a sequence of batches.                                         *)
LEMMA UnionType == ASSUME NEW S, NEW q \in Seq(SUBSET S) PROVE Union(q) \in SUBSET S
BY DEF Union

(* The oldest waiting rows of the player's table are logs.                    *)
LEMMA OldestType == table \in Seq(Logs) => Oldest \in SUBSET Logs
BY DEF Oldest, Waiting

(* What the topic holds at some offsets.                                      *)
LEMMA LogsAtType == ASSUME topic \in Seq(Logs), NEW S PROVE LogsAt(S) \in SUBSET Logs
BY DEF LogsAt

(* What is lost with a link.                                                  *)
LEMMA LoseWireType ==
  ASSUME wire \in Seq(SUBSET Logs), dropped \in SUBSET Logs, NEW n \in 0..Len(wire), LoseWire(n)
  PROVE  /\ link' \in BOOLEAN
         /\ wire' \in Seq(SUBSET Logs)
         /\ dropped' \in SUBSET Logs
<1>1. SubSeq(wire, 1, n) \in Seq(SUBSET Logs)
  BY SubSeqProperties
<1>2. SubSeq(wire, n + 1, Len(wire)) \in Seq(SUBSET Logs)
  BY SubSeqProperties
<1>3. QED
  BY <1>1, <1>2, UnionType DEF LoseWire

(* The types hold at the start.                                               *)
LEMMA TypeInit == Init => TypeInv
<1> USE PlayLogConstants
<1> SUFFICES ASSUME Init PROVE TypeInv
  OBVIOUS
<1> USE DEF Init
<1>1. /\ table \in Seq(Logs) /\ wire \in Seq(SUBSET Logs) /\ topic \in Seq(Logs)
      /\ Len(topic) = 0
  OBVIOUS
<1>2. sender \in [st : {"idle", "selected", "sent", "stopped"}, logs : SUBSET Logs]
  BY DEF Init
<1>3. consumer \in [st : {"down", "dead", "polling", "fetched", "inserting"}, running : BOOLEAN]
  OBVIOUS
<1>4. committed \in 0..position /\ position \in 0..Len(topic)
  BY <1>1
<1>5. /\ uploaded \in SUBSET Logs /\ gw \in SUBSET Logs /\ stored \in SUBSET Logs
      /\ dropped \in SUBSET Logs /\ faults \in Nat /\ harmed \in BOOLEAN
      /\ undone \in SUBSET Logs
      /\ fetched \in SUBSET (1..position) /\ batch \in SUBSET (1..position)
      /\ todo \in SUBSET batch
  OBVIOUS
<1>6. ConsumerShape
  BY DEF ConsumerShape
<1>7. provider \in Providers /\ kafka \in BOOLEAN /\ link \in BOOLEAN
  OBVIOUS
<1>8. pending \in [rows : SUBSET Logs, marks : SUBSET Logs]
  BY DEF Nothing
<1>9. QED
  BY <1>1, <1>2, <1>3, <1>4, <1>5, <1>6, <1>7, <1>8 DEF TypeInv, TypeOK

(* Every step keeps the types.                                                *)
LEMMA TypeStep == TypeInv /\ [Next]_vars => TypeInv'
<1> USE PlayLogConstants
<1> SUFFICES ASSUME TypeInv, [Next]_vars PROVE TypeInv'
  OBVIOUS
<1> USE DEF TypeInv, TypeOK, ConsumerShape, setup, txVars, fileVars, edgeVars, netVars,
            consumerVars, history
<1>0. \A f : Happens(f) => faults' \in Nat /\ harmed' \in BOOLEAN
  BY FaultsCount
<1>1. ASSUME NEW l \in Logs, LogPlay(l) PROVE TypeInv'
  <2>1. pending' \in [rows : SUBSET Logs, marks : SUBSET Logs]
    BY <1>1, JoinsType DEF LogPlay
  <2>2. table' \in Seq(Logs)
    BY <1>1 DEF LogPlay, Inserted
  <2>3. /\ UNCHANGED <<setup, uploaded, undone, sender, netVars, gw, topic, consumerVars>>
        /\ UNCHANGED <<dropped, history>>
    BY <1>1 DEF LogPlay
  <2>4. QED
    BY <2>1, <2>2, <2>3
<1>24. ASSUME NEW l \in Logs, LogFault(l) PROVE TypeInv'
  BY <1>24 DEF LogFault, Inserted
<1>25. CASE CommitTx
  BY <1>25 DEF CommitTx, Nothing
<1>26. CASE RollBackTx
  BY <1>0, <1>26, RollBackType DEF RollBackTx
<1>2. CASE SelectLogs
  BY <1>2, OldestType DEF SelectLogs
<1>3. CASE SendLogs
  <2>1. CASE link /\ wire' = Append(wire, sender.logs) /\ sender' = [sender EXCEPT !.st = "sent"]
    <3>1. sender' = [st |-> "sent", logs |-> sender.logs]
      BY <2>1
    <3>2. QED
      <4>1. wire' \in Seq(SUBSET Logs)
        BY <2>1
      <4>2. UNCHANGED <<setup, fileVars, link, gw, topic, consumerVars, dropped, history>>
        BY <1>3 DEF SendLogs
      <4>3. QED
        BY <3>1, <4>1, <4>2
  <2>2. CASE ~link /\ sender' = [st |-> "stopped", logs |-> {}] /\ UNCHANGED wire
    BY <1>3, <2>2 DEF SendLogs
  <2>3. QED
    BY <1>3, <2>1, <2>2 DEF SendLogs
<1>4. CASE OnSuccess
  <2>1. uploaded' \in SUBSET Logs
    BY <1>4 DEF OnSuccess, MarkSent
  <2>2. pending' \in [rows : SUBSET Logs, marks : SUBSET Logs]
    <3>1. CASE UNCHANGED pending
      BY <3>1
    <3>2. CASE uploaded' = MarkSent /\ Joins({}, MarkSent \ uploaded)
      BY <2>1, <3>2, JoinsType
    <3>3. QED
      BY <1>4, <3>1, <3>2 DEF OnSuccess
  <2>3. faults' \in Nat /\ harmed' \in BOOLEAN
    BY <1>0, <1>4 DEF OnSuccess
  <2>4. sender' \in [st : {"idle", "selected", "sent", "stopped"}, logs : SUBSET Logs]
    BY <1>4 DEF OnSuccess
  <2>5. UNCHANGED <<setup, table, undone, netVars, gw, topic, consumerVars, dropped>>
    BY <1>4 DEF OnSuccess
  <2>6. QED
    BY <2>1, <2>2, <2>3, <2>4, <2>5
<1>5. CASE Reconnect
  BY <1>5 DEF Reconnect
<1>6. CASE LinkBreaks
  BY <1>0, <1>6, LoseWireType DEF LinkBreaks
<1>7. CASE EdgeCrash
  <2>1. link' \in BOOLEAN /\ wire' \in Seq(SUBSET Logs) /\ dropped' \in SUBSET Logs
    BY <1>7, LoseWireType DEF EdgeCrash
  <2>2. /\ table' \in Seq(Logs) /\ undone' \in SUBSET Logs /\ uploaded' \in SUBSET Logs
        /\ pending' \in [rows : SUBSET Logs, marks : SUBSET Logs]
    BY <1>7, RollBackType DEF EdgeCrash, PlayerDies
  <2>3. faults' \in Nat /\ harmed' \in BOOLEAN
    BY <1>0, <1>7 DEF EdgeCrash
  <2>4. sender' = [st |-> "idle", logs |-> {}] /\ UNCHANGED <<setup, gw, topic, consumerVars>>
    BY <1>7 DEF EdgeCrash
  <2>5. QED
    BY <2>1, <2>2, <2>3, <2>4
<1>27. CASE PlayerCrash
  BY <1>0, <1>27, RollBackType DEF PlayerCrash, PlayerDies
<1>8. CASE HandleLogReport
  BY <1>8 DEF HandleLogReport
<1>9. ASSUME NEW l \in Logs, ForwardLog(l) PROVE TypeInv'
  <2>1. topic' \in Seq(Logs) /\ Len(topic) <= Len(topic')
    <3>1. topic' = topic \/ topic' = Append(topic, l)
      BY <1>9 DEF ForwardLog
    <3>2. topic \in Seq(Logs)
      OBVIOUS
    <3> HIDE DEF TypeInv, TypeOK, ConsumerShape
    <3>3. QED
      BY <3>1, <3>2
  <2>2. /\ gw' \in SUBSET Logs /\ dropped' \in SUBSET Logs
        /\ faults' \in Nat /\ harmed' \in BOOLEAN
    BY <1>0, <1>9 DEF ForwardLog
  <2>3. UNCHANGED <<setup, edgeVars, netVars, consumerVars>>
    BY <1>9 DEF ForwardLog
  <2>4. QED
    BY <2>1, <2>2, <2>3
<1>10. CASE GatewayCrash
  <2>1. dropped' \in SUBSET Logs
    <3>1. Union(wire) \in SUBSET Logs
      BY UnionType
    <3>2. QED
      BY <1>10, <3>1 DEF GatewayCrash
  <2>2. QED
    <3>1. faults' \in Nat /\ harmed' \in BOOLEAN
      BY <1>0, <1>10 DEF GatewayCrash
    <3>2. link' = FALSE /\ wire' = <<>> /\ gw' = {}
      BY <1>10 DEF GatewayCrash
    <3>3. UNCHANGED <<setup, edgeVars, topic, consumerVars>>
      BY <1>10 DEF GatewayCrash
    <3>4. QED
      <4>1. <<>> \in Seq(SUBSET Logs)
        OBVIOUS
      <4>2. link' \in BOOLEAN /\ wire' \in Seq(SUBSET Logs) /\ gw' \in SUBSET Logs
        BY <3>2, <4>1
      <4>3. QED
        BY <2>1, <3>1, <4>2, <3>3
<1>11. CASE StartConsuming
  <2>1. consumer' \in [st : {"down", "dead", "polling", "fetched", "inserting"}, running : BOOLEAN]
        /\ consumer'.st \in {"polling", "dead"}
    <3>1. \/ consumer' = [st |-> "polling", running |-> TRUE]
          \/ consumer' = [st |-> "dead", running |-> FALSE]
      BY <1>11 DEF StartConsuming
    <3> HIDE DEF TypeInv, TypeOK, ConsumerShape
    <3>2. CASE consumer' = [st |-> "polling", running |-> TRUE]
      BY <3>2
    <3>3. CASE consumer' = [st |-> "dead", running |-> FALSE]
      BY <3>3
    <3>4. QED
      BY <3>1, <3>2, <3>3
  <2>2. faults' \in Nat /\ harmed' \in BOOLEAN
    BY <1>0, <1>11 DEF StartConsuming
  <2>3. /\ position' = committed /\ consumer.st = "down"
        /\ UNCHANGED <<setup, edgeVars, netVars, gw, topic, committed, fetched, batch, todo>>
        /\ UNCHANGED <<stored, dropped>>
    BY <1>11 DEF StartConsuming, StartOffset
  <2>4. QED
    BY <2>1, <2>2, <2>3
<1>12. CASE AutoCommit
  BY <1>12 DEF AutoCommit, InPoll
<1>13. CASE Poll
  <2>1. PollUpTo \in Nat /\ position < PollUpTo /\ PollUpTo <= Len(topic)
    BY <1>13 DEF Poll, PollUpTo
  <2>2. consumer' = [st |-> "fetched", running |-> TRUE]
    BY <1>13 DEF Poll, InPoll
  <2>3. fetched' = position + 1 .. PollUpTo /\ position' = PollUpTo
    BY <1>13 DEF Poll
  <2>4. /\ UNCHANGED <<setup, edgeVars, netVars, gw, topic, committed, batch, todo>>
        /\ UNCHANGED <<stored, dropped, history>>
    BY <1>13 DEF Poll
  <2>5. QED
    BY <2>1, <2>2, <2>3, <2>4
<1>14. CASE GetDbConnection
  <2>1. dropped' \in SUBSET Logs
    BY <1>14, LogsAtType DEF GetDbConnection
  <2>2. QED
    BY <1>0, <1>14, <2>1 DEF GetDbConnection
<1>15. ASSUME NEW o \in todo, InsertLogRecord(o) PROVE TypeInv'
  <2>1. dropped' \in SUBSET Logs /\ stored' \in SUBSET Logs
    BY <1>15, LogsAtType DEF InsertLogRecord
  <2>2. QED
    BY <1>0, <1>15, <2>1 DEF InsertLogRecord
<1>16. CASE InsertBatchDone
  BY <1>16 DEF InsertBatchDone
<1>17. CASE DbConnectionDies
  BY <1>0, <1>17 DEF DbConnectionDies
<1>18. CASE Stop
  <2>1. consumer' = [st |-> consumer.st, running |-> FALSE]
    BY <1>18 DEF Stop
  <2>2. QED
    <3>1. faults' \in Nat /\ harmed' \in BOOLEAN
      BY <1>0, <1>18 DEF Stop
    <3>2. /\ UNCHANGED <<setup, edgeVars, netVars, gw, topic, position, fetched, batch, todo>>
          /\ UNCHANGED <<stored, dropped>>
          /\ committed' = position
      BY <1>18 DEF Stop
    <3>3. QED
      BY <2>1, <3>1, <3>2
<1>19. ASSUME ConsumerEnds, faults' \in Nat, harmed' \in BOOLEAN PROVE TypeInv'
  <2>1. dropped' \in SUBSET Logs
    BY <1>19, LogsAtType DEF ConsumerEnds
  <2>2. QED
    BY <1>19, <2>1 DEF ConsumerEnds
<1>20. CASE StopCompletes
  BY <1>19, <1>20 DEF StopCompletes
<1>21. CASE ConsumerCrash
  BY <1>0, <1>19, <1>21 DEF ConsumerCrash
<1>22. CASE UNCHANGED vars
  BY <1>22 DEF vars
<1>23. QED
  BY <1>1, <1>2, <1>3, <1>4, <1>5, <1>6, <1>7, <1>8, <1>9, <1>10, <1>11, <1>12, <1>13,
     <1>14, <1>15, <1>16, <1>17, <1>18, <1>20, <1>21, <1>22, <1>24, <1>25, <1>26, <1>27 DEF Next

(* The variables have their types: the committed offset never passes the        *)
(* consumer's position, nor the position the end of the topic.                  *)
THEOREM TypeCorrect == Spec => []TypeOK
BY TypeInit, TypeStep, PTL DEF Spec, TypeInv

--------------------------------------------------------------------------------
(* That PlayLogs accounts for every log and implements LogLedger.                *)

(* Where a log that a device has recorded and need not keep any more is known to *)
(* be.                                                                           *)
Somewhere == Travelling \cup stored \cup dropped

(* The sender marks only what it has put on the wire.                            *)
SentAccounted == sender.st = "sent" => sender.logs \subseteq Somewhere

(* By offsets, since a log that was sent twice has two: what the consumer has    *)
(* read it still holds, or the log is stored or given up, and what _insert_batch *)
(* has passed is stored or given up.                                             *)
ReadOffsets == \A o \in 1..position : o \in fetched \cup batch \/ topic[o] \in stored \cup dropped
PassedOffsets ==
  consumer.st = "inserting" => \A o \in batch \ todo : topic[o] \in stored \cup dropped

(* Without other faults than retries make up for, it holds nothing that it has   *)
(* committed, and the thread only ends in a crash.                               *)
HoldsUncommitted ==
  provider = "typed" /\ kafka /\ ~harmed =>
    /\ dropped = {}
    /\ consumer.st # "down" => consumer.running
    /\ consumer.st = "polling" => batch = {}
    /\ \A o \in fetched \cup batch : committed < o

(* Of the rows at most one waits for a COMMIT, and what a rollback takes back    *)
(* it takes back with its mark.                                                  *)
RollbackInv ==
  /\ IsFiniteSet(undone)
  /\ RollbacksCost
  /\ uploaded \subseteq Recorded
  /\ pending.rows = {} \/ \E l \in Logs : pending.rows = {l}
  /\ pending.rows \subseteq Recorded \ FaultRows
  /\ pending.rows \cap uploaded \subseteq pending.marks

(* Nothing is on its way that no device has recorded.                            *)
OnlyRecorded ==
  /\ stored \cup dropped \cup sender.logs \cup gw \subseteq Recorded
  /\ \A i \in 1..Len(wire) : wire[i] \subseteq Recorded
  /\ \A o \in 1..Len(topic) : topic[o] \in Recorded

AccountInv ==
  UploadedAccounted /\ SentAccounted /\ ReadOffsets /\ PassedOffsets /\ HoldsUncommitted

--------------------------------------------------------------------------------
(* Batches in flight.                                                            *)
LEMMA UnionAppend ==
  ASSUME NEW S, NEW q \in Seq(SUBSET S), NEW x \in SUBSET S
  PROVE  Union(Append(q, x)) = Union(q) \cup x
<1> DEFINE r == Append(q, x)
<1>1. /\ DOMAIN q = 1..Len(q) /\ DOMAIN r = 1..(Len(q) + 1) /\ Len(q) \in Nat
      /\ \A i \in 1..Len(q) : r[i] = q[i]
      /\ r[Len(q) + 1] = x
  OBVIOUS
<1>2. Union(r) \subseteq Union(q) \cup x
  <2> SUFFICES ASSUME NEW i \in 1..(Len(q) + 1) PROVE r[i] \subseteq Union(q) \cup x
    BY <1>1 DEF Union
  <2>1. CASE i \in 1..Len(q)
    BY <1>1, <2>1 DEF Union
  <2>2. CASE i = Len(q) + 1
    BY <1>1, <2>2
  <2>3. QED
    BY <1>1, <2>1, <2>2
<1>3. Union(q) \subseteq Union(r)
  <2> SUFFICES ASSUME NEW i \in 1..Len(q) PROVE q[i] \subseteq Union(r)
    BY <1>1 DEF Union
  <2>1. i \in DOMAIN r /\ r[i] = q[i]
    BY <1>1
  <2>2. QED
    BY <2>1 DEF Union
<1>4. x \subseteq Union(r)
  <2>1. Len(q) + 1 \in DOMAIN r /\ r[Len(q) + 1] = x
    BY <1>1
  <2>2. QED
    BY <2>1 DEF Union
<1>5. QED
  BY <1>2, <1>3, <1>4

(* The first batch and the rest.                                              *)
LEMMA UnionHead ==
  ASSUME NEW S, NEW q \in Seq(SUBSET S), q # <<>>
  PROVE  Union(q) \subseteq Head(q) \cup Union(Tail(q))
<1>1. /\ DOMAIN q = 1..Len(q) /\ Len(q) \in Nat /\ Head(q) = q[1]
      /\ DOMAIN Tail(q) = 1..(Len(q) - 1)
      /\ \A i \in 1..(Len(q) - 1) : Tail(q)[i] = q[i + 1]
  OBVIOUS
<1> SUFFICES ASSUME NEW i \in 1..Len(q) PROVE q[i] \subseteq Head(q) \cup Union(Tail(q))
  BY <1>1 DEF Union
<1>2. CASE i = 1
  BY <1>1, <1>2
<1>3. CASE i # 1
  <2>1. i - 1 \in DOMAIN Tail(q) /\ Tail(q)[i - 1] = q[i]
    BY <1>1, <1>3
  <2>2. QED
    BY <2>1 DEF Union
<1>4. QED
  BY <1>2, <1>3

(* Two parts of a sequence of batches.                                        *)
LEMMA UnionSplit ==
  ASSUME NEW S, NEW q \in Seq(SUBSET S), NEW n \in 0..Len(q)
  PROVE  Union(q) \subseteq Union(SubSeq(q, 1, n)) \cup Union(SubSeq(q, n + 1, Len(q)))
<1> DEFINE front == SubSeq(q, 1, n)
           back == SubSeq(q, n + 1, Len(q))
<1>1. /\ DOMAIN q = 1..Len(q) /\ Len(q) \in Nat
      /\ DOMAIN front = 1..n /\ \A i \in 1..n : front[i] = q[i]
      /\ DOMAIN back = 1..(Len(q) - n) /\ \A i \in 1..(Len(q) - n) : back[i] = q[n + i]
  BY SubSeqProperties
<1> SUFFICES ASSUME NEW i \in 1..Len(q) PROVE q[i] \subseteq Union(front) \cup Union(back)
  BY <1>1 DEF Union
<1>2. CASE i <= n
  <2>1. i \in DOMAIN front /\ front[i] = q[i]
    BY <1>1, <1>2
  <2>2. QED
    BY <2>1 DEF Union
<1>3. CASE i > n
  <2>1. i - n \in DOMAIN back /\ back[i - n] = q[i]
    BY <1>1, <1>3
  <2>2. QED
    BY <2>1 DEF Union
<1>4. QED
  BY <1>2, <1>3

(* Logs at offsets.                                                              *)
LEMMA AtOffsets ==
  ASSUME NEW S, NEW t \in Seq(S), NEW T, NEW l
  PROVE  l \in {t[o] : o \in T \cap DOMAIN t} <=> \E o \in 1..Len(t) : o \in T /\ t[o] = l
OBVIOUS

(* The consumer has not done with an offset.                                     *)
Out(o) == o > position \/ o \in fetched \cup batch

InPlaces == \A l : l \in Somewhere <=>
                      \/ l \in Union(wire) \cup gw \cup stored \cup dropped
                      \/ \E o \in 1..Len(topic) : Out(o) /\ topic[o] = l

(* Where a log can be, by its places.                                         *)
LEMMA Members == TypeOK => InPlaces
<1> SUFFICES ASSUME TypeOK, NEW l
             PROVE  l \in Somewhere <=>
                      \/ l \in Union(wire) \cup gw \cup stored \cup dropped
                      \/ \E o \in 1..Len(topic) : Out(o) /\ topic[o] = l
  BY DEF InPlaces
<1>0. topic \in Seq(Logs) /\ position \in Nat /\ Len(topic) \in Nat
  BY DEF TypeOK
<1>1. l \in LogsAt(position + 1 .. Len(topic)) <=>
        \E o \in 1..Len(topic) : o \in position + 1 .. Len(topic) /\ topic[o] = l
  BY <1>0, AtOffsets DEF LogsAt
<1>2. l \in LogsAt(fetched \cup batch) <=>
        \E o \in 1..Len(topic) : o \in fetched \cup batch /\ topic[o] = l
  BY <1>0, AtOffsets DEF LogsAt
<1>3. l \in Somewhere <=> \/ l \in Union(wire) \cup gw \cup stored \cup dropped
                          \/ l \in LogsAt(position + 1 .. Len(topic))
                          \/ l \in LogsAt(fetched \cup batch)
  BY DEF Somewhere, Travelling
<1>4. \A o \in 1..Len(topic) : o \in position + 1 .. Len(topic) <=> o > position
  BY <1>0
<1>5. QED
  BY <1>1, <1>2, <1>3, <1>4 DEF Out

(* What a step must do with the logs in each place.                              *)
LEMMA Kept ==
  ASSUME TypeOK, TypeOK',
         Union(wire) \cup gw \subseteq Union(wire)' \cup gw' \cup stored' \cup dropped',
         stored \subseteq stored', dropped \subseteq dropped',
         Len(topic) <= Len(topic'), \A o \in 1..Len(topic) : topic'[o] = topic[o],
         \A o \in 1..Len(topic) : Out(o) => Out(o)' \/ topic[o] \in stored' \cup dropped'
  PROVE  Somewhere \subseteq Somewhere'
<1>1. (TypeOK => InPlaces)'
  BY Members, PTL
<1>2. SUFFICES ASSUME NEW l \in Somewhere PROVE l \in Somewhere'
  OBVIOUS
<1>3. CASE l \in Union(wire) \cup gw \cup stored \cup dropped
  BY <1>1, <1>3 DEF InPlaces
<1>4. ASSUME NEW o \in 1..Len(topic), Out(o), topic[o] = l PROVE l \in Somewhere'
  <2>1. o \in 1..Len(topic')
    BY DEF TypeOK
  <2>2. topic'[o] = l
    BY <1>4
  <2>3. Out(o)' \/ l \in stored' \cup dropped'
    BY <1>4
  <2>4. QED
    BY <1>1, <2>1, <2>2, <2>3 DEF InPlaces
<1>5. QED
  BY <1>3, <1>4, Members DEF InPlaces
--------------------------------------------------------------------------------
(* No step forgets a log.                                                        *)
LEMMA NothingForgotten ==
  ASSUME TypeInv, TypeInv', PassedOffsets, [Next]_vars
  PROVE  Somewhere \subseteq Somewhere'
<1> USE PlayLogConstants DEF setup, txVars, fileVars, edgeVars, netVars, consumerVars, history
<1>t. /\ TypeOK /\ TypeOK'
      /\ position \in Nat /\ committed \in Nat /\ committed <= position
      /\ Len(topic) \in Nat /\ position <= Len(topic)
      /\ topic \in Seq(Logs) /\ wire \in Seq(SUBSET Logs) /\ sender.logs \in SUBSET Logs
      /\ fetched \subseteq 1..position /\ batch \subseteq 1..position
  BY DEF TypeInv, TypeOK
<1> DEFINE OutKept == \A o \in 1..Len(topic) : Out(o) => Out(o)' \/ topic[o] \in stored' \cup dropped'
           WireKept == Union(wire) \cup gw \subseteq Union(wire)' \cup gw' \cup stored' \cup dropped'
           TopicKept == Len(topic) <= Len(topic') /\ \A o \in 1..Len(topic) : topic'[o] = topic[o]
           LedgersGrow == stored \subseteq stored' /\ dropped \subseteq dropped'
<1>k. ASSUME OutKept, WireKept, TopicKept, LedgersGrow PROVE Somewhere \subseteq Somewhere'
  BY <1>k, <1>t, Kept
<1> HIDE DEF OutKept, WireKept, TopicKept, LedgersGrow
<1>o. UNCHANGED <<position, fetched, batch>> => OutKept
  BY DEF OutKept, Out
<1>w. UNCHANGED <<wire, gw>> => WireKept
  BY DEF WireKept, Union
<1>p. UNCHANGED topic => TopicKept
  BY <1>t DEF TopicKept
<1>l. dropped \subseteq dropped' /\ stored \subseteq stored' => LedgersGrow
  BY DEF LedgersGrow
<1>0. ASSUME UNCHANGED <<wire, gw, topic, position, fetched, batch>>,
             stored \subseteq stored', dropped \subseteq dropped'
      PROVE  Somewhere \subseteq Somewhere'
  BY <1>0, <1>k, <1>o, <1>w, <1>p, <1>l
<1>1. ASSUME NEW l \in Logs, LogPlay(l) \/ LogFault(l) PROVE Somewhere \subseteq Somewhere'
  BY <1>0, <1>1 DEF LogPlay, LogFault
<1>25. CASE CommitTx \/ RollBackTx \/ PlayerCrash
  BY <1>0, <1>25 DEF CommitTx, RollBackTx, PlayerCrash
<1>2. CASE SelectLogs
  BY <1>0, <1>2 DEF SelectLogs
<1>3. CASE SendLogs
  <2>1. UNCHANGED <<gw, topic, position, fetched, batch, stored, dropped>>
    BY <1>3 DEF SendLogs
  <2>2. WireKept
    <3>1. wire' = Append(wire, sender.logs) \/ wire' = wire
      BY <1>3 DEF SendLogs
    <3>2. Union(Append(wire, sender.logs)) = Union(wire) \cup sender.logs
      BY <1>t, UnionAppend
    <3>3. Union(wire)' = Union(wire')
      BY DEF Union
    <3>4. Union(wire) \subseteq Union(wire)'
      BY <3>1, <3>2, <3>3
    <3>5. QED
      BY <2>1, <3>4 DEF WireKept
  <2>3. QED
    BY <1>k, <1>o, <1>p, <1>l, <2>1, <2>2
<1>4. CASE OnSuccess
  BY <1>0, <1>4 DEF OnSuccess
<1>5. CASE Reconnect
  BY <1>0, <1>5 DEF Reconnect
<1>6. ASSUME NEW n \in 0..Len(wire), LoseWire(n), UNCHANGED <<gw, topic, consumerVars>>
      PROVE  Somewhere \subseteq Somewhere'
  <2>1. WireKept
    <3>1. Union(wire) \subseteq Union(SubSeq(wire, 1, n)) \cup Union(SubSeq(wire, n + 1, Len(wire)))
      BY <1>t, UnionSplit
    <3>2. /\ Union(wire)' = Union(SubSeq(wire, 1, n))
          /\ Union(SubSeq(wire, n + 1, Len(wire))) \subseteq dropped'
      BY <1>6 DEF LoseWire, Union
    <3>3. QED
      BY <1>6, <3>1, <3>2 DEF WireKept
  <2>2. LedgersGrow
    BY <1>6, <1>l DEF LoseWire
  <2>3. QED
    BY <1>6, <1>k, <1>o, <1>p, <2>1, <2>2
<1>7. CASE LinkBreaks
  BY <1>6, <1>7 DEF LinkBreaks
<1>8. CASE EdgeCrash
  BY <1>6, <1>8 DEF EdgeCrash
<1>9. CASE HandleLogReport
  <2>1. UNCHANGED <<topic, position, fetched, batch, stored>> /\ dropped \subseteq dropped'
    BY <1>9 DEF HandleLogReport
  <2>2. WireKept
    <3>1. wire # <<>> /\ gw = {} /\ wire' = Tail(wire)
      BY <1>9 DEF HandleLogReport
    <3>2. Union(wire) \subseteq Head(wire) \cup Union(Tail(wire))
      BY <1>t, <3>1, UnionHead
    <3>3. Union(wire)' = Union(Tail(wire))
      BY <3>1 DEF Union
    <3>4. Head(wire) \subseteq gw' \cup dropped'
      BY <1>9 DEF HandleLogReport
    <3>5. QED
      BY <3>1, <3>2, <3>3, <3>4 DEF WireKept
  <2>3. QED
    BY <1>k, <1>o, <1>p, <1>l, <2>1, <2>2
<1>10. ASSUME NEW l \in Logs, ForwardLog(l) PROVE Somewhere \subseteq Somewhere'
  <2>1. UNCHANGED <<wire, position, fetched, batch, stored>> /\ dropped \subseteq dropped'
    BY <1>10 DEF ForwardLog
  <2>2. gw \subseteq gw' \cup {l}
    BY <1>10 DEF ForwardLog
  <2>3. CASE topic' = Append(topic, l)
    <3>1. /\ Len(topic') = Len(topic) + 1 /\ topic'[Len(topic) + 1] = l
          /\ \A o \in 1..Len(topic) : topic'[o] = topic[o]
      BY <1>t, <2>3
    <3>2. ASSUME NEW n \in Nat, n = Len(topic) + 1
          PROVE  n \in 1..Len(topic') /\ Out(n)' /\ topic'[n] = l
      BY <1>t, <2>1, <3>1, <3>2 DEF Out
    <3>3. (TypeOK => InPlaces)'
      BY Members, PTL
    <3>4. l \in Somewhere'
      BY <1>t, <3>2, <3>3 DEF InPlaces
    <3>5. ASSUME NEW x \in Somewhere, x # l PROVE x \in Somewhere'
      <4>1. CASE x \in Union(wire) \cup gw \cup stored \cup dropped
        <5>1. Union(wire)' = Union(wire)
          BY <2>1 DEF Union
        <5>2. QED
          BY <1>t, <2>1, <2>2, <3>3, <3>5, <4>1, <5>1 DEF InPlaces
      <4>2. ASSUME NEW o \in 1..Len(topic), Out(o), topic[o] = x PROVE x \in Somewhere'
        <5>1. o \in 1..Len(topic') /\ topic'[o] = x /\ Out(o)'
          BY <1>t, <2>1, <3>1, <4>2 DEF Out
        <5>2. QED
          BY <1>t, <3>3, <5>1 DEF InPlaces
      <4>3. QED
        BY <1>t, <3>5, <4>1, <4>2, Members DEF InPlaces
    <3>6. QED
      BY <3>4, <3>5
  <2>4. CASE topic' = topic /\ l \in dropped'
    <3>1. WireKept
      BY <2>1, <2>2, <2>4 DEF WireKept, Union
    <3>2. QED
      BY <1>k, <1>o, <1>p, <1>l, <2>1, <2>4, <3>1
  <2>5. QED
    BY <1>10, <2>3, <2>4 DEF ForwardLog
<1>11. CASE GatewayCrash
  <2>1. /\ UNCHANGED <<topic, position, fetched, batch, stored>>
        /\ dropped' = dropped \cup gw \cup Union(wire)
    BY <1>11 DEF GatewayCrash
  <2>2. WireKept
    BY <2>1 DEF WireKept
  <2>3. QED
    BY <1>k, <1>o, <1>p, <1>l, <2>1, <2>2
<1>12. CASE StartConsuming
  <2>1. /\ UNCHANGED <<wire, gw, topic, fetched, batch, stored, dropped>>
        /\ position' = committed
    BY <1>12 DEF StartConsuming, StartOffset
  <2>2. OutKept
    BY <1>t, <2>1 DEF OutKept, Out
  <2>3. QED
    BY <1>k, <1>w, <1>p, <1>l, <2>1, <2>2
<1>13. CASE AutoCommit
  BY <1>0, <1>13 DEF AutoCommit
<1>14. CASE Poll
  <2>1. /\ UNCHANGED <<wire, gw, topic, batch, stored, dropped>>
        /\ consumer.st = "polling"
        /\ fetched' = position + 1 .. PollUpTo /\ position' = PollUpTo
    BY <1>14 DEF Poll, InPoll
  <2>2. fetched = {} /\ PollUpTo \in Nat
    BY <1>t, <2>1 DEF TypeInv, ConsumerShape, PollUpTo
  <2>3. OutKept
    BY <1>t, <2>1, <2>2 DEF OutKept, Out
  <2>4. QED
    BY <1>k, <1>w, <1>p, <1>l, <2>1, <2>3
<1>15. CASE GetDbConnection
  <2>1. UNCHANGED <<wire, gw, topic, position, stored>> /\ dropped \subseteq dropped'
    BY <1>15 DEF GetDbConnection
  <2>2. \/ batch' = batch \cup fetched
        \/ batch' = batch /\ \A o \in 1..Len(topic) : o \in fetched => topic[o] \in dropped'
    <3>1. \A o \in 1..Len(topic) : o \in fetched => topic[o] \in LogsAt(fetched)
      BY <1>t DEF LogsAt
    <3>2. QED
      BY <1>15, <3>1 DEF GetDbConnection
  <2>3. OutKept
    BY <2>1, <2>2 DEF OutKept, Out
  <2>4. QED
    BY <1>k, <1>w, <1>p, <1>l, <2>1, <2>3
<1>16. ASSUME NEW o \in todo, InsertLogRecord(o) PROVE Somewhere \subseteq Somewhere'
  BY <1>0, <1>16 DEF InsertLogRecord
<1>17. CASE InsertBatchDone
  <2>1. /\ UNCHANGED <<wire, gw, topic, position, fetched, stored, dropped>>
        /\ \A o \in batch : topic[o] \in stored \cup dropped
    BY <1>17 DEF InsertBatchDone, PassedOffsets
  <2>2. OutKept
    BY <2>1 DEF OutKept, Out
  <2>3. QED
    BY <1>k, <1>w, <1>p, <1>l, <2>1, <2>2
<1>18. CASE DbConnectionDies
  BY <1>0, <1>18 DEF DbConnectionDies
<1>19. CASE Stop
  BY <1>0, <1>19 DEF Stop
<1>20. ASSUME ConsumerEnds PROVE Somewhere \subseteq Somewhere'
  <2>1. UNCHANGED <<wire, gw, topic, stored>> /\ dropped \subseteq dropped' /\ position' = committed
    BY <1>20 DEF ConsumerEnds
  <2>2. ASSUME NEW o \in 1..Len(topic), o \in batch \cup fetched, o <= committed
        PROVE  topic[o] \in stored' \cup dropped'
    <3>1. topic[o] \in LogsAt({x \in batch \cup fetched : x <= committed})
      BY <1>t, <2>2 DEF LogsAt
    <3>2. QED
      BY <1>20, <2>1, <3>1 DEF ConsumerEnds
  <2>3. OutKept
    BY <1>t, <2>1, <2>2 DEF OutKept, Out
  <2>4. QED
    BY <1>k, <1>w, <1>p, <1>l, <2>1, <2>3
<1>21. CASE StopCompletes
  BY <1>20, <1>21 DEF StopCompletes
<1>22. CASE ConsumerCrash
  BY <1>20, <1>22 DEF ConsumerCrash
<1>23. CASE UNCHANGED vars
  BY <1>0, <1>23 DEF vars
<1>24. QED
  BY <1>1, <1>2, <1>3, <1>4, <1>5, <1>7, <1>8, <1>9, <1>10, <1>11, <1>12, <1>13, <1>14, <1>15,
     <1>16, <1>17, <1>18, <1>19, <1>21, <1>22, <1>23, <1>25 DEF Next
--------------------------------------------------------------------------------
(* What the device no longer keeps is somewhere.                                 *)
LEMMA UploadedStep ==
  ASSUME TypeInv, TypeInv', AccountInv, [Next]_vars
  PROVE  UploadedAccounted' /\ SentAccounted'
<1> USE DEF setup, txVars, fileVars, edgeVars, netVars, consumerVars, history
<1>1. Somewhere \subseteq Somewhere'
  BY NothingForgotten DEF AccountInv
<1>2. uploaded \subseteq Somewhere /\ (sender.st = "sent" => sender.logs \subseteq Somewhere)
  BY DEF AccountInv, UploadedAccounted, SentAccounted, Somewhere
<1>3. (Somewhere = Travelling \cup stored \cup dropped)'
  BY DEF Somewhere
<1>4. ASSUME uploaded' \subseteq uploaded, sender'.st = "sent" => sender' = sender
      PROVE  UploadedAccounted' /\ SentAccounted'
  BY <1>1, <1>2, <1>3, <1>4 DEF UploadedAccounted, SentAccounted
<1>5. CASE SendLogs
  <2>1. uploaded' = uploaded
    BY <1>5 DEF SendLogs
  <2>2. sender \in [st : {"idle", "selected", "sent", "stopped"}, logs : SUBSET Logs]
        /\ wire \in Seq(SUBSET Logs)
    BY DEF TypeInv, TypeOK
  <2>3. CASE wire' = Append(wire, sender.logs) /\ sender' = [sender EXCEPT !.st = "sent"]
    <3>1. Union(wire)' = Union(wire) \cup sender.logs
      <4>1. Union(Append(wire, sender.logs)) = Union(wire) \cup sender.logs
        BY <2>2, UnionAppend
      <4>2. Union(wire)' = Union(wire')
        BY DEF Union
      <4>3. QED
        BY <2>3, <4>1, <4>2
    <3>2. sender'.logs = sender.logs
      BY <2>2, <2>3
    <3>3. sender'.logs \subseteq Somewhere'
      BY <3>1, <3>2 DEF Somewhere, Travelling
    <3>4. QED
      BY <1>1, <1>2, <1>3, <2>1, <3>3 DEF UploadedAccounted, SentAccounted
  <2>4. CASE sender' = [st |-> "stopped", logs |-> {}]
    BY <1>4, <2>1, <2>4
  <2>5. QED
    BY <1>5, <2>3, <2>4 DEF SendLogs
<1>6. CASE OnSuccess
  <2>1. uploaded' \subseteq Somewhere
    BY <1>2, <1>6 DEF OnSuccess, MarkSent
  <2>2. sender'.st # "sent"
    BY <1>6 DEF OnSuccess
  <2>3. QED
    BY <1>1, <1>3, <2>1, <2>2 DEF UploadedAccounted, SentAccounted
<1>7. ASSUME NEW l \in Logs, LogPlay(l) \/ LogFault(l) \/ ForwardLog(l)
      PROVE  UploadedAccounted' /\ SentAccounted'
  BY <1>4, <1>7 DEF LogPlay, LogFault, ForwardLog
<1>8. CASE SelectLogs \/ Reconnect \/ LinkBreaks \/ HandleLogReport \/ GatewayCrash \/ CommitTx
  BY <1>4, <1>8 DEF SelectLogs, Reconnect, LinkBreaks, HandleLogReport, GatewayCrash, CommitTx
<1>14. CASE EdgeCrash \/ PlayerCrash \/ RollBackTx
  BY <1>4, <1>14 DEF EdgeCrash, PlayerCrash, RollBackTx, PlayerDies, RollBack
<1>9. CASE StartConsuming \/ AutoCommit \/ Poll \/ GetDbConnection
  BY <1>4, <1>9 DEF StartConsuming, AutoCommit, Poll, GetDbConnection
<1>10. ASSUME NEW o \in todo, InsertLogRecord(o) PROVE UploadedAccounted' /\ SentAccounted'
  BY <1>4, <1>10 DEF InsertLogRecord
<1>11. CASE InsertBatchDone \/ DbConnectionDies \/ Stop \/ StopCompletes \/ ConsumerCrash
  BY <1>4, <1>11 DEF InsertBatchDone, DbConnectionDies, Stop, StopCompletes, ConsumerCrash,
                     ConsumerEnds
<1>12. CASE UNCHANGED vars
  BY <1>4, <1>12 DEF vars
<1>13. QED
  BY <1>5, <1>6, <1>7, <1>8, <1>9, <1>10, <1>11, <1>12, <1>14 DEF Next

(* What the consumer has read and what it has passed.                            *)
LEMMA OffsetsStep ==
  ASSUME TypeInv, TypeInv', AccountInv, [Next]_vars
  PROVE  ReadOffsets' /\ PassedOffsets'
<1> USE DEF setup, txVars, fileVars, edgeVars, netVars, consumerVars, history
<1>t. /\ position \in Nat /\ committed \in Nat /\ committed <= position
      /\ Len(topic) \in Nat /\ position <= Len(topic) /\ topic \in Seq(Logs)
      /\ batch \subseteq 1..position /\ fetched \subseteq 1..position /\ todo \subseteq batch
  BY DEF TypeInv, TypeOK
<1>s. consumer.st = "down" => fetched = {} /\ batch = {}
  BY DEF TypeInv, ConsumerShape
<1>i. ReadOffsets /\ PassedOffsets
  BY DEF AccountInv
<1>0. ASSUME UNCHANGED <<position, fetched, batch, todo, consumer>>,
             \A o \in 1..position : topic'[o] = topic[o],
             stored \subseteq stored', dropped \subseteq dropped'
      PROVE  ReadOffsets' /\ PassedOffsets'
  BY <1>0, <1>t, <1>i DEF ReadOffsets, PassedOffsets
<1>1. ASSUME NEW l \in Logs, LogPlay(l) \/ LogFault(l) PROVE ReadOffsets' /\ PassedOffsets'
  BY <1>0, <1>1 DEF LogPlay, LogFault
<1>17. CASE CommitTx \/ RollBackTx \/ PlayerCrash
  BY <1>0, <1>17 DEF CommitTx, RollBackTx, PlayerCrash
<1>2. CASE SelectLogs \/ SendLogs \/ OnSuccess \/ Reconnect
  BY <1>0, <1>2 DEF SelectLogs, SendLogs, OnSuccess, Reconnect
<1>3. CASE LinkBreaks \/ EdgeCrash \/ HandleLogReport \/ GatewayCrash
  BY <1>0, <1>3 DEF LinkBreaks, EdgeCrash, HandleLogReport, GatewayCrash, LoseWire
<1>4. ASSUME NEW l \in Logs, ForwardLog(l) PROVE ReadOffsets' /\ PassedOffsets'
  <2>1. UNCHANGED <<position, fetched, batch, todo, consumer, stored>> /\ dropped \subseteq dropped'
    BY <1>4 DEF ForwardLog
  <2>2. \A o \in 1..position : topic'[o] = topic[o]
    <3>1. topic' = topic \/ topic' = Append(topic, l)
      BY <1>4 DEF ForwardLog
    <3>2. QED
      BY <1>t, <3>1
  <2>3. QED
    BY <1>0, <2>1, <2>2
<1>5. CASE StartConsuming
  BY <1>5, <1>t, <1>s, <1>i DEF StartConsuming, StartOffset, ReadOffsets, PassedOffsets
<1>6. CASE AutoCommit
  BY <1>0, <1>6 DEF AutoCommit
<1>7. CASE Poll
  <2>1. UNCHANGED <<topic, batch, stored, dropped>> /\ consumer.st = "polling"
    BY <1>7 DEF Poll, InPoll
  <2>2. fetched' = position + 1 .. position' /\ position' \in Nat /\ consumer'.st # "inserting"
    <3>1. consumer \in [st : {"down", "dead", "polling", "fetched", "inserting"}, running : BOOLEAN]
          /\ BatchLimit \in Nat
      BY PlayLogConstants DEF TypeInv, TypeOK
    <3>2. QED
      BY <1>7, <1>t, <3>1 DEF Poll, PollUpTo
  <2>3. fetched = {}
    BY <2>1 DEF TypeInv, ConsumerShape
  <2>4. QED
    BY <1>t, <1>i, <2>1, <2>2, <2>3 DEF ReadOffsets, PassedOffsets
<1>8. CASE GetDbConnection
  <2>1. UNCHANGED <<topic, position, stored>> /\ dropped \subseteq dropped' /\ fetched' = {}
    BY <1>8 DEF GetDbConnection
  <2>2. CASE batch' = batch \cup fetched /\ todo' = batch \cup fetched
    BY <1>i, <2>1, <2>2 DEF ReadOffsets, PassedOffsets
  <2>3. CASE /\ consumer' = [consumer EXCEPT !.st = "polling"] /\ batch' = batch
             /\ dropped' = dropped \cup LogsAt(fetched)
    <3>1. \A o \in fetched : topic[o] \in dropped'
      BY <1>t, <2>3 DEF LogsAt
    <3>2. consumer'.st # "inserting"
      BY <2>3 DEF TypeInv, TypeOK
    <3>3. QED
      BY <1>i, <2>1, <2>3, <3>1, <3>2 DEF ReadOffsets, PassedOffsets
  <2>4. QED
    BY <1>8, <2>2, <2>3 DEF GetDbConnection
<1>9. ASSUME NEW o \in todo, InsertLogRecord(o) PROVE ReadOffsets' /\ PassedOffsets'
  <2>1. /\ UNCHANGED <<topic, position, fetched, batch, consumer>>
        /\ stored \subseteq stored' /\ dropped \subseteq dropped'
        /\ todo' = todo \ {o}
    BY <1>9 DEF InsertLogRecord
  <2>2. topic[o] \in stored' \cup dropped'
    <3>1. o \in {o} \cap DOMAIN topic
      BY <1>t
    <3>2. topic[o] \in LogsAt({o})
      BY <3>1 DEF LogsAt
    <3>3. QED
      BY <1>9, <3>2 DEF InsertLogRecord
  <2>3. QED
    BY <1>i, <2>1, <2>2 DEF ReadOffsets, PassedOffsets
<1>10. CASE InsertBatchDone
  <2>1. /\ UNCHANGED <<topic, position, fetched, stored, dropped>>
        /\ \A o \in batch : topic[o] \in stored \cup dropped
    BY <1>10, <1>i DEF InsertBatchDone, PassedOffsets
  <2>2. consumer'.st # "inserting"
    BY <1>10 DEF InsertBatchDone, TypeInv, TypeOK
  <2>3. QED
    BY <1>i, <2>1, <2>2 DEF ReadOffsets, PassedOffsets
<1>11. CASE DbConnectionDies
  <2>1. UNCHANGED <<topic, position, fetched, batch, stored, dropped>>
    BY <1>11 DEF DbConnectionDies
  <2>2. consumer'.st # "inserting"
    BY <1>11 DEF DbConnectionDies, TypeInv, TypeOK
  <2>3. QED
    BY <1>i, <2>1, <2>2 DEF ReadOffsets, PassedOffsets
<1>12. CASE Stop
  <2>1. UNCHANGED <<topic, position, fetched, batch, todo, stored, dropped>>
    BY <1>12 DEF Stop
  <2>2. consumer'.st = consumer.st
    BY <1>12 DEF Stop, TypeInv, TypeOK
  <2>3. QED
    BY <1>i, <2>1, <2>2 DEF ReadOffsets, PassedOffsets
<1>13. ASSUME ConsumerEnds PROVE ReadOffsets' /\ PassedOffsets'
  <2>1. /\ UNCHANGED <<topic, stored>> /\ dropped \subseteq dropped'
        /\ position' = committed /\ consumer'.st # "inserting"
    BY <1>13 DEF ConsumerEnds
  <2>2. ASSUME NEW o \in batch \cup fetched, o <= committed PROVE topic[o] \in stored \cup dropped'
    <3>1. topic[o] \in LogsAt({x \in batch \cup fetched : x <= committed})
      BY <1>t, <2>2 DEF LogsAt
    <3>2. QED
      BY <1>13, <3>1 DEF ConsumerEnds
  <2>3. QED
    BY <1>t, <1>i, <2>1, <2>2 DEF ReadOffsets, PassedOffsets
<1>14. CASE StopCompletes \/ ConsumerCrash
  BY <1>13, <1>14 DEF StopCompletes, ConsumerCrash
<1>15. CASE UNCHANGED vars
  BY <1>0, <1>15 DEF vars
<1>16. QED
  BY <1>1, <1>2, <1>3, <1>4, <1>5, <1>6, <1>7, <1>8, <1>9, <1>10, <1>11, <1>12, <1>14,
     <1>15, <1>17 DEF Next

(* Under the faults that retries make up for.                                    *)
LEMMA UncommittedStep ==
  ASSUME TypeInv, TypeInv', AccountInv, [Next]_vars
  PROVE  HoldsUncommitted'
<1> USE DEF setup, txVars, fileVars, edgeVars, netVars, consumerVars, history
<1>1. SUFFICES ASSUME provider' = "typed", kafka', ~harmed'
               PROVE  /\ dropped' = {}
                      /\ consumer'.st # "down" => consumer'.running
                      /\ consumer'.st = "polling" => batch' = {}
                      /\ \A o \in fetched' \cup batch' : committed' < o
  BY DEF HoldsUncommitted
<1> DEFINE Goal == /\ dropped' = {}
                   /\ consumer'.st # "down" => consumer'.running
                   /\ consumer'.st = "polling" => batch' = {}
                   /\ \A o \in fetched' \cup batch' : committed' < o
<1>2. provider' = provider /\ kafka' = kafka /\ (harmed => harmed')
  <2>1. \A f : Happens(f) => (harmed => harmed')
    BY DEF Happens
  <2>2. UNCHANGED history => (harmed => harmed')
    OBVIOUS
  <2>3. UNCHANGED setup => provider' = provider /\ kafka' = kafka
    OBVIOUS
  <2>4. UNCHANGED vars => UNCHANGED setup /\ UNCHANGED history
    BY DEF vars
  <2>5. Next => UNCHANGED setup
    BY DEF Next, LogPlay, LogFault, CommitTx, RollBackTx, ForwardLog, SelectLogs, SendLogs,
           OnSuccess, Reconnect, LinkBreaks, EdgeCrash, PlayerCrash, HandleLogReport,
           GatewayCrash, StartConsuming, AutoCommit, Poll, GetDbConnection, InsertLogRecord,
           InsertBatchDone, DbConnectionDies, Stop, StopCompletes, ConsumerCrash, ConsumerEnds
  <2>6. Next => UNCHANGED history \/ \E f : Happens(f)
    BY DEF Next, LogPlay, LogFault, CommitTx, RollBackTx, ForwardLog, SelectLogs, SendLogs,
           OnSuccess, Reconnect, LinkBreaks, EdgeCrash, PlayerCrash, HandleLogReport,
           GatewayCrash, StartConsuming, AutoCommit, Poll, GetDbConnection, InsertLogRecord,
           InsertBatchDone, DbConnectionDies, Stop, StopCompletes, ConsumerCrash
  <2>7. QED
    BY <2>1, <2>2, <2>3, <2>4, <2>5, <2>6
<1>3. /\ provider = "typed" /\ kafka
      /\ dropped = {}
      /\ consumer.st # "down" => consumer.running
      /\ consumer.st = "polling" => batch = {}
      /\ \A o \in fetched \cup batch : committed < o
  BY <1>1, <1>2 DEF AccountInv, HoldsUncommitted
<1>4. \A f : f \notin Retried => ~Happens(f)
  BY <1>1 DEF Happens
<1>5. ~(LinkBreaks \/ EdgeCrash \/ PlayerCrash \/ GatewayCrash \/ DbConnectionDies \/ Stop)
  BY <1>4 DEF LinkBreaks, EdgeCrash, PlayerCrash, GatewayCrash, DbConnectionDies, Stop, Retried
<1>t. /\ position \in Nat /\ committed \in Nat /\ committed <= position
      /\ batch \subseteq 1..position /\ fetched \subseteq 1..position /\ todo \subseteq batch
      /\ consumer \in [st : {"down", "dead", "polling", "fetched", "inserting"}, running : BOOLEAN]
      /\ consumer.st = "down" => fetched = {} /\ batch = {}
      /\ consumer.st # "fetched" => fetched = {}
  BY DEF TypeInv, TypeOK, ConsumerShape
<1>0. ASSUME UNCHANGED <<committed, consumer, fetched, batch, dropped>> PROVE Goal
  BY <1>0, <1>3
<1>6. ASSUME NEW l \in Logs, LogPlay(l) \/ LogFault(l) PROVE Goal
  BY <1>0, <1>6 DEF LogPlay, LogFault
<1>20. CASE CommitTx \/ RollBackTx
  BY <1>0, <1>20 DEF CommitTx, RollBackTx
<1>7. CASE SelectLogs \/ SendLogs \/ OnSuccess \/ Reconnect
  BY <1>0, <1>7 DEF SelectLogs, SendLogs, OnSuccess, Reconnect
<1>8. CASE HandleLogReport
  BY <1>0, <1>3, <1>8 DEF HandleLogReport
<1>9. ASSUME NEW l \in Logs, ForwardLog(l) PROVE Goal
  <2>1. ~Happens("kafka")
    BY <1>4 DEF Retried
  <2>2. QED
    BY <1>0, <1>3, <1>9, <2>1 DEF ForwardLog
<1>10. CASE StartConsuming
  <2>1. ~Happens("start")
    BY <1>4 DEF Retried
  <2>2. QED
    BY <1>t, <1>3, <1>10, <2>1 DEF StartConsuming
<1>11. CASE AutoCommit
  BY <1>t, <1>3, <1>11 DEF AutoCommit, InPoll
<1>12. CASE Poll
  <2>1. UNCHANGED <<committed, batch, dropped>> /\ consumer.st = "polling" /\ consumer.running
    BY <1>12 DEF Poll, InPoll
  <2>2. fetched' = position + 1 .. position'
    BY <1>12 DEF Poll
  <2>3. consumer'.st = "fetched" /\ consumer'.running
    BY <1>t, <1>12, <2>1 DEF Poll
  <2>4. \A o \in fetched' : committed' < o
    <3>1. position' \in Nat
      BY DEF TypeInv, TypeOK
    <3>2. QED
      BY <1>t, <2>1, <2>2, <3>1
  <2>5. QED
    BY <1>3, <2>1, <2>3, <2>4
<1>13. CASE GetDbConnection
  <2>1. ~Happens("connect")
    BY <1>4 DEF Retried
  <2>2. /\ UNCHANGED <<committed, dropped>> /\ fetched' = {} /\ batch' = batch \cup fetched
        /\ consumer' = [consumer EXCEPT !.st = "inserting"] /\ consumer.st = "fetched"
    BY <1>13, <2>1 DEF GetDbConnection
  <2>3. consumer'.st = "inserting" /\ consumer'.running
    BY <1>t, <1>3, <2>2
  <2>4. QED
    BY <1>3, <2>2, <2>3
<1>14. ASSUME NEW o \in todo, InsertLogRecord(o) PROVE Goal
  <2>1. ~Happens("insert")
    BY <1>4 DEF Retried
  <2>2. QED
    BY <1>0, <1>14, <2>1 DEF InsertLogRecord
<1>15. CASE InsertBatchDone
  <2>1. /\ UNCHANGED <<committed, fetched, dropped>> /\ batch' = {}
        /\ consumer' = [consumer EXCEPT !.st = "polling"] /\ consumer.st = "inserting"
    BY <1>15 DEF InsertBatchDone
  <2>2. consumer'.running
    BY <1>t, <1>3, <2>1
  <2>3. QED
    BY <1>3, <2>1, <2>2
<1>16. ~StopCompletes
  BY <1>3 DEF StopCompletes
<1>17. CASE ConsumerCrash
  <2>1. consumer'.st = "down" /\ fetched' = {} /\ batch' = {} /\ committed' = committed
    BY <1>17 DEF ConsumerCrash, ConsumerEnds
  <2>2. {o \in batch \cup fetched : o <= committed} = {}
    <3>1. \A o \in batch \cup fetched : ~(o <= committed)
      BY <1>t, <1>3
    <3>2. QED
      BY <3>1
  <2>3. dropped' = {}
    BY <1>3, <1>17, <2>2 DEF ConsumerCrash, ConsumerEnds, LogsAt
  <2>4. QED
    BY <2>1, <2>3
<1>18. CASE UNCHANGED vars
  BY <1>0, <1>18 DEF vars
<1>19. QED
  BY <1>5, <1>6, <1>7, <1>8, <1>9, <1>10, <1>11, <1>12, <1>13, <1>14, <1>15, <1>16, <1>17,
     <1>18, <1>20 DEF Next

(* No step inserts a row out of nowhere or forgets one, and faults are counted.  *)
LEMMA TableGrows ==
  ASSUME TypeInv, [Next]_vars
  PROVE  /\ Recorded \subseteq Recorded'
         /\ faults' \in Nat /\ faults <= faults'
<1> USE DEF setup, txVars, fileVars, edgeVars, netVars, consumerVars, history
<1>t. table \in Seq(Logs) /\ faults \in Nat
  BY DEF TypeInv, TypeOK
<1>1. UNCHANGED table => Recorded' = Recorded
  BY DEF Recorded
<1>2. \A f : Happens(f) => faults' \in Nat /\ faults <= faults'
  BY <1>t DEF Happens
<1>3. ASSUME NEW l \in Logs, LogPlay(l) \/ LogFault(l)
      PROVE  Recorded \subseteq Recorded' /\ faults' = faults
  <2>1. \A i \in DOMAIN table : i \in DOMAIN table' /\ table'[i] = table[i]
    BY <1>t, <1>3 DEF LogPlay, LogFault, Inserted
  <2>2. QED
    BY <1>3, <2>1 DEF Recorded, LogPlay, LogFault
<1>4. CASE SelectLogs \/ SendLogs \/ OnSuccess \/ Reconnect \/ CommitTx \/ RollBackTx
  BY <1>t, <1>1, <1>2, <1>4 DEF SelectLogs, SendLogs, OnSuccess, Reconnect, CommitTx, RollBackTx
<1>5. CASE LinkBreaks \/ EdgeCrash \/ PlayerCrash \/ HandleLogReport \/ GatewayCrash
  BY <1>t, <1>1, <1>2, <1>5 DEF LinkBreaks, EdgeCrash, PlayerCrash, PlayerDies, HandleLogReport,
                                GatewayCrash
<1>6. ASSUME NEW l \in Logs, ForwardLog(l) PROVE UNCHANGED table /\ faults' \in Nat /\ faults <= faults'
  BY <1>t, <1>2, <1>6 DEF ForwardLog
<1>7. CASE StartConsuming \/ AutoCommit \/ Poll \/ GetDbConnection
  BY <1>t, <1>1, <1>2, <1>7 DEF StartConsuming, AutoCommit, Poll, GetDbConnection
<1>8. ASSUME NEW o \in todo, InsertLogRecord(o) PROVE UNCHANGED table /\ faults' \in Nat /\ faults <= faults'
  BY <1>t, <1>2, <1>8 DEF InsertLogRecord
<1>9. CASE InsertBatchDone \/ DbConnectionDies \/ Stop \/ StopCompletes \/ ConsumerCrash
  BY <1>t, <1>1, <1>2, <1>9 DEF InsertBatchDone, DbConnectionDies, Stop, StopCompletes,
                                ConsumerCrash, ConsumerEnds
<1>10. CASE UNCHANGED vars
  BY <1>t, <1>1, <1>10 DEF vars
<1>11. QED
  BY <1>t, <1>1, <1>3, <1>4, <1>5, <1>6, <1>7, <1>8, <1>9, <1>10 DEF Next

(* A rollback takes back one row at most, and its mark with it.                  *)
LEMMA RollBackKeeps ==
  ASSUME TypeInv, TypeInv', RollbackInv, RollBack, UNCHANGED table, faults' = faults + 1
  PROVE  RollbackInv'
<1>1. /\ undone' = undone \cup pending.rows /\ pending'.rows = {}
      /\ uploaded' = uploaded \ pending.marks /\ Recorded' = Recorded
  BY DEF RollBack, Nothing, Recorded
<1>2. IsFiniteSet(undone) /\ Cardinality(undone) <= faults /\ faults \in Nat
  BY DEF RollbackInv, RollbacksCost, TypeInv, TypeOK
<1>3. IsFiniteSet(undone') /\ Cardinality(undone') <= faults'
  <2>1. CASE pending.rows = {}
    <3>1. undone' = undone /\ Cardinality(undone) \in Nat
      BY <1>1, <1>2, <2>1, FS_CardinalityType
    <3>2. QED
      BY <1>2, <3>1
  <2>2. ASSUME NEW l \in Logs, pending.rows = {l}
        PROVE  IsFiniteSet(undone') /\ Cardinality(undone') <= faults'
    <3>1. undone' = undone \cup {l}
      BY <1>1, <2>2
    <3>2. /\ IsFiniteSet(undone') /\ Cardinality(undone) \in Nat
          /\ \/ Cardinality(undone') = Cardinality(undone)
             \/ Cardinality(undone') = Cardinality(undone) + 1
      BY <1>2, <3>1, FS_AddElement, FS_CardinalityType
    <3>3. QED
      BY <1>2, <3>2
  <2>3. QED
    BY <2>1, <2>2 DEF RollbackInv
<1>4. undone' \subseteq Recorded' \ (FaultRows \cup uploaded')
  BY <1>1 DEF RollbackInv, RollbacksCost
<1>5. RollbacksCost'
  BY <1>3, <1>4 DEF RollbacksCost
<1>6. QED
  BY <1>1, <1>3, <1>5 DEF RollbackInv

(* The same of every step.                                                       *)
LEMMA RollbackStep ==
  ASSUME TypeInv, TypeInv', RollbackInv, [Next]_vars
  PROVE  RollbackInv'
<1> USE DEF setup, txVars, fileVars, edgeVars, netVars, consumerVars, history
<1>t. /\ table \in Seq(Logs) /\ faults \in Nat /\ faults' \in Nat /\ faults <= faults'
      /\ Recorded \subseteq Recorded' /\ IsFiniteSet(undone) /\ Cardinality(undone) \in Nat
      /\ pending \in [rows : SUBSET Logs, marks : SUBSET Logs]
  BY TableGrows, FS_CardinalityType DEF RollbackInv, TypeInv, TypeOK
<1>0. ASSUME UNCHANGED <<undone, uploaded, pending>> PROVE RollbackInv'
  <2>1. RollbacksCost'
    BY <1>t, <1>0 DEF RollbackInv, RollbacksCost
  <2>2. QED
    BY <1>t, <1>0, <2>1 DEF RollbackInv
<1>1. ASSUME NEW l \in Logs, LogPlay(l) PROVE RollbackInv'
  <2>1. /\ UNCHANGED <<undone, uploaded>> /\ pending.rows = {}
        /\ l \notin Recorded /\ l \notin FaultRows /\ table' = Append(table, l)
    BY <1>1 DEF LogPlay, Inserted, Locked
  <2>2. l \in Recorded'
    <3>1. Len(table) \in Nat
      BY <1>t
    <3>2. Len(table) + 1 \in DOMAIN table' /\ table'[Len(table) + 1] = l
      BY <1>t, <2>1, <3>1
    <3>3. QED
      BY <3>2 DEF Recorded
  <2>3. RollbacksCost'
    BY <1>t, <2>1 DEF RollbackInv, RollbacksCost
  <2>4. pending'.rows = {} \/ pending'.rows = {l}
    BY <1>1, <2>1 DEF LogPlay, Joins
  <2>5. l \notin uploaded
    BY <2>1 DEF RollbackInv
  <2>6. QED
    BY <1>t, <2>1, <2>2, <2>3, <2>4, <2>5 DEF RollbackInv
<1>2. ASSUME NEW l \in Logs, LogFault(l) PROVE RollbackInv'
  BY <1>0, <1>2 DEF LogFault
<1>3. CASE CommitTx
  <2>1. UNCHANGED <<table, undone, uploaded>> /\ pending'.rows = {}
    BY <1>3 DEF CommitTx, Nothing
  <2>2. RollbacksCost'
    BY <1>t, <2>1 DEF RollbackInv, RollbacksCost
  <2>3. QED
    BY <1>t, <2>1, <2>2 DEF RollbackInv
<1>4. CASE RollBackTx
  BY <1>4, RollBackKeeps DEF RollBackTx, Happens
<1>5. CASE PlayerCrash
  BY <1>5, RollBackKeeps DEF PlayerCrash, PlayerDies, Happens
<1>6. CASE EdgeCrash
  BY <1>0, <1>6, RollBackKeeps DEF EdgeCrash, PlayerDies, Happens
<1>7. CASE OnSuccess
  <2>1. CASE UNCHANGED <<uploaded, pending>>
    BY <1>0, <1>7, <2>1 DEF OnSuccess
  <2>2. CASE /\ provider = "raw" => ~Locked
             /\ uploaded' = MarkSent
             /\ IF provider = "raw" THEN UNCHANGED pending ELSE Joins({}, MarkSent \ uploaded)
    <3>1. UNCHANGED <<table, undone>> /\ Recorded' = Recorded
      BY <1>7 DEF OnSuccess, Recorded
    <3>2. uploaded' = uploaded \cup (sender.logs \cap (Recorded \ undone))
      BY <2>2 DEF MarkSent, Rows
    <3>3. pending'.rows = pending.rows
      BY <2>2 DEF Joins
    <3>4. pending'.rows \cap uploaded' \subseteq pending'.marks
      <4>1. CASE pending.rows = {}
        BY <3>3, <4>1
      <4>2. CASE pending.rows # {}
        <5>1. pending'.marks = pending.marks \cup (MarkSent \ uploaded)
          BY <2>2, <4>2 DEF Joins, Locked, Nothing
        <5>2. QED
          BY <2>2, <3>3, <5>1 DEF RollbackInv
      <4>3. QED
        BY <4>1, <4>2
    <3>5. RollbacksCost'
      BY <1>t, <3>1, <3>2 DEF RollbackInv, RollbacksCost
    <3>6. QED
      BY <1>t, <3>1, <3>2, <3>3, <3>4, <3>5 DEF RollbackInv
  <2>3. QED
    BY <1>7, <2>1, <2>2 DEF OnSuccess
<1>8. CASE SelectLogs \/ SendLogs \/ Reconnect \/ LinkBreaks \/ HandleLogReport \/ GatewayCrash
  BY <1>0, <1>8 DEF SelectLogs, SendLogs, Reconnect, LinkBreaks, HandleLogReport, GatewayCrash
<1>9. ASSUME NEW l \in Logs, ForwardLog(l) PROVE RollbackInv'
  BY <1>0, <1>9 DEF ForwardLog
<1>10. CASE StartConsuming \/ AutoCommit \/ Poll \/ GetDbConnection
  BY <1>0, <1>10 DEF StartConsuming, AutoCommit, Poll, GetDbConnection
<1>11. ASSUME NEW o \in todo, InsertLogRecord(o) PROVE RollbackInv'
  BY <1>0, <1>11 DEF InsertLogRecord
<1>12. CASE InsertBatchDone \/ DbConnectionDies \/ Stop \/ StopCompletes \/ ConsumerCrash
  BY <1>0, <1>12 DEF InsertBatchDone, DbConnectionDies, Stop, StopCompletes, ConsumerCrash,
                     ConsumerEnds
<1>13. CASE UNCHANGED vars
  BY <1>0, <1>13 DEF vars
<1>14. QED
  BY <1>1, <1>2, <1>3, <1>4, <1>5, <1>6, <1>7, <1>8, <1>9, <1>10, <1>11, <1>12, <1>13 DEF Next

(* At the start nothing has been rolled back.                                    *)
LEMMA RollbackInit == Init => RollbackInv
<1> SUFFICES ASSUME Init PROVE RollbackInv
  OBVIOUS
<1>1. undone = {} /\ uploaded = {} /\ pending.rows = {} /\ faults = 0
  BY DEF Init, Nothing
<1>2. IsFiniteSet({}) /\ Cardinality({}) = 0
  BY FS_EmptySet
<1>3. QED
  BY <1>1, <1>2 DEF RollbackInv, RollbacksCost

(* No log vanishes without a trace: one that the device has marked uploaded is   *)
(* on its way, in the topic or in the consumer's memory, in ad_logs, or was      *)
(* given up where the code gives logs up; what has been committed is held,       *)
(* stored or given up; a mark that is lost or rolled back, or a crash of the      *)
(* consumer, costs none; and a rollback takes back one row at most, which is not *)
(* marked (NetworkClient::wsLoop, EdgeManager::recordPlayEnd, handleLogReport,   *)
(* KafkaConsumer.start_consuming).                                               *)
THEOREM LogsAreAccounted == Spec => []LogsAccounted
<1>1. Init => AccountInv
  <2> SUFFICES ASSUME Init PROVE AccountInv
    OBVIOUS
  <2>1. UploadedAccounted /\ SentAccounted
    BY DEF Init, UploadedAccounted, SentAccounted
  <2>2. ReadOffsets /\ PassedOffsets /\ HoldsUncommitted
    BY DEF Init, ReadOffsets, PassedOffsets, HoldsUncommitted
  <2>3. QED
    BY <2>1, <2>2 DEF AccountInv
<1>2. TypeInv /\ TypeInv' /\ AccountInv /\ [Next]_vars => AccountInv'
  BY UploadedStep, OffsetsStep, UncommittedStep DEF AccountInv
<1>3. TypeInv /\ AccountInv /\ RollbackInv => LogsAccounted
  <2> SUFFICES ASSUME TypeInv, AccountInv, RollbackInv PROVE LogsAccounted
    OBVIOUS
  <2>1. RetriesLoseNothing
    BY DEF AccountInv, HoldsUncommitted, RetriesLoseNothing
  <2>2. ReadAccounted
    <3> SUFFICES ASSUME NEW l \in LogsAt(1 .. committed)
                 PROVE  l \in LogsAt(fetched \cup batch) \cup stored \cup dropped
      BY DEF ReadAccounted
    <3>1. committed \in 0..position /\ position \in Nat
      BY DEF TypeInv, TypeOK
    <3>2. PICK o \in 1..committed : o \in DOMAIN topic /\ topic[o] = l
      BY DEF LogsAt
    <3>3. o \in fetched \cup batch \/ topic[o] \in stored \cup dropped
      BY <3>1, <3>2 DEF AccountInv, ReadOffsets
    <3>4. o \in fetched \cup batch => l \in LogsAt(fetched \cup batch)
      BY <3>2 DEF LogsAt
    <3>5. QED
      BY <3>2, <3>3, <3>4
  <2>3. QED
    BY <2>1, <2>2 DEF LogsAccounted, AccountInv, RollbackInv
<1>4. QED
  BY TypeInit, TypeStep, RollbackInit, RollbackStep, <1>1, <1>2, <1>3, PTL DEF Spec

--------------------------------------------------------------------------------
(* The ledger: nothing enters the pipeline that is not in the device's table.    *)
LEMMA RecordedStep ==
  ASSUME TypeInv, TypeInv', OnlyRecorded, [Next]_vars
  PROVE  OnlyRecorded' /\ Recorded \subseteq Recorded'
<1> USE DEF setup, txVars, fileVars, edgeVars, netVars, consumerVars, history
<1>t. /\ topic \in Seq(Logs) /\ table \in Seq(Logs) /\ wire \in Seq(SUBSET Logs)
      /\ Len(wire) \in Nat /\ Len(topic) \in Nat
      /\ sender \in [st : {"idle", "selected", "sent", "stopped"}, logs : SUBSET Logs]
  BY DEF TypeInv, TypeOK
<1>a. \A S : LogsAt(S) \subseteq Recorded
  BY <1>t DEF LogsAt, OnlyRecorded
<1>u. Union(wire) \subseteq Recorded
  BY <1>t DEF Union, OnlyRecorded
<1>r. UNCHANGED table => Recorded' = Recorded
  BY DEF Recorded
<1>1. ASSUME NEW l \in Logs, LogPlay(l) \/ LogFault(l)
      PROVE  OnlyRecorded' /\ Recorded \subseteq Recorded'
  <2>1. Recorded \subseteq Recorded'
    BY TableGrows
  <2>2. UNCHANGED <<stored, dropped, sender, gw, wire, topic>>
    BY <1>1 DEF LogPlay, LogFault
  <2>3. QED
    BY <2>1, <2>2 DEF OnlyRecorded
<1>2. ASSUME UNCHANGED table,
             stored' \cup dropped' \cup sender'.logs \cup gw' \subseteq Recorded,
             \A i \in 1..Len(wire') : wire'[i] \subseteq Recorded,
             \A o \in 1..Len(topic') : topic'[o] \in Recorded
      PROVE  OnlyRecorded' /\ Recorded \subseteq Recorded'
  BY <1>2, <1>r DEF OnlyRecorded
<1>3. ASSUME UNCHANGED <<table, sender, gw, wire, topic>>, stored' \cup dropped' \subseteq Recorded
      PROVE  OnlyRecorded' /\ Recorded \subseteq Recorded'
  BY <1>2, <1>3 DEF OnlyRecorded
<1>4. CASE SelectLogs
  <2>1. Oldest \subseteq Recorded
    BY DEF Oldest, Waiting, Recorded
  <2>2. UNCHANGED <<table, stored, dropped, gw, wire, topic>> /\ sender'.logs = Oldest
    BY <1>4 DEF SelectLogs
  <2>3. QED
    BY <1>2, <2>1, <2>2 DEF OnlyRecorded
<1>5. CASE SendLogs
  <2>1. UNCHANGED <<table, stored, dropped, gw, topic>>
    BY <1>5 DEF SendLogs
  <2>2. sender'.logs \subseteq Recorded
    BY <1>t, <1>5 DEF SendLogs, OnlyRecorded
  <2>3. \A i \in 1..Len(wire') : wire'[i] \subseteq Recorded
    <3>1. wire' = wire \/ wire' = Append(wire, sender.logs)
      BY <1>5 DEF SendLogs
    <3>2. QED
      BY <1>t, <3>1 DEF OnlyRecorded
  <2>4. QED
    BY <1>2, <2>1, <2>2, <2>3 DEF OnlyRecorded
<1>6. CASE OnSuccess \/ Reconnect
  <2>1. UNCHANGED <<table, stored, dropped, gw, wire, topic>> /\ sender'.logs = {}
    BY <1>6 DEF OnSuccess, Reconnect
  <2>2. QED
    BY <1>2, <2>1 DEF OnlyRecorded
<1>7. ASSUME NEW n \in 0..Len(wire), LoseWire(n), UNCHANGED <<table, stored, gw, topic>>,
             sender'.logs \subseteq sender.logs
      PROVE  OnlyRecorded' /\ Recorded \subseteq Recorded'
  <2>1. \A i \in 1..Len(wire') : wire'[i] \subseteq Recorded
    <3>1. \A i \in 1..Len(wire') : i \in 1..Len(wire) /\ wire'[i] = wire[i]
      BY <1>t, <1>7, SubSeqProperties DEF LoseWire
    <3>2. QED
      BY <3>1 DEF OnlyRecorded
  <2>2. dropped' \subseteq Recorded
    <3>1. DEFINE back == SubSeq(wire, n + 1, Len(wire))
    <3>2. \A i \in DOMAIN back : \E j \in 1..Len(wire) : back[i] = wire[j]
      <4>1. DOMAIN back = 1..(Len(wire) - n) /\ \A i \in 1..(Len(wire) - n) : back[i] = wire[n + i]
        BY <1>t, SubSeqProperties
      <4>2. QED
        BY <1>t, <4>1
    <3>3. Union(back) \subseteq Recorded
      BY <3>2 DEF Union, OnlyRecorded
    <3>4. QED
      BY <1>7, <3>3 DEF LoseWire, OnlyRecorded
  <2>3. QED
    BY <1>2, <1>7, <2>1, <2>2 DEF OnlyRecorded
<1>8. CASE LinkBreaks
  BY <1>7, <1>8 DEF LinkBreaks
<1>9. CASE EdgeCrash
  BY <1>7, <1>9 DEF EdgeCrash, PlayerDies
<1>19. CASE CommitTx \/ RollBackTx \/ PlayerCrash
  BY <1>3, <1>19 DEF CommitTx, RollBackTx, PlayerCrash, PlayerDies, OnlyRecorded
<1>10. CASE HandleLogReport
  <2>1. UNCHANGED <<table, stored, sender, topic>> /\ wire # <<>> /\ wire' = Tail(wire)
    BY <1>10 DEF HandleLogReport
  <2>2. Head(wire) \subseteq Recorded /\ \A i \in 1..Len(wire') : wire'[i] \subseteq Recorded
    BY <1>t, <2>1 DEF OnlyRecorded
  <2>3. gw' \cup dropped' \subseteq Recorded
    BY <1>10, <2>2 DEF HandleLogReport, OnlyRecorded
  <2>4. QED
    BY <1>2, <2>1, <2>2, <2>3 DEF OnlyRecorded
<1>11. ASSUME NEW l \in Logs, ForwardLog(l) PROVE OnlyRecorded' /\ Recorded \subseteq Recorded'
  <2>1. UNCHANGED <<table, stored, sender, wire>> /\ l \in Recorded
    BY <1>11 DEF ForwardLog, OnlyRecorded
  <2>2. gw' \cup dropped' \subseteq Recorded
    BY <1>11, <2>1 DEF ForwardLog, OnlyRecorded
  <2>3. \A o \in 1..Len(topic') : topic'[o] \in Recorded
    <3>1. topic' = topic \/ topic' = Append(topic, l)
      BY <1>11 DEF ForwardLog
    <3>2. QED
      BY <1>t, <2>1, <3>1 DEF OnlyRecorded
  <2>4. QED
    BY <1>2, <2>1, <2>2, <2>3 DEF OnlyRecorded
<1>12. CASE GatewayCrash
  <2>1. /\ UNCHANGED <<table, stored, sender, topic>> /\ wire' = <<>> /\ gw' = {}
        /\ dropped' = dropped \cup gw \cup Union(wire)
    BY <1>12 DEF GatewayCrash
  <2>2. QED
    BY <1>2, <1>u, <2>1 DEF OnlyRecorded
<1>13. CASE StartConsuming \/ AutoCommit \/ Poll \/ InsertBatchDone \/ DbConnectionDies \/ Stop
  BY <1>3, <1>13 DEF StartConsuming, AutoCommit, Poll, InsertBatchDone, DbConnectionDies, Stop,
                     OnlyRecorded
<1>14. CASE GetDbConnection
  BY <1>3, <1>14, <1>a DEF GetDbConnection, OnlyRecorded
<1>15. ASSUME NEW o \in todo, InsertLogRecord(o) PROVE OnlyRecorded' /\ Recorded \subseteq Recorded'
  BY <1>3, <1>15, <1>a DEF InsertLogRecord, OnlyRecorded
<1>16. CASE StopCompletes \/ ConsumerCrash
  BY <1>3, <1>16, <1>a DEF StopCompletes, ConsumerCrash, ConsumerEnds, OnlyRecorded
<1>17. CASE UNCHANGED vars
  BY <1>3, <1>17 DEF vars, OnlyRecorded
<1>18. QED
  BY <1>1, <1>4, <1>5, <1>6, <1>8, <1>9, <1>10, <1>11, <1>12, <1>13, <1>14, <1>15, <1>16,
     <1>17, <1>19 DEF Next

(* The four states of a log exclude each other.                                  *)
LEMMA StatusOf ==
  \A l : /\ Status(l) = "stored" <=> l \in stored
         /\ Status(l) = "lost" <=> l \in (dropped \cup undone) \ stored
         /\ Status(l) = "pending" <=> l \in Recorded \ (stored \cup dropped \cup undone)
         /\ Status(l) = "absent" <=> l \notin Recorded \cup stored \cup dropped \cup undone
BY DEF Status

(* Every behaviour of the pipeline is one of the ledger: billing sees a log      *)
(* appear on a device, then stored or lost, on the way or with the transaction   *)
(* its row had joined; a stored one stays stored, and nothing is stored or lost  *)
(* that no device recorded.                                                      *)
THEOREM ImplementsLedger == Spec => LedgerSpec
<1> DEFINE status == [l \in Logs |-> Status(l)]
<1>1. Init => Ledger!LedgerInit /\ OnlyRecorded
  BY DEF Init, Ledger!LedgerInit, OnlyRecorded, Status, Recorded
<1>2. ASSUME TypeInv, TypeInv', RollbackInv, RollbackInv', OnlyRecorded, OnlyRecorded',
             Recorded \subseteq Recorded', [Next]_vars
      PROVE  [Ledger!LedgerNext]_status
  <2> USE DEF setup, txVars, fileVars, edgeVars, netVars, consumerVars, history
  <2>1. /\ stored \subseteq Recorded /\ dropped \subseteq Recorded /\ stored' \subseteq Recorded'
        /\ dropped' \subseteq Recorded' /\ topic \in Seq(Logs) /\ dropped' \subseteq Logs
        /\ undone \subseteq Recorded /\ undone' \subseteq Recorded' /\ undone' \subseteq Logs
    BY <1>2 DEF OnlyRecorded, RollbackInv, RollbacksCost, TypeInv, TypeOK
  <2>2. \A l \in Logs : status[l] = Status(l) /\ status'[l] = Status(l)'
    OBVIOUS
  <2>s. /\ \A l : /\ Status(l) = "stored" <=> l \in stored
                  /\ Status(l) = "lost" <=> l \in (dropped \cup undone) \ stored
                  /\ Status(l) = "pending" <=> l \in Recorded \ (stored \cup dropped \cup undone)
                  /\ Status(l) = "absent" <=> l \notin Recorded \cup stored \cup dropped \cup undone
        /\ \A l : /\ Status(l)' = "stored" <=> l \in stored'
                  /\ Status(l)' = "lost" <=> l \in (dropped' \cup undone') \ stored'
                  /\ Status(l)' = "pending" <=> l \in Recorded' \ (stored' \cup dropped' \cup undone')
                  /\ Status(l)' = "absent" <=> l \notin Recorded' \cup stored' \cup dropped' \cup undone'
    BY StatusOf DEF Status
  <2>3. ASSUME UNCHANGED <<table, stored>>, dropped \subseteq dropped', undone \subseteq undone'
        PROVE  [Ledger!LedgerNext]_status
    <3> DEFINE S == (dropped' \cup undone') \ (dropped \cup undone \cup stored)
    <3>1. Recorded' = Recorded
      BY <2>3 DEF Recorded
    <3>2. S \in SUBSET Logs /\ \A l \in S : status[l] = "pending"
      BY <2>1, <2>2, <2>s, <3>1
    <3>3. \A l \in Logs : Status(l)' = IF l \in S THEN "lost" ELSE Status(l)
      BY <2>1, <2>3, <3>1 DEF Status
    <3>4. status' = [l \in Logs |-> IF l \in S THEN "lost" ELSE status[l]]
      BY <3>3
    <3>5. Ledger!LoseLogs(S)
      BY <3>2, <3>4 DEF Ledger!LoseLogs
    <3>6. QED
      BY <3>2, <3>5 DEF Ledger!LedgerNext
  <2>4. ASSUME NEW l \in Logs, LogPlay(l) \/ LogFault(l) PROVE [Ledger!LedgerNext]_status
    <3>1. UNCHANGED <<stored, dropped, undone>> /\ l \notin Recorded /\ table' = Append(table, l)
      BY <2>4 DEF LogPlay, LogFault, Inserted
    <3>2. Recorded' = Recorded \cup {l}
      <4>1. table \in Seq(Logs)
        BY <1>2 DEF TypeInv, TypeOK
      <4>2. /\ DOMAIN table = 1..Len(table) /\ DOMAIN table' = 1..(Len(table) + 1)
            /\ table'[Len(table) + 1] = l /\ Len(table) \in Nat
            /\ \A i \in 1..Len(table) : table'[i] = table[i]
        BY <3>1, <4>1
      <4>3. Recorded' \subseteq Recorded \cup {l}
        <5>1. SUFFICES ASSUME NEW i \in 1..(Len(table) + 1) PROVE table'[i] \in Recorded \cup {l}
          BY <4>2 DEF Recorded
        <5>2. i \in 1..Len(table) \/ i = Len(table) + 1
          BY <4>2
        <5>3. QED
          BY <4>2, <5>2 DEF Recorded
      <4>4. l \in Recorded'
        <5>1. Len(table) + 1 \in DOMAIN table' /\ table'[Len(table) + 1] = l
          BY <4>2
        <5>2. QED
          BY <5>1 DEF Recorded
      <4>5. QED
        BY <1>2, <4>3, <4>4
    <3>3. Status(l) = "absent" /\ Status(l)' = "pending"
      BY <2>1, <2>s, <3>1, <3>2
    <3>4. \A x \in Logs : x # l => Status(x)' = Status(x)
      BY <3>1, <3>2 DEF Status
    <3>5. status' = [status EXCEPT ![l] = "pending"]
      BY <3>3, <3>4
    <3>6. Ledger!RecordLog(l)
      BY <3>3, <3>5 DEF Ledger!RecordLog
    <3>7. QED
      BY <3>6 DEF Ledger!LedgerNext
  <2>5. ASSUME NEW o \in todo, InsertLogRecord(o) PROVE [Ledger!LedgerNext]_status
    <3>1. o \in 1..Len(topic)
      BY <1>2 DEF TypeInv, TypeOK
    <3>2. LogsAt({o}) = {topic[o]} /\ topic[o] \in Logs /\ topic[o] \in Recorded
      BY <1>2, <2>1, <3>1 DEF LogsAt, OnlyRecorded
    <3>3. UNCHANGED <<table, undone>>
      BY <2>5 DEF InsertLogRecord
    <3>4. CASE UNCHANGED stored /\ dropped \subseteq dropped'
      BY <2>3, <3>3, <3>4
    <3>5. CASE stored' = stored \cup {topic[o]} /\ dropped' = dropped
      <4>1. Recorded' = Recorded
        BY <3>3 DEF Recorded
      <4>2. CASE topic[o] \in stored
        <5>1. stored' = stored
          BY <3>5, <4>2
        <5>2. QED
          BY <2>3, <3>3, <3>5, <5>1
      <4>3. CASE topic[o] \notin stored
        <5>1. Status(topic[o]) \in {"pending", "lost"}
          BY <2>s, <3>2, <4>3
        <5>2. \A x \in Logs : Status(x)' = IF x = topic[o] THEN "stored" ELSE Status(x)
          BY <3>3, <3>5, <4>1 DEF Status
        <5>3. status' = [status EXCEPT ![topic[o]] = "stored"]
          BY <3>2, <5>2
        <5>4. Ledger!StoreLog(topic[o])
          BY <3>2, <5>1, <5>3 DEF Ledger!StoreLog
        <5>5. QED
          BY <3>2, <5>4 DEF Ledger!LedgerNext
      <4>4. QED
        BY <4>2, <4>3
    <3>6. QED
      BY <2>5, <3>2, <3>4, <3>5 DEF InsertLogRecord
  <2>6. ASSUME NEW l \in Logs, ForwardLog(l) PROVE [Ledger!LedgerNext]_status
    BY <2>3, <2>6 DEF ForwardLog
  <2>7. CASE SelectLogs \/ SendLogs \/ OnSuccess \/ Reconnect \/ CommitTx
    BY <2>3, <2>7 DEF SelectLogs, SendLogs, OnSuccess, Reconnect, CommitTx
  <2>8. CASE LinkBreaks \/ HandleLogReport \/ GatewayCrash
    BY <2>3, <2>8 DEF LinkBreaks, HandleLogReport, GatewayCrash, LoseWire
  <2>13. CASE EdgeCrash \/ PlayerCrash \/ RollBackTx
    BY <2>3, <2>13 DEF EdgeCrash, PlayerCrash, RollBackTx, PlayerDies, RollBack, LoseWire
  <2>9. CASE StartConsuming \/ AutoCommit \/ Poll \/ GetDbConnection
    BY <2>3, <2>9 DEF StartConsuming, AutoCommit, Poll, GetDbConnection
  <2>10. CASE InsertBatchDone \/ DbConnectionDies \/ Stop \/ StopCompletes \/ ConsumerCrash
    BY <2>3, <2>10 DEF InsertBatchDone, DbConnectionDies, Stop, StopCompletes, ConsumerCrash,
                       ConsumerEnds
  <2>11. CASE UNCHANGED vars
    BY <2>3, <2>11 DEF vars
  <2>12. QED
    BY <1>2, <2>4, <2>5, <2>6, <2>7, <2>8, <2>9, <2>10, <2>11, <2>13 DEF Next
<1>3. TypeInv /\ TypeInv' /\ OnlyRecorded /\ [Next]_vars => OnlyRecorded' /\ Recorded \subseteq Recorded'
  BY RecordedStep
<1>4. QED
  BY TypeInit, TypeStep, RollbackInit, RollbackStep, <1>1, <1>2, <1>3, PTL
     DEF Spec, LedgerSpec, Ledger!LedgerSpec
================================================================================
