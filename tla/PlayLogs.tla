-------------------------------- MODULE PlayLogs --------------------------------
(* The way of a device's log rows to billing: the log table of the device's     *)
(* SQLite file, the sender thread of NetworkClient, the WebSocket, the          *)
(* gateway's handleLogReport, the Kafka topic (one partition per device: the    *)
(* key is the device id), the control plane's consumer and its ad_logs table.   *)
(* A row is its log_id; a batch is a set, its order is not kept.  Of the        *)
(* player's transactions, which EdgeDatabase models statement by statement,     *)
(* only what they do to the log table is here: a row or a mark may join one     *)
(* that another thread has open, and is committed or rolled back with it.       *)
EXTENDS Integers, Sequences, FiniteSets

CONSTANTS
  Logs,        (* log ids a device may write                                   *)
  FaultRows,   (* those written by Watchdog::logFault, without a duration      *)
  Providers,   (* who reports: "typed" EdgeManager::getLogs, "raw" the watchdog *)
  BatchLimit,  (* logProvider(50), max_poll_records                            *)
  MaxFaults    (* bound: faults and rollbacks in one behaviour                 *)

(* What retries make up for, of the faults below: after a statement that fails  *)
(* on the device or is rolled back, and a crash of the consumer, what was not   *)
(* marked is sent again and what was not committed is polled again.             *)
Retried == {"sql", "rollback", "consumer"}

ASSUME PlayLogConstants ==
  /\ FaultRows \subseteq Logs
  /\ Providers \subseteq {"typed", "raw"}
  /\ BatchLimit \in Nat \ {0}
  /\ MaxFaults \in Nat

VARIABLES
  provider,   (* which of the two programs holds the WebSocket                 *)
  kafka,      (* KAFKA_BROKERS is set: handleLogReport has a producer          *)
  table,      (* the rows inserted into the log table, ORDER BY created_at     *)
  undone,     (* those of them whose insertion was rolled back                 *)
  uploaded,   (* rows with uploaded = 1                                        *)
  pending,    (* rows and marks that have joined a transaction still open      *)
  link,       (* the device's WebSocket is connected                           *)
  sender,     (* sendLogs: where it stands, and the batch it holds             *)
  wire,       (* "log" messages the gateway has not read yet                   *)
  gw,         (* logs of the message handleLogReport is working on             *)
  topic,      (* the topic                                                     *)
  committed,  (* the group's committed offset                                  *)
  position,   (* the offset the running consumer has polled up to              *)
  consumer,   (* start_consuming: where it stands, and self.running            *)
  fetched,    (* offsets poll returned, before there is a DB connection        *)
  batch,      (* offsets in the local list batch                               *)
  todo,       (* those of them _insert_batch has yet to insert                 *)
  stored,     (* ad_logs                                                       *)
  dropped,    (* history: logs of which a copy was given up for good           *)
  faults,     (* history: number of faults and rollbacks that have happened    *)
  harmed      (* history: one of them was none that retries make up for        *)

txVars == <<undone, pending>>
fileVars == <<table, uploaded, txVars>>
edgeVars == <<fileVars, sender>>
netVars == <<link, wire>>
consumerVars == <<committed, position, consumer, fetched, batch, todo, stored>>
setup == <<provider, kafka>>
history == <<faults, harmed>>
vars == <<setup, edgeVars, netVars, gw, topic, consumerVars, dropped, history>>

Recorded == {table[i] : i \in DOMAIN table}
Rows == Recorded \ undone
Union(q) == UNION {q[i] : i \in DOMAIN q}
LogsAt(offsets) == {topic[o] : o \in offsets \cap DOMAIN topic}

Nothing == [rows |-> {}, marks |-> {}]

Happens(f) ==
  /\ faults < MaxFaults
  /\ faults' = faults + 1
  /\ harmed' = (harmed \/ f \notin Retried)

Init ==
  /\ provider \in Providers
  /\ kafka \in BOOLEAN
  /\ table = <<>>
  /\ undone = {}
  /\ uploaded = {}
  /\ pending = Nothing
  /\ link = FALSE
  /\ sender = [st |-> "idle", logs |-> {}]
  /\ wire = <<>>
  /\ gw = {}
  /\ topic = <<>>
  /\ committed = 0
  /\ position = 0
  /\ consumer = [st |-> "down", running |-> FALSE]
  /\ fetched = {}
  /\ batch = {}
  /\ todo = {}
  /\ stored = {}
  /\ dropped = {}
  /\ faults = 0
  /\ harmed = FALSE

--------------------------------------------------------------------------------
(* The device.                                                                  *)

KeepLast(l) ==  (* mutant: the table is trimmed the way play_history is *)
  Append(IF Len(table) < BatchLimit THEN table ELSE Tail(table), l)

Inserted(l) == Append(table, l)

(* A statement of the player joins whatever transaction is open on its          *)
(* connection, and is committed at once when there is none.                     *)
Joins(rows, marks) ==
  \/ pending = Nothing /\ UNCHANGED pending
  \/ pending' = [rows |-> pending.rows \cup rows, marks |-> pending.marks \cup marks]

(* A row of the player waits for COMMIT.  The watchdog's connection is locked   *)
(* out (SQLITE_BUSY), and recordPlayEnd, which has written it, goes on to its   *)
(* own BEGIN, which fails and rolls back unless the other thread ends first.    *)
Locked == pending.rows # {}

(* EdgeManager::log, called by recordPlayEnd before its own BEGIN: in a load's  *)
(* transaction if one is open.  A failed INSERT is as if nothing was played.    *)
LogPlay(l) ==
  /\ l \notin Recorded \cup FaultRows
  /\ ~Locked
  /\ table' = Inserted(l)
  /\ Joins({l}, {})
  /\ UNCHANGED <<setup, uploaded, undone, sender, netVars, gw, topic, consumerVars,
                 dropped, history>>

(* Watchdog::logFault; a row that fails is never seen again. *)
LogFault(l) ==
  /\ l \in FaultRows \ Recorded
  /\ ~Locked
  /\ table' = Inserted(l)
  /\ UNCHANGED <<setup, uploaded, txVars, sender, netVars, gw, topic, consumerVars,
                 dropped, history>>

(* The thread that opened the transaction, or another one, commits it. *)
CommitTx ==
  /\ pending # Nothing
  /\ pending' = Nothing
  /\ UNCHANGED <<setup, table, uploaded, undone, sender, netVars, gw, topic,
                 consumerVars, dropped, history>>

RollBack ==
  /\ pending' = Nothing
  /\ undone' = undone \cup pending.rows
  /\ uploaded' = uploaded \ pending.marks

(* A catch block rolls it back: another thread's BEGIN failed because it was    *)
(* open (recordPlayEnd's, right after log()), or a statement in it did.         *)
RollBackTx ==
  /\ pending # Nothing
  /\ Happens("rollback")
  /\ RollBack
  /\ UNCHANGED <<setup, table, sender, netVars, gw, topic, consumerVars, dropped>>

(* The player's connection reads what it has not committed, the watchdog's not. *)
Readable == IF provider = "raw" THEN Rows \ pending.rows ELSE Rows

Waiting == {i \in DOMAIN table : table[i] \in Readable \ uploaded}
Earlier(i) == Cardinality({j \in Waiting : j < i})

(* SELECT ... WHERE uploaded = 0 ORDER BY created_at LIMIT 50 *)
Oldest == {table[i] : i \in {j \in Waiting : Earlier(j) < BatchLimit}}

(* getLogs converts every column; stoi("") of a fault row's duration throws and *)
(* it returns no row at all.  The watchdog passes the rows on as strings.       *)
Converted == provider = "raw" \/ Oldest \cap FaultRows = {}

SelectLogs ==
  /\ link
  /\ sender.st = "idle"
  /\ Oldest # {}
  /\ Converted
  /\ sender' = [st |-> "selected", logs |-> Oldest]
  /\ UNCHANGED <<setup, fileVars, netVars, gw, topic, consumerVars, dropped, history>>

(* ws->send; on failure the sender thread ends until the next connection. *)
SendLogs ==
  /\ sender.st = "selected"
  /\ \/ /\ link
        /\ wire' = Append(wire, sender.logs)
        /\ sender' = [sender EXCEPT !.st = "sent"]
     \/ /\ ~link
        /\ sender' = [st |-> "stopped", logs |-> {}]
        /\ UNCHANGED wire
  /\ UNCHANGED <<setup, fileVars, link, gw, topic, consumerVars, dropped, history>>

MarkAll == Rows  (* mutant: UPDATE log SET uploaded = 1 without a WHERE *)

MarkSent == uploaded \cup (sender.logs \cap Rows)

(* onSuccess: UPDATE log SET uploaded = 1 right after the send; its errors are  *)
(* swallowed, SQLITE_BUSY of a locked-out watchdog among them.  The gateway's   *)
(* log_ack is not waited for.                                                   *)
OnSuccess ==
  /\ sender.st = "sent"
  /\ \/ /\ provider = "raw" => ~Locked
        /\ uploaded' = MarkSent
        /\ IF provider = "raw" THEN UNCHANGED pending ELSE Joins({}, MarkSent \ uploaded)
        /\ UNCHANGED history
     \/ Happens("sql") /\ UNCHANGED <<uploaded, pending>>
  /\ sender' = [st |-> "idle", logs |-> {}]
  /\ UNCHANGED <<setup, table, undone, netVars, gw, topic, consumerVars, dropped>>

SenderIdle == sender.st = "idle"  (* mutant: only a sender that did not fail *)

SenderJoined == sender.st \in {"idle", "stopped"}

(* wsLoop joins the sender thread and connects again. *)
Reconnect ==
  /\ ~link
  /\ SenderJoined
  /\ link' = TRUE
  /\ sender' = [st |-> "idle", logs |-> {}]
  /\ UNCHANGED <<setup, fileVars, wire, gw, topic, consumerVars, dropped, history>>

(* What was in flight beyond the first n messages never arrives. *)
LoseWire(n) ==
  /\ link' = FALSE
  /\ wire' = SubSeq(wire, 1, n)
  /\ dropped' = dropped \cup Union(SubSeq(wire, n + 1, Len(wire)))

LinkBreaks ==
  /\ link
  /\ Happens("link")
  /\ \E n \in 0..Len(wire) : LoseWire(n)
  /\ UNCHANGED <<setup, edgeVars, gw, topic, consumerVars>>

(* The player dies: SQLite forgets the open transaction. *)
PlayerDies == RollBack /\ UNCHANGED table

(* The program that reports dies and is started again; the player does not      *)
(* follow the watchdog.                                                         *)
EdgeCrash ==
  /\ Happens("edge")
  /\ \E n \in 0..Len(wire) : LoseWire(n)
  /\ sender' = [st |-> "idle", logs |-> {}]
  /\ IF provider = "typed" THEN PlayerDies ELSE UNCHANGED fileVars
  /\ UNCHANGED <<setup, gw, topic, consumerVars>>

(* The player dies and is started again while the watchdog reports. *)
PlayerCrash ==
  /\ provider = "raw"
  /\ Happens("edge")
  /\ PlayerDies
  /\ UNCHANGED <<setup, sender, netVars, gw, topic, consumerVars, dropped>>

--------------------------------------------------------------------------------
(* The gateway.                                                                 *)

(* handleLogReport: json.Unmarshal refuses strings where PlayLogPayload has     *)
(* numbers, so the watchdog's rows are answered success=false and forgotten.    *)
HandleLogReport ==
  /\ gw = {}
  /\ wire # <<>>
  /\ wire' = Tail(wire)
  /\ \/ /\ provider = "raw"
        /\ dropped' = dropped \cup Head(wire)
        /\ UNCHANGED gw
     \/ /\ provider = "typed"
        /\ gw' = Head(wire)
        /\ UNCHANGED dropped
  /\ UNCHANGED <<setup, edgeVars, link, topic, consumerVars, history>>

(* ... one Send per log; a failed one is only logged, the batch still acked.    *)
(* Without a producer nothing is sent.                                          *)
ForwardLog(l) ==
  /\ l \in gw
  /\ gw' = gw \ {l}
  /\ \/ kafka /\ topic' = Append(topic, l) /\ UNCHANGED <<dropped, history>>
     \/ kafka /\ Happens("kafka") /\ dropped' = dropped \cup {l} /\ UNCHANGED topic
     \/ ~kafka /\ dropped' = dropped \cup {l} /\ UNCHANGED <<topic, history>>
  /\ UNCHANGED <<setup, edgeVars, netVars, consumerVars>>

GatewayCrash ==
  /\ Happens("gateway")
  /\ link' = FALSE
  /\ wire' = <<>>
  /\ gw' = {}
  /\ dropped' = dropped \cup gw \cup Union(wire)
  /\ UNCHANGED <<setup, edgeVars, topic, consumerVars>>

--------------------------------------------------------------------------------
(* The control plane's consumer thread.                                         *)

StartOffset == committed

(* A new KafkaConsumer starts where its group has committed.  When it cannot be *)
(* created the thread ends, and only a restart of the application starts one.   *)
StartConsuming ==
  /\ consumer.st = "down"
  /\ \/ consumer' = [st |-> "polling", running |-> TRUE] /\ UNCHANGED history
     \/ Happens("start") /\ consumer' = [st |-> "dead", running |-> FALSE]
  /\ position' = StartOffset
  /\ UNCHANGED <<setup, edgeVars, netVars, gw, topic, committed, fetched, batch, todo,
                 stored, dropped>>

InPoll == consumer = [st |-> "polling", running |-> TRUE]

(* enable_auto_commit: a poll first commits what earlier polls returned. *)
AutoCommit ==
  /\ InPoll
  /\ committed # position
  /\ committed' = position
  /\ UNCHANGED <<setup, edgeVars, netVars, gw, topic, position, consumer, fetched, batch,
                 todo, stored, dropped, history>>

PollPastEnd == position + BatchLimit  (* mutant: off the topic's end *)

PollUpTo == IF Len(topic) < position + BatchLimit THEN Len(topic) ELSE position + BatchLimit

Poll ==
  /\ InPoll
  /\ position < Len(topic)
  /\ fetched' = position + 1 .. PollUpTo
  /\ position' = PollUpTo
  /\ consumer' = [consumer EXCEPT !.st = "fetched"]
  /\ UNCHANGED <<setup, edgeVars, netVars, gw, topic, committed, batch, todo, stored,
                 dropped, history>>

(* _get_db_connection; if it raises, the messages are left behind the position. *)
GetDbConnection ==
  /\ consumer.st = "fetched"
  /\ fetched' = {}
  /\ \/ /\ consumer' = [consumer EXCEPT !.st = "inserting"]
        /\ batch' = batch \cup fetched
        /\ todo' = batch \cup fetched
        /\ UNCHANGED <<dropped, history>>
     \/ /\ Happens("connect")
        /\ consumer' = [consumer EXCEPT !.st = "polling"]
        /\ dropped' = dropped \cup LogsAt(fetched)
        /\ UNCHANGED <<batch, todo>>
  /\ UNCHANGED <<setup, edgeVars, netVars, gw, topic, committed, position, stored>>

(* _insert_log_record: an upsert by log_id; an error of the statement is        *)
(* swallowed and the record skipped.                                            *)
InsertLogRecord(o) ==
  /\ consumer.st = "inserting"
  /\ o \in todo
  /\ todo' = todo \ {o}
  /\ \/ stored' = stored \cup LogsAt({o}) /\ UNCHANGED <<dropped, history>>
     \/ Happens("insert") /\ dropped' = dropped \cup LogsAt({o}) /\ UNCHANGED stored
  /\ UNCHANGED <<setup, edgeVars, netVars, gw, topic, committed, position, consumer,
                 fetched, batch>>

InsertBatchDone ==
  /\ consumer.st = "inserting"
  /\ todo = {}
  /\ batch' = {}
  /\ consumer' = [consumer EXCEPT !.st = "polling"]
  /\ UNCHANGED <<setup, edgeVars, netVars, gw, topic, committed, position, fetched, todo,
                 stored, dropped, history>>

(* The connection dies: rollback() raises too and leaves _insert_batch.  The    *)
(* list batch is not cleared, and inserted with whatever the next poll brings.  *)
DbConnectionDies ==
  /\ consumer.st = "inserting"
  /\ todo # {}
  /\ Happens("dbconn")
  /\ todo' = {}
  /\ consumer' = [consumer EXCEPT !.st = "polling"]
  /\ UNCHANGED <<setup, edgeVars, netVars, gw, topic, committed, position, fetched, batch,
                 stored, dropped>>

(* stop(), from the thread that shuts the application down: close() commits     *)
(* what has been polled, inserted or not.                                       *)
Stop ==
  /\ consumer.running
  /\ Happens("stop")
  /\ consumer' = [consumer EXCEPT !.running = FALSE]
  /\ committed' = position
  /\ UNCHANGED <<setup, edgeVars, netVars, gw, topic, position, fetched, batch, todo,
                 stored, dropped>>

(* The consumer's memory is gone; what lies behind the committed offset is not  *)
(* read again.                                                                  *)
ConsumerEnds ==
  /\ consumer' = [st |-> "down", running |-> FALSE]
  /\ position' = committed
  /\ fetched' = {}
  /\ batch' = {}
  /\ todo' = {}
  /\ dropped' = dropped \cup (LogsAt({o \in batch \cup fetched : o <= committed}) \ stored)
  /\ UNCHANGED <<setup, edgeVars, netVars, gw, topic, committed, stored>>

(* while self.running ends, or the join's 5 s run out and the process exits. *)
StopCompletes ==
  /\ consumer.st \notin {"down", "dead"}
  /\ ~consumer.running
  /\ ConsumerEnds
  /\ UNCHANGED history

ConsumerCrash ==
  /\ consumer.st # "down"
  /\ Happens("consumer")
  /\ ConsumerEnds

--------------------------------------------------------------------------------
Next ==
  \/ \E l \in Logs : LogPlay(l) \/ LogFault(l) \/ ForwardLog(l)
  \/ CommitTx \/ RollBackTx
  \/ SelectLogs \/ SendLogs \/ OnSuccess \/ Reconnect \/ LinkBreaks \/ EdgeCrash
  \/ PlayerCrash
  \/ HandleLogReport \/ GatewayCrash
  \/ StartConsuming \/ AutoCommit \/ Poll \/ GetDbConnection
  \/ \E o \in todo : InsertLogRecord(o)
  \/ InsertBatchDone \/ DbConnectionDies \/ Stop \/ StopCompletes \/ ConsumerCrash

SenderThread == SelectLogs \/ SendLogs \/ OnSuccess
Gateway == HandleLogReport \/ \E l \in gw : ForwardLog(l)
ConsumerThread ==
  \/ StartConsuming \/ Poll \/ GetDbConnection \/ InsertBatchDone \/ StopCompletes
  \/ \E o \in todo : InsertLogRecord(o)

(* Every thread keeps running and processes are restarted; devices need not     *)
(* play, and no rollback or fault is owed.  An open transaction ends            *)
(* (EdgeDatabase, PendingSettles).                                              *)
Fairness ==
  /\ WF_vars(CommitTx) /\ WF_vars(SenderThread) /\ WF_vars(Reconnect)
  /\ WF_vars(Gateway) /\ WF_vars(ConsumerThread)

Spec == Init /\ [][Next]_vars
FairSpec == Spec /\ Fairness

--------------------------------------------------------------------------------
TypeOK ==
  /\ provider \in Providers
  /\ kafka \in BOOLEAN
  /\ table \in Seq(Logs)
  /\ undone \in SUBSET Logs
  /\ uploaded \in SUBSET Logs
  /\ pending \in [rows : SUBSET Logs, marks : SUBSET Logs]
  /\ link \in BOOLEAN
  /\ sender \in [st : {"idle", "selected", "sent", "stopped"}, logs : SUBSET Logs]
  /\ wire \in Seq(SUBSET Logs)
  /\ gw \in SUBSET Logs
  /\ topic \in Seq(Logs)
  /\ committed \in 0..position
  /\ position \in 0..Len(topic)
  /\ consumer \in [st : {"down", "dead", "polling", "fetched", "inserting"}, running : BOOLEAN]
  /\ fetched \in SUBSET (1..position)
  /\ batch \in SUBSET (1..position)
  /\ todo \in SUBSET batch
  /\ stored \in SUBSET Logs
  /\ dropped \in SUBSET Logs
  /\ faults \in Nat
  /\ harmed \in BOOLEAN

(* Where a log that the device no longer keeps may be. *)
Travelling == Union(wire) \cup gw \cup LogsAt(position + 1 .. Len(topic))
              \cup LogsAt(fetched \cup batch)

(* No log vanishes without a trace: one the device will not send again is on    *)
(* its way, unread in the topic, in ad_logs, or was given up at a known place.  *)
UploadedAccounted ==
  uploaded \subseteq Travelling \cup stored \cup dropped

(* What the consumer has read is stored, given up, in its memory, or beyond     *)
(* the committed offset so that a restart reads it again.                       *)
ReadAccounted ==
  LogsAt(1 .. committed) \subseteq LogsAt(fetched \cup batch) \cup stored \cup dropped

(* A crash of the consumer, and a mark that fails or is rolled back, cost        *)
(* duplicates but no log that was sent: offsets are committed only after what   *)
(* they cover was inserted, and rows stay unmarked until they are known to be   *)
(* sent.                                                                        *)
RetriesLoseNothing ==
  (provider = "typed" /\ kafka /\ ~harmed) => dropped = {}

(* What rollbacks cost the device's own table: each, and each death of the      *)
(* player, takes back one row at most, a play's, and none that is marked as     *)
(* uploaded; the watchdog's rows are never taken back.                          *)
RollbacksCost ==
  /\ Cardinality(undone) <= faults
  /\ undone \subseteq Recorded \ (FaultRows \cup uploaded)

(* What a log may cost: it is in one of the places where kafka_consumer.py,     *)
(* NetworkClient.cpp and EdgeManager.cpp keep or give up logs, and a retry      *)
(* gives none up.                                                               *)
LogsAccounted == UploadedAccounted /\ ReadAccounted /\ RetriesLoseNothing /\ RollbacksCost

(* getLogs is stuck for good on a fault row among the oldest. *)
Blocked == ~Converted

(* The consumer holds the log until the next message arrives. *)
Held(l) == consumer.st = "polling" /\ l \in LogsAt(batch) /\ position = Len(topic)

(* Every log is eventually billed or given up: again and again none is left on   *)
(* the way, unless the device's reader is stuck on a fault row, the consumer     *)
(* waits for a message to retry it with, or its thread did not get through its   *)
(* start.  With ever more rollbacks marks could be taken back for ever; their    *)
(* bound keeps that out.                                                         *)
EventuallySettled ==
  []<>(\A l \in Recorded :
         l \in stored \cup dropped \cup undone \/ Blocked \/ Held(l) \/ consumer.st = "dead")

(* The pipeline implements the ledger: a row that is rolled back is lost, unless *)
(* it was reported before.                                                       *)
Status(l) == CASE l \in stored                                  -> "stored"
               [] l \in (dropped \cup undone) \ stored         -> "lost"
               [] l \in Recorded \ (stored \cup dropped \cup undone) -> "pending"
               [] OTHER                                        -> "absent"

Ledger == INSTANCE LogLedger WITH status <- [l \in Logs |-> Status(l)]

LedgerSpec == Ledger!LedgerSpec
================================================================================
