------------------------------ MODULE EdgeDatabase ------------------------------
(* The player's SQLite connection.  Database.cpp has one connection, and a      *)
(* mutex that is held for one statement: the threads of EdgeManager share its   *)
(* only transaction.  Each of their database jobs runs statement by statement,  *)
(* interleaved with the others; loadAds downloads files between two of its      *)
(* statements, so its transaction may stay open for minutes.                    *)
EXTENDS Integers, Sequences, FiniteSets

CONSTANTS
  MaxJobs,    (* bound: thread -> number of jobs it runs                       *)
  MaxErrors,  (* bound: statements that fail: locked by the watchdog's own     *)
              (* connection, constraint, disk full                             *)
  MaxKills    (* bound: the process is killed and started again                *)

Threads == {"main", "sync", "ws"}

ASSUME EdgeDatabaseConstants ==
  MaxJobs \in [Threads -> Nat] /\ MaxErrors \in Nat /\ MaxKills \in Nat

(* A job is a thread and its number. *)
Jobs == UNION {{t} \X (1..MaxJobs[t]) : t \in Threads}
NoThread == "none"

(* run() plays: recordPlayStart, recordPlayEnd in turn.  syncLoop skips a load  *)
(* whose fetch failed.  The ws thread reports logs: updateLogStatus.            *)
JobsOf(t, n) ==
  CASE t = "main" -> IF n % 2 = 1 THEN {"PlayStart"} ELSE {"PlayEnd"}
    [] t = "sync" -> {"LoadAds", "LoadSchedule"}
    [] t = "ws"   -> {"MarkUploaded"}

(* The statements of each job, "begin" and "commit" included.                   *)
RecordPlayStart == <<"begin", "insert", "trim", "commit">>

RecordPlayEnd == <<"log", "begin", "played", "done", "commit">>

LoadAds == <<"begin", "replace", "replace", "commit">>

LoadScheduleNoCommit == <<"begin", "replace", "insert">>  (* mutant *)

LoadSchedule == <<"begin", "replace", "insert", "commit">>

UpdateLogStatus == <<"mark">>

Script(job) ==
  CASE job = "PlayStart"    -> RecordPlayStart
    [] job = "PlayEnd"      -> RecordPlayEnd
    [] job = "LoadAds"      -> LoadAds
    [] job = "LoadSchedule" -> LoadSchedule
    [] job = "MarkUploaded" -> UpdateLogStatus

(* Statements that run on their own, in a function that swallows their errors. *)
Lone == {"log", "mark"}

VARIABLES
  at,         (* thread -> its job, the statement it is at, and whether it is  *)
              (* in the job's catch block                                      *)
  jobs,       (* thread -> number of jobs it has started                       *)
  opener,     (* the thread whose BEGIN opened the transaction, or none        *)
  pending,    (* rows written in the open transaction                          *)
  disk,       (* rows written for good                                         *)
  halted,     (* an exception has left run(): nothing is played any more       *)
  results,    (* history: how each job ended                                   *)
  unbegun,    (* history: a job failed before it had begun its transaction    *)
  aborted,    (* history: SQLite rolled a transaction back by itself           *)
  disturbed,  (* history: jobs whose transaction another thread ended          *)
  joined,     (* history: the row of a lone statement, and the job whose        *)
              (* transaction it went into                                       *)
  errors, kills

txVars == <<opener, pending, disk>>
history == <<results, unbegun, aborted, disturbed, joined>>
vars == <<at, jobs, txVars, halted, history, errors, kills>>

Idle == [job |-> "none", step |-> 0, catching |-> FALSE]

(* The current job of a thread; the row its current statement writes. *)
Job(t) == <<t, jobs[t]>>
Row(t) == <<t, jobs[t], at[t].step>>
Running(t) == at[t].job # "none" /\ ~at[t].catching
Statement(t) == Script(at[t].job)[at[t].step]

Init ==
  /\ at = [t \in Threads |-> Idle]
  /\ jobs = [t \in Threads |-> 0]
  /\ opener = NoThread
  /\ pending = {}
  /\ disk = {}
  /\ halted = FALSE
  /\ results = [j \in Jobs |-> "none"]
  /\ unbegun = FALSE
  /\ aborted = FALSE
  /\ disturbed = {}
  /\ joined = {}
  /\ errors = 0
  /\ kills = 0

--------------------------------------------------------------------------------
StartJob(t, job) ==
  /\ ~halted
  /\ at[t] = Idle
  /\ jobs[t] < MaxJobs[t]
  /\ jobs' = [jobs EXCEPT ![t] = @ + 1]
  /\ at' = [at EXCEPT ![t] = [job |-> job, step |-> 1, catching |-> FALSE]]
  /\ UNCHANGED <<txVars, halted, history, errors, kills>>

Ends(t, result) ==
  /\ at' = [at EXCEPT ![t] = Idle]
  /\ results' = [results EXCEPT ![Job(t)] = result]

(* The statement returns: the next one, or the end of the job. *)
Proceeds(t) ==
  IF at[t].step = Len(Script(at[t].job)) THEN Ends(t, "ok")
  ELSE at' = [at EXCEPT ![t].step = @ + 1] /\ UNCHANGED results

(* The statement throws: into the catch block of the job, or of log() and the   *)
(* like, which go on as if nothing had happened.                                *)
Throws(t) ==
  IF Statement(t) \in Lone THEN Proceeds(t)
  ELSE at' = [at EXCEPT ![t].catching = TRUE] /\ UNCHANGED results

(* The transaction ends, by thread t. *)
Closes(t) ==
  /\ opener' = NoThread
  /\ pending' = {}
  /\ disturbed' = IF opener \in {t, NoThread} THEN disturbed
                  ELSE disturbed \cup {Job(opener)}

(* SQLite has no nested transactions: BEGIN inside one is an error. *)
Begin(t) ==
  /\ Running(t) /\ Statement(t) = "begin"
  /\ IF opener = NoThread
     THEN opener' = t /\ Proceeds(t) /\ UNCHANGED unbegun
     ELSE unbegun' = TRUE /\ Throws(t) /\ UNCHANGED opener
  /\ UNCHANGED <<jobs, pending, disk, halted, aborted, disturbed, joined, errors, kills>>

(* loadAds and loadSchedule convert the fetched JSON before they begin, inside  *)
(* the same try: a missing field throws.                                        *)
ParseFails(t) ==
  /\ t = "sync" /\ Running(t) /\ at[t].step = 1
  /\ errors < MaxErrors
  /\ errors' = errors + 1
  /\ unbegun' = TRUE
  /\ Throws(t)
  /\ UNCHANGED <<jobs, txVars, halted, aborted, disturbed, joined, kills>>

NeverAutoCommits(r) ==  (* mutant: autocommit is off *)
  pending' = pending \cup {r} /\ UNCHANGED disk

(* A statement joins whatever transaction the connection has open. *)
Writes(r) ==
  IF opener = NoThread
  THEN disk' = disk \cup {r} /\ UNCHANGED pending
  ELSE pending' = pending \cup {r} /\ UNCHANGED disk

Execute(t) ==
  /\ Running(t) /\ Statement(t) \notin {"begin", "commit"}
  /\ Writes(Row(t))
  /\ Proceeds(t)
  /\ joined' = IF Statement(t) \in Lone /\ opener # NoThread
               THEN joined \cup {<<Row(t), Job(opener)>>} ELSE joined
  /\ UNCHANGED <<jobs, opener, halted, unbegun, aborted, disturbed, errors, kills>>

CommitLosesRows == UNCHANGED disk  (* mutant: ROLLBACK for COMMIT *)

CommitRows == disk' = disk \cup pending

Commit(t) ==
  /\ Running(t) /\ Statement(t) = "commit"
  /\ \/ /\ opener # NoThread
        /\ CommitRows
        /\ Closes(t)
        /\ Proceeds(t)
     \/ /\ opener = NoThread  (* "no transaction is active" *)
        /\ Throws(t)
        /\ UNCHANGED <<txVars, disturbed>>
  /\ UNCHANGED <<jobs, halted, unbegun, aborted, joined, errors, kills>>

(* A statement fails.  SQLite keeps the transaction after SQLITE_BUSY or a      *)
(* constraint; after SQLITE_FULL, IOERR or NOMEM it may roll it back itself.    *)
StatementFails(t) ==
  /\ errors < MaxErrors
  /\ errors' = errors + 1
  /\ Running(t) /\ Statement(t) # "begin"
  /\ Throws(t)
  /\ \/ UNCHANGED <<opener, pending, aborted, disturbed>>
     \/ opener # NoThread /\ Closes(t) /\ aborted' = TRUE
  /\ UNCHANGED <<jobs, disk, halted, unbegun, joined, kills>>

NoRollback(t) ==  (* mutant: the catch block only reports the error *)
  Ends(t, "failed") /\ UNCHANGED <<opener, pending, disturbed, halted>>

(* The catch block: rollback() throws when there is no transaction to roll      *)
(* back.  loadAds and loadSchedule swallow that; out of recordPlayStart and     *)
(* recordPlayEnd it leaves run(): the program ends or, under the watchdog,      *)
(* hangs in ~EdgeManager, which joins threads nobody has told to stop.          *)
RollsBack(t) ==
  \/ /\ opener # NoThread
     /\ Closes(t)
     /\ Ends(t, "failed")
     /\ UNCHANGED halted
  \/ /\ opener = NoThread
     /\ Ends(t, "failed")
     /\ halted' = (halted \/ t = "main")
     /\ UNCHANGED <<opener, pending, disturbed>>

Catch(t) ==
  /\ at[t].catching
  /\ RollsBack(t)
  /\ UNCHANGED <<jobs, disk, unbegun, aborted, joined, errors, kills>>

(* The process is killed, by the watchdog or with the device, and restarted:    *)
(* SQLite forgets the open transaction.                                         *)
Killed ==
  /\ kills < MaxKills
  /\ kills' = kills + 1
  /\ at' = [t \in Threads |-> Idle]
  /\ results' = [j \in DOMAIN results |->
       IF \E t \in Threads : at[t] # Idle /\ j = Job(t) THEN "killed" ELSE results[j]]
  /\ opener' = NoThread
  /\ pending' = {}
  /\ halted' = FALSE
  /\ UNCHANGED <<jobs, disk, unbegun, aborted, disturbed, joined, errors>>

--------------------------------------------------------------------------------
Step(t) == Begin(t) \/ Execute(t) \/ Commit(t) \/ Catch(t)

Next ==
  \/ \E t \in Threads :
       \/ \E job \in JobsOf(t, jobs[t] + 1) : StartJob(t, job)
       \/ Begin(t) \/ Execute(t) \/ Commit(t) \/ Catch(t) \/ StatementFails(t)
       \/ ParseFails(t)
  \/ Killed

(* Every thread gets the mutex and returns from its downloads in the end. *)
Fairness == \A t \in Threads : WF_vars(Step(t))

Spec == Init /\ [][Next]_vars
FairSpec == Spec /\ Fairness

--------------------------------------------------------------------------------
Rows == {<<j[1], j[2], i>> : j \in Jobs, i \in 1..5}

TypeOK ==
  /\ at \in [Threads -> [job : {"none", "PlayStart", "PlayEnd", "LoadAds", "LoadSchedule",
                                "MarkUploaded"},
                         step : 0..5, catching : BOOLEAN]]
  /\ \A t \in Threads : at[t].job # "none" => at[t].step \in DOMAIN Script(at[t].job)
  /\ jobs \in [Threads -> Nat] /\ \A t \in Threads : jobs[t] <= MaxJobs[t]
  /\ opener \in Threads \cup {NoThread}
  /\ pending \in SUBSET Rows
  /\ opener = NoThread => pending = {}
  /\ disk \in SUBSET Rows
  /\ halted \in BOOLEAN
  /\ results \in [Jobs -> {"none", "ok", "failed", "killed"}]
  /\ unbegun \in BOOLEAN
  /\ aborted \in BOOLEAN
  /\ disturbed \in SUBSET Jobs
  /\ joined \in SUBSET (Rows \X Jobs)
  /\ errors \in 0..MaxErrors
  /\ kills \in 0..MaxKills

(* Whoever opened a transaction is still inside the job that will end it: no    *)
(* collision leaves a transaction behind that swallows all later writes.        *)
NoLeakedTransaction ==
  opener # NoThread =>
    /\ at[opener].job # "none"
    /\ \/ at[opener].catching
       \/ \E i \in 1 .. at[opener].step - 1 : Script(at[opener].job)[i] = "begin"

(* The rows that the transaction of job j writes when all of it runs. *)
TxSteps(job) ==
  {i \in DOMAIN Script(job) : Script(job)[i] \notin Lone \cup {"begin", "commit"}}
TxRows(j) == {<<j[1], j[2], i>> : i \in UNION {TxSteps(job) : job \in JobsOf(j[1], j[2])}}

AllOrNothing(j) ==
  /\ results[j] \in {"failed", "killed"} => TxRows(j) \cap disk \in {{}, TxRows(j)}
  /\ results[j] = "ok" => TxRows(j) \subseteq disk

(* Errors and kills do not break a transaction, only another thread that ends   *)
(* it does: everybody else's rows are all there or none is.                     *)
AtomicUnlessDisturbed == \A j \in Jobs \ disturbed : AllOrNothing(j)

(* Another thread ends a transaction only after some job ran its catch block    *)
(* without a transaction of its own, or after SQLite itself gave one up.        *)
DisturbanceExplained == disturbed # {} => unbegun \/ aborted

(* What log() or updateLogStatus wrote while another job's transaction was open *)
(* shares its fate, unless yet another job ended it: on disk when the job        *)
(* reports success, gone for good when it fails or dies, in the transaction      *)
(* until then.  DisturbanceExplained says what it takes for another job to do so. *)
Fate(row, job) ==
  CASE results[job] = "ok"   -> row \in disk
    [] results[job] = "none" -> row \in pending \/ at[job[1]].catching
    [] OTHER                 -> row \notin disk \cup pending

LogRowsKept == \A p \in joined : p[2] \notin disturbed => Fate(p[1], p[2])

(* The player stops for good only when its rollback found no transaction: after *)
(* somebody's catch block, or SQLite, had ended it.                             *)
HaltExplained == halted => unbegun \/ aborted

(* What Database.cpp's one connection gives its three threads for a transaction. *)
TransactionsHold ==
  NoLeakedTransaction /\ AtomicUnlessDisturbed /\ DisturbanceExplained /\ HaltExplained

(* What was written in a transaction is not left in the air. *)
PendingSettles == pending # {} ~> pending = {}
================================================================================
