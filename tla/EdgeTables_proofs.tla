--------------------------- MODULE EdgeTables_proofs ---------------------------
(* Theorems of the two components that work on the player's SQLite tables.      *)
(* First EdgeDatabase, for every number of jobs, errors and kills: its types,   *)
(* and what Database.cpp's one connection gives the three threads of            *)
(* EdgeManager that share its only transaction.  Then EdgeScheduler, for every  *)
(* series of bundles and any number of publications and faults: what the loads  *)
(* of the sync thread leave in the tables and on the disk, and what the screen  *)
(* plays of it.  Last EdgeSchedule, for every campaign: the slots it is cut     *)
(* into, and which of them a time of day finds first.                         *)
EXTENDS EdgeDatabase, EdgeScheduler, FiniteSetTheorems, FunctionTheorems,
        WellFoundedInduction, TLAPS

--------------------------------------------------------------------------------
(* The scripts.  All that the proofs use of them is here: where a job begins    *)
(* and ends its transaction, and where it writes in between.                    *)

JobNames == {"PlayStart", "PlayEnd", "LoadAds", "LoadSchedule", "MarkUploaded"}

(* The first statement of a job inside its transaction, the one after "begin";  *)
(* MarkUploaded has none.                                                       *)
FirstInside(job) ==
  IF job = "PlayEnd" THEN 3 ELSE IF job = "MarkUploaded" THEN 6 ELSE 2

LastStep(job) == Len(Script(job))

(* A job begins its transaction once, ends it with its last statement, and       *)
(* everything in between writes a row in it.                                    *)
LEMMA ScriptFacts ==
  ASSUME NEW job \in JobNames
  PROVE  /\ LastStep(job) \in 1..5 /\ FirstInside(job) \in 2..6
         /\ DOMAIN Script(job) = 1..LastStep(job)
         /\ \A i \in 1..LastStep(job) :
              /\ Script(job)[i] = "begin" => i = FirstInside(job) - 1 /\ i < LastStep(job)
              /\ Script(job)[i] = "commit" => i = LastStep(job) /\ i >= FirstInside(job)
              /\ Script(job)[i] \in Lone => i = 1 /\ FirstInside(job) > 2
              /\ Script(job)[i] \notin Lone /\ i = LastStep(job) => Script(job)[i] = "commit"
              /\ Script(job)[i] \notin Lone \cup {"begin", "commit"} =>
                   FirstInside(job) <= i
         /\ \A i : i \in TxSteps(job) <=>
                     i \in 1..5 /\ FirstInside(job) <= i /\ i < LastStep(job)
<1>1. CASE job = "PlayStart"
  <2>1. Script(job) = <<"begin", "insert", "trim", "commit">> /\ FirstInside(job) = 2
    BY <1>1 DEF Script, RecordPlayStart, FirstInside
  <2>2. QED
    BY <2>1 DEF LastStep, Lone, TxSteps
<1>2. CASE job = "PlayEnd"
  <2>1. Script(job) = <<"log", "begin", "played", "done", "commit">> /\ FirstInside(job) = 3
    BY <1>2 DEF Script, RecordPlayEnd, FirstInside
  <2>2. QED
    BY <2>1 DEF LastStep, Lone, TxSteps
<1>3. CASE job = "LoadAds"
  <2>1. Script(job) = <<"begin", "replace", "replace", "commit">> /\ FirstInside(job) = 2
    BY <1>3 DEF Script, LoadAds, FirstInside
  <2>2. QED
    BY <2>1 DEF LastStep, Lone, TxSteps
<1>4. CASE job = "LoadSchedule"
  <2>1. Script(job) = <<"begin", "replace", "insert", "commit">> /\ FirstInside(job) = 2
    BY <1>4 DEF Script, LoadSchedule, FirstInside
  <2>2. QED
    BY <2>1 DEF LastStep, Lone, TxSteps
<1>5. CASE job = "MarkUploaded"
  <2>1. Script(job) = <<"mark">> /\ FirstInside(job) = 6
    BY <1>5 DEF Script, UpdateLogStatus, FirstInside
  <2>2. QED
    BY <2>1 DEF LastStep, Lone, TxSteps
<1>6. QED
  BY <1>1, <1>2, <1>3, <1>4, <1>5 DEF JobNames

(* Jobs and rows are what their names say. *)
LEMMA JobFacts ==
  /\ \A t \in Threads : \A n \in 1..MaxJobs[t] : <<t, n>> \in Jobs
  /\ \A j \in Jobs : j[1] \in Threads /\ j[2] \in 1..MaxJobs[j[1]] /\ j = <<j[1], j[2]>>
  /\ \A j \in Jobs : \A i \in 1..5 : <<j[1], j[2], i>> \in Rows
  /\ \A r \in Rows : r[1] \in Threads /\ r[2] \in 1..MaxJobs[r[1]] /\ r[3] \in 1..5
                     /\ r = <<r[1], r[2], r[3]>>
  /\ \A t \in Threads : MaxJobs[t] \in Nat
<1>1. \A t \in Threads : MaxJobs[t] \in Nat
  BY EdgeDatabaseConstants
<1>2. \A t \in Threads : \A n \in 1..MaxJobs[t] : <<t, n>> \in Jobs
  BY DEF Jobs
<1>3. \A j \in Jobs : j[1] \in Threads /\ j[2] \in 1..MaxJobs[j[1]] /\ j = <<j[1], j[2]>>
  BY DEF Jobs
<1>4. \A j \in Jobs : \A i \in 1..5 : <<j[1], j[2], i>> \in Rows
  BY DEF Rows
<1>5. \A r \in Rows : \E j \in Jobs, i \in 1..5 : r = <<j[1], j[2], i>>
  BY DEF Rows
<1>6. QED
  BY <1>1, <1>2, <1>3, <1>4, <1>5

(* The job a thread runs, and the rows its transaction writes: the same steps,   *)
(* whichever of the jobs it could have been.                                    *)
LEMMA RowFacts ==
  ASSUME NEW t \in Threads, NEW n \in 1..MaxJobs[t], NEW job \in JobsOf(t, n)
  PROVE  /\ job \in JobNames
         /\ \A r : r \in TxRows(<<t, n>>) <=>
              \E i \in 1..5 : /\ FirstInside(job) <= i /\ i < LastStep(job)
                              /\ r = <<t, n, i>>
<1>1. \A a \in JobsOf(t, n) : a \in JobNames
  BY DEF Threads, JobsOf, JobNames
<1>2. \A a \in JobsOf(t, n) : TxSteps(a) = TxSteps(job)
  <2>1. CASE t = "main"
    BY <2>1 DEF JobsOf
  <2>2. CASE t = "ws"
    BY <2>2 DEF JobsOf
  <2>3. CASE t = "sync"
    <3>1. \A a \in {"LoadAds", "LoadSchedule"} : Script(a)[1] = "begin" /\ Script(a)[4] = "commit"
                 /\ DOMAIN Script(a) = 1..4 /\ Script(a)[2] = "replace"
                 /\ Script(a)[3] \in {"replace", "insert"}
      BY DEF Script, LoadAds, LoadSchedule
    <3>2. \A a \in {"LoadAds", "LoadSchedule"} : TxSteps(a) = {2, 3}
      BY <3>1 DEF TxSteps, Lone
    <3>3. QED
      BY <2>3, <3>2 DEF JobsOf
  <2>4. QED
    BY <2>1, <2>2, <2>3 DEF Threads
<1>3. UNION {TxSteps(a) : a \in JobsOf(t, n)} = TxSteps(job)
  BY <1>2
<1>4. TxRows(<<t, n>>) = {<<t, n, i>> : i \in TxSteps(job)}
  BY <1>3 DEF TxRows
<1>5. QED
  BY <1>1, <1>4, ScriptFacts

(* The rows of a transaction name their job.                                    *)
LEMMA TxRowsOf ==
  ASSUME NEW j \in Jobs, NEW r \in TxRows(j)
  PROVE  r[1] = j[1] /\ r[2] = j[2]
BY DEF TxRows

--------------------------------------------------------------------------------
(* The inductive invariant. *)

Active(t) == at[t].job # "none"
Inside(t) == Active(t) /\ at[t].step >= FirstInside(at[t].job)
Explained == unbegun \/ aborted

(* A thread is idle, or at a statement of a job it may run, not ended yet. *)
AtWork(t) ==
  /\ ~Active(t) => at[t] = Idle
  /\ Active(t) =>
       /\ jobs[t] \in 1..MaxJobs[t]
       /\ at[t].job \in JobsOf(t, jobs[t])
       /\ at[t].step \in 1..LastStep(at[t].job)

AtType == [job : {"none", "PlayStart", "PlayEnd", "LoadAds", "LoadSchedule", "MarkUploaded"},
           step : 0..5, catching : BOOLEAN]

(* The transaction belongs to a thread that is inside it. *)
OpenerInside == opener # NoThread => Inside(opener)

TypeInv == TypeOK /\ OpenerInside /\ \A t \in Threads : AtWork(t)

(* A row is written by a job that has come past its statement. *)
RowWritten(r) ==
  /\ r[2] <= jobs[r[1]]
  /\ Active(r[1]) /\ r[2] = jobs[r[1]] => r[3] < at[r[1]].step

(* A thread that is inside its transaction without being the owner of the open  *)
(* one lost it to another thread, or to an error it is about to handle.         *)
LossExplained(t) ==
  /\ Inside(t) /\ opener # t => Explained /\ (Job(t) \in disturbed \/ at[t].catching)
  /\ at[t].catching /\ ~Inside(t) => unbegun
  /\ at[t].catching => unbegun \/ errors > 0

(* Rows of an undisturbed job wait in its own open transaction only. *)
PendingOwned(j) ==
  j \notin disturbed /\ TxRows(j) \cap pending # {} => opener = j[1] /\ j = Job(j[1])

(* Such a job has no row on disk before it commits; the rows it has written so   *)
(* far are all in its transaction, while it is open.  It has no result yet.      *)
OpenWhole(t) ==
  Active(t) =>
    /\ results[Job(t)] = "none"
    /\ Job(t) \notin disturbed =>
         /\ TxRows(Job(t)) \cap disk = {}
         /\ opener = t => \A r \in TxRows(Job(t)) : r[3] < at[t].step => r \in pending

Unstarted == \A j \in Jobs : j[2] > jobs[j[1]] => results[j] = "none"

TxInv ==
  /\ \A r \in disk \cup pending : RowWritten(r)
  /\ \A t \in Threads : LossExplained(t)
  /\ aborted => errors > 0
  /\ \A j \in Jobs : PendingOwned(j)
  /\ \A t \in Threads : OpenWhole(t)
  /\ Unstarted
  /\ AtomicUnlessDisturbed
  /\ DisturbanceExplained
  /\ HaltExplained

--------------------------------------------------------------------------------
(* What a step of thread t does to its place, whatever else it does: on to the   *)
(* next statement, into the catch block, or out of the job with a result.        *)
Others(t) == /\ at' \in [Threads -> AtType]
             /\ jobs' = jobs
             /\ \A x \in Threads : x # t => at'[x] = at[x]
Advances(t) ==
  /\ Others(t)
  /\ at'[t].job = at[t].job /\ at'[t].step = at[t].step + 1 /\ ~at'[t].catching
  /\ at[t].step < LastStep(at[t].job)
  /\ results' = results
Stumbles(t) ==
  /\ Others(t)
  /\ at'[t].job = at[t].job /\ at'[t].step = at[t].step /\ at'[t].catching
  /\ results' = results
Leaves(t, res) ==
  /\ Others(t)
  /\ at'[t] = Idle
  /\ results' = [results EXCEPT ![Job(t)] = res]

(* The facts of the invariant about a thread inside a job. *)
LEMMA ActiveFacts ==
  ASSUME TypeInv, NEW t \in Threads, Active(t)
  PROVE  /\ at \in [Threads -> AtType]
         /\ at[t].job \in JobNames
         /\ LastStep(at[t].job) \in 1..5
         /\ at[t].step \in 1..LastStep(at[t].job)
         /\ jobs[t] \in 1..MaxJobs[t] /\ jobs[t] \in Nat
         /\ Job(t) \in Jobs
         /\ Row(t) \in Rows
<1>1. at \in [Threads -> AtType] /\ AtWork(t) /\ at[t].job # "none"
  BY DEF TypeInv, TypeOK, AtType, Active
<1>2. at[t].job \in JobNames
  BY <1>1 DEF AtType, JobNames
<1>3. LastStep(at[t].job) \in 1..5
  BY <1>2, ScriptFacts
<1>4. at[t].step \in 1..LastStep(at[t].job) /\ jobs[t] \in 1..MaxJobs[t]
  BY <1>1 DEF AtWork, Active
<1>5. Job(t) \in Jobs /\ MaxJobs[t] \in Nat
  BY <1>4, JobFacts DEF Job
<1>6. Row(t) \in Rows
  <2>1. at[t].step \in 1..5
    BY <1>3, <1>4
  <2>2. QED
    BY <1>5, <2>1, JobFacts DEF Row, Job
<1>7. QED
  BY <1>1, <1>2, <1>3, <1>4, <1>5, <1>6

(* A job goes on to its next statement, or ends.                                *)
LEMMA ProceedsMoves ==
  ASSUME TypeInv, NEW t \in Threads, Running(t), Proceeds(t), jobs' = jobs
  PROVE  \/ Advances(t)
         \/ at[t].step = LastStep(at[t].job) /\ Leaves(t, "ok")
<1>1. Active(t) /\ ~at[t].catching
  BY DEF Running, Active
<1>2. /\ at \in [Threads -> AtType] /\ at[t].step \in 1..LastStep(at[t].job)
      /\ LastStep(at[t].job) \in 1..5
  BY <1>1, ActiveFacts
<1>3. CASE at[t].step = LastStep(at[t].job)
  <2>1. at' = [at EXCEPT ![t] = Idle] /\ results' = [results EXCEPT ![Job(t)] = "ok"]
    BY <1>3 DEF Proceeds, Ends, LastStep
  <2>2. Others(t) /\ at'[t] = Idle
    BY <1>2, <2>1 DEF Others, AtType, Idle
  <2>3. QED
    BY <1>3, <2>1, <2>2 DEF Leaves
<1>4. CASE at[t].step # LastStep(at[t].job)
  <2>1. at' = [at EXCEPT ![t].step = @ + 1] /\ results' = results
    BY <1>4 DEF Proceeds, LastStep
  <2>2. at[t].step < LastStep(at[t].job) /\ at[t].step < 5
    BY <1>2, <1>4
  <2>3. Others(t)
    BY <1>2, <2>1, <2>2 DEF Others, AtType
  <2>4. at'[t].job = at[t].job /\ at'[t].step = at[t].step + 1 /\ ~at'[t].catching
    BY <1>1, <1>2, <2>1 DEF AtType
  <2>5. QED
    BY <2>1, <2>2, <2>3, <2>4 DEF Advances
<1>5. QED
  BY <1>3, <1>4

(* A statement that throws: a lone one is passed over, another one is caught.   *)
LEMMA ThrowsMoves ==
  ASSUME TypeInv, NEW t \in Threads, Running(t), Throws(t), jobs' = jobs
  PROVE  \/ Statement(t) \in Lone /\ Proceeds(t)
         \/ Statement(t) \notin Lone /\ Stumbles(t)
<1>1. Active(t)
  BY DEF Running, Active
<1>2. at \in [Threads -> AtType]
  BY <1>1, ActiveFacts
<1>3. CASE Statement(t) \in Lone
  BY <1>3 DEF Throws
<1>4. CASE Statement(t) \notin Lone
  <2>1. at' = [at EXCEPT ![t].catching = TRUE] /\ results' = results
    BY <1>4 DEF Throws
  <2>2. Others(t)
    BY <1>2, <2>1 DEF Others, AtType
  <2>3. at'[t].job = at[t].job /\ at'[t].step = at[t].step /\ at'[t].catching
    BY <1>2, <2>1 DEF AtType
  <2>4. QED
    BY <1>4, <2>1, <2>2, <2>3 DEF Stumbles
<1>5. QED
  BY <1>3, <1>4

(* Whatever a thread does, it is then at work or idle, with the types kept.     *)
LEMMA AtTyped ==
  ASSUME TypeInv, NEW t \in Threads, Active(t),
         Advances(t) \/ Stumbles(t) \/ Leaves(t, "ok") \/ Leaves(t, "failed")
  PROVE  /\ \A x \in Threads : AtWork(x)'
         /\ at' \in [Threads -> AtType]
         /\ \A x \in Threads : at'[x].job # "none" => at'[x].step \in DOMAIN Script(at'[x].job)
         /\ results' \in [Jobs -> {"none", "ok", "failed", "killed"}]
<1>t. results \in [Jobs -> {"none", "ok", "failed", "killed"}] /\ \A x \in Threads : AtWork(x)
  BY DEF TypeInv, TypeOK
<1>1. at' \in [Threads -> AtType] /\ Others(t)
  BY DEF Advances, Stumbles, Leaves, Others
<1>2. results' \in [Jobs -> {"none", "ok", "failed", "killed"}]
  BY <1>t, ActiveFacts DEF Advances, Stumbles, Leaves
<1>3. ASSUME NEW x \in Threads PROVE AtWork(x)'
  <2>1. CASE x # t
    BY <1>t, <1>1, <2>1 DEF AtWork, Active, Others
  <2>2. CASE x = t
    <3>1. CASE at'[t] = Idle
      BY <2>2, <3>1 DEF AtWork, Active, Idle
    <3>2. CASE Advances(t) \/ Stumbles(t)
      <4>1. at'[t].job = at[t].job /\ at'[t].step \in 1..LastStep(at[t].job)
        BY <3>2, ActiveFacts DEF Advances, Stumbles
      <4>2. QED
        BY <1>t, <1>1, <2>2, <4>1, ActiveFacts DEF AtWork, Active, Others
    <3>3. QED
      BY <3>1, <3>2 DEF Leaves
  <2>3. QED
    BY <2>1, <2>2
<1>4. ASSUME NEW x \in Threads, at'[x].job # "none" PROVE at'[x].step \in DOMAIN Script(at'[x].job)
  <2>1. AtWork(x)' /\ at'[x].job \in JobNames
    BY <1>1, <1>3, <1>4 DEF AtType, JobNames
  <2>2. at'[x].step \in 1..LastStep(at'[x].job)
    BY <1>4, <2>1 DEF AtWork, Active
  <2>3. QED
    BY <2>1, <2>2, ScriptFacts
<1>5. QED
  BY <1>1, <1>2, <1>3, <1>4

(* What each operation does, in terms of where the thread stands. *)

(* Where in the script each kind of statement is.                               *)
LEMMA StatementFacts ==
  ASSUME TypeInv, NEW t \in Threads, Running(t)
  PROVE  /\ Active(t) /\ ~at[t].catching
         /\ Statement(t) = "begin" =>
              at[t].step = FirstInside(at[t].job) - 1 /\ at[t].step < LastStep(at[t].job)
         /\ Statement(t) = "commit" => Inside(t) /\ at[t].step = LastStep(at[t].job)
         /\ Statement(t) \in Lone => ~Inside(t) /\ at[t].step = 1 /\ FirstInside(at[t].job) > 2
         /\ Statement(t) \notin Lone \cup {"begin", "commit"} =>
              Inside(t) /\ at[t].step < LastStep(at[t].job)
<1>1. Active(t) /\ ~at[t].catching
  BY DEF Running, Active
<1>2. /\ at[t].job \in JobNames /\ at[t].step \in 1..LastStep(at[t].job)
      /\ LastStep(at[t].job) \in 1..5 /\ FirstInside(at[t].job) \in 2..6
  BY <1>1, ActiveFacts, ScriptFacts
<1>3. Statement(t) = Script(at[t].job)[at[t].step]
  BY DEF Statement
<1>4. QED
  BY <1>1, <1>2, <1>3, ScriptFacts DEF Inside

(* BEGIN opens the transaction for its thread, or is refused.                   *)
LEMMA BeginMoves ==
  ASSUME TypeInv, NEW t \in Threads, Begin(t)
  PROVE  /\ UNCHANGED <<pending, disk, halted, aborted, disturbed, joined, errors, kills>>
         /\ Active(t) /\ ~at[t].catching /\ at[t].step = FirstInside(at[t].job) - 1
         /\ \/ opener = NoThread /\ opener' = t /\ unbegun' = unbegun /\ Advances(t)
            \/ opener # NoThread /\ opener' = opener /\ unbegun' = TRUE /\ Stumbles(t)
<1>1. /\ UNCHANGED <<jobs, pending, disk, halted, aborted, disturbed, joined, errors, kills>>
      /\ Running(t) /\ Statement(t) = "begin"
  BY DEF Begin
<1>2. /\ Active(t) /\ ~at[t].catching /\ at[t].step = FirstInside(at[t].job) - 1
      /\ at[t].step < LastStep(at[t].job) /\ Statement(t) \notin Lone
  BY <1>1, StatementFacts DEF Lone
<1>3. CASE opener = NoThread
  <2>1. opener' = t /\ Proceeds(t) /\ unbegun' = unbegun
    BY <1>3 DEF Begin
  <2>2. Advances(t)
    BY <1>1, <1>2, <2>1, ProceedsMoves, ActiveFacts
  <2>3. QED
    BY <1>1, <1>2, <1>3, <2>1, <2>2
<1>4. CASE opener # NoThread
  <2>1. opener' = opener /\ Throws(t) /\ unbegun' = TRUE
    BY <1>4 DEF Begin
  <2>2. Stumbles(t)
    BY <1>1, <1>2, <2>1, ThrowsMoves
  <2>3. QED
    BY <1>1, <1>2, <1>4, <2>1, <2>2
<1>5. QED
  BY <1>3, <1>4

(* A synchronisation that cannot parse its answer has not begun.                *)
LEMMA ParseFailsMoves ==
  ASSUME TypeInv, NEW t \in Threads, ParseFails(t)
  PROVE  /\ UNCHANGED <<txVars, halted, aborted, disturbed, joined, kills>>
         /\ Active(t) /\ ~Inside(t) /\ Stumbles(t)
         /\ unbegun' = TRUE /\ errors < MaxErrors /\ errors' = errors + 1
<1>1. /\ UNCHANGED <<jobs, txVars, halted, aborted, disturbed, joined, kills>>
      /\ unbegun' = TRUE /\ errors < MaxErrors /\ errors' = errors + 1
      /\ Running(t) /\ Throws(t) /\ t = "sync" /\ at[t].step = 1
  BY DEF ParseFails
<1>2. Active(t)
  BY <1>1, StatementFacts
<1>3. at[t].job \in {"LoadAds", "LoadSchedule"}
  <2>1. AtWork(t)
    BY DEF TypeInv
  <2>2. QED
    BY <1>1, <1>2, <2>1 DEF AtWork, JobsOf
<1>4. ~Inside(t) /\ Statement(t) = "begin"
  <2>1. Script(at[t].job)[1] = "begin"
    BY <1>3 DEF Script, LoadAds, LoadSchedule
  <2>2. QED
    BY <1>1, <1>3, <2>1 DEF Inside, FirstInside, Statement
<1>5. Stumbles(t)
  BY <1>1, <1>4, ThrowsMoves DEF Lone
<1>6. QED
  BY <1>1, <1>2, <1>4, <1>5

(* A lone statement is over, with or without an error. *)
LonePasses(t) ==
  /\ ~Inside(t) /\ at[t].step = 1 /\ FirstInside(at[t].job) > 2
  /\ \/ Advances(t)
     \/ at[t].step = LastStep(at[t].job) /\ Leaves(t, "ok")

(* A statement writes into the transaction, or to disk without one.             *)
LEMMA ExecuteMoves ==
  ASSUME TypeInv, NEW t \in Threads, Execute(t)
  PROVE  /\ UNCHANGED <<opener, halted, unbegun, aborted, disturbed, errors, kills>>
         /\ Active(t) /\ ~at[t].catching /\ Writes(Row(t))
         /\ \/ Inside(t) /\ Advances(t) /\ joined' = joined
            \/ LonePasses(t) /\ joined' = IF opener # NoThread
                                         THEN joined \cup {<<Row(t), Job(opener)>>} ELSE joined
<1>1. /\ UNCHANGED <<jobs, opener, halted, unbegun, aborted, disturbed, errors, kills>>
      /\ Running(t) /\ Statement(t) \notin {"begin", "commit"} /\ Writes(Row(t)) /\ Proceeds(t)
      /\ joined' = IF Statement(t) \in Lone /\ opener # NoThread
                   THEN joined \cup {<<Row(t), Job(opener)>>} ELSE joined
  BY DEF Execute
<1>2. Active(t) /\ ~at[t].catching
  BY <1>1, StatementFacts
<1>3. CASE Statement(t) \in Lone
  <2>1. LonePasses(t)
    BY <1>1, <1>3, StatementFacts, ProceedsMoves DEF LonePasses
  <2>2. QED
    BY <1>1, <1>2, <1>3, <2>1
<1>4. CASE Statement(t) \notin Lone
  <2>1. Inside(t) /\ at[t].step < LastStep(at[t].job)
    BY <1>1, <1>4, StatementFacts
  <2>2. Advances(t)
    BY <1>1, <1>2, <2>1, ProceedsMoves, ActiveFacts
  <2>3. QED
    BY <1>1, <1>2, <1>4, <2>1, <2>2
<1>5. QED
  BY <1>3, <1>4

(* COMMIT, of whichever transaction is open, or of none.                        *)
LEMMA CommitMoves ==
  ASSUME TypeInv, NEW t \in Threads, Commit(t)
  PROVE  /\ UNCHANGED <<halted, unbegun, aborted, joined, errors, kills>>
         /\ Inside(t) /\ ~at[t].catching /\ at[t].step = LastStep(at[t].job)
         /\ \/ opener # NoThread /\ CommitRows /\ Closes(t) /\ Leaves(t, "ok")
            \/ opener = NoThread /\ UNCHANGED <<txVars, disturbed>> /\ Stumbles(t)
<1>1. /\ UNCHANGED <<jobs, halted, unbegun, aborted, joined, errors, kills>>
      /\ Running(t) /\ Statement(t) = "commit"
  BY DEF Commit
<1>2. /\ Inside(t) /\ ~at[t].catching /\ at[t].step = LastStep(at[t].job) /\ Statement(t) \notin Lone
      /\ Active(t)
  BY <1>1, StatementFacts DEF Lone
<1>3. CASE opener # NoThread /\ CommitRows /\ Closes(t) /\ Proceeds(t)
  <2>1. Leaves(t, "ok")
    BY <1>1, <1>2, <1>3, ProceedsMoves, ActiveFacts DEF Advances
  <2>2. QED
    BY <1>1, <1>2, <1>3, <2>1
<1>4. CASE opener = NoThread /\ Throws(t) /\ UNCHANGED <<txVars, disturbed>>
  <2>1. Stumbles(t)
    BY <1>1, <1>2, <1>4, ThrowsMoves
  <2>2. QED
    BY <1>1, <1>2, <1>4, <2>1
<1>5. QED
  BY <1>3, <1>4 DEF Commit

(* A statement fails, and SQLite may roll the open transaction back.            *)
LEMMA FailsMoves ==
  ASSUME TypeInv, NEW t \in Threads, StatementFails(t)
  PROVE  /\ UNCHANGED <<disk, halted, unbegun, joined, kills>>
         /\ errors < MaxErrors /\ errors' = errors + 1
         /\ Active(t) /\ ~at[t].catching
         /\ \/ Inside(t) /\ Stumbles(t)
            \/ LonePasses(t)
         /\ \/ UNCHANGED <<opener, pending, aborted, disturbed>>
            \/ opener # NoThread /\ Closes(t) /\ aborted' = TRUE
<1>1. /\ UNCHANGED <<jobs, disk, halted, unbegun, joined, kills>>
      /\ errors < MaxErrors /\ errors' = errors + 1
      /\ Running(t) /\ Statement(t) # "begin" /\ Throws(t)
      /\ \/ UNCHANGED <<opener, pending, aborted, disturbed>>
         \/ opener # NoThread /\ Closes(t) /\ aborted' = TRUE
  BY DEF StatementFails
<1>2. Active(t) /\ ~at[t].catching
  BY <1>1, StatementFacts
<1>3. CASE Statement(t) \in Lone
  <2>1. Proceeds(t)
    BY <1>1, <1>3, ThrowsMoves
  <2>2. LonePasses(t)
    BY <1>1, <1>3, <2>1, StatementFacts, ProceedsMoves DEF LonePasses
  <2>3. QED
    BY <1>1, <1>2, <2>2
<1>4. CASE Statement(t) \notin Lone
  <2>1. Inside(t)
    BY <1>1, <1>4, StatementFacts
  <2>2. Stumbles(t)
    BY <1>1, <1>4, ThrowsMoves
  <2>3. QED
    BY <1>1, <1>2, <2>1, <2>2
<1>5. QED
  BY <1>3, <1>4

(* The handler rolls back whichever transaction is open, or throws again.       *)
LEMMA CatchMoves ==
  ASSUME TypeInv, NEW t \in Threads, Catch(t)
  PROVE  /\ UNCHANGED <<disk, unbegun, aborted, joined, errors, kills>>
         /\ Active(t) /\ at[t].catching /\ Leaves(t, "failed")
         /\ \/ opener # NoThread /\ Closes(t) /\ halted' = halted
            \/ /\ opener = NoThread /\ UNCHANGED <<opener, pending, disturbed>>
               /\ halted' = (halted \/ t = "main")
<1>1. UNCHANGED <<jobs, disk, unbegun, aborted, joined, errors, kills>> /\ at[t].catching /\ RollsBack(t)
  BY DEF Catch
<1>2. Active(t)
  <2>1. AtWork(t)
    BY DEF TypeInv
  <2>2. QED
    BY <1>1, <2>1 DEF AtWork, Idle
<1>3. Ends(t, "failed")
  BY <1>1 DEF RollsBack
<1>4. Leaves(t, "failed")
  <2>1. at' = [at EXCEPT ![t] = Idle] /\ results' = [results EXCEPT ![Job(t)] = "failed"]
    BY <1>3 DEF Ends
  <2>2. Others(t) /\ at'[t] = Idle
    BY <1>1, <1>2, <2>1, ActiveFacts DEF Others, AtType, Idle
  <2>3. QED
    BY <2>1, <2>2 DEF Leaves
<1>5. CASE opener # NoThread /\ Closes(t) /\ UNCHANGED halted
  BY <1>1, <1>2, <1>4, <1>5
<1>6. CASE opener = NoThread /\ halted' = (halted \/ t = "main") /\ UNCHANGED <<opener, pending, disturbed>>
  BY <1>1, <1>2, <1>4, <1>6
<1>7. QED
  BY <1>1, <1>5, <1>6 DEF RollsBack

--------------------------------------------------------------------------------
(* The types. *)

(* TypeInv holds at the start.                                                  *)
LEMMA TypeInit == Init => TypeInv
<1> SUFFICES ASSUME Init PROVE TypeInv
  OBVIOUS
<1>1. \A t \in Threads : at[t] = Idle
  BY DEF Init
<1>2. \A t \in Threads : AtWork(t)
  BY <1>1 DEF AtWork, Active, Idle
<1>3. \A t \in Threads : MaxJobs[t] \in Nat
  BY EdgeDatabaseConstants
<1>4. at \in [Threads -> AtType] /\ \A t \in Threads : at[t].job = "none"
  BY DEF Init, AtType, Idle
<1>5. jobs \in [Threads -> Nat] /\ \A t \in Threads : jobs[t] <= MaxJobs[t]
  BY <1>3 DEF Init
<1>6. results \in [Jobs -> {"none", "ok", "failed", "killed"}]
  BY DEF Init
<1>7. /\ opener = NoThread /\ pending = {} /\ disk = {} /\ disturbed = {} /\ errors = 0 /\ kills = 0
      /\ halted \in BOOLEAN /\ unbegun \in BOOLEAN /\ aborted \in BOOLEAN /\ joined = {}
  BY DEF Init
<1>8. errors \in 0..MaxErrors /\ kills \in 0..MaxKills
  BY <1>7, EdgeDatabaseConstants
<1>9. TypeOK
  BY <1>4, <1>5, <1>6, <1>7, <1>8 DEF TypeOK, AtType
<1>10. QED
  BY <1>2, <1>7, <1>9 DEF TypeInv, OpenerInside

(* A thread that stays inside its job is inside its transaction as before, or   *)
(* more so; the other threads do not notice.                                    *)
LEMMA InsideStays ==
  ASSUME TypeInv, NEW t \in Threads, Active(t),
         Advances(t) \/ Stumbles(t) \/ Leaves(t, "ok") \/ Leaves(t, "failed")
  PROVE  /\ \A x \in Threads : x # t => Inside(x)' = Inside(x) /\ Active(x)' = Active(x)
         /\ Advances(t) \/ Stumbles(t) => Active(t)' /\ (Inside(t) => Inside(t)')
         /\ Stumbles(t) => Inside(t)' = Inside(t)
         /\ Advances(t) /\ at[t].step = FirstInside(at[t].job) - 1 => Inside(t)'
<1>1. \A x \in Threads : x # t => at'[x] = at[x]
  BY DEF Advances, Stumbles, Leaves, Others
<1>2. \A x \in Threads : x # t => Inside(x)' = Inside(x) /\ Active(x)' = Active(x)
  BY <1>1 DEF Inside, Active
<1>3. at[t].step \in 1..5 /\ FirstInside(at[t].job) \in 2..6
  BY ActiveFacts, ScriptFacts
<1>4. QED
  BY <1>2, <1>3 DEF Advances, Stumbles, Inside, Active

(* The transaction of another thread, or of nobody, after a step that ends it:   *)
(* its job is disturbed.                                                        *)
LEMMA ClosesFacts ==
  ASSUME TypeInv, NEW t \in Threads, Closes(t)
  PROVE  /\ opener' = NoThread /\ pending' = {} /\ disturbed \subseteq disturbed'
         /\ disturbed' \in SUBSET Jobs
         /\ \A x \in Threads : x = opener /\ x # t => Job(x) \in disturbed'
         /\ opener \in {t, NoThread} => disturbed' = disturbed
<1>1. /\ opener' = NoThread /\ pending' = {}
      /\ disturbed' = IF opener \in {t, NoThread} THEN disturbed
                      ELSE disturbed \cup {Job(opener)}
  BY DEF Closes
<1>2. disturbed \in SUBSET Jobs /\ opener \in Threads \cup {NoThread}
  BY DEF TypeInv, TypeOK
<1>3. opener # NoThread => Job(opener) \in Jobs
  BY <1>2, ActiveFacts DEF TypeInv, OpenerInside, Inside
<1>4. NoThread \notin Threads
  BY DEF NoThread, Threads
<1>5. QED
  BY <1>1, <1>2, <1>3, <1>4

(* TypeInv is inductive.                                                        *)
LEMMA TypeStep == TypeInv /\ [Next]_vars => TypeInv'
<1> SUFFICES ASSUME TypeInv, [Next]_vars PROVE TypeInv'
  OBVIOUS
<1>t. /\ at \in [Threads -> AtType] /\ jobs \in [Threads -> Nat]
      /\ \A x \in Threads : at[x].job # "none" => at[x].step \in DOMAIN Script(at[x].job)
      /\ \A x \in Threads : jobs[x] <= MaxJobs[x]
      /\ opener \in Threads \cup {NoThread}
      /\ pending \in SUBSET Rows /\ (opener = NoThread => pending = {})
      /\ disk \in SUBSET Rows /\ disturbed \in SUBSET Jobs
      /\ joined \in SUBSET (Rows \X Jobs)
      /\ results \in [Jobs -> {"none", "ok", "failed", "killed"}]
      /\ errors \in 0..MaxErrors /\ kills \in 0..MaxKills
      /\ OpenerInside /\ \A x \in Threads : AtWork(x)
  BY DEF TypeInv, TypeOK, AtType
<1>b. halted \in BOOLEAN /\ unbegun \in BOOLEAN /\ aborted \in BOOLEAN
  BY DEF TypeInv, TypeOK
<1>n. NoThread \notin Threads /\ MaxErrors \in Nat /\ MaxKills \in Nat
  BY EdgeDatabaseConstants DEF NoThread, Threads
<1>1. ASSUME NEW t \in Threads, NEW job \in JobsOf(t, jobs[t] + 1), StartJob(t, job) PROVE TypeInv'
  <2>1. /\ at[t] = Idle /\ jobs[t] < MaxJobs[t] /\ jobs' = [jobs EXCEPT ![t] = @ + 1]
        /\ at' = [at EXCEPT ![t] = [job |-> job, step |-> 1, catching |-> FALSE]]
        /\ UNCHANGED <<opener, pending, disk, halted, results, unbegun, aborted, disturbed,
                     joined, errors, kills>>
    BY <1>1 DEF StartJob, txVars, history
  <2>2. job \in JobNames
    BY DEF JobsOf, JobNames, Threads
  <2>3. LastStep(job) \in 1..5 /\ DOMAIN Script(job) = 1..LastStep(job)
    BY <2>2, ScriptFacts
  <2>4. at' \in [Threads -> AtType] /\ jobs' \in [Threads -> Nat]
    BY <1>t, <2>1, <2>2 DEF AtType, JobNames
  <2>5. \A x \in Threads : MaxJobs[x] \in Nat
    BY JobFacts
  <2>6. \A x \in Threads : jobs'[x] <= MaxJobs[x]
    BY <1>t, <2>1, <2>5
  <2>7. /\ \A x \in Threads : x # t => at'[x] = at[x] /\ jobs'[x] = jobs[x]
        /\ at'[t].job = job /\ at'[t].step = 1 /\ jobs'[t] = jobs[t] + 1
    BY <1>t, <2>1
  <2>8. \A x \in Threads : at'[x].job # "none" => at'[x].step \in DOMAIN Script(at'[x].job)
    BY <1>t, <2>3, <2>7
  <2>9. ASSUME NEW x \in Threads PROVE AtWork(x)'
    <3>1. CASE x = t
      <4>1. jobs'[t] \in 1..MaxJobs[t] /\ job # "none"
        BY <1>t, <2>1, <2>2, <2>5, <2>7 DEF JobNames
      <4>2. QED
        BY <2>3, <2>7, <3>1, <4>1 DEF AtWork, Active
    <3>2. CASE x # t
      BY <1>t, <2>7, <3>2 DEF AtWork, Active
    <3>3. QED
      BY <3>1, <3>2
  <2>10. OpenerInside'
    <3>1. ~Inside(t)
      BY <2>1 DEF Inside, Active, Idle
    <3>2. opener = NoThread \/ opener \in Threads \ {t}
      BY <1>t, <3>1 DEF OpenerInside
    <3>3. QED
      BY <1>t, <2>1, <2>7, <3>2 DEF OpenerInside, Inside, Active
  <2>11. TypeOK'
    BY <1>t, <1>b, <2>1, <2>4, <2>6, <2>8 DEF TypeOK, AtType
  <2>12. QED
    BY <2>9, <2>10, <2>11 DEF TypeInv
<1>2. ASSUME NEW t \in Threads, Begin(t) PROVE TypeInv'
  <2>1. /\ UNCHANGED <<pending, disk, halted, aborted, disturbed, joined, errors, kills>>
        /\ Active(t) /\ at[t].step = FirstInside(at[t].job) - 1
        /\ \/ opener = NoThread /\ opener' = t /\ unbegun' = unbegun /\ Advances(t)
           \/ opener # NoThread /\ opener' = opener /\ unbegun' = TRUE /\ Stumbles(t)
    BY <1>2, BeginMoves
  <2>2. /\ \A x \in Threads : AtWork(x)'
        /\ at' \in [Threads -> AtType]
        /\ \A x \in Threads : at'[x].job # "none" => at'[x].step \in DOMAIN Script(at'[x].job)
        /\ results' \in [Jobs -> {"none", "ok", "failed", "killed"}]
    BY <2>1, AtTyped
  <2>3. OpenerInside'
    BY <1>t, <2>1, InsideStays DEF OpenerInside
  <2>4. jobs' = jobs /\ unbegun' \in BOOLEAN
    BY <1>b, <2>1 DEF Advances, Stumbles, Others
  <2>5. TypeOK'
    BY <1>t, <1>b, <2>1, <2>2, <2>4 DEF TypeOK, AtType
  <2>6. QED
    BY <2>2, <2>3, <2>5 DEF TypeInv
<1>3. ASSUME NEW t \in Threads, ParseFails(t) PROVE TypeInv'
  <2>1. /\ UNCHANGED <<opener, pending, disk, halted, aborted, disturbed, joined, kills>>
        /\ Active(t) /\ ~Inside(t) /\ Stumbles(t)
        /\ unbegun' = TRUE /\ errors < MaxErrors /\ errors' = errors + 1
    BY <1>3, ParseFailsMoves DEF txVars
  <2>2. /\ \A x \in Threads : AtWork(x)'
        /\ at' \in [Threads -> AtType]
        /\ \A x \in Threads : at'[x].job # "none" => at'[x].step \in DOMAIN Script(at'[x].job)
        /\ results' \in [Jobs -> {"none", "ok", "failed", "killed"}]
    BY <2>1, AtTyped
  <2>3. OpenerInside'
    BY <1>t, <2>1, InsideStays DEF OpenerInside
  <2>4. jobs' = jobs /\ errors' \in 0..MaxErrors
    BY <1>t, <1>n, <2>1 DEF Stumbles, Others
  <2>5. TypeOK'
    BY <1>t, <1>b, <2>1, <2>2, <2>4 DEF TypeOK, AtType
  <2>6. QED
    BY <2>2, <2>3, <2>5 DEF TypeInv
<1>4. ASSUME NEW t \in Threads, Execute(t) PROVE TypeInv'
  <2>1. /\ UNCHANGED <<opener, halted, unbegun, aborted, disturbed, errors, kills>>
        /\ Active(t) /\ Writes(Row(t))
        /\ (Inside(t) /\ Advances(t)) \/ LonePasses(t)
    BY <1>4, ExecuteMoves
  <2>2. Advances(t) \/ (~Inside(t) /\ Leaves(t, "ok"))
    BY <2>1 DEF LonePasses
  <2>3. /\ \A x \in Threads : AtWork(x)'
        /\ at' \in [Threads -> AtType]
        /\ \A x \in Threads : at'[x].job # "none" => at'[x].step \in DOMAIN Script(at'[x].job)
        /\ results' \in [Jobs -> {"none", "ok", "failed", "killed"}]
    BY <2>1, <2>2, AtTyped
  <2>4. OpenerInside'
    BY <1>t, <2>1, <2>2, InsideStays DEF OpenerInside
  <2>5. /\ pending' \in SUBSET Rows /\ (opener' = NoThread => pending' = {})
        /\ disk' \in SUBSET Rows
    BY <1>t, <2>1, ActiveFacts DEF Writes
  <2>j. joined' \in SUBSET (Rows \X Jobs)
    <3>1. joined' = joined \/ (opener # NoThread /\ joined' = joined \cup {<<Row(t), Job(opener)>>})
      BY <1>4, ExecuteMoves
    <3>2. opener # NoThread => Job(opener) \in Jobs
      BY <1>t, ActiveFacts DEF OpenerInside, Inside
    <3>3. QED
      BY <1>t, <2>1, <3>1, <3>2, ActiveFacts
  <2>6. jobs' = jobs
    BY <2>2 DEF Advances, Leaves, Others
  <2>7. TypeOK'
    BY <1>t, <1>b, <2>1, <2>3, <2>5, <2>6, <2>j DEF TypeOK, AtType
  <2>8. QED
    BY <2>3, <2>4, <2>7 DEF TypeInv
<1>5. ASSUME NEW t \in Threads, Commit(t) PROVE TypeInv'
  <2>1. /\ UNCHANGED <<halted, unbegun, aborted, joined, errors, kills>> /\ Inside(t)
        /\ \/ opener # NoThread /\ CommitRows /\ Closes(t) /\ Leaves(t, "ok")
           \/ opener = NoThread /\ UNCHANGED <<opener, pending, disk, disturbed>> /\ Stumbles(t)
    BY <1>5, CommitMoves DEF txVars
  <2>2. Active(t) /\ (Stumbles(t) \/ Leaves(t, "ok"))
    BY <2>1 DEF Inside
  <2>3. /\ \A x \in Threads : AtWork(x)'
        /\ at' \in [Threads -> AtType]
        /\ \A x \in Threads : at'[x].job # "none" => at'[x].step \in DOMAIN Script(at'[x].job)
        /\ results' \in [Jobs -> {"none", "ok", "failed", "killed"}]
    BY <2>2, AtTyped
  <2>4. /\ opener' = NoThread /\ pending' = {} /\ disk' \in SUBSET Rows /\ disturbed' \in SUBSET Jobs
    BY <1>t, <2>1, ClosesFacts DEF CommitRows
  <2>5. OpenerInside'
    BY <2>4 DEF OpenerInside
  <2>6. jobs' = jobs
    BY <2>2 DEF Stumbles, Leaves, Others
  <2>7. TypeOK'
    BY <1>t, <1>b, <2>1, <2>3, <2>4, <2>6 DEF TypeOK, AtType
  <2>8. QED
    BY <2>3, <2>5, <2>7 DEF TypeInv
<1>6. ASSUME NEW t \in Threads, StatementFails(t) PROVE TypeInv'
  <2>1. /\ UNCHANGED <<disk, halted, unbegun, joined, kills>>
        /\ errors < MaxErrors /\ errors' = errors + 1
        /\ Active(t)
        /\ (Inside(t) /\ Stumbles(t)) \/ LonePasses(t)
        /\ \/ UNCHANGED <<opener, pending, aborted, disturbed>>
           \/ opener # NoThread /\ Closes(t) /\ aborted' = TRUE
    BY <1>6, FailsMoves
  <2>2. Stumbles(t) \/ Advances(t) \/ (~Inside(t) /\ Leaves(t, "ok"))
    BY <2>1 DEF LonePasses
  <2>3. /\ \A x \in Threads : AtWork(x)'
        /\ at' \in [Threads -> AtType]
        /\ \A x \in Threads : at'[x].job # "none" => at'[x].step \in DOMAIN Script(at'[x].job)
        /\ results' \in [Jobs -> {"none", "ok", "failed", "killed"}]
    BY <2>1, <2>2, AtTyped
  <2>4. OpenerInside'
    <3>1. CASE opener' = NoThread
      BY <3>1 DEF OpenerInside
    <3>2. CASE opener' = opener
      BY <1>t, <2>1, <2>2, <3>2, InsideStays DEF OpenerInside
    <3>3. QED
      BY <2>1, <3>1, <3>2, ClosesFacts
  <2>5. /\ pending' \in SUBSET Rows /\ (opener' = NoThread => pending' = {})
        /\ opener' \in Threads \cup {NoThread} /\ disturbed' \in SUBSET Jobs
    BY <1>t, <2>1, ClosesFacts
  <2>6. aborted' \in BOOLEAN
    BY <1>b, <2>1
  <2>7. jobs' = jobs /\ errors' \in 0..MaxErrors
    BY <1>t, <1>n, <2>1, <2>2 DEF Stumbles, Advances, Leaves, Others
  <2>8. TypeOK'
    BY <1>t, <1>b, <2>1, <2>3, <2>5, <2>6, <2>7 DEF TypeOK, AtType
  <2>9. QED
    BY <2>3, <2>4, <2>8 DEF TypeInv
<1>7. ASSUME NEW t \in Threads, Catch(t) PROVE TypeInv'
  <2>1. /\ UNCHANGED <<disk, unbegun, aborted, joined, errors, kills>>
        /\ Active(t) /\ Leaves(t, "failed")
        /\ \/ opener # NoThread /\ Closes(t) /\ halted' = halted
           \/ /\ opener = NoThread /\ UNCHANGED <<opener, pending, disturbed>>
              /\ halted' = (halted \/ t = "main")
    BY <1>7, CatchMoves
  <2>2. /\ \A x \in Threads : AtWork(x)'
        /\ at' \in [Threads -> AtType]
        /\ \A x \in Threads : at'[x].job # "none" => at'[x].step \in DOMAIN Script(at'[x].job)
        /\ results' \in [Jobs -> {"none", "ok", "failed", "killed"}]
    BY <2>1, AtTyped
  <2>3. opener' = NoThread /\ pending' = {} /\ disturbed' \in SUBSET Jobs
    BY <1>t, <2>1, ClosesFacts
  <2>4. OpenerInside'
    BY <2>3 DEF OpenerInside
  <2>5. halted' \in BOOLEAN
    BY <1>b, <2>1, Zenon
  <2>6. jobs' = jobs
    BY <2>1 DEF Leaves, Others
  <2>7. TypeOK'
    BY <1>t, <1>b, <2>1, <2>2, <2>3, <2>5, <2>6 DEF TypeOK, AtType
  <2>8. QED
    BY <2>2, <2>4, <2>7 DEF TypeInv
<1>8. CASE Killed
  <2>1. /\ kills < MaxKills /\ kills' = kills + 1
        /\ \A x \in Threads : at'[x] = Idle
        /\ at' \in [Threads -> AtType]
        /\ opener' = NoThread /\ pending' = {} /\ halted' = FALSE
        /\ UNCHANGED <<jobs, disk, unbegun, aborted, disturbed, joined, errors>>
    BY <1>8 DEF Killed, AtType, Idle
  <2>2. results' \in [Jobs -> {"none", "ok", "failed", "killed"}]
    BY <1>t, <1>8 DEF Killed
  <2>3. \A x \in Threads : AtWork(x)' /\ at'[x].job = "none"
    BY <2>1 DEF AtWork, Active, Idle
  <2>4. OpenerInside'
    BY <2>1 DEF OpenerInside
  <2>5. kills' \in 0..MaxKills
    BY <1>t, <1>n, <2>1
  <2>6. TypeOK'
    BY <1>t, <1>b, <2>1, <2>2, <2>3, <2>5 DEF TypeOK, AtType
  <2>7. QED
    BY <2>3, <2>4, <2>6 DEF TypeInv
<1>9. CASE UNCHANGED vars
  <2>1. TypeOK' = TypeOK /\ OpenerInside' = OpenerInside
    BY <1>9 DEF vars, txVars, history, TypeOK, OpenerInside, Inside, Active
  <2>2. \A x \in Threads : AtWork(x)'
    BY <1>t, <1>9 DEF vars, AtWork, Active
  <2>3. QED
    BY <2>1, <2>2 DEF TypeInv
<1>10. QED
  BY <1>1, <1>2, <1>3, <1>4, <1>5, <1>6, <1>7, <1>8, <1>9 DEF Next

(* Every variable keeps its type, in every interleaving of the three threads'   *)
(* statements (Database.cpp).                                                   *)
THEOREM TypeCorrect == Spec => []TypeOK
BY TypeInit, TypeStep, PTL DEF Spec, TypeInv

--------------------------------------------------------------------------------
(* The transactions.  Each lemma takes one part of TxInv over a step of a thread *)
(* that is inside a job, from what such steps have in common.                   *)

Moves(t) == Advances(t) \/ Stumbles(t) \/ Leaves(t, "ok") \/ Leaves(t, "failed")

(* A statement moves its own thread only.                                       *)
LEMMA MovesAlone ==
  ASSUME TypeInv, NEW t \in Threads, Active(t), Moves(t)
  PROVE  /\ jobs' = jobs
         /\ \A x \in Threads : x # t =>
              /\ at'[x] = at[x]
              /\ Active(x)' = Active(x) /\ Inside(x)' = Inside(x)
         /\ \A j \in Jobs : j # Job(t) => results'[j] = results[j]
         /\ Advances(t) \/ Stumbles(t) => results'[Job(t)] = results[Job(t)] /\ Active(t)'
         /\ Leaves(t, "ok") => results'[Job(t)] = "ok" /\ ~Active(t)' /\ ~at'[t].catching
         /\ Leaves(t, "failed") => results'[Job(t)] = "failed" /\ ~Active(t)' /\ ~at'[t].catching
         /\ Active(t)' => at'[t].job = at[t].job /\ at'[t].step >= at[t].step
<1>1. results \in [Jobs -> {"none", "ok", "failed", "killed"}] /\ Job(t) \in Jobs
      /\ at[t].step \in 1..5
  BY ActiveFacts DEF TypeInv, TypeOK
<1>2. Idle.job = "none" /\ ~Idle.catching
  BY DEF Idle
<1>3. \A x \in Threads : x # t => at'[x] = at[x]
  BY DEF Moves, Advances, Stumbles, Leaves, Others
<1>4. jobs' = jobs
  BY DEF Moves, Advances, Stumbles, Leaves, Others
<1>5. \A j \in Jobs : j # Job(t) => results'[j] = results[j]
  BY <1>1 DEF Moves, Advances, Stumbles, Leaves
<1>6. \A x \in Threads : x # t => Active(x)' = Active(x) /\ Inside(x)' = Inside(x)
  BY InsideStays DEF Moves
<1>7. Advances(t) \/ Stumbles(t) => results'[Job(t)] = results[Job(t)] /\ Active(t)'
  BY InsideStays DEF Advances, Stumbles
<1>8. /\ Leaves(t, "ok") => results'[Job(t)] = "ok" /\ at'[t] = Idle
      /\ Leaves(t, "failed") => results'[Job(t)] = "failed" /\ at'[t] = Idle
  BY <1>1 DEF Leaves
<1>9. Active(t)' => at'[t].job = at[t].job /\ at'[t].step >= at[t].step
  BY <1>1, <1>2, <1>8 DEF Moves, Advances, Stumbles, Active
<1>10. QED
  BY <1>2, <1>3, <1>4, <1>5, <1>6, <1>7, <1>8, <1>9 DEF Active

(* The rows of a transaction, of the job a thread is in. *)
LEMMA OwnRows ==
  ASSUME TypeInv, NEW t \in Threads, Active(t)
  PROVE  /\ \A r : r \in TxRows(Job(t)) <=>
              \E i \in 1..5 : /\ FirstInside(at[t].job) <= i /\ i < LastStep(at[t].job)
                              /\ r = <<t, jobs[t], i>>
         /\ \A j \in Jobs : Row(t) \in TxRows(j) => j = Job(t) /\ Inside(t)
<1>1. /\ at[t].job \in JobsOf(t, jobs[t]) /\ jobs[t] \in 1..MaxJobs[t] /\ Job(t) = <<t, jobs[t]>>
      /\ at[t].step \in 1..LastStep(at[t].job) /\ LastStep(at[t].job) \in 1..5
      /\ FirstInside(at[t].job) \in 2..6
  BY ActiveFacts, ScriptFacts DEF TypeInv, AtWork, Job
<1>2. \A r : r \in TxRows(Job(t)) <=>
        \E i \in 1..5 : /\ FirstInside(at[t].job) <= i /\ i < LastStep(at[t].job)
                        /\ r = <<t, jobs[t], i>>
  BY <1>1, RowFacts
<1>3. ASSUME NEW j \in Jobs, Row(t) \in TxRows(j) PROVE j = Job(t) /\ Inside(t)
  <2>1. Row(t)[1] = t /\ Row(t)[2] = jobs[t] /\ Row(t)[3] = at[t].step
    BY DEF Row
  <2>2. j = Job(t)
    BY <1>3, <2>1, TxRowsOf, JobFacts DEF Job
  <2>3. PICK i \in 1..5 : FirstInside(at[t].job) <= i /\ Row(t) = <<t, jobs[t], i>>
    BY <1>2, <1>3, <2>2
  <2>4. QED
    BY <2>1, <2>2, <2>3 DEF Inside
<1>4. QED
  BY <1>2, <1>3

(* A thread that is still running inside its transaction without owning the      *)
(* open one is disturbed.                                                       *)
LEMMA LostIsDisturbed ==
  ASSUME TypeInv, TxInv, NEW t \in Threads, Inside(t), ~at[t].catching, opener # t
  PROVE  Job(t) \in disturbed /\ Explained
BY DEF TxInv, LossExplained

(* A row that was written stays written: its job goes on.                       *)
LEMMA WrittenStays ==
  ASSUME TypeInv, NEW t \in Threads, Active(t), Moves(t), NEW r \in Rows, RowWritten(r)
  PROVE  RowWritten(r)'
<1>m. /\ jobs' = jobs
      /\ \A x \in Threads : x # t => at'[x] = at[x] /\ Active(x)' = Active(x)
      /\ Active(t)' => at'[t].step >= at[t].step
  BY MovesAlone
<1>t. at[t].step \in 1..5 /\ at' \in [Threads -> AtType]
  BY ActiveFacts, AtTyped DEF Moves
<1>1. r[1] \in Threads /\ r[3] \in 1..5
  BY JobFacts
<1>2. CASE r[1] = t
  <2>1. at'[t].step \in 0..5
    BY <1>t DEF AtType
  <2>2. QED
    BY <1>m, <1>t, <1>1, <1>2, <2>1 DEF RowWritten, Active
<1>3. CASE r[1] # t
  BY <1>m, <1>1, <1>3 DEF RowWritten, Active
<1>4. QED
  BY <1>2, <1>3

(* The row of a statement that returned has been written.                       *)
LEMMA RowIsWritten ==
  ASSUME TypeInv, NEW t \in Threads, Active(t), Moves(t), ~Stumbles(t),
         NEW r \in Rows, r = Row(t)
  PROVE  RowWritten(r)'
<1>1. r[1] = t /\ r[2] = jobs[t] /\ r[3] = at[t].step
  BY DEF Row
<1>2. at[t].step \in 1..5 /\ jobs[t] \in Nat /\ jobs' = jobs
  BY ActiveFacts, MovesAlone
<1>3. Active(t)' => at'[t].step = at[t].step + 1
  BY MovesAlone DEF Moves, Advances
<1>4. QED
  BY <1>1, <1>2, <1>3 DEF RowWritten, Active

(* A row is written by its own job, at its own statement.                       *)
LEMMA RowsStep ==
  ASSUME TypeInv, TxInv, NEW t \in Threads, Active(t), Moves(t),
         \A r \in disk' \cup pending' : r \in disk \cup pending
                                        \/ (r = Row(t) /\ ~Stumbles(t))
  PROVE  \A r \in disk' \cup pending' : RowWritten(r)'
<1>1. disk \cup pending \in SUBSET Rows
  BY DEF TypeInv, TypeOK
<1>2. ASSUME NEW r \in disk \cup pending PROVE RowWritten(r)'
  BY <1>1, WrittenStays DEF TxInv
<1>3. ASSUME NEW r \in Rows, r = Row(t), ~Stumbles(t) PROVE RowWritten(r)'
  BY <1>3, RowIsWritten
<1>4. QED
  BY <1>2, <1>3, ActiveFacts

(* A transaction that a thread has lost has been explained.                     *)
LEMMA LossStep ==
  ASSUME TypeInv, TxInv, NEW t \in Threads, Active(t), Moves(t),
         unbegun => unbegun', aborted => aborted', errors' \in {errors, errors + 1},
         disturbed \subseteq disturbed',
         \A x \in Threads : x # t /\ opener = x /\ opener' # x => Job(x) \in disturbed' /\ Explained',
         NEW y \in Threads, y # t
  PROVE  LossExplained(y)'
<1>m. /\ jobs' = jobs /\ at'[y] = at[y] /\ Active(y)' = Active(y) /\ Inside(y)' = Inside(y)
  BY MovesAlone
<1>1. LossExplained(y) /\ errors \in Nat
  BY EdgeDatabaseConstants DEF TxInv, TypeInv, TypeOK
<1>2. Job(y)' = Job(y)
  BY <1>m DEF Job
<1>3. Explained => Explained'
  BY DEF Explained
<1>4. at[y].catching => unbegun' \/ errors' > 0
  BY <1>1 DEF LossExplained
<1>5. at[y].catching /\ ~Inside(y) => unbegun'
  BY <1>1 DEF LossExplained
<1>6. Inside(y) /\ opener' # y => Explained' /\ (Job(y) \in disturbed' \/ at[y].catching)
  BY <1>1, <1>3 DEF LossExplained
<1>7. QED
  BY <1>m, <1>2, <1>4, <1>5, <1>6 DEF LossExplained

(* Rows of an undisturbed job wait in its own transaction.                      *)
LEMMA OwnedStep ==
  ASSUME TypeInv, TxInv, NEW t \in Threads, Active(t), Moves(t),
         disturbed \subseteq disturbed',
         \/ pending' = {}
         \/ pending' = pending /\ opener' = opener
         \/ pending' = pending \cup {Row(t)} /\ opener' = opener /\ ~at[t].catching
  PROVE  \A j \in Jobs : PendingOwned(j)'
<1> SUFFICES ASSUME NEW j \in Jobs, j \notin disturbed', NEW r \in TxRows(j), r \in pending'
             PROVE  opener' = j[1] /\ j = Job(j[1])'
  BY DEF PendingOwned
<1>1. jobs' = jobs
  BY MovesAlone
<1>2. CASE r \in pending /\ opener' = opener
  <2>1. opener = j[1] /\ j = Job(j[1])
    BY <1>2 DEF TxInv, PendingOwned
  <2>2. QED
    BY <1>1, <1>2, <2>1 DEF Job
<1>3. CASE r = Row(t) /\ opener' = opener /\ ~at[t].catching
  <2>1. j = Job(t) /\ Inside(t)
    BY <1>3, OwnRows
  <2>2. opener = t
    BY <1>3, <2>1, LostIsDisturbed
  <2>3. j[1] = t /\ Job(t)' = Job(t)
    BY <1>1, <2>1 DEF Job
  <2>4. QED
    BY <1>3, <2>1, <2>2, <2>3
<1>4. QED
  BY <1>2, <1>3

(* What a step does to the rows on disk of the jobs nobody disturbed: nothing,   *)
(* but for what t itself commits.                                               *)
DiskKeeps(t) ==
  \A j \in Jobs : j \notin disturbed' /\ j # Job(t) =>
    \A r \in TxRows(j) : r \in disk' <=> r \in disk
OwnDisk(t) ==
  Job(t) \notin disturbed' =>
    \/ /\ ~Leaves(t, "ok")
       /\ \A r \in TxRows(Job(t)) : r \notin disk'
    \/ Leaves(t, "ok") /\ \A r \in TxRows(Job(t)) : r \in disk'

(* A transaction that is open holds all that its job has written.               *)
LEMMA WholeStep ==
  ASSUME TypeInv, TxInv, NEW t \in Threads, Active(t), Moves(t),
         disturbed \subseteq disturbed', DiskKeeps(t), OwnDisk(t),
         \A x \in Threads : x # t /\ opener' = x => opener = x /\ pending \subseteq pending',
         opener' = t /\ Active(t)' /\ Job(t) \notin disturbed' =>
           \A r \in TxRows(Job(t)) : r[3] < at'[t].step => r \in pending'
  PROVE  \A y \in Threads : OpenWhole(y)'
<1> SUFFICES ASSUME NEW y \in Threads, Active(y)' PROVE OpenWhole(y)'
  BY DEF OpenWhole
<1>m. jobs' = jobs /\ Job(y)' = Job(y)
  BY MovesAlone DEF Job
<1>1. CASE y # t
  <2>1. Active(y) /\ at'[y] = at[y]
    BY <1>1, MovesAlone
  <2>2. Job(y) \in Jobs /\ Job(y) # Job(t)
    BY <1>1, <2>1, ActiveFacts DEF Job
  <2>3. results'[Job(y)] = results[Job(y)] /\ OpenWhole(y)
    BY <2>2, MovesAlone DEF TxInv
  <2>4. Job(y) \notin disturbed' => \A r \in TxRows(Job(y)) : r \notin disk'
    BY <2>1, <2>2, <2>3 DEF OpenWhole, DiskKeeps
  <2>5. Job(y) \notin disturbed' /\ opener' = y =>
          \A r \in TxRows(Job(y)) : r[3] < at[y].step => r \in pending'
    BY <1>1, <2>1, <2>3 DEF OpenWhole
  <2>6. TxRows(Job(y))' = TxRows(Job(y))
    BY <1>m DEF TxRows
  <2>7. QED
    BY <1>m, <2>1, <2>3, <2>4, <2>5, <2>6 DEF OpenWhole
<1>2. CASE y = t
  <2>1. results'[Job(t)] = "none" /\ ~Leaves(t, "ok")
    BY <1>2, MovesAlone DEF TxInv, OpenWhole, Moves
  <2>2. TxRows(Job(t))' = TxRows(Job(t))
    BY <1>m, <1>2 DEF TxRows
  <2>3. QED
    BY <1>m, <1>2, <2>1, <2>2 DEF OpenWhole, OwnDisk
<1>3. QED
  BY <1>1, <1>2

(* An undisturbed transaction is on disk as a whole or not at all.              *)
LEMMA AtomicStep ==
  ASSUME TypeInv, TxInv, NEW t \in Threads, Active(t), Moves(t),
         disturbed \subseteq disturbed', DiskKeeps(t), OwnDisk(t)
  PROVE  AtomicUnlessDisturbed'
<1> SUFFICES ASSUME NEW j \in Jobs, j \notin disturbed' PROVE AllOrNothing(j)'
  BY DEF AtomicUnlessDisturbed
<1>0. TxRows(j)' = TxRows(j)
  BY DEF TxRows
<1>1. CASE j # Job(t)
  <2>1. results'[j] = results[j] /\ AllOrNothing(j)
    BY <1>1, MovesAlone DEF TxInv, AtomicUnlessDisturbed
  <2>2. \A r \in TxRows(j) : r \in disk' <=> r \in disk
    BY <1>1 DEF DiskKeeps
  <2>3. TxRows(j) \cap disk' = TxRows(j) \cap disk
    BY <2>2
  <2>4. TxRows(j) \subseteq disk => TxRows(j) \subseteq disk'
    BY <2>2
  <2>5. QED
    BY <1>0, <2>1, <2>3, <2>4 DEF AllOrNothing
<1>2. CASE j = Job(t)
  <2>1. results[Job(t)] = "none"
    BY DEF TxInv, OpenWhole
  <2>2. CASE Leaves(t, "ok")
    <3>1. results'[j] = "ok" /\ TxRows(j) \subseteq disk'
      BY <1>2, <2>2, MovesAlone DEF OwnDisk
    <3>2. QED
      BY <1>0, <3>1 DEF AllOrNothing
  <2>3. CASE ~Leaves(t, "ok")
    <3>1. results'[j] # "ok" /\ TxRows(j) \cap disk' = {}
      BY <1>2, <2>1, <2>3, MovesAlone DEF OwnDisk, Moves
    <3>2. QED
      BY <1>0, <3>1 DEF AllOrNothing
  <2>4. QED
    BY <2>2, <2>3
<1>3. QED
  BY <1>1, <1>2

(* A job that has not started has no result.                                    *)
LEMMA UnstartedStep ==
  ASSUME TypeInv, TxInv, NEW t \in Threads, Active(t), Moves(t)
  PROVE  Unstarted'
<1>1. jobs' = jobs /\ \A j \in Jobs : j # Job(t) => results'[j] = results[j]
  BY MovesAlone
<1>2. Job(t)[1] = t /\ Job(t)[2] = jobs[t] /\ jobs[t] \in Nat
  BY ActiveFacts DEF Job
<1>3. QED
  BY <1>1, <1>2 DEF Unstarted, TxInv

(* A lone statement leaves the thread outside its transaction; the job that ends *)
(* with one has no transaction.                                                 *)
LEMMA LoneFacts ==
  ASSUME TypeInv, NEW t \in Threads, Active(t), LonePasses(t)
  PROVE  /\ Moves(t) /\ ~Stumbles(t) /\ ~Inside(t)' /\ ~at'[t].catching
         /\ Leaves(t, "ok") => TxRows(Job(t)) = {}
<1>1. at[t].step = 1 /\ FirstInside(at[t].job) > 2 /\ FirstInside(at[t].job) \in 2..6
  BY ActiveFacts, ScriptFacts DEF LonePasses
<1>2. CASE Advances(t)
  <2>1. Active(t)' /\ at'[t].step = 2 /\ at'[t].job = at[t].job /\ ~at'[t].catching
    BY <1>1, <1>2, MovesAlone DEF Moves, Advances
  <2>2. ~Stumbles(t) /\ ~Inside(t)' /\ ~Leaves(t, "ok")
    BY <1>1, <1>2, <2>1, MovesAlone DEF Stumbles, Inside, Moves
  <2>3. QED
    BY <1>2, <2>1, <2>2 DEF Moves
<1>3. CASE Leaves(t, "ok") /\ at[t].step = LastStep(at[t].job)
  <2>1. Moves(t) /\ ~Active(t)' /\ ~at'[t].catching
    BY <1>3, MovesAlone DEF Moves
  <2>2. ~Stumbles(t) /\ ~Inside(t)'
    BY <2>1, MovesAlone DEF Inside
  <2>3. TxRows(Job(t)) = {}
    BY <1>1, <1>3, OwnRows
  <2>4. QED
    BY <2>1, <2>2, <2>3
<1>4. QED
  BY <1>2, <1>3 DEF LonePasses

(* A step that touches no transaction's row on disk. *)
LEMMA DiskQuiet ==
  ASSUME TypeInv, TxInv, NEW t \in Threads, Active(t), Moves(t), disturbed \subseteq disturbed',
         \A j \in Jobs : j \notin disturbed' => \A r \in TxRows(j) : r \in disk' <=> r \in disk,
         Leaves(t, "ok") => TxRows(Job(t)) = {}
  PROVE  DiskKeeps(t) /\ OwnDisk(t)
<1>1. DiskKeeps(t)
  BY DEF DiskKeeps
<1>2. Job(t) \notin disturbed' => \A r \in TxRows(Job(t)) : r \notin disk'
  BY ActiveFacts DEF TxInv, OpenWhole
<1>3. QED
  BY <1>1, <1>2 DEF OwnDisk

(* TxInv holds at the start.                                                    *)
LEMMA TxInit == Init => TxInv
<1> SUFFICES ASSUME Init PROVE TxInv
  OBVIOUS
<1>1. /\ \A t \in Threads : at[t] = Idle
      /\ disk = {} /\ pending = {} /\ disturbed = {} /\ opener = NoThread
      /\ ~halted /\ ~aborted
      /\ \A j \in Jobs : results[j] = "none"
  BY DEF Init
<1>2. \A t \in Threads : ~Active(t) /\ ~at[t].catching
  BY <1>1 DEF Active, Idle
<1>3. /\ \A t \in Threads : LossExplained(t) /\ OpenWhole(t)
      /\ \A j \in Jobs : PendingOwned(j)
  BY <1>1, <1>2 DEF LossExplained, OpenWhole, Inside, PendingOwned
<1>4. AtomicUnlessDisturbed /\ Unstarted /\ DisturbanceExplained /\ HaltExplained
  BY <1>1 DEF AtomicUnlessDisturbed, AllOrNothing, Unstarted, DisturbanceExplained, HaltExplained
<1>5. QED
  BY <1>1, <1>3, <1>4 DEF TxInv

(* A job that starts keeps TxInv.                                               *)
LEMMA StartStep ==
  ASSUME TypeInv, TxInv, NEW t \in Threads, NEW job \in JobsOf(t, jobs[t] + 1), StartJob(t, job)
  PROVE  TxInv'
<1>1. /\ at[t] = Idle /\ jobs[t] < MaxJobs[t] /\ jobs' = [jobs EXCEPT ![t] = @ + 1]
      /\ at' = [at EXCEPT ![t] = [job |-> job, step |-> 1, catching |-> FALSE]]
      /\ UNCHANGED <<opener, pending, disk, halted, results, unbegun, aborted, disturbed, errors>>
  BY DEF StartJob, txVars, history
<1>t. /\ at \in [Threads -> AtType] /\ jobs \in [Threads -> Nat]
      /\ disk \in SUBSET Rows /\ pending \in SUBSET Rows /\ opener \in Threads \cup {NoThread}
  BY DEF TypeInv, TypeOK, AtType
<1>2. /\ \A x \in Threads : x # t => at'[x] = at[x] /\ jobs'[x] = jobs[x]
      /\ at'[t].job = job /\ at'[t].step = 1 /\ ~at'[t].catching /\ jobs'[t] = jobs[t] + 1
  BY <1>1, <1>t
<1>3. ~Active(t) /\ ~Inside(t) /\ opener # t
  BY <1>1 DEF Active, Inside, Idle, TypeInv, OpenerInside, NoThread, Threads
<1>4. job \in JobNames /\ FirstInside(job) \in 2..6
  <2>1. job \in JobNames
    BY DEF JobsOf, JobNames, Threads
  <2>2. QED
    BY <2>1, ScriptFacts
<1>5. ~Inside(t)' /\ Active(t)'
  BY <1>2, <1>4 DEF Inside, Active, JobNames
<1>6. \A x \in Threads : x # t => /\ Active(x)' = Active(x) /\ Inside(x)' = Inside(x)
                                  /\ Job(x)' = Job(x)
  BY <1>2 DEF Active, Inside, Job
<1>7. \A r \in disk' \cup pending' : RowWritten(r)'
  <2> SUFFICES ASSUME NEW r \in disk \cup pending PROVE RowWritten(r)'
    BY <1>1
  <2>1. RowWritten(r) /\ r[1] \in Threads /\ r[2] \in Nat
    BY <1>t, JobFacts DEF TxInv
  <2>2. QED
    BY <1>2, <1>6, <1>t, <2>1 DEF RowWritten
<1>8. \A x \in Threads : LossExplained(x)'
  BY <1>1, <1>2, <1>5, <1>6 DEF TxInv, LossExplained, Explained
<1>9. ASSUME NEW j \in Jobs PROVE PendingOwned(j)'
  <2>1. TxRows(j)' = TxRows(j) /\ PendingOwned(j)
    BY DEF TxRows, TxInv
  <2>2. j[1] \in Threads
    BY JobFacts
  <2>3. QED
    BY <1>1, <1>3, <1>6, <2>1, <2>2 DEF PendingOwned
<1>10. ASSUME NEW x \in Threads PROVE OpenWhole(x)'
  <2>1. CASE x # t
    <3>1. OpenWhole(x) /\ Job(x)' = Job(x) /\ Active(x)' = Active(x) /\ at'[x] = at[x]
      BY <1>2, <1>6, <2>1 DEF TxInv
    <3>2. TxRows(Job(x))' = TxRows(Job(x))
      BY <3>1 DEF TxRows
    <3>3. QED
      BY <1>1, <3>1, <3>2 DEF OpenWhole
  <2>2. CASE x = t
    <3>1. <<t, jobs[t] + 1>> \in Jobs /\ Job(t)' = <<t, jobs[t] + 1>>
      BY <1>1, <1>2, <1>t, JobFacts DEF Job
    <3>2. results[<<t, jobs[t] + 1>>] = "none"
      BY <1>t, <3>1 DEF TxInv, Unstarted
    <3>3. ASSUME NEW r \in TxRows(<<t, jobs[t] + 1>>) PROVE r \notin disk
      <4>1. r[1] = t /\ r[2] = jobs[t] + 1
        BY <3>1, TxRowsOf
      <4>2. r \in disk => r[2] <= jobs[t]
        BY <4>1 DEF TxInv, RowWritten
      <4>3. QED
        BY <1>t, <4>1, <4>2
    <3>4. TxRows(Job(t))' = TxRows(<<t, jobs[t] + 1>>)
      BY <3>1 DEF TxRows
    <3>5. QED
      BY <1>1, <1>3, <2>2, <3>1, <3>2, <3>3, <3>4 DEF OpenWhole
  <2>3. QED
    BY <2>1, <2>2
<1>11. Unstarted'
  <2>1. \A j \in Jobs : j[1] \in Threads /\ j[2] \in Nat /\ jobs'[j[1]] >= jobs[j[1]]
    BY <1>2, <1>t, JobFacts
  <2>2. QED
    BY <1>1, <1>2, <1>t, <2>1 DEF TxInv, Unstarted
<1>12. AtomicUnlessDisturbed'
  BY <1>1 DEF TxInv, AtomicUnlessDisturbed, AllOrNothing, TxRows
<1>13. DisturbanceExplained' /\ HaltExplained' /\ (aborted' => errors' > 0)
  BY <1>1 DEF TxInv, DisturbanceExplained, HaltExplained
<1>14. QED
  BY <1>7, <1>8, <1>9, <1>10, <1>11, <1>12, <1>13 DEF TxInv

(* A process that is killed keeps TxInv.                                        *)
LEMMA KilledStep ==
  ASSUME TypeInv, TxInv, Killed
  PROVE  TxInv'
<1>1. /\ \A t \in Threads : at'[t] = Idle
      /\ pending' = {} /\ opener' = NoThread /\ halted' = FALSE
      /\ UNCHANGED <<jobs, disk, unbegun, aborted, disturbed, errors>>
  BY DEF Killed
<1>2. \A t \in Threads : ~Active(t)' /\ ~Inside(t)' /\ ~at'[t].catching
  BY <1>1 DEF Active, Inside, Idle
<1>3. \A j \in Jobs : results'[j] = IF \E t \in Threads : at[t] # Idle /\ j = Job(t)
                                    THEN "killed" ELSE results[j]
  BY DEF Killed, TypeInv, TypeOK
<1>t. disk \in SUBSET Rows /\ jobs \in [Threads -> Nat]
  BY DEF TypeInv, TypeOK
<1>4. \A r \in disk' \cup pending' : RowWritten(r)'
  <2> SUFFICES ASSUME NEW r \in disk PROVE RowWritten(r)'
    BY <1>1
  <2>1. r[1] \in Threads /\ RowWritten(r)
    BY <1>t, JobFacts DEF TxInv
  <2>2. QED
    BY <1>1, <1>2, <2>1 DEF RowWritten
<1>5. /\ \A t \in Threads : LossExplained(t)' /\ OpenWhole(t)'
      /\ \A j \in Jobs : PendingOwned(j)'
  BY <1>1, <1>2 DEF LossExplained, OpenWhole, PendingOwned
<1>6. Unstarted'
  BY <1>1, <1>3, <1>t, JobFacts DEF TxInv, Unstarted, Job
<1>7. ASSUME NEW j \in Jobs, j \notin disturbed' PROVE AllOrNothing(j)'
  <2>1. TxRows(j)' = TxRows(j) /\ disk' = disk /\ AllOrNothing(j)
    BY <1>1, <1>7 DEF TxRows, TxInv, AtomicUnlessDisturbed
  <2>2. CASE \E t \in Threads : at[t] # Idle /\ j = Job(t)
    <3>1. PICK t \in Threads : at[t] # Idle /\ j = Job(t)
      BY <2>2
    <3>2. Active(t)
      BY <3>1 DEF TypeInv, AtWork
    <3>3. TxRows(j) \cap disk = {}
      BY <1>1, <1>7, <3>1, <3>2 DEF TxInv, OpenWhole
    <3>4. results'[j] = "killed"
      BY <1>3, <2>2
    <3>5. QED
      BY <2>1, <3>3, <3>4 DEF AllOrNothing
  <2>3. CASE ~\E t \in Threads : at[t] # Idle /\ j = Job(t)
    <3>1. results'[j] = results[j]
      BY <1>3, <2>3
    <3>2. QED
      BY <2>1, <3>1 DEF AllOrNothing
  <2>4. QED
    BY <2>2, <2>3
<1>8. AtomicUnlessDisturbed'
  BY <1>7 DEF AtomicUnlessDisturbed
<1>9. DisturbanceExplained' /\ HaltExplained' /\ (aborted' => errors' > 0)
  BY <1>1 DEF TxInv, DisturbanceExplained, HaltExplained
<1>10. QED
  BY <1>4, <1>5, <1>6, <1>8, <1>9 DEF TxInv

(* TxInv is inductive.                                                          *)
LEMMA TxStep == TypeInv /\ TxInv /\ [Next]_vars => TxInv'
<1> SUFFICES ASSUME TypeInv, TxInv, [Next]_vars PROVE TxInv'
  OBVIOUS
<1>x. /\ \A t \in Threads : LossExplained(t)
      /\ aborted => errors > 0
      /\ DisturbanceExplained /\ HaltExplained
      /\ errors \in Nat
      /\ opener \in Threads \cup {NoThread} /\ NoThread \notin Threads
      /\ \A t \in Threads : opener = t => Inside(t)
      /\ opener = NoThread => pending = {}
  BY EdgeDatabaseConstants
     DEF TxInv, TypeInv, TypeOK, OpenerInside, NoThread, Threads
<1>1. ASSUME NEW t \in Threads, NEW job \in JobsOf(t, jobs[t] + 1), StartJob(t, job) PROVE TxInv'
  BY <1>1, StartStep
<1>2. ASSUME NEW t \in Threads, Begin(t) PROVE TxInv'
  <2>1. /\ UNCHANGED <<pending, disk, halted, aborted, disturbed, errors>>
        /\ Active(t) /\ ~at[t].catching /\ at[t].step = FirstInside(at[t].job) - 1
        /\ \/ opener = NoThread /\ opener' = t /\ unbegun' = unbegun /\ Advances(t)
           \/ opener # NoThread /\ opener' = opener /\ unbegun' = TRUE /\ Stumbles(t)
    BY <1>2, BeginMoves
  <2>2. Moves(t) /\ ~Leaves(t, "ok") /\ ~Inside(t) /\ opener # t
    <3>1. ~Inside(t)
      BY <2>1, ActiveFacts, ScriptFacts DEF Inside
    <3>2. Moves(t) /\ Active(t)'
      BY <2>1, MovesAlone DEF Moves
    <3>3. QED
      BY <1>x, <3>1, <3>2, <2>1, MovesAlone
  <2>3. \A r \in disk' \cup pending' : RowWritten(r)'
    BY <2>1, <2>2, RowsStep
  <2>4. LossExplained(t)'
    <3>1. CASE opener' = t /\ Advances(t)
      BY <2>1, <2>2, <3>1, InsideStays DEF LossExplained, Advances
    <3>2. CASE unbegun' = TRUE /\ Stumbles(t)
      BY <2>1, <2>2, <3>2, InsideStays DEF LossExplained
    <3>3. QED
      BY <1>x, <2>1, <3>1, <3>2
  <2>5. ASSUME NEW y \in Threads, y # t PROVE LossExplained(y)'
    BY <1>x, <2>1, <2>2, <2>5, LossStep
  <2>6. \A j \in Jobs : PendingOwned(j)'
    <3>1. pending' = {} \/ (pending' = pending /\ opener' = opener)
      BY <2>1 DEF TypeInv, TypeOK
    <3>2. QED
      BY <2>1, <2>2, <3>1, OwnedStep
  <2>7. DiskKeeps(t) /\ OwnDisk(t)
    BY <2>1, <2>2, DiskQuiet
  <2>8. \A y \in Threads : OpenWhole(y)'
    <3>1. ASSUME opener' = t, NEW r \in TxRows(Job(t)) PROVE ~(r[3] < at'[t].step)
      <4>1. at'[t].step = FirstInside(at[t].job) /\ FirstInside(at[t].job) \in Nat
        BY <1>x, <2>1, <2>2, <3>1, ActiveFacts, ScriptFacts DEF Advances
      <4>2. PICK i \in 1..5 : FirstInside(at[t].job) <= i /\ r = <<t, jobs[t], i>>
        BY <2>1, OwnRows
      <4>3. QED
        BY <4>1, <4>2
    <3>2. \A x \in Threads : x # t /\ opener' = x => opener = x
      BY <2>1
    <3>3. QED
      BY <2>1, <2>2, <2>7, <3>1, <3>2, WholeStep
  <2>9. AtomicUnlessDisturbed' /\ Unstarted'
    BY <2>1, <2>2, <2>7, AtomicStep, UnstartedStep
  <2>10. DisturbanceExplained' /\ HaltExplained' /\ (aborted' => errors' > 0)
    BY <1>x, <2>1 DEF DisturbanceExplained, HaltExplained
  <2>11. QED
    BY <2>3, <2>4, <2>5, <2>6, <2>8, <2>9, <2>10 DEF TxInv
<1>3. ASSUME NEW t \in Threads, ParseFails(t) PROVE TxInv'
  <2>1. /\ UNCHANGED <<opener, pending, disk, halted, aborted, disturbed>>
        /\ Active(t) /\ ~Inside(t) /\ Stumbles(t)
        /\ unbegun' = TRUE /\ errors' = errors + 1
    BY <1>3, ParseFailsMoves DEF txVars
  <2>2. Moves(t) /\ ~Leaves(t, "ok") /\ opener # t
    <3>1. Moves(t) /\ Active(t)'
      BY <2>1, MovesAlone DEF Moves
    <3>2. QED
      BY <1>x, <2>1, <3>1, MovesAlone
  <2>3. \A r \in disk' \cup pending' : RowWritten(r)'
    BY <2>1, <2>2, RowsStep
  <2>4. LossExplained(t)'
    BY <2>1, InsideStays DEF LossExplained
  <2>5. ASSUME NEW y \in Threads, y # t PROVE LossExplained(y)'
    BY <1>x, <2>1, <2>2, <2>5, LossStep
  <2>6. \A j \in Jobs : PendingOwned(j)'
    BY <2>1, <2>2, OwnedStep
  <2>7. DiskKeeps(t) /\ OwnDisk(t)
    BY <2>1, <2>2, DiskQuiet
  <2>8. \A y \in Threads : OpenWhole(y)'
    BY <2>1, <2>2, <2>7, WholeStep
  <2>9. AtomicUnlessDisturbed' /\ Unstarted'
    BY <2>1, <2>2, <2>7, AtomicStep, UnstartedStep
  <2>10. DisturbanceExplained' /\ HaltExplained' /\ (aborted' => errors' > 0)
    BY <1>x, <2>1 DEF DisturbanceExplained, HaltExplained
  <2>11. QED
    BY <2>3, <2>4, <2>5, <2>6, <2>8, <2>9, <2>10 DEF TxInv
<1>4. ASSUME NEW t \in Threads, Execute(t) PROVE TxInv'
  <2>1. /\ UNCHANGED <<opener, halted, unbegun, aborted, disturbed, errors>>
        /\ Active(t) /\ ~at[t].catching /\ Writes(Row(t))
        /\ (Inside(t) /\ Advances(t)) \/ LonePasses(t)
    BY <1>4, ExecuteMoves
  <2>2. Moves(t) /\ ~Stumbles(t)
    BY <2>1, LoneFacts DEF Moves, Advances, Stumbles
  <2>3. \A r \in disk' \cup pending' : RowWritten(r)'
    BY <2>1, <2>2, RowsStep DEF Writes
  <2>4. LossExplained(t)'
    <3>1. CASE Inside(t) /\ Advances(t)
      BY <1>x, <2>1, <2>2, <3>1, LostIsDisturbed, MovesAlone
         DEF LossExplained, Job, Explained, Advances
    <3>2. CASE LonePasses(t)
      BY <2>1, <3>2, LoneFacts DEF LossExplained
    <3>3. QED
      BY <2>1, <3>1, <3>2
  <2>5. ASSUME NEW y \in Threads, y # t PROVE LossExplained(y)'
    BY <1>x, <2>1, <2>2, <2>5, LossStep
  <2>6. \A j \in Jobs : PendingOwned(j)'
    BY <2>1, <2>2, OwnedStep DEF Writes
  <2>7. \A j \in Jobs : j \notin disturbed' => \A r \in TxRows(j) : r \in disk' <=> r \in disk
    <3> SUFFICES ASSUME NEW j \in Jobs, j \notin disturbed, Row(t) \in TxRows(j),
                        disk' = disk \cup {Row(t)}, opener = NoThread
                 PROVE  FALSE
      BY <2>1 DEF Writes
    <3>1. j = Job(t) /\ Inside(t)
      BY <2>1, OwnRows
    <3>2. QED
      BY <1>x, <2>1, <3>1, LostIsDisturbed
  <2>8. DiskKeeps(t) /\ OwnDisk(t)
    <3>1. Leaves(t, "ok") => TxRows(Job(t)) = {}
      BY <2>1, <2>2, LoneFacts, MovesAlone DEF Advances
    <3>2. QED
      BY <2>1, <2>2, <2>7, <3>1, DiskQuiet
  <2>9. \A y \in Threads : OpenWhole(y)'
    <3>1. ASSUME opener' = t, Active(t)', Job(t) \notin disturbed',
                 NEW r \in TxRows(Job(t)), r[3] < at'[t].step
          PROVE  r \in pending'
      <4>1. opener = t /\ Inside(t)
        BY <1>x, <2>1, <3>1
      <4>2. Advances(t) /\ pending' = pending \cup {Row(t)}
        BY <1>x, <2>1, <4>1 DEF LonePasses, Writes
      <4>3. PICK i \in 1..5 : r = <<t, jobs[t], i>>
        BY <2>1, OwnRows
      <4>4. CASE i = at[t].step
        BY <4>2, <4>3, <4>4 DEF Row
      <4>5. CASE i # at[t].step
        <5>1. r[3] < at[t].step
          BY <2>1, <3>1, <4>2, <4>3, <4>5, ActiveFacts DEF Advances
        <5>2. QED
          BY <2>1, <3>1, <4>1, <4>2, <5>1 DEF TxInv, OpenWhole
      <4>6. QED
        BY <4>4, <4>5
    <3>2. pending \subseteq pending'
      BY <2>1 DEF Writes
    <3>3. QED
      BY <2>1, <2>2, <2>8, <3>1, <3>2, WholeStep
  <2>10. AtomicUnlessDisturbed' /\ Unstarted'
    BY <2>1, <2>2, <2>8, AtomicStep, UnstartedStep
  <2>11. DisturbanceExplained' /\ HaltExplained' /\ (aborted' => errors' > 0)
    BY <1>x, <2>1 DEF DisturbanceExplained, HaltExplained
  <2>12. QED
    BY <2>3, <2>4, <2>5, <2>6, <2>9, <2>10, <2>11 DEF TxInv<1>5. ASSUME NEW t \in Threads, Commit(t) PROVE TxInv'
  <2>1. /\ UNCHANGED <<halted, unbegun, aborted, errors>>
        /\ Inside(t) /\ Active(t) /\ ~at[t].catching /\ at[t].step = LastStep(at[t].job)
        /\ \/ opener # NoThread /\ CommitRows /\ Closes(t) /\ Leaves(t, "ok")
           \/ opener = NoThread /\ UNCHANGED <<opener, pending, disk, disturbed>> /\ Stumbles(t)
    BY <1>5, CommitMoves DEF txVars, Inside
  <2>2. opener # t => Job(t) \in disturbed /\ Explained
    BY <2>1, LostIsDisturbed
  <2>3. CASE opener = NoThread /\ UNCHANGED <<opener, pending, disk, disturbed>> /\ Stumbles(t)
    <3>1. Moves(t) /\ ~Leaves(t, "ok") /\ opener # t
      <4>1. Moves(t) /\ Active(t)'
        BY <2>1, <2>3, MovesAlone DEF Moves
      <4>2. QED
        BY <1>x, <2>1, <2>3, <4>1, MovesAlone
    <3>2. \A r \in disk' \cup pending' : RowWritten(r)'
      BY <2>1, <2>3, <3>1, RowsStep
    <3>3. LossExplained(t)'
      <4>1. Job(t) \in disturbed /\ Explained /\ errors' = errors
        BY <2>1, <2>2, <3>1
      <4>2. jobs' = jobs /\ Inside(t)'
        BY <2>1, <2>3, <3>1, InsideStays, MovesAlone
      <4>3. unbegun \/ errors > 0
        BY <1>x, <4>1 DEF Explained
      <4>4. QED
        BY <2>1, <2>3, <4>1, <4>2, <4>3 DEF LossExplained, Job, Explained
    <3>4. ASSUME NEW y \in Threads, y # t PROVE LossExplained(y)'
      BY <1>x, <2>1, <2>3, <3>1, <3>4, LossStep
    <3>5. \A j \in Jobs : PendingOwned(j)'
      BY <2>1, <2>3, <3>1, OwnedStep
    <3>6. DiskKeeps(t) /\ OwnDisk(t)
      BY <2>1, <2>3, <3>1, DiskQuiet
    <3>7. \A y \in Threads : OpenWhole(y)'
      BY <2>1, <2>3, <3>1, <3>6, WholeStep
    <3>8. AtomicUnlessDisturbed' /\ Unstarted'
      BY <2>1, <2>3, <3>1, <3>6, AtomicStep, UnstartedStep
    <3>9. DisturbanceExplained' /\ HaltExplained' /\ (aborted' => errors' > 0)
      BY <1>x, <2>1, <2>3 DEF DisturbanceExplained, HaltExplained
    <3>10. QED
      BY <3>2, <3>3, <3>4, <3>5, <3>7, <3>8, <3>9 DEF TxInv
  <2>4. CASE opener # NoThread /\ CommitRows /\ Closes(t) /\ Leaves(t, "ok")
    <3>1. Moves(t) /\ ~Active(t)' /\ ~Inside(t)' /\ ~at'[t].catching /\ ~Stumbles(t)
      <4>1. Moves(t)
        BY <2>4 DEF Moves
      <4>2. ~Active(t)' /\ ~at'[t].catching
        BY <2>1, <2>4, <4>1, MovesAlone
      <4>3. QED
        BY <2>1, <4>1, <4>2, MovesAlone DEF Inside
    <3>2. /\ opener' = NoThread /\ pending' = {} /\ disturbed \subseteq disturbed'
          /\ \A x \in Threads : x = opener /\ x # t => Job(x) \in disturbed'
          /\ opener = t => disturbed' = disturbed
          /\ disk' = disk \cup pending
      BY <2>4, ClosesFacts DEF CommitRows
    <3>3. \A r \in disk' \cup pending' : RowWritten(r)'
      BY <2>1, <3>1, <3>2, RowsStep
    <3>4. LossExplained(t)'
      BY <3>1 DEF LossExplained
    <3>5. Explained => Explained'
      BY <2>1 DEF Explained
    <3>6. ASSUME NEW y \in Threads, y # t PROVE LossExplained(y)'
      BY <1>x, <2>1, <2>2, <3>1, <3>2, <3>5, <3>6, LossStep
    <3>7. \A j \in Jobs : PendingOwned(j)'
      BY <2>1, <3>1, <3>2, OwnedStep
    <3>8. DiskKeeps(t)
      <4> SUFFICES ASSUME NEW j \in Jobs, j \notin disturbed', j # Job(t),
                          NEW r \in TxRows(j), r \in pending
                   PROVE  FALSE
        BY <3>2 DEF DiskKeeps
      <4>1. opener = j[1] /\ j = Job(j[1]) /\ j[1] \in Threads
        BY <3>2, JobFacts DEF TxInv, PendingOwned
      <4>2. QED
        BY <3>2, <4>1
    <3>9. OwnDisk(t)
      <4> SUFFICES ASSUME Job(t) \notin disturbed', NEW r \in TxRows(Job(t)) PROVE r \in disk'
        BY <2>4 DEF OwnDisk
      <4>1. Job(t) \notin disturbed /\ opener = t
        BY <2>2, <3>2
      <4>2. r[3] < at[t].step
        BY <2>1, OwnRows
      <4>3. QED
        BY <2>1, <3>2, <4>1, <4>2 DEF TxInv, OpenWhole
    <3>10. \A y \in Threads : OpenWhole(y)'
      BY <1>x, <2>1, <3>1, <3>2, <3>8, <3>9, WholeStep
    <3>11. AtomicUnlessDisturbed' /\ Unstarted'
      BY <2>1, <3>1, <3>2, <3>8, <3>9, AtomicStep, UnstartedStep
    <3>12. DisturbanceExplained'
      <4>1. disturbed' # {} => Explained
        BY <1>x, <2>2, <3>2 DEF DisturbanceExplained, Explained
      <4>2. QED
        BY <2>1, <4>1 DEF DisturbanceExplained, Explained
    <3>13. HaltExplained' /\ (aborted' => errors' > 0)
      BY <1>x, <2>1 DEF HaltExplained
    <3>14. QED
      BY <3>3, <3>4, <3>6, <3>7, <3>10, <3>11, <3>12, <3>13 DEF TxInv
  <2>5. QED
    BY <2>1, <2>3, <2>4
<1>6. ASSUME NEW t \in Threads, StatementFails(t) PROVE TxInv'
  <2>1. /\ UNCHANGED <<disk, halted, unbegun>>
        /\ errors' = errors + 1
        /\ Active(t) /\ ~at[t].catching
        /\ (Inside(t) /\ Stumbles(t)) \/ LonePasses(t)
        /\ \/ UNCHANGED <<opener, pending, aborted, disturbed>>
           \/ opener # NoThread /\ Closes(t) /\ aborted' = TRUE
    BY <1>6, FailsMoves
  <2>2. /\ Moves(t) /\ (Leaves(t, "ok") => TxRows(Job(t)) = {})
        /\ opener = t => ~LonePasses(t)
    <3>1. CASE Inside(t) /\ Stumbles(t)
      <4>1. Moves(t) /\ Active(t)'
        BY <2>1, <3>1, MovesAlone DEF Moves
      <4>2. QED
        BY <2>1, <3>1, <4>1, MovesAlone DEF LonePasses
    <3>2. CASE LonePasses(t)
      BY <1>x, <2>1, <3>2, LoneFacts DEF LonePasses
    <3>3. QED
      BY <2>1, <3>1, <3>2
  <2>3. /\ disturbed \subseteq disturbed' /\ (aborted => aborted')
        /\ \/ pending' = {}
           \/ pending' = pending /\ opener' = opener
        /\ \/ opener' = opener /\ pending' = pending /\ disturbed' = disturbed
           \/ opener' = NoThread /\ aborted' = TRUE
        /\ \A x \in Threads : x # t /\ opener = x /\ opener' # x => Job(x) \in disturbed' /\ aborted'
    BY <1>x, <2>1, ClosesFacts
  <2>4. \A r \in disk' \cup pending' : RowWritten(r)'
    BY <2>1, <2>2, <2>3, RowsStep
  <2>5. LossExplained(t)'
    <3>1. CASE LonePasses(t)
      BY <2>1, <3>1, LoneFacts DEF LossExplained
    <3>2. CASE Inside(t) /\ Stumbles(t)
      <4>1. Inside(t)' /\ at'[t].catching
        BY <2>1, <2>2, <3>2, InsideStays DEF Stumbles
      <4>2. opener' # t => Explained'
        <5>1. opener # t => Explained
          BY <2>1, <3>2, LostIsDisturbed
        <5>2. opener = t /\ opener' # t => aborted'
          BY <2>3
        <5>3. QED
          BY <2>1, <2>3, <5>1, <5>2 DEF Explained
      <4>3. QED
        BY <1>x, <2>1, <4>1, <4>2 DEF LossExplained
    <3>3. QED
      BY <2>1, <3>1, <3>2
  <2>6. ASSUME NEW y \in Threads, y # t PROVE LossExplained(y)'
    BY <1>x, <2>1, <2>2, <2>3, <2>6, LossStep DEF Explained
  <2>7. \A j \in Jobs : PendingOwned(j)'
    BY <2>1, <2>2, <2>3, OwnedStep
  <2>8. DiskKeeps(t) /\ OwnDisk(t)
    BY <2>1, <2>2, <2>3, DiskQuiet
  <2>9. \A y \in Threads : OpenWhole(y)'
    <3>1. ASSUME opener' = t, Active(t)', Job(t) \notin disturbed',
                 NEW r \in TxRows(Job(t)), r[3] < at'[t].step
          PROVE  r \in pending'
      <4>1. opener = t /\ pending' = pending /\ disturbed' = disturbed /\ Stumbles(t)
        BY <1>x, <2>1, <2>2, <2>3, <3>1
      <4>2. QED
        BY <2>1, <3>1, <4>1 DEF TxInv, OpenWhole, Stumbles
    <3>2. QED
      BY <1>x, <2>1, <2>2, <2>3, <2>8, <3>1, WholeStep
  <2>10. AtomicUnlessDisturbed' /\ Unstarted'
    BY <2>1, <2>2, <2>3, <2>8, AtomicStep, UnstartedStep
  <2>11. DisturbanceExplained'
    BY <1>x, <2>1, <2>3 DEF DisturbanceExplained
  <2>12. HaltExplained' /\ (aborted' => errors' > 0)
    BY <1>x, <2>1, <2>3 DEF HaltExplained
  <2>13. QED
    BY <2>4, <2>5, <2>6, <2>7, <2>9, <2>10, <2>11, <2>12 DEF TxInv
<1>7. ASSUME NEW t \in Threads, Catch(t) PROVE TxInv'
  <2>1. /\ UNCHANGED <<disk, unbegun, aborted, errors>>
        /\ Active(t) /\ at[t].catching /\ Leaves(t, "failed")
        /\ \/ opener # NoThread /\ Closes(t) /\ halted' = halted
           \/ /\ opener = NoThread /\ UNCHANGED <<opener, pending, disturbed>>
              /\ halted' = (halted \/ t = "main")
    BY <1>7, CatchMoves
  <2>2. Moves(t) /\ ~Leaves(t, "ok") /\ ~Active(t)' /\ ~Inside(t)' /\ ~at'[t].catching /\ ~Stumbles(t)
    <3>1. Moves(t)
      BY <2>1 DEF Moves
    <3>2. results'[Job(t)] = "failed" /\ ~Active(t)' /\ ~at'[t].catching
      BY <2>1, <3>1, MovesAlone
    <3>3. QED
      BY <2>1, <3>1, <3>2, MovesAlone DEF Inside
  <2>3. /\ opener' = NoThread /\ pending' = {} /\ disturbed \subseteq disturbed'
        /\ \A x \in Threads : x = opener /\ x # t => Job(x) \in disturbed'
        /\ opener \in {t, NoThread} => disturbed' = disturbed
    BY <1>x, <2>1, ClosesFacts
  <2>4. opener # t => Explained
    BY <1>x, <2>1 DEF LossExplained, Explained
  <2>5. Explained => Explained'
    BY <2>1 DEF Explained
  <2>6. \A r \in disk' \cup pending' : RowWritten(r)'
    BY <2>1, <2>2, <2>3, RowsStep
  <2>7. LossExplained(t)'
    BY <2>2 DEF LossExplained
  <2>8. ASSUME NEW y \in Threads, y # t PROVE LossExplained(y)'
    BY <1>x, <2>1, <2>2, <2>3, <2>4, <2>5, <2>8, LossStep
  <2>9. \A j \in Jobs : PendingOwned(j)'
    BY <2>1, <2>2, <2>3, OwnedStep
  <2>10. DiskKeeps(t) /\ OwnDisk(t)
    BY <2>1, <2>2, <2>3, DiskQuiet
  <2>11. \A y \in Threads : OpenWhole(y)'
    BY <1>x, <2>1, <2>2, <2>3, <2>10, WholeStep
  <2>12. AtomicUnlessDisturbed' /\ Unstarted'
    BY <2>1, <2>2, <2>3, <2>10, AtomicStep, UnstartedStep
  <2>13. DisturbanceExplained'
    <3>1. disturbed' # {} => Explained
      BY <1>x, <2>3, <2>4 DEF DisturbanceExplained, Explained
    <3>2. QED
      BY <2>1, <3>1 DEF DisturbanceExplained, Explained
  <2>14. HaltExplained'
    <3>1. opener = NoThread => Explained
      BY <1>x, <2>4
    <3>2. CASE opener # NoThread
      BY <1>x, <2>1, <3>2 DEF HaltExplained
    <3>3. CASE opener = NoThread
      BY <2>1, <3>1, <3>3 DEF HaltExplained, Explained
    <3>4. QED
      BY <3>2, <3>3
  <2>15. aborted' => errors' > 0
    BY <1>x, <2>1
  <2>16. QED
    BY <2>6, <2>7, <2>8, <2>9, <2>11, <2>12, <2>13, <2>14, <2>15 DEF TxInv
<1>8. CASE Killed
  BY <1>8, KilledStep
<1>9. CASE UNCHANGED vars
  BY <1>9 DEF vars, txVars, history, TxInv, RowWritten, LossExplained, PendingOwned, OpenWhole,
              Unstarted, AtomicUnlessDisturbed, AllOrNothing, DisturbanceExplained,
              HaltExplained, Inside, Active, Explained, Job, TxRows
<1>10. QED
  BY <1>1, <1>2, <1>3, <1>4, <1>5, <1>6, <1>7, <1>8, <1>9 DEF Next

(* No transaction outlives the job that opened it; every job whose transaction   *)
(* nobody else ended has all of its rows on disk or none, and all of them when  *)
(* it reported success; and another thread ends a transaction, or the player    *)
(* stops for good, only after some job failed to begin or SQLite gave one up    *)
(* (Database.cpp's beginTransaction, commit, rollback; EdgeManager's catches).   *)
THEOREM TransactionsHeld == Spec => []TransactionsHold
<1>1. TypeInv /\ TxInv => TransactionsHold
  <2> SUFFICES ASSUME TypeInv, TxInv PROVE NoLeakedTransaction
    BY DEF TxInv, TransactionsHold
  <2> SUFFICES ASSUME opener # NoThread
               PROVE  /\ at[opener].job # "none"
                      /\ \E i \in 1 .. at[opener].step - 1 : Script(at[opener].job)[i] = "begin"
    BY DEF NoLeakedTransaction
  <2>1. opener \in Threads /\ Inside(opener) /\ Active(opener)
    BY DEF TypeInv, TypeOK, OpenerInside, Inside
  <2>2. /\ at[opener].job \in JobNames
        /\ at[opener].step \in 1..5 /\ at[opener].step >= FirstInside(at[opener].job)
    BY <2>1, ActiveFacts DEF Inside
  <2>3. at[opener].job # "MarkUploaded"
    BY <2>2 DEF FirstInside
  <2>4. /\ FirstInside(at[opener].job) - 1 \in 1 .. at[opener].step - 1
        /\ Script(at[opener].job)[FirstInside(at[opener].job) - 1] = "begin"
    BY <2>2, <2>3 DEF FirstInside, JobNames, Script, RecordPlayStart, RecordPlayEnd, LoadAds,
                      LoadSchedule
  <2>5. QED
    BY <2>1, <2>4 DEF Active
<1>2. QED
  BY TypeInit, TypeStep, TxInit, TxStep, <1>1, PTL DEF Spec

--------------------------------------------------------------------------------
(* The rows of log() and updateLogStatus in other jobs' transactions. *)

(* The row has been written.  An undisturbed job has it on disk once it reports  *)
(* success; once it failed or died the row is gone; until then the row is in the *)
(* job's open transaction, or the job is about to report that it lost it.       *)
JoinedFate(row, job) ==
  /\ RowWritten(row)
  /\ job \notin disturbed =>
       \/ results[job] = "ok" /\ row \in disk
       \/ results[job] \in {"failed", "killed"} /\ row \notin disk \cup pending
       \/ /\ results[job] = "none" /\ row \notin disk
          /\ Active(job[1]) /\ job = Job(job[1])
          /\ \/ opener = job[1] /\ row \in pending
             \/ opener # job[1] /\ at[job[1]].catching /\ row \notin pending

JoinedInv == \A p \in joined : JoinedFate(p[1], p[2])

(* A step of thread t that ends no transaction leaves a row's fate as it is.    *)
LEMMA FateStays ==
  ASSUME TypeInv, TxInv, NEW t \in Threads, Active(t), Moves(t), ~at[t].catching,
         NEW row \in Rows, NEW job \in Jobs, JoinedFate(row, job),
         disturbed \subseteq disturbed',
         row \in disk' <=> row \in disk, row \in pending' <=> row \in pending,
         opener' = opener \/ (opener = NoThread /\ opener' = t),
         Advances(t) \/ Stumbles(t) \/ opener # t
  PROVE  JoinedFate(row, job)'
<1>m. /\ jobs' = jobs
      /\ \A x \in Threads : x # t => at'[x] = at[x] /\ Active(x)' = Active(x)
      /\ \A j \in Jobs : j # Job(t) => results'[j] = results[j]
      /\ Advances(t) \/ Stumbles(t) => results'[Job(t)] = results[Job(t)] /\ Active(t)'
  BY MovesAlone
<1>1. RowWritten(row)'
  BY WrittenStays DEF JoinedFate
<1>2. job[1] \in Threads /\ NoThread \notin Threads /\ Job(job[1])' = Job(job[1])
  BY <1>m, JobFacts DEF Job, NoThread, Threads
<1>3. CASE job = Job(t) /\ job \notin disturbed'
  <2>1. results[job] = "none" /\ job[1] = t
    BY <1>3 DEF TxInv, OpenWhole, Job
  <2>2. opener = t /\ row \in pending /\ row \notin disk
    BY <1>3, <2>1 DEF JoinedFate
  <2>3. results'[job] = "none" /\ Active(t)' /\ opener' = t
    BY <1>m, <1>2, <1>3, <2>1, <2>2
  <2>4. QED
    BY <1>1, <1>2, <1>3, <2>1, <2>2, <2>3 DEF JoinedFate
<1>4. CASE job # Job(t) /\ job \notin disturbed'
  <2>1. results'[job] = results[job]
    BY <1>m, <1>4
  <2>2. CASE results[job] # "none"
    BY <1>1, <1>4, <2>1, <2>2 DEF JoinedFate
  <2>3. CASE results[job] = "none"
    <3>1. /\ row \notin disk /\ Active(job[1]) /\ job = Job(job[1])
          /\ \/ opener = job[1] /\ row \in pending
             \/ opener # job[1] /\ at[job[1]].catching /\ row \notin pending
      BY <1>4, <2>3 DEF JoinedFate
    <3>2. job[1] # t
      BY <1>4, <3>1
    <3>3. at'[job[1]] = at[job[1]] /\ Active(job[1])'
      BY <1>m, <1>2, <3>1, <3>2
    <3>4. QED
      BY <1>1, <1>2, <2>1, <2>3, <3>1, <3>2, <3>3 DEF JoinedFate
  <2>4. QED
    BY <2>2, <2>3
<1>5. QED
  BY <1>1, <1>3, <1>4 DEF JoinedFate

(* A step of thread t that ends the open transaction settles the rows in it.    *)
LEMMA FateSettles ==
  ASSUME TypeInv, TxInv, NEW t \in Threads, Active(t), Moves(t),
         NEW row \in Rows, NEW job \in Jobs, JoinedFate(row, job),
         opener' = NoThread, pending' = {}, disturbed \subseteq disturbed',
         \A x \in Threads : x = opener /\ x # t => Job(x) \in disturbed',
         \/ Leaves(t, "ok") /\ disk' = disk \cup pending /\ ~at[t].catching
         \/ Leaves(t, "failed") /\ disk' = disk
         \/ (Stumbles(t) \/ opener # t) /\ disk' = disk /\ ~at[t].catching
  PROVE  JoinedFate(row, job)'
<1>m. /\ jobs' = jobs
      /\ \A x \in Threads : x # t => at'[x] = at[x] /\ Active(x)' = Active(x)
      /\ \A j \in Jobs : j # Job(t) => results'[j] = results[j]
      /\ Advances(t) \/ Stumbles(t) => results'[Job(t)] = results[Job(t)] /\ Active(t)'
      /\ Leaves(t, "ok") => results'[Job(t)] = "ok"
      /\ Leaves(t, "failed") => results'[Job(t)] = "failed"
  BY MovesAlone
<1>1. RowWritten(row)'
  BY WrittenStays DEF JoinedFate
<1>2. job[1] \in Threads /\ NoThread \notin Threads /\ Job(job[1])' = Job(job[1])
  BY <1>m, JobFacts DEF Job, NoThread, Threads
<1>3. CASE job = Job(t) /\ job \notin disturbed'
  <2>1. results[job] = "none" /\ job[1] = t
    BY <1>3 DEF TxInv, OpenWhole, Job
  <2>2. /\ row \notin disk
        /\ (opener = t /\ row \in pending) \/ (opener # t /\ at[t].catching)
    BY <1>3, <2>1, results[job] \notin {"ok", "failed", "killed"} DEF JoinedFate
  <2>3. CASE Leaves(t, "ok") /\ disk' = disk \cup pending /\ ~at[t].catching
    BY <1>m, <1>1, <1>3, <2>2, <2>3 DEF JoinedFate
  <2>4. CASE Leaves(t, "failed") /\ disk' = disk
    BY <1>m, <1>1, <1>3, <2>2, <2>4 DEF JoinedFate
  <2>5. CASE (Stumbles(t) \/ opener # t) /\ disk' = disk /\ ~at[t].catching
    <3>1. Stumbles(t) /\ at'[t].catching
      BY <2>2, <2>5 DEF Stumbles
    <3>2. results'[job] = "none" /\ Active(t)'
      BY <1>m, <1>3, <2>1, <3>1
    <3>3. QED
      BY <1>1, <1>2, <1>3, <2>1, <2>2, <2>5, <3>1, <3>2 DEF JoinedFate
  <2>6. QED
    BY <2>3, <2>4, <2>5
<1>4. CASE job # Job(t) /\ job \notin disturbed'
  <2>1. results'[job] = results[job] /\ disk \subseteq disk' /\ disk' \subseteq disk \cup pending
    BY <1>m, <1>4
  <2>2. CASE results[job] # "none"
    BY <1>1, <1>4, <2>1, <2>2 DEF JoinedFate
  <2>3. CASE results[job] = "none"
    <3>1. /\ row \notin disk /\ Active(job[1]) /\ job = Job(job[1])
          /\ \/ opener = job[1] /\ row \in pending
             \/ opener # job[1] /\ at[job[1]].catching /\ row \notin pending
      BY <1>4, <2>3 DEF JoinedFate
    <3>2. job[1] # t
      BY <1>4, <3>1
    <3>3. at'[job[1]] = at[job[1]] /\ Active(job[1])'
      BY <1>m, <1>2, <3>1, <3>2
    <3>4. opener # job[1]
      BY <1>2, <1>4, <3>1, <3>2
    <3>5. QED
      BY <1>1, <1>2, <2>1, <2>3, <3>1, <3>3, <3>4 DEF JoinedFate
  <2>4. QED
    BY <2>2, <2>3
<1>5. QED
  BY <1>1, <1>3, <1>4 DEF JoinedFate

(* A job that starts changes no row's fate.                                     *)
LEMMA FateStarts ==
  ASSUME TypeInv, TxInv, NEW t \in Threads, NEW new \in JobsOf(t, jobs[t] + 1), StartJob(t, new),
         NEW row \in Rows, NEW job \in Jobs, JoinedFate(row, job)
  PROVE  JoinedFate(row, job)'
<1>1. /\ at[t] = Idle /\ jobs' = [jobs EXCEPT ![t] = @ + 1]
      /\ at' = [at EXCEPT ![t] = [job |-> new, step |-> 1, catching |-> FALSE]]
      /\ UNCHANGED <<opener, pending, disk, results, disturbed>>
  BY DEF StartJob, txVars, history
<1>t. at \in [Threads -> AtType] /\ jobs \in [Threads -> Nat]
  BY DEF TypeInv, TypeOK, AtType
<1>2. /\ \A x \in Threads : x # t => at'[x] = at[x] /\ jobs'[x] = jobs[x]
      /\ jobs'[t] = jobs[t] + 1 /\ ~Active(t)
  BY <1>1, <1>t DEF Active, Idle
<1>3. job[1] \in Threads /\ row[1] \in Threads /\ row[2] \in Nat
  BY JobFacts
<1>4. RowWritten(row)'
  BY <1>2, <1>3, <1>t DEF JoinedFate, RowWritten, Active
<1>5. CASE job[1] # t
  <2>1. at'[job[1]] = at[job[1]] /\ Job(job[1])' = Job(job[1]) /\ Active(job[1])' = Active(job[1])
    BY <1>2, <1>3, <1>5 DEF Job, Active
  <2>2. QED
    BY <1>1, <1>4, <2>1 DEF JoinedFate
<1>6. CASE job[1] = t
  BY <1>1, <1>2, <1>4, <1>6 DEF JoinedFate
<1>7. QED
  BY <1>5, <1>6

(* A process that is killed takes the rows of the open transaction with it.     *)
LEMMA FateKilled ==
  ASSUME TypeInv, TxInv, Killed, NEW row \in Rows, NEW job \in Jobs, JoinedFate(row, job)
  PROVE  JoinedFate(row, job)'
<1>1. /\ \A t \in Threads : at'[t] = Idle
      /\ pending' = {} /\ UNCHANGED <<jobs, disk, disturbed>>
      /\ results'[job] = IF \E t \in Threads : at[t] # Idle /\ job = Job(t)
                         THEN "killed" ELSE results[job]
  BY DEF Killed, TypeInv, TypeOK
<1>2. row[1] \in Threads /\ job[1] \in Threads
  BY JobFacts
<1>3. RowWritten(row)'
  BY <1>1, <1>2 DEF JoinedFate, RowWritten, Active, Idle
<1>4. CASE job \notin disturbed /\ results[job] = "none"
  <2>1. row \notin disk /\ Active(job[1]) /\ job = Job(job[1])
    BY <1>4 DEF JoinedFate
  <2>2. at[job[1]] # Idle
    BY <2>1 DEF Active, Idle
  <2>3. results'[job] = "killed"
    BY <1>1, <1>2, <2>1, <2>2
  <2>4. QED
    BY <1>1, <1>3, <2>1, <2>3 DEF JoinedFate
<1>5. CASE job \notin disturbed /\ results[job] # "none"
  <2>1. \A t \in Threads : at[t] # Idle => results[Job(t)] = "none"
    BY DEF TxInv, OpenWhole, TypeInv, AtWork
  <2>2. results'[job] = results[job]
    BY <1>1, <1>5, <2>1
  <2>3. QED
    BY <1>1, <1>3, <1>5, <2>2 DEF JoinedFate
<1>6. QED
  BY <1>1, <1>3, <1>4, <1>5 DEF JoinedFate

(* JoinedInv is inductive, given the others.                                    *)
LEMMA JoinedStep == TypeInv /\ TxInv /\ JoinedInv /\ [Next]_vars => JoinedInv'
<1> SUFFICES ASSUME TypeInv, TxInv, JoinedInv, [Next]_vars, NEW p \in joined'
             PROVE  JoinedFate(p[1], p[2])'
  BY DEF JoinedInv
<1>t. /\ joined \in SUBSET (Rows \X Jobs)
      /\ opener \in Threads \cup {NoThread} /\ NoThread \notin Threads
      /\ \A t \in Threads : opener = t => Inside(t) /\ Active(t)
      /\ opener = NoThread => pending = {}
  BY DEF TypeInv, TypeOK, OpenerInside, Inside, NoThread, Threads
<1>p. p \in joined => p[1] \in Rows /\ p[2] \in Jobs /\ JoinedFate(p[1], p[2])
  BY <1>t DEF JoinedInv
<1>1. ASSUME NEW t \in Threads, NEW job \in JobsOf(t, jobs[t] + 1), StartJob(t, job)
      PROVE  JoinedFate(p[1], p[2])'
  <2>1. joined' = joined
    BY <1>1 DEF StartJob, history
  <2>2. QED
    BY <1>1, <1>p, <2>1, FateStarts
<1>2. ASSUME NEW t \in Threads, Begin(t) PROVE JoinedFate(p[1], p[2])'
  <2>1. /\ UNCHANGED <<pending, disk, disturbed, joined>>
        /\ Active(t) /\ ~at[t].catching
        /\ \/ opener = NoThread /\ opener' = t /\ Advances(t)
           \/ opener' = opener /\ Stumbles(t)
    BY <1>2, BeginMoves
  <2>2. QED
    BY <1>p, <2>1, FateStays DEF Moves
<1>3. ASSUME NEW t \in Threads, ParseFails(t) PROVE JoinedFate(p[1], p[2])'
  <2>1. /\ UNCHANGED <<opener, pending, disk, disturbed, joined>>
        /\ Active(t) /\ Stumbles(t)
    BY <1>3, ParseFailsMoves DEF txVars
  <2>2. ~at[t].catching
    BY <1>3 DEF ParseFails, Running
  <2>3. QED
    BY <1>p, <2>1, <2>2, FateStays DEF Moves
<1>4. ASSUME NEW t \in Threads, Execute(t) PROVE JoinedFate(p[1], p[2])'
  <2>1. /\ UNCHANGED <<opener, disturbed>>
        /\ Active(t) /\ ~at[t].catching /\ Writes(Row(t))
        /\ \/ Inside(t) /\ Advances(t) /\ joined' = joined
           \/ LonePasses(t) /\ joined' = IF opener # NoThread
                                         THEN joined \cup {<<Row(t), Job(opener)>>} ELSE joined
    BY <1>4, ExecuteMoves
  <2>2. Moves(t) /\ ~Stumbles(t) /\ (Advances(t) \/ opener # t)
    BY <1>t, <2>1, LoneFacts DEF Moves, Advances, Stumbles, LonePasses
  <2>3. Row(t) \in Rows /\ ~RowWritten(Row(t)) /\ (p[1] = Row(t) => RowWritten(p[1])')
    <3>1. at[t].step \in 1..5 /\ Row(t) \in Rows
      BY <2>1, ActiveFacts
    <3>2. ~RowWritten(Row(t))
      BY <2>1, <3>1 DEF RowWritten, Row
    <3>3. QED
      BY <2>1, <2>2, <3>1, <3>2, RowIsWritten
  <2>4. CASE p \in joined
    <3>1. p[1] # Row(t)
      BY <1>p, <2>3, <2>4 DEF JoinedFate
    <3>2. (p[1] \in disk' <=> p[1] \in disk) /\ (p[1] \in pending' <=> p[1] \in pending)
      BY <2>1, <3>1 DEF Writes
    <3>3. QED
      BY <1>p, <2>1, <2>2, <2>4, <3>2, FateStays
  <2>5. CASE p = <<Row(t), Job(opener)>> /\ opener # NoThread /\ LonePasses(t)
    <3>1. opener \in Threads /\ Active(opener) /\ opener # t
      BY <1>t, <2>1, <2>5 DEF LonePasses
    <3>2. results[Job(opener)] = "none" /\ Job(opener) \in Jobs /\ Job(opener) # Job(t)
      BY <3>1, ActiveFacts DEF TxInv, OpenWhole, Job
    <3>3. results'[Job(opener)] = "none" /\ Active(opener)' /\ Job(opener)' = Job(opener)
      BY <2>1, <2>2, <3>1, <3>2, MovesAlone DEF Job
    <3>4. Row(t) \notin disk /\ disk' = disk /\ Row(t) \in pending'
      BY <2>1, <2>3, <2>5 DEF TxInv, Writes
    <3>5. p[1] = Row(t) /\ p[2] = Job(opener) /\ Job(opener)[1] = opener
      BY <2>5 DEF Job
    <3>6. QED
      BY <2>1, <2>3, <3>3, <3>4, <3>5 DEF JoinedFate
  <2>6. QED
    BY <2>1, <2>4, <2>5
<1>5. ASSUME NEW t \in Threads, Commit(t) PROVE JoinedFate(p[1], p[2])'
  <2>1. /\ joined' = joined /\ Active(t) /\ ~at[t].catching
        /\ \/ CommitRows /\ Closes(t) /\ Leaves(t, "ok")
           \/ UNCHANGED <<opener, pending, disk, disturbed>> /\ Stumbles(t)
    BY <1>5, CommitMoves DEF txVars, Inside
  <2>2. CASE CommitRows /\ Closes(t) /\ Leaves(t, "ok")
    <3>1. /\ opener' = NoThread /\ pending' = {} /\ disturbed \subseteq disturbed'
          /\ \A x \in Threads : x = opener /\ x # t => Job(x) \in disturbed'
      BY <2>2, ClosesFacts
    <3>2. disk' = disk \cup pending /\ Moves(t)
      BY <2>2 DEF CommitRows, Moves
    <3>3. QED
      BY <1>p, <2>1, <2>2, <3>1, <3>2, FateSettles
  <2>3. CASE UNCHANGED <<opener, pending, disk, disturbed>> /\ Stumbles(t)
    BY <1>p, <2>1, <2>3, FateStays DEF Moves
  <2>4. QED
    BY <2>1, <2>2, <2>3
<1>6. ASSUME NEW t \in Threads, StatementFails(t) PROVE JoinedFate(p[1], p[2])'
  <2>1. /\ joined' = joined /\ disk' = disk /\ Active(t) /\ ~at[t].catching
        /\ (Inside(t) /\ Stumbles(t)) \/ LonePasses(t)
        /\ \/ UNCHANGED <<opener, pending, disturbed>>
           \/ Closes(t)
    BY <1>6, FailsMoves
  <2>2. Moves(t) /\ (Stumbles(t) \/ opener # t)
    BY <1>t, <2>1, LoneFacts DEF Moves, LonePasses
  <2>3. CASE UNCHANGED <<opener, pending, disturbed>>
    BY <1>p, <2>1, <2>2, <2>3, FateStays
  <2>4. CASE Closes(t)
    <3>1. /\ opener' = NoThread /\ pending' = {} /\ disturbed \subseteq disturbed'
          /\ \A x \in Threads : x = opener /\ x # t => Job(x) \in disturbed'
      BY <2>4, ClosesFacts
    <3>2. QED
      BY <1>p, <2>1, <2>2, <3>1, FateSettles
  <2>5. QED
    BY <2>1, <2>3, <2>4
<1>7. ASSUME NEW t \in Threads, Catch(t) PROVE JoinedFate(p[1], p[2])'
  <2>1. /\ joined' = joined /\ disk' = disk /\ Active(t) /\ Leaves(t, "failed")
        /\ \/ Closes(t)
           \/ opener = NoThread /\ UNCHANGED <<opener, pending, disturbed>>
    BY <1>7, CatchMoves
  <2>2. /\ opener' = NoThread /\ pending' = {} /\ disturbed \subseteq disturbed'
        /\ \A x \in Threads : x = opener /\ x # t => Job(x) \in disturbed'
    BY <1>t, <2>1, ClosesFacts
  <2>3. QED
    BY <1>p, <2>1, <2>2, FateSettles DEF Moves
<1>8. CASE Killed
  <2>1. joined' = joined
    BY <1>8 DEF Killed
  <2>2. QED
    BY <1>8, <1>p, <2>1, FateKilled
<1>9. CASE UNCHANGED vars
  BY <1>9, <1>p DEF vars, txVars, history, JoinedFate, RowWritten, Active, Job
<1>10. QED
  BY <1>1, <1>2, <1>3, <1>4, <1>5, <1>6, <1>7, <1>8, <1>9 DEF Next

(* What log() or updateLogStatus wrote into another job's transaction is on disk *)
(* once that job reports success, gone once it fails or dies, and in the         *)
(* transaction before, unless another job ended the transaction (Database::log,  *)
(* called by recordPlayEnd before its own BEGIN; Database::executeUpdate).       *)
THEOREM LogsKept == Spec => []LogRowsKept
<1>1. Init => JoinedInv
  BY DEF Init, JoinedInv
<1>2. TypeInv /\ JoinedInv => LogRowsKept
  <2> SUFFICES ASSUME TypeInv, JoinedInv, NEW p \in joined, p[2] \notin disturbed
               PROVE  Fate(p[1], p[2])
    BY DEF LogRowsKept
  <2>1. p[2] \in Jobs /\ JoinedFate(p[1], p[2])
    BY DEF TypeInv, TypeOK, JoinedInv
  <2>2. results[p[2]] \in {"none", "ok", "failed", "killed"}
    BY <2>1 DEF TypeInv, TypeOK
  <2>3. QED
    BY <2>1, <2>2 DEF JoinedFate, Fate
<1>3. QED
  BY TypeInit, TypeStep, TxInit, TxStep, JoinedStep, <1>1, <1>2, PTL DEF Spec

--------------------------------------------------------------------------------
(* EdgeScheduler.  The operators first: what a recursion over rows computes is  *)
(* shown by counting up to the number of the rows.                              *)

(* Counting up: what holds of 0, and of n + 1 when it holds of n, holds up to N.     *)
LEMMA CountingUp ==
  ASSUME NEW N \in Nat, NEW S, 0 \in S, \A n \in 0..(N - 1) : n \in S => n + 1 \in S
  PROVE  \A n \in 0..N : n \in S
<1> DEFINE Bad == {n \in 0..N : n \notin S}
<1>1. SUFFICES ASSUME Bad # {} PROVE FALSE
  OBVIOUS
<1>2. IsWellFoundedOn(OpToRel(<, Nat), Nat)
  BY NatLessThanWellFounded
<1>3. Bad \in SUBSET Nat
  OBVIOUS
<1> HIDE DEF Bad
<1>4. PICK n \in Bad : \A m \in Bad : ~(<<m, n>> \in OpToRel(<, Nat))
  BY <1>1, <1>2, <1>3, WFMin
<1>5. n \in 0..N /\ n \notin S
  BY <1>4 DEF Bad
<1>6. n - 1 \in 0..(N - 1) /\ n - 1 \in Nat /\ n - 1 < n
  BY <1>5
<1>7. n - 1 \notin Bad
  BY <1>3, <1>4, <1>6 DEF OpToRel
<1>8. n - 1 \in S
  BY <1>6, <1>7 DEF Bad
<1> QED
  BY <1>5, <1>6, <1>8

(* RowsOfPolicies is what its recursion says: the rows kept of each prefix.          *)
Filters(kept, rows, policies) ==
  kept = [n \in 0..Len(rows) |->
            IF n = 0 THEN <<>>
            ELSE IF rows[n].policy \in policies THEN Append(kept[n - 1], rows[n]) ELSE kept[n - 1]]

(* The filter keeps the rows one by one, whatever rows there are.             *)
LEMMA FilterExists ==
  ASSUME NEW R, NEW rows \in Seq(R), NEW policies
  PROVE  \E kept : Filters(kept, rows, policies) /\ RowsOfPolicies(rows, policies) = kept[Len(rows)]
<1> DEFINE N == Len(rows)
           Upto(f, m) == f = [n \in 0..m |->
             IF n = 0 THEN <<>>
             ELSE IF rows[n].policy \in policies THEN Append(f[n - 1], rows[n]) ELSE f[n - 1]]
           S == {m \in 0..N : \E f : Upto(f, m)}
<1>1. N \in Nat
  OBVIOUS
<1>2. 0 \in S
  <2>1. Upto([n \in 0..0 |-> <<>>], 0)
    OBVIOUS
  <2> HIDE DEF Upto
  <2> QED
    BY <1>1, <2>1
<1>3. \A m \in 0..(N - 1) : m \in S => m + 1 \in S
  <2> SUFFICES ASSUME NEW m \in 0..(N - 1), NEW f, Upto(f, m) PROVE \E g : Upto(g, m + 1)
    <3> HIDE DEF Upto
    <3> QED
      BY <1>1
  <2> DEFINE last == IF rows[m + 1].policy \in policies THEN Append(f[m], rows[m + 1]) ELSE f[m]
             g == [n \in 0..(m + 1) |-> IF n = m + 1 THEN last ELSE f[n]]
  <2>1. \A n \in 0..(m + 1) : g[n] = IF n = 0 THEN <<>>
            ELSE IF rows[n].policy \in policies THEN Append(g[n - 1], rows[n]) ELSE g[n - 1]
    <3> TAKE n \in 0..(m + 1)
    <3>1. CASE n = m + 1
      BY <3>1, <1>1
    <3>2. CASE n # m + 1
      <4>1. n \in 0..m /\ g[n] = f[n] /\ (n # 0 => n - 1 \in 0..m /\ g[n - 1] = f[n - 1])
        BY <3>2, <1>1
      <4> QED
        BY <4>1
    <3> QED
      BY <3>1, <3>2
  <2>2. g = [n \in 0..(m + 1) |-> g[n]]
    OBVIOUS
  <2> HIDE DEF g
  <2>3. Upto(g, m + 1)
    BY <2>1, <2>2
  <2> QED
    BY <2>3
<1> HIDE DEF S
<1>4. N \in S
  <2> HIDE DEF N
  <2>1. \A n \in 0..N : n \in S
    BY <1>1, <1>2, <1>3, CountingUp
  <2> QED
    BY <1>1, <2>1
<1>5. \E f : Filters(f, rows, policies)
  BY <1>4 DEF S, Filters
<1> DEFINE kept == CHOOSE f : Filters(f, rows, policies)
<1>6. Filters(kept, rows, policies)
  BY <1>5, Zenon
<1>7. RowsOfPolicies(rows, policies) = kept[Len(rows)]
  BY DEF RowsOfPolicies, Filters
<1> HIDE DEF kept
<1> QED
  BY <1>6, <1>7

(* Sequences that begin alike have the same rows kept of their beginning.            *)
LEMMA FilterPrefix ==
  ASSUME NEW R, NEW rows \in Seq(R), NEW more \in Seq(R), NEW policies, NEW m \in Nat,
         m <= Len(rows), m <= Len(more), \A n \in 1..m : rows[n] = more[n],
         NEW f, NEW g, Filters(f, rows, policies), Filters(g, more, policies)
  PROVE  f[m] = g[m]
<1> DEFINE S == {n \in 0..m : f[n] = g[n]}
<1>1. Len(rows) \in Nat /\ Len(more) \in Nat
  OBVIOUS
<1>2. /\ \A n \in 0..Len(rows) : f[n] = IF n = 0 THEN <<>>
           ELSE IF rows[n].policy \in policies THEN Append(f[n - 1], rows[n]) ELSE f[n - 1]
      /\ \A n \in 0..Len(more) : g[n] = IF n = 0 THEN <<>>
           ELSE IF more[n].policy \in policies THEN Append(g[n - 1], more[n]) ELSE g[n - 1]
  BY DEF Filters
<1>3. 0 \in S
  BY <1>1, <1>2
<1>4. \A n \in 0..(m - 1) : n \in S => n + 1 \in S
  <2> SUFFICES ASSUME NEW n \in 0..(m - 1), f[n] = g[n] PROVE f[n + 1] = g[n + 1]
    OBVIOUS
  <2>1. /\ n + 1 \in 1..m /\ n + 1 \in 0..Len(rows) /\ n + 1 \in 0..Len(more) /\ n + 1 # 0
        /\ (n + 1) - 1 = n
    BY <1>1
  <2>2. f[n + 1] = IF rows[n + 1].policy \in policies THEN Append(f[n], rows[n + 1]) ELSE f[n]
    BY <1>2, <2>1
  <2>3. g[n + 1] = IF more[n + 1].policy \in policies THEN Append(g[n], more[n + 1]) ELSE g[n]
    BY <1>2, <2>1
  <2> QED
    BY <2>1, <2>2, <2>3
<1> HIDE DEF S
<1>5. m \in S
  BY <1>3, <1>4, CountingUp
<1> QED
  BY <1>5 DEF S

(* The filter of no rows.                                                     *)
LEMMA FilterEmpty ==
  ASSUME NEW policies
  PROVE  RowsOfPolicies(<<>>, policies) = <<>>
<1>1. <<>> \in Seq({}) /\ Len(<<>>) = 0
  OBVIOUS
<1>2. PICK kept : Filters(kept, <<>>, policies) /\ RowsOfPolicies(<<>>, policies) = kept[0]
  BY <1>1, FilterExists
<1> QED
  BY <1>1, <1>2 DEF Filters

(* The filter of one more row.                                                *)
LEMMA FilterAppend ==
  ASSUME NEW R, NEW rows \in Seq(R), NEW row \in R, NEW policies
  PROVE  RowsOfPolicies(Append(rows, row), policies) =
           IF row.policy \in policies THEN Append(RowsOfPolicies(rows, policies), row)
           ELSE RowsOfPolicies(rows, policies)
<1> DEFINE more == Append(rows, row)
           N == Len(rows)
<1>1. /\ more \in Seq(R) /\ N \in Nat /\ Len(more) = N + 1 /\ more[N + 1] = row
      /\ \A n \in 1..N : rows[n] = more[n]
  OBVIOUS
<1> HIDE DEF more
<1>2. PICK f : Filters(f, rows, policies) /\ RowsOfPolicies(rows, policies) = f[N]
  BY FilterExists
<1>3. PICK g : Filters(g, more, policies) /\ RowsOfPolicies(more, policies) = g[N + 1]
  BY <1>1, FilterExists
<1> HIDE DEF N
<1>4. f[N] = g[N]
  <2>1. N <= Len(rows) /\ N <= Len(more) /\ \A n \in 1..N : rows[n] = more[n]
    BY <1>1 DEF N
  <2>2. N \in Nat /\ more \in Seq(R) /\ Filters(f, rows, policies) /\ Filters(g, more, policies)
    BY <1>1, <1>2, <1>3
  <2> QED
    BY <2>1, <2>2, FilterPrefix
<1>5. g[N + 1] = IF row.policy \in policies THEN Append(g[N], row) ELSE g[N]
  <2>1. N + 1 \in 0..Len(more) /\ N + 1 # 0 /\ (N + 1) - 1 = N
    BY <1>1
  <2> QED
    BY <2>1, <1>1, <1>3 DEF Filters
<1> QED
  BY <1>2, <1>3, <1>4, <1>5 DEF more

(* The rows kept are rows; keeping twice keeps what both keep; keeping no policy     *)
(* keeps nothing.                                                                    *)
LEMMA FilterTwice ==
  ASSUME NEW R, NEW rows \in Seq(R), NEW policies, NEW others
  PROVE  /\ RowsOfPolicies(rows, policies) \in Seq(R)
         /\ RowsOfPolicies(RowsOfPolicies(rows, policies), others) =
              RowsOfPolicies(rows, policies \cap others)
         /\ RowsOfPolicies(rows, {}) = <<>>
<1> DEFINE N == Len(rows)
           both == policies \cap others
<1>1. PICK f : Filters(f, rows, policies) /\ RowsOfPolicies(rows, policies) = f[N]
  BY FilterExists
<1>2. PICK g : Filters(g, rows, both) /\ RowsOfPolicies(rows, both) = g[N]
  BY FilterExists
<1>3. PICK h : Filters(h, rows, {}) /\ RowsOfPolicies(rows, {}) = h[N]
  BY FilterExists
<1> DEFINE S == {n \in 0..N : f[n] \in Seq(R) /\ RowsOfPolicies(f[n], others) = g[n] /\ h[n] = <<>>}
<1>4. N \in Nat
  OBVIOUS
<1>5. 0 \in S
  <2>1. f[0] = <<>> /\ g[0] = <<>>
    BY <1>1, <1>2, <1>4 DEF Filters
  <2>2. h[0] = <<>>
    BY <1>3, <1>4 DEF Filters
  <2>3. f[0] \in Seq(R)
    BY <2>1
  <2>4. RowsOfPolicies(f[0], others) = g[0]
    BY <2>1, FilterEmpty
  <2>5. 0 \in 0..N
    BY <1>4
  <2> HIDE DEF N
  <2> QED
    BY <2>2, <2>3, <2>4, <2>5
<1>6. \A n \in 0..(N - 1) : n \in S => n + 1 \in S
  <2> SUFFICES ASSUME NEW n \in 0..(N - 1), f[n] \in Seq(R), RowsOfPolicies(f[n], others) = g[n],
                      h[n] = <<>>
               PROVE  /\ f[n + 1] \in Seq(R) /\ RowsOfPolicies(f[n + 1], others) = g[n + 1]
                      /\ h[n + 1] = <<>>
    BY <1>4
  <2>1. n + 1 \in 0..N /\ n + 1 \in 1..N /\ n + 1 # 0 /\ (n + 1) - 1 = n /\ rows[n + 1] \in R
    BY <1>4
  <2>2. f[n + 1] = IF rows[n + 1].policy \in policies THEN Append(f[n], rows[n + 1]) ELSE f[n]
    BY <1>1, <2>1 DEF Filters
  <2>3. g[n + 1] = IF rows[n + 1].policy \in both THEN Append(g[n], rows[n + 1]) ELSE g[n]
    BY <1>2, <2>1 DEF Filters
  <2>4. h[n + 1] = h[n]
    BY <1>3, <2>1 DEF Filters
  <2>5. f[n + 1] \in Seq(R)
    BY <2>1, <2>2
  <2>6. RowsOfPolicies(Append(f[n], rows[n + 1]), others) =
          IF rows[n + 1].policy \in others THEN Append(g[n], rows[n + 1]) ELSE g[n]
    <3> DEFINE s == f[n]
               e == rows[n + 1]
    <3>1. s \in Seq(R) /\ e \in R /\ RowsOfPolicies(s, others) = g[n]
      BY <2>1
    <3> HIDE DEF s, e
    <3>2. RowsOfPolicies(Append(s, e), others) =
            IF e.policy \in others THEN Append(RowsOfPolicies(s, others), e) ELSE RowsOfPolicies(s, others)
      BY <3>1, FilterAppend
    <3> QED
      BY <3>1, <3>2 DEF s, e
  <2> QED
    BY <2>2, <2>3, <2>4, <2>5, <2>6
<1> HIDE DEF S
<1>7. N \in S
  <2> HIDE DEF N
  <2>1. \A n \in 0..N : n \in S
    BY <1>4, <1>5, <1>6, CountingUp
  <2> QED
    BY <1>4, <2>1
<1> QED
  BY <1>1, <1>2, <1>3, <1>7 DEF S

(* A finite set in a total order: each member has a place of its own, and every      *)
(* place its member.                                                                 *)
LEMMA Ranks ==
  ASSUME NEW S, IsFiniteSet(S), NEW R,
         \A i, j \in S : i # j => <<i, j>> \in R \/ <<j, i>> \in R,
         \A i \in S : <<i, i>> \notin R,
         \A i, j, k \in S : <<i, j>> \in R /\ <<j, k>> \in R => <<i, k>> \in R
  PROVE  LET Ahead(j) == {i \in S : <<i, j>> \in R} IN
         /\ Cardinality(S) \in Nat
         /\ \A j \in S : Cardinality(Ahead(j)) \in 0..(Cardinality(S) - 1)
         /\ \A n \in 1..Cardinality(S) : \E j \in S : Cardinality(Ahead(j)) = n - 1
         /\ \A i, j \in S : Cardinality(Ahead(i)) = Cardinality(Ahead(j)) => i = j
<1> DEFINE N == Cardinality(S)
           Ahead(j) == {i \in S : <<i, j>> \in R}
           place == [j \in S |-> Cardinality(Ahead(j))]
<1>1. N \in Nat
  BY FS_CardinalityType
<1> HIDE DEF N
<1>2. \A j \in S : place[j] \in 0..(N - 1)
  <2> SUFFICES ASSUME NEW j \in S PROVE place[j] \in 0..(N - 1)
    OBVIOUS
  <2>1. Ahead(j) \in SUBSET S /\ j \notin Ahead(j)
    OBVIOUS
  <2>2. place[j] = Cardinality(Ahead(j))
    OBVIOUS
  <2> HIDE DEF Ahead, place
  <2>3. Cardinality(Ahead(j)) \in Nat /\ Cardinality(Ahead(j)) <= N /\ Cardinality(Ahead(j)) # N
    BY <2>1, FS_Subset, FS_CardinalityType DEF N
  <2> QED
    BY <1>1, <2>2, <2>3
<1>3. \A i, j \in S : <<i, j>> \in R => place[i] < place[j]
  <2> SUFFICES ASSUME NEW i \in S, NEW j \in S, <<i, j>> \in R PROVE place[i] < place[j]
    OBVIOUS
  <2>1. Ahead(i) \in SUBSET Ahead(j) /\ i \in Ahead(j) /\ i \notin Ahead(i) /\ Ahead(j) \in SUBSET S
    OBVIOUS
  <2>2. /\ place[i] = Cardinality(Ahead(i)) /\ place[j] = Cardinality(Ahead(j))
        /\ place[i] \in 0..(N - 1) /\ place[j] \in 0..(N - 1)
    BY <1>2
  <2> HIDE DEF Ahead, place
  <2>3. IsFiniteSet(Ahead(j))
    BY <2>1, FS_Subset
  <2>4. Cardinality(Ahead(i)) <= Cardinality(Ahead(j)) /\ Cardinality(Ahead(i)) # Cardinality(Ahead(j))
    BY <2>1, <2>3, FS_Subset
  <2> QED
    BY <1>1, <2>2, <2>4
<1>4. \A i, j \in S : place[i] = place[j] => i = j
  <2> HIDE DEF place
  <2> SUFFICES ASSUME NEW i \in S, NEW j \in S, place[i] = place[j], i # j PROVE FALSE
    OBVIOUS
  <2>1. place[i] < place[j] \/ place[j] < place[i]
    BY <1>3
  <2>2. place[i] \in 0..(N - 1)
    BY <1>2
  <2> QED
    BY <1>1, <2>1, <2>2
<1>5. \A m \in 0..(N - 1) : \E j \in S : place[j] = m
  <2> DEFINE T == 0..(N - 1)
  <2>1. place \in [S -> T]
    BY <1>2
  <2>2. IsFiniteSet(T) /\ Cardinality(T) = N
    BY <1>1, FS_Interval
  <2> HIDE DEF place, T
  <2>3. place \in Injection(S, T)
    BY <1>4, <2>1, Fun_IsInj
  <2>4. place \in Surjection(S, T)
    BY <2>2, <2>3, FS_Injection DEF N
  <2>5. \A m \in T : \E j \in S : place[j] = m
    BY <2>4, Fun_SurjectionProperties
  <2> QED
    BY <2>5 DEF T
<1>6. \A n \in 1..N : \E j \in S : Cardinality(Ahead(j)) = n - 1
  <2> SUFFICES ASSUME NEW n \in 1..N PROVE \E j \in S : Cardinality(Ahead(j)) = n - 1
    OBVIOUS
  <2>1. n - 1 \in 0..(N - 1)
    BY <1>1
  <2>2. PICK j \in S : place[j] = n - 1
    BY <1>5, <2>1
  <2> QED
    BY <2>2
<1>7. \A j \in S : place[j] = Cardinality(Ahead(j))
  OBVIOUS
<1> HIDE DEF place
<1>8. /\ \A j \in S : Cardinality(Ahead(j)) \in 0..(N - 1)
      /\ \A i, j \in S : Cardinality(Ahead(i)) = Cardinality(Ahead(j)) => i = j
  BY <1>2, <1>4, <1>7
<1> QED
  BY <1>1, <1>6, <1>8 DEF N

(* ORDER BY priority is total.  The rows that a time finds, in that order: at each   *)
(* place the row with so many before it.                                             *)
Ahead(rows, now, j) == {i \in Found(rows, now) : Before(rows, i, j)}

(* ByPriority is a sequence of rows, each found row at its place in it.       *)
LEMMA OrderedRows ==
  ASSUME NEW R, NEW rows \in Seq(R), \A r \in R : r.priority \in Int, NEW now
  PROVE  LET found == Found(rows, now)
             order == ByPriority(rows, now)
         IN /\ found \subseteq 1..Len(rows) /\ IsFiniteSet(found)
            /\ order \in Seq(R) /\ Len(order) = Cardinality(found)
            /\ \A j \in found : /\ Cardinality(Ahead(rows, now, j)) + 1 \in 1..Len(order)
                                /\ order[Cardinality(Ahead(rows, now, j)) + 1] = rows[j]
            /\ \A n \in 1..Len(order) :
                 \E j \in found : Cardinality(Ahead(rows, now, j)) = n - 1 /\ order[n] = rows[j]
<1> DEFINE found == Found(rows, now)
           N == Cardinality(found)
           B == {p \in found \X found : Before(rows, p[1], p[2])}
           C(j) == Cardinality({i \in found : Before(rows, i, j)})
           Nth(n) == CHOOSE j \in found : C(j) = n - 1
           order == ByPriority(rows, now)
<1>1. IsFiniteSet(found) /\ found \subseteq 1..Len(rows)
  <2>1. IsFiniteSet(1..Len(rows))
    BY FS_Interval
  <2>2. found \in SUBSET (1..Len(rows))
    BY DEF Found
  <2> HIDE DEF found
  <2> QED
    BY <2>1, <2>2, FS_Subset
<1>2. \A j \in found : rows[j].priority \in Int /\ j \in Int /\ rows[j] \in R
  BY <1>1
<1>3. order = [n \in 1..N |-> rows[Nth(n)]]
  BY DEF ByPriority, Ranked
<1>4. \A j \in found : Cardinality(Ahead(rows, now, j)) = C(j)
  BY DEF Ahead
<1> HIDE DEF found, N, order
<1>5. /\ \A i, j \in found : i # j => <<i, j>> \in B \/ <<j, i>> \in B
      /\ \A i \in found : <<i, i>> \notin B
      /\ \A i, j, k \in found : <<i, j>> \in B /\ <<j, k>> \in B => <<i, k>> \in B
  BY <1>2 DEF Before
<1>6. \A j \in found : {i \in found : <<i, j>> \in B} = {i \in found : Before(rows, i, j)}
  OBVIOUS
<1> HIDE DEF B
<1>7. /\ N \in Nat
      /\ \A j \in found : Cardinality({i \in found : <<i, j>> \in B}) \in 0..(N - 1)
      /\ \A n \in 1..N : \E j \in found : Cardinality({i \in found : <<i, j>> \in B}) = n - 1
      /\ \A i, j \in found :
           Cardinality({k \in found : <<k, i>> \in B}) = Cardinality({k \in found : <<k, j>> \in B}) => i = j
  BY <1>1, <1>5, Ranks DEF N
<1>8. /\ \A j \in found : C(j) \in 0..(N - 1)
      /\ \A n \in 1..N : \E j \in found : C(j) = n - 1
      /\ \A i, j \in found : C(i) = C(j) => i = j
  BY <1>6, <1>7
<1> HIDE DEF C
<1>9. \A n \in 1..N : Nth(n) \in found /\ C(Nth(n)) = n - 1
  BY <1>8
<1>10. \A j \in found : C(j) + 1 \in 1..N /\ Nth(C(j) + 1) = j
  <2> TAKE j \in found
  <2>1. C(j) \in 0..(N - 1) /\ C(j) + 1 \in 1..N /\ (C(j) + 1) - 1 = C(j)
    BY <1>7, <1>8
  <2>2. Nth(C(j) + 1) \in found /\ C(Nth(C(j) + 1)) = C(j)
    BY <1>9, <2>1
  <2> QED
    BY <1>8, <2>1, <2>2
<1> HIDE DEF Nth
<1>11. order \in Seq(R) /\ Len(order) = N /\ \A n \in 1..N : order[n] = rows[Nth(n)]
  BY <1>2, <1>3, <1>7, <1>9
<1>12. \A j \in found : C(j) + 1 \in 1..N /\ order[C(j) + 1] = rows[j]
  BY <1>10, <1>11
<1>13. \A n \in 1..N : \E j \in found : C(j) = n - 1 /\ order[n] = rows[j]
  BY <1>9, <1>11
<1> QED
  BY <1>1, <1>4, <1>11, <1>12, <1>13 DEF found, N, order

--------------------------------------------------------------------------------
(* The invariant: besides the types, that files and played interrupts are as the     *)
(* properties say for all tables, that what is kept is whole, and how far the        *)
(* transaction that may replace it has come.                                         *)

(* Types: an ad of a bundle, a row of schedule_interrupt, what the tables hold, what *)
(* the screen plays.                                                                 *)
AdType == [id : Ads, md5 : Versions]
InterruptRow == [policy : Policies, ad : Ads, priority : Int, status : {0, 1}]
Tables ==
  [ads : [Ads -> Versions \cup {Absent}], interrupts : SUBSET InterruptRow, slots : Seq(SlotRows)]
ItemType == [ad : Ads, slot : Nat, policy : Nat]

SchedulerTyped ==
  /\ published \in DOMAIN Bundles /\ batch \in DOMAIN Bundles \cup {0}
  /\ db \in Tables /\ (tx = NoTx \/ tx \in Tables)
  /\ file \in [Ads -> Versions \cup {Absent, Short}]
  /\ main \in {"boot", "cleanup", "interrupt", "slots", "start", "playing", "halted"}
  /\ item \in ItemType \cup {NothingFound}
  /\ lastSlot \in Int /\ index \in Nat
  /\ sync \in {"ads", "store", "download", "writing", "schedule", "load"}
  /\ tx # NoTx => sync \notin {"ads", "schedule"}
  /\ sync \in {"store", "download", "writing"} => rest \in Seq(AdType)
  /\ sync \in {"download", "writing"} => rest # <<>>
  /\ batch # 0 <=> sync = "load"

(* A file says what its row says, as FilesMatch, for every ad.                       *)
FilesHonest ==
  \A a \in Ads : db.ads[a] # Absent /\ a \notin suspect =>
    file[a] \in {Absent, db.ads[a]} \/ (sync = "writing" /\ Head(rest).id = a)

(* Rows of interrupts that were played and not left unmarked have the mark, in what  *)
(* the tables hold and in what a rollback would bring back.                          *)
Marked(tables) ==
  \A i \in tables.interrupts : <<i.policy, i.ad>> \in finished \ unmarked => i.status = 1
PlayedMarked == Marked(db) /\ (tx # NoTx => Marked(tx))

(* The rows of a policy, as one load left them.                                      *)
SlotsOf(tables, p) == RowsOfPolicies(tables.slots, {p})
InterruptsOf(tables, p) == {[i EXCEPT !.status = 0] : i \in {j \in tables.interrupts : j.policy = p}}
OneLoad(tables, p) ==
  \/ SlotsOf(tables, p) = <<>> /\ InterruptsOf(tables, p) = {}
  \/ \E b \in DOMAIN Bundles : /\ Bundles[b].policy = p
                               /\ SlotsOf(tables, p) = RowsOfBundle(b)
                               /\ InterruptsOf(tables, p) = Interrupts(b)

KeptWhole == \A p \in Policies \ torn : OneLoad(Kept, p)

(* A transaction of loadAds changes no row of a schedule.                            *)
AdsOnly ==
  tx # NoTx /\ sync # "load" => tx.slots = db.slots /\ tx.interrupts = db.interrupts

(* How far loadSchedule's transaction has come after k of its statements: nothing of *)
(* another policy has changed; of its own, the interrupts inserted so far are there, *)
(* and after the second deletion the slots inserted so far.                          *)
Insertions(b) == {[op |-> "interrupt", row |-> i] : i \in Interrupts(b)}
Inserted(b) == Cardinality(Insertions(b))
LoadRows(b, k) ==
  {LoadStatements(b)[n].row : n \in 2..(IF k <= Inserted(b) THEN k ELSE Inserted(b) + 1)}
Progress(k) ==
  LET p == Bundles[batch].policy
  IN /\ \A q \in Policies \ {p} : /\ SlotsOf(db, q) = SlotsOf(tx, q)
                                  /\ InterruptsOf(db, q) = InterruptsOf(tx, q)
     /\ k >= 1 => InterruptsOf(db, p) = LoadRows(batch, k)
     /\ k >= Inserted(batch) + 2 =>
          SlotsOf(db, p) = SubSeq(RowsOfBundle(batch), 1, k - Inserted(batch) - 2)

Loading ==
  sync = "load" =>
    /\ tx = NoTx => Bundles[batch].policy \in torn
    /\ \E k \in 0..Len(LoadStatements(batch)) :
         /\ rest = SubSeq(LoadStatements(batch), k + 1, Len(LoadStatements(batch)))
         /\ tx # NoTx => Progress(k)

SchedulerInv ==
  /\ SchedulerTyped
  /\ FilesHonest
  /\ PlayedMarked
  /\ KeptWhole
  /\ AdsOnly
  /\ Loading

--------------------------------------------------------------------------------
(* What the control plane may publish: rows and interrupts of a bundle.              *)
LEMMA BundleFacts ==
  /\ Policies \subseteq Nat
  /\ DOMAIN Bundles \subseteq Nat \ {0} /\ 1 \in DOMAIN Bundles
  /\ \A b \in DOMAIN Bundles :
       /\ Bundles[b].policy \in Policies
       /\ Bundles[b].ads \in Seq(AdType)
       /\ Bundles[b].interrupts \in SUBSET [ad : Ads, priority : Int]
       /\ IsFiniteSet(Bundles[b].interrupts)
<1>1. \A b \in DOMAIN Bundles : Bundles[b] \in BundleType
  BY EdgeSchedulerConstants
<1>2. \A x \in BundleType : /\ x.policy \in Nat /\ x.ads \in Seq(AdType)
                            /\ x.interrupts \in SUBSET [ad : Ads, priority : Int]
  BY DEF BundleType, AdType
<1>3. DOMAIN Bundles \subseteq Nat \ {0} /\ 1 \in DOMAIN Bundles
  BY EdgeSchedulerConstants
<1>4. \A b \in DOMAIN Bundles : IsFiniteSet(Bundles[b].interrupts)
  BY EdgeSchedulerConstants
<1>5. \A b \in DOMAIN Bundles : Bundles[b].policy \in Policies
  BY DEF Policies
<1>6. Policies \subseteq Nat
  BY <1>1, <1>2 DEF Policies
<1> QED
  BY <1>1, <1>2, <1>3, <1>4, <1>5, <1>6

RowType == [slot : Nat, range : Times \X Times, list : Seq(Ads), priority : Int, policy : Policies]

(* A bundle's rows are schedule rows of its policy.                           *)
LEMMA RowsFacts ==
  /\ \A b \in DOMAIN Bundles :
       /\ RowsOfBundle(b) \in Seq(SlotRows)
       /\ \A n \in 1..Len(RowsOfBundle(b)) : RowsOfBundle(b)[n].policy = Bundles[b].policy
  /\ SlotRows \subseteq RowType
<1>1. \A b \in DOMAIN Bundles :
        Bundles[b].slots \in Seq([slot : Nat, range : Times \X Times, list : Seq(Ads), priority : Int])
  <2>1. \A b \in DOMAIN Bundles : Bundles[b] \in BundleType
    BY EdgeSchedulerConstants
  <2> QED
    BY <2>1 DEF BundleType
<1>2. ASSUME NEW b \in DOMAIN Bundles, NEW n \in DOMAIN Bundles[b].slots
      PROVE  /\ RowsOfBundle(b)[n] \in SlotRows /\ RowsOfBundle(b)[n].policy = Bundles[b].policy
             /\ RowsOfBundle(b)[n] \in RowType
  <2>1. RowsOfBundle(b)[n] \in SlotRows
    BY <1>2 DEF SlotRows
  <2>2. RowsOfBundle(b)[n] =
          [slot |-> Bundles[b].slots[n].slot, range |-> Bundles[b].slots[n].range,
           list |-> Bundles[b].slots[n].list, priority |-> Bundles[b].slots[n].priority,
           policy |-> Bundles[b].policy]
    BY <1>2 DEF RowsOfBundle
  <2>3. Bundles[b].slots[n] \in [slot : Nat, range : Times \X Times, list : Seq(Ads), priority : Int]
    <3> DEFINE T == [slot : Nat, range : Times \X Times, list : Seq(Ads), priority : Int]
               s == Bundles[b].slots
    <3>1. s \in Seq(T) /\ n \in DOMAIN s
      BY <1>1, <1>2
    <3> HIDE DEF s, T
    <3>2. s[n] \in T
      BY <3>1
    <3> QED
      BY <3>2 DEF s, T
  <2>4. Bundles[b].policy \in Policies
    BY BundleFacts
  <2>5. RowsOfBundle(b)[n] \in RowType
    BY <2>2, <2>3, <2>4 DEF RowType
  <2> QED
    BY <2>1, <2>2, <2>5
<1>3. ASSUME NEW b \in DOMAIN Bundles
      PROVE  RowsOfBundle(b) \in Seq(SlotRows) /\ DOMAIN RowsOfBundle(b) = DOMAIN Bundles[b].slots
  <2>1. DOMAIN RowsOfBundle(b) = DOMAIN Bundles[b].slots
    BY DEF RowsOfBundle
  <2>2. DOMAIN Bundles[b].slots = 1..Len(Bundles[b].slots) /\ Len(Bundles[b].slots) \in Nat
    BY <1>1, <1>3
  <2>3. RowsOfBundle(b) = [n \in 1..Len(Bundles[b].slots) |-> RowsOfBundle(b)[n]]
    BY <2>2 DEF RowsOfBundle
  <2>4. \A n \in 1..Len(Bundles[b].slots) : RowsOfBundle(b)[n] \in SlotRows
    BY <1>2, <1>3, <2>2
  <2> DEFINE s == RowsOfBundle(b)
             N == Len(Bundles[b].slots)
  <2>5. N \in Nat /\ s = [n \in 1..N |-> s[n]] /\ \A n \in 1..N : s[n] \in SlotRows
    BY <2>2, <2>3, <2>4
  <2> HIDE DEF s, N
  <2>6. s \in Seq(SlotRows)
    BY <2>5
  <2> QED
    BY <2>1, <2>6 DEF s
<1>4. SlotRows \subseteq RowType
  BY <1>2 DEF SlotRows
<1> QED
  BY <1>2, <1>3, <1>4

--------------------------------------------------------------------------------
(* What getNextAsset finds, and what it leaves in memory.                            *)
PickType == [last : Int, index : Nat, item : ItemType \cup {NothingFound}]

(* Trying a row gives a pick.                                                 *)
LEMMA TryTyped ==
  ASSUME NEW pick \in PickType, NEW row \in SlotRows, NEW registered
  PROVE  TrySlot(registered, pick, row) \in PickType
<1>1. row.slot \in Nat /\ row.list \in Seq(Ads) /\ row.policy \in Nat
  <2>1. row \in RowType /\ Policies \subseteq Nat
    BY RowsFacts, BundleFacts
  <2> QED
    BY <2>1 DEF RowType
<1>2. pick.last \in Int /\ pick.index \in Nat
      /\ pick = [last |-> pick.last, index |-> pick.index, item |-> pick.item]
  BY DEF PickType
<1>3. CASE pick.item # NothingFound
  BY <1>3 DEF TrySlot
<1>4. CASE pick.item = NothingFound
  <2> DEFINE kept == IF pick.last = row.slot THEN pick.index ELSE 0
             turn == IF kept >= Len(row.list) THEN 0 ELSE kept
             ad == row.list[turn + 1]
             found == IF ad \in registered
                      THEN [ad |-> ad, slot |-> row.slot, policy |-> row.policy] ELSE NothingFound
  <2>1. kept \in Nat
    BY <1>2
  <2>2. CASE row.list = <<>>
    <3>1. TrySlot(registered, pick, row) = [last |-> row.slot, index |-> kept, item |-> NothingFound]
      BY <1>4, <2>2 DEF TrySlot
    <3> HIDE DEF kept
    <3> QED
      BY <1>1, <2>1, <3>1 DEF PickType
  <2>3. CASE row.list # <<>>
    <3>1. turn \in Nat /\ ad \in Ads
      <4> HIDE DEF kept
      <4>1. turn \in Nat /\ turn + 1 \in 1..Len(row.list)
        BY <1>1, <2>1, <2>3
      <4> QED
        BY <1>1, <4>1
    <3>2. TrySlot(registered, pick, row) = [last |-> row.slot, index |-> turn + 1, item |-> found]
      BY <1>4, <2>3 DEF TrySlot
    <3> HIDE DEF turn, ad
    <3>3. found \in ItemType \cup {NothingFound}
      BY <1>1, <3>1 DEF ItemType
    <3> HIDE DEF found
    <3> QED
      BY <1>1, <3>1, <3>2, <3>3 DEF PickType
  <2> QED
    BY <2>2, <2>3
<1> QED
  BY <1>3, <1>4

(* The loop over the rows is a recursive function: what it makes of each row.        *)
InTurn(pick, order, registered, first) ==
  /\ pick[0] = first
  /\ \A n \in 1..Len(order) : pick[n] = TrySlot(registered, pick[n - 1], order[n])

(* PickFromSlots runs through the ordered rows, from what it remembered.      *)
LEMMA PickLoop ==
  ASSUME NEW rows \in Seq(SlotRows), NEW registered, NEW now, NEW last \in Int, NEW start \in Nat
  PROVE  LET order == ByPriority(rows, now) IN
         /\ order \in Seq(SlotRows)
         /\ \E pick :
              /\ PickFromSlots(rows, registered, now, last, start) = pick[Len(order)]
              /\ InTurn(pick, order, registered, [last |-> last, index |-> start, item |-> NothingFound])
<1> DEFINE order == ByPriority(rows, now)
           first == [last |-> last, index |-> start, item |-> NothingFound]
           Loop(f, m) == f = [n \in 0..m |->
             IF n = 0 THEN first ELSE TrySlot(registered, f[n - 1], order[n])]
           N == Len(order)
           S == {m \in 0..N : \E f : Loop(f, m)}
<1>1. order \in Seq(SlotRows)
  <2>1. \A r \in SlotRows : r.priority \in Int
    BY RowsFacts DEF RowType
  <2> QED
    BY <2>1, OrderedRows
<1>2. N \in Nat /\ \A n \in 1..N : order[n] \in SlotRows
  BY <1>1
<1>4. PickFromSlots(rows, registered, now, last, start) =
        (CHOOSE f : Loop(f, N))[N]
  BY DEF PickFromSlots
<1> HIDE DEF order, first, N
<1>5. 0 \in S
  <2>1. Loop([n \in 0..0 |-> first], 0)
    OBVIOUS
  <2> HIDE DEF Loop
  <2> QED
    BY <1>2, <2>1
<1>6. \A m \in 0..(N - 1) : m \in S => m + 1 \in S
  <2> SUFFICES ASSUME NEW m \in 0..(N - 1), NEW f, Loop(f, m) PROVE \E g : Loop(g, m + 1)
    <3> HIDE DEF Loop
    <3> QED
      BY <1>2
  <2> DEFINE next == TrySlot(registered, f[m], order[m + 1])
             g == [n \in 0..(m + 1) |-> IF n = m + 1 THEN next ELSE f[n]]
  <2>1. \A n \in 0..(m + 1) : g[n] = IF n = 0 THEN first ELSE TrySlot(registered, g[n - 1], order[n])
    <3> TAKE n \in 0..(m + 1)
    <3>1. CASE n = m + 1
      <4>1. g[n - 1] = f[m] /\ n # 0 /\ n - 1 = m
        BY <3>1, <1>2
      <4> QED
        BY <3>1, <4>1
    <3>2. CASE n # m + 1
      <4>1. n \in 0..m /\ g[n] = f[n] /\ (n # 0 => n - 1 \in 0..m /\ g[n - 1] = f[n - 1])
        BY <3>2, <1>2
      <4> QED
        BY <4>1
    <3> QED
      BY <3>1, <3>2
  <2>2. g = [n \in 0..(m + 1) |-> g[n]]
    OBVIOUS
  <2> HIDE DEF g
  <2>3. Loop(g, m + 1)
    BY <2>1, <2>2
  <2> HIDE DEF Loop
  <2> QED
    BY <2>3
<1> HIDE DEF S
<1>7. N \in S
  <2>1. \A n \in 0..N : n \in S
    BY <1>2, <1>5, <1>6, CountingUp
  <2> QED
    BY <1>2, <2>1
<1> DEFINE pick == CHOOSE f : Loop(f, N)
<1>8. Loop(pick, N)
  <2>1. \E f : Loop(f, N)
    BY <1>7 DEF S
  <2> HIDE DEF Loop
  <2> QED
    BY <2>1, Zenon
<1> HIDE DEF pick
<1>9. \A n \in 0..N : pick[n] = IF n = 0 THEN first ELSE TrySlot(registered, pick[n - 1], order[n])
  BY <1>8
<1> HIDE DEF N
<1>10. InTurn(pick, order, registered, first)
  <2>1. 0 \in 0..N /\ \A n \in 1..N : n \in 0..N /\ n # 0
    BY <1>2
  <2> QED
    BY <1>9, <2>1 DEF InTurn, N
<1>11. PickFromSlots(rows, registered, now, last, start) = pick[N]
  BY <1>4 DEF pick
<1> QED
  BY <1>1, <1>10, <1>11 DEF order, first, N

(* What PickFromSlots gives is a pick.                                        *)
LEMMA PickTyped ==
  ASSUME NEW rows \in Seq(SlotRows), NEW registered, NEW now, NEW last \in Int, NEW start \in Nat
  PROVE  PickFromSlots(rows, registered, now, last, start) \in PickType
<1> DEFINE order == ByPriority(rows, now)
           N == Len(order)
<1>1. order \in Seq(SlotRows)
  BY PickLoop
<1>2. PICK pick :
        /\ PickFromSlots(rows, registered, now, last, start) = pick[N]
        /\ InTurn(pick, order, registered, [last |-> last, index |-> start, item |-> NothingFound])
  BY PickLoop
<1>2a. /\ pick[0] = [last |-> last, index |-> start, item |-> NothingFound]
       /\ \A n \in 1..N : pick[n] = TrySlot(registered, pick[n - 1], order[n])
  BY <1>2 DEF InTurn
<1> HIDE DEF order
<1>3. N \in Nat /\ \A n \in 1..N : order[n] \in SlotRows
  BY <1>1
<1> HIDE DEF N
<1> DEFINE Typed == {n \in 0..N : pick[n] \in PickType}
<1>4. 0 \in Typed
  BY <1>2a, <1>3 DEF PickType
<1>5. \A n \in 0..(N - 1) : n \in Typed => n + 1 \in Typed
  <2> SUFFICES ASSUME NEW n \in 0..(N - 1), pick[n] \in PickType PROVE pick[n + 1] \in PickType
    BY <1>3
  <2>1. n + 1 \in 1..N /\ (n + 1) - 1 = n
    BY <1>3
  <2>2. pick[n + 1] = TrySlot(registered, pick[n], order[n + 1])
    BY <1>2a, <2>1
  <2> QED
    BY <1>3, <2>1, <2>2, TryTyped
<1> HIDE DEF Typed
<1>6. N \in Typed
  <2>1. \A n \in 0..N : n \in Typed
    BY <1>3, <1>4, <1>5, CountingUp
  <2> QED
    BY <1>3, <2>1
<1> QED
  BY <1>2, <1>6 DEF Typed

(* An item that is found is of the first row whose turn it was to give one: a row    *)
(* that was passed over has no ad, or one that is not registered.                    *)
Gives(registered, row) == row.list # <<>> /\ \A m \in 1..Len(row.list) : row.list[m] \in registered

(* A row tried keeps the item found, or gives one, or cannot.                 *)
LEMMA TryFinds ==
  ASSUME NEW pick \in PickType, NEW row \in SlotRows, NEW registered, row.slot # 0
  PROVE  LET next == TrySlot(registered, pick, row) IN
         IF pick.item # NothingFound THEN next.item = pick.item
         ELSE \/ next.item # NothingFound /\ next.item.slot = row.slot
              \/ next.item = NothingFound /\ ~Gives(registered, row)
<1>1. row.slot \in Nat /\ row.list \in Seq(Ads)
  <2>1. row \in RowType
    BY RowsFacts
  <2> QED
    BY <2>1 DEF RowType
<1>2. CASE pick.item # NothingFound
  BY <1>2 DEF TrySlot
<1>3. CASE pick.item = NothingFound
  <2> DEFINE kept == IF pick.last = row.slot THEN pick.index ELSE 0
             turn == IF kept >= Len(row.list) THEN 0 ELSE kept
             ad == row.list[turn + 1]
             item1 == [ad |-> ad, slot |-> row.slot, policy |-> row.policy]
             found == IF ad \in registered THEN item1 ELSE NothingFound
  <2>1. kept \in Nat
    BY DEF PickType
  <2>2. CASE row.list = <<>>
    BY <1>3, <2>2 DEF TrySlot, Gives
  <2>3. CASE row.list # <<>>
    <3>1. turn + 1 \in 1..Len(row.list)
      <4> HIDE DEF kept
      <4> QED
        BY <1>1, <2>1, <2>3
    <3>2. TrySlot(registered, pick, row) = [last |-> row.slot, index |-> turn + 1, item |-> found]
      BY <1>3, <2>3 DEF TrySlot
    <3>3. ad \notin registered => ~Gives(registered, row)
      <4> HIDE DEF turn
      <4> QED
        BY <3>1 DEF Gives
    <3> HIDE DEF turn, ad
    <3>4. item1 # NothingFound /\ item1.slot = row.slot
      <4>1. item1.slot = row.slot /\ NothingFound.slot = 0
        BY DEF NothingFound
      <4> QED
        BY <4>1
    <3> HIDE DEF item1
    <3> HIDE DEF found
    <3>5. TrySlot(registered, pick, row).item = found
      BY <3>2
    <3>6. found = IF ad \in registered THEN item1 ELSE NothingFound
      BY DEF found
    <3> QED
      BY <1>3, <3>3, <3>4, <3>5, <3>6
  <2> QED
    BY <2>2, <2>3
<1> QED
  BY <1>2, <1>3

(* The item found is of a row, and none before it could give one.             *)
LEMMA PickFinds ==
  ASSUME NEW rows \in Seq(SlotRows), NEW registered, NEW now, NEW last \in Int, NEW start \in Nat,
         \A n \in 1..Len(rows) : rows[n].slot # 0
  PROVE  LET order == ByPriority(rows, now)
             given == PickFromSlots(rows, registered, now, last, start).item
         IN given # NothingFound =>
              \E n \in 1..Len(order) : /\ given.slot = order[n].slot
                                       /\ \A k \in 1..(n - 1) : ~Gives(registered, order[k])
<1> DEFINE order == ByPriority(rows, now)
           N == Len(order)
<1>1. order \in Seq(SlotRows) /\ \A n \in 1..N : order[n].slot # 0
  <2>1. \A r \in SlotRows : r.priority \in Int
    BY RowsFacts DEF RowType
  <2>2. order \in Seq(SlotRows) /\ \A n \in 1..N : \E j \in 1..Len(rows) : order[n] = rows[j]
    BY <2>1, OrderedRows
  <2> QED
    BY <2>2
<1>2. PICK pick :
        /\ PickFromSlots(rows, registered, now, last, start) = pick[N]
        /\ InTurn(pick, order, registered, [last |-> last, index |-> start, item |-> NothingFound])
  BY PickLoop
<1>2a. /\ pick[0] = [last |-> last, index |-> start, item |-> NothingFound]
       /\ \A n \in 1..N : pick[n] = TrySlot(registered, pick[n - 1], order[n])
  BY <1>2 DEF InTurn
<1> HIDE DEF order
<1>3. N \in Nat /\ \A n \in 1..N : order[n] \in SlotRows
  BY <1>1
<1> HIDE DEF N
<1> DEFINE Passed(n) == \A k \in 1..n : ~Gives(registered, order[k])
           Finds(n) == /\ pick[n] \in PickType
                       /\ IF pick[n].item = NothingFound THEN Passed(n)
                          ELSE \E m \in 1..n : pick[n].item.slot = order[m].slot /\ Passed(m - 1)
           Right == {n \in 0..N : Finds(n)}
<1>4. 0 \in Right
  BY <1>2a, <1>3 DEF PickType
<1>5. \A n \in 0..(N - 1) : n \in Right => n + 1 \in Right
  <2> SUFFICES ASSUME NEW n \in 0..(N - 1), Finds(n) PROVE Finds(n + 1)
    BY <1>3
  <2>1. n \in Nat /\ n + 1 \in 1..N /\ (n + 1) - 1 = n
    BY <1>3
  <2>2. pick[n + 1] = TrySlot(registered, pick[n], order[n + 1])
    BY <1>2a, <2>1
  <2>3. pick[n + 1] \in PickType
    BY <1>3, <2>1, <2>2, TryTyped
  <2>4. IF pick[n].item # NothingFound THEN pick[n + 1].item = pick[n].item
        ELSE \/ pick[n + 1].item # NothingFound /\ pick[n + 1].item.slot = order[n + 1].slot
             \/ pick[n + 1].item = NothingFound /\ ~Gives(registered, order[n + 1])
    BY <1>1, <1>3, <2>1, <2>2, TryFinds
  <2>5. CASE pick[n].item # NothingFound
    <3>1. PICK m \in 1..n : pick[n].item.slot = order[m].slot /\ Passed(m - 1)
      BY <2>5
    <3>2. m \in 1..(n + 1)
      BY <2>1
    <3> HIDE DEF Passed
    <3> QED
      BY <2>3, <2>4, <2>5, <3>1, <3>2
  <2>6. CASE pick[n].item = NothingFound
    <3>1. Passed(n)
      BY <2>6
    <3>2. CASE pick[n + 1].item # NothingFound
      <4>1. n + 1 \in 1..(n + 1)
        BY <2>1
      <4> HIDE DEF Passed
      <4>2. Passed((n + 1) - 1)
        BY <2>1, <3>1
      <4> QED
        BY <2>3, <2>4, <2>6, <3>2, <4>1, <4>2
    <3>3. CASE pick[n + 1].item = NothingFound
      <4>1. ~Gives(registered, order[n + 1])
        BY <2>4, <2>6, <3>3
      <4>2. Passed(n + 1)
        <5> TAKE k \in 1..(n + 1)
        <5>1. k = n + 1 \/ k \in 1..n
          BY <2>1
        <5> QED
          BY <3>1, <4>1, <5>1
      <4> HIDE DEF Passed
      <4> QED
        BY <2>3, <3>3, <4>2
    <3> QED
      BY <3>2, <3>3
  <2> QED
    BY <2>5, <2>6
<1> HIDE DEF Right
<1>6. N \in Right
  <2>1. \A n \in 0..N : n \in Right
    BY <1>3, <1>4, <1>5, CountingUp
  <2> QED
    BY <1>3, <2>1
<1>7. pick[N].item # NothingFound => \E m \in 1..N : pick[N].item.slot = order[m].slot /\ Passed(m - 1)
  BY <1>6 DEF Right
<1> QED
  BY <1>2, <1>7 DEF order, N

--------------------------------------------------------------------------------
(* A finite set put into a sequence: each member has its place.                      *)
LEMMA SeqOfSet ==
  ASSUME NEW T, IsFiniteSet(T)
  PROVE  /\ SetToSeq(T) \in Seq(T) /\ Cardinality(T) \in Nat /\ Len(SetToSeq(T)) = Cardinality(T)
         /\ \A t \in T : \E n \in 1..Cardinality(T) : SetToSeq(T)[n] = t
<1> DEFINE N == Cardinality(T)
           S == 1..N
           Lists(f) == f \in [S -> T] /\ IsInjective(f)
           s == CHOOSE f \in [S -> T] : IsInjective(f)
<1>1. N \in Nat /\ ExistsBijection(S, T)
  BY FS_CardinalityType
<1>2. SetToSeq(T) = s
  BY DEF SetToSeq
<1>3. IsFiniteSet(S) /\ Cardinality(S) = N
  BY <1>1, FS_Interval
<1> HIDE DEF N, S
<1>4. PICK f : f \in Bijection(S, T)
  BY <1>1, Fun_ExistsBij
<1>5. f \in [S -> T] /\ IsInjective(f)
  BY <1>4, Fun_BijectionProperties DEF IsInjective
<1>6. s \in [S -> T] /\ IsInjective(s)
  BY <1>5
<1> HIDE DEF s
<1>7. s \in Injection(S, T)
  BY <1>6, Fun_IsInj DEF IsInjective
<1>8. s \in Surjection(S, T)
  BY <1>3, <1>7, FS_Injection DEF N
<1>9. \A t \in T : \E n \in S : s[n] = t
  BY <1>8, Fun_SurjectionProperties
<1>10. s \in Seq(T) /\ Len(s) = N
  BY <1>1, <1>6 DEF S
<1> QED
  BY <1>1, <1>2, <1>9, <1>10 DEF N, S

(* Two sequences joined.                                                      *)
LEMMA Joined ==
  ASSUME NEW T, NEW s \in Seq(T), NEW t \in Seq(T)
  PROVE  /\ s \o t \in Seq(T) /\ Len(s \o t) = Len(s) + Len(t)
         /\ \A n \in 1..Len(s) : (s \o t)[n] = s[n]
         /\ \A n \in 1..Len(t) : (s \o t)[Len(s) + n] = t[n]
  OBVIOUS

(* loadSchedule's statements, by their places.                                       *)
StatementType ==
  [op : {"delete interrupts", "delete slots"}]
    \cup [op : {"interrupt"}, row : InterruptRow] \cup [op : {"slot"}, row : SlotRows]

(* A bundle has a finite number of interrupts to insert.                      *)
LEMMA InsertionsFinite ==
  ASSUME NEW b \in DOMAIN Bundles
  PROVE  IsFiniteSet(Insertions(b)) /\ Interrupts(b) \subseteq InterruptRow
<1> DEFINE P == Bundles[b].interrupts
           row(i) == [policy |-> Bundles[b].policy, ad |-> i.ad, priority |-> i.priority, status |-> 0]
           f == [i \in P |-> [op |-> "interrupt", row |-> row(i)]]
<1>1. IsFiniteSet(P) /\ P \in SUBSET [ad : Ads, priority : Int] /\ Bundles[b].policy \in Policies
  BY BundleFacts
<1>2. Interrupts(b) = {row(i) : i \in P}
  BY DEF Interrupts
<1>3. \A i \in P : row(i) \in InterruptRow
  BY <1>1 DEF InterruptRow
<1> HIDE DEF P, row
<1>4. f \in [P -> Insertions(b)]
  BY <1>2 DEF Insertions
<1>5. \A t \in Insertions(b) : \E i \in P : f[i] = t
  BY <1>2 DEF Insertions
<1> HIDE DEF f
<1>6. f \in Surjection(P, Insertions(b))
  BY <1>4, <1>5, Fun_IsSurj
<1>7. IsFiniteSet(Insertions(b))
  BY <1>1, <1>6, FS_Surjection
<1> QED
  BY <1>2, <1>3, <1>7

(* The statements of a load: delete, insert, delete, insert, in this order.   *)
LEMMA LoadFacts ==
  ASSUME NEW b \in DOMAIN Bundles
  PROVE  LET s == LoadStatements(b)
             I == Inserted(b)
             N == Len(RowsOfBundle(b))
         IN /\ I \in Nat /\ N \in Nat
            /\ s \in Seq(StatementType) /\ Len(s) = I + N + 2
            /\ s[1] = [op |-> "delete interrupts"] /\ s[I + 2] = [op |-> "delete slots"]
            /\ \A n \in 2..(I + 1) : s[n] \in Insertions(b)
            /\ \A t \in Insertions(b) : \E n \in 2..(I + 1) : s[n] = t
            /\ \A n \in 1..N : s[I + 2 + n] = [op |-> "slot", row |-> RowsOfBundle(b)[n]]
<1> DEFINE s == LoadStatements(b)
           I == Inserted(b)
           N == Len(RowsOfBundle(b))
           D == <<[op |-> "delete interrupts"]>>
           A == SetToSeq(Insertions(b))
           E == <<[op |-> "delete slots"]>>
           W == [n \in DOMAIN RowsOfBundle(b) |-> [op |-> "slot", row |-> RowsOfBundle(b)[n]]]
<1>1. /\ I \in Nat /\ A \in Seq(Insertions(b)) /\ Len(A) = I
      /\ \A t \in Insertions(b) : \E n \in 1..I : A[n] = t
  BY InsertionsFinite, SeqOfSet DEF Inserted
<1>2. /\ N \in Nat /\ RowsOfBundle(b) \in Seq(SlotRows)
      /\ \A n \in 1..N : W[n] = [op |-> "slot", row |-> RowsOfBundle(b)[n]]
  BY RowsFacts
<1>3. s = D \o A \o E \o W
  BY DEF LoadStatements, Insertions
<1>4. /\ Insertions(b) \subseteq StatementType
      /\ [op |-> "delete interrupts"] \in StatementType /\ [op |-> "delete slots"] \in StatementType
      /\ \A row \in SlotRows : [op |-> "slot", row |-> row] \in StatementType
  <2>1. \A i \in InterruptRow : [op |-> "interrupt", row |-> i] \in [op : {"interrupt"}, row : InterruptRow]
    OBVIOUS
  <2>2. Insertions(b) \subseteq [op : {"interrupt"}, row : InterruptRow]
    BY <2>1, InsertionsFinite DEF Insertions
  <2>3. /\ [op |-> "delete interrupts"] \in [op : {"delete interrupts", "delete slots"}]
        /\ [op |-> "delete slots"] \in [op : {"delete interrupts", "delete slots"}]
    OBVIOUS
  <2>4. \A row \in SlotRows : [op |-> "slot", row |-> row] \in [op : {"slot"}, row : SlotRows]
    OBVIOUS
  <2> QED
    BY <2>2, <2>3, <2>4, Zenon DEF StatementType
<1>5. A \in Seq(StatementType)
  <2> DEFINE T == Insertions(b)
  <2>1. A \in Seq(T) /\ T \subseteq StatementType
    BY <1>1, <1>4
  <2> HIDE DEF A, T
  <2> QED
    BY <2>1
<1>6. /\ D \in Seq(StatementType) /\ Len(D) = 1 /\ D[1] = [op |-> "delete interrupts"]
      /\ E \in Seq(StatementType) /\ Len(E) = 1 /\ E[1] = [op |-> "delete slots"]
  <2>1. \A d \in StatementType : <<d>> \in Seq(StatementType) /\ Len(<<d>>) = 1 /\ <<d>>[1] = d
    OBVIOUS
  <2> QED
    BY <1>4, <2>1
<1>8. W \in Seq(StatementType) /\ Len(W) = N
  <2>1. \A n \in 1..N : W[n] \in StatementType
    <3> TAKE n \in 1..N
    <3>1. RowsOfBundle(b)[n] \in SlotRows
      BY <1>2
    <3> QED
      BY <1>2, <1>4, <3>1
  <2>2. W = [n \in 1..N |-> W[n]]
    BY <1>2
  <2> HIDE DEF W, N
  <2> QED
    BY <1>2, <2>1, <2>2
<1> HIDE DEF s, I, N, D, A, E, W
<1>6a. D \in Seq(StatementType) /\ Len(D) = 1 /\ E \in Seq(StatementType) /\ Len(E) = 1
  BY <1>6
<1>9. /\ s \in Seq(StatementType) /\ Len(s) = I + N + 2
      /\ s[1] = D[1] /\ s[I + 2] = E[1]
      /\ \A n \in 1..I : s[n + 1] = A[n]
      /\ \A n \in 1..N : s[I + 2 + n] = W[n]
  <2> DEFINE B == D \o A
             C == B \o E
  <2>1. /\ B \in Seq(StatementType) /\ Len(B) = I + 1 /\ B[1] = D[1]
        /\ \A n \in 1..I : B[n + 1] = A[n]
    <3>1. D \in Seq(StatementType) /\ A \in Seq(StatementType)
      BY <1>5, <1>6
    <3>2. /\ D \o A \in Seq(StatementType) /\ Len(D \o A) = Len(D) + Len(A)
          /\ \A n \in 1..Len(D) : (D \o A)[n] = D[n]
          /\ \A n \in 1..Len(A) : (D \o A)[Len(D) + n] = A[n]
      BY <3>1, Joined
    <3>3. B \in Seq(StatementType) /\ Len(B) = I + 1
      BY <1>1, <1>6a, <3>2
    <3>4. B[1] = D[1]
      BY <1>6a, <3>2
    <3>5. \A n \in 1..I : B[n + 1] = A[n]
      <4> TAKE n \in 1..I
      <4>1. n + 1 = 1 + n
        BY <1>1
      <4>2. B[1 + n] = A[n]
        BY <1>1, <1>6a, <3>2
      <4> QED
        BY <4>1, <4>2
    <3> QED
      BY <3>3, <3>4, <3>5
  <2> HIDE DEF B
  <2>2. /\ C \in Seq(StatementType) /\ Len(C) = I + 2 /\ C[I + 2] = E[1]
        /\ \A n \in 1..(I + 1) : C[n] = B[n]
    <3>1. B \in Seq(StatementType) /\ E \in Seq(StatementType)
      BY <1>6, <2>1
    <3>2. /\ B \o E \in Seq(StatementType) /\ Len(B \o E) = Len(B) + Len(E)
          /\ \A n \in 1..Len(B) : (B \o E)[n] = B[n]
          /\ \A n \in 1..Len(E) : (B \o E)[Len(B) + n] = E[n]
      BY <3>1, Joined
    <3>3. C \in Seq(StatementType) /\ Len(C) = I + 2
      BY <1>1, <1>6a, <2>1, <3>2
    <3>4. C[I + 2] = E[1]
      <4>1. C[Len(B) + 1] = E[1]
        BY <1>6a, <3>2
      <4>2. Len(B) + 1 = I + 2
        BY <1>1, <2>1
      <4> QED
        BY <4>1, <4>2
    <3>5. \A n \in 1..(I + 1) : C[n] = B[n]
      BY <2>1, <3>2
    <3> QED
      BY <3>3, <3>4, <3>5
  <2>3. s = C \o W
    BY <1>3 DEF B
  <2> HIDE DEF C
  <2>4. /\ s \in Seq(StatementType) /\ Len(s) = I + N + 2
        /\ \A n \in 1..(I + 2) : s[n] = C[n]
        /\ \A n \in 1..N : s[I + 2 + n] = W[n]
    <3>1. C \in Seq(StatementType) /\ W \in Seq(StatementType)
      BY <1>8, <2>2
    <3>2. /\ C \o W \in Seq(StatementType) /\ Len(C \o W) = Len(C) + Len(W)
          /\ \A n \in 1..Len(C) : (C \o W)[n] = C[n]
          /\ \A n \in 1..Len(W) : (C \o W)[Len(C) + n] = W[n]
      BY <3>1, Joined
    <3> QED
      BY <1>1, <1>2, <1>8, <2>2, <2>3, <3>2
  <2>a. /\ 1 \in 1..(I + 1) /\ 1 \in 1..(I + 2) /\ I + 2 \in 1..(I + 2)
        /\ \A n \in 1..I : n + 1 \in 1..(I + 1) /\ n + 1 \in 1..(I + 2)
    BY <1>1
  <2>5. s[1] = D[1] /\ s[I + 2] = E[1]
    <3>1. C[1] = B[1] /\ B[1] = D[1]
      BY <2>1, <2>2, <2>a
    <3>2. s[1] = C[1] /\ s[I + 2] = C[I + 2] /\ C[I + 2] = E[1]
      BY <2>2, <2>4, <2>a
    <3> QED
      BY <3>1, <3>2
  <2>6. \A n \in 1..I : s[n + 1] = A[n]
    <3> TAKE n \in 1..I
    <3>1. s[n + 1] = C[n + 1] /\ C[n + 1] = B[n + 1]
      BY <2>2, <2>4, <2>a
    <3> QED
      BY <2>1, <3>1
  <2> QED
    BY <2>4, <2>5, <2>6
<1>10. \A n \in 2..(I + 1) : s[n] \in Insertions(b)
  <2> TAKE n \in 2..(I + 1)
  <2>1. n - 1 \in 1..I /\ (n - 1) + 1 = n
    BY <1>1
  <2>2. s[n] = A[n - 1]
    BY <1>9, <2>1
  <2> QED
    BY <1>1, <2>1, <2>2
<1>11. \A t \in Insertions(b) : \E n \in 2..(I + 1) : s[n] = t
  <2> SUFFICES ASSUME NEW t \in Insertions(b) PROVE \E n \in 2..(I + 1) : s[n] = t
    OBVIOUS
  <2>1. PICK n \in 1..I : A[n] = t
    BY <1>1
  <2>2. n + 1 \in 2..(I + 1) /\ s[n + 1] = t
    BY <1>1, <1>9, <2>1
  <2> QED
    BY <2>2
<1> QED
  BY <1>1, <1>2, <1>6, <1>9, <1>10, <1>11 DEF s, I, N

(* How many statements a load has.                                            *)
LEMMA LoadSizes ==
  ASSUME NEW b \in DOMAIN Bundles
  PROVE  /\ Inserted(b) \in Nat /\ Len(RowsOfBundle(b)) \in Nat
         /\ LoadStatements(b) \in Seq(StatementType)
         /\ Len(LoadStatements(b)) = Inserted(b) + Len(RowsOfBundle(b)) + 2
BY LoadFacts

--------------------------------------------------------------------------------
(* Tables with one column of rows replaced are tables.                               *)
LEMMA TablesFacts ==
  ASSUME NEW t \in Tables
  PROVE  /\ t.ads \in [Ads -> Versions \cup {Absent}] /\ t.interrupts \in SUBSET InterruptRow
         /\ t.slots \in Seq(SlotRows) /\ t # NoTx
         /\ \A x \in [Ads -> Versions \cup {Absent}] :
              LET u == [t EXCEPT !.ads = x] IN
              u \in Tables /\ u.ads = x /\ u.interrupts = t.interrupts /\ u.slots = t.slots
         /\ \A x \in SUBSET InterruptRow :
              LET u == [t EXCEPT !.interrupts = x] IN
              u \in Tables /\ u.ads = t.ads /\ u.interrupts = x /\ u.slots = t.slots
         /\ \A x \in Seq(SlotRows) :
              LET u == [t EXCEPT !.slots = x] IN
              u \in Tables /\ u.ads = t.ads /\ u.interrupts = t.interrupts /\ u.slots = x
<1>1. /\ t.ads \in [Ads -> Versions \cup {Absent}] /\ t.interrupts \in SUBSET InterruptRow
      /\ t.slots \in Seq(SlotRows)
  BY DEF Tables
<1>2. t # NoTx
  <2>1. "ads" \in DOMAIN t
    BY DEF Tables
  <2>2. "ads" \notin DOMAIN NoTx
    BY DEF NoTx
  <2> QED
    BY <2>1, <2>2
<1>3. \A x \in [Ads -> Versions \cup {Absent}] :
        LET u == [t EXCEPT !.ads = x] IN
        u \in Tables /\ u.ads = x /\ u.interrupts = t.interrupts /\ u.slots = t.slots
  BY DEF Tables
<1>4. \A x \in SUBSET InterruptRow :
        LET u == [t EXCEPT !.interrupts = x] IN
        u \in Tables /\ u.ads = t.ads /\ u.interrupts = x /\ u.slots = t.slots
  BY DEF Tables
<1>5. \A x \in Seq(SlotRows) :
        LET u == [t EXCEPT !.slots = x] IN
        u \in Tables /\ u.ads = t.ads /\ u.interrupts = t.interrupts /\ u.slots = x
  BY DEF Tables
<1> QED
  BY <1>1, <1>2, <1>3, <1>4, <1>5

(* The invariant holds at the start.                                          *)
LEMMA SchedulerFirst == SchedulerInit => SchedulerInv
<1> SUFFICES ASSUME SchedulerInit PROVE SchedulerInv
  OBVIOUS
<1> USE DEF SchedulerInit
<1>1. db \in Tables
  <2>1. <<>> \in Seq(SlotRows)
    OBVIOUS
  <2>2. [a \in Ads |-> Absent] \in [Ads -> Versions \cup {Absent}] /\ {} \in SUBSET InterruptRow
    OBVIOUS
  <2> QED
    BY <2>1, <2>2 DEF Tables
<1>2. SchedulerTyped
  BY <1>1, BundleFacts DEF SchedulerTyped
<1>3. FilesHonest
  BY DEF FilesHonest
<1>4. PlayedMarked
  BY DEF PlayedMarked, Marked
<1>5. KeptWhole
  <2>1. Kept.slots = <<>> /\ Kept.interrupts = {}
    BY DEF Kept
  <2>2. \A p : SlotsOf(Kept, p) = <<>> /\ InterruptsOf(Kept, p) = {}
    BY <2>1, FilterEmpty DEF SlotsOf, InterruptsOf
  <2> QED
    BY <2>2 DEF KeptWhole, OneLoad
<1>6. AdsOnly /\ Loading
  BY DEF AdsOnly, Loading
<1> QED
  BY <1>2, <1>3, <1>4, <1>5, <1>6 DEF SchedulerInv

--------------------------------------------------------------------------------
(* One statement of a load: the rows it changes are those of its policy.             *)
OwnStatement(statement, p) ==
  \/ statement \in {[op |-> "delete interrupts"], [op |-> "delete slots"]}
  \/ \E i \in InterruptRow : i.policy = p /\ i.status = 0 /\ statement = [op |-> "interrupt", row |-> i]
  \/ \E r \in SlotRows : r.policy = p /\ statement = [op |-> "slot", row |-> r]

(* A deletion of interrupts leaves those of the other policies.                      *)
LEMMA InterruptsDeleted ==
  ASSUME NEW p, db \in Tables
  PROVE  LET t == Executed([op |-> "delete interrupts"], p) IN
         /\ t \in Tables /\ t.ads = db.ads /\ t.slots = db.slots
         /\ t.interrupts = {i \in db.interrupts : i.policy # p}
         /\ InterruptsOf(t, p) = {}
         /\ \A q : q # p => InterruptsOf(t, q) = InterruptsOf(db, q)
<1> DEFINE left == {i \in db.interrupts : i.policy # p}
           t == [db EXCEPT !.interrupts = left]
<1>1. Executed([op |-> "delete interrupts"], p) = t
  BY DEF Executed
<1>2. db.interrupts \in SUBSET InterruptRow
  BY TablesFacts
<1>3. left \in SUBSET InterruptRow
  BY <1>2
<1> HIDE DEF left
<1>4. t \in Tables /\ t.ads = db.ads /\ t.slots = db.slots /\ t.interrupts = left
  BY <1>3, TablesFacts
<1> HIDE DEF t
<1>5. InterruptsOf(t, p) = {}
  BY <1>4 DEF InterruptsOf, left
<1>6. \A q : q # p => {j \in t.interrupts : j.policy = q} = {j \in db.interrupts : j.policy = q}
  BY <1>4 DEF left
<1>7. \A q : q # p => InterruptsOf(t, q) = InterruptsOf(db, q)
  BY <1>6 DEF InterruptsOf
<1> QED
  BY <1>1, <1>4, <1>5, <1>7 DEF left

(* An insertion adds its interrupt to those of its policy.                           *)
LEMMA InterruptInserted ==
  ASSUME NEW p, NEW i \in InterruptRow, i.policy = p, i.status = 0, db \in Tables
  PROVE  LET t == Executed([op |-> "interrupt", row |-> i], p) IN
         /\ t \in Tables /\ t.ads = db.ads /\ t.slots = db.slots
         /\ t.interrupts = db.interrupts \cup {i}
         /\ InterruptsOf(t, p) = InterruptsOf(db, p) \cup {i}
         /\ \A q : q # p => InterruptsOf(t, q) = InterruptsOf(db, q)
<1> DEFINE more == db.interrupts \cup {i}
           t == [db EXCEPT !.interrupts = more]
           s == [op |-> "interrupt", row |-> i]
<1>1. Executed(s, p) = t
  <2>1. s.op = "interrupt" /\ s.row = i
    OBVIOUS
  <2> HIDE DEF s
  <2> QED
    BY <2>1 DEF Executed
<1>2. db.interrupts \in SUBSET InterruptRow
  BY TablesFacts
<1>3. more \in SUBSET InterruptRow
  BY <1>2
<1> HIDE DEF more
<1>4. t \in Tables /\ t.ads = db.ads /\ t.slots = db.slots /\ t.interrupts = more
  BY <1>3, TablesFacts
<1> HIDE DEF t
<1>5. [i EXCEPT !.status = 0] = i
  BY DEF InterruptRow
<1>6. /\ {j \in t.interrupts : j.policy = p} = {j \in db.interrupts : j.policy = p} \cup {i}
      /\ \A q : q # p => {j \in t.interrupts : j.policy = q} = {j \in db.interrupts : j.policy = q}
  BY <1>4 DEF more
<1>7. InterruptsOf(t, p) = InterruptsOf(db, p) \cup {i}
  BY <1>5, <1>6 DEF InterruptsOf
<1>8. \A q : q # p => InterruptsOf(t, q) = InterruptsOf(db, q)
  BY <1>6 DEF InterruptsOf
<1> QED
  BY <1>1, <1>4, <1>7, <1>8 DEF more, s

(* A deletion of slots leaves those of the other policies, in their order.           *)
LEMMA SlotsDeleted ==
  ASSUME NEW p, db \in Tables
  PROVE  LET t == Executed([op |-> "delete slots"], p) IN
         /\ t \in Tables /\ t.ads = db.ads /\ t.interrupts = db.interrupts
         /\ SlotsOf(t, p) = <<>>
         /\ \A q \in Policies \ {p} : SlotsOf(t, q) = SlotsOf(db, q)
<1> DEFINE left == RowsOfPolicies(db.slots, Policies \ {p})
           t == [db EXCEPT !.slots = left]
<1>1. Executed([op |-> "delete slots"], p) = t
  BY DEF Executed
<1>2. db.slots \in Seq(SlotRows)
  BY TablesFacts
<1>3. left \in Seq(SlotRows)
  BY <1>2, FilterTwice
<1>4. \A others : RowsOfPolicies(left, others) = RowsOfPolicies(db.slots, (Policies \ {p}) \cap others)
  BY <1>2, FilterTwice
<1> HIDE DEF left
<1>5. t \in Tables /\ t.ads = db.ads /\ t.interrupts = db.interrupts /\ t.slots = left
  BY <1>3, TablesFacts
<1> HIDE DEF t
<1>6. SlotsOf(t, p) = <<>>
  <2>1. (Policies \ {p}) \cap {p} = {}
    OBVIOUS
  <2> QED
    BY <1>2, <1>4, <1>5, <2>1, FilterTwice DEF SlotsOf
<1>7. ASSUME NEW q \in Policies \ {p} PROVE SlotsOf(t, q) = SlotsOf(db, q)
  <2>1. (Policies \ {p}) \cap {q} = {q}
    OBVIOUS
  <2> QED
    BY <1>4, <1>5, <2>1 DEF SlotsOf
<1> QED
  BY <1>1, <1>5, <1>6, <1>7

(* An insertion puts its slot behind those of its policy.                            *)
LEMMA SlotInserted ==
  ASSUME NEW p, NEW r \in SlotRows, r.policy = p, db \in Tables
  PROVE  LET t == Executed([op |-> "slot", row |-> r], p) IN
         /\ t \in Tables /\ t.ads = db.ads /\ t.interrupts = db.interrupts
         /\ SlotsOf(t, p) = Append(SlotsOf(db, p), r)
         /\ \A q : q # p => SlotsOf(t, q) = SlotsOf(db, q)
<1> DEFINE more == Append(db.slots, r)
           t == [db EXCEPT !.slots = more]
           s == [op |-> "slot", row |-> r]
<1>1. Executed(s, p) = t
  <2>1. s.op = "slot" /\ s.row = r
    OBVIOUS
  <2> HIDE DEF s
  <2> QED
    BY <2>1 DEF Executed
<1>2. db.slots \in Seq(SlotRows)
  BY TablesFacts
<1>3. more \in Seq(SlotRows)
  BY <1>2
<1>4. \A ps : RowsOfPolicies(more, ps) =
        IF r.policy \in ps THEN Append(RowsOfPolicies(db.slots, ps), r) ELSE RowsOfPolicies(db.slots, ps)
  BY <1>2, FilterAppend
<1> HIDE DEF more
<1>5. t \in Tables /\ t.ads = db.ads /\ t.interrupts = db.interrupts /\ t.slots = more
  BY <1>3, TablesFacts
<1> HIDE DEF t
<1>6. SlotsOf(t, p) = Append(SlotsOf(db, p), r)
  BY <1>4, <1>5 DEF SlotsOf
<1>7. \A q : q # p => SlotsOf(t, q) = SlotsOf(db, q)
  BY <1>4, <1>5 DEF SlotsOf
<1> QED
  BY <1>1, <1>5, <1>6, <1>7 DEF s

--------------------------------------------------------------------------------
(* Where loadSchedule is: its next statement is one of its own policy.               *)
LEMMA NextStatement ==
  ASSUME SchedulerInv, sync = "load"
  PROVE  LET s == LoadStatements(batch)
             p == Bundles[batch].policy
         IN /\ batch \in DOMAIN Bundles /\ p \in Policies /\ Len(s) \in Nat
            /\ \E k \in 0..Len(s) :
                 /\ tx # NoTx => Progress(k)
                 /\ k = Len(s) <=> rest = <<>>
                 /\ k < Len(s) => /\ Head(rest) = s[k + 1] /\ OwnStatement(Head(rest), p)
                                  /\ Tail(rest) = SubSeq(s, k + 2, Len(s))
<1> DEFINE s == LoadStatements(batch)
           p == Bundles[batch].policy
           I == Inserted(batch)
           N == Len(RowsOfBundle(batch))
<1>1. batch \in DOMAIN Bundles /\ p \in Policies
  BY BundleFacts DEF SchedulerInv, SchedulerTyped
<1>2. PICK k \in 0..Len(s) : rest = SubSeq(s, k + 1, Len(s)) /\ (tx # NoTx => Progress(k))
  BY DEF SchedulerInv, Loading
<1>3. I \in Nat /\ N \in Nat /\ s \in Seq(StatementType) /\ Len(s) = I + N + 2
  BY <1>1, LoadFacts
<1>3a. s[1] = [op |-> "delete interrupts"] /\ s[I + 2] = [op |-> "delete slots"]
  BY <1>1, LoadFacts
<1>3b. \A n \in 2..(I + 1) : s[n] \in Insertions(batch)
  BY <1>1, LoadFacts
<1>3c. \A n \in 1..N : s[I + 2 + n] = [op |-> "slot", row |-> RowsOfBundle(batch)[n]]
  BY <1>1, LoadFacts
<1>3d. \A n \in 1..N : RowsOfBundle(batch)[n] \in SlotRows /\ RowsOfBundle(batch)[n].policy = p
  BY <1>1, RowsFacts
<1> HIDE DEF s, I, N
<1>4. ASSUME NEW n \in 1..Len(s) PROVE OwnStatement(s[n], p)
  <2>1. CASE n = 1
    BY <1>3a, <2>1 DEF OwnStatement
  <2>2. CASE n = I + 2
    BY <1>3a, <2>2 DEF OwnStatement
  <2>3. CASE n \in 2..(I + 1)
    <3>1. PICK i \in Interrupts(batch) : s[n] = [op |-> "interrupt", row |-> i]
      BY <1>3b, <2>3 DEF Insertions
    <3>2. i \in InterruptRow
      BY <1>1, InsertionsFinite
    <3>3. i.policy = p /\ i.status = 0
      BY DEF Interrupts
    <3> QED
      BY <3>1, <3>2, <3>3 DEF OwnStatement
  <2>4. CASE n > I + 2
    <3>1. n - I - 2 \in 1..N /\ I + 2 + (n - I - 2) = n
      BY <1>3, <2>4
    <3>2. s[n] = [op |-> "slot", row |-> RowsOfBundle(batch)[n - I - 2]]
      BY <1>3c, <3>1
    <3>3. RowsOfBundle(batch)[n - I - 2] \in SlotRows /\ RowsOfBundle(batch)[n - I - 2].policy = p
      BY <1>3d, <3>1
    <3> QED
      BY <3>2, <3>3 DEF OwnStatement
  <2> QED
    BY <1>3, <2>1, <2>2, <2>3, <2>4
<1>5. s \in Seq(StatementType) /\ Len(s) \in Nat
  BY <1>3
<1> HIDE DEF p
<1> DEFINE L == Len(s)
<1>9. /\ k \in 0..L /\ L \in Nat /\ rest = SubSeq(s, k + 1, L) /\ s \in Seq(StatementType)
      /\ L = Len(s)
  BY <1>2, <1>5
<1> HIDE DEF L
<1>10. /\ Len(rest) = L - k /\ rest \in Seq(StatementType)
       /\ \A n \in 1..(L - k) : rest[n] = s[k + n]
  BY <1>9
<1>6. k = Len(s) <=> rest = <<>>
  <2>1. \A T : \A r \in Seq(T) : r = <<>> <=> Len(r) = 0
    OBVIOUS
  <2>2. rest = <<>> <=> Len(rest) = 0
    BY <1>10, <2>1
  <2> QED
    BY <1>9, <1>10, <2>2
<1>7. k < Len(s) => /\ Head(rest) = s[k + 1] /\ k + 1 \in 1..Len(s)
                    /\ Tail(rest) = SubSeq(s, k + 2, Len(s))
  <2> SUFFICES ASSUME k < L PROVE /\ Head(rest) = s[k + 1] /\ k + 1 \in 1..L
                                  /\ Tail(rest) = SubSeq(s, k + 2, L)
    BY <1>9
  <2>1. k + 1 \in 1..L /\ 1 \in 1..(L - k) /\ rest # <<>>
    BY <1>6, <1>9
  <2>2. Head(rest) = s[k + 1]
    BY <1>10, <2>1
  <2>3. /\ Tail(rest) \in Seq(StatementType) /\ Len(Tail(rest)) = L - k - 1
        /\ \A n \in 1..(L - k - 1) : Tail(rest)[n] = rest[n + 1]
    BY <1>9, <1>10, <2>1
  <2> DEFINE u == SubSeq(s, k + 2, L)
  <2>4. /\ u \in Seq(StatementType) /\ Len(u) = L - k - 1
        /\ \A n \in 1..(L - k - 1) : u[n] = s[k + 1 + n]
    BY <1>9, <2>1
  <2> HIDE DEF u
  <2>5. \A n \in 1..(L - k - 1) : Tail(rest)[n] = u[n]
    <3> TAKE n \in 1..(L - k - 1)
    <3>1. n + 1 \in 1..(L - k) /\ k + (n + 1) = k + 1 + n
      BY <1>9
    <3>2. rest[n + 1] = s[k + (n + 1)]
      BY <1>10, <3>1
    <3> QED
      BY <2>3, <2>4, <3>1, <3>2
  <2>6. Tail(rest) = u
    BY <1>9, <2>3, <2>4, <2>5
  <2> QED
    BY <2>1, <2>2, <2>6 DEF u
<1>8. k < Len(s) => OwnStatement(Head(rest), p)
  BY <1>4, <1>7
<1> QED
  BY <1>1, <1>2, <1>5, <1>6, <1>7, <1>8 DEF s, p

(* What such a statement changes.                                                    *)
LEMMA StatementMoves ==
  ASSUME NEW statement, NEW p, OwnStatement(statement, p), db \in Tables
  PROVE  LET t == Executed(statement, p) IN
         /\ t \in Tables /\ t.ads = db.ads
         /\ \A q \in Policies \ {p} : /\ SlotsOf(t, q) = SlotsOf(db, q)
                                      /\ InterruptsOf(t, q) = InterruptsOf(db, q)
         /\ \A i \in t.interrupts :
              \/ i \in db.interrupts
              \/ statement.op = "interrupt" /\ i = statement.row /\ i.status = 0
<1> DEFINE t == Executed(statement, p)
<1>1. CASE statement = [op |-> "delete interrupts"]
  <2>1. /\ t \in Tables /\ t.ads = db.ads /\ t.slots = db.slots
        /\ t.interrupts \subseteq db.interrupts
        /\ \A q : q # p => InterruptsOf(t, q) = InterruptsOf(db, q)
    BY <1>1, InterruptsDeleted
  <2> HIDE DEF t
  <2> QED
    BY <2>1 DEF SlotsOf, t
<1>2. CASE statement = [op |-> "delete slots"]
  <2>1. /\ t \in Tables /\ t.ads = db.ads /\ t.interrupts = db.interrupts
        /\ \A q \in Policies \ {p} : SlotsOf(t, q) = SlotsOf(db, q)
    BY <1>2, SlotsDeleted
  <2> HIDE DEF t
  <2> QED
    BY <2>1 DEF InterruptsOf, t
<1>3. ASSUME NEW i \in InterruptRow, i.policy = p, i.status = 0,
             statement = [op |-> "interrupt", row |-> i]
      PROVE  /\ t \in Tables /\ t.ads = db.ads
             /\ \A q \in Policies \ {p} : /\ SlotsOf(t, q) = SlotsOf(db, q)
                                          /\ InterruptsOf(t, q) = InterruptsOf(db, q)
             /\ \A j \in t.interrupts :
                  \/ j \in db.interrupts
                  \/ statement.op = "interrupt" /\ j = statement.row /\ j.status = 0
  <2>1. /\ t \in Tables /\ t.ads = db.ads /\ t.slots = db.slots /\ t.interrupts = db.interrupts \cup {i}
        /\ \A q : q # p => InterruptsOf(t, q) = InterruptsOf(db, q)
    BY <1>3, InterruptInserted
  <2>2. statement.op = "interrupt" /\ statement.row = i
    BY <1>3
  <2> HIDE DEF t
  <2> QED
    BY <1>3, <2>1, <2>2 DEF SlotsOf
<1>4. ASSUME NEW r \in SlotRows, r.policy = p, statement = [op |-> "slot", row |-> r]
      PROVE  /\ t \in Tables /\ t.ads = db.ads /\ t.interrupts = db.interrupts
             /\ \A q \in Policies \ {p} : SlotsOf(t, q) = SlotsOf(db, q)
  BY <1>4, SlotInserted
<1> HIDE DEF t
<1>5. CASE \E r \in SlotRows : r.policy = p /\ statement = [op |-> "slot", row |-> r]
  BY <1>4, <1>5 DEF InterruptsOf, t
<1>6. CASE \E i \in InterruptRow : i.policy = p /\ i.status = 0 /\ statement = [op |-> "interrupt", row |-> i]
  BY <1>3, <1>6 DEF t
<1> QED
  BY <1>1, <1>2, <1>5, <1>6 DEF OwnStatement

(* LoadStatement as a whole.                                                         *)
LEMMA LoadMoves ==
  ASSUME SchedulerInv, LoadStatement
  PROVE  LET p == Bundles[batch].policy IN
         /\ db' \in Tables /\ db'.ads = db.ads
         /\ \A q \in Policies \ {p} : /\ SlotsOf(db', q) = SlotsOf(db, q)
                                      /\ InterruptsOf(db', q) = InterruptsOf(db, q)
         /\ \A i \in db'.interrupts :
              i \in db.interrupts \/ (i.status = 0 /\ <<i.policy, i.ad>> \notin finished')
         /\ finished' \ unmarked' \subseteq finished \ unmarked
<1> DEFINE p == Bundles[batch].policy
<1>1. db \in Tables /\ rest # <<>> /\ sync = "load"
  BY DEF SchedulerInv, SchedulerTyped, LoadStatement
<1>2. OwnStatement(Head(rest), p)
  <2> DEFINE L == Len(LoadStatements(batch))
  <2>1. L \in Nat /\ \E k \in 0..L : /\ k = L <=> rest = <<>>
                                     /\ k < L => OwnStatement(Head(rest), p)
    BY <1>1, NextStatement
  <2> HIDE DEF L
  <2> QED
    BY <1>1, <2>1
<1>3. db' = Executed(Head(rest), p)
  BY DEF LoadStatement
<1>4. /\ Head(rest).op = "interrupt" =>
           /\ finished' = finished \ {<<Head(rest).row.policy, Head(rest).row.ad>>}
           /\ unmarked' = unmarked \ {<<Head(rest).row.policy, Head(rest).row.ad>>}
      /\ Head(rest).op # "interrupt" => finished' = finished /\ unmarked' = unmarked
  BY DEF LoadStatement
<1> DEFINE st == Head(rest)
<1> HIDE DEF p, st
<1>5. /\ db' \in Tables /\ db'.ads = db.ads
      /\ \A q \in Policies \ {p} : /\ SlotsOf(db', q) = SlotsOf(db, q)
                                   /\ InterruptsOf(db', q) = InterruptsOf(db, q)
      /\ \A i \in db'.interrupts :
              \/ i \in db.interrupts
              \/ st.op = "interrupt" /\ i = st.row /\ i.status = 0
  BY <1>1, <1>2, <1>3, StatementMoves DEF st
<1>6. \A i \in db'.interrupts :
        i \in db.interrupts \/ (i.status = 0 /\ <<i.policy, i.ad>> \notin finished')
  BY <1>4, <1>5 DEF st
<1>7. finished' \ unmarked' \subseteq finished \ unmarked
  BY <1>4
<1> QED
  BY <1>5, <1>6, <1>7 DEF p

--------------------------------------------------------------------------------
(* Types.                                                                            *)
LEMMA EarlierTyped ==
  ASSUME SchedulerInv
  PROVE  /\ SchedulerTyped /\ FilesHonest /\ PlayedMarked /\ KeptWhole /\ AdsOnly /\ Loading
         /\ published \in DOMAIN Bundles /\ batch \in DOMAIN Bundles \cup {0}
         /\ db \in Tables /\ (tx # NoTx => tx \in Tables) /\ NoTx \notin Tables
         /\ db.ads \in [Ads -> Versions \cup {Absent}] /\ db.interrupts \in SUBSET InterruptRow
         /\ db.slots \in Seq(SlotRows)
         /\ file \in [Ads -> Versions \cup {Absent, Short}]
         /\ sync \in {"download", "writing"} => rest \in Seq(AdType) /\ rest # <<>>
         /\ rest \in Seq(AdType) /\ rest # <<>> =>
              /\ Head(rest).id \in Ads /\ Head(rest).md5 \in Versions /\ Tail(rest) \in Seq(AdType)
         /\ tx # NoTx => sync \notin {"ads", "schedule"}
<1>1. SchedulerTyped /\ FilesHonest /\ PlayedMarked /\ KeptWhole /\ AdsOnly /\ Loading
  BY DEF SchedulerInv
<1>2. /\ published \in DOMAIN Bundles /\ batch \in DOMAIN Bundles \cup {0}
      /\ db \in Tables /\ (tx # NoTx => tx \in Tables)
      /\ file \in [Ads -> Versions \cup {Absent, Short}]
      /\ sync \in {"download", "writing"} => rest \in Seq(AdType) /\ rest # <<>>
      /\ tx # NoTx => sync \notin {"ads", "schedule"}
  BY <1>1 DEF SchedulerTyped
<1>3. rest \in Seq(AdType) /\ rest # <<>> =>
        /\ Head(rest).id \in Ads /\ Head(rest).md5 \in Versions /\ Tail(rest) \in Seq(AdType)
  <2> SUFFICES ASSUME rest \in Seq(AdType), rest # <<>>
               PROVE  /\ Head(rest).id \in Ads /\ Head(rest).md5 \in Versions
                      /\ Tail(rest) \in Seq(AdType)
    OBVIOUS
  <2>1. Head(rest) \in AdType /\ Tail(rest) \in Seq(AdType)
    OBVIOUS
  <2> QED
    BY <2>1 DEF AdType
<1> QED
  BY <1>1, <1>2, <1>3, TablesFacts

(* Setting the marks.                                                                *)
LEMMA MarkMoves ==
  ASSUME SchedulerInv, MarkPlayed
  PROVE  /\ db' = [db EXCEPT !.interrupts = {MarksPlayed(i) : i \in @}]
         /\ db' \in Tables /\ db'.ads = db.ads
         /\ Marked(db)'
<1> DEFINE marked == {MarksPlayed(i) : i \in db.interrupts}
<1>1. db' = [db EXCEPT !.interrupts = marked]
  BY DEF MarkPlayed
<1>2. \A i \in InterruptRow : MarksPlayed(i) \in InterruptRow
  BY DEF MarksPlayed, InterruptRow
<1>3. marked \in SUBSET InterruptRow
  BY <1>2, EarlierTyped
<1> HIDE DEF marked
<1>4. db' \in Tables
  BY <1>1, <1>3, EarlierTyped, TablesFacts
<1>5. db'.interrupts = marked /\ db'.ads = db.ads
  BY <1>1, EarlierTyped DEF Tables
<1>6. ASSUME NEW i \in db.interrupts,
             <<MarksPlayed(i).policy, MarksPlayed(i).ad>> \in finished' \ unmarked'
      PROVE  MarksPlayed(i).status = 1
  <2>1. i \in InterruptRow
    BY EarlierTyped
  <2>2. CASE i.ad = item.ad
    BY <2>1, <2>2 DEF MarksPlayed, InterruptRow
  <2>3. CASE i.ad # item.ad
    <3>1. MarksPlayed(i) = i
      BY <2>3 DEF MarksPlayed
    <3>2. <<i.policy, i.ad>> \notin Ended(db)
      BY <2>3 DEF Ended
    <3>3. <<i.policy, i.ad>> \in finished \ unmarked
      BY <1>6, <3>1, <3>2 DEF MarkPlayed
    <3> QED
      BY <3>1, <3>3, EarlierTyped DEF PlayedMarked, Marked
  <2> QED
    BY <2>2, <2>3
<1>7. Marked(db)'
  BY <1>5, <1>6 DEF Marked, marked
<1> QED
  BY <1>4, <1>5, <1>7 DEF MarkPlayed

(* The load gives way to the play, and the play to nobody.                           *)
LEMMA MeetingMoves ==
  ASSUME SchedulerInv, LoadMeetsPlay
  PROVE  /\ UNCHANGED <<published, tx, file, lastSlot, index, batch, rest, torn, suspect>>
         /\ main' = "halted" /\ item' = NothingFound
         /\ sync \in {"ads", "schedule"} /\ sync' \in {"ads", "schedule"} /\ tx = NoTx
         /\ db' \in Tables /\ db'.ads = db.ads
         /\ UNCHANGED db \/ db' = [db EXCEPT !.interrupts = {MarksPlayed(i) : i \in @}]
         /\ PlayedMarked'
<1>1. /\ UNCHANGED <<published, tx, file, lastSlot, index, batch, rest, torn, suspect>>
      /\ main' = "halted" /\ item' = NothingFound
      /\ sync \in {"ads", "schedule"} /\ sync' \in {"ads", "schedule"}
  BY DEF LoadMeetsPlay
<1>2. tx = NoTx
  BY <1>1, EarlierTyped
<1>3. CASE MarkPlayed
  BY <1>1, <1>2, <1>3, MarkMoves DEF PlayedMarked
<1>4. CASE UNCHANGED db /\ finished' \ unmarked' \subseteq finished \ unmarked
  <2>1. db \in Tables /\ Marked(db)
    BY EarlierTyped DEF PlayedMarked
  <2>2. Marked(db)'
    BY <1>4, <2>1 DEF Marked
  <2> QED
    BY <1>1, <1>2, <1>4, <2>1, <2>2 DEF PlayedMarked
<1>5. MarkPlayed \/ (UNCHANGED db /\ finished' \ unmarked' \subseteq finished \ unmarked)
  BY DEF LoadMeetsPlay, LosesMarks
<1> QED
  BY <1>3, <1>4, <1>5

(* Every step keeps the types.                                                *)
LEMMA TypedStep == SchedulerInv /\ [SchedulerNext]_schedulerVars => SchedulerTyped'
<1> SUFFICES ASSUME SchedulerInv, [SchedulerNext]_schedulerVars PROVE SchedulerTyped'
  OBVIOUS
<1>1. SchedulerTyped /\ NoTx \notin Tables
  BY EarlierTyped
<1>2. CASE UNCHANGED schedulerVars
  BY <1>1, <1>2 DEF schedulerVars, memory, loader, marks, bounds, SchedulerTyped
<1>3. CASE Publish
  BY <1>1, <1>3 DEF Publish, memory, loader, marks, bounds, SchedulerTyped
<1>4. CASE SelectInterrupt
  <2>1. item' \in ItemType \cup {NothingFound}
    <3>1. CASE UNCHANGED item
      BY <1>1, <3>1 DEF SchedulerTyped
    <3>2. ASSUME NEW i \in TopInterrupts, item' = Plays(i) PROVE item' \in ItemType
      <4>1. i \in InterruptRow
        BY <3>2, EarlierTyped DEF TopInterrupts, PendingInterrupts
      <4>2. i.policy \in Nat /\ i.ad \in Ads
        BY <4>1, BundleFacts DEF InterruptRow
      <4> QED
        BY <3>2, <4>2 DEF Plays, ItemType
    <3> QED
      BY <1>4, <3>1, <3>2 DEF SelectInterrupt
  <2>2. main' \in {"start", "slots"}
    BY <1>4 DEF SelectInterrupt
  <2> QED
    BY <1>1, <1>4, <2>1, <2>2 DEF SelectInterrupt, loader, marks, bounds, SchedulerTyped
<1>5. CASE SelectSlot
  <2>1. PICK now \in Times : SelectSlotAt(now)
    BY <1>5 DEF SelectSlot
  <2> DEFINE pick == PickFromSlots(db.slots, Registered, now, lastSlot, index)
  <2>2. lastSlot \in Int /\ index \in Nat /\ db.slots \in Seq(SlotRows)
    BY <1>1, EarlierTyped DEF SchedulerTyped
  <2>3. pick \in PickType
    BY <2>2, PickTyped
  <2> HIDE DEF pick
  <2>4. /\ lastSlot' = pick.last /\ index' = pick.index /\ item' = pick.item
        /\ main' \in {"interrupt", "start"}
    BY <2>1 DEF SelectSlotAt, pick
  <2>5. lastSlot' \in Int /\ index' \in Nat /\ item' \in ItemType \cup {NothingFound}
    BY <2>3, <2>4 DEF PickType
  <2> QED
    BY <1>1, <2>1, <2>4, <2>5 DEF SelectSlotAt, loader, marks, bounds, SchedulerTyped
<1>6. CASE StartPlay
  <2>1. /\ db' \in Tables /\ (tx' = NoTx \/ tx' \in Tables)
        /\ tx' # NoTx => tx # NoTx
    BY <1>1, <1>6 DEF StartPlay, RollsLoadBack, SchedulerTyped
  <2> QED
    BY <1>1, <1>6, <2>1 DEF StartPlay, loader, bounds, SchedulerTyped
<1>7. CASE EndPlay
  <2>1. /\ db' \in Tables /\ (tx' = NoTx \/ tx' \in Tables)
        /\ tx' # NoTx => tx # NoTx
    <3>1. CASE RollsLoadBack
      BY <1>1, <3>1 DEF RollsLoadBack, SchedulerTyped
    <3>2. CASE tx = NoTx /\ tx' = NoTx /\ MarkPlayed
      BY <3>2, MarkMoves
    <3> QED
      BY <1>7, <3>1, <3>2 DEF EndPlay
  <2> QED
    BY <1>1, <1>7, <2>1 DEF EndPlay, loader, SchedulerTyped
<1>8. CASE CleanupStorage
  <2>1. PICK gone \in SUBSET Registered :
          /\ db' = [db EXCEPT !.ads = [a \in Ads |-> IF a \in gone THEN Absent ELSE @[a]]]
          /\ file' = [a \in Ads |-> IF a \in gone THEN Absent ELSE file[a]]
    BY <1>8 DEF CleanupStorage
  <2> DEFINE left == [a \in Ads |-> IF a \in gone THEN Absent ELSE db.ads[a]]
  <2>2. left \in [Ads -> Versions \cup {Absent}]
    BY EarlierTyped
  <2>3. db' = [db EXCEPT !.ads = left]
    BY <2>1
  <2> HIDE DEF left
  <2>4. db' \in Tables
    BY <2>2, <2>3, EarlierTyped, TablesFacts
  <2>5. file' \in [Ads -> Versions \cup {Absent, Short}]
    BY <2>1, EarlierTyped
  <2> QED
    BY <1>1, <1>8, <2>4, <2>5 DEF CleanupStorage, loader, bounds, SchedulerTyped
<1>9. CASE FetchAds
  <2>1. rest' \in Seq(AdType)
    BY <1>9, EarlierTyped, BundleFacts DEF FetchAds
  <2> QED
    BY <1>1, <1>9, <2>1 DEF FetchAds, memory, SchedulerTyped
<1>10. CASE FetchAdsFails
  BY <1>1, <1>10 DEF FetchAdsFails, memory, SchedulerTyped
<1>11. CASE StoreAd
  <2> DEFINE ad == Head(rest)
  <2>1. sync = "store" /\ rest \in Seq(AdType) /\ rest # <<>>
    BY <1>1, <1>11 DEF StoreAd, SchedulerTyped
  <2>2. ad.id \in Ads /\ ad.md5 \in Versions /\ Tail(rest) \in Seq(AdType)
    BY <2>1, EarlierTyped
  <2>3. db' \in Tables
    <3> DEFINE more == [db.ads EXCEPT ![ad.id] = ad.md5]
    <3>1. db' = [db EXCEPT !.ads = more]
      BY <1>11 DEF StoreAd
    <3>2. more \in [Ads -> Versions \cup {Absent}]
      BY <2>2, EarlierTyped
    <3> HIDE DEF more
    <3> QED
      BY <3>1, <3>2, EarlierTyped, TablesFacts
  <2>4. \/ sync' = "download" /\ rest' = rest
        \/ sync' = "store" /\ rest' = Tail(rest)
    BY <1>11, <2>1 DEF StoreAd
  <2>5. sync' \in {"download", "store"} /\ rest' \in Seq(AdType) /\ (sync' = "download" => rest' # <<>>)
    BY <2>1, <2>2, <2>4
  <2> QED
    BY <1>1, <1>11, <2>1, <2>3, <2>5 DEF StoreAd, memory, SchedulerTyped
<1>12. CASE OpenFile
  <2>1. file' \in [Ads -> Versions \cup {Absent, Short}]
    BY <1>12, EarlierTyped DEF OpenFile
  <2> QED
    BY <1>1, <1>12, <2>1 DEF OpenFile, memory, SchedulerTyped
<1>13. CASE DownloadFails
  <2>1. rest' \in Seq(AdType)
    BY <1>13, EarlierTyped DEF DownloadFails, AdDone
  <2> QED
    BY <1>1, <1>13, <2>1 DEF DownloadFails, AdDone, memory, SchedulerTyped
<1>14. CASE WriteFile
  <2>1. rest' \in Seq(AdType)
    BY <1>14, EarlierTyped DEF WriteFile, AdDone
  <2>2. file' \in [Ads -> Versions \cup {Absent, Short}]
    <3>1. CASE file' = file
      BY <3>1, EarlierTyped
    <3>2. ASSUME NEW b \in DOMAIN Bundles, NEW ad \in AdsOf(b), file' = [file EXCEPT ![Head(rest).id] = ad.md5]
          PROVE  file' \in [Ads -> Versions \cup {Absent, Short}]
      <4>1. ad.md5 \in Versions
        BY DEF Versions
      <4> QED
        BY <3>2, <4>1, EarlierTyped
    <3> QED
      BY <1>14, <3>1, <3>2 DEF WriteFile
  <2> QED
    BY <1>1, <1>14, <2>1, <2>2 DEF WriteFile, AdDone, memory, SchedulerTyped
<1>15. CASE CommitAds
  BY <1>1, <1>15 DEF CommitAds, memory, SchedulerTyped
<1>16. CASE FetchSchedule
  <2>1. 0 \notin DOMAIN Bundles
    BY BundleFacts
  <2> QED
    BY <1>1, <1>16, <2>1 DEF FetchSchedule, memory, SchedulerTyped
<1>17. CASE FetchScheduleFails
  BY <1>1, <1>17 DEF FetchScheduleFails, SyncEnds, SchedulerTyped
<1>18. CASE LoadStatement
  <2>1. db' \in Tables
    BY <1>18, LoadMoves
  <2> QED
    BY <1>1, <1>18, <2>1 DEF LoadStatement, memory, SchedulerTyped
<1>19. CASE CommitSchedule
  BY <1>1, <1>19 DEF CommitSchedule, SyncEnds, SchedulerTyped
<1>20. CASE Kill
  <2>1. db' \in Tables
    BY <1>1, <1>20 DEF Kill, SchedulerTyped
  <2> QED
    BY <1>1, <1>20, <2>1 DEF Kill, SchedulerTyped
<1>21. CASE LoadMeetsPlay
  BY <1>1, <1>21, MeetingMoves DEF SchedulerTyped
<1> QED
  BY <1>2, <1>3, <1>4, <1>5, <1>6, <1>7, <1>8, <1>9, <1>10, <1>11, <1>12, <1>13, <1>14, <1>15, <1>16,
     <1>17, <1>18, <1>19, <1>20, <1>21 DEF SchedulerNext, Main, Sync

--------------------------------------------------------------------------------
(* Files.                                                                            *)
LEMMA HonestFrame ==
  ASSUME FilesHonest, db'.ads = db.ads, file' = file, suspect \subseteq suspect',
         sync = "writing" => sync' = "writing" /\ rest' = rest
  PROVE  FilesHonest'
BY DEF FilesHonest

(* A rollback restores rows, and notes the ads of those that were replaced.          *)
LEMMA HonestUndone ==
  ASSUME FilesHonest, tx # NoTx, db' = tx, file' = file, suspect \cup RowsUndone \subseteq suspect',
         \A a \in Ads \ suspect' : sync = "writing" /\ Head(rest).id = a =>
                                     sync' = "writing" /\ Head(rest').id = a
  PROVE  FilesHonest'
<1> SUFFICES ASSUME NEW a \in Ads, tx.ads[a] # Absent, a \notin suspect'
             PROVE  file[a] \in {Absent, tx.ads[a]} \/ (sync' = "writing" /\ Head(rest').id = a)
  BY DEF FilesHonest
<1>1. tx.ads[a] = db.ads[a] /\ a \notin suspect
  BY DEF RowsUndone
<1>2. file[a] \in {Absent, db.ads[a]} \/ (sync = "writing" /\ Head(rest).id = a)
  BY <1>1 DEF FilesHonest
<1> QED
  BY <1>1, <1>2

(* Every step keeps the files honest.                                         *)
LEMMA HonestStep == SchedulerInv /\ [SchedulerNext]_schedulerVars => FilesHonest'
<1> SUFFICES ASSUME SchedulerInv, [SchedulerNext]_schedulerVars PROVE FilesHonest'
  OBVIOUS
<1>1. FilesHonest
  BY EarlierTyped
<1>2. CASE UNCHANGED schedulerVars
  BY <1>1, <1>2, HonestFrame DEF schedulerVars, loader, marks
<1>3. CASE Publish
  BY <1>1, <1>3, HonestFrame DEF Publish, loader, marks
<1>4. CASE SelectInterrupt
  BY <1>1, <1>4, HonestFrame DEF SelectInterrupt, loader, marks
<1>5. CASE SelectSlot
  BY <1>1, <1>5, HonestFrame DEF SelectSlot, SelectSlotAt, loader, marks
<1>6. CASE StartPlay
  <2>1. CASE RollsLoadBack
    BY <1>1, <1>6, <2>1, HonestUndone DEF RollsLoadBack, StartPlay, loader
  <2>2. CASE db' = db /\ suspect' = suspect
    BY <1>1, <1>6, <2>2, HonestFrame DEF StartPlay, loader
  <2> QED
    BY <1>6, <2>1, <2>2 DEF StartPlay
<1>7. CASE EndPlay
  <2>1. CASE RollsLoadBack
    BY <1>1, <1>7, <2>1, HonestUndone DEF RollsLoadBack, EndPlay, loader
  <2>2. CASE MarkPlayed /\ suspect' = suspect
    BY <1>1, <1>7, <2>2, MarkMoves, HonestFrame DEF EndPlay, loader
  <2> QED
    BY <1>7, <2>1, <2>2 DEF EndPlay
<1>8. CASE CleanupStorage
  <2>1. PICK gone \in SUBSET Registered :
          /\ db' = [db EXCEPT !.ads = [a \in Ads |-> IF a \in gone THEN Absent ELSE @[a]]]
          /\ file' = [a \in Ads |-> IF a \in gone THEN Absent ELSE file[a]]
          /\ suspect' = suspect \ gone
    BY <1>8 DEF CleanupStorage
  <2> DEFINE left == [a \in Ads |-> IF a \in gone THEN Absent ELSE db.ads[a]]
  <2>2. db' = [db EXCEPT !.ads = left]
    BY <2>1
  <2>3. \A a \in Ads : left[a] = IF a \in gone THEN Absent ELSE db.ads[a]
    OBVIOUS
  <2> HIDE DEF left
  <2>4. db'.ads = left
    BY <2>2, EarlierTyped DEF Tables
  <2>5. sync' = sync /\ rest' = rest
    BY <1>8 DEF CleanupStorage, loader
  <2> SUFFICES ASSUME NEW a \in Ads, db'.ads[a] # Absent, a \notin suspect'
               PROVE  file'[a] \in {Absent, db'.ads[a]} \/ (sync' = "writing" /\ Head(rest').id = a)
    BY DEF FilesHonest
  <2>6. a \notin gone /\ db'.ads[a] = db.ads[a] /\ file'[a] = file[a] /\ a \notin suspect
    BY <2>1, <2>3, <2>4
  <2> QED
    BY <1>1, <2>5, <2>6 DEF FilesHonest
<1>9. CASE FetchAds
  BY <1>1, <1>9, HonestFrame DEF FetchAds, marks
<1>10. CASE FetchAdsFails
  BY <1>1, <1>10, HonestFrame DEF FetchAdsFails, marks
<1>11. CASE StoreAd
  <2> DEFINE ad == Head(rest)
  <2>1. sync = "store" /\ rest \in Seq(AdType) /\ rest # <<>>
    BY <1>11, EarlierTyped DEF StoreAd, SchedulerTyped
  <2>2. ad.id \in Ads
    BY <2>1, EarlierTyped
  <2>3. db'.ads = [db.ads EXCEPT ![ad.id] = ad.md5]
    <3>1. db' = [db EXCEPT !.ads = [db.ads EXCEPT ![ad.id] = ad.md5]]
      BY <1>11 DEF StoreAd
    <3> QED
      BY <3>1, EarlierTyped DEF Tables
  <2>4. /\ file' = file
        /\ suspect' = IF file[ad.id] \in {Absent, ad.md5} THEN suspect ELSE suspect \cup {ad.id}
    BY <1>11 DEF StoreAd
  <2> HIDE DEF ad
  <2>5. \A a \in Ads : db'.ads[a] = IF a = ad.id THEN ad.md5 ELSE db.ads[a]
    BY <2>2, <2>3, EarlierTyped
  <2> SUFFICES ASSUME NEW a \in Ads, db'.ads[a] # Absent, a \notin suspect'
               PROVE  file'[a] \in {Absent, db'.ads[a]} \/ (sync' = "writing" /\ Head(rest').id = a)
    BY DEF FilesHonest
  <2>6. CASE a = ad.id
    BY <2>4, <2>5, <2>6
  <2>7. CASE a # ad.id
    BY <1>1, <2>1, <2>4, <2>5, <2>7 DEF FilesHonest
  <2> QED
    BY <2>6, <2>7
<1>12. CASE OpenFile
  <2> DEFINE id == Head(rest).id
  <2>1. /\ sync = "download" /\ sync' = "writing" /\ rest' = rest /\ db' = db /\ suspect' = suspect
        /\ file' = [file EXCEPT ![id] = Short]
    BY <1>12 DEF OpenFile, marks
  <2> SUFFICES ASSUME NEW a \in Ads, db.ads[a] # Absent, a \notin suspect, a # id
               PROVE  file'[a] \in {Absent, db.ads[a]}
    BY <2>1 DEF FilesHonest
  <2>2. file'[a] = file[a]
    BY <2>1, EarlierTyped
  <2> QED
    BY <1>1, <2>1, <2>2 DEF FilesHonest
<1>13. CASE DownloadFails
  BY <1>1, <1>13, HonestFrame DEF DownloadFails, marks
<1>14. CASE WriteFile
  <2> DEFINE id == Head(rest).id
  <2>1. sync = "writing" /\ db' = db
    BY <1>14 DEF WriteFile
  <2>2. id \in Ads
    BY <2>1, EarlierTyped
  <2> HIDE DEF id
  <2>3. \A a \in Ads \ {id} : db.ads[a] # Absent /\ a \notin suspect => file[a] \in {Absent, db.ads[a]}
    BY <1>1 DEF FilesHonest, id
  <2>4. CASE file' = file /\ suspect' = suspect \cup {id}
    BY <2>1, <2>3, <2>4 DEF FilesHonest
  <2>5. ASSUME NEW b \in DOMAIN Bundles, NEW ad \in AdsOf(b), file' = [file EXCEPT ![id] = ad.md5],
               suspect' = IF db.ads[id] \in {Absent, ad.md5} THEN suspect ELSE suspect \cup {id}
        PROVE  FilesHonest'
    <3>1. \A a \in Ads : file'[a] = IF a = id THEN ad.md5 ELSE file[a]
      BY <2>5, <2>2, EarlierTyped
    <3> SUFFICES ASSUME NEW a \in Ads, db.ads[a] # Absent, a \notin suspect'
                 PROVE  file'[a] \in {Absent, db.ads[a]}
      BY <2>1 DEF FilesHonest
    <3>2. a \notin suspect
      BY <2>5
    <3>3. CASE a = id
      BY <2>5, <3>1, <3>3
    <3>4. CASE a # id
      BY <2>3, <3>1, <3>2, <3>4
    <3> QED
      BY <3>3, <3>4
  <2> QED
    BY <1>14, <2>4, <2>5 DEF WriteFile, id
<1>15. CASE CommitAds
  BY <1>1, <1>15, HonestFrame DEF CommitAds, marks
<1>16. CASE FetchSchedule
  BY <1>1, <1>16, HonestFrame DEF FetchSchedule, marks
<1>17. CASE FetchScheduleFails
  BY <1>1, <1>17, HonestFrame DEF FetchScheduleFails, SyncEnds, marks
<1>18. CASE LoadStatement
  <2>1. db'.ads = db.ads
    BY <1>18, LoadMoves
  <2> QED
    BY <1>1, <1>18, <2>1, HonestFrame DEF LoadStatement
<1>19. CASE CommitSchedule
  BY <1>1, <1>19, HonestFrame DEF CommitSchedule, SyncEnds
<1>20. CASE Kill
  <2>1. /\ suspect' = suspect \cup RowsUndone \cup {a \in Ads : sync = "writing" /\ a = Head(rest).id}
        /\ file' = file /\ sync' = "ads"
    BY <1>20 DEF Kill
  <2>2. CASE tx # NoTx
    <3>1. db' = tx
      BY <1>20, <2>2 DEF Kill
    <3>2. \A a \in Ads \ suspect' : ~(sync = "writing" /\ Head(rest).id = a)
      BY <2>1
    <3> QED
      BY <1>1, <2>1, <2>2, <3>1, <3>2, HonestUndone
  <2>3. CASE tx = NoTx
    <3>1. db' = db
      BY <1>20, <2>3 DEF Kill
    <3> QED
      BY <1>1, <2>1, <3>1 DEF FilesHonest
  <2> QED
    BY <2>2, <2>3
<1>21. CASE LoadMeetsPlay
  BY <1>1, <1>21, HonestFrame, MeetingMoves
<1> QED
  BY <1>2, <1>3, <1>4, <1>5, <1>6, <1>7, <1>8, <1>9, <1>10, <1>11, <1>12, <1>13, <1>14, <1>15, <1>16,
     <1>17, <1>18, <1>19, <1>20, <1>21 DEF SchedulerNext, Main, Sync

--------------------------------------------------------------------------------
(* Interrupts that were played.                                                      *)
LEMMA MarkedFrame ==
  ASSUME PlayedMarked, db'.interrupts = db.interrupts,
         finished' \ unmarked' \subseteq finished \ unmarked,
         tx' # NoTx => tx' = tx \/ tx' = db
  PROVE  PlayedMarked'
BY DEF PlayedMarked, Marked

(* A commit brings no unmarked interrupt back.                                *)
LEMMA MarkedUndone ==
  ASSUME PlayedMarked, tx # NoTx, db' = tx, tx' = NoTx,
         finished' \ unmarked' \subseteq finished \ unmarked
  PROVE  PlayedMarked'
BY DEF PlayedMarked, Marked

(* Every step keeps the played interrupts marked.                             *)
LEMMA MarkedStep == SchedulerInv /\ [SchedulerNext]_schedulerVars => PlayedMarked'
<1> SUFFICES ASSUME SchedulerInv, [SchedulerNext]_schedulerVars PROVE PlayedMarked'
  OBVIOUS
<1>1. PlayedMarked
  BY EarlierTyped
<1>2. CASE UNCHANGED schedulerVars
  BY <1>1, <1>2, MarkedFrame DEF schedulerVars, marks
<1>3. CASE Publish
  BY <1>1, <1>3, MarkedFrame DEF Publish, marks
<1>4. CASE SelectInterrupt
  BY <1>1, <1>4, MarkedFrame DEF SelectInterrupt, marks
<1>5. CASE SelectSlot
  BY <1>1, <1>5, MarkedFrame DEF SelectSlot, SelectSlotAt, marks
<1>6. CASE StartPlay
  <2>1. CASE RollsLoadBack
    BY <1>1, <1>6, <2>1, MarkedUndone DEF RollsLoadBack, StartPlay
  <2>2. CASE db' = db /\ tx' = tx
    BY <1>1, <1>6, <2>2, MarkedFrame DEF StartPlay
  <2> QED
    BY <1>6, <2>1, <2>2 DEF StartPlay
<1>7. CASE EndPlay
  <2>1. CASE RollsLoadBack /\ LosesMarks(tx)
    <3>1. finished' \ unmarked' \subseteq finished \ unmarked
      BY <2>1 DEF LosesMarks
    <3> QED
      BY <1>1, <2>1, <3>1, MarkedUndone DEF RollsLoadBack
  <2>2. CASE tx = NoTx /\ tx' = tx /\ MarkPlayed
    BY <2>2, MarkMoves DEF PlayedMarked
  <2> QED
    BY <1>7, <2>1, <2>2 DEF EndPlay
<1>8. CASE CleanupStorage
  <2>1. PICK gone \in SUBSET Registered :
          db' = [db EXCEPT !.ads = [a \in Ads |-> IF a \in gone THEN Absent ELSE @[a]]]
    BY <1>8 DEF CleanupStorage
  <2> DEFINE left == [a \in Ads |-> IF a \in gone THEN Absent ELSE db.ads[a]]
  <2>2. db' = [db EXCEPT !.ads = left]
    BY <2>1
  <2> HIDE DEF left
  <2>3. db'.interrupts = db.interrupts
    BY <2>2, EarlierTyped DEF Tables
  <2> QED
    BY <1>1, <1>8, <2>3, MarkedFrame DEF CleanupStorage
<1>9. CASE FetchAds
  BY <1>1, <1>9, MarkedFrame DEF FetchAds, marks
<1>10. CASE FetchAdsFails
  BY <1>1, <1>10, MarkedFrame DEF FetchAdsFails, marks
<1>11. CASE StoreAd
  <2>1. db' = [db EXCEPT !.ads = [db.ads EXCEPT ![Head(rest).id] = Head(rest).md5]]
    BY <1>11 DEF StoreAd
  <2>2. db'.interrupts = db.interrupts
    BY <2>1, EarlierTyped DEF Tables
  <2> QED
    BY <1>1, <1>11, <2>2, MarkedFrame DEF StoreAd
<1>12. CASE OpenFile
  BY <1>1, <1>12, MarkedFrame DEF OpenFile, marks
<1>13. CASE DownloadFails
  BY <1>1, <1>13, MarkedFrame DEF DownloadFails, marks
<1>14. CASE WriteFile
  BY <1>1, <1>14, MarkedFrame DEF WriteFile
<1>15. CASE CommitAds
  BY <1>1, <1>15, MarkedFrame DEF CommitAds, marks
<1>16. CASE FetchSchedule
  BY <1>1, <1>16, MarkedFrame DEF FetchSchedule, marks
<1>17. CASE FetchScheduleFails
  BY <1>1, <1>17, MarkedFrame DEF FetchScheduleFails, marks
<1>18. CASE LoadStatement
  <2>1. /\ \A i \in db'.interrupts :
             i \in db.interrupts \/ (i.status = 0 /\ <<i.policy, i.ad>> \notin finished')
        /\ finished' \ unmarked' \subseteq finished \ unmarked
    BY <1>18, LoadMoves
  <2>2. tx' = tx
    BY <1>18 DEF LoadStatement
  <2> QED
    BY <1>1, <2>1, <2>2 DEF PlayedMarked, Marked
<1>19. CASE CommitSchedule
  BY <1>1, <1>19, MarkedFrame DEF CommitSchedule
<1>20. CASE Kill
  <2>1. CASE tx # NoTx
    BY <1>1, <1>20, <2>1, MarkedUndone DEF Kill
  <2>2. CASE tx = NoTx
    BY <1>1, <1>20, <2>2, MarkedFrame DEF Kill
  <2> QED
    BY <2>1, <2>2
<1>21. CASE LoadMeetsPlay
  BY <1>21, MeetingMoves
<1> QED
  BY <1>2, <1>3, <1>4, <1>5, <1>6, <1>7, <1>8, <1>9, <1>10, <1>11, <1>12, <1>13, <1>14, <1>15, <1>16,
     <1>17, <1>18, <1>19, <1>20, <1>21 DEF SchedulerNext, Main, Sync

--------------------------------------------------------------------------------
(* The tables of a schedule.                                                         *)
LEMMA KeptFrame ==
  ASSUME KeptWhole, torn \subseteq torn',
         \A p \in Policies \ torn : /\ SlotsOf(Kept', p) = SlotsOf(Kept, p)
                                    /\ InterruptsOf(Kept', p) = InterruptsOf(Kept, p)
  PROVE  KeptWhole'
<1> SUFFICES ASSUME NEW p \in Policies \ torn' PROVE OneLoad(Kept', p)
  BY DEF KeptWhole
<1>1. OneLoad(Kept, p) /\ p \in Policies \ torn
  BY DEF KeptWhole
<1> QED
  BY <1>1 DEF OneLoad

(* Rows of the ads are none of a schedule.                                           *)
LEMMA KeptSame ==
  ASSUME KeptWhole, torn \subseteq torn',
         Kept'.slots = Kept.slots, Kept'.interrupts = Kept.interrupts
  PROVE  KeptWhole'
<1>1. \A p : /\ SlotsOf(Kept', p) = SlotsOf(Kept, p)
             /\ InterruptsOf(Kept', p) = InterruptsOf(Kept, p)
  BY DEF SlotsOf, InterruptsOf
<1> QED
  BY <1>1, KeptFrame

(* Setting statuses changes nothing that a load has left.                            *)
LEMMA PlayedSame ==
  ASSUME SchedulerInv, db' = [db EXCEPT !.interrupts = {MarksPlayed(i) : i \in @}]
  PROVE  \A p : SlotsOf(db', p) = SlotsOf(db, p) /\ InterruptsOf(db', p) = InterruptsOf(db, p)
<1> DEFINE marked == {MarksPlayed(i) : i \in db.interrupts}
           Zero(i) == [i EXCEPT !.status = 0]
<1>1. db' = [db EXCEPT !.interrupts = marked]
  OBVIOUS
<1> HIDE DEF marked
<1>2. db'.interrupts = marked /\ db'.slots = db.slots
  BY <1>1, EarlierTyped DEF Tables
<1>3. \A i \in InterruptRow : MarksPlayed(i).policy = i.policy /\ Zero(MarksPlayed(i)) = Zero(i)
  BY DEF MarksPlayed, InterruptRow
<1>4. db.interrupts \in SUBSET InterruptRow
  BY EarlierTyped
<1>5. \A p : InterruptsOf(db', p) = {Zero(i) : i \in {j \in marked : j.policy = p}}
  BY <1>2 DEF InterruptsOf
<1>6. \A p : InterruptsOf(db, p) = {Zero(i) : i \in {j \in db.interrupts : j.policy = p}}
  BY DEF InterruptsOf
<1> HIDE DEF Zero
<1>7. ASSUME NEW p
      PROVE  {Zero(i) : i \in {j \in marked : j.policy = p}}
               = {Zero(i) : i \in {j \in db.interrupts : j.policy = p}}
  BY <1>3, <1>4 DEF marked
<1> QED
  BY <1>2, <1>5, <1>6, <1>7 DEF SlotsOf

(* COMMIT finds the tables of the policy as the load has left them.                  *)
LEMMA LoadedWhole ==
  ASSUME SchedulerInv, sync = "load", rest = <<>>, tx # NoTx
  PROVE  LET p == Bundles[batch].policy IN
         /\ OneLoad(db, p)
         /\ \A q \in Policies \ {p} : /\ SlotsOf(db, q) = SlotsOf(tx, q)
                                      /\ InterruptsOf(db, q) = InterruptsOf(tx, q)
<1> DEFINE s == LoadStatements(batch)
           p == Bundles[batch].policy
           I == Inserted(batch)
           N == Len(RowsOfBundle(batch))
           L == Len(s)
<1>1. batch \in DOMAIN Bundles /\ Progress(L)
  BY NextStatement
<1>2. I \in Nat /\ N \in Nat /\ L = I + N + 2
  BY <1>1, LoadFacts
<1>3. /\ \A n \in 2..(I + 1) : s[n] \in Insertions(batch)
      /\ \A t \in Insertions(batch) : \E n \in 2..(I + 1) : s[n] = t
  BY <1>1, LoadFacts
<1>4. /\ \A q \in Policies \ {p} : /\ SlotsOf(db, q) = SlotsOf(tx, q)
                                   /\ InterruptsOf(db, q) = InterruptsOf(tx, q)
      /\ L >= 1 => InterruptsOf(db, p) = LoadRows(batch, L)
      /\ L >= I + 2 => SlotsOf(db, p) = SubSeq(RowsOfBundle(batch), 1, L - I - 2)
  BY <1>1 DEF Progress
<1>4a. LoadRows(batch, L) = {s[n].row : n \in 2..(IF L <= I THEN L ELSE I + 1)}
  BY DEF LoadRows
<1>5. SubSeq(RowsOfBundle(batch), 1, N) = RowsOfBundle(batch)
  <2> DEFINE r == RowsOfBundle(batch)
  <2>1. r \in Seq(SlotRows) /\ N = Len(r)
    BY <1>1, RowsFacts
  <2> HIDE DEF r, N
  <2> QED
    BY <2>1 DEF r
<1> HIDE DEF s, I, N, L
<1>6. L >= 1 /\ L >= I + 2 /\ ~(L <= I) /\ L - I - 2 = N
  BY <1>2
<1>7. SlotsOf(db, p) = RowsOfBundle(batch)
  BY <1>4, <1>5, <1>6
<1>8. InterruptsOf(db, p) = Interrupts(batch)
  <2>1. InterruptsOf(db, p) = {s[n].row : n \in 2..(I + 1)}
    BY <1>4, <1>4a, <1>6
  <2>2. \A n \in 2..(I + 1) : s[n].row \in Interrupts(batch)
    BY <1>3 DEF Insertions
  <2>3. ASSUME NEW i \in Interrupts(batch) PROVE \E n \in 2..(I + 1) : s[n].row = i
    <3> DEFINE t == [op |-> "interrupt", row |-> i]
    <3>1. t \in Insertions(batch) /\ t.row = i
      BY DEF Insertions
    <3> HIDE DEF t
    <3> QED
      BY <1>3, <3>1
  <2> QED
    BY <2>1, <2>2, <2>3
<1>9. OneLoad(db, p)
  BY <1>1, <1>7, <1>8 DEF OneLoad
<1> QED
  BY <1>4, <1>9 DEF p

(* Every step keeps the tables whole.                                         *)
LEMMA KeptStep == SchedulerInv /\ [SchedulerNext]_schedulerVars => KeptWhole'
<1> SUFFICES ASSUME SchedulerInv, [SchedulerNext]_schedulerVars PROVE KeptWhole'
  OBVIOUS
<1>1. KeptWhole /\ NoTx \notin Tables /\ db \in Tables
  BY EarlierTyped
<1> DEFINE Quiet == UNCHANGED <<db, tx, torn>>
<1>2. ASSUME Quiet PROVE KeptWhole'
  <2>1. Kept' = Kept /\ torn' = torn
    BY <1>2 DEF Kept
  <2> QED
    BY <1>1, <2>1, KeptSame
<1>3. CASE UNCHANGED schedulerVars
  BY <1>2, <1>3 DEF schedulerVars, marks
<1>4. CASE Publish
  BY <1>2, <1>4 DEF Publish, marks
<1>5. CASE SelectInterrupt
  BY <1>2, <1>5 DEF SelectInterrupt, marks
<1>6. CASE SelectSlot
  BY <1>2, <1>6 DEF SelectSlot, SelectSlotAt, marks
<1>7. CASE RollsLoadBack
  <2>1. Kept' = Kept /\ torn \subseteq torn'
    BY <1>7 DEF Kept, RollsLoadBack
  <2> QED
    BY <1>1, <2>1, KeptSame
<1>8. CASE StartPlay
  BY <1>2, <1>7, <1>8 DEF StartPlay
<1>9. CASE EndPlay
  <2>1. CASE /\ tx = NoTx /\ tx' = tx /\ torn' = torn
             /\ db' = [db EXCEPT !.interrupts = {MarksPlayed(i) : i \in @}]
    <3>1. \A p : SlotsOf(db', p) = SlotsOf(db, p) /\ InterruptsOf(db', p) = InterruptsOf(db, p)
      BY <2>1, PlayedSame
    <3>2. Kept' = db' /\ Kept = db
      BY <2>1 DEF Kept
    <3> QED
      BY <1>1, <2>1, <3>1, <3>2, KeptFrame
  <2> QED
    BY <1>7, <1>9, <2>1 DEF EndPlay, MarkPlayed
<1>10. CASE CleanupStorage
  <2>1. PICK gone \in SUBSET Registered :
          db' = [db EXCEPT !.ads = [a \in Ads |-> IF a \in gone THEN Absent ELSE @[a]]]
    BY <1>10 DEF CleanupStorage
  <2> DEFINE left == [a \in Ads |-> IF a \in gone THEN Absent ELSE db.ads[a]]
  <2>2. db' = [db EXCEPT !.ads = left]
    BY <2>1
  <2> HIDE DEF left
  <2>3. db'.interrupts = db.interrupts /\ db'.slots = db.slots /\ tx' = tx /\ torn' = torn
    BY <1>10, <2>2, EarlierTyped DEF Tables, CleanupStorage
  <2>4. Kept'.slots = Kept.slots /\ Kept'.interrupts = Kept.interrupts
    BY <2>3 DEF Kept
  <2> QED
    BY <1>1, <2>3, <2>4, KeptSame
<1>11. CASE FetchAds \/ FetchSchedule
  <2>1. tx = NoTx /\ tx' = db /\ torn' = torn /\ db # NoTx
    BY <1>1, <1>11, EarlierTyped DEF FetchAds, FetchSchedule, marks
  <2>2. Kept' = Kept
    BY <2>1 DEF Kept
  <2> QED
    BY <1>1, <2>1, <2>2, KeptSame
<1>12. CASE FetchAdsFails
  BY <1>2, <1>12 DEF FetchAdsFails, marks
<1>13. CASE StoreAd
  <2>1. db' = [db EXCEPT !.ads = [db.ads EXCEPT ![Head(rest).id] = Head(rest).md5]]
    BY <1>13 DEF StoreAd
  <2>2. db'.interrupts = db.interrupts /\ db'.slots = db.slots /\ tx' = tx /\ torn' = torn
    BY <1>13, <2>1, EarlierTyped DEF Tables, StoreAd
  <2>3. Kept'.slots = Kept.slots /\ Kept'.interrupts = Kept.interrupts
    BY <2>2 DEF Kept
  <2> QED
    BY <1>1, <2>2, <2>3, KeptSame
<1>14. CASE OpenFile
  BY <1>2, <1>14 DEF OpenFile, marks
<1>15. CASE DownloadFails
  BY <1>2, <1>15 DEF DownloadFails, marks
<1>16. CASE WriteFile
  BY <1>2, <1>16 DEF WriteFile
<1>17. CASE CommitAds
  <2>1. /\ sync = "store" /\ tx' = NoTx /\ db' = db /\ torn' = torn
    BY <1>17 DEF CommitAds, marks
  <2>2. tx # NoTx => tx.slots = db.slots /\ tx.interrupts = db.interrupts
    BY <2>1, EarlierTyped DEF AdsOnly
  <2>3. Kept'.slots = Kept.slots /\ Kept'.interrupts = Kept.interrupts
    BY <2>1, <2>2 DEF Kept
  <2> QED
    BY <1>1, <2>1, <2>3, KeptSame
<1>18. CASE FetchScheduleFails
  BY <1>2, <1>18 DEF FetchScheduleFails, marks
<1>19. CASE LoadStatement
  <2>1. tx' = tx /\ torn' = torn /\ sync = "load"
    BY <1>19 DEF LoadStatement
  <2>2. CASE tx # NoTx
    <3>1. Kept' = Kept
      BY <2>1, <2>2 DEF Kept
    <3> QED
      BY <1>1, <2>1, <3>1, KeptSame
  <2>3. CASE tx = NoTx
    <3> DEFINE p == Bundles[batch].policy
    <3>1. p \in torn
      BY <2>1, <2>3, EarlierTyped DEF Loading
    <3>2. \A q \in Policies \ {p} : /\ SlotsOf(db', q) = SlotsOf(db, q)
                                    /\ InterruptsOf(db', q) = InterruptsOf(db, q)
      BY <1>19, LoadMoves
    <3> HIDE DEF p
    <3>3. Kept' = db' /\ Kept = db
      BY <2>1, <2>3 DEF Kept
    <3> QED
      BY <1>1, <2>1, <3>1, <3>2, <3>3, KeptFrame
  <2> QED
    BY <2>2, <2>3
<1>20. CASE CommitSchedule
  <2>1. sync = "load" /\ rest = <<>> /\ db' = db /\ tx' = NoTx
    BY <1>20 DEF CommitSchedule
  <2>2. CASE tx = NoTx
    BY <1>2, <1>20, <2>2 DEF CommitSchedule
  <2>3. CASE tx # NoTx
    <3> DEFINE p == Bundles[batch].policy
    <3>1. torn' = torn \ {p}
      BY <1>20, <2>3 DEF CommitSchedule
    <3>2. /\ OneLoad(db, p)
          /\ \A q \in Policies \ {p} : /\ SlotsOf(db, q) = SlotsOf(tx, q)
                                       /\ InterruptsOf(db, q) = InterruptsOf(tx, q)
      BY <2>1, <2>3, LoadedWhole
    <3> HIDE DEF p
    <3>3. Kept' = db /\ Kept = tx
      BY <2>1, <2>3 DEF Kept
    <3> SUFFICES ASSUME NEW q \in Policies \ torn' PROVE OneLoad(db, q)
      BY <3>3 DEF KeptWhole
    <3>4. CASE q = p
      BY <3>2, <3>4
    <3>5. CASE q # p
      <4>1. OneLoad(tx, q)
        BY <1>1, <3>1, <3>3, <3>5 DEF KeptWhole
      <4> QED
        BY <3>2, <3>5, <4>1 DEF OneLoad
    <3> QED
      BY <3>4, <3>5
  <2> QED
    BY <2>2, <2>3
<1>21. CASE Kill
  <2>1. Kept' = Kept /\ torn' = torn
    BY <1>21 DEF Kept, Kill
  <2> QED
    BY <1>1, <2>1, KeptSame
<1>22. CASE LoadMeetsPlay
  <2>1. tx = NoTx /\ tx' = tx /\ torn' = torn
    BY <1>22, MeetingMoves
  <2>2. CASE UNCHANGED db
    BY <1>2, <2>1, <2>2
  <2>3. CASE db' = [db EXCEPT !.interrupts = {MarksPlayed(i) : i \in @}]
    <3>1. \A p : SlotsOf(db', p) = SlotsOf(db, p) /\ InterruptsOf(db', p) = InterruptsOf(db, p)
      BY <2>3, PlayedSame
    <3>2. Kept' = db' /\ Kept = db
      BY <2>1 DEF Kept
    <3> QED
      BY <1>1, <2>1, <3>1, <3>2, KeptFrame
  <2> QED
    BY <1>22, <2>2, <2>3, MeetingMoves
<1> QED
  BY <1>3, <1>4, <1>5, <1>6, <1>8, <1>9, <1>10, <1>11, <1>12, <1>13, <1>14, <1>15, <1>16,
     <1>17, <1>18, <1>19, <1>20, <1>21, <1>22 DEF SchedulerNext, Main, Sync

(* Every step keeps loadAds' transaction off the schedules.                   *)
LEMMA AdsOnlyStep == SchedulerInv /\ [SchedulerNext]_schedulerVars => AdsOnly'
<1> SUFFICES ASSUME SchedulerInv, [SchedulerNext]_schedulerVars, tx' # NoTx, sync' # "load"
             PROVE  tx'.slots = db'.slots /\ tx'.interrupts = db'.interrupts
  BY DEF AdsOnly
<1>1. /\ tx # NoTx /\ sync # "load" => tx.slots = db.slots /\ tx.interrupts = db.interrupts
      /\ tx # NoTx => sync \notin {"ads", "schedule"}
  BY EarlierTyped DEF AdsOnly
<1>2. ASSUME UNCHANGED <<db, tx>>, sync' = "load" <=> sync = "load"
      PROVE  tx'.slots = db'.slots /\ tx'.interrupts = db'.interrupts
  BY <1>1, <1>2
<1>3. CASE UNCHANGED schedulerVars
  BY <1>2, <1>3 DEF schedulerVars, loader
<1>4. CASE Publish \/ SelectInterrupt \/ SelectSlot
  BY <1>2, <1>4 DEF Publish, SelectInterrupt, SelectSlot, SelectSlotAt, loader
<1>5. CASE StartPlay \/ EndPlay
  <2>1. UNCHANGED <<db, tx, sync>>
    BY <1>5, <1>1 DEF StartPlay, EndPlay, RollsLoadBack, loader
  <2> QED
    BY <1>2, <2>1
<1>6. CASE CleanupStorage
  <2>1. PICK gone \in SUBSET Registered :
          db' = [db EXCEPT !.ads = [a \in Ads |-> IF a \in gone THEN Absent ELSE @[a]]]
    BY <1>6 DEF CleanupStorage
  <2> DEFINE left == [a \in Ads |-> IF a \in gone THEN Absent ELSE db.ads[a]]
  <2>2. db' = [db EXCEPT !.ads = left]
    BY <2>1
  <2> HIDE DEF left
  <2>3. db'.interrupts = db.interrupts /\ db'.slots = db.slots /\ tx' = tx /\ sync' = sync
    BY <1>6, <2>2, EarlierTyped DEF Tables, CleanupStorage, loader
  <2> QED
    BY <1>1, <2>3
<1>7. CASE FetchAds \/ FetchSchedule
  BY <1>7 DEF FetchAds, FetchSchedule
<1>8. CASE FetchAdsFails \/ FetchScheduleFails
  BY <1>1, <1>8 DEF FetchAdsFails, FetchScheduleFails
<1>9. CASE StoreAd
  <2>1. db' = [db EXCEPT !.ads = [db.ads EXCEPT ![Head(rest).id] = Head(rest).md5]]
    BY <1>9 DEF StoreAd
  <2>2. db'.interrupts = db.interrupts /\ db'.slots = db.slots /\ tx' = tx /\ sync = "store"
    BY <1>9, <2>1, EarlierTyped DEF Tables, StoreAd
  <2> QED
    BY <1>1, <2>2
<1>10. CASE OpenFile \/ DownloadFails \/ WriteFile
  BY <1>1, <1>10 DEF OpenFile, DownloadFails, WriteFile
<1>11. CASE CommitAds \/ CommitSchedule \/ Kill
  BY <1>11 DEF CommitAds, CommitSchedule, Kill
<1>12. CASE LoadStatement
  BY <1>12 DEF LoadStatement
<1>13. CASE LoadMeetsPlay
  BY <1>13, MeetingMoves
<1> QED
  BY <1>3, <1>4, <1>5, <1>6, <1>7, <1>8, <1>9, <1>10, <1>11, <1>12, <1>13 DEF SchedulerNext, Main, Sync

--------------------------------------------------------------------------------
(* The progress of a load.                                                           *)
LEMMA LoadingFrame ==
  ASSUME Loading, sync' = sync, batch' = batch, rest' = rest, torn \subseteq torn',
         (db'.slots = db.slots /\ db'.interrupts = db.interrupts) \/ tx' = NoTx, tx' = tx \/ tx' = NoTx,
         sync = "load" /\ tx' = NoTx => Bundles[batch].policy \in torn'
  PROVE  Loading'
<1> SUFFICES ASSUME sync = "load"
             PROVE  /\ tx' = NoTx => Bundles[batch].policy \in torn'
                    /\ \E k \in 0..Len(LoadStatements(batch)) :
                         /\ rest = SubSeq(LoadStatements(batch), k + 1, Len(LoadStatements(batch)))
                         /\ tx' # NoTx => Progress(k)'
  BY DEF Loading
<1>1. PICK k \in 0..Len(LoadStatements(batch)) :
        /\ rest = SubSeq(LoadStatements(batch), k + 1, Len(LoadStatements(batch)))
        /\ tx # NoTx => Progress(k)
  BY DEF Loading
<1>2. tx' # NoTx => Progress(k)'
  <2> SUFFICES ASSUME tx' # NoTx PROVE Progress(k)'
    OBVIOUS
  <2>1. tx' = tx /\ db'.slots = db.slots /\ db'.interrupts = db.interrupts /\ Progress(k)
    BY <1>1
  <2>2. \A q : SlotsOf(db', q) = SlotsOf(db, q) /\ InterruptsOf(db', q) = InterruptsOf(db, q)
    BY <2>1 DEF SlotsOf, InterruptsOf
  <2> QED
    BY <2>1, <2>2 DEF Progress
<1> QED
  BY <1>1, <1>2

(* One more statement of loadSchedule.                                               *)
LEMMA OneMore ==
  ASSUME SchedulerInv, LoadStatement, tx # NoTx, NEW k \in 0..(Len(LoadStatements(batch)) - 1),
         Progress(k), Head(rest) = LoadStatements(batch)[k + 1]
  PROVE  Progress(k + 1)'
<1> DEFINE s == LoadStatements(batch)
           p == Bundles[batch].policy
           I == Inserted(batch)
           N == Len(RowsOfBundle(batch))
           Upto(m) == LoadRows(batch, m)
<1>1. sync = "load" /\ tx' = tx /\ batch' = batch /\ db' = Executed(s[k + 1], p)
  BY DEF LoadStatement
<1>2. batch \in DOMAIN Bundles /\ db \in Tables
  BY <1>1, NextStatement, EarlierTyped
<1>3. I \in Nat /\ N \in Nat /\ Len(s) = I + N + 2 /\ k \in Nat /\ k < Len(s)
  <2> DEFINE L == Len(s)
  <2>1. I \in Nat /\ N \in Nat /\ L = I + N + 2 /\ k \in 0..(L - 1)
    BY <1>2, LoadSizes
  <2> HIDE DEF I, N, L
  <2> QED
    BY <2>1 DEF L
<1>3a. s[1] = [op |-> "delete interrupts"] /\ s[I + 2] = [op |-> "delete slots"]
  BY <1>2, LoadFacts
<1>3b. \A n \in 2..(I + 1) : s[n] \in Insertions(batch)
  BY <1>2, LoadFacts
<1>3c. \A n \in 1..N : s[I + 2 + n] = [op |-> "slot", row |-> RowsOfBundle(batch)[n]]
  BY <1>2, LoadFacts
<1>4. /\ \A q \in Policies \ {p} : /\ SlotsOf(db, q) = SlotsOf(tx, q)
                                   /\ InterruptsOf(db, q) = InterruptsOf(tx, q)
      /\ k >= 1 => InterruptsOf(db, p) = Upto(k)
      /\ k >= I + 2 => SlotsOf(db, p) = SubSeq(RowsOfBundle(batch), 1, k - I - 2)
  BY DEF Progress
<1>5. \A q \in Policies \ {p} : /\ SlotsOf(db', q) = SlotsOf(tx', q)
                                /\ InterruptsOf(db', q) = InterruptsOf(tx', q)
  <2>1. \A q \in Policies \ {p} : /\ SlotsOf(db', q) = SlotsOf(db, q)
                                  /\ InterruptsOf(db', q) = InterruptsOf(db, q)
    BY LoadMoves
  <2> QED
    BY <1>1, <1>4, <2>1
<1>6. SUFFICES /\ InterruptsOf(db', p) = Upto(k + 1)
               /\ k + 1 >= I + 2 => SlotsOf(db', p) = SubSeq(RowsOfBundle(batch), 1, k + 1 - I - 2)
  <2>1. batch' = batch /\ k + 1 \in Nat
    BY <1>1, <1>3
  <2>2. /\ \A q \in Policies \ {Bundles[batch'].policy} :
             SlotsOf(db', q) = SlotsOf(tx', q) /\ InterruptsOf(db', q) = InterruptsOf(tx', q)
        /\ InterruptsOf(db', Bundles[batch'].policy) = LoadRows(batch', k + 1)
        /\ k + 1 >= Inserted(batch') + 2 =>
             SlotsOf(db', Bundles[batch'].policy) =
               SubSeq(RowsOfBundle(batch'), 1, k + 1 - Inserted(batch') - 2)
    BY <1>5, <1>6, <2>1
  <2>3. Inserted(batch') \in Nat /\ k \in Nat
    BY <1>3, <2>1
  <2> QED
    BY <2>2, <2>3 DEF Progress
<1>7. \A m : Upto(m) = {s[n].row : n \in 2..(IF m <= I THEN m ELSE I + 1)}
  BY DEF LoadRows
<1> HIDE DEF s, p, I, N, Upto
<1>8. CASE k = 0
  <2>1. InterruptsOf(db', p) = {}
    <3>1. db' = Executed([op |-> "delete interrupts"], p)
      <4>1. s[k + 1] = s[1]
        BY <1>8
      <4> QED
        BY <1>1, <1>3a, <4>1
    <3> QED
      BY <1>2, <3>1, InterruptsDeleted
  <2>2. Upto(k + 1) = {}
    <3>1. 2..(IF k + 1 <= I THEN k + 1 ELSE I + 1) = {}
      BY <1>3, <1>8
    <3> QED
      BY <1>7, <3>1
  <2>3. ~(k + 1 >= I + 2)
    BY <1>3, <1>8
  <2> QED
    BY <2>1, <2>2, <2>3
<1>9. CASE k \in 1..I
  <2>1. k + 1 \in 2..(I + 1)
    BY <1>3, <1>9
  <2>2. PICK i \in Interrupts(batch) : s[k + 1] = [op |-> "interrupt", row |-> i]
    BY <1>3b, <2>1 DEF Insertions
  <2>3. i \in InterruptRow /\ i.policy = p /\ i.status = 0
    BY <1>2, InsertionsFinite DEF Interrupts, p
  <2>4. InterruptsOf(db', p) = InterruptsOf(db, p) \cup {i}
    BY <1>1, <1>2, <2>2, <2>3, InterruptInserted
  <2>5. s[k + 1].row = i
    BY <2>2
  <2>6. k >= 1 /\ ~(k + 1 >= I + 2)
    BY <1>3, <1>9
  <2>7. Upto(k + 1) = Upto(k) \cup {i}
    <3>1. /\ (IF k <= I THEN k ELSE I + 1) = k
          /\ (IF k + 1 <= I THEN k + 1 ELSE I + 1) = k + 1
      BY <1>3, <1>9
    <3>2. Upto(k) = {s[n].row : n \in 2..k} /\ Upto(k + 1) = {s[n].row : n \in 2..(k + 1)}
      BY <1>7, <3>1
    <3>3. 2..(k + 1) = (2..k) \cup {k + 1}
      BY <1>3, <1>9
    <3> QED
      BY <2>5, <3>2, <3>3
  <2> QED
    BY <1>4, <2>4, <2>6, <2>7
<1>10. CASE k >= I + 1
  <2>1. Upto(k + 1) = Upto(k)
    <3>1. ~(k <= I) /\ ~(k + 1 <= I)
      BY <1>3, <1>10
    <3> QED
      BY <1>7, <3>1
  <2>2. InterruptsOf(db, p) = Upto(k)
    BY <1>3, <1>4, <1>10
  <2>3. CASE k = I + 1
    <3>1. k + 1 = I + 2 /\ k + 1 - I - 2 = 0
      BY <1>3, <2>3
    <3>2. db'.interrupts = db.interrupts /\ SlotsOf(db', p) = <<>>
      BY <1>1, <1>2, <1>3a, <3>1, SlotsDeleted
    <3>3. InterruptsOf(db', p) = InterruptsOf(db, p)
      BY <3>2 DEF InterruptsOf
    <3>4. SubSeq(RowsOfBundle(batch), 1, 0) = <<>>
      <4> DEFINE r == RowsOfBundle(batch)
      <4>1. r \in Seq(SlotRows)
        BY <1>2, RowsFacts
      <4> HIDE DEF r
      <4>2. SubSeq(r, 1, 0) = <<>>
        BY <4>1
      <4> QED
        BY <4>2 DEF r
    <3> QED
      BY <2>1, <2>2, <3>1, <3>2, <3>3, <3>4
  <2>4. CASE k >= I + 2
    <3> DEFINE m == k - I - 1
               r == RowsOfBundle(batch)
    <3>1. m \in 1..N /\ k + 1 = I + 2 + m /\ k - I - 2 = m - 1 /\ k + 1 - I - 2 = m
      BY <1>3, <2>4 DEF s
    <3>2. r \in Seq(SlotRows) /\ N = Len(r) /\ \A n \in 1..N : r[n].policy = p
      BY <1>2, RowsFacts DEF N, p
    <3> HIDE DEF m, r
    <3>3. r[m] \in SlotRows /\ r[m].policy = p
      BY <3>1, <3>2
    <3>4. s[k + 1] = [op |-> "slot", row |-> r[m]]
      BY <1>3c, <3>1 DEF r
    <3>5. db'.interrupts = db.interrupts /\ SlotsOf(db', p) = Append(SlotsOf(db, p), r[m])
      BY <1>1, <1>2, <3>3, <3>4, SlotInserted
    <3>6. SlotsOf(db, p) = SubSeq(r, 1, m - 1)
      BY <1>4, <2>4, <3>1 DEF r
    <3>7. Append(SubSeq(r, 1, m - 1), r[m]) = SubSeq(r, 1, m)
      BY <3>1, <3>2
    <3>8. InterruptsOf(db', p) = InterruptsOf(db, p)
      BY <3>5 DEF InterruptsOf
    <3> QED
      BY <2>1, <2>2, <3>1, <3>5, <3>6, <3>7, <3>8 DEF r
  <2> QED
    BY <1>3, <1>10, <2>3, <2>4
<1> QED
  BY <1>3, <1>8, <1>9, <1>10

(* Every step keeps the load in step with its statements.                     *)
LEMMA LoadingStep == SchedulerInv /\ [SchedulerNext]_schedulerVars => Loading'
<1> SUFFICES ASSUME SchedulerInv, [SchedulerNext]_schedulerVars PROVE Loading'
  OBVIOUS
<1>1. Loading /\ (sync = "load" /\ tx = NoTx => Bundles[batch].policy \in torn)
  BY EarlierTyped DEF Loading
<1>2. ASSUME UNCHANGED <<loader, tx, torn>>,
             (db'.slots = db.slots /\ db'.interrupts = db.interrupts) \/ tx = NoTx
      PROVE  Loading'
  BY <1>1, <1>2, LoadingFrame DEF loader
<1>3. CASE UNCHANGED schedulerVars
  BY <1>2, <1>3 DEF schedulerVars, marks
<1>4. CASE Publish \/ SelectInterrupt \/ SelectSlot
  BY <1>2, <1>4 DEF Publish, SelectInterrupt, SelectSlot, SelectSlotAt, marks
<1>5. CASE RollsLoadBack /\ UNCHANGED loader
  <2>1. 0 \notin DOMAIN Bundles
    BY BundleFacts
  <2>2. sync = "load" => batch \in {batch} \ {0}
    BY <2>1, EarlierTyped DEF SchedulerTyped
  <2>3. torn \subseteq torn' /\ tx' = NoTx /\ (sync = "load" => Bundles[batch].policy \in torn')
    BY <1>5, <2>2 DEF RollsLoadBack
  <2> QED
    BY <1>1, <1>5, <2>3, LoadingFrame DEF loader
<1>6. CASE StartPlay \/ EndPlay
  <2>1. CASE RollsLoadBack
    BY <1>5, <1>6, <2>1 DEF StartPlay, EndPlay
  <2>2. CASE tx = NoTx /\ UNCHANGED <<tx, torn>>
    BY <1>2, <1>6, <2>2 DEF StartPlay, EndPlay
  <2> QED
    BY <1>6, <2>1, <2>2 DEF StartPlay, EndPlay
<1>7. CASE CleanupStorage
  <2>1. PICK gone \in SUBSET Registered :
          db' = [db EXCEPT !.ads = [a \in Ads |-> IF a \in gone THEN Absent ELSE @[a]]]
    BY <1>7 DEF CleanupStorage
  <2> DEFINE left == [a \in Ads |-> IF a \in gone THEN Absent ELSE db.ads[a]]
  <2>2. db' = [db EXCEPT !.ads = left]
    BY <2>1
  <2> HIDE DEF left
  <2>3. db'.interrupts = db.interrupts /\ db'.slots = db.slots
    BY <2>2, EarlierTyped DEF Tables
  <2> QED
    BY <1>2, <1>7, <2>3 DEF CleanupStorage
<1>8. CASE FetchSchedule
  <2> DEFINE s == LoadStatements(published)
  <2>1. tx' = db /\ db' = db /\ batch' = published /\ rest' = s /\ tx' # NoTx
    BY <1>8, EarlierTyped DEF FetchSchedule
  <2>2. published \in DOMAIN Bundles
    BY EarlierTyped
  <2>3. s \in Seq(StatementType) /\ Len(s) \in Nat /\ Inserted(published) \in Nat
    BY <2>2, LoadSizes
  <2>4. Progress(0)'
    BY <2>1, <2>3 DEF Progress
  <2> HIDE DEF s
  <2>5. s = SubSeq(s, 0 + 1, Len(s)) /\ 0 \in 0..Len(s)
    BY <2>3
  <2> QED
    BY <2>1, <2>4, <2>5 DEF Loading, s
<1>9. CASE FetchAds \/ FetchAdsFails \/ StoreAd \/ OpenFile \/ DownloadFails \/ WriteFile \/ CommitAds
           \/ FetchScheduleFails \/ CommitSchedule \/ Kill
  <2>1. sync' # "load"
    BY <1>9 DEF FetchAds, FetchAdsFails, StoreAd, OpenFile, DownloadFails, WriteFile, AdDone, CommitAds,
                FetchScheduleFails, CommitSchedule, SyncEnds, Kill
  <2> QED
    BY <2>1 DEF Loading
<1>10. CASE LoadStatement
  <2> DEFINE s == LoadStatements(batch)
             L == Len(s)
  <2>1. /\ sync = "load" /\ rest # <<>> /\ rest' = Tail(rest)
        /\ UNCHANGED <<tx, torn, sync, batch>>
    BY <1>10 DEF LoadStatement
  <2>2. PICK k \in 0..L :
          /\ tx # NoTx => Progress(k)
          /\ k = L <=> rest = <<>>
          /\ k < L => Head(rest) = s[k + 1] /\ Tail(rest) = SubSeq(s, k + 2, L)
    BY <2>1, NextStatement
  <2>3. L \in Nat
    BY <2>1, NextStatement
  <2>4. k \in 0..(L - 1) /\ k + 1 \in 0..L /\ (k + 1) + 1 = k + 2 /\ k < L
    <3> HIDE DEF L
    <3> QED
      BY <2>1, <2>2, <2>3
  <2>5. ASSUME tx # NoTx PROVE Progress(k + 1)'
    BY <1>10, <2>2, <2>4, <2>5, OneMore
  <2>6. rest' = SubSeq(s, (k + 1) + 1, L)
    BY <2>1, <2>2, <2>4
  <2>7. tx = NoTx => Bundles[batch].policy \in torn
    BY <1>1, <2>1
  <2> HIDE DEF L, s
  <2>8. L' = L /\ s' = s
    BY <2>1 DEF L, s
  <2> QED
    BY <2>1, <2>4, <2>5, <2>6, <2>7 DEF Loading, L, s
<1>11. CASE LoadMeetsPlay
  <2>1. sync' # "load"
    BY <1>11, MeetingMoves
  <2> QED
    BY <2>1 DEF Loading
<1> QED
  BY <1>3, <1>4, <1>6, <1>7, <1>8, <1>9, <1>10, <1>11 DEF SchedulerNext, Main, Sync

--------------------------------------------------------------------------------
(* So the invariant holds always.                                             *)
LEMMA SchedulerStays == SchedulerSpec => []SchedulerInv
<1>1. SchedulerInv /\ [SchedulerNext]_schedulerVars => SchedulerInv'
  BY TypedStep, HonestStep, MarkedStep, KeptStep, AdsOnlyStep, LoadingStep DEF SchedulerInv
<1> QED
  BY <1>1, SchedulerFirst, PTL DEF SchedulerSpec

(* Every variable of the screen keeps the type the code gives it, for any bundles,   *)
(* publications, kills, clashes of transactions and full disks.                      *)
THEOREM SchedulerTypeCorrect == SchedulerSpec => []SchedulerTypeOK
<1>1. SchedulerInv => SchedulerTypeOK
  <2> SUFFICES ASSUME SchedulerInv PROVE SchedulerTypeOK
    OBVIOUS
  <2>1. item # NothingFound => item.ad \in Ads
    BY EarlierTyped DEF SchedulerTyped, ItemType
  <2>2. \A i \in db.interrupts : i.policy \in Policies /\ i.ad \in Ads /\ i.status \in {0, 1}
    BY EarlierTyped DEF InterruptRow
  <2> QED
    BY <2>1, <2>2, EarlierTyped DEF SchedulerTyped, SchedulerTypeOK
<1> QED
  BY <1>1, SchedulerStays, PTL

(* A kill finds the tables of a policy as one load has left them, or empty, unless a *)
(* job of the main thread rolled back that policy's last load (loadSchedule).        *)
THEOREM TablesStayWhole == SchedulerSpec => []TablesWhole
<1>1. SchedulerInv => TablesWhole
  BY EarlierTyped DEF TablesWhole, KeptWhole, OneLoad, SlotsOf, InterruptsOf
<1> QED
  BY <1>1, SchedulerStays, PTL

(* A file that is there is the one its row names, but for the four circumstances     *)
(* that suspect records (loadAds, downloadAdFile).                                   *)
THEOREM FilesMatchRows == SchedulerSpec => []FilesMatch
<1>1. SchedulerInv => FilesMatch
  BY EarlierTyped DEF FilesMatch, FilesHonest, Registered
<1> QED
  BY <1>1, SchedulerStays, PTL

(* An interrupt whose ad has been played is not played again before a load inserts   *)
(* it anew (schedule_interrupt.status), unless recordPlayEnd and a load met in a     *)
(* BEGIN: then the mark is lost (EdgeManager.cpp:519, 529) and the interrupt stays   *)
(* pending until the next play of its ad.                                            *)
THEOREM NoReplay == SchedulerSpec => ReplayExplained
<1>1. SchedulerInv /\ [SchedulerNext]_schedulerVars =>
        (main = "interrupt" /\ main' = "start" => <<item'.policy, item'.ad>> \notin finished \ unmarked)
  <2> SUFFICES ASSUME SchedulerInv, [SchedulerNext]_schedulerVars, main = "interrupt", main' = "start"
               PROVE  <<item'.policy, item'.ad>> \notin finished \ unmarked
    OBVIOUS
  <2>1. SelectInterrupt
    BY DEF SchedulerNext, Publish, Main, SelectSlot, SelectSlotAt, StartPlay, EndPlay, CleanupStorage,
           Sync, FetchAds, FetchAdsFails, StoreAd, OpenFile, DownloadFails, WriteFile, CommitAds,
           FetchSchedule, FetchScheduleFails, SyncEnds, LoadStatement, CommitSchedule, LoadMeetsPlay, Kill,
           schedulerVars, memory
  <2>2. PICK i \in TopInterrupts : item' = Plays(i)
    BY <2>1 DEF SelectInterrupt
  <2>3. i \in db.interrupts /\ i.status = 0
    BY DEF TopInterrupts, PendingInterrupts
  <2>4. <<i.policy, i.ad>> \notin finished \ unmarked
    BY <2>3, EarlierTyped DEF PlayedMarked, Marked
  <2> QED
    BY <2>2, <2>4 DEF Plays
<1> QED
  BY <1>1, SchedulerStays, PTL DEF SchedulerSpec, ReplayExplained

--------------------------------------------------------------------------------
(* What _build_edge_schedule makes of a playlist.  Items that name ranges of the     *)
(* day, and the slots' rows before they get their policy.                            *)
PlaylistItem == [id : Ads, priority : Int, slots : SUBSET (Times \X Times)]
SlotType == [slot : Nat, range : Times \X Times, list : Seq(Ads), priority : Int]

(* The greatest of 1 and the first n of some numbers.                                *)
LEMMA HighestOf ==
  ASSUME NEW f, NEW N \in Nat, \A i \in 1..N : f[i] \in Int
  PROVE  LET T == {1} \cup {f[i] : i \in 1..N} IN
         Max(T) \in Int /\ Max(T) >= 1 /\ \A i \in 1..N : Max(T) >= f[i]
<1> DEFINE First(n) == {1} \cup {f[i] : i \in 1..n}
           Good == {n \in 0..N : \E m \in First(n) : \A x \in First(n) : m >= x}
<1>1. 0 \in Good
  <2>1. First(0) = {1}
    OBVIOUS
  <2> QED
    BY <2>1
<1>2. \A n \in 0..(N - 1) : n \in Good => n + 1 \in Good
  <2> SUFFICES ASSUME NEW n \in 0..(N - 1), n \in Good PROVE n + 1 \in Good
    OBVIOUS
  <2>1. n + 1 \in 0..N /\ n + 1 \in 1..N /\ f[n + 1] \in Int
    OBVIOUS
  <2>2. First(n + 1) = First(n) \cup {f[n + 1]}
    <3>1. 1..(n + 1) = (1..n) \cup {n + 1}
      OBVIOUS
    <3> QED
      BY <3>1
  <2>3. PICK m \in First(n) : \A x \in First(n) : m >= x
    OBVIOUS
  <2>4. \A x \in First(n) : x \in Int
    BY <2>1
  <2> HIDE DEF First
  <2>5. \E k \in First(n + 1) : \A x \in First(n + 1) : k >= x
    <3>1. CASE m >= f[n + 1]
      BY <2>1, <2>2, <2>3, <2>4, <3>1
    <3>2. CASE ~(m >= f[n + 1])
      BY <2>1, <2>2, <2>3, <2>4, <3>2
    <3> QED
      BY <3>1, <3>2
  <2> QED
    BY <2>1, <2>5
<1> HIDE DEF Good
<1>3. \A n \in 0..N : n \in Good
  BY <1>1, <1>2, CountingUp
<1>4. N \in Good
  BY <1>3
<1>5. \E m \in First(N) : \A x \in First(N) : m >= x
  BY <1>4 DEF Good
<1>6. /\ \A x \in First(N) : x \in Int
      /\ 1 \in First(N) /\ \A i \in 1..N : f[i] \in First(N)
  OBVIOUS
<1> HIDE DEF First
<1>7. Max(First(N)) \in First(N) /\ \A x \in First(N) : Max(First(N)) >= x
  BY <1>5 DEF Max
<1> QED
  BY <1>6, <1>7 DEF First

(* The ranges in the order of their strings: each has its place.                     *)
LEMMA RangesSorted ==
  ASSUME NEW S \in SUBSET (Times \X Times)
  PROVE  /\ SortedRanges(S) \in Seq(S)
         /\ \A r \in S : \E n \in 1..Len(SortedRanges(S)) : SortedRanges(S)[n] = r
<1> DEFINE E == {p \in S \X S : Earlier(p[1], p[2])}
           C(j) == Cardinality({i \in S : Earlier(i, j)})
           N == Cardinality(S)
           Nth(n) == CHOOSE j \in S : C(j) = n - 1
<1>1. IsFiniteSet(S)
  <2>1. IsFiniteSet(Times)
    BY LastTimeAssumption, FS_Interval DEF Times
  <2>2. IsFiniteSet(Times \X Times)
    BY <2>1, FS_Product
  <2> QED
    BY <2>2, FS_Subset
<1>2. \A r \in S : r[1] \in Int /\ r[2] \in Int /\ r = <<r[1], r[2]>>
  BY LastTimeAssumption DEF Times
<1>3. SortedRanges(S) = [n \in 1..N |-> Nth(n)]
  BY DEF SortedRanges, Ranked
<1>4. /\ \A i, j \in S : i # j => <<i, j>> \in E \/ <<j, i>> \in E
      /\ \A i \in S : <<i, i>> \notin E
      /\ \A i, j, k \in S : <<i, j>> \in E /\ <<j, k>> \in E => <<i, k>> \in E
  BY <1>2 DEF Earlier
<1>5. \A j \in S : {i \in S : <<i, j>> \in E} = {i \in S : Earlier(i, j)}
  OBVIOUS
<1> HIDE DEF E, N
<1>6. /\ N \in Nat
      /\ \A j \in S : Cardinality({i \in S : <<i, j>> \in E}) \in 0..(N - 1)
      /\ \A n \in 1..N : \E j \in S : Cardinality({i \in S : <<i, j>> \in E}) = n - 1
      /\ \A i, j \in S :
           Cardinality({k \in S : <<k, i>> \in E}) = Cardinality({k \in S : <<k, j>> \in E}) => i = j
  BY <1>1, <1>4, Ranks DEF N
<1>7. /\ \A j \in S : C(j) \in 0..(N - 1)
      /\ \A n \in 1..N : \E j \in S : C(j) = n - 1
      /\ \A i, j \in S : C(i) = C(j) => i = j
  BY <1>5, <1>6
<1> HIDE DEF C
<1>8. \A n \in 1..N : Nth(n) \in S /\ C(Nth(n)) = n - 1
  BY <1>7
<1>9. \A j \in S : C(j) + 1 \in 1..N /\ Nth(C(j) + 1) = j
  <2> TAKE j \in S
  <2>1. C(j) \in 0..(N - 1) /\ C(j) + 1 \in 1..N /\ (C(j) + 1) - 1 = C(j)
    BY <1>6, <1>7
  <2>2. Nth(C(j) + 1) \in S /\ C(Nth(C(j) + 1)) = C(j)
    BY <1>8, <2>1
  <2> QED
    BY <1>7, <2>1, <2>2
<1> HIDE DEF Nth
<1> QED
  BY <1>3, <1>6, <1>8, <1>9

(* Some places of a sequence, from the first to the last: those and no others.       *)
LEMMA PlacesInOrder ==
  ASSUME NEW N \in Nat, NEW P \in SUBSET (1..N)
  PROVE  /\ Cardinality(P) \in Nat
         /\ InOrder(P) \in [1..Cardinality(P) -> P]
         /\ \A i \in P : \E n \in 1..Cardinality(P) : InOrder(P)[n] = i
         /\ \A m, n \in 1..Cardinality(P) : InOrder(P)[m] = InOrder(P)[n] => m = n
<1> DEFINE E == {p \in P \X P : p[1] < p[2]}
           C(j) == Cardinality({i \in P : i < j})
           K == Cardinality(P)
           Nth(n) == CHOOSE j \in P : C(j) = n - 1
<1>1. IsFiniteSet(P)
  <2>1. IsFiniteSet(1..N)
    BY FS_Interval
  <2> QED
    BY <2>1, FS_Subset
<1>2. \A j \in P : j \in Int
  OBVIOUS
<1>3. InOrder(P) = [n \in 1..K |-> Nth(n)]
  BY DEF InOrder, Ranked
<1> HIDE DEF K
<1>4. /\ \A i, j \in P : i # j => <<i, j>> \in E \/ <<j, i>> \in E
      /\ \A i \in P : <<i, i>> \notin E
      /\ \A i, j, k \in P : <<i, j>> \in E /\ <<j, k>> \in E => <<i, k>> \in E
  BY <1>2
<1>5. \A j \in P : {i \in P : <<i, j>> \in E} = {i \in P : i < j}
  OBVIOUS
<1> HIDE DEF E
<1>6. /\ K \in Nat
      /\ \A j \in P : Cardinality({i \in P : <<i, j>> \in E}) \in 0..(K - 1)
      /\ \A n \in 1..K : \E j \in P : Cardinality({i \in P : <<i, j>> \in E}) = n - 1
      /\ \A i, j \in P :
           Cardinality({k \in P : <<k, i>> \in E}) = Cardinality({k \in P : <<k, j>> \in E}) => i = j
  BY <1>1, <1>4, Ranks DEF K
<1>7. /\ \A j \in P : C(j) \in 0..(K - 1)
      /\ \A n \in 1..K : \E j \in P : C(j) = n - 1
      /\ \A i, j \in P : C(i) = C(j) => i = j
  BY <1>5, <1>6
<1> HIDE DEF C
<1>8. \A n \in 1..K : Nth(n) \in P /\ C(Nth(n)) = n - 1
  BY <1>7
<1>9. \A j \in P : C(j) + 1 \in 1..K /\ Nth(C(j) + 1) = j
  <2> TAKE j \in P
  <2>1. C(j) \in 0..(K - 1) /\ C(j) + 1 \in 1..K /\ (C(j) + 1) - 1 = C(j)
    BY <1>6, <1>7
  <2>2. Nth(C(j) + 1) \in P /\ C(Nth(C(j) + 1)) = C(j)
    BY <1>8, <2>1
  <2> QED
    BY <1>7, <2>1, <2>2
<1>10. \A m, n \in 1..K : Nth(m) = Nth(n) => m = n
  <2> SUFFICES ASSUME NEW m \in 1..K, NEW n \in 1..K, Nth(m) = Nth(n) PROVE m = n
    OBVIOUS
  <2>1. m - 1 = n - 1
    BY <1>8
  <2> QED
    BY <1>6, <2>1
<1> HIDE DEF Nth
<1> QED
  BY <1>3, <1>6, <1>8, <1>9, <1>10 DEF K

(* The items that name a range, in the order of the playlist: those and no others.   *)
LEMMA ItemsNamed ==
  ASSUME NEW playlist \in Seq(PlaylistItem), NEW range
  PROVE  LET items == ItemsIn(playlist, range) IN
         /\ items \in Seq(PlaylistItem)
         /\ \A n \in 1..Len(items) : \E i \in 1..Len(playlist) :
              range \in playlist[i].slots /\ items[n] = playlist[i]
         /\ \A i \in 1..Len(playlist) : range \in playlist[i].slots =>
              \E n \in 1..Len(items) : items[n] = playlist[i]
<1> DEFINE P == {i \in DOMAIN playlist : range \in playlist[i].slots}
           nth == InOrder(P)
           K == Cardinality(P)
           items == ItemsIn(playlist, range)
<1>1. P \in SUBSET (1..Len(playlist)) /\ Len(playlist) \in Nat
  OBVIOUS
<1>2. \A i \in 1..Len(playlist) : i \in P <=> range \in playlist[i].slots
  OBVIOUS
<1>3. items = [n \in DOMAIN nth |-> playlist[nth[n]]]
  BY DEF ItemsIn
<1> HIDE DEF P, items
<1>4. K \in Nat /\ nth \in [1..K -> P] /\ \A i \in P : \E n \in 1..K : nth[n] = i
  BY <1>1, PlacesInOrder
<1> HIDE DEF nth, K
<1>5. items = [n \in 1..K |-> playlist[nth[n]]]
  BY <1>3, <1>4
<1>6. \A n \in 1..K : nth[n] \in P /\ nth[n] \in 1..Len(playlist) /\ playlist[nth[n]] \in PlaylistItem
  <2> TAKE n \in 1..K
  <2>1. nth[n] \in P
    BY <1>4
  <2>2. nth[n] \in 1..Len(playlist)
    BY <1>1, <2>1
  <2> QED
    BY <2>1, <2>2
<1>7. items \in Seq(PlaylistItem) /\ Len(items) = K /\ \A n \in 1..K : items[n] = playlist[nth[n]]
  BY <1>4, <1>5, <1>6
<1>8. \A n \in 1..K : \E i \in 1..Len(playlist) :
        range \in playlist[i].slots /\ items[n] = playlist[i]
  BY <1>2, <1>6, <1>7
<1>9. \A i \in 1..Len(playlist) : range \in playlist[i].slots => \E n \in 1..K : items[n] = playlist[i]
  BY <1>2, <1>4, <1>7
<1> QED
  BY <1>7, <1>8, <1>9 DEF items

(* The ids of some items: of each item, and of no others.                            *)
LEMMA IdsOnce ==
  ASSUME NEW items \in Seq(PlaylistItem)
  PROVE  LET ids == AdIds(items) IN
         /\ ids \in Seq(Ads)
         /\ \A n \in 1..Len(ids) : \E i \in 1..Len(items) : ids[n] = items[i].id
         /\ \A i \in 1..Len(items) : \E n \in 1..Len(ids) : ids[n] = items[i].id
         /\ \A m, n \in 1..Len(ids) : ids[m] = ids[n] => m = n
<1> DEFINE P == {i \in DOMAIN items : \A j \in 1..(i - 1) : items[j].id # items[i].id}
           nth == InOrder(P)
           K == Cardinality(P)
           ids == AdIds(items)
<1>1. P \in SUBSET (1..Len(items)) /\ Len(items) \in Nat
  OBVIOUS
<1>2. ids = [n \in DOMAIN nth |-> items[nth[n]].id]
  BY DEF AdIds
<1>3. \A i \in 1..Len(items) : \E j \in P : items[j].id = items[i].id
  <2> SUFFICES ASSUME NEW i \in 1..Len(items) PROVE \E j \in P : items[j].id = items[i].id
    OBVIOUS
  <2> DEFINE Same == {j \in 1..Len(items) : items[j].id = items[i].id}
  <2>1. Same \in SUBSET Nat /\ Same # {}
    OBVIOUS
  <2>2. PICK j \in Same : \A k \in Same : ~(<<k, j>> \in OpToRel(<, Nat))
    <3>1. IsWellFoundedOn(OpToRel(<, Nat), Nat)
      BY NatLessThanWellFounded
    <3> HIDE DEF Same
    <3> QED
      BY <2>1, <3>1, WFMin
  <2>3. \A k \in 1..(j - 1) : items[k].id # items[i].id
    <3> SUFFICES ASSUME NEW k \in 1..(j - 1), items[k].id = items[i].id PROVE FALSE
      OBVIOUS
    <3>1. k \in Same /\ k \in Nat /\ j \in Nat /\ k < j
      OBVIOUS
    <3> QED
      BY <2>2, <3>1 DEF OpToRel
  <2> QED
    BY <2>3
<1>4. \A i, j \in P : items[i].id = items[j].id => i = j
  OBVIOUS
<1> HIDE DEF P, ids
<1>5. /\ K \in Nat /\ nth \in [1..K -> P] /\ \A i \in P : \E n \in 1..K : nth[n] = i
      /\ \A m, n \in 1..K : nth[m] = nth[n] => m = n
  BY <1>1, PlacesInOrder
<1> HIDE DEF nth, K
<1>6. ids = [n \in 1..K |-> items[nth[n]].id]
  BY <1>2, <1>5
<1>7. \A n \in 1..K : nth[n] \in P /\ nth[n] \in 1..Len(items) /\ items[nth[n]].id \in Ads
  <2> TAKE n \in 1..K
  <2>1. nth[n] \in P
    BY <1>5
  <2>2. nth[n] \in 1..Len(items)
    BY <1>1, <2>1
  <2>3. items[nth[n]] \in PlaylistItem
    BY <2>2
  <2> QED
    BY <2>1, <2>2, <2>3 DEF PlaylistItem
<1>8. ids \in Seq(Ads) /\ Len(ids) = K /\ \A n \in 1..K : ids[n] = items[nth[n]].id
  BY <1>5, <1>6, <1>7
<1>9. \A i \in 1..Len(items) : \E n \in 1..K : ids[n] = items[i].id
  BY <1>3, <1>5, <1>8
<1>10. \A m, n \in 1..K : ids[m] = ids[n] => m = n
  BY <1>4, <1>5, <1>7, <1>8
<1> QED
  BY <1>7, <1>8, <1>9, <1>10 DEF ids

(* A slot of a range: the ads that name it and no others, at the highest of their    *)
(* priorities, which is at least 1.                                                  *)
IsSlot(row, playlist, n, range) ==
  /\ row \in SlotType /\ row.slot = n /\ row.range = range /\ row.priority >= 1
  /\ \A i \in 1..Len(playlist) : range \in playlist[i].slots =>
       row.priority >= playlist[i].priority /\ \E m \in 1..Len(row.list) : row.list[m] = playlist[i].id
  /\ \A m \in 1..Len(row.list) : \E i \in 1..Len(playlist) :
       range \in playlist[i].slots /\ row.list[m] = playlist[i].id

(* A slot that is built is one of its range.                                  *)
LEMMA SlotFacts ==
  ASSUME NEW playlist \in Seq(PlaylistItem), NEW n \in Nat, NEW range \in Times \X Times
  PROVE  IsSlot(SlotOf(playlist, n, range), playlist, n, range)
<1> DEFINE items == ItemsIn(playlist, range)
           N == Len(items)
           priorities == [i \in 1..N |-> items[i].priority]
           T == {1} \cup {priorities[i] : i \in 1..N}
           row == SlotOf(playlist, n, range)
<1>1. /\ items \in Seq(PlaylistItem)
      /\ \A i \in 1..Len(playlist) : range \in playlist[i].slots =>
           \E m \in 1..Len(items) : items[m] = playlist[i]
      /\ \A m \in 1..Len(items) : \E i \in 1..Len(playlist) :
           range \in playlist[i].slots /\ items[m] = playlist[i]
  BY ItemsNamed
<1>2. row = [slot |-> n, range |-> range, list |-> AdIds(items),
             priority |-> Max({1} \cup {items[i].priority : i \in DOMAIN items})]
  BY DEF SlotOf
<1> HIDE DEF items, row
<1>3. N \in Nat /\ DOMAIN items = 1..N /\ \A m \in 1..N : items[m] \in PlaylistItem
  BY <1>1
<1>4. \A m \in 1..N : items[m].id \in Ads /\ items[m].priority \in Int
  BY <1>3 DEF PlaylistItem
<1>5. T = {1} \cup {items[i].priority : i \in DOMAIN items}
  BY <1>3
<1>6. Max(T) \in Int /\ Max(T) >= 1 /\ \A i \in 1..N : Max(T) >= priorities[i]
  BY <1>3, <1>4, HighestOf
<1>6a. \A i \in 1..N : Max(T) >= items[i].priority
  BY <1>6
<1> HIDE DEF T, priorities
<1>7. /\ AdIds(items) \in Seq(Ads)
      /\ \A m \in 1..Len(AdIds(items)) : \E i \in 1..N : AdIds(items)[m] = items[i].id
      /\ \A i \in 1..N : \E m \in 1..Len(AdIds(items)) : AdIds(items)[m] = items[i].id
  BY <1>1, IdsOnce
<1>9. row = [slot |-> n, range |-> range, list |-> AdIds(items), priority |-> Max(T)]
  BY <1>2, <1>5
<1>10. row.slot = n /\ row.range = range /\ row.list = AdIds(items) /\ row.priority = Max(T)
  BY <1>9
<1>11. row \in SlotType
  BY <1>6, <1>7, <1>9 DEF SlotType
<1>12. \A i \in 1..Len(playlist) : range \in playlist[i].slots =>
         row.priority >= playlist[i].priority /\ \E m \in 1..Len(row.list) : row.list[m] = playlist[i].id
  <2> SUFFICES ASSUME NEW i \in 1..Len(playlist), range \in playlist[i].slots
               PROVE  /\ row.priority >= playlist[i].priority
                      /\ \E m \in 1..Len(row.list) : row.list[m] = playlist[i].id
    OBVIOUS
  <2>1. PICK m \in 1..N : items[m] = playlist[i]
    BY <1>1
  <2> QED
    BY <1>6a, <1>7, <1>10, <2>1
<1>13. \A m \in 1..Len(row.list) : \E i \in 1..Len(playlist) :
         range \in playlist[i].slots /\ row.list[m] = playlist[i].id
  <2> SUFFICES ASSUME NEW m \in 1..Len(AdIds(items))
               PROVE  \E i \in 1..Len(playlist) :
                        range \in playlist[i].slots /\ AdIds(items)[m] = playlist[i].id
    BY <1>10
  <2>1. PICK k \in 1..N : AdIds(items)[m] = items[k].id
    BY <1>7
  <2> QED
    BY <1>1, <2>1
<1> QED
  BY <1>6, <1>10, <1>11, <1>12, <1>13 DEF row, IsSlot

(* Any playlist becomes slots of the shape that EdgeSchedulerConstants expects: one  *)
(* for each range that an item names, with the ads that name it and no others, at    *)
(* least at the priority of each, and the fallback after them all                    *)
(* (_build_edge_schedule).                                                           *)
THEOREM SchedulesWellFormed ==
  ASSUME NEW playlist \in Seq(PlaylistItem)
  PROVE  LET rows == BuildEdgeSchedule(playlist) IN
         /\ rows \in Seq(SlotType) /\ Len(rows) > 0 /\ rows[Len(rows)] = FallbackOf(playlist)
         /\ \A n \in 1..(Len(rows) - 1) :
              /\ rows[n].slot = n /\ rows[n].range # AllDay /\ rows[n].priority >= 1
              /\ rows[n].list # <<>>
              /\ \A m \in 1..Len(rows[n].list) : \E i \in 1..Len(playlist) :
                   rows[n].range \in playlist[i].slots /\ rows[n].list[m] = playlist[i].id
         /\ \A i \in 1..Len(playlist) : \A range \in playlist[i].slots \ {AllDay} :
              \E n \in 1..(Len(rows) - 1) :
                /\ rows[n].range = range /\ rows[n].priority >= playlist[i].priority
                /\ \E m \in 1..Len(rows[n].list) : rows[n].list[m] = playlist[i].id
<1> DEFINE ranges == SortedRanges(RangesOf(playlist) \ {AllDay})
           N == Len(ranges)
           front == [n \in 1..N |-> SlotOf(playlist, n, ranges[n])]
           rows == BuildEdgeSchedule(playlist)
           last == FallbackOf(playlist)
<1>1. \A i \in 1..Len(playlist) : playlist[i].slots \in SUBSET (Times \X Times)
  <2>1. \A x \in PlaylistItem : x.slots \in SUBSET (Times \X Times)
    BY DEF PlaylistItem
  <2> QED
    BY <2>1
<1>2. RangesOf(playlist) \ {AllDay} \in SUBSET (Times \X Times)
  BY <1>1 DEF RangesOf
<1>3. /\ ranges \in Seq(RangesOf(playlist) \ {AllDay})
      /\ \A r \in RangesOf(playlist) \ {AllDay} : \E n \in 1..N : ranges[n] = r
  BY <1>2, RangesSorted
<1>4. \A i \in 1..Len(playlist) : playlist[i].slots \subseteq RangesOf(playlist)
  BY DEF RangesOf
<1>5. rows = Append([n \in DOMAIN ranges |-> SlotOf(playlist, n, ranges[n])], last)
  BY DEF BuildEdgeSchedule
<1> HIDE DEF ranges, rows
<1>6. N \in Nat /\ DOMAIN ranges = 1..N
      /\ \A n \in 1..N : n \in Nat /\ ranges[n] \in Times \X Times /\ ranges[n] # AllDay
  BY <1>2, <1>3
<1>7. last \in SlotType
  <2>1. ItemsIn(playlist, AllDay) \in Seq(PlaylistItem)
    BY ItemsNamed
  <2>2. PICK items \in Seq(PlaylistItem) :
          last = [slot |-> FallbackSlot, range |-> AllDay, priority |-> 1, list |-> AdIds(items)]
    BY <2>1 DEF FallbackOf
  <2> HIDE DEF last
  <2>3. AdIds(items) \in Seq(Ads)
    BY <2>2, IdsOnce
  <2>4. AllDay \in Times \X Times /\ FallbackSlot \in Nat
    BY LastTimeAssumption DEF AllDay, Times, FallbackSlot
  <2> QED
    BY <2>2, <2>3, <2>4 DEF SlotType
<1>8. \A n \in 1..N : SlotOf(playlist, n, ranges[n]) \in SlotType
  BY <1>6, SlotFacts DEF IsSlot
<1>9. front \in Seq(SlotType) /\ Len(front) = N /\ \A n \in 1..N : front[n] = SlotOf(playlist, n, ranges[n])
  BY <1>6, <1>8
<1>10. rows = Append(front, last)
  BY <1>5, <1>6
<1> HIDE DEF front, last
<1>11. /\ rows \in Seq(SlotType) /\ Len(rows) = N + 1 /\ rows[N + 1] = last
       /\ \A n \in 1..N : rows[n] = SlotOf(playlist, n, ranges[n])
  BY <1>6, <1>7, <1>9, <1>10
<1>12. \A n \in 1..N :
         /\ rows[n].slot = n /\ rows[n].list # <<>> /\ rows[n].range # AllDay /\ rows[n].priority >= 1
         /\ \A m \in 1..Len(rows[n].list) : \E i \in 1..Len(playlist) :
              rows[n].range \in playlist[i].slots /\ rows[n].list[m] = playlist[i].id
  <2> TAKE n \in 1..N
  <2>1. n \in Nat /\ ranges[n] \in Times \X Times /\ ranges[n] # AllDay
    BY <1>6
  <2>2. rows[n] = SlotOf(playlist, n, ranges[n])
    BY <1>11
  <2>3. IsSlot(rows[n], playlist, n, ranges[n])
    BY <2>1, <2>2, SlotFacts
  <2>4. rows[n].list # <<>>
    <3>1. PICK i \in 1..Len(playlist) : ranges[n] \in playlist[i].slots
      <4>1. ranges[n] \in RangesOf(playlist)
        BY <1>3, <1>6
      <4> QED
        BY <4>1 DEF RangesOf
    <3>2. PICK m \in 1..Len(rows[n].list) : rows[n].list[m] = playlist[i].id
      BY <2>3, <3>1 DEF IsSlot
    <3>3. Len(<<>>) = 0
      OBVIOUS
    <3> QED
      BY <3>2, <3>3
  <2> QED
    BY <2>1, <2>3, <2>4 DEF IsSlot
<1>13. \A i \in 1..Len(playlist) : \A range \in playlist[i].slots \ {AllDay} :
         \E n \in 1..N :
           /\ rows[n].range = range /\ rows[n].priority >= playlist[i].priority
           /\ \E m \in 1..Len(rows[n].list) : rows[n].list[m] = playlist[i].id
  <2> SUFFICES ASSUME NEW i \in 1..Len(playlist), NEW range \in playlist[i].slots \ {AllDay}
               PROVE  \E n \in 1..N :
                        /\ rows[n].range = range /\ rows[n].priority >= playlist[i].priority
                        /\ \E m \in 1..Len(rows[n].list) : rows[n].list[m] = playlist[i].id
    OBVIOUS
  <2>1. PICK n \in 1..N : ranges[n] = range
    BY <1>3, <1>4
  <2>2. rows[n] = SlotOf(playlist, n, range) /\ n \in Nat /\ range \in Times \X Times
    BY <1>6, <1>11, <2>1
  <2>3. IsSlot(rows[n], playlist, n, range)
    BY <2>2, SlotFacts
  <2> QED
    BY <2>3 DEF IsSlot
<1>14. Len(rows) > 0 /\ Len(rows) - 1 = N /\ rows[Len(rows)] = FallbackOf(playlist)
  BY <1>6, <1>11 DEF last
<1> QED
  BY <1>11, <1>12, <1>13, <1>14 DEF rows

(* The row for the whole day, of priority 1, comes last of rows that are not for the *)
(* whole day and of priority 1 at least, if it was inserted last.                    *)
LEMMA AllDayComesLast ==
  ASSUME NEW R, \A r \in R : r.priority \in Int,
         NEW rows \in Seq(R), Len(rows) > 0, NEW now \in Times,
         rows[Len(rows)].range = AllDay, rows[Len(rows)].priority = 1,
         \A n \in 1..(Len(rows) - 1) : rows[n].range # AllDay /\ rows[n].priority >= 1
  PROVE  LET order == ByPriority(rows, now) IN
         /\ order \in Seq(R) /\ Len(order) > 0 /\ order[Len(order)] = rows[Len(rows)]
         /\ \A n \in 1..(Len(order) - 1) : order[n].range # AllDay
         /\ \A i \in 1..(Len(rows) - 1) : InRange(now, rows[i].range) =>
              \E n \in 1..(Len(order) - 1) : order[n] = rows[i]
<1> DEFINE order == ByPriority(rows, now)
           found == Found(rows, now)
           L == Len(rows)
           N == Cardinality(found)
           C(j) == Cardinality(Ahead(rows, now, j))
<1>1. /\ L \in Nat /\ L > 0
      /\ \A n \in 1..L : rows[n] \in R
      /\ \A n \in 1..(L - 1) : rows[n].range # AllDay /\ rows[n].priority >= 1
  OBVIOUS
<1>2. \A r \in R : r.priority \in Int
  OBVIOUS
<1>3. /\ found \subseteq 1..L /\ IsFiniteSet(found)
      /\ order \in Seq(R) /\ Len(order) = N
      /\ \A j \in found : C(j) + 1 \in 1..Len(order) /\ order[C(j) + 1] = rows[j]
      /\ \A n \in 1..Len(order) : \E j \in found : C(j) = n - 1 /\ order[n] = rows[j]
  BY <1>1, <1>2, OrderedRows
<1>4. rows[L].range = AllDay /\ rows[L].priority = 1
  OBVIOUS
<1>5. L \in found
  BY <1>1, <1>4, LastTimeAssumption DEF Found, InRange, AllDay, Times
<1>6. \A i \in found \ {L} : Before(rows, i, L)
  <2> TAKE i \in found \ {L}
  <2>1. i \in 1..(L - 1) /\ i < L
    BY <1>1, <1>3
  <2>2. rows[i].priority \in Int /\ rows[i].priority >= 1
    BY <1>1, <1>2, <2>1
  <2> QED
    BY <1>4, <2>1, <2>2 DEF Before
<1>7. ~Before(rows, L, L)
  BY <1>1, <1>4 DEF Before
<1>8. Ahead(rows, now, L) = found \ {L}
  BY <1>6, <1>7 DEF Ahead
<1>9. N \in Nat /\ C(L) = N - 1
  <2>1. C(L) = Cardinality(found \ {L}) /\ L \in found /\ IsFiniteSet(found)
    BY <1>3, <1>5, <1>8
  <2> HIDE DEF found, C, L
  <2> QED
    BY <2>1, FS_CardinalityType, FS_RemoveElement
<1> HIDE DEF order, found, N, C
<1>10. N > 0 /\ order[N] = rows[L]
  <2>1. C(L) + 1 \in 1..Len(order) /\ order[C(L) + 1] = rows[L]
    BY <1>3, <1>5
  <2> QED
    BY <1>3, <1>9, <2>1
<1>11. \A n \in 1..(N - 1) : order[n].range # AllDay
  <2> TAKE n \in 1..(N - 1)
  <2>1. PICK j \in found : C(j) = n - 1 /\ order[n] = rows[j]
    <3>1. n \in 1..N
      BY <1>9
    <3> QED
      BY <1>3, <3>1
  <2>2. j # L
    BY <1>9, <2>1
  <2>3. j \in 1..(L - 1)
    BY <1>1, <1>3, <2>2
  <2> QED
    BY <1>1, <2>1, <2>3
<1>12. \A i \in 1..(L - 1) : InRange(now, rows[i].range) => \E n \in 1..(N - 1) : order[n] = rows[i]
  <2> SUFFICES ASSUME NEW i \in 1..(L - 1), InRange(now, rows[i].range)
               PROVE  \E n \in 1..(N - 1) : order[n] = rows[i]
    OBVIOUS
  <2>1. i \in found
    BY <1>1 DEF Found, found
  <2>2. C(i) + 1 \in 1..N /\ order[C(i) + 1] = rows[i]
    BY <1>3, <2>1
  <2>3. C(i) + 1 # N
    <3>1. rows[i].range # AllDay
      BY <1>1
    <3> QED
      BY <1>4, <1>10, <2>2, <3>1
  <2>4. C(i) + 1 \in 1..(N - 1)
    BY <1>9, <2>2, <2>3
  <2> QED
    BY <2>2, <2>4
<1> QED
  BY <1>3, <1>9, <1>10, <1>11, <1>12 DEF order, N

(* src/README.md:98 promises that the fallback is for the times that no other slot   *)
(* covers.  Of one schedule that is true: whatever the playlist and the time of day, *)
(* getNextAsset's query finds the fallback, comes to it last, and comes to every     *)
(* other slot that holds the time before (ORDER BY priority DESC: an equal priority  *)
(* of 1 is decided by the order of insertion).                                       *)
THEOREM FallbackIsLast ==
  ASSUME NEW playlist \in Seq(PlaylistItem), NEW now \in Times
  PROVE  LET rows == BuildEdgeSchedule(playlist)
             order == ByPriority(rows, now)
         IN /\ Len(order) > 0 /\ order[Len(order)] = FallbackOf(playlist)
            /\ \A n \in 1..(Len(order) - 1) : order[n].range # AllDay
            /\ \A i \in 1..(Len(rows) - 1) : InRange(now, rows[i].range) =>
                 \E n \in 1..(Len(order) - 1) : order[n] = rows[i]
<1> DEFINE rows == BuildEdgeSchedule(playlist)
           L == Len(rows)
<1>1. /\ rows \in Seq(SlotType) /\ L > 0 /\ rows[L] = FallbackOf(playlist)
      /\ \A n \in 1..(L - 1) : rows[n].range # AllDay /\ rows[n].priority >= 1
  BY SchedulesWellFormed
<1>2. \A r \in SlotType : r.priority \in Int
  BY DEF SlotType
<1>3. FallbackOf(playlist).range = AllDay /\ FallbackOf(playlist).priority = 1
  BY DEF FallbackOf
<1> HIDE DEF rows
<1> QED
  BY <1>1, <1>2, <1>3, AllDayComesLast DEF rows

(* What FallbackLast asks of every state holds when the table has the rows of one    *)
(* schedule only, as it was built: getNextAsset plays the fallback only at a time of *)
(* which every other slot lacks the row of one of its ads.  FallbackLast fails where *)
(* the rows of two schedules meet in the table (loadSchedule deletes those of its    *)
(* own policy).  Slots are numbered from 1; nothing keeps them below the fallback's  *)
(* 99, which has to be assumed.                                                      *)
THEOREM FallbackLastOfOne ==
  ASSUME SchedulerTyped, NEW b \in DOMAIN Bundles, NEW playlist \in Seq(PlaylistItem),
         Bundles[b].slots = BuildEdgeSchedule(playlist), Len(Bundles[b].slots) <= FallbackSlot,
         db.slots = RowsOfBundle(b),
         NEW now \in Times, SelectSlotAt(now), item'.slot = FallbackSlot
  PROVE  \A n \in DOMAIN db.slots :
           LET row == db.slots[n] IN
           row.slot # FallbackSlot /\ InRange(now, row.range) => ~(ToSet(row.list) \subseteq Registered)
<1> DEFINE rows == db.slots
           built == BuildEdgeSchedule(playlist)
           L == Len(built)
           order == ByPriority(rows, now)
           N == Len(order)
<1>1. /\ built \in Seq(SlotType) /\ L > 0 /\ built[L] = FallbackOf(playlist)
      /\ \A n \in 1..(L - 1) : /\ built[n].slot = n /\ built[n].range # AllDay
                               /\ built[n].priority >= 1 /\ built[n].list # <<>>
  BY SchedulesWellFormed
<1>2. L \in Nat /\ L <= 99
  BY <1>1 DEF FallbackSlot
<1>3. rows \in Seq(SlotRows) /\ \A r \in SlotRows : r.priority \in Int
  <2>1. db \in Tables
    BY DEF SchedulerTyped
  <2> QED
    BY <2>1, RowsFacts DEF Tables, RowType
<1>4. rows = [n \in 1..L |-> [slot |-> built[n].slot, range |-> built[n].range, list |-> built[n].list,
                             priority |-> built[n].priority, policy |-> Bundles[b].policy]]
  BY <1>1 DEF RowsOfBundle
<1> HIDE DEF rows, built
<1>5. Len(rows) = L /\ DOMAIN rows = 1..L
  BY <1>2, <1>3, <1>4
<1>6. \A n \in 1..L : /\ rows[n].slot = built[n].slot /\ rows[n].range = built[n].range
                      /\ rows[n].list = built[n].list /\ rows[n].priority = built[n].priority
  BY <1>4
<1>7. rows[L].range = AllDay /\ rows[L].priority = 1 /\ rows[L].slot = 99
  <2>1. built[L].range = AllDay /\ built[L].priority = 1 /\ built[L].slot = 99
    BY <1>1 DEF FallbackOf, FallbackSlot
  <2>2. L \in 1..L
    BY <1>1, <1>2
  <2> QED
    BY <1>6, <2>1, <2>2
<1>8. \A n \in 1..(L - 1) : /\ rows[n].slot = n /\ rows[n].range # AllDay
                            /\ rows[n].priority >= 1 /\ rows[n].list # <<>>
  <2> TAKE n \in 1..(L - 1)
  <2>1. n \in 1..L
    BY <1>2
  <2> QED
    BY <1>1, <1>6, <2>1
<1> HIDE DEF L
<1>9. /\ order \in Seq(SlotRows) /\ N > 0 /\ order[N] = rows[L]
      /\ \A i \in 1..(L - 1) : InRange(now, rows[i].range) => \E k \in 1..(N - 1) : order[k] = rows[i]
      /\ \A k \in 1..(N - 1) : order[k].range # AllDay
  <2>1. /\ Len(rows) > 0 /\ rows[Len(rows)].range = AllDay /\ rows[Len(rows)].priority = 1
        /\ \A n \in 1..(Len(rows) - 1) : rows[n].range # AllDay /\ rows[n].priority >= 1
    BY <1>1, <1>5, <1>7, <1>8
  <2>2. LET o == ByPriority(rows, now) IN
        /\ o \in Seq(SlotRows) /\ Len(o) > 0 /\ o[Len(o)] = rows[Len(rows)]
        /\ \A n \in 1..(Len(o) - 1) : o[n].range # AllDay
        /\ \A i \in 1..(Len(rows) - 1) : InRange(now, rows[i].range) =>
             \E n \in 1..(Len(o) - 1) : o[n] = rows[i]
    BY <1>3, <2>1, AllDayComesLast
  <2> QED
    BY <1>5, <2>2
<1>10. \A k \in 1..N : \E j \in 1..L : order[k] = rows[j]
  BY <1>3, <1>5, OrderedRows
<1>11. item' = PickFromSlots(rows, Registered, now, lastSlot, index).item
  BY DEF SelectSlotAt, rows
<1>12. lastSlot \in Int /\ index \in Nat
  BY DEF SchedulerTyped
<1>13. item'.slot = 99 /\ item' # NothingFound
  BY DEF FallbackSlot, NothingFound
<1>14. \A n \in 1..Len(rows) : rows[n].slot # 0
  <2> TAKE n \in 1..Len(rows)
  <2>1. n = L \/ n \in 1..(L - 1)
    BY <1>2, <1>5
  <2> QED
    BY <1>7, <1>8, <2>1
<1>15. PICK m \in 1..N : /\ item'.slot = order[m].slot
                         /\ \A k \in 1..(m - 1) : ~Gives(Registered, order[k])
  <2>1. PickFromSlots(rows, Registered, now, lastSlot, index).item # NothingFound
    BY <1>11, <1>13
  <2> HIDE DEF order
  <2>2. \E m \in 1..N : /\ PickFromSlots(rows, Registered, now, lastSlot, index).item.slot = order[m].slot
                        /\ \A k \in 1..(m - 1) : ~Gives(Registered, order[k])
    BY <1>3, <1>12, <1>14, <2>1, PickFinds DEF order
  <2> QED
    BY <1>11, <2>2
<1> HIDE DEF order
<1>16. N \in Nat
  BY <1>9
<1>17. m = N
  <2>1. PICK j \in 1..L : order[m] = rows[j]
    BY <1>10
  <2>2. rows[j].slot = 99
    BY <1>13, <1>15, <2>1
  <2>3. j = L
    <3>1. j \in 1..(L - 1) => j = 99
      BY <1>8, <2>2
    <3> QED
      BY <1>2, <3>1
  <2>4. m \notin 1..(N - 1)
    BY <1>7, <1>9, <2>1, <2>3
  <2> QED
    BY <1>16, <2>4
<1>18. \A i \in 1..L : rows[i].slot # 99 /\ InRange(now, rows[i].range) =>
         ~(ToSet(rows[i].list) \subseteq Registered)
  <2> SUFFICES ASSUME NEW i \in 1..L, rows[i].slot # 99, InRange(now, rows[i].range)
               PROVE  ~(ToSet(rows[i].list) \subseteq Registered)
    OBVIOUS
  <2>1. i \in 1..(L - 1)
    BY <1>2, <1>7
  <2>2. PICK k \in 1..(N - 1) : order[k] = rows[i]
    BY <1>9, <2>1
  <2>3. ~Gives(Registered, rows[i])
    BY <1>15, <1>17, <2>2
  <2>4. PICK p \in 1..Len(rows[i].list) : rows[i].list[p] \notin Registered
    BY <1>8, <2>1, <2>3 DEF Gives
  <2>5. rows[i].list[p] \in ToSet(rows[i].list)
    <3>1. rows[i] \in SlotRows
      BY <1>3, <1>5
    <3>2. rows[i].list \in Seq(Ads)
      BY <3>1, RowsFacts DEF RowType
    <3>3. DOMAIN rows[i].list = 1..Len(rows[i].list)
      BY <3>2
    <3> QED
      BY <3>3 DEF ToSet
  <2> QED
    BY <2>4, <2>5
<1> QED
  BY <1>5, <1>18 DEF rows, FallbackSlot
================================================================================
