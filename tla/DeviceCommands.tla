----------------------------- MODULE DeviceCommands -----------------------------
(* Commands and snapshots from the control plane to a device and back: the      *)
(* coroutines of device_snapshot_service.py and commands.py, which share one    *)
(* event loop and the dictionary _waiters, the command_logs rows, the gateway's *)
(* /api/send and its callbacks, each a goroutine of its own.  One action is one *)
(* turn of the event loop: requests.post blocks it, so registering the waiter,  *)
(* writing the row and sending are one step.                                    *)
EXTENDS Integers, Sequences, FiniteSets

CONSTANTS
  Requests,   (* API requests; also the cmd_id of the command each one sends   *)
  Devices,
  Kind,       (* "capture"; "command", answered with its cmd_id; "reboot",     *)
              (* which the watchdog answers without one                        *)
  Target,     (* Target[r]: the device                                         *)
  None,       (* no request, no picture, no cmd_id                             *)
  Empty,      (* the snapshot_url "" of a failed upload                        *)
  MaxFaults   (* bound: failures of calls, deliveries and database accesses    *)

ASSUME CommandConstants ==
  /\ IsFiniteSet(Requests)
  /\ Kind \in [Requests -> {"capture", "command", "reboot"}]
  /\ Target \in [Requests -> Devices]
  /\ {None, Empty} \cap Requests = {} /\ None # Empty
  /\ MaxFaults \in Nat

Captures == {r \in Requests : Kind[r] = "capture"}

VARIABLES
  req,       (* requests: progress, and the snapshot_url answered              *)
  waiter,    (* _waiters: device -> the request whose event is registered      *)
  data,      (* its "data" entry: the picture the callback left                *)
  woken,     (* requests whose event is set                                    *)
  rows,      (* command_logs: status, result                                   *)
  mem,       (* rows that are in mock_command_db, the database having failed   *)
  order,     (* rows in the order of send_ts                                   *)
  toDevice,  (* commands on their way to a device                              *)
  calls,     (* callbacks on their way to the control plane                    *)
  faults,
  answered,  (* history: commands whose answer left the device                 *)
  guessed,   (* history: rows updated by device id, not by cmd_id              *)
  mixed,     (* history: captures that overlapped another of their device      *)
  skipped    (* history: captures whose answer came in and was not recorded    *)

loopVars == <<req, waiter, data, woken>>
rowVars == <<rows, mem, order>>
history == <<answered, guessed, mixed, skipped>>
vars == <<loopVars, rowVars, toDevice, calls, faults, history>>

Init ==
  /\ req = [r \in Requests |-> [st |-> "idle", url |-> None]]
  /\ waiter = [d \in Devices |-> None]
  /\ data = [d \in Devices |-> None]
  /\ woken = {}
  /\ rows = [r \in Requests |-> [st |-> "none", url |-> None]]
  /\ mem = {}
  /\ order = <<>>
  /\ toDevice = [d \in Devices |-> <<>>]
  /\ calls = {}
  /\ faults = 0
  /\ answered = {}
  /\ guessed = {}
  /\ mixed = {}
  /\ skipped = {}

Fail(F) ==
  /\ faults + Cardinality(F) <= MaxFaults
  /\ faults' = faults + Cardinality(F)

InDb(r) == rows[r].st # "none" /\ r \notin mem

(* A command, or its answer, is still under way. *)
UnderWay(r) ==
  \/ \E i \in DOMAIN toDevice[Target[r]] : toDevice[Target[r]][i] = r
  \/ \E m \in calls : m.req = r

Rivals(r) ==
  {s \in Captures \ {r} : Target[s] = Target[r] /\ (req[s].st = "waiting" \/ UnderWay(s))}

--------------------------------------------------------------------------------
(* send_remote_command: POST /api/send.  It raises when the device is offline   *)
(* or the gateway is too slow (5 s), and then the command may still arrive; a   *)
(* command may also be lost although the gateway answers 200.  insert_command   *)
(* raises, or leaves the row "unwritten": the INSERT is refused, and the UPDATE *)
(* it falls back to finds no row and raises nothing.                            *)
SendFaults == {I \cup S : I \in {{}, {"insert"}, {"unwritten"}},
                         S \in {{}, {"offline"}, {"slow"}, {"lost"}}}
Raises(F) == F \cap {"offline", "slow"} # {}

Delivers(r, F) ==
  toDevice' = IF F \cap {"offline", "lost"} # {} THEN toDevice
              ELSE [toDevice EXCEPT ![Target[r]] = Append(@, r)]

Registered(r) ==
  /\ waiter' = [waiter EXCEPT ![Target[r]] = r]
  /\ data' = [data EXCEPT ![Target[r]] = None]

(* _waiters.pop(device_id, None), whoever's entry it is now. *)
Popped(r) ==
  /\ waiter' = [waiter EXCEPT ![Target[r]] = None]
  /\ data' = [data EXCEPT ![Target[r]] = None]

(* request_device_snapshot up to its await.  A failed insert is ignored; when   *)
(* the send raises, the finally clause has run already.                         *)
RequestSnapshot(r) ==
  /\ r \in Captures
  /\ req[r].st = "idle"
  /\ \E F \in SendFaults :
       /\ Fail(F)
       /\ Delivers(r, F)
       /\ IF Raises(F) THEN Popped(r) ELSE Registered(r)
       /\ req' = [req EXCEPT ![r].st = IF Raises(F) THEN "failed" ELSE "waiting"]
       /\ IF F \cap {"insert", "unwritten"} # {}
          THEN UNCHANGED <<rows, order>>
          ELSE /\ rows' = [rows EXCEPT ![r].st = "pending"]
               /\ order' = Append(order, r)
  /\ mixed' = IF Rivals(r) = {} THEN mixed ELSE mixed \cup Rivals(r) \cup {r}
  /\ UNCHANGED <<woken, mem, calls, answered, guessed, skipped>>

SendStatus(F) == IF Raises(F) THEN "failed" ELSE "sent"

(* send_command, any other action: send, then write the row with the outcome.   *)
(* A failed command's record goes to memory as well, because the exception it   *)
(* is answered with is caught once more.  The record that send_command adds for *)
(* a capture is left out: its cmd_id is sent to nobody and its status is never  *)
(* pending or sent, so that no callback and no guess finds it.                  *)
SendCommand(r) ==
  /\ r \notin Captures
  /\ req[r].st = "idle"
  /\ \E F \in SendFaults :
       /\ Fail(F)
       /\ Delivers(r, F)
       /\ req' = [req EXCEPT ![r].st = IF Raises(F) THEN "failed" ELSE "ok"]
       /\ IF "unwritten" \in F /\ ~Raises(F)
          THEN UNCHANGED <<rows, order>>
          ELSE /\ rows' = [rows EXCEPT ![r].st = SendStatus(F)]
               /\ order' = Append(order, r)
       /\ mem' = IF "insert" \in F \/ ("unwritten" \in F /\ Raises(F)) THEN mem \cup {r} ELSE mem
  /\ UNCHANGED <<waiter, data, woken, calls, history>>

(* The database has its row, and mock_command_db the record that it failed. *)
Copied(r) == InDb(r) /\ rows[r].st = "failed"

(* The wait ends, with the event set or after snapshot_wait_timeout; what it    *)
(* finds under the device id need not be its own.                               *)
Resume(r) ==
  /\ req[r].st = "waiting"
  /\ r \in woken
  /\ LET url == data[Target[r]]
         found == waiter[Target[r]] # None /\ url \notin {None, Empty} IN
     /\ req' = [req EXCEPT ![r] =
          IF found THEN [st |-> "ok", url |-> url] ELSE [st |-> "failed", url |-> None]]
     /\ \/ /\ rows' = IF found /\ InDb(r)
                      THEN [rows EXCEPT ![r] = [st |-> "success", url |-> url]] ELSE rows
           /\ skipped' = IF found THEN skipped ELSE skipped \cup {r}
           /\ UNCHANGED faults
        \/ found /\ Fail({"update"}) /\ skipped' = skipped \cup {r} /\ UNCHANGED rows
  /\ Popped(r)
  /\ UNCHANGED <<woken, mem, order, toDevice, calls, answered, guessed, mixed>>

Timeout(r) ==
  /\ req[r].st = "waiting"
  /\ req' = [req EXCEPT ![r].st = "failed"]
  /\ Popped(r)
  /\ skipped' = IF data[Target[r]] = None THEN skipped ELSE skipped \cup {r}
  /\ UNCHANGED <<woken, rowVars, toDevice, calls, faults, answered, guessed, mixed>>

--------------------------------------------------------------------------------
ReadsOldFile(r) ==  (* mutant: sends snapshot.bmp though nothing was captured *)
  LET old == {s \in answered \cap Captures : Target[s] = Target[r]} IN
  IF old = {} THEN r ELSE CHOOSE s \in old : TRUE

(* The object that is stored for r: the picture the device takes, or nothing at  *)
(* all in it when CaptureSnapshotBMP fails, which no one is told.               *)
Picture(r) == r

(* The device answers its commands in turn.  "upload": OSS has failed, and the  *)
(* gateway calls back with an empty url; "lost": on the way, or the callback.   *)
Answer(d) ==
  /\ toDevice[d] # <<>>
  /\ toDevice' = [toDevice EXCEPT ![d] = Tail(@)]
  /\ LET r == Head(toDevice[d]) IN
     \E F \in {{}, {"lost"}} \cup IF r \in Captures THEN {{"upload"}} ELSE {} :
       /\ Fail(F)
       /\ calls' = IF "lost" \in F THEN calls
                   ELSE calls \cup {[dev |-> d, snapshot |-> r \in Captures,
                                     req |-> IF Kind[r] = "reboot" THEN None ELSE r,
                                     url |-> CASE r \notin Captures -> None
                                               [] F = {"upload"}    -> Empty
                                               [] OTHER             -> Picture(r)]}
       /\ answered' = answered \cup IF "lost" \in F THEN {} ELSE {r}
  /\ UNCHANGED <<loopVars, rowVars, guessed, mixed, skipped>>

MarksDone(r, url) ==  (* mutant: a status of another vocabulary *)
  rows' = [rows EXCEPT ![r] = [st |-> "done", url |-> url]]

MarksNothing(r, url) == UNCHANGED rows  (* mutant: no commit *)

Marks(r, url) == rows' = [rows EXCEPT ![r] = [st |-> "success", url |-> url]]

(* update_command_status by device: the latest row of S still in progress.      *)
Open(S, d) ==
  {i \in DOMAIN order : order[i] \in S /\ Target[order[i]] = d
                        /\ rows[order[i]].st \in {"pending", "sent"}}
Latest(I) == order[CHOOSE i \in I : \A j \in I : j <= i]

GuessAny(S, d, url) ==  (* mutant: no WHERE device_id *)
  LET open == UNION {Open(S, e) : e \in Devices} IN
  IF open = {} THEN UNCHANGED <<rows, guessed>>
  ELSE Marks(Latest(open), url) /\ guessed' = guessed \cup {Latest(open)}

Guess(S, d, url) ==
  IF Open(S, d) = {} THEN UNCHANGED <<rows, guessed>>
  ELSE Marks(Latest(Open(S, d)), url) /\ guessed' = guessed \cup {Latest(Open(S, d))}

(* receive_snapshot_callback: wake whoever waits for the device, otherwise mark *)
(* the row as a success by req_id, and failing that by device.                  *)
SnapshotCallback(m) ==
  /\ m.snapshot
  /\ calls' = calls \ {m}
  /\ IF waiter[m.dev] # None
     THEN /\ data' = [data EXCEPT ![m.dev] = m.url]
          /\ woken' = woken \cup {waiter[m.dev]}
          /\ UNCHANGED <<rows, faults, guessed, skipped>>
     ELSE /\ \/ /\ IF InDb(m.req) THEN Marks(m.req, m.url) /\ UNCHANGED guessed
                   ELSE Guess(Requests \ mem, m.dev, m.url)
                /\ UNCHANGED <<faults, skipped>>
             \/ /\ Fail({"update"})
                /\ skipped' = skipped \cup {m.req}
                /\ UNCHANGED <<rows, guessed>>
          /\ UNCHANGED <<data, woken>>
  /\ UNCHANGED <<req, waiter, mem, order, toDevice, answered, mixed>>

(* The row that a callback names is updated: in the database, or in memory.     *)
ById(m, F) == m.req # None /\ (m.req \in mem \/ ("update" \notin F /\ InDb(m.req)))

(* command_callback: by cmd_id in the database, then in memory, be it only the  *)
(* copy there of a row that the database has; failing that, cmd_id or not, the  *)
(* device's latest row in progress, database first.                             *)
CommandCallback(m) ==
  /\ ~m.snapshot
  /\ calls' = calls \ {m}
  /\ \E F \in SUBSET {"update", "guess"} :
       /\ Fail(F)
       /\ \/ /\ ById(m, F)
             /\ Marks(m.req, None)
             /\ UNCHANGED guessed
          \/ /\ ~ById(m, F) /\ m.req # None /\ Copied(m.req)
             /\ UNCHANGED <<rows, guessed>>
          \/ /\ ~ById(m, F) /\ ~(m.req # None /\ Copied(m.req))
             /\ Guess(IF "guess" \notin F /\ Open(Requests \ mem, m.dev) # {}
                      THEN Requests \ mem ELSE mem,
                      m.dev, None)
  /\ UNCHANGED <<loopVars, mem, order, toDevice, answered, mixed, skipped>>

--------------------------------------------------------------------------------
Next ==
  \/ \E r \in Requests : RequestSnapshot(r) \/ SendCommand(r) \/ Resume(r) \/ Timeout(r)
  \/ \E d \in Devices : Answer(d)
  \/ \E m \in calls : SnapshotCallback(m) \/ CommandCallback(m)

(* Coroutines run and time out, the device answers, callbacks arrive. *)
Fairness ==
  /\ \A r \in Requests : WF_vars(Resume(r)) /\ WF_vars(Timeout(r))
  /\ \A d \in Devices : WF_vars(Answer(d))
  /\ WF_vars(\E m \in calls : SnapshotCallback(m) \/ CommandCallback(m))

Spec == Init /\ [][Next]_vars
FairSpec == Spec /\ Fairness

--------------------------------------------------------------------------------
Pictures == Captures \cup {None, Empty}

TypeOK ==
  /\ req \in [Requests -> [st : {"idle", "waiting", "ok", "failed"},
                           url : Captures \cup {None}]]
  /\ waiter \in [Devices -> Captures \cup {None}]
  /\ data \in [Devices -> Pictures]
  /\ woken \in SUBSET Captures
  /\ rows \in [Requests -> [st : {"none", "pending", "sent", "failed", "success"},
                            url : Pictures]]
  /\ mem \in SUBSET (Requests \ Captures)
  /\ order \in Seq(Requests)
  /\ toDevice \in [Devices -> Seq(Requests)]
  /\ calls \in SUBSET [dev : Devices, snapshot : BOOLEAN, req : Requests \cup {None},
                       url : Pictures]
  /\ faults \in 0..MaxFaults
  /\ answered \in SUBSET Requests
  /\ guessed \in SUBSET Requests
  /\ mixed \in SUBSET Captures
  /\ skipped \in SUBSET Captures

(* _waiters holds only requests that are still waiting, for their own device: a *)
(* late callback never fills the entry of a finished request, and nothing leaks.*)
WaitersWait ==
  \A d \in Devices :
    /\ waiter[d] # None => req[waiter[d]].st = "waiting" /\ Target[waiter[d]] = d
    /\ data[d] # None => waiter[d] \in woken

(* Entries are keyed by device id and never by request.  A caller still gets    *)
(* the picture its own command took, if no other capture of the device was      *)
(* waiting or had its answer outstanding in the meantime; it always gets one of *)
(* its device.                                                                  *)
OwnPicture ==
  \A r \in Captures : req[r].st = "ok" =>
    /\ Target[req[r].url] = Target[r]
    /\ r \notin mixed => req[r].url = r

(* The waiters and the pictures of device_snapshot_service.py together. *)
PicturesOwned == WaitersWait /\ OwnPicture

(* A row says success only for a command the device did answer, unless the row  *)
(* was found by its device id or the capture got a rival's picture.             *)
SuccessAnswered ==
  \A r \in Requests \ (guessed \cup mixed) : rows[r].st = "success" => r \in answered

(* The guess by device id stays with the device: a row that is not itself       *)
(* answered is a success only if some command of the same device was answered.  *)
GuessStaysHome ==
  \A r \in guessed : \E s \in answered : Target[s] = Target[r]

(* What command_logs may claim. *)
SuccessTrue == SuccessAnswered /\ GuessStaysHome

(* The audit trail is completed, also for a picture that comes after the caller *)
(* has been told 504: again and again every answered capture that had the       *)
(* device to itself is a success, unless the upload or the update failed, or    *)
(* the answer met the time-out in the same turn of the event loop.              *)
LateAnswerRecorded ==
  []<>(\A r \in Captures :
         r \in answered /\ InDb(r) => rows[r].st = "success" \/ r \in mixed \cup skipped)
================================================================================
