-------------------------------- MODULE Watchdog --------------------------------
(* The watchdog and the player processes it starts.  monitorLoop and the thread *)
(* that reads the WebSocket (handleCloudCommand, REBOOT) run stopPlayer and     *)
(* startPlayer on the same player_pid_, an int without a lock; they are cut at  *)
(* their system calls and at every access to it.  The player's side is what     *)
(* EdgeManager's threads and destructor, and SDL's signal handler, make of a    *)
(* SIGTERM.                                                                     *)
EXTENDS Integers, FiniteSets

CONSTANTS
  MaxForks,   (* bound: player processes ever started                          *)
  MaxFaults,  (* bound: faults of the player                                   *)
  MaxReboots  (* bound: REBOOT commands                                        *)

ASSUME WatchdogConstants ==
  MaxForks \in Nat \ {0} /\ MaxFaults \in Nat /\ MaxReboots \in Nat

Procs == 1..MaxForks
NoPid == -1
Callers == {"monitor", "ws"}

VARIABLES
  st,        (* what a player process is doing, see ProcStates                 *)
  forks,     (* processes started so far                                       *)
  pid,       (* player_pid_                                                    *)
  silent,    (* more than 30 s since last_heartbeat_time_                      *)
  pc,        (* where monitorLoop and the ws thread stand                      *)
  waitFor,   (* the argument of a thread's waitpid, or the result of its fork  *)
  faults, reboots,
  raced,     (* history: both threads were in stopPlayer or startPlayer        *)
  signalled  (* the argument of a thread's last kill                           *)

vars == <<st, forks, pid, silent, pc, waitFor, faults, reboots, raced, signalled>>

(* none      not started                                                        *)
(* starting  init(): first sync, downloads; no heartbeat thread, no SDL yet     *)
(* up        the main loop turns                                                *)
(* hung      the main loop is stuck in the decoder; heartbeats go on            *)
(* thrown    an exception left run(): the destructor joins the heartbeat thread *)
(* halted    run() returned after the window was closed; same destructor, but   *)
(*           SDL_Quit has given SIGTERM its default meaning back                *)
(* leaving   run() returned with should_exit_: no heartbeats any more; the      *)
(*           destructor joins the command thread, which sits in recvfrom        *)
(* zombie    exited, not waited for                                             *)
(* gone      reaped                                                             *)
ProcStates == {"none", "starting", "up", "hung", "thrown", "halted", "leaving",
               "zombie", "gone"}
Beating == {"up", "hung", "thrown", "halted"}
Alive(p) == st[p] \notin {"none", "zombie", "gone"}
Child(p) == st[p] \notin {"none", "gone"}

Init ==
  /\ st = [p \in Procs |-> "none"]
  /\ forks = 0
  /\ pid = NoPid
  /\ silent = FALSE
  /\ pc = [x \in Callers |-> IF x = "monitor" THEN "startCheck" ELSE "idle"]
  /\ waitFor = [x \in Callers |-> NoPid]
  /\ faults = 0
  /\ reboots = 0
  /\ raced = FALSE
  /\ signalled = [x \in Callers |-> NoPid]

threads == <<pid, pc, waitFor, raced, signalled>>

--------------------------------------------------------------------------------
(* The player.                                                                  *)

InitDone(p) ==
  /\ st[p] = "starting"
  /\ st' = [st EXCEPT ![p] = "up"]
  /\ UNCHANGED <<forks, silent, threads, faults, reboots>>

(* A crash, a stuck decoder, a rollback that throws, a closed window. *)
PlayerFault(p) ==
  /\ faults < MaxFaults
  /\ faults' = faults + 1
  /\ \/ Alive(p) /\ st' = [st EXCEPT ![p] = "zombie"]
     \/ st[p] = "up" /\ \E s \in {"hung", "thrown", "halted"} : st' = [st EXCEPT ![p] = s]
  /\ UNCHANGED <<forks, silent, threads, reboots>>

(* watchdogHeartbeatLoop, every 5 s, to localHeartbeatServer. *)
Heartbeat ==
  /\ \E p \in Procs : st[p] \in Beating
  /\ silent
  /\ silent' = FALSE
  /\ UNCHANGED <<st, forks, threads, faults, reboots>>

(* 30 s pass and nobody beats.  A start that takes that long counts as a fault. *)
Silence ==
  /\ ~silent
  /\ pid # NoPid
  /\ \A p \in Procs : st[p] \notin Beating
  /\ silent' = TRUE
  /\ IF \E p \in Procs : st[p] = "starting"
     THEN faults < MaxFaults /\ faults' = faults + 1
     ELSE UNCHANGED faults
  /\ UNCHANGED <<st, forks, threads, reboots>>

(* The ws thread passes every other message on by UDP, the gateway's pong every *)
(* 10 s among them: the command thread of a leaving player returns from         *)
(* recvfrom, and the destructor ends.                                           *)
ForwardCommand(p) ==
  /\ pc["ws"] = "idle"
  /\ st[p] = "leaving"
  /\ st' = [st EXCEPT ![p] = "zombie"]
  /\ UNCHANGED <<forks, silent, threads, faults, reboots>>

ImmuneOnceDown(s, playing) ==  (* mutant: SIG_IGN while it shuts down *)
  CASE s = "up"       -> IF playing THEN "halted" ELSE "leaving"
    [] s = "starting" -> "zombie"
    [] OTHER          -> s

(* SIGTERM.  Between SDL_Init and SDL_Quit it is an SDL_QUIT event: Update      *)
(* closes the window during playback and run() returns without should_exit_,    *)
(* the pauses between two plays set it; a loop that is stuck, or has left       *)
(* without SDL_Quit, never looks.                                               *)
AfterSigterm(s, playing) ==
  CASE s = "up"                                -> IF playing THEN "halted" ELSE "leaving"
    [] s \in {"starting", "halted", "leaving"} -> "zombie"
    [] OTHER                                   -> s

--------------------------------------------------------------------------------
(* stopPlayer and startPlayer, run by thread x.                                 *)

Goes(x, where) ==
  /\ pc' = [pc EXCEPT ![x] = where]
  /\ raced' = (raced \/ (where # "idle" /\ \E y \in Callers \ {x} : pc[y] # "idle"))

StopCheck(x) ==
  /\ pc[x] = "stopCheck"
  /\ Goes(x, IF pid # NoPid THEN "kill" ELSE "startCheck")
  /\ UNCHANGED <<st, forks, pid, silent, waitFor, faults, reboots, signalled>>

(* kill(player_pid_, SIGTERM): -1 means every process there is. *)
Kill(x) ==
  /\ pc[x] = "kill"
  /\ \E playing \in SUBSET {p \in Procs : st[p] = "up"} :
       st' = [p \in Procs |-> IF pid \in {p, NoPid} THEN AfterSigterm(st[p], p \in playing)
                                                    ELSE st[p]]
  /\ signalled' = [signalled EXCEPT ![x] = pid]
  /\ Goes(x, "wait")
  /\ UNCHANGED <<forks, pid, silent, waitFor, faults, reboots>>

(* waitpid(player_pid_, &status, 0) ... *)
Wait(x) ==
  /\ pc[x] = "wait"
  /\ waitFor' = [waitFor EXCEPT ![x] = pid]
  /\ Goes(x, "waiting")
  /\ UNCHANGED <<st, forks, pid, silent, faults, reboots, signalled>>

(* ... returns with a zombie, or because there is no such child. *)
Awaited(x) == {p \in Procs : waitFor[x] \in {p, NoPid}}

DoesNotWait(x) == UNCHANGED st  (* mutant: WNOHANG *)

Reaps(x) ==
  \/ \E p \in Awaited(x) : st[p] = "zombie" /\ st' = [st EXCEPT ![p] = "gone"]
  \/ (\A p \in Awaited(x) : ~Child(p)) /\ UNCHANGED st

WaitReturns(x) ==
  /\ pc[x] = "waiting"
  /\ Reaps(x)
  /\ waitFor' = [waitFor EXCEPT ![x] = NoPid]
  /\ Goes(x, "clear")
  /\ UNCHANGED <<forks, pid, silent, faults, reboots, signalled>>

ClearedToZero == 0  (* mutant: 0 for "no player" *)

Cleared == NoPid

(* player_pid_ = -1 *)
Clear(x) ==
  /\ pc[x] = "clear"
  /\ pid' = Cleared
  /\ Goes(x, "startCheck")
  /\ UNCHANGED <<st, forks, silent, waitFor, faults, reboots, signalled>>

(* if (player_pid_ > 0) return *)
StartCheck(x) ==
  /\ pc[x] = "startCheck"
  /\ Goes(x, IF pid # NoPid THEN "idle" ELSE "fork")
  /\ UNCHANGED <<st, forks, pid, silent, waitFor, faults, reboots, signalled>>

Fork(x) ==
  /\ pc[x] = "fork"
  /\ forks < MaxForks
  /\ forks' = forks + 1
  /\ st' = [st EXCEPT ![forks + 1] = "starting"]
  /\ waitFor' = [waitFor EXCEPT ![x] = forks + 1]
  /\ Goes(x, "setPid")
  /\ UNCHANGED <<pid, silent, faults, reboots, signalled>>

(* fork() < 0: a fault, or the bound on forks; the next check tries again *)
ForkFails(x) ==
  /\ pc[x] = "fork"
  /\ \/ forks = MaxForks /\ UNCHANGED faults
     \/ forks < MaxForks /\ faults < MaxFaults /\ faults' = faults + 1
  /\ Goes(x, "idle")
  /\ UNCHANGED <<st, forks, pid, silent, waitFor, reboots, signalled>>

(* player_pid_ = pid; last_heartbeat_time_ = now *)
SetPid(x) ==
  /\ pc[x] = "setPid"
  /\ pid' = waitFor[x]
  /\ silent' = FALSE
  /\ waitFor' = [waitFor EXCEPT ![x] = NoPid]
  /\ Goes(x, "idle")
  /\ UNCHANGED <<st, forks, faults, reboots, signalled>>

--------------------------------------------------------------------------------
NeverOverdue == FALSE  (* mutant: the heartbeat time-out is not looked at *)

Overdue == silent

(* monitorLoop, every 5 s: waitpid(player_pid_, WNOHANG), then the heartbeat. *)
Monitor ==
  /\ pc["monitor"] = "idle"
  /\ \/ pid = NoPid /\ Goes("monitor", "startCheck") /\ UNCHANGED st
     \/ /\ pid # NoPid /\ ~Alive(pid)
        /\ st' = [st EXCEPT ![pid] = "gone"]
        /\ Goes("monitor", "clear")
     \/ /\ pid # NoPid /\ Alive(pid) /\ Overdue
        /\ Goes("monitor", "stopCheck")
        /\ UNCHANGED st
  /\ UNCHANGED <<forks, pid, silent, waitFor, faults, reboots, signalled>>

(* handleCloudCommand: REBOOT *)
Reboot ==
  /\ pc["ws"] = "idle"
  /\ reboots < MaxReboots
  /\ reboots' = reboots + 1
  /\ Goes("ws", "stopCheck")
  /\ UNCHANGED <<st, forks, pid, silent, waitFor, faults, signalled>>

Next ==
  \/ \E p \in Procs : InitDone(p) \/ PlayerFault(p) \/ ForwardCommand(p)
  \/ Heartbeat \/ Silence
  \/ \E x \in Callers :
       \/ StopCheck(x) \/ Kill(x) \/ Wait(x) \/ WaitReturns(x) \/ Clear(x)
       \/ StartCheck(x) \/ Fork(x) \/ ForkFails(x) \/ SetPid(x)
  \/ Monitor \/ Reboot

(* Threads run, time passes, a start ends, and the link to the gateway is up    *)
(* often enough for a pong; no command and no fault is owed.                    *)
Fairness ==
  /\ \A p \in Procs : WF_vars(InitDone(p)) /\ WF_vars(ForwardCommand(p))
  /\ WF_vars(Heartbeat) /\ WF_vars(Silence)
  /\ \A x \in Callers :
       /\ WF_vars(StopCheck(x)) /\ WF_vars(Kill(x)) /\ WF_vars(Wait(x))
       /\ WF_vars(WaitReturns(x)) /\ WF_vars(Clear(x)) /\ WF_vars(StartCheck(x))
       /\ WF_vars(Fork(x) \/ ForkFails(x)) /\ WF_vars(SetPid(x))
  /\ WF_vars(Monitor)

Spec == Init /\ [][Next]_vars
FairSpec == Spec /\ Fairness

--------------------------------------------------------------------------------
Places == {"idle", "stopCheck", "kill", "wait", "waiting", "clear", "startCheck",
           "fork", "setPid"}

TypeOK ==
  /\ st \in [Procs -> ProcStates]
  /\ forks \in 0..MaxForks
  /\ pid \in Procs \cup {NoPid}
  /\ silent \in BOOLEAN
  /\ pc \in [Callers -> Places]
  /\ waitFor \in [Callers -> Procs \cup {NoPid}]
  /\ faults \in 0..MaxFaults
  /\ reboots \in 0..MaxReboots
  /\ raced \in BOOLEAN
  /\ signalled \in [Callers -> Procs \cup {NoPid}]
  /\ \A p \in Procs : st[p] = "none" <=> p > forks

(* As long as no REBOOT met the monitor's own restart, there is never more than *)
(* one player, player_pid_ names the last one started, and no signal goes to    *)
(* any other process.                                                           *)
OnePlayerUnlessRaced ==
  ~raced =>
    /\ \A p \in Procs : Child(p) => p = forks
    /\ pid \in {NoPid, forks}
    /\ \A x \in Callers : pc[x] \in {"wait", "waiting"} => signalled[x] = forks

(* What the race of the two threads over player_pid_ leaves behind: two players, *)
(* or a thread in waitpid on another player than the one it signalled and the    *)
(* one player_pid_ names, which stopPlayer rereads before each call.             *)
Mixed ==
  \/ \E p, q \in Procs : p # q /\ Child(p) /\ Child(q)
  \/ \E x \in Callers : pc[x] = "waiting" /\ {signalled[x], waitFor[x]} # {pid} \ {NoPid}

Beats == \E p \in Procs : st[p] \in Beating

(* stopPlayer blocks in waitpid.  It comes back, and the thread with it, unless *)
(* the player goes on beating or the threads got mixed up: the time-out or the  *)
(* next message ends a player that is silent, whichever thread waits for it.    *)
StopReturns ==
  \A x \in Callers : pc[x] = "waiting" ~> (pc[x] # "waiting" \/ Mixed \/ Beats)

(* A player that crashes, or stops beating, is not watched for ever: it is      *)
(* reaped and player_pid_ moves on, with the same exceptions.                   *)
SilentReplaced ==
  \A p \in Procs :
    (pid = p /\ st[p] \in {"zombie", "leaving"}) ~> (pid # p \/ Mixed \/ Beats)
================================================================================
