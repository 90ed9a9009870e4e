----------------------------- MODULE Watchdog_proofs -----------------------------
(* Proofs about Watchdog, for any number of players, faults and REBOOTs.           *)
EXTENDS Watchdog, TLAPS

(* Every pid that is held is one of a process that was started.                    *)
PidsStarted == pid <= forks /\ \A x \in Callers : waitFor[x] <= forks

TypeInv == TypeOK /\ PidsStarted

(* What the two threads make of player_pid_ as long as they have not met: at most  *)
(* one of them is in stopPlayer or startPlayer, and where it stands says whether   *)
(* there is a player and whether player_pid_ names it.                             *)
NoChild == \A p \in Procs : ~Child(p)

OneAtWork == \A x, y \in Callers : x = y \/ pc[x] = "idle" \/ pc[y] = "idle"

Stands(x) ==
  /\ pc[x] \in {"kill", "wait", "waiting"} => pid # NoPid
  /\ pc[x] \in {"wait", "waiting"} => signalled[x] = forks
  /\ pc[x] = "waiting" => waitFor[x] = pid
  /\ pc[x] = "clear" => NoChild
  /\ pc[x] = "fork" => pid = NoPid
  /\ pc[x] = "setPid" => pid = NoPid /\ waitFor[x] = forks

Lonely ==
  /\ OneAtWork
  /\ \A p \in Procs : Child(p) => p = forks
  /\ pid \in {NoPid, forks}
  /\ pid = NoPid => NoChild \/ \E x \in Callers : pc[x] = "setPid"
  /\ \A x \in Callers : Stands(x)

LonelyInv == ~raced => Lonely

--------------------------------------------------------------------------------
(* A caller that goes on has its type.                                          *)
LEMMA GoesType ==
  ASSUME TypeOK, NEW x \in Callers, NEW where \in Places, Goes(x, where)
  PROVE  pc' \in [Callers -> Places] /\ raced' \in BOOLEAN
BY DEF TypeOK, Goes

(* TypeInv holds at the start.                                                  *)
LEMMA TypeInit == Init => TypeInv
<1> SUFFICES ASSUME Init PROVE TypeInv
  OBVIOUS
<1> USE WatchdogConstants DEF Init
<1>1. st \in [Procs -> ProcStates] /\ \A p \in Procs : st[p] = "none" <=> p > forks
  BY DEF ProcStates, Procs
<1>2. pc \in [Callers -> Places]
  BY DEF Places
<1>3. /\ waitFor \in [Callers -> Procs \cup {NoPid}] /\ signalled \in [Callers -> Procs \cup {NoPid}]
      /\ \A x \in Callers : waitFor[x] <= forks
  BY DEF NoPid
<1>4. /\ forks \in 0..MaxForks /\ faults \in 0..MaxFaults /\ reboots \in 0..MaxReboots
      /\ pid \in Procs \cup {NoPid} /\ pid <= forks
  BY DEF NoPid
<1>5. silent \in BOOLEAN /\ raced \in BOOLEAN
  OBVIOUS
<1>6. QED
  BY <1>1, <1>2, <1>3, <1>4, <1>5 DEF TypeInv, TypeOK, PidsStarted

(* TypeInv is inductive.                                                        *)
LEMMA TypeStep == TypeInv /\ [Next]_vars => TypeInv'
<1> SUFFICES ASSUME TypeInv, [Next]_vars PROVE TypeInv'
  OBVIOUS
<1> USE WatchdogConstants DEF threads
<1>t. /\ st \in [Procs -> ProcStates] /\ forks \in 0..MaxForks
      /\ pid \in Procs \cup {NoPid} /\ silent \in BOOLEAN /\ pc \in [Callers -> Places]
      /\ waitFor \in [Callers -> Procs \cup {NoPid}]
      /\ faults \in 0..MaxFaults /\ reboots \in 0..MaxReboots /\ raced \in BOOLEAN
      /\ signalled \in [Callers -> Procs \cup {NoPid}]
      /\ \A p \in Procs : st[p] = "none" <=> p > forks
      /\ PidsStarted
  BY DEF TypeInv, TypeOK
<1>w. \A w \in Places : \A x \in Callers :
        Goes(x, w) => pc' \in [Callers -> Places] /\ raced' \in BOOLEAN
  BY GoesType DEF TypeInv
<1> USE DEF Procs, NoPid
<1>1. ASSUME NEW p \in Procs, InitDone(p) PROVE TypeInv'
  BY <1>t, <1>1 DEF TypeInv, TypeOK, PidsStarted, InitDone, ProcStates
<1>2. ASSUME NEW p \in Procs, PlayerFault(p) PROVE TypeInv'
  <2>1. st' \in [Procs -> ProcStates] /\ \A q \in Procs : st'[q] = "none" <=> st[q] = "none"
    BY <1>t, <1>2 DEF PlayerFault, ProcStates, Alive
  <2>2. QED
    BY <1>t, <1>2, <2>1 DEF TypeInv, TypeOK, PidsStarted, PlayerFault
<1>3. ASSUME NEW p \in Procs, ForwardCommand(p) PROVE TypeInv'
  BY <1>t, <1>3 DEF TypeInv, TypeOK, PidsStarted, ForwardCommand, ProcStates
<1>4. CASE Heartbeat
  BY <1>t, <1>4 DEF TypeInv, TypeOK, PidsStarted, Heartbeat
<1>5. CASE Silence
  BY <1>t, <1>5 DEF TypeInv, TypeOK, PidsStarted, Silence
<1>6. ASSUME NEW x \in Callers, StopCheck(x) PROVE TypeInv'
  <2>1. Goes(x, "kill") \/ Goes(x, "startCheck")
    BY <1>6 DEF StopCheck
  <2>2. pc' \in [Callers -> Places] /\ raced' \in BOOLEAN
    BY <1>w, <2>1 DEF Places
  <2>3. QED
    BY <1>t, <1>6, <2>2 DEF TypeInv, TypeOK, PidsStarted, StopCheck
<1>7. ASSUME NEW x \in Callers, Kill(x) PROVE TypeInv'
  <2>1. pc' \in [Callers -> Places] /\ raced' \in BOOLEAN
    BY <1>7, <1>w DEF Kill, Places
  <2>2. PICK playing \in SUBSET {p \in Procs : st[p] = "up"} :
          st' = [p \in Procs |-> IF pid \in {p, NoPid} THEN AfterSigterm(st[p], p \in playing)
                                                       ELSE st[p]]
    BY <1>7 DEF Kill
  <2>3. \A p \in Procs : st'[p] \in ProcStates /\ (st'[p] = "none" <=> st[p] = "none")
    <3> SUFFICES ASSUME NEW p \in Procs PROVE st'[p] \in ProcStates /\ (st'[p] = "none" <=> st[p] = "none")
      OBVIOUS
    <3>1. st[p] \in ProcStates
      BY <1>t
    <3>2. CASE p \in playing
      BY <2>2, <3>1, <3>2 DEF AfterSigterm, ProcStates
    <3>3. CASE p \notin playing
      BY <2>2, <3>1, <3>3 DEF AfterSigterm, ProcStates
    <3>4. QED
      BY <3>2, <3>3
  <2>4. st' \in [Procs -> ProcStates]
    BY <2>2, <2>3
  <2>5. UNCHANGED <<forks, pid, silent, waitFor, faults, reboots>>
        /\ signalled' \in [Callers -> Procs \cup {NoPid}]
    BY <1>t, <1>7 DEF Kill
  <2>6. QED
    BY <1>t, <2>1, <2>3, <2>4, <2>5 DEF TypeInv, TypeOK, PidsStarted
<1>8. ASSUME NEW x \in Callers, Wait(x) PROVE TypeInv'
  <2>1. pc' \in [Callers -> Places] /\ raced' \in BOOLEAN
    BY <1>8, <1>w DEF Wait, Places
  <2>2. QED
    BY <1>t, <1>8, <2>1 DEF TypeInv, TypeOK, PidsStarted, Wait
<1>9. ASSUME NEW x \in Callers, WaitReturns(x) PROVE TypeInv'
  <2>1. pc' \in [Callers -> Places] /\ raced' \in BOOLEAN
    BY <1>9, <1>w DEF WaitReturns, Places
  <2>2. st' \in [Procs -> ProcStates] /\ \A p \in Procs : st'[p] = "none" <=> st[p] = "none"
    <3>1. CASE UNCHANGED st
      BY <1>t, <3>1
    <3>2. ASSUME NEW q \in Procs, st[q] = "zombie", st' = [st EXCEPT ![q] = "gone"]
          PROVE  st' \in [Procs -> ProcStates] /\ \A p \in Procs : st'[p] = "none" <=> st[p] = "none"
      BY <1>t, <3>2 DEF ProcStates
    <3>3. QED
      BY <1>9, <3>1, <3>2 DEF WaitReturns, Reaps, Awaited
  <2>3. QED
    <3>1. waitFor' \in [Callers -> Procs \cup {NoPid}] /\ \A y \in Callers : waitFor'[y] <= forks
      BY <1>t, <1>9 DEF WaitReturns, PidsStarted
    <3>2. UNCHANGED <<forks, pid, silent, faults, reboots, signalled>>
      BY <1>9 DEF WaitReturns
    <3>3. QED
      BY <1>t, <2>1, <2>2, <3>1, <3>2 DEF TypeInv, TypeOK, PidsStarted
<1>10. ASSUME NEW x \in Callers, Clear(x) PROVE TypeInv'
  <2>1. pc' \in [Callers -> Places] /\ raced' \in BOOLEAN
    BY <1>10, <1>w DEF Clear, Places
  <2>2. QED
    BY <1>t, <1>10, <2>1 DEF TypeInv, TypeOK, PidsStarted, Clear, Cleared
<1>11. ASSUME NEW x \in Callers, StartCheck(x) PROVE TypeInv'
  <2>1. Goes(x, "idle") \/ Goes(x, "fork")
    BY <1>11 DEF StartCheck
  <2>2. pc' \in [Callers -> Places] /\ raced' \in BOOLEAN
    BY <1>w, <2>1 DEF Places
  <2>3. QED
    BY <1>t, <1>11, <2>2 DEF TypeInv, TypeOK, PidsStarted, StartCheck
<1>12. ASSUME NEW x \in Callers, Fork(x) PROVE TypeInv'
  <2>1. pc' \in [Callers -> Places] /\ raced' \in BOOLEAN
    BY <1>12, <1>w DEF Fork, Places
  <2>2. QED
    <3>1. forks + 1 \in Procs /\ forks' = forks + 1 /\ forks' \in 0..MaxForks
      BY <1>t, <1>12 DEF Fork
    <3>2. st' \in [Procs -> ProcStates] /\ \A p \in Procs : st'[p] = "none" <=> p > forks'
      BY <1>t, <1>12, <3>1 DEF Fork, ProcStates
    <3>3. waitFor' \in [Callers -> Procs \cup {NoPid}] /\ \A y \in Callers : waitFor'[y] <= forks'
      BY <1>t, <1>12, <3>1 DEF Fork, PidsStarted
    <3>4. UNCHANGED <<pid, silent, faults, reboots, signalled>>
      BY <1>12 DEF Fork
    <3>5. pid <= forks'
      BY <1>t, <3>1 DEF PidsStarted
    <3>6. QED
      BY <1>t, <2>1, <3>1, <3>2, <3>3, <3>4, <3>5 DEF TypeInv, TypeOK, PidsStarted
<1>13. ASSUME NEW x \in Callers, ForkFails(x) PROVE TypeInv'
  <2>1. pc' \in [Callers -> Places] /\ raced' \in BOOLEAN
    BY <1>13, <1>w DEF ForkFails, Places
  <2>2. QED
    BY <1>t, <1>13, <2>1 DEF TypeInv, TypeOK, PidsStarted, ForkFails
<1>14. ASSUME NEW x \in Callers, SetPid(x) PROVE TypeInv'
  <2>1. pc' \in [Callers -> Places] /\ raced' \in BOOLEAN
    BY <1>14, <1>w DEF SetPid, Places
  <2>2. QED
    <3>1. waitFor' \in [Callers -> Procs \cup {NoPid}] /\ \A y \in Callers : waitFor'[y] <= forks
      BY <1>t, <1>14 DEF SetPid, PidsStarted
    <3>2. pid' \in Procs \cup {NoPid} /\ pid' <= forks /\ silent' \in BOOLEAN
      BY <1>t, <1>14 DEF SetPid, PidsStarted
    <3>3. UNCHANGED <<st, forks, faults, reboots, signalled>>
      BY <1>14 DEF SetPid
    <3>4. QED
      BY <1>t, <2>1, <3>1, <3>2, <3>3 DEF TypeInv, TypeOK, PidsStarted
<1>15. CASE Monitor
  <2>1. Goes("monitor", "startCheck") \/ Goes("monitor", "clear") \/ Goes("monitor", "stopCheck")
    BY <1>15 DEF Monitor
  <2>2. pc' \in [Callers -> Places] /\ raced' \in BOOLEAN
    BY <1>w, <2>1 DEF Places, Callers
  <2>3. st' \in [Procs -> ProcStates] /\ \A p \in Procs : st'[p] = "none" <=> st[p] = "none"
    BY <1>t, <1>15 DEF Monitor, Alive, ProcStates, PidsStarted
  <2>4. QED
    BY <1>t, <1>15, <2>2, <2>3 DEF TypeInv, TypeOK, PidsStarted, Monitor
<1>16. CASE Reboot
  <2>1. pc' \in [Callers -> Places] /\ raced' \in BOOLEAN
    BY <1>16, <1>w DEF Reboot, Places, Callers
  <2>2. QED
    BY <1>t, <1>16, <2>1 DEF TypeInv, TypeOK, PidsStarted, Reboot
<1>17. CASE UNCHANGED vars
  BY <1>t, <1>17 DEF TypeInv, TypeOK, PidsStarted, vars
<1>18. QED
  BY <1>1, <1>2, <1>3, <1>4, <1>5, <1>6, <1>7, <1>8, <1>9, <1>10, <1>11, <1>12, <1>13, <1>14,
     <1>15, <1>16, <1>17 DEF Next

(* The variables have their types; a process is "none" exactly until it is forked. *)
THEOREM TypeCorrect == Spec => []TypeOK
BY TypeInit, TypeStep, PTL DEF Spec, TypeInv

--------------------------------------------------------------------------------
(* A thread that moves while the other one is at work has met it.                  *)
LEMMA MovesAlone ==
  ASSUME TypeOK, OneAtWork, NEW x \in Callers, NEW where \in Places, Goes(x, where), ~raced'
  PROVE  /\ ~raced
         /\ OneAtWork'
         /\ pc' = [pc EXCEPT ![x] = where]
         /\ pc[x] # "idle" \/ where # "idle" => \A y \in Callers \ {x} : pc[y] = "idle"
BY DEF TypeOK, OneAtWork, Goes

(* LonelyInv holds at the start.                                                *)
LEMMA LonelyInit == Init => LonelyInv
<1> SUFFICES ASSUME Init PROVE Lonely
  BY DEF LonelyInv
<1> USE DEF Init
<1>1. NoChild
  BY DEF NoChild, Child
<1>2. OneAtWork
  BY DEF OneAtWork, Callers
<1>3. \A x \in Callers : Stands(x)
  BY DEF Stands, Callers
<1>4. QED
  BY <1>1, <1>2, <1>3 DEF Lonely, NoChild

(* LonelyInv is inductive, given the types.                                     *)
LEMMA LonelyStep == TypeInv /\ TypeInv' /\ LonelyInv /\ [Next]_vars => LonelyInv'
<1> SUFFICES ASSUME TypeInv, TypeInv', LonelyInv, [Next]_vars, ~raced' PROVE Lonely'
  BY DEF LonelyInv
<1> USE DEF threads
<1>t. /\ st \in [Procs -> ProcStates] /\ forks \in 0..MaxForks
      /\ pid \in Procs \cup {NoPid} /\ pc \in [Callers -> Places]
      /\ waitFor \in [Callers -> Procs \cup {NoPid}]
      /\ signalled \in [Callers -> Procs \cup {NoPid}]
      /\ \A p \in Procs : st[p] = "none" <=> p > forks
  BY DEF TypeInv, TypeOK
<1>r. raced => raced'
  BY DEF Next, Goes, InitDone, PlayerFault, ForwardCommand, Heartbeat, Silence, StopCheck, Kill,
         Wait, WaitReturns, Clear, StartCheck, Fork, ForkFails, SetPid, Monitor, Reboot, vars
<1>l. Lonely
  BY <1>r DEF LonelyInv
<1>m. \A x \in Callers : \A w \in Places :
        Goes(x, w) => /\ OneAtWork'
                      /\ pc' = [pc EXCEPT ![x] = w]
                      /\ pc[x] # "idle" \/ w # "idle" => \A y \in Callers \ {x} : pc[y] = "idle"
  BY <1>l, MovesAlone DEF Lonely, TypeInv
(* The player's own steps, and a SIGTERM, neither make a child nor reap one.       *)
<1>p. ASSUME UNCHANGED <<forks, pid, waitFor, signalled, pc>>,
             \A p \in Procs : Child(p)' => Child(p)
      PROVE  Lonely'
  BY <1>p, <1>l DEF Lonely, OneAtWork, Stands, NoChild
<1>1. ASSUME NEW p \in Procs, InitDone(p) \/ ForwardCommand(p) PROVE Lonely'
  <2>1. \A q \in Procs : Child(q)' => Child(q)
    BY <1>t, <1>1 DEF InitDone, ForwardCommand, Child
  <2>2. QED
    BY <1>p, <1>1, <2>1 DEF InitDone, ForwardCommand
<1>2. ASSUME NEW p \in Procs, PlayerFault(p) PROVE Lonely'
  <2>1. \A q \in Procs : Child(q)' => Child(q)
    BY <1>t, <1>2 DEF PlayerFault, Child, Alive
  <2>2. QED
    BY <1>p, <1>2, <2>1 DEF PlayerFault
<1>3. CASE Heartbeat \/ Silence
  BY <1>p, <1>3 DEF Heartbeat, Silence, Child
<1>4. ASSUME NEW x \in Callers, StopCheck(x) PROVE Lonely'
  <2>1. /\ UNCHANGED <<st, forks, pid, waitFor, signalled>> /\ pc[x] = "stopCheck"
        /\ Goes(x, IF pid # NoPid THEN "kill" ELSE "startCheck")
    BY <1>4 DEF StopCheck
  <2>2. CASE pid # NoPid
    BY <1>t, <1>l, <1>m, <2>1, <2>2 DEF Lonely, Stands, NoChild, Child, Places
  <2>3. CASE pid = NoPid
    BY <1>t, <1>l, <1>m, <2>1, <2>3 DEF Lonely, Stands, NoChild, Child, Places
  <2>4. QED
    BY <2>2, <2>3
<1>5. ASSUME NEW x \in Callers, Kill(x) PROVE Lonely'
  <2>1. /\ UNCHANGED <<forks, pid, waitFor>> /\ pc[x] = "kill"
        /\ Goes(x, "wait") /\ signalled' = [signalled EXCEPT ![x] = pid]
    BY <1>5 DEF Kill
  <2>2. \A p \in Procs : Child(p)' => Child(p)
    <3> SUFFICES ASSUME NEW p \in Procs, st[p] \in {"none", "gone"} PROVE st'[p] = st[p]
      BY DEF Child
    <3>1. QED
      BY <1>5 DEF Kill, AfterSigterm
  <2>3. pid = forks /\ pid # NoPid
    BY <1>l, <2>1 DEF Lonely, Stands
  <2>4. QED
    BY <1>t, <1>l, <1>m, <2>1, <2>2, <2>3 DEF Lonely, Stands, NoChild, Places
<1>6. ASSUME NEW x \in Callers, Wait(x) PROVE Lonely'
  <2>1. /\ UNCHANGED <<st, forks, pid, signalled>> /\ pc[x] = "wait"
        /\ Goes(x, "waiting") /\ waitFor' = [waitFor EXCEPT ![x] = pid]
    BY <1>6 DEF Wait
  <2>2. QED
    BY <1>t, <1>l, <1>m, <2>1 DEF Lonely, Stands, NoChild, Child, Places
<1>7. ASSUME NEW x \in Callers, WaitReturns(x) PROVE Lonely'
  <2>1. /\ UNCHANGED <<forks, pid, signalled>> /\ pc[x] = "waiting" /\ Reaps(x)
        /\ Goes(x, "clear") /\ waitFor' = [waitFor EXCEPT ![x] = NoPid]
    BY <1>7 DEF WaitReturns
  <2>2. waitFor[x] = pid /\ pid = forks /\ pid # NoPid
    BY <1>l, <2>1 DEF Lonely, Stands
  <2>3. Awaited(x) = {forks}
    BY <1>t, <2>2 DEF Awaited
  <2>4. NoChild'
    <3>1. CASE st[forks] = "zombie" /\ st' = [st EXCEPT ![forks] = "gone"]
      BY <1>t, <1>l, <3>1 DEF Lonely, NoChild, Child
    <3>2. CASE ~Child(forks) /\ UNCHANGED st
      BY <1>l, <3>2 DEF Lonely, NoChild, Child
    <3>3. QED
      BY <2>1, <2>3, <3>1, <3>2 DEF Reaps
  <2>5. QED
    BY <1>t, <1>l, <1>m, <2>1, <2>2, <2>4 DEF Lonely, Stands, NoChild, Places
<1>8. ASSUME NEW x \in Callers, Clear(x) PROVE Lonely'
  <2>1. /\ UNCHANGED <<st, forks, waitFor, signalled>> /\ pc[x] = "clear" /\ Goes(x, "startCheck")
        /\ pid' = NoPid
    BY <1>8 DEF Clear, Cleared
  <2>2. NoChild /\ NoChild'
    BY <1>l, <2>1 DEF Lonely, Stands, NoChild, Child
  <2>3. QED
    BY <1>t, <1>l, <1>m, <2>1, <2>2 DEF Lonely, Stands, NoChild, Places
<1>9. ASSUME NEW x \in Callers, StartCheck(x) PROVE Lonely'
  <2>1. /\ UNCHANGED <<st, forks, pid, waitFor, signalled>> /\ pc[x] = "startCheck"
        /\ Goes(x, IF pid # NoPid THEN "idle" ELSE "fork")
    BY <1>9 DEF StartCheck
  <2>2. CASE pid # NoPid
    BY <1>t, <1>l, <1>m, <2>1, <2>2 DEF Lonely, Stands, NoChild, Child, Places
  <2>3. CASE pid = NoPid
    BY <1>t, <1>l, <1>m, <2>1, <2>3 DEF Lonely, Stands, NoChild, Child, Places
  <2>4. QED
    BY <2>2, <2>3
<1>10. ASSUME NEW x \in Callers, Fork(x) PROVE Lonely'
  <2>1. /\ UNCHANGED <<pid, signalled>> /\ pc[x] = "fork" /\ Goes(x, "setPid")
        /\ forks' = forks + 1 /\ st' = [st EXCEPT ![forks + 1] = "starting"]
        /\ waitFor' = [waitFor EXCEPT ![x] = forks + 1]
    BY <1>10 DEF Fork
  <2>2. OneAtWork' /\ pc' = [pc EXCEPT ![x] = "setPid"]
        /\ \A y \in Callers \ {x} : pc[y] = "idle"
    BY <1>m, <2>1 DEF Places
  <2>3. pid = NoPid /\ NoChild
    BY <1>l, <2>1, <2>2 DEF Lonely, Stands
  <2>4. \A p \in Procs : Child(p)' => p = forks'
    BY <1>t, <2>1, <2>3 DEF NoChild, Child
  <2>5. \A y \in Callers : Stands(y)'
    BY <1>t, <2>1, <2>2, <2>3 DEF Stands
  <2>6. QED
    BY <1>t, <2>1, <2>2, <2>3, <2>4, <2>5 DEF Lonely
<1>11. ASSUME NEW x \in Callers, ForkFails(x) PROVE Lonely'
  <2>1. /\ UNCHANGED <<st, forks, pid, waitFor, signalled>> /\ pc[x] = "fork" /\ Goes(x, "idle")
    BY <1>11 DEF ForkFails
  <2>2. QED
    BY <1>t, <1>l, <1>m, <2>1 DEF Lonely, Stands, NoChild, Child, Places
<1>12. ASSUME NEW x \in Callers, SetPid(x) PROVE Lonely'
  <2>1. /\ UNCHANGED <<st, forks, signalled>> /\ pc[x] = "setPid" /\ Goes(x, "idle")
        /\ pid' = waitFor[x] /\ waitFor' = [waitFor EXCEPT ![x] = NoPid]
    BY <1>12 DEF SetPid
  <2>2. pid' = forks /\ pid' # NoPid
    BY <1>l, <1>t, <2>1 DEF Lonely, Stands, NoPid
  <2>3. QED
    BY <1>t, <1>l, <1>m, <2>1, <2>2 DEF Lonely, Stands, NoChild, Child, Places
<1>13. CASE Monitor
  <2>1. UNCHANGED <<forks, pid, waitFor, signalled>> /\ pc["monitor"] = "idle" /\ "monitor" \in Callers
    BY <1>13 DEF Monitor, Callers
  <2>2. CASE pid = NoPid /\ Goes("monitor", "startCheck") /\ UNCHANGED st
    BY <1>t, <1>l, <1>m, <2>1, <2>2 DEF Lonely, Stands, NoChild, Child, Places
  <2>3. CASE pid # NoPid /\ Goes("monitor", "stopCheck") /\ UNCHANGED st
    BY <1>t, <1>l, <1>m, <2>1, <2>3 DEF Lonely, Stands, NoChild, Child, Places
  <2>4. CASE pid # NoPid /\ st' = [st EXCEPT ![pid] = "gone"] /\ Goes("monitor", "clear")
    <3>1. NoChild'
      BY <1>t, <1>l, <2>4 DEF Lonely, NoChild, Child
    <3>2. QED
      BY <1>t, <1>l, <1>m, <2>1, <2>4, <3>1 DEF Lonely, Stands, NoChild, Places
  <2>5. QED
    BY <1>13, <2>2, <2>3, <2>4 DEF Monitor
<1>14. CASE Reboot
  <2>1. /\ UNCHANGED <<st, forks, pid, waitFor, signalled>> /\ pc["ws"] = "idle"
        /\ Goes("ws", "stopCheck") /\ "ws" \in Callers
    BY <1>14 DEF Reboot, Callers
  <2>2. QED
    BY <1>t, <1>l, <1>m, <2>1 DEF Lonely, Stands, NoChild, Child, Places
<1>15. CASE UNCHANGED vars
  BY <1>p, <1>15 DEF vars, Child
<1>16. QED
  BY <1>1, <1>2, <1>3, <1>4, <1>5, <1>6, <1>7, <1>8, <1>9, <1>10, <1>11, <1>12, <1>13, <1>14,
     <1>15 DEF Next

(* As long as no REBOOT met the monitor's own restart, there is never more than    *)
(* one player, player_pid_ names the last one started, and no signal goes to any   *)
(* other process (monitorLoop, stopPlayer, startPlayer).                           *)
THEOREM OnePlayer == Spec => []OnePlayerUnlessRaced
<1>1. LonelyInv => OnePlayerUnlessRaced
  BY DEF LonelyInv, Lonely, Stands, OnePlayerUnlessRaced
<1>2. QED
  BY TypeInit, TypeStep, LonelyInit, LonelyStep, <1>1, PTL DEF Spec
================================================================================
