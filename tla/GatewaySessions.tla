---------------------------- MODULE GatewaySessions ----------------------------
(* The gateway's device sessions: DeviceManager (manager.go) and the handlers   *)
(* of handler.go that use it.  One goroutine serves each WebSocket; every       *)
(* method of the manager is cut where it releases the map's lock and where it   *)
(* calls Redis, because that is where goroutines interleave.  The clock is the  *)
(* KeepAliveManager's ticker: one Tick is one scan period (10 s).               *)
EXTENDS Integers, FiniteSets

CONSTANTS
  Devices,         (* device ids                                               *)
  Conns,           (* WebSocket connections that may be opened                 *)
  Owner,           (* Owner[c]: the device id the handshake of c carried       *)
  Requests,        (* HTTP requests to /api/send and the snapshot endpoint     *)
  NoConn,          (* "no session" / "no connection"                           *)
  NoDevice,        (* the target of a request that has not arrived             *)
  IdleLimit,       (* KeepAliveManager's 60 s, in ticks                        *)
  TTL,             (* life of a device:online key, 60 s, in ticks              *)
  MaxCrashes,      (* bound: gateway crashes                                   *)
  MaxRedisFaults   (* bound: Redis calls that fail (their errors are ignored)  *)

ASSUME SessionConstants ==
  /\ IsFiniteSet(Devices)
  /\ Owner \in [Conns -> Devices]
  /\ NoConn \notin Conns
  /\ NoDevice \notin Devices
  /\ IdleLimit \in Nat
  /\ TTL \in Nat \ {0}
  /\ MaxCrashes \in Nat
  /\ MaxRedisFaults \in Nat

VARIABLES
  connections,   (* DeviceManager.connections: device -> its session's conn    *)
  lastActive,    (* ticks since the session's LastActive; 0 without a session  *)
  online,        (* devices whose device:online key exists in Redis            *)
  ttl,           (* ticks the key has left; 0 without a key                    *)
  pc,            (* where the goroutine that serves a connection stands        *)
  link,          (* the device's end: "none", "up" or "broken"                 *)
  inbox,         (* a message of the device waits to be read                   *)
  closed,        (* the gateway has called conn.Close                          *)
  call,          (* HTTP requests: progress, target device, conn looked up     *)
  received,      (* commands that reached the device's end of a connection     *)
  crashes,       (* crashes so far                                             *)
  redisFaults,   (* failed Redis calls so far                                  *)
  overlapped     (* history: devices that connected while another of their     *)
                 (* connections was still being served                         *)

sessionVars == <<connections, lastActive>>
redisVars == <<online, ttl, redisFaults>>
connVars == <<pc, link, inbox, closed>>
callVars == <<call, received>>
vars == <<sessionVars, redisVars, connVars, callVars, crashes, overlapped>>

Peers(c) == {o \in Conns \ {c} : Owner[o] = Owner[c]}
Active(c) == pc[c] \notin {"idle", "done"}

Init ==
  /\ connections = [d \in Devices |-> NoConn]
  /\ lastActive = [d \in Devices |-> 0]
  /\ online = {}
  /\ ttl = [d \in Devices |-> 0]
  /\ pc = [c \in Conns |-> "idle"]
  /\ link = [c \in Conns |-> "none"]
  /\ inbox = [c \in Conns |-> FALSE]
  /\ closed = [c \in Conns |-> FALSE]
  /\ call = [r \in Requests |-> [st |-> "idle", dev |-> NoDevice, conn |-> NoConn]]
  /\ received = [c \in Conns |-> {}]
  /\ crashes = 0
  /\ redisFaults = 0
  /\ overlapped = {}

--------------------------------------------------------------------------------
(* The device's end.  Its client (NetworkClient::wsLoop) drops a socket before  *)
(* it opens the next one, so at most one of a device's links is up.             *)

(* HandleWebsocket: CheckAuth and Upgrade have succeeded, Register is next. *)
HandleWebsocket(c) ==
  /\ pc[c] = "idle"
  /\ \A o \in Peers(c) : link[o] # "up"
  /\ pc' = [pc EXCEPT ![c] = "accepted"]
  /\ link' = [link EXCEPT ![c] = "up"]
  /\ overlapped' = IF \E o \in Peers(c) : Active(o)
                   THEN overlapped \cup {Owner[c]} ELSE overlapped
  /\ UNCHANGED <<sessionVars, redisVars, inbox, closed, callVars, crashes>>

DeviceSends(c) ==
  /\ link[c] = "up"
  /\ ~inbox[c]
  /\ inbox' = [inbox EXCEPT ![c] = TRUE]
  /\ UNCHANGED <<sessionVars, redisVars, pc, link, closed, callVars, crashes, overlapped>>

LinkBreaks(c) ==
  /\ link[c] = "up"
  /\ link' = [link EXCEPT ![c] = "broken"]
  /\ UNCHANGED <<sessionVars, redisVars, pc, inbox, closed, callVars, crashes, overlapped>>

--------------------------------------------------------------------------------
(* Redis.  No caller looks at the result of SET, EXPIRE or DEL, so a failed     *)
(* call only leaves the key as it was.                                          *)

RedisFails ==
  /\ redisFaults < MaxRedisFaults
  /\ redisFaults' = redisFaults + 1
  /\ UNCHANGED <<online, ttl>>

RedisSet(d) ==
  \/ /\ online' = online \cup {d}
     /\ ttl' = [ttl EXCEPT ![d] = TTL]
     /\ UNCHANGED redisFaults
  \/ RedisFails

(* EXPIRE does nothing to a key that does not exist. *)
RedisExpire(d) ==
  \/ /\ ttl' = [ttl EXCEPT ![d] = IF d \in online THEN TTL ELSE @]
     /\ UNCHANGED <<online, redisFaults>>
  \/ RedisFails

RedisDel(d) ==
  \/ /\ online' = online \ {d}
     /\ ttl' = [ttl EXCEPT ![d] = 0]
     /\ UNCHANGED redisFaults
  \/ RedisFails

(* The 60 s run out some time after the last whole tick. *)
KeyExpires(d) ==
  /\ d \in online
  /\ ttl[d] = 0
  /\ online' = online \ {d}
  /\ UNCHANGED <<sessionVars, ttl, redisFaults, connVars, callVars, crashes, overlapped>>

--------------------------------------------------------------------------------
(* Register: the map entry under the lock, then the online key outside it. *)
RegisterMap(c) ==
  /\ pc[c] = "accepted"
  /\ connections' = [connections EXCEPT ![Owner[c]] = c]
  /\ lastActive' = [lastActive EXCEPT ![Owner[c]] = 0]
  /\ pc' = [pc EXCEPT ![c] = "registered"]
  /\ UNCHANGED <<redisVars, link, inbox, closed, callVars, crashes, overlapped>>

RegisterOnline(c) ==
  /\ pc[c] = "registered"
  /\ RedisSet(Owner[c])
  /\ pc' = [pc EXCEPT ![c] = "reading"]
  /\ UNCHANGED <<sessionVars, link, inbox, closed, callVars, crashes, overlapped>>

(* DispatchMessage has read a message; UpdateActiveTime refreshes whatever      *)
(* session the device id maps to.                                               *)
UpdateActiveTime(c) ==
  /\ pc[c] = "reading"
  /\ inbox[c]
  /\ ~closed[c]
  /\ inbox' = [inbox EXCEPT ![c] = FALSE]
  /\ lastActive' = [lastActive EXCEPT ![Owner[c]] = 0]
  /\ pc' = [pc EXCEPT ![c] = "touched"]
  /\ UNCHANGED <<connections, redisVars, link, closed, callVars, crashes, overlapped>>

(* ... then EXPIRE outside the lock, and back to ReadJSON. *)
ExtendOnline(c) ==
  /\ pc[c] = "touched"
  /\ RedisExpire(Owner[c])
  /\ pc' = [pc EXCEPT ![c] = "reading"]
  /\ UNCHANGED <<sessionVars, link, inbox, closed, callVars, crashes, overlapped>>

(* ReadJSON returns an error: DispatchMessage leaves its loop. *)
ReadFails(c) ==
  /\ pc[c] = "reading"
  /\ closed[c] \/ link[c] = "broken"
  /\ pc' = [pc EXCEPT ![c] = "leaving"]
  /\ inbox' = [inbox EXCEPT ![c] = FALSE]
  /\ UNCHANGED <<sessionVars, redisVars, link, closed, callVars, crashes, overlapped>>

(* The deferred Unregister(deviceID) removes whatever session the id maps to... *)
UnregisterMap(c) ==
  /\ pc[c] = "leaving"
  /\ connections' = [connections EXCEPT ![Owner[c]] = NoConn]
  /\ lastActive' = [lastActive EXCEPT ![Owner[c]] = 0]
  /\ pc' = [pc EXCEPT ![c] = "unmapped"]
  /\ UNCHANGED <<redisVars, link, inbox, closed, callVars, crashes, overlapped>>

(* ... then its online key, and the connection is closed. *)
UnregisterOnline(c) ==
  /\ pc[c] = "unmapped"
  /\ RedisDel(Owner[c])
  /\ pc' = [pc EXCEPT ![c] = "done"]
  /\ closed' = [closed EXCEPT ![c] = TRUE]
  /\ UNCHANGED <<sessionVars, link, inbox, callVars, crashes, overlapped>>

(* KeepAliveManager: a scan period passes and, under the lock, every session    *)
(* idle for more than the limit is closed, removed, and its key deleted.        *)
IdleDevicesLate ==  (* mutant: compares before the period is added *)
  {d \in Devices : connections[d] # NoConn /\ lastActive[d] > IdleLimit}

IdleDevices ==
  {d \in Devices : connections[d] # NoConn /\ lastActive[d] + 1 > IdleLimit}

ScanClosesNothing == closed  (* mutant: session.Conn.Close forgotten *)

ScanCloses == [c \in Conns |-> closed[c] \/ \E d \in IdleDevices : connections[d] = c]

ScanDeletesNothing == connections  (* mutant: delete(m.connections, id) forgotten *)

ScanDeletes == [d \in Devices |-> IF d \in IdleDevices THEN NoConn ELSE connections[d]]

(* What is left of the keys' lives one period later, those of gone deleted. *)
KeysForever(gone) ==  (* mutant: SET and EXPIRE without a time *)
  [d \in Devices |-> IF d \in gone THEN 0 ELSE ttl[d]]

KeyLives(gone) ==
  [d \in Devices |-> IF d \in gone \/ ttl[d] = 0 THEN 0 ELSE ttl[d] - 1]

KeepAliveManager ==
  /\ \A d \in online : ttl[d] > 0
  /\ \E kept \in SUBSET (IdleDevices \cap online) :
       /\ redisFaults + Cardinality(kept) <= MaxRedisFaults
       /\ redisFaults' = redisFaults + Cardinality(kept)
       /\ online' = online \ (IdleDevices \ kept)
       /\ ttl' = KeyLives(IdleDevices \ kept)
  /\ connections' = ScanDeletes
  /\ lastActive' = [d \in Devices |->
                     IF d \in IdleDevices \/ connections[d] = NoConn THEN 0 ELSE lastActive[d] + 1]
  /\ closed' = ScanCloses
  /\ UNCHANGED <<pc, link, inbox, callVars, crashes, overlapped>>

--------------------------------------------------------------------------------
(* HandleCommand and HandleRemoteSnapshot: GetConnection under the read lock;   *)
(* 404 when the device has no session.                                          *)
Lookup(r, d, conn) ==
  /\ call[r].st = "idle"
  /\ call' = [call EXCEPT ![r] =
       [st |-> IF conn = NoConn THEN "offline" ELSE "found", dev |-> d, conn |-> conn]]
  /\ UNCHANGED <<sessionVars, redisVars, connVars, received, crashes, overlapped>>

GetAnyConnection(r, d) ==  (* mutant: the id is not used as the key *)
  \E e \in Devices : Lookup(r, d, connections[e])

GetOnlineConnection(r, d) ==  (* mutant: trusts the online key instead of the map *)
  Lookup(r, d, IF d \in online THEN connections[d] ELSE NoConn)

GetConnection(r, d) == Lookup(r, d, connections[d])

(* ... then WriteJSON on the connection found; the result is ignored, 200.      *)
PushCommand(r) ==
  /\ call[r].st = "found"
  /\ LET c == call[r].conn IN
       received' = IF ~closed[c] /\ link[c] = "up"
                   THEN [received EXCEPT ![c] = @ \cup {r}] ELSE received
  /\ call' = [call EXCEPT ![r].st = "ok"]
  /\ UNCHANGED <<sessionVars, redisVars, connVars, crashes, overlapped>>

(* The gateway process dies and is started again: its memory and its sockets    *)
(* are gone, the keys in Redis stay.                                            *)
GatewayCrash ==
  /\ crashes < MaxCrashes
  /\ crashes' = crashes + 1
  /\ connections' = [d \in Devices |-> NoConn]
  /\ lastActive' = [d \in Devices |-> 0]
  /\ pc' = [c \in Conns |-> IF pc[c] = "idle" THEN "idle" ELSE "done"]
  /\ link' = [c \in Conns |-> IF link[c] = "up" THEN "broken" ELSE link[c]]
  /\ inbox' = [c \in Conns |-> FALSE]
  /\ closed' = [c \in Conns |-> pc[c] # "idle"]
  /\ call' = [r \in Requests |->
       IF call[r].st = "found" THEN [call[r] EXCEPT !.st = "broken"] ELSE call[r]]
  /\ UNCHANGED <<redisVars, received, overlapped>>

--------------------------------------------------------------------------------
Next ==
  \/ \E c \in Conns :
       \/ HandleWebsocket(c) \/ DeviceSends(c) \/ LinkBreaks(c)
       \/ RegisterMap(c) \/ RegisterOnline(c)
       \/ UpdateActiveTime(c) \/ ExtendOnline(c)
       \/ ReadFails(c) \/ UnregisterMap(c) \/ UnregisterOnline(c)
  \/ \E d \in Devices : KeyExpires(d)
  \/ KeepAliveManager
  \/ \E r \in Requests : PushCommand(r) \/ \E d \in Devices : GetConnection(r, d)
  \/ GatewayCrash

(* Time passes: the ticker fires and Redis expires keys.  Goroutines and        *)
(* devices get no fairness: the gateway must not rely on a dead peer's error.   *)
Fairness ==
  /\ WF_vars(KeepAliveManager)
  /\ \A d \in Devices : WF_vars(KeyExpires(d))

Spec == Init /\ [][Next]_vars
FairSpec == Spec /\ Fairness

--------------------------------------------------------------------------------
Stages == {"idle", "accepted", "registered", "reading", "touched", "leaving",
           "unmapped", "done"}

TypeOK ==
  /\ connections \in [Devices -> Conns \cup {NoConn}]
  /\ lastActive \in [Devices -> 0..IdleLimit]
  /\ online \in SUBSET Devices
  /\ ttl \in [Devices -> 0..TTL]
  /\ pc \in [Conns -> Stages]
  /\ link \in [Conns -> {"none", "up", "broken"}]
  /\ inbox \in [Conns -> BOOLEAN]
  /\ closed \in [Conns -> BOOLEAN]
  /\ call \in [Requests -> [st : {"idle", "found", "offline", "ok", "broken"},
                            dev : Devices \cup {NoDevice},
                            conn : Conns \cup {NoConn}]]
  /\ received \in [Conns -> SUBSET Requests]
  /\ crashes \in 0..MaxCrashes
  /\ redisFaults \in 0..MaxRedisFaults
  /\ overlapped \in SUBSET Devices

(* A connection between Register's lock and Unregister's. *)
Serving(c) == pc[c] \in {"registered", "reading", "touched", "leaving"}

(* The session map never leads to a dead end: the connection it holds for a     *)
(* device belongs to that device, has not been closed by the gateway, and its   *)
(* goroutine has not run its clean-up yet.                                      *)
MappedSessionServes ==
  \A d \in Devices : connections[d] # NoConn =>
    /\ Owner[connections[d]] = d
    /\ ~closed[connections[d]]
    /\ Serving(connections[d])

(* A command reaches no device but the one its request named, although the      *)
(* connection is used after the lock that protected the lookup was released.    *)
CommandsToOwner ==
  \A c \in Conns : \A r \in received[c] : call[r].st = "ok" /\ call[r].dev = Owner[c]

(* Unregister removes by device id.  What saves a session from a stale          *)
(* connection's clean-up is only that the device waits for it: as long as no    *)
(* two of its connections were ever served at once, a served, open connection   *)
(* is the one the map holds, whatever Redis does and however often it crashes.  *)
OrderlySession ==
  \A c \in Conns : (Serving(c) /\ ~closed[c] /\ Owner[c] \notin overlapped) =>
    connections[Owner[c]] = c

(* 404 "Device Offline" is answered, for such a device, only when none of its   *)
(* connections is being served.                                                 *)
OfflineReplyJustified ==
  [][\A r \in Requests : \A c \in Conns :
       (/\ call[r].st = "idle" /\ call'[r].st = "offline"
        /\ Owner[c] = call'[r].dev /\ Owner[c] \notin overlapped)
       => ~(Serving(c) /\ ~closed[c])]_vars

(* A device that is gone for good ends up offline in Redis for good, even after *)
(* a lost DEL or a gateway crash: the key's life is the backstop.               *)
GoneEndsOffline ==
  \A d \in Devices :
    <>[](\A c \in Conns : Owner[c] = d => link[c] # "up") => <>[](d \notin online)

(* manager.go:145-147: every message renews the device's online key, "so as     *)
(* long as the device is alive, the key is always there".                       *)
AliveKeepsKey ==
  [][\A c \in Conns :
       (pc[c] = "touched" /\ pc'[c] = "reading" /\ link[c] = "up")
       => Owner[c] \in online']_vars
================================================================================
