------------------------ MODULE GatewaySessions_proofs ------------------------
(* Proofs about GatewaySessions, for any devices, connections and bounds. *)
EXTENDS GatewaySessions, FiniteSetTheorems, TLAPS

(* The variables have their types: in particular no session of the map is ever  *)
(* idle for longer than the limit, and no key lives longer than its TTL.        *)
THEOREM TypeCorrect == Spec => []TypeOK
<1> USE SessionConstants
<1>1. Init => TypeOK
  BY DEF Init, TypeOK, Stages
<1>2. TypeOK /\ [Next]_vars => TypeOK'
  <2> SUFFICES ASSUME TypeOK, [Next]_vars PROVE TypeOK'
    OBVIOUS
  <2> USE DEF TypeOK, Stages, sessionVars, redisVars, connVars, callVars
  <2>1. ASSUME NEW c \in Conns, HandleWebsocket(c) PROVE TypeOK'
    BY <2>1 DEF HandleWebsocket
  <2>2. ASSUME NEW c \in Conns, DeviceSends(c) PROVE TypeOK'
    BY <2>2 DEF DeviceSends
  <2>3. ASSUME NEW c \in Conns, LinkBreaks(c) PROVE TypeOK'
    BY <2>3 DEF LinkBreaks
  <2>4. ASSUME NEW c \in Conns, RegisterMap(c) PROVE TypeOK'
    BY <2>4 DEF RegisterMap
  <2>5. ASSUME NEW c \in Conns, RegisterOnline(c) PROVE TypeOK'
    BY <2>5 DEF RegisterOnline, RedisSet, RedisFails
  <2>6. ASSUME NEW c \in Conns, UpdateActiveTime(c) PROVE TypeOK'
    BY <2>6 DEF UpdateActiveTime
  <2>7. ASSUME NEW c \in Conns, ExtendOnline(c) PROVE TypeOK'
    BY <2>7 DEF ExtendOnline, RedisExpire, RedisFails
  <2>8. ASSUME NEW c \in Conns, ReadFails(c) PROVE TypeOK'
    BY <2>8 DEF ReadFails
  <2>9. ASSUME NEW c \in Conns, UnregisterMap(c) PROVE TypeOK'
    BY <2>9 DEF UnregisterMap
  <2>10. ASSUME NEW c \in Conns, UnregisterOnline(c) PROVE TypeOK'
    BY <2>10 DEF UnregisterOnline, RedisDel, RedisFails
  <2>11. ASSUME NEW d \in Devices, KeyExpires(d) PROVE TypeOK'
    BY <2>11 DEF KeyExpires
  <2>12. CASE KeepAliveManager
    <3> USE <2>12 DEF KeepAliveManager
    <3>1. PICK kept \in SUBSET (IdleDevices \cap online) :
            /\ redisFaults + Cardinality(kept) <= MaxRedisFaults
            /\ redisFaults' = redisFaults + Cardinality(kept)
            /\ online' = online \ (IdleDevices \ kept)
            /\ ttl' = KeyLives(IdleDevices \ kept)
      OBVIOUS
    <3>2. Cardinality(kept) \in Nat
      BY FS_Subset, FS_CardinalityType DEF IdleDevices
    <3>3. redisFaults' \in 0..MaxRedisFaults
      BY <3>1, <3>2
    <3>4. ttl' \in [Devices -> 0..TTL]
      BY <3>1 DEF KeyLives
    <3>5. lastActive' \in [Devices -> 0..IdleLimit]
      BY DEF IdleDevices
    <3>6. closed' \in [Conns -> BOOLEAN]
      BY DEF ScanCloses
    <3>7. connections' \in [Devices -> Conns \cup {NoConn}]
      BY DEF ScanDeletes
    <3>8. online' \in SUBSET Devices
      BY <3>1
    <3>9. QED
      BY <3>3, <3>4, <3>5, <3>6, <3>7, <3>8
  <2>13. ASSUME NEW r \in Requests, PushCommand(r) PROVE TypeOK'
    <3>1. call' \in [Requests -> [st : {"idle", "found", "offline", "ok", "broken"},
                                  dev : Devices \cup {NoDevice}, conn : Conns \cup {NoConn}]]
      BY <2>13 DEF PushCommand
    <3>2. received' \in [Conns -> SUBSET Requests]
      BY <2>13 DEF PushCommand
    <3>3. QED
      BY <2>13, <3>1, <3>2 DEF PushCommand
  <2>14. ASSUME NEW r \in Requests, NEW d \in Devices, GetConnection(r, d) PROVE TypeOK'
    BY <2>14 DEF GetConnection, Lookup
  <2>15. CASE GatewayCrash
    <3>1. call' \in [Requests -> [st : {"idle", "found", "offline", "ok", "broken"},
                                  dev : Devices \cup {NoDevice}, conn : Conns \cup {NoConn}]]
      BY <2>15 DEF GatewayCrash
    <3>2. QED
      BY <2>15, <3>1 DEF GatewayCrash
  <2>16. CASE UNCHANGED vars
    BY <2>16 DEF vars
  <2>17. QED
    BY <2>1, <2>2, <2>3, <2>4, <2>5, <2>6, <2>7, <2>8, <2>9, <2>10, <2>11, <2>12,
       <2>13, <2>14, <2>15, <2>16 DEF Next
<1>3. QED
  BY <1>1, <1>2, PTL DEF Spec

--------------------------------------------------------------------------------
(* MappedSessionServes is inductive together with: a connection Register has    *)
(* not seen yet has not been closed.                                            *)
FreshOpen == \A c \in Conns : pc[c] \in {"idle", "accepted"} => ~closed[c]

ServeInv == TypeOK /\ MappedSessionServes /\ FreshOpen

(* The mapped sessions serve at the start.                                    *)
LEMMA ServeInit == Init => MappedSessionServes /\ FreshOpen
BY SessionConstants DEF Init, MappedSessionServes, FreshOpen

(* Every step keeps the mapped sessions serving.                              *)
LEMMA ServeStep == ServeInv /\ [Next]_vars => (MappedSessionServes /\ FreshOpen)'
<1> SUFFICES ASSUME ServeInv, [Next]_vars PROVE (MappedSessionServes /\ FreshOpen)'
  OBVIOUS
<1> USE SessionConstants
    DEF ServeInv, TypeOK, MappedSessionServes, FreshOpen, Serving,
        sessionVars, redisVars, connVars, callVars
<1>1. ASSUME NEW c \in Conns, HandleWebsocket(c) PROVE (MappedSessionServes /\ FreshOpen)'
  BY <1>1 DEF HandleWebsocket
<1>2. ASSUME NEW c \in Conns, DeviceSends(c) \/ LinkBreaks(c)
      PROVE (MappedSessionServes /\ FreshOpen)'
  BY <1>2 DEF DeviceSends, LinkBreaks
<1>3. ASSUME NEW c \in Conns, RegisterMap(c) PROVE (MappedSessionServes /\ FreshOpen)'
  <2>1. FreshOpen'
    BY <1>3 DEF RegisterMap
  <2>2. ASSUME NEW d \in Devices, connections'[d] # NoConn
        PROVE /\ Owner[connections'[d]] = d
              /\ ~closed'[connections'[d]]
              /\ Serving(connections[d])'
    <3>1. CASE d = Owner[c]
      BY <1>3, <2>2, <3>1 DEF RegisterMap
    <3>2. CASE d # Owner[c]
      BY <1>3, <2>2, <3>2 DEF RegisterMap
    <3>3. QED
      BY <3>1, <3>2
  <2>3. QED
    BY <2>1, <2>2
<1>4. ASSUME NEW c \in Conns, RegisterOnline(c) PROVE (MappedSessionServes /\ FreshOpen)'
  BY <1>4 DEF RegisterOnline
<1>5. ASSUME NEW c \in Conns, UpdateActiveTime(c) PROVE (MappedSessionServes /\ FreshOpen)'
  BY <1>5 DEF UpdateActiveTime
<1>6. ASSUME NEW c \in Conns, ExtendOnline(c) PROVE (MappedSessionServes /\ FreshOpen)'
  BY <1>6 DEF ExtendOnline
<1>7. ASSUME NEW c \in Conns, ReadFails(c) PROVE (MappedSessionServes /\ FreshOpen)'
  BY <1>7 DEF ReadFails
<1>8. ASSUME NEW c \in Conns, UnregisterMap(c) PROVE (MappedSessionServes /\ FreshOpen)'
  BY <1>8 DEF UnregisterMap
<1>9. ASSUME NEW c \in Conns, UnregisterOnline(c) PROVE (MappedSessionServes /\ FreshOpen)'
  BY <1>9 DEF UnregisterOnline
<1>10. ASSUME NEW d \in Devices, KeyExpires(d) PROVE (MappedSessionServes /\ FreshOpen)'
  BY <1>10 DEF KeyExpires
<1>11. CASE KeepAliveManager
  BY <1>11 DEF KeepAliveManager, IdleDevices, ScanCloses, ScanDeletes
<1>12. ASSUME NEW r \in Requests, PushCommand(r) PROVE (MappedSessionServes /\ FreshOpen)'
  BY <1>12 DEF PushCommand
<1>13. ASSUME NEW r \in Requests, NEW d \in Devices, GetConnection(r, d)
       PROVE (MappedSessionServes /\ FreshOpen)'
  BY <1>13 DEF GetConnection, Lookup
<1>14. CASE GatewayCrash
  BY <1>14 DEF GatewayCrash
<1>15. CASE UNCHANGED vars
  BY <1>15 DEF vars
<1>16. QED
  BY <1>1, <1>2, <1>3, <1>4, <1>5, <1>6, <1>7, <1>8, <1>9, <1>10, <1>11, <1>12,
     <1>13, <1>14, <1>15 DEF Next

(* The connection the map holds for a device is that device's, is open, and its *)
(* goroutine still serves it: no lookup ever returns a dead end the gateway     *)
(* made itself.                                                                 *)
THEOREM SessionsServe == Spec => []MappedSessionServes
<1>1. Spec => [](MappedSessionServes /\ FreshOpen)
  BY TypeCorrect, ServeInit, ServeStep, PTL DEF Spec, ServeInv
<1>2. QED
  BY <1>1, PTL

--------------------------------------------------------------------------------
(* A device that never overlapped has one served connection at most.            *)
Sole ==
  \A c, o \in Conns :
    (Owner[c] = Owner[o] /\ Owner[c] \notin overlapped /\ Active(c) /\ Active(o)) => c = o

(* One session for a device at the start.                                     *)
LEMMA SoleInit == Init => Sole /\ OrderlySession
BY DEF Init, Sole, Active, OrderlySession, Serving

(* Every step keeps it so.                                                    *)
LEMMA SoleStep == TypeOK /\ Sole /\ [Next]_vars => Sole'
<1> SUFFICES ASSUME TypeOK, Sole, [Next]_vars PROVE Sole'
  OBVIOUS
<1> USE SessionConstants
    DEF TypeOK, Sole, Active, sessionVars, redisVars, connVars, callVars
<1>1. ASSUME NEW c \in Conns, HandleWebsocket(c) PROVE Sole'
  <2> USE <1>1 DEF HandleWebsocket
  <2>1. ASSUME NEW x \in Conns, NEW y \in Conns, Owner[x] = Owner[y],
               Owner[x] \notin overlapped', Active(x)', Active(y)'
        PROVE x = y
    <3>1. Owner[x] \notin overlapped
      BY <2>1
    <3>2. CASE x # c /\ y # c
      BY <2>1, <3>1, <3>2
    <3>3. CASE x = c \/ y = c
      BY <2>1, <3>1, <3>3 DEF Peers
    <3>4. QED
      BY <3>2, <3>3
  <2>2. QED
    BY <2>1
<1>2. ASSUME NEW c \in Conns, DeviceSends(c) \/ LinkBreaks(c) PROVE Sole'
  BY <1>2 DEF DeviceSends, LinkBreaks
<1>3. ASSUME NEW c \in Conns,
             RegisterMap(c) \/ RegisterOnline(c) \/ UpdateActiveTime(c) \/ ExtendOnline(c)
             \/ ReadFails(c) \/ UnregisterMap(c) \/ UnregisterOnline(c)
      PROVE Sole'
  <2>1. \A x \in Conns : Active(x)' => Active(x)
    BY <1>3 DEF RegisterMap, RegisterOnline, UpdateActiveTime, ExtendOnline, ReadFails,
                UnregisterMap, UnregisterOnline
  <2>2. overlapped' = overlapped
    BY <1>3 DEF RegisterMap, RegisterOnline, UpdateActiveTime, ExtendOnline, ReadFails,
                UnregisterMap, UnregisterOnline
  <2>3. QED
    BY <2>1, <2>2
<1>4. ASSUME NEW d \in Devices, KeyExpires(d) PROVE Sole'
  BY <1>4 DEF KeyExpires
<1>5. CASE KeepAliveManager
  BY <1>5 DEF KeepAliveManager
<1>6. ASSUME NEW r \in Requests, PushCommand(r) PROVE Sole'
  BY <1>6 DEF PushCommand
<1>7. ASSUME NEW r \in Requests, NEW d \in Devices, GetConnection(r, d) PROVE Sole'
  BY <1>7 DEF GetConnection, Lookup
<1>8. CASE GatewayCrash
  BY <1>8 DEF GatewayCrash
<1>9. CASE UNCHANGED vars
  BY <1>9 DEF vars
<1>10. QED
  BY <1>1, <1>2, <1>3, <1>4, <1>5, <1>6, <1>7, <1>8, <1>9 DEF Next

(* Every step keeps the sessions orderly.                                     *)
LEMMA OrderlyStep ==
  TypeOK /\ Sole /\ OrderlySession /\ [Next]_vars => OrderlySession'
<1> SUFFICES ASSUME TypeOK, Sole, OrderlySession, [Next]_vars,
                    NEW c \in Conns, Serving(c)', ~closed'[c], Owner[c] \notin overlapped'
             PROVE connections'[Owner[c]] = c
  BY DEF OrderlySession
<1> USE SessionConstants
    DEF TypeOK, OrderlySession, Serving, sessionVars, redisVars, connVars, callVars
<1>1. ASSUME NEW x \in Conns, HandleWebsocket(x) PROVE connections'[Owner[c]] = c
  <2>1. Serving(c) /\ ~closed[c] /\ Owner[c] \notin overlapped
    BY <1>1 DEF HandleWebsocket
  <2>2. QED
    BY <1>1, <2>1 DEF HandleWebsocket
<1>2. ASSUME NEW x \in Conns, DeviceSends(x) \/ LinkBreaks(x)
      PROVE connections'[Owner[c]] = c
  BY <1>2 DEF DeviceSends, LinkBreaks
<1>3. ASSUME NEW x \in Conns, RegisterMap(x) PROVE connections'[Owner[c]] = c
  <2>1. CASE x = c
    BY <1>3, <2>1 DEF RegisterMap
  <2>2. CASE x # c
    <3>1. Active(c) /\ Active(x) /\ Owner[c] \notin overlapped
      BY <1>3, <2>2 DEF RegisterMap, Active
    <3>2. Owner[x] # Owner[c]
      BY <2>2, <3>1 DEF Sole
    <3>3. QED
      BY <1>3, <2>2, <3>2 DEF RegisterMap
  <2>3. QED
    BY <2>1, <2>2
<1>4. ASSUME NEW x \in Conns,
             RegisterOnline(x) \/ UpdateActiveTime(x) \/ ExtendOnline(x) \/ ReadFails(x)
      PROVE connections'[Owner[c]] = c
  BY <1>4 DEF RegisterOnline, UpdateActiveTime, ExtendOnline, ReadFails
<1>5. ASSUME NEW x \in Conns, UnregisterMap(x) PROVE connections'[Owner[c]] = c
  <2>1. x # c
    BY <1>5 DEF UnregisterMap
  <2>2. Active(c) /\ Active(x) /\ Owner[c] \notin overlapped
    BY <1>5, <2>1 DEF UnregisterMap, Active
  <2>3. Owner[x] # Owner[c]
    BY <2>1, <2>2 DEF Sole
  <2>4. QED
    BY <1>5, <2>1, <2>3 DEF UnregisterMap
<1>6. ASSUME NEW x \in Conns, UnregisterOnline(x) PROVE connections'[Owner[c]] = c
  BY <1>6 DEF UnregisterOnline
<1>7. ASSUME NEW d \in Devices, KeyExpires(d) PROVE connections'[Owner[c]] = c
  BY <1>7 DEF KeyExpires
<1>8. CASE KeepAliveManager
  BY <1>8 DEF KeepAliveManager, ScanCloses, ScanDeletes, IdleDevices
<1>9. ASSUME NEW r \in Requests, PushCommand(r) PROVE connections'[Owner[c]] = c
  BY <1>9 DEF PushCommand
<1>10. ASSUME NEW r \in Requests, NEW d \in Devices, GetConnection(r, d)
       PROVE connections'[Owner[c]] = c
  BY <1>10 DEF GetConnection, Lookup
<1>11. CASE GatewayCrash
  BY <1>11 DEF GatewayCrash
<1>12. CASE UNCHANGED vars
  BY <1>12 DEF vars
<1>13. QED
  BY <1>1, <1>2, <1>3, <1>4, <1>5, <1>6, <1>7, <1>8, <1>9, <1>10, <1>11, <1>12 DEF Next

(* Although Unregister removes whatever session a device id maps to, it never   *)
(* takes a live session away from a device whose connections did not overlap.   *)
THEOREM SessionsOrderly == Spec => []OrderlySession
<1>1. Spec => [](Sole /\ OrderlySession)
  BY TypeCorrect, SoleInit, SoleStep, OrderlyStep, PTL DEF Spec
<1>2. QED
  BY <1>1, PTL

--------------------------------------------------------------------------------
(* GetConnection leaves every request alone but the one it serves.              *)
LEMMA OfflineStep ==
  ASSUME TypeOK, OrderlySession, [Next]_vars, NEW r \in Requests, NEW c \in Conns,
         call[r].st = "idle", call'[r].st = "offline",
         Owner[c] = call'[r].dev, Owner[c] \notin overlapped
  PROVE  ~(Serving(c) /\ ~closed[c])
<1> USE SessionConstants DEF TypeOK, sessionVars, redisVars, connVars, callVars
<1>1. ASSUME NEW q \in Requests, NEW d \in Devices, GetConnection(q, d)
      PROVE q = r /\ connections[Owner[c]] = NoConn
  BY <1>1 DEF GetConnection, Lookup
<1>2. ASSUME NEW q \in Requests, PushCommand(q) PROVE FALSE
  BY <1>2 DEF PushCommand
<1>3. CASE GatewayCrash
  BY <1>3 DEF GatewayCrash
<1>4. ASSUME call' = call PROVE FALSE
  BY <1>4
<1>5. ASSUME connections[Owner[c]] = NoConn PROVE ~(Serving(c) /\ ~closed[c])
  BY <1>5 DEF OrderlySession
<1>6. ASSUME NEW x \in Conns,
             \/ HandleWebsocket(x) \/ DeviceSends(x) \/ LinkBreaks(x)
             \/ RegisterMap(x) \/ RegisterOnline(x) \/ UpdateActiveTime(x)
             \/ ExtendOnline(x) \/ ReadFails(x) \/ UnregisterMap(x) \/ UnregisterOnline(x)
      PROVE call' = call
  BY <1>6 DEF HandleWebsocket, DeviceSends, LinkBreaks, RegisterMap, RegisterOnline,
              UpdateActiveTime, ExtendOnline, ReadFails, UnregisterMap, UnregisterOnline
<1>7. ASSUME NEW d \in Devices, KeyExpires(d) PROVE call' = call
  BY <1>7 DEF KeyExpires
<1>8. CASE KeepAliveManager
  BY <1>4, <1>8 DEF KeepAliveManager
<1>9. CASE UNCHANGED vars
  BY <1>4, <1>9 DEF vars
<1>10. QED
  BY <1>1, <1>2, <1>3, <1>4, <1>5, <1>6, <1>7, <1>8, <1>9 DEF Next

(* "Device Offline" is never answered while a connection of the device is being *)
(* served, unless two of its connections overlapped before.                     *)
THEOREM OfflineJustified == Spec => OfflineReplyJustified
<1> DEFINE A ==
      \A r \in Requests : \A c \in Conns :
        (/\ call[r].st = "idle" /\ call'[r].st = "offline"
         /\ Owner[c] = call'[r].dev /\ Owner[c] \notin overlapped)
        => ~(Serving(c) /\ ~closed[c])
<1>1. TypeOK /\ OrderlySession /\ [Next]_vars => [A]_vars
  BY OfflineStep
<1>2. Spec => [][A]_vars
  BY <1>1, TypeCorrect, SessionsOrderly, PTL DEF Spec
<1>3. QED
  BY <1>2 DEF OfflineReplyJustified

--------------------------------------------------------------------------------
(* Between lookup and write, a request keeps a connection of its own device.    *)
FoundOwner ==
  \A r \in Requests : call[r].st = "found" =>
    call[r].conn \in Conns /\ Owner[call[r].conn] = call[r].dev

(* Every step keeps the commands with their owner.                            *)
LEMMA OwnerStep ==
  ServeInv /\ CommandsToOwner /\ FoundOwner /\ [Next]_vars => (CommandsToOwner /\ FoundOwner)'
<1> SUFFICES ASSUME ServeInv, CommandsToOwner, FoundOwner, [Next]_vars
             PROVE (CommandsToOwner /\ FoundOwner)'
  OBVIOUS
<1> USE SessionConstants
    DEF ServeInv, TypeOK, CommandsToOwner, FoundOwner, sessionVars, redisVars, connVars, callVars
<1>1. ASSUME UNCHANGED callVars PROVE (CommandsToOwner /\ FoundOwner)'
  BY <1>1
<1>2. ASSUME NEW r \in Requests, PushCommand(r) PROVE (CommandsToOwner /\ FoundOwner)'
  BY <1>2 DEF PushCommand
<1>3. ASSUME NEW r \in Requests, NEW d \in Devices, GetConnection(r, d)
      PROVE (CommandsToOwner /\ FoundOwner)'
  BY <1>3 DEF GetConnection, Lookup, MappedSessionServes
<1>4. CASE GatewayCrash
  BY <1>4 DEF GatewayCrash
<1>5. ASSUME NEW x \in Conns,
             \/ HandleWebsocket(x) \/ DeviceSends(x) \/ LinkBreaks(x)
             \/ RegisterMap(x) \/ RegisterOnline(x) \/ UpdateActiveTime(x)
             \/ ExtendOnline(x) \/ ReadFails(x) \/ UnregisterMap(x) \/ UnregisterOnline(x)
      PROVE UNCHANGED callVars
  BY <1>5 DEF HandleWebsocket, DeviceSends, LinkBreaks, RegisterMap, RegisterOnline,
              UpdateActiveTime, ExtendOnline, ReadFails, UnregisterMap, UnregisterOnline
<1>6. ASSUME NEW d \in Devices, KeyExpires(d) PROVE UNCHANGED callVars
  BY <1>6 DEF KeyExpires
<1>7. ASSUME KeepAliveManager PROVE UNCHANGED callVars
  BY <1>7 DEF KeepAliveManager
<1>8. ASSUME UNCHANGED vars PROVE UNCHANGED callVars
  BY <1>8 DEF vars
<1>9. QED
  BY <1>1, <1>2, <1>3, <1>4, <1>5, <1>6, <1>7, <1>8 DEF Next

(* A command reaches the device it names or none, also when the session it was  *)
(* looked up in is replaced before it is written.                               *)
THEOREM CommandsReachOwner == Spec => []CommandsToOwner
<1>1. Init => CommandsToOwner /\ FoundOwner
  BY DEF Init, CommandsToOwner, FoundOwner
<1>2. Spec => []ServeInv
  BY TypeCorrect, ServeInit, ServeStep, PTL DEF Spec, ServeInv
<1>3. Spec => [](CommandsToOwner /\ FoundOwner)
  BY <1>1, <1>2, OwnerStep, PTL DEF Spec
<1>4. QED
  BY <1>3, PTL
================================================================================
