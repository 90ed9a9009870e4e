--------------------------- MODULE VideoPlayer_proofs ---------------------------
(* Proofs about VideoPlayer, for any queue, file lengths, plays, failures and     *)
(* REBOOT commands.                                                               *)
EXTENDS VideoPlayer, TLAPS

(* A packet's frames are frames of the file.                                      *)
PacketsInFile ==
  dec \in {"push", "falling", "asleep"} => burst >= 1 /\ pushed + burst <= media.frames

(* From the choice of an item to its log row there is one row to come.            *)
RowToCome ==
  /\ main \in {"clean", "notify", "join", "play", "loop", "update", "quitNotify", "flags",
                "endCheck"} => Len(billed) < plays
  /\ dec # "none" => plays >= 1

(* A REBOOT that waits has its flag up; none waits while the flag is taken down.   *)
FlagStands ==
  /\ asked = "waits" => softReboot
  /\ main = "rebooted" => asked # "waits"

(* The soft reboot has no command thread beside it, and forgets no REBOOT.         *)
RebootsAlone == (main = "reboot" => ws = "off") /\ FlagStands

(* TypeOK in parts: who stands where, what surrounds them, flags, data.           *)
Positions == main \in Places /\ dec \in DecodePlaces

Surroundings ==
  /\ window \in {"none", "bare", "open", "shut"}
  /\ ws \in {"off", "idle", "snapshot"}
  /\ asked \in {"carried", "waits", "crossed"} /\ torn \subseteq {"reboot", "end"}

Signals ==
  /\ elapsed \in BOOLEAN /\ playing \in BOOLEAN /\ shouldStop \in BOOLEAN
  /\ softReboot \in BOOLEAN /\ shouldExit \in BOOLEAN
  /\ missed \in BOOLEAN /\ failed \in BOOLEAN

Data ==
  /\ media \in Medias \cup {NoMedia}
  /\ queue \in Seq(Frames) /\ Len(queue) <= MaxQueue
  /\ pushed \in 0..MaxFrames /\ burst \in 0..2 /\ shown \in 0..MaxFrames
  /\ plays \in 0..MaxPlays /\ faults \in 0..MaxFaults /\ reboots \in 0..MaxReboots
  /\ billed \in Seq(0..MaxFrames) /\ Len(billed) <= plays

Inv ==
  /\ Positions /\ Surroundings /\ Signals /\ Data
  /\ FramesInOrder /\ PacketsInFile /\ RowToCome /\ RebootsAlone
  /\ SnapshotReads

(* The number of frames of a media.                                           *)
LEMMA MediaFrames == ASSUME NEW m \in Medias \cup {NoMedia} PROVE m.frames \in 0..MaxFrames
BY VideoPlayerConstants DEF Medias, NoMedia

(* The invariant holds at the start.                                          *)
LEMMA InitInv == Init => Inv
<1> SUFFICES ASSUME Init PROVE Inv
  OBVIOUS
<1> USE VideoPlayerConstants DEF Init
<1>1. Positions /\ Surroundings /\ Signals
  BY DEF Positions, Surroundings, Signals, Places, DecodePlaces
<1>2. Data
  BY DEF Data
<1>3. FramesInOrder /\ PacketsInFile /\ RowToCome /\ RebootsAlone /\ SnapshotReads
  BY DEF FramesInOrder, PacketsInFile, RowToCome, RebootsAlone, FlagStands, SnapshotReads
<1>4. QED
  BY <1>1, <1>2, <1>3 DEF Inv

(* Every step keeps the invariant.                                            *)
LEMMA NextInv == Inv /\ [Next]_vars => Inv'
<1> SUFFICES ASSUME Inv, [Next]_vars PROVE Inv'
  OBVIOUS
<1> USE VideoPlayerConstants DEF Inv
<1>0. media.frames \in 0..MaxFrames
  BY MediaFrames DEF Data
<1>1. CASE Setup
  <2>1. Positions'
    BY <1>1 DEF Setup, Decodes, Fails, command, Positions, Places, DecodePlaces
  <2>2. (Surroundings /\ RebootsAlone /\ SnapshotReads)'
    BY <1>1 DEF Setup, Decodes, Fails, command, Surroundings, RebootsAlone, FlagStands, SnapshotReads
  <2>3. Signals'
    BY <1>1 DEF Setup, Decodes, Fails, command, Signals
  <2>4. (Data /\ PacketsInFile /\ RowToCome)'
    BY <1>1 DEF Setup, Decodes, Fails, command, Data, PacketsInFile, RowToCome
  <2>5. FramesInOrder'
    BY <1>1 DEF Setup, Decodes, Fails, command, FramesInOrder
  <2>6. QED
    BY <2>1, <2>2, <2>3, <2>4, <2>5
<1>2. CASE LoopTest
  <2>1. Positions'
    BY <1>2 DEF LoopTest, Decodes, ImageTimeUp, command, Positions, Places, DecodePlaces
  <2>2. (Surroundings /\ RebootsAlone /\ SnapshotReads)'
    BY <1>2 DEF LoopTest, Decodes, ImageTimeUp, command, Surroundings, RebootsAlone, FlagStands,
       SnapshotReads
  <2>3. Signals'
    BY <1>2 DEF LoopTest, Decodes, ImageTimeUp, command, Signals
  <2>4. (Data /\ PacketsInFile /\ RowToCome)'
    BY <1>2 DEF LoopTest, Decodes, ImageTimeUp, command, Data, PacketsInFile, RowToCome
  <2>5. FramesInOrder'
    BY <1>2 DEF LoopTest, Decodes, ImageTimeUp, command, FramesInOrder
  <2>6. QED
    BY <2>1, <2>2, <2>3, <2>4, <2>5
<1>3. CASE WaitForRoom
  <2>1. Positions'
    BY <1>3 DEF WaitForRoom, Decodes, command, Positions, Places, DecodePlaces
  <2>2. (Surroundings /\ RebootsAlone /\ SnapshotReads)'
    BY <1>3 DEF WaitForRoom, Decodes, command, Surroundings, RebootsAlone, FlagStands, SnapshotReads
  <2>3. Signals'
    BY <1>3 DEF WaitForRoom, Decodes, command, Signals
  <2>4. (Data /\ PacketsInFile /\ RowToCome)'
    BY <1>3 DEF WaitForRoom, Decodes, command, Data, PacketsInFile, RowToCome
  <2>5. FramesInOrder'
    BY <1>3 DEF WaitForRoom, Decodes, command, FramesInOrder
  <2>6. QED
    BY <2>1, <2>2, <2>3, <2>4, <2>5
<1>4. CASE ReadPacket
  <2>1. Positions'
    BY <1>4 DEF ReadPacket, Decodes, Fails, command, Positions, Places, DecodePlaces
  <2>2. (Surroundings /\ RebootsAlone /\ SnapshotReads)'
    BY <1>4 DEF ReadPacket, Decodes, Fails, command, Surroundings, RebootsAlone, FlagStands,
       SnapshotReads
  <2>3. Signals'
    BY <1>4 DEF ReadPacket, Decodes, Fails, command, Signals
  <2>4. Data'
    BY <1>4 DEF ReadPacket, Decodes, Fails, command, Data
  <2>5. FramesInOrder'
    BY <1>4 DEF ReadPacket, Decodes, Fails, command, Data, FramesInOrder
  <2>6. (PacketsInFile /\ RowToCome)'
    BY <1>4, <1>0 DEF ReadPacket, Decodes, Fails, command, Data, PacketsInFile, RowToCome
  <2>7. QED
    BY <2>1, <2>2, <2>3, <2>4, <2>5, <2>6
<1>5. CASE PushFrame
  <2>1. Positions'
    BY <1>5 DEF PushFrame, Decodes, HasRoom, command, Positions, Places, DecodePlaces
  <2>2. (Surroundings /\ RebootsAlone /\ SnapshotReads)'
    BY <1>5 DEF PushFrame, Decodes, HasRoom, command, Surroundings, RebootsAlone, FlagStands,
       SnapshotReads
  <2>3. Signals'
    BY <1>5 DEF PushFrame, Decodes, HasRoom, command, Signals
  <2>a. ASSUME UNCHANGED <<queue, pushed>> PROVE Data' /\ FramesInOrder'
    <3>1. Data'
      BY <1>5, <2>a DEF PushFrame, Decodes, Data
    <3>2. FramesInOrder'
      BY <1>5, <2>a DEF PushFrame, Decodes, FramesInOrder
    <3>3. QED
      BY <3>1, <3>2
  <2>b. ASSUME ~shouldStop /\ HasRoom PROVE Data' /\ FramesInOrder'
    <3> DEFINE f == [play |-> plays, n |-> pushed + 1]
    <3>1. /\ main' = main /\ plays' = plays /\ shown' = shown /\ media' = media
          /\ queue' = Append(queue, f) /\ pushed' = pushed + 1 /\ burst' = burst - 1
          /\ UNCHANGED <<faults, reboots, billed>>
      BY <1>5, <2>b DEF PushFrame, Decodes
    <3>2. burst \in 1..2 /\ pushed + 1 <= MaxFrames /\ plays \in 1..MaxPlays
      BY <1>0, <1>5, <2>b DEF PushFrame, Decodes, Data, PacketsInFile, RowToCome
    <3>3. f \in Frames
      BY <3>2 DEF Frames, Data
    <3>4. /\ queue' \in Seq(Frames) /\ Len(queue') = Len(queue) + 1
          /\ \A i \in 1..Len(queue) : queue'[i] = queue[i]
          /\ queue'[Len(queue) + 1] = f
      BY <3>1, <3>3 DEF Data
    <3>5. Data'
      BY <2>b, <3>1, <3>2, <3>4 DEF Data, HasRoom
    <3>6. FramesInOrder'
      <4> SUFFICES ASSUME main \notin {"clean", "notify", "join", "gone"}
                   PROVE  /\ shown + Len(queue') = pushed + 1
                          /\ \A i \in 1..Len(queue') : queue'[i] = [play |-> plays, n |-> shown + i]
        BY <3>1 DEF FramesInOrder
      <4>1. /\ shown + Len(queue) = pushed
            /\ shown \in Nat /\ Len(queue) \in Nat
        BY DEF FramesInOrder, Data
      <4>2. ASSUME NEW i \in 1..Len(queue') PROVE queue'[i] = [play |-> plays, n |-> shown + i]
        <5>1. CASE i \in 1..Len(queue)
          BY <5>1, <3>4 DEF FramesInOrder
        <5>2. CASE i = Len(queue) + 1
          BY <5>2, <4>1, <3>4 DEF Data
        <5>3. QED
          BY <5>1, <5>2, <3>4 DEF Data
      <4>3. QED
        BY <4>1, <4>2, <3>4
    <3>7. QED
      BY <3>5, <3>6
  <2>4. Data' /\ FramesInOrder'
    BY <1>5, <2>a, <2>b DEF PushFrame
  <2>5. PacketsInFile'
    <3>1. CASE shouldStop
      BY <1>5, <3>1 DEF PushFrame, Decodes, PacketsInFile
    <3>2. CASE ~shouldStop /\ dec' = "push"
      <4>1. /\ dec = "push" /\ burst # 1 /\ media' = media
            /\ pushed' = pushed + 1 /\ burst' = burst - 1
        BY <1>5, <3>2 DEF PushFrame, Decodes
      <4> QED
        BY <4>1, <1>0 DEF Data, PacketsInFile
    <3>3. CASE ~shouldStop /\ dec' # "push"
      BY <1>5, <3>3 DEF PushFrame, Decodes, PacketsInFile
    <3> QED
      BY <3>1, <3>2, <3>3
  <2>6. RowToCome'
    BY <1>5 DEF PushFrame, Decodes, RowToCome
  <2>7. QED
    BY <2>1, <2>2, <2>3, <2>4, <2>5, <2>6
<1>6. CASE FallAsleep
  <2>1. Positions'
    BY <1>6 DEF FallAsleep, Decodes, command, Positions, Places, DecodePlaces
  <2>2. (Surroundings /\ RebootsAlone /\ SnapshotReads)'
    BY <1>6 DEF FallAsleep, Decodes, command, Surroundings, RebootsAlone, FlagStands, SnapshotReads
  <2>3. Signals'
    BY <1>6 DEF FallAsleep, Decodes, command, Signals
  <2>4. (Data /\ PacketsInFile /\ RowToCome)'
    BY <1>6 DEF FallAsleep, Decodes, command, Data, PacketsInFile, RowToCome
  <2>5. FramesInOrder'
    BY <1>6 DEF FallAsleep, Decodes, command, FramesInOrder
  <2>6. QED
    BY <2>1, <2>2, <2>3, <2>4, <2>5
<1>7. CASE TimePasses
  <2>1. Positions'
    BY <1>7 DEF TimePasses, command, counts, history, Positions, Places, DecodePlaces
  <2>2. (Surroundings /\ RebootsAlone /\ SnapshotReads)'
    BY <1>7 DEF TimePasses, command, counts, history, Surroundings, RebootsAlone, FlagStands,
       SnapshotReads
  <2>3. Signals'
    BY <1>7 DEF TimePasses, command, counts, history, Signals
  <2>4. (Data /\ PacketsInFile /\ RowToCome)'
    BY <1>7 DEF TimePasses, command, counts, history, Data, PacketsInFile, RowToCome
  <2>5. FramesInOrder'
    BY <1>7 DEF TimePasses, command, counts, history, FramesInOrder
  <2>6. QED
    BY <2>1, <2>2, <2>3, <2>4, <2>5
<1>8. CASE Reboot
  <2>1. Positions'
    BY <1>8 DEF Reboot, Commands, Receives, decoder, history, Positions, Places,
       DecodePlaces
  <2>2. (Surroundings /\ RebootsAlone /\ SnapshotReads)'
    BY <1>8 DEF Reboot, Commands, Receives, decoder, history, Surroundings, RebootsAlone, FlagStands,
       SnapshotReads
  <2>3. Signals'
    BY <1>8 DEF Reboot, Commands, Receives, decoder, history, Signals
  <2>4. (Data /\ PacketsInFile /\ RowToCome)'
    BY <1>8 DEF Reboot, Commands, Receives, decoder, history, Data, PacketsInFile, RowToCome
  <2>5. FramesInOrder'
    BY <1>8 DEF Reboot, Commands, Receives, decoder, history, FramesInOrder
  <2>6. QED
    BY <2>1, <2>2, <2>3, <2>4, <2>5
<1>9. CASE Snapshot
  <2>1. Positions'
    BY <1>9 DEF Snapshot, Commands, Receives, decoder, history, Positions, Places,
       DecodePlaces
  <2>2. (Surroundings /\ RebootsAlone /\ SnapshotReads)'
    BY <1>9 DEF Snapshot, Commands, Receives, decoder, history, Surroundings, RebootsAlone, FlagStands,
       SnapshotReads
  <2>3. Signals'
    BY <1>9 DEF Snapshot, Commands, Receives, decoder, history, Signals
  <2>4. (Data /\ PacketsInFile /\ RowToCome)'
    BY <1>9 DEF Snapshot, Commands, Receives, decoder, history, Data, PacketsInFile,
       RowToCome
  <2>5. FramesInOrder'
    BY <1>9 DEF Snapshot, Commands, Receives, decoder, history, FramesInOrder
  <2>6. QED
    BY <2>1, <2>2, <2>3, <2>4, <2>5
<1>10. CASE SnapshotTaken
  <2>1. Positions'
    BY <1>10 DEF SnapshotTaken, Commands, decoder, history, Positions, Places, DecodePlaces
  <2>2. (Surroundings /\ RebootsAlone /\ SnapshotReads)'
    BY <1>10 DEF SnapshotTaken, Commands, decoder, history, Surroundings, RebootsAlone, FlagStands,
       SnapshotReads
  <2>3. Signals'
    BY <1>10 DEF SnapshotTaken, Commands, decoder, history, Signals
  <2>4. (Data /\ PacketsInFile /\ RowToCome)'
    BY <1>10 DEF SnapshotTaken, Commands, decoder, history, Data, PacketsInFile, RowToCome
  <2>5. FramesInOrder'
    BY <1>10 DEF SnapshotTaken, Commands, decoder, history, FramesInOrder
  <2>6. QED
    BY <2>1, <2>2, <2>3, <2>4, <2>5
<1>11. CASE Top
  <2>1. Positions'
    BY <1>11 DEF Top, Goes, decoder, command, counts, history, Positions, Places,
       DecodePlaces
  <2>2. (Surroundings /\ RebootsAlone /\ SnapshotReads)'
    BY <1>11 DEF Top, Goes, decoder, command, counts, history, Surroundings, RebootsAlone, FlagStands,
       SnapshotReads
  <2>3. Signals'
    BY <1>11 DEF Top, Goes, decoder, command, counts, history, Signals
  <2>4. (Data /\ PacketsInFile /\ RowToCome)'
    BY <1>11 DEF Top, Goes, decoder, command, counts, history, Data, PacketsInFile,
       RowToCome
  <2>5. FramesInOrder'
    BY <1>11 DEF Top, Goes, decoder, command, counts, history, FramesInOrder
  <2>6. QED
    BY <2>1, <2>2, <2>3, <2>4, <2>5
<1>12. CASE Disconnect
  <2>1. Positions'
    BY <1>12 DEF Disconnect, StopsConnection, Goes, decoder, counts, history, Positions,
       Places, DecodePlaces
  <2>2. (Surroundings /\ RebootsAlone /\ SnapshotReads)'
    BY <1>12 DEF Disconnect, StopsConnection, Goes, decoder, counts, history, Surroundings,
       RebootsAlone, FlagStands, SnapshotReads
  <2>3. Signals'
    BY <1>12 DEF Disconnect, StopsConnection, Goes, decoder, counts, history, Signals
  <2>4. (Data /\ PacketsInFile /\ RowToCome)'
    BY <1>12 DEF Disconnect, StopsConnection, Goes, decoder, counts, history, Data,
       PacketsInFile, RowToCome
  <2>5. FramesInOrder'
    BY <1>12 DEF Disconnect, StopsConnection, Goes, decoder, counts, history, FramesInOrder
  <2>6. QED
    BY <2>1, <2>2, <2>3, <2>4, <2>5
<1>13. CASE SoftReboot
  <2>1. Positions'
    BY <1>13 DEF SoftReboot, CreateSDLWindow, CleanupSDL, Fails, Goes, decoder, Positions,
       Places, DecodePlaces
  <2>2. (Surroundings /\ RebootsAlone /\ SnapshotReads)'
    BY <1>13 DEF SoftReboot, CreateSDLWindow, CleanupSDL, Fails, Goes, decoder,
       Surroundings, RebootsAlone, FlagStands, SnapshotReads
  <2>3. Signals'
    BY <1>13 DEF SoftReboot, CreateSDLWindow, CleanupSDL, Fails, Goes, decoder, Signals
  <2>4. (Data /\ PacketsInFile /\ RowToCome)'
    BY <1>13 DEF SoftReboot, CreateSDLWindow, CleanupSDL, Fails, Goes, decoder, Data,
       PacketsInFile, RowToCome
  <2>5. FramesInOrder'
    BY <1>13 DEF SoftReboot, CreateSDLWindow, CleanupSDL, Fails, Goes, decoder,
       FramesInOrder
  <2>6. QED
    BY <2>1, <2>2, <2>3, <2>4, <2>5
<1>14. CASE ExitCheck
  <2>1. Positions'
    BY <1>14 DEF ExitCheck, Goes, decoder, command, counts, history, Positions, Places,
       DecodePlaces
  <2>2. (Surroundings /\ RebootsAlone /\ SnapshotReads)'
    BY <1>14 DEF ExitCheck, Goes, decoder, command, counts, history, Surroundings,
       RebootsAlone, FlagStands, SnapshotReads
  <2>3. Signals'
    BY <1>14 DEF ExitCheck, Goes, decoder, command, counts, history, Signals
  <2>4. (Data /\ PacketsInFile /\ RowToCome)'
    BY <1>14 DEF ExitCheck, Goes, decoder, command, counts, history, Data, PacketsInFile,
       RowToCome
  <2>5. FramesInOrder'
    BY <1>14 DEF ExitCheck, Goes, decoder, command, counts, history, FramesInOrder
  <2>6. QED
    BY <2>1, <2>2, <2>3, <2>4, <2>5
<1>15. CASE WaitForPlayback
  <2>1. Positions'
    BY <1>15 DEF WaitForPlayback, Goes, decoder, command, counts, history, Positions,
       Places, DecodePlaces
  <2>2. (Surroundings /\ RebootsAlone /\ SnapshotReads)'
    BY <1>15 DEF WaitForPlayback, Goes, decoder, command, counts, history, Surroundings,
       RebootsAlone, FlagStands, SnapshotReads
  <2>3. Signals'
    BY <1>15 DEF WaitForPlayback, Goes, decoder, command, counts, history, Signals
  <2>4. (Data /\ PacketsInFile /\ RowToCome)'
    BY <1>15 DEF WaitForPlayback, Goes, decoder, command, counts, history, Data,
       PacketsInFile, RowToCome
  <2>5. FramesInOrder'
    BY <1>15 DEF WaitForPlayback, Goes, decoder, command, counts, history, FramesInOrder
  <2>6. QED
    BY <2>1, <2>2, <2>3, <2>4, <2>5
<1>16. CASE NextItem
  <2>1. Positions'
    BY <1>16 DEF NextItem, Goes, decoder, command, history, Positions, Places, DecodePlaces
  <2>2. (Surroundings /\ RebootsAlone /\ SnapshotReads)'
    BY <1>16 DEF NextItem, Goes, decoder, command, history, Surroundings, RebootsAlone, FlagStands,
       SnapshotReads
  <2>3. Signals'
    BY <1>16 DEF NextItem, Goes, decoder, command, history, Signals
  <2>4. (Data /\ PacketsInFile /\ RowToCome)'
    BY <1>16 DEF NextItem, Goes, decoder, command, history, Data, PacketsInFile, RowToCome
  <2>5. FramesInOrder'
    BY <1>16 DEF NextItem, Goes, decoder, command, history, FramesInOrder
  <2>6. QED
    BY <2>1, <2>2, <2>3, <2>4, <2>5
<1>17. CASE CleanupStops
  <2>1. Positions'
    BY <1>17 DEF CleanupStops, Goes, decoder, command, counts, history, Positions, Places,
       DecodePlaces
  <2>2. (Surroundings /\ RebootsAlone /\ SnapshotReads)'
    BY <1>17 DEF CleanupStops, Goes, decoder, command, counts, history, Surroundings,
       RebootsAlone, FlagStands, SnapshotReads
  <2>3. Signals'
    BY <1>17 DEF CleanupStops, Goes, decoder, command, counts, history, Signals
  <2>4. (Data /\ PacketsInFile /\ RowToCome)'
    BY <1>17 DEF CleanupStops, Goes, decoder, command, counts, history, Data, PacketsInFile,
       RowToCome
  <2>5. FramesInOrder'
    BY <1>17 DEF CleanupStops, Goes, decoder, command, counts, history, FramesInOrder
  <2>6. QED
    BY <2>1, <2>2, <2>3, <2>4, <2>5
<1>18. CASE CleanupNotifies
  <2>1. Positions'
    BY <1>18 DEF CleanupNotifies, NotifyAll, Goes, command, counts, Positions, Places,
       DecodePlaces
  <2>2. (Surroundings /\ RebootsAlone /\ SnapshotReads)'
    BY <1>18 DEF CleanupNotifies, NotifyAll, Goes, command, counts, Surroundings,
       RebootsAlone, FlagStands, SnapshotReads
  <2>3. Signals'
    BY <1>18 DEF CleanupNotifies, NotifyAll, Goes, command, counts, Signals
  <2>4. (Data /\ PacketsInFile /\ RowToCome)'
    BY <1>18 DEF CleanupNotifies, NotifyAll, Goes, command, counts, Data, PacketsInFile,
       RowToCome
  <2>5. FramesInOrder'
    BY <1>18 DEF CleanupNotifies, NotifyAll, Goes, command, counts, FramesInOrder
  <2>6. QED
    BY <2>1, <2>2, <2>3, <2>4, <2>5
<1>19. CASE Load
  <2>1. Positions'
    BY <1>19 DEF Load, Joined, ClearsQueue, Fails, Goes, command, Positions, Places,
       DecodePlaces
  <2>2. (Surroundings /\ RebootsAlone /\ SnapshotReads)'
    BY <1>19 DEF Load, Joined, ClearsQueue, Fails, Goes, command, Surroundings,
       RebootsAlone, FlagStands, SnapshotReads
  <2>3. Signals'
    BY <1>19 DEF Load, Joined, ClearsQueue, Fails, Goes, command, Signals
  <2>4. (Data /\ PacketsInFile /\ RowToCome)'
    BY <1>19 DEF Load, Joined, ClearsQueue, Fails, Goes, command, Data, PacketsInFile,
       RowToCome
  <2>5. FramesInOrder'
    BY <1>19 DEF Load, Joined, ClearsQueue, Fails, Goes, command, FramesInOrder
  <2>6. QED
    BY <2>1, <2>2, <2>3, <2>4, <2>5
<1>20. CASE Play
  <2>1. Positions'
    BY <1>20 DEF Play, CreateSDLWindow, Fails, Goes, command, history, Positions, Places,
       DecodePlaces
  <2>2. (Surroundings /\ RebootsAlone /\ SnapshotReads)'
    BY <1>20 DEF Play, CreateSDLWindow, Fails, Goes, command, history, Surroundings,
       RebootsAlone, FlagStands, SnapshotReads
  <2>3. Signals'
    BY <1>20 DEF Play, CreateSDLWindow, Fails, Goes, command, history, Signals
  <2>4. (Data /\ PacketsInFile /\ RowToCome)'
    BY <1>20 DEF Play, CreateSDLWindow, Fails, Goes, command, history, Data, PacketsInFile,
       RowToCome
  <2>5. FramesInOrder'
    BY <1>20 DEF Play, CreateSDLWindow, Fails, Goes, command, history, FramesInOrder
  <2>6. QED
    BY <2>1, <2>2, <2>3, <2>4, <2>5
<1>21. CASE PlayLoop
  <2>1. Positions'
    BY <1>21 DEF PlayLoop, Goes, decoder, command, counts, history, Positions, Places,
       DecodePlaces
  <2>2. (Surroundings /\ RebootsAlone /\ SnapshotReads)'
    BY <1>21 DEF PlayLoop, Goes, decoder, command, counts, history, Surroundings,
       RebootsAlone, FlagStands, SnapshotReads
  <2>3. Signals'
    BY <1>21 DEF PlayLoop, Goes, decoder, command, counts, history, Signals
  <2>4. (Data /\ PacketsInFile /\ RowToCome)'
    BY <1>21 DEF PlayLoop, Goes, decoder, command, counts, history, Data, PacketsInFile,
       RowToCome
  <2>5. FramesInOrder'
    BY <1>21 DEF PlayLoop, Goes, decoder, command, counts, history, FramesInOrder
  <2>6. QED
    BY <2>1, <2>2, <2>3, <2>4, <2>5
<1>22. CASE UserQuits
  <2>1. Positions'
    BY <1>22 DEF UserQuits, Goes, decoder, command, counts, history, Positions, Places,
       DecodePlaces
  <2>2. (Surroundings /\ RebootsAlone /\ SnapshotReads)'
    BY <1>22 DEF UserQuits, Goes, decoder, command, counts, history, Surroundings,
       RebootsAlone, FlagStands, SnapshotReads
  <2>3. Signals'
    BY <1>22 DEF UserQuits, Goes, decoder, command, counts, history, Signals
  <2>4. (Data /\ PacketsInFile /\ RowToCome)'
    BY <1>22 DEF UserQuits, Goes, decoder, command, counts, history, Data, PacketsInFile,
       RowToCome
  <2>5. FramesInOrder'
    BY <1>22 DEF UserQuits, Goes, decoder, command, counts, history, FramesInOrder
  <2>6. QED
    BY <2>1, <2>2, <2>3, <2>4, <2>5
<1>23. CASE QuitNotifies
  <2>1. Positions'
    BY <1>23 DEF QuitNotifies, NotifyAll, Goes, command, counts, Positions, Places,
       DecodePlaces
  <2>2. (Surroundings /\ RebootsAlone /\ SnapshotReads)'
    BY <1>23 DEF QuitNotifies, NotifyAll, Goes, command, counts, Surroundings, RebootsAlone, FlagStands,
       SnapshotReads
  <2>3. Signals'
    BY <1>23 DEF QuitNotifies, NotifyAll, Goes, command, counts, Signals
  <2>4. (Data /\ PacketsInFile /\ RowToCome)'
    BY <1>23 DEF QuitNotifies, NotifyAll, Goes, command, counts, Data, PacketsInFile,
       RowToCome
  <2>5. FramesInOrder'
    BY <1>23 DEF QuitNotifies, NotifyAll, Goes, command, counts, FramesInOrder
  <2>6. QED
    BY <2>1, <2>2, <2>3, <2>4, <2>5
<1>24. CASE ShowFrame
  <2>1. Positions'
    BY <1>24 DEF ShowFrame, Goes, command, counts, Positions, Places, DecodePlaces
  <2>2. (Surroundings /\ RebootsAlone /\ SnapshotReads)'
    BY <1>24 DEF ShowFrame, Goes, command, counts, Surroundings, RebootsAlone, FlagStands, SnapshotReads
  <2>3. Signals'
    BY <1>24 DEF ShowFrame, Goes, command, counts, Signals
  <2>4. (Data /\ PacketsInFile /\ RowToCome)'
    BY <1>24 DEF ShowFrame, Goes, command, counts, Data, PacketsInFile, RowToCome,
       FramesInOrder
  <2>5. FramesInOrder'
    BY <1>24 DEF ShowFrame, Goes, command, counts, Data, FramesInOrder
  <2>6. QED
    BY <2>1, <2>2, <2>3, <2>4, <2>5
<1>25. CASE ShowNothing
  <2>1. Positions'
    BY <1>25 DEF ShowNothing, Goes, decoder, command, counts, history, Positions, Places,
       DecodePlaces
  <2>2. (Surroundings /\ RebootsAlone /\ SnapshotReads)'
    BY <1>25 DEF ShowNothing, Goes, decoder, command, counts, history, Surroundings,
       RebootsAlone, FlagStands, SnapshotReads
  <2>3. Signals'
    BY <1>25 DEF ShowNothing, Goes, decoder, command, counts, history, Signals
  <2>4. (Data /\ PacketsInFile /\ RowToCome)'
    BY <1>25 DEF ShowNothing, Goes, decoder, command, counts, history, Data, PacketsInFile,
       RowToCome
  <2>5. FramesInOrder'
    BY <1>25 DEF ShowNothing, Goes, decoder, command, counts, history, FramesInOrder
  <2>6. QED
    BY <2>1, <2>2, <2>3, <2>4, <2>5
<1>26. CASE Flags
  <2>1. Positions'
    BY <1>26 DEF Flags, Interrupted, Goes, decoder, command, counts, history, Positions,
       Places, DecodePlaces
  <2>2. (Surroundings /\ RebootsAlone /\ SnapshotReads)'
    BY <1>26 DEF Flags, Interrupted, Goes, decoder, command, counts, history, Surroundings,
       RebootsAlone, FlagStands, SnapshotReads
  <2>3. Signals'
    BY <1>26 DEF Flags, Interrupted, Goes, decoder, command, counts, history, Signals
  <2>4. (Data /\ PacketsInFile /\ RowToCome)'
    BY <1>26 DEF Flags, Interrupted, Goes, decoder, command, counts, history, Data,
       PacketsInFile, RowToCome
  <2>5. FramesInOrder'
    BY <1>26 DEF Flags, Interrupted, Goes, decoder, command, counts, history, FramesInOrder
  <2>6. QED
    BY <2>1, <2>2, <2>3, <2>4, <2>5
<1>27. CASE EndCheck
  <2>1. Positions'
    BY <1>27 DEF EndCheck, Goes, decoder, command, counts, Positions, Places, DecodePlaces
  <2>2. (Surroundings /\ RebootsAlone /\ SnapshotReads)'
    BY <1>27 DEF EndCheck, Goes, decoder, command, counts, Surroundings, RebootsAlone, FlagStands,
       SnapshotReads
  <2>3. Signals'
    BY <1>27 DEF EndCheck, Goes, decoder, command, counts, Signals
  <2>4. Data'
    <3>1. shown \in 0..MaxFrames
      BY DEF Data
    <3>2. /\ Append(billed, shown) \in Seq(0..MaxFrames)
          /\ Len(Append(billed, shown)) = Len(billed) + 1
      BY <3>1 DEF Data
    <3>3. Len(billed) + 1 <= plays
      BY <1>27 DEF EndCheck, Goes, Data, RowToCome
    <3>4. QED
      BY <1>27, <3>2, <3>3 DEF EndCheck, decoder, counts, Data
  <2>5. FramesInOrder'
    BY <1>27 DEF EndCheck, Goes, decoder, command, counts, Data, FramesInOrder
  <2>6. (PacketsInFile /\ RowToCome)'
    BY <1>27 DEF EndCheck, Goes, decoder, command, counts, Data, PacketsInFile, RowToCome
  <2>7. QED
    BY <2>1, <2>2, <2>3, <2>4, <2>5, <2>6
<1>28. CASE Poll
  <2>1. Positions'
    BY <1>28 DEF Poll, Goes, decoder, command, counts, history, Positions, Places,
       DecodePlaces
  <2>2. (Surroundings /\ RebootsAlone /\ SnapshotReads)'
    BY <1>28 DEF Poll, Goes, decoder, command, counts, history, Surroundings, RebootsAlone, FlagStands,
       SnapshotReads
  <2>3. Signals'
    BY <1>28 DEF Poll, Goes, decoder, command, counts, history, Signals
  <2>4. (Data /\ PacketsInFile /\ RowToCome)'
    BY <1>28 DEF Poll, Goes, decoder, command, counts, history, Data, PacketsInFile,
       RowToCome
  <2>5. FramesInOrder'
    BY <1>28 DEF Poll, Goes, decoder, command, counts, history, FramesInOrder
  <2>6. QED
    BY <2>1, <2>2, <2>3, <2>4, <2>5
<1>29. CASE CloseWindow
  <2>1. Positions'
    BY <1>29 DEF CloseWindow, CleanupSDL, Goes, decoder, command, counts, Positions, Places,
       DecodePlaces
  <2>2. (Surroundings /\ RebootsAlone /\ SnapshotReads)'
    BY <1>29 DEF CloseWindow, CleanupSDL, Goes, decoder, command, counts, Surroundings,
       RebootsAlone, FlagStands, SnapshotReads
  <2>3. Signals'
    BY <1>29 DEF CloseWindow, CleanupSDL, Goes, decoder, command, counts, Signals
  <2>4. (Data /\ PacketsInFile /\ RowToCome)'
    BY <1>29 DEF CloseWindow, CleanupSDL, Goes, decoder, command, counts, Data,
       PacketsInFile, RowToCome
  <2>5. FramesInOrder'
    BY <1>29 DEF CloseWindow, CleanupSDL, Goes, decoder, command, counts, FramesInOrder
  <2>6. QED
    BY <2>1, <2>2, <2>3, <2>4, <2>5
<1>30. CASE EndDisconnect
  <2>1. Positions'
    BY <1>30 DEF EndDisconnect, StopsConnection, Goes, decoder, counts, history, Positions,
       Places, DecodePlaces
  <2>2. (Surroundings /\ RebootsAlone /\ SnapshotReads)'
    BY <1>30 DEF EndDisconnect, StopsConnection, Goes, decoder, counts, history,
       Surroundings, RebootsAlone, FlagStands, SnapshotReads
  <2>3. Signals'
    BY <1>30 DEF EndDisconnect, StopsConnection, Goes, decoder, counts, history, Signals
  <2>4. (Data /\ PacketsInFile /\ RowToCome)'
    BY <1>30 DEF EndDisconnect, StopsConnection, Goes, decoder, counts, history, Data,
       PacketsInFile, RowToCome
  <2>5. FramesInOrder'
    BY <1>30 DEF EndDisconnect, StopsConnection, Goes, decoder, counts, history,
       FramesInOrder
  <2>6. QED
    BY <2>1, <2>2, <2>3, <2>4, <2>5
<1>31. CASE Destroyed
  <2>1. Positions'
    BY <1>31 DEF Destroyed, Joined, ClearsQueue, Goes, command, counts, history, Positions,
       Places, DecodePlaces
  <2>2. (Surroundings /\ RebootsAlone /\ SnapshotReads)'
    BY <1>31 DEF Destroyed, Joined, ClearsQueue, Goes, command, counts, history,
       Surroundings, RebootsAlone, FlagStands, SnapshotReads
  <2>3. Signals'
    BY <1>31 DEF Destroyed, Joined, ClearsQueue, Goes, command, counts, history, Signals
  <2>4. (Data /\ PacketsInFile /\ RowToCome)'
    BY <1>31 DEF Destroyed, Joined, ClearsQueue, Goes, command, counts, history, Data,
       PacketsInFile, RowToCome
  <2>5. FramesInOrder'
    BY <1>31 DEF Destroyed, Joined, ClearsQueue, Goes, command, counts, history,
       FramesInOrder
  <2>6. QED
    BY <2>1, <2>2, <2>3, <2>4, <2>5
<1>32. CASE ResetReboot
  <2>1. Positions'
    BY <1>32 DEF ResetReboot, Goes, decoder, counts, history, Positions, Places, DecodePlaces
  <2>2. (Surroundings /\ RebootsAlone /\ SnapshotReads)'
    BY <1>32 DEF ResetReboot, Goes, decoder, counts, history, Surroundings, RebootsAlone,
       FlagStands, SnapshotReads
  <2>3. Signals'
    BY <1>32 DEF ResetReboot, Goes, decoder, counts, history, Signals
  <2>4. (Data /\ PacketsInFile /\ RowToCome)'
    BY <1>32 DEF ResetReboot, Goes, decoder, counts, history, Data, PacketsInFile, RowToCome
  <2>5. FramesInOrder'
    BY <1>32 DEF ResetReboot, Goes, decoder, counts, history, FramesInOrder
  <2>6. QED
    BY <2>1, <2>2, <2>3, <2>4, <2>5
<1>33. CASE UNCHANGED vars
  BY <1>33 DEF vars, decoder, command, counts, history, Positions, Surroundings, Signals, Data,
                FramesInOrder, PacketsInFile, RowToCome, RebootsAlone, FlagStands, SnapshotReads
<1>34. QED
  BY <1>1, <1>2, <1>3, <1>4, <1>5, <1>6, <1>7, <1>8, <1>9, <1>10, <1>11, <1>12,
     <1>13, <1>14, <1>15, <1>16, <1>17, <1>18, <1>19, <1>20, <1>21, <1>22, <1>23,
     <1>24, <1>25, <1>26, <1>27, <1>28, <1>29, <1>30, <1>31, <1>32, <1>33
     DEF Next, Decode, Run

(* The variables have their types; in particular the queue never passes           *)
(* MAX_QUEUE_SIZE although two places of the decode thread wait for room, and no  *)
(* item is logged twice.                                                          *)
THEOREM TypeCorrect == Spec => []TypeOK
<1>1. Inv => TypeOK
  BY DEF Inv, Positions, Surroundings, Signals, Data, TypeOK
<1>2. QED
  BY <1>1, InitInv, NextInv, PTL DEF Spec

(* What waits in the queue is what comes next in the file that is being played.   *)
THEOREM FramesArriveInOrder == Spec => []FramesInOrder
<1>1. Inv => FramesInOrder
  BY DEF Inv
<1>2. QED
  BY <1>1, InitInv, NextInv, PTL DEF Spec

(* A soft reboot takes the renderer from no snapshot.                             *)
THEOREM SnapshotsSafe == Spec => []SnapshotReads
<1>1. Inv => SnapshotReads
  BY DEF Inv
<1>2. QED
  BY <1>1, InitInv, NextInv, PTL DEF Spec

(* A REBOOT that waits to be carried out has should_soft_reboot_ up all the while: *)
(* none is lost, but for those that "crossed" a soft reboot (line 317 of           *)
(* EdgeManager.cpp clears the flag after the connection is up again).              *)
THEOREM RebootKept == Spec => [](asked = "waits" => softReboot)
<1>1. Inv => (asked = "waits" => softReboot)
  BY DEF Inv, RebootsAlone, FlagStands
<1>2. QED
  BY <1>1, InitInv, NextInv, PTL DEF Spec
================================================================================
