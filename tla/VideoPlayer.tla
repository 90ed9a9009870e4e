------------------------------- MODULE VideoPlayer -------------------------------
(* The player: run(), which loads, plays and logs one item after another and     *)
(* renders in Update, the decode thread that fills frame_queue, and the thread    *)
(* that handles cloud commands.  The decode thread's wait on queue_cv is cut      *)
(* between the test of its predicate and the sleep, because should_stop is set    *)
(* and queue_cv is notified without queue_mutex.  Pause is never called.          *)
EXTENDS Integers, Sequences, FiniteSets

CONSTANTS
  MaxQueue,   (* MAX_QUEUE_SIZE                                                 *)
  MaxFrames,  (* bound: decoded frames of a media file                          *)
  MaxPlays,   (* bound: items played                                            *)
  MaxFaults,  (* bound: files, windows and decoders that fail                   *)
  MaxReboots  (* bound: REBOOT commands                                         *)

ASSUME VideoPlayerConstants ==
  /\ {MaxQueue, MaxFrames, MaxPlays} \subseteq Nat \ {0}
  /\ {MaxFaults, MaxReboots} \subseteq Nat

VARIABLES
  main,       (* where run() stands, see Places                                 *)
  dec,        (* where the decode thread stands, see DecodePlaces               *)
  media,      (* what is open: its kind and its frames, or NoMedia              *)
  queue,      (* frame_queue: each frame's play and its number                  *)
  pushed,     (* frames of this play put in the queue                           *)
  burst,      (* frames the decoder still owes for the packet sent to it        *)
  elapsed,    (* target_duration_ms has passed since Load                       *)
  playing, shouldStop,
  window,     (* window and window_open: none; bare, without a renderer; open;  *)
              (* shut by the user, not destroyed yet                            *)
  ws,         (* the command thread: off, idle, or reading the renderer         *)
  softReboot, shouldExit,
  plays, faults, reboots,
  shown,      (* history: frames of this play rendered                          *)
  billed,     (* history: frames rendered, for each play logged as a success    *)
  missed,     (* history: the last notify_all met the decode thread between     *)
              (* its test and its sleep                                         *)
  failed,     (* history: this play's decode thread gave up by itself           *)
  asked,      (* history: the last REBOOT: "carried" out, "waits", or "crossed"  *)
              (* a soft reboot between its connection and its flag              *)
  torn        (* history: a renderer was destroyed under a snapshot, and where  *)

vars == <<main, dec, media, queue, pushed, burst, elapsed, playing, shouldStop, window,
          ws, softReboot, shouldExit, plays, faults, reboots, shown, billed, missed,
          failed, asked, torn>>

NoMedia == [kind |-> "none", frames |-> 0]
Medias == [kind : {"video"}, frames : 1..MaxFrames] \cup [kind : {"image"}, frames : {1}]

(* The main loop starts with a window and a connection. *)
Init ==
  /\ main = "top" /\ dec = "none" /\ media = NoMedia /\ queue = <<>>
  /\ pushed = 0 /\ burst = 0 /\ elapsed = FALSE
  /\ playing = FALSE /\ shouldStop = FALSE /\ window = "open"
  /\ ws = "idle" /\ softReboot = FALSE /\ shouldExit = FALSE
  /\ plays = 0 /\ faults = 0 /\ reboots = 0
  /\ shown = 0 /\ billed = <<>> /\ missed = FALSE /\ failed = FALSE /\ torn = {}
  /\ asked = "carried"

counts  == <<plays, faults, reboots>>
history == <<shown, billed, missed, failed, torn>>
decoder == <<dec, media, queue, pushed, burst, elapsed>>
command == <<ws, softReboot, asked>>

Fails ==
  /\ faults < MaxFaults
  /\ faults' = faults + 1

NotifyNobody == UNCHANGED <<dec, missed>>  (* mutant: no notify_all *)

(* queue_cv.notify_all(): a sleeping decode thread looks again. *)
NotifyAll ==
  /\ dec' = IF dec = "asleep" THEN "push" ELSE dec
  /\ missed' = (dec = "falling")

(* CleanupSDL, called at a place, takes the renderer from whoever reads it. *)
CleanupSDL(place) ==
  torn' = IF ws = "snapshot" /\ window \in {"open", "shut"} THEN torn \cup {place} ELSE torn

--------------------------------------------------------------------------------
(* DecodeThreadFunc.                                                              *)

Decodes(from, to) ==
  /\ dec = from
  /\ dec' = to
  /\ UNCHANGED <<main, media, elapsed, playing, window, command, shouldExit, plays,
                 reboots, shown, billed, missed, torn>>

(* The scaler or its buffer cannot be had: the thread returns. *)
Setup ==
  \/ /\ Decodes("setup", "test")
     /\ UNCHANGED <<queue, pushed, burst, shouldStop, failed, faults>>
  \/ /\ Decodes("setup", "done")
     /\ Fails
     /\ failed' = TRUE
     /\ UNCHANGED <<queue, pushed, burst, shouldStop>>

ImageTimeUp == media.kind = "image" /\ elapsed

(* The loop's condition, the time of an image, its wait after the one frame. *)
LoopTest ==
  /\ \/ shouldStop /\ Decodes("test", "done") /\ UNCHANGED shouldStop
     \/ ~shouldStop /\ ImageTimeUp /\ Decodes("test", "done") /\ shouldStop' = TRUE
     \/ /\ ~shouldStop /\ ~ImageTimeUp /\ ~(media.kind = "image" /\ pushed = 1)
        /\ Decodes("test", "room")
        /\ UNCHANGED shouldStop
  /\ UNCHANGED <<queue, pushed, burst, failed, faults>>

(* wait_for gives up after 100 ms: a full queue only delays the next packet. *)
WaitForRoom ==
  /\ Decodes("room", IF shouldStop THEN "done" ELSE "read")
  /\ UNCHANGED <<queue, pushed, burst, shouldStop, failed, faults>>

(* av_read_frame and avcodec_send_packet.  One packet may release two frames;     *)
(* packets that release none change nothing.  Another error only leaves the loop. *)
ReadPacket ==
  \/ /\ pushed < media.frames
     /\ Decodes("read", "push")
     /\ burst' \in {b \in 1..2 : pushed + b <= media.frames}
     /\ UNCHANGED <<queue, pushed, shouldStop, failed, faults>>
  \/ /\ pushed = media.frames
     /\ Decodes("read", "done")
     /\ shouldStop' = TRUE
     /\ UNCHANGED <<queue, pushed, burst, failed, faults>>
  \/ /\ Decodes("read", "done")
     /\ Fails
     /\ failed' = TRUE
     /\ UNCHANGED <<queue, pushed, burst, shouldStop>>

RoomForOneMore == Len(queue) <= MaxQueue  (* mutant: <= for < *)

HasRoom == Len(queue) < MaxQueue

(* Under queue_mutex: the predicate of queue_cv.wait, then the push or the break. *)
PushFrame ==
  \/ /\ shouldStop
     /\ Decodes("push", "test")
     /\ burst' = 0
     /\ UNCHANGED <<queue, pushed, shouldStop, failed, faults>>
  \/ /\ ~shouldStop /\ HasRoom
     /\ Decodes("push", IF burst = 1 THEN "test" ELSE "push")
     /\ queue' = Append(queue, [play |-> plays, n |-> pushed + 1])
     /\ pushed' = pushed + 1
     /\ burst' = burst - 1
     /\ UNCHANGED <<shouldStop, failed, faults>>
  \/ /\ ~shouldStop /\ ~HasRoom
     /\ Decodes("push", "falling")
     /\ UNCHANGED <<queue, pushed, burst, shouldStop, failed, faults>>

(* The mutex is released in the same step. *)
FallAsleep ==
  /\ Decodes("falling", "asleep")
  /\ UNCHANGED <<queue, pushed, burst, shouldStop, failed, faults>>

TimePasses ==
  /\ media.kind = "image" /\ ~elapsed /\ elapsed' = TRUE
  /\ UNCHANGED <<main, dec, media, queue, pushed, burst, playing, shouldStop, window,
                 command, shouldExit, counts, history>>

--------------------------------------------------------------------------------
(* handleCloudCommand.                                                            *)

Commands(from, to) ==
  /\ ws = from
  /\ ws' = to
  /\ UNCHANGED <<main, decoder, playing, shouldStop, window, shouldExit, plays, faults,
                 history>>

(* stopGatewayConnection clears wsRunning_ before it joins. *)
Receives == main \notin {"disconnect", "endDisconnect"}

Reboot ==
  /\ Receives
  /\ reboots < MaxReboots
  /\ Commands("idle", "idle")
  /\ softReboot' = TRUE
  /\ asked' = IF main = "rebooted" THEN "crossed" ELSE "waits"
  /\ reboots' = reboots + 1

(* CaptureSnapshotBMP looks at the renderer ... *)
Snapshot ==
  /\ Receives
  /\ window \in {"open", "shut"}
  /\ Commands("idle", "snapshot")
  /\ UNCHANGED <<softReboot, asked, reboots>>

(* ... and reads its pixels. *)
SnapshotTaken ==
  /\ Commands("snapshot", "idle")
  /\ UNCHANGED <<softReboot, asked, reboots>>

--------------------------------------------------------------------------------
(* run().                                                                         *)

Goes(from, to) == main = from /\ main' = to

Top ==
  /\ Goes("top", IF softReboot THEN "disconnect" ELSE "exitCheck")
  /\ UNCHANGED <<decoder, playing, shouldStop, window, command, shouldExit, counts, history>>

DoesNotJoin == ws' = IF ws = "snapshot" THEN ws ELSE "off"  (* mutant: no join *)

(* stopGatewayConnection joins the thread, in the middle of no command. *)
StopsConnection == ws \in {"idle", "off"} /\ ws' = "off"

Disconnect ==
  /\ Goes("disconnect", "reboot")
  /\ StopsConnection
  /\ UNCHANGED <<decoder, playing, shouldStop, window, softReboot, asked, shouldExit, counts,
                 history>>

(* CreateSDLWindow fills in a missing window; one that exists stays as it is.     *)
(* SDL_Init or the window may fail, or the renderer of a window that is left bare. *)
CreateSDLWindow(old) ==
  IF old # "none" THEN window' = old /\ UNCHANGED faults
  ELSE \/ window' = "open" /\ UNCHANGED faults
       \/ window' \in {"none", "bare"} /\ Fails

(* Stop, CloseWindow, SDL_Quit, SDL_Init; then the window and the connection again ... *)
SoftReboot ==
  /\ Goes("reboot", "rebooted")
  /\ shouldStop' = TRUE
  /\ CleanupSDL("reboot")
  /\ \/ CreateSDLWindow("none") /\ ws' = "idle"
     \/ Fails /\ window' = "none" /\ UNCHANGED ws
  /\ asked' = "carried"
  /\ UNCHANGED <<decoder, playing, softReboot, shouldExit, plays, reboots, shown, billed, missed,
                 failed>>

(* ... and only then should_soft_reboot_ = false, whatever has come in since.     *)
ResetReboot ==
  /\ Goes("rebooted", "exitCheck")
  /\ softReboot' = FALSE
  /\ UNCHANGED <<decoder, playing, shouldStop, window, ws, asked, shouldExit, counts, history>>

ExitCheck ==
  /\ Goes("exitCheck", IF shouldExit THEN "leave" ELSE "next")
  /\ UNCHANGED <<decoder, playing, shouldStop, window, command, shouldExit, counts, history>>

(* No item: five seconds of waiting, or the end of them by SDL_QUIT or a command. *)
WaitForPlayback ==
  /\ Goes("next", "poll")
  /\ \/ UNCHANGED shouldExit
     \/ ~softReboot /\ shouldExit' = TRUE
  /\ UNCHANGED <<decoder, playing, shouldStop, window, command, counts, history>>

(* An item; Load begins with CleanupDecoder, as ~VideoPlayer does. *)
NextItem ==
  /\ plays < MaxPlays
  /\ Goes("next", "clean")
  /\ plays' = plays + 1
  /\ UNCHANGED <<decoder, playing, shouldStop, window, command, shouldExit, faults,
                 reboots, history>>

CleanupStops ==
  /\ \/ Goes("clean", "notify") \/ Goes("destroy", "endNotify")
  /\ shouldStop' = TRUE
  /\ UNCHANGED <<decoder, playing, window, command, shouldExit, counts, history>>

CleanupNotifies ==
  /\ \/ Goes("notify", "join") \/ Goes("endNotify", "endJoin")
  /\ NotifyAll
  /\ UNCHANGED <<media, queue, pushed, burst, elapsed, playing, shouldStop, window, command,
                 shouldExit, counts, shown, billed, failed, torn>>

(* decode_thread->join() returns; the contexts are freed, the flags reset. *)
Joined ==
  /\ dec \in {"none", "done"}
  /\ dec' = "none"
  /\ playing' = FALSE

KeepsQueue == UNCHANGED queue  (* mutant: the queue is not emptied *)

ClearsQueue == queue' = <<>>

(* The rest of Load: a file that opens, or one that does not. *)
Load ==
  /\ Joined /\ ClearsQueue
  /\ shouldStop' = FALSE
  /\ pushed' = 0 /\ burst' = 0 /\ elapsed' = FALSE /\ shown' = 0 /\ failed' = FALSE
  /\ \/ Goes("join", "play") /\ media' \in Medias /\ UNCHANGED faults
     \/ Goes("join", "endCheck") /\ media' = NoMedia /\ Fails
  /\ UNCHANGED <<window, command, shouldExit, plays, reboots, billed, missed, torn>>

(* Play() opens the window if there is none and starts the decode thread. *)
Play ==
  /\ CreateSDLWindow(window)
  /\ IF window' = "none"
     THEN Goes("play", "endCheck") /\ UNCHANGED <<dec, playing, shouldStop>>
     ELSE /\ Goes("play", "loop")
          /\ dec' = "setup"
          /\ playing' = TRUE
          /\ shouldStop' = FALSE
  /\ UNCHANGED <<media, queue, pushed, burst, elapsed, command, shouldExit, plays, reboots,
                 history>>

(* while (IsPlaying()) *)
PlayLoop ==
  /\ Goes("loop", IF playing THEN "update" ELSE "endCheck")
  /\ UNCHANGED <<decoder, playing, shouldStop, window, command, shouldExit, counts, history>>

(* Update meets SDL_QUIT or the escape key ... *)
UserQuits ==
  /\ window = "open"
  /\ Goes("update", "quitNotify")
  /\ shouldStop' = TRUE
  /\ UNCHANGED <<decoder, playing, window, command, shouldExit, counts, history>>

(* ... wakes the decode thread and forgets the window. *)
QuitNotifies ==
  /\ Goes("quitNotify", "flags")
  /\ NotifyAll
  /\ playing' = FALSE
  /\ window' = "shut"
  /\ UNCHANGED <<media, queue, pushed, burst, elapsed, shouldStop, command, shouldExit,
                 counts, shown, billed, failed, torn>>

(* Update renders the next frame, under queue_mutex, and notifies. *)
ShowFrame ==
  /\ ~shouldStop /\ window = "open" /\ queue # <<>> /\ dec # "falling"
  /\ Goes("update", "flags")
  /\ queue' = Tail(queue)
  /\ shown' = shown + 1
  /\ dec' = IF dec = "asleep" THEN "push" ELSE dec
  /\ UNCHANGED <<media, pushed, burst, elapsed, playing, shouldStop, window, command,
                 shouldExit, counts, billed, missed, failed, torn>>

(* Update has no frame, it is too early for one, or the playback is over. *)
ShowNothing ==
  /\ Goes("update", "flags")
  /\ playing' = (playing /\ ~shouldStop)
  /\ UNCHANGED <<decoder, shouldStop, window, command, shouldExit, counts, history>>

NeverInterrupted == FALSE  (* mutant: REBOOT waits for the end of the playback *)

Interrupted == softReboot

(* What the playback loop looks at after Update. *)
Flags ==
  /\ \/ Interrupted /\ Goes("flags", "endCheck") /\ shouldStop' = TRUE
     \/ ~Interrupted /\ window # "open" /\ Goes("flags", "leave") /\ shouldStop' = TRUE
     \/ ~Interrupted /\ window = "open" /\ Goes("flags", "loop") /\ UNCHANGED shouldStop
  /\ UNCHANGED <<decoder, playing, window, command, shouldExit, counts, history>>

(* A window that is not open ends run(); else recordPlayEnd, with its default 200. *)
EndCheck ==
  /\ \/ window # "open" /\ Goes("endCheck", "leave") /\ UNCHANGED billed
     \/ window = "open" /\ Goes("endCheck", "poll") /\ billed' = Append(billed, shown)
  /\ UNCHANGED <<decoder, playing, shouldStop, window, command, shouldExit, counts, shown,
                 missed, failed, torn>>

Poll ==
  /\ \/ Goes("poll", "top") /\ UNCHANGED shouldExit
     \/ Goes("poll", "leave") /\ shouldExit' = TRUE
  /\ UNCHANGED <<decoder, playing, shouldStop, window, command, counts, history>>

(* end_loop: CloseWindow while the connection is still up ... *)
CloseWindow ==
  /\ Goes("leave", "endDisconnect")
  /\ shouldStop' = TRUE
  /\ window' = "none"
  /\ CleanupSDL("end")
  /\ UNCHANGED <<decoder, playing, command, shouldExit, counts, shown, billed, missed, failed>>

(* ... then the connection, and ~EdgeManager's ~VideoPlayer. *)
EndDisconnect ==
  /\ Goes("endDisconnect", "destroy")
  /\ StopsConnection
  /\ UNCHANGED <<decoder, playing, shouldStop, window, softReboot, asked, shouldExit, counts,
                 history>>

Destroyed ==
  /\ Goes("endJoin", "gone")
  /\ Joined /\ ClearsQueue
  /\ media' = NoMedia
  /\ UNCHANGED <<pushed, burst, elapsed, shouldStop, window, command, shouldExit, counts,
                 history>>

Decode ==
  \/ Setup \/ LoopTest \/ WaitForRoom \/ ReadPacket \/ PushFrame \/ FallAsleep

Run ==
  \/ Top \/ Disconnect \/ SoftReboot \/ ResetReboot \/ ExitCheck \/ WaitForPlayback \/ NextItem
  \/ CleanupStops \/ CleanupNotifies \/ Load \/ Play
  \/ PlayLoop \/ UserQuits \/ QuitNotifies \/ ShowFrame \/ ShowNothing \/ Flags
  \/ EndCheck \/ Poll \/ CloseWindow \/ EndDisconnect \/ Destroyed

Next == Decode \/ TimePasses \/ Reboot \/ Snapshot \/ SnapshotTaken \/ Run

(* Both threads run, a snapshot ends, time passes, and a frame falls due.         *)
Fairness ==
  /\ WF_vars(Decode) /\ WF_vars(TimePasses) /\ WF_vars(SnapshotTaken) /\ WF_vars(Run)
  /\ SF_vars(ShowFrame)

Spec == Init /\ [][Next]_vars
FairSpec == Spec /\ Fairness

--------------------------------------------------------------------------------
Places == {"top", "disconnect", "reboot", "rebooted", "exitCheck", "next", "clean", "notify",
           "join", "play", "loop", "update", "quitNotify", "flags", "endCheck", "poll", "leave",
           "endDisconnect", "destroy", "endNotify", "endJoin", "gone"}
DecodePlaces == {"none", "setup", "test", "room", "read", "push", "falling", "asleep", "done"}

Frames == [play : 1..MaxPlays, n : 1..MaxFrames]

TypeOK ==
  /\ main \in Places /\ dec \in DecodePlaces
  /\ media \in Medias \cup {NoMedia}
  /\ queue \in Seq(Frames) /\ Len(queue) <= MaxQueue
  /\ pushed \in 0..MaxFrames /\ burst \in 0..2 /\ shown \in 0..MaxFrames
  /\ window \in {"none", "bare", "open", "shut"}
  /\ ws \in {"off", "idle", "snapshot"}
  /\ plays \in 0..MaxPlays /\ faults \in 0..MaxFaults /\ reboots \in 0..MaxReboots
  /\ billed \in Seq(0..MaxFrames) /\ Len(billed) <= plays
  /\ elapsed \in BOOLEAN /\ playing \in BOOLEAN /\ shouldStop \in BOOLEAN
  /\ softReboot \in BOOLEAN /\ shouldExit \in BOOLEAN
  /\ missed \in BOOLEAN /\ failed \in BOOLEAN
  /\ asked \in {"carried", "waits", "crossed"} /\ torn \subseteq {"reboot", "end"}

(* The frames that wait to be rendered are the next ones of the file that is      *)
(* being played, in order: none of an earlier file, none twice, none left out.    *)
FramesInOrder ==
  main \notin {"clean", "notify", "join", "gone"} =>
    /\ shown + Len(queue) = pushed
    /\ \A i \in 1..Len(queue) : queue[i] = [play |-> plays, n |-> shown + i]

(* A soft reboot never destroys the renderer under a snapshot, because it joins   *)
(* the command thread first.  The end of run() has the two the other way round.   *)
SnapshotReads == torn \subseteq {"end"}

Stuck == dec = "asleep" /\ missed
DeadAir == playing /\ failed

(* Whatever the decode thread is doing, run() comes back to choose the next item, *)
(* or ends, unless CleanupDecoder's notification was lost between the thread's    *)
(* test and its sleep (run() then joins it for ever) or the thread gave up        *)
(* without setting should_stop (run() then waits for ever for frames).            *)
TurnsAgain == main # "next" ~> (main \in {"next", "gone"} \/ Stuck \/ DeadAir)

(* A REBOOT is carried out, even one that finds the playback dead, unless the     *)
(* main thread is lost in the join, run() ends, or the command came in after a    *)
(* soft reboot had connected again and before it cleared should_soft_reboot_.     *)
RebootServed == asked = "waits" ~> (asked = "carried" \/ Stuck \/ main = "gone")
================================================================================
