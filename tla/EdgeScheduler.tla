------------------------------ MODULE EdgeScheduler ------------------------------
(* The screen's schedule.  The main thread of EdgeManager picks ad after ad from   *)
(* the SQLite tables (getNextAsset) while the sync thread, every minute, loads the *)
(* ads and the schedule that the gateway has for the device (loadAds,              *)
(* loadSchedule).  Both use one connection: a selection reads what a load has      *)
(* written so far, and of a load and a job of the main thread, whoever cannot begin *)
(* its transaction rolls the other's back (EdgeDatabase has this statement by      *)
(* statement; here the main thread's own short transactions are single steps).    *)
EXTENDS EdgeSchedule

CONSTANTS
  Ads,
  Bundles,      (* sequence of what the control plane may publish for the device:  *)
                (* policy, ads (in order: id, and the version of the file, its     *)
                (* md5), interrupts, slots (from BuildEdgeSchedule)                *)
  Absent,       (* no row, or no file                                              *)
  Short,        (* a file whose writing was not finished                           *)
  MaxPublishes, (* bound: the published bundle changes                             *)
  MaxFaults     (* bound: kills, writes that fail without anyone noticing, and     *)
                (* BEGINs that meet an open transaction                            *)

Policies == {Bundles[b].policy : b \in DOMAIN Bundles}
AdsOf(b) == ToSet(Bundles[b].ads)
Versions == UNION {{ad.md5 : ad \in AdsOf(b)} : b \in DOMAIN Bundles}

BundleType ==
  [policy : Nat, ads : Seq([id : Ads, md5 : Versions]),
   interrupts : SUBSET [ad : Ads, priority : Int],
   slots : Seq([slot : Nat, range : Times \X Times, list : Seq(Ads), priority : Int])]

ASSUME EdgeSchedulerConstants ==
  /\ Absent \notin Versions /\ Short \notin Versions /\ Absent # Short
  /\ Bundles \in Seq(BundleType) /\ Bundles # <<>>
  /\ \A b \in DOMAIN Bundles : IsFiniteSet(Bundles[b].interrupts)
  /\ {MaxPublishes, MaxFaults} \subseteq Nat

VARIABLES
  published,    (* the bundle that the gateway gives out                           *)
  db,           (* the tables, as the connection reads them                        *)
  tx,           (* what they held when the load began its transaction, or NoTx     *)
  file,         (* resources/ads: ad -> version, Short or Absent                   *)
  main,         (* where the main thread is                                        *)
  item,         (* what it plays, or NothingFound                                  *)
  lastSlot,     (* last_timeslot_id_                                               *)
  index,        (* current_playlist_index_                                         *)
  sync,         (* where the sync thread is (during init: the main thread)         *)
  batch,        (* the bundle whose schedule it loads, or 0                        *)
  rest,         (* ads, or statements of loadSchedule, still to be worked on       *)
  torn,         (* history: policies whose last load was broken off or rolled back *)
  suspect,      (* history: ads whose file may not be what their row says: cut by  *)
                (* a kill or a full disk, there before the row changed, served in  *)
                (* another version, or kept while the row was rolled back          *)
  finished,     (* history: interrupts whose ad recordPlayEnd was told of since    *)
                (* they were inserted                                              *)
  unmarked,     (* history: those that it could not mark, because it and a load    *)
                (* met in a BEGIN                                                  *)
  publishes, faults

memory == <<main, item, lastSlot, index>>
loader == <<sync, batch, rest>>
marks == <<torn, suspect, finished, unmarked>>
bounds == <<publishes, faults>>
schedulerVars == <<published, db, tx, file, memory, loader, marks, bounds>>

NoTx == [open |-> FALSE]

Registered == {a \in Ads : db.ads[a] # Absent}

SchedulerInit ==
  /\ published = 1
  /\ db = [ads |-> [a \in Ads |-> Absent], interrupts |-> {}, slots |-> <<>>]
  /\ tx = NoTx
  /\ file = [a \in Ads |-> Absent]
  /\ main = "boot"
  /\ item = NothingFound
  /\ lastSlot = -1
  /\ index = 0
  /\ sync = "ads"
  /\ batch = 0
  /\ rest = <<>>
  /\ torn = {}
  /\ suspect = {}
  /\ finished = {}
  /\ unmarked = {}
  /\ publishes = 0 /\ faults = 0

--------------------------------------------------------------------------------
Faulty ==
  /\ faults < MaxFaults
  /\ faults' = faults + 1

(* The control plane publishes another bundle for the device.                     *)
Publish ==
  /\ publishes < MaxPublishes
  /\ publishes' = publishes + 1
  /\ published' \in DOMAIN Bundles \ {published}
  /\ UNCHANGED <<db, tx, file, memory, loader, marks, faults>>

--------------------------------------------------------------------------------
(* getNextAsset.                                                                  *)
(* The pending interrupt of highest priority, if its ad has a row; only this one  *)
(* is looked at.                                                                  *)
PendingInterrupts == {i \in db.interrupts : i.status = 0}
TopInterrupts ==
  {i \in PendingInterrupts : \A j \in PendingInterrupts : j.priority <= i.priority}

Plays(i) == [ad |-> i.ad, slot |-> 0, policy |-> i.policy]

SelectInterrupt ==
  /\ main = "interrupt"
  /\ \/ \E i \in TopInterrupts : /\ i.ad \in Registered
                                 /\ item' = Plays(i)
                                 /\ main' = "start"
     \/ /\ TopInterrupts = {} \/ \E i \in TopInterrupts : i.ad \notin Registered
        /\ main' = "slots"
        /\ UNCHANGED item
  /\ UNCHANGED <<published, db, tx, file, lastSlot, index, loader, marks, bounds>>

(* Then the time slots, at any time of the day; when nothing is found run()       *)
(* sleeps and tries again.                                                        *)
SelectSlotAt(now) ==
  /\ main = "slots"
  /\ LET pick == PickFromSlots(db.slots, Registered, now, lastSlot, index) IN
     /\ lastSlot' = pick.last
     /\ index' = pick.index
     /\ item' = pick.item
     /\ main' = IF pick.item = NothingFound THEN "interrupt" ELSE "start"
  /\ UNCHANGED <<published, db, tx, file, loader, marks, bounds>>

SelectSlot == \E now \in Times : SelectSlotAt(now)

--------------------------------------------------------------------------------
(* The main thread's transactions.  When the load has one open, BEGIN fails, the  *)
(* catch block's rollback ends the load's and the job's own rows are not written, *)
(* nor ever again.                                                                *)
RowsUndone == {a \in Ads : tx # NoTx /\ tx.ads[a] \notin {Absent, db.ads[a]}}

RollsLoadBack ==
  /\ tx # NoTx
  /\ Faulty
  /\ db' = tx
  /\ tx' = NoTx
  /\ torn' = torn \cup {Bundles[b].policy : b \in {batch} \ {0}}
  /\ suspect' = suspect \cup RowsUndone

(* recordPlayStart *)
StartPlay ==
  /\ main = "start"
  /\ main' = "playing"
  /\ \/ RollsLoadBack
     \/ tx = NoTx /\ UNCHANGED <<db, tx, torn, suspect, faults>>
  /\ UNCHANGED <<published, file, item, lastSlot, index, loader, finished, unmarked, publishes>>

(* recordPlayEnd, whether or not the file could be played: last_played_time, and  *)
(* the ad's interrupts, of whatever policy, are done.                             *)
MarksOwnPolicy(i) == IF i.ad = item.ad /\ i.policy = item.policy   (* mutant *)
                     THEN [i EXCEPT !.status = 1] ELSE i

MarksPlayed(i) == IF i.ad = item.ad THEN [i EXCEPT !.status = 1] ELSE i

Ended(tables) == {<<i.policy, i.ad>> : i \in {j \in tables.interrupts : j.ad = item.ad}}

MarkPlayed ==
  /\ db' = [db EXCEPT !.interrupts = {MarksPlayed(i) : i \in @}]
  /\ finished' = finished \cup Ended(db)
  /\ unmarked' = unmarked \ Ended(db)

(* The rows stay as in tables, which another one's rollback leaves.               *)
LosesMarks(tables) ==
  /\ finished' = finished \cup Ended(tables)
  /\ unmarked' = unmarked \cup (Ended(tables) \ finished)

EndPlay ==
  /\ main = "playing"
  /\ main' = "interrupt"
  /\ item' = NothingFound
  /\ \/ RollsLoadBack /\ LosesMarks(tx)
     \/ tx = NoTx /\ MarkPlayed /\ UNCHANGED <<tx, torn, suspect, faults>>
  /\ UNCHANGED <<published, file, lastSlot, index, loader, publishes>>

(* A load's BEGIN meets the transaction of recordPlayStart or recordPlayEnd: the  *)
(* load is given up, and its rollback takes what that job has written.  What the  *)
(* job still writes is kept; then its COMMIT fails, the rollback in its catch     *)
(* block throws, and run() is left: nothing is played until the player is killed. *)
LoadMeetsPlay ==
  /\ sync \in {"ads", "schedule"}
  /\ main \in {"start", "playing"}
  /\ Faulty
  /\ \/ main = "start" /\ UNCHANGED <<db, finished, unmarked>>
     \/ main = "playing" /\ MarkPlayed
     \/ main = "playing" /\ LosesMarks(db) /\ UNCHANGED db
  /\ main' = "halted"
  /\ item' = NothingFound
  /\ sync' = IF sync = "ads" THEN "schedule" ELSE "ads"
  /\ UNCHANGED <<published, tx, file, lastSlot, index, batch, rest, torn, suspect, publishes>>

--------------------------------------------------------------------------------
(* syncAds and loadAds.                                                           *)
FetchAds ==
  /\ sync = "ads"
  /\ main # "cleanup"
  /\ tx' = db
  /\ sync' = "store"
  /\ rest' = Bundles[published].ads
  /\ UNCHANGED <<published, db, file, memory, batch, marks, bounds>>

FetchAdsFails ==
  /\ sync = "ads"
  /\ main # "cleanup"
  /\ sync' = "schedule"
  /\ UNCHANGED <<published, db, tx, file, memory, batch, rest, marks, bounds>>

(* REPLACE INTO advertisement.  The file is fetched only when there *)
(* is none: its md5 is never looked at.                                           *)
StoreAd ==
  /\ sync = "store"
  /\ rest # <<>>
  /\ LET ad == Head(rest) IN
     /\ db' = [db EXCEPT !.ads[ad.id] = ad.md5]
     /\ IF file[ad.id] = Absent
        THEN sync' = "download" /\ UNCHANGED rest
        ELSE rest' = Tail(rest) /\ UNCHANGED sync
     /\ suspect' = IF file[ad.id] \in {Absent, ad.md5} THEN suspect
                   ELSE suspect \cup {ad.id}
  /\ UNCHANGED <<published, tx, file, memory, batch, torn, finished, unmarked, bounds>>

(* downloadAdFile: the answer is complete before the file is opened.              *)
OpenFile ==
  /\ sync = "download"
  /\ sync' = "writing"
  /\ file' = [file EXCEPT ![Head(rest).id] = Short]
  /\ UNCHANGED <<published, db, tx, memory, batch, rest, marks, bounds>>

AdDone ==
  /\ sync' = "store"
  /\ rest' = Tail(rest)

DownloadFailsOpened ==  (* mutant *)
  /\ sync = "download"
  /\ AdDone
  /\ file' = [file EXCEPT ![Head(rest).id] = Short]
  /\ UNCHANGED <<published, db, tx, memory, batch, marks, bounds>>

DownloadFails ==
  /\ sync = "download"
  /\ AdDone
  /\ UNCHANGED <<published, db, tx, file, memory, batch, marks, bounds>>

(* The gateway's copy may be of another version than the row; a write that fails   *)
(* is not noticed.                                                                *)
WriteFile ==
  /\ sync = "writing"
  /\ AdDone
  /\ LET id == Head(rest).id IN
     \/ /\ \E b \in DOMAIN Bundles : \E ad \in AdsOf(b) :
             /\ ad.id = id
             /\ file' = [file EXCEPT ![id] = ad.md5]
             /\ suspect' = IF db.ads[id] \in {Absent, ad.md5} THEN suspect
                           ELSE suspect \cup {id}
        /\ UNCHANGED faults
     \/ /\ Faulty
        /\ suspect' = suspect \cup {id}
        /\ UNCHANGED file
  /\ UNCHANGED <<published, db, tx, memory, batch, torn, finished, unmarked, publishes>>

CommitAdsForgotten ==  (* mutant *)
  /\ sync = "store"
  /\ rest = <<>>
  /\ sync' = "schedule"
  /\ UNCHANGED <<published, db, tx, file, memory, batch, rest, marks, bounds>>

(* COMMIT; when the transaction is gone it fails, which changes nothing more.     *)
CommitAds ==
  /\ sync = "store"
  /\ rest = <<>>
  /\ tx' = NoTx
  /\ sync' = "schedule"
  /\ UNCHANGED <<published, db, file, memory, batch, rest, marks, bounds>>

--------------------------------------------------------------------------------
(* syncSchedule and loadSchedule.  During init() it is followed by cleanupStorage. *)
RowsOfBundle(b) ==
  [n \in DOMAIN Bundles[b].slots |->
     LET s == Bundles[b].slots[n] IN
     [slot |-> s.slot, range |-> s.range, list |-> s.list, priority |-> s.priority,
      policy |-> Bundles[b].policy]]

Interrupts(b) == {[policy |-> Bundles[b].policy, ad |-> i.ad, priority |-> i.priority,
                   status |-> 0] : i \in Bundles[b].interrupts}

(* The statements on the interrupts and slots; only rows of the same policy are   *)
(* deleted.                                                                       *)
LoadStatements(b) ==
  <<[op |-> "delete interrupts"]>>
  \o SetToSeq({[op |-> "interrupt", row |-> i] : i \in Interrupts(b)})
  \o <<[op |-> "delete slots"]>>
  \o [n \in DOMAIN RowsOfBundle(b) |-> [op |-> "slot", row |-> RowsOfBundle(b)[n]]]

ExecutedKeepingSlots(statement, policy) ==  (* mutant *)
  CASE statement.op = "delete interrupts" ->
         [db EXCEPT !.interrupts = {i \in @ : i.policy # policy}]
    [] statement.op = "interrupt" -> [db EXCEPT !.interrupts = @ \cup {statement.row}]
    [] statement.op = "delete slots" -> db
    [] statement.op = "slot" -> [db EXCEPT !.slots = Append(@, statement.row)]

Executed(statement, policy) ==
  CASE statement.op = "delete interrupts" ->
         [db EXCEPT !.interrupts = {i \in @ : i.policy # policy}]
    [] statement.op = "interrupt" -> [db EXCEPT !.interrupts = @ \cup {statement.row}]
    [] statement.op = "delete slots" ->
         [db EXCEPT !.slots = RowsOfPolicies(@, Policies \ {policy})]
    [] statement.op = "slot" -> [db EXCEPT !.slots = Append(@, statement.row)]

FetchSchedule ==
  /\ sync = "schedule"
  /\ sync' = "load"
  /\ batch' = published
  /\ rest' = LoadStatements(published)
  /\ tx' = db
  /\ UNCHANGED <<published, db, file, memory, marks, bounds>>

SyncEnds ==
  /\ sync' = "ads"
  /\ batch' = 0
  /\ main' = IF main = "boot" THEN "cleanup" ELSE main
  /\ UNCHANGED <<item, lastSlot, index>>

FetchScheduleFails ==
  /\ sync = "schedule"
  /\ SyncEnds
  /\ UNCHANGED <<published, db, tx, file, rest, marks, bounds>>

LoadStatement ==
  /\ sync = "load"
  /\ rest # <<>>
  /\ db' = Executed(Head(rest), Bundles[batch].policy)
  /\ rest' = Tail(rest)
  /\ LET new == IF Head(rest).op = "interrupt"
                THEN {<<Head(rest).row.policy, Head(rest).row.ad>>} ELSE {} IN
     /\ finished' = finished \ new
     /\ unmarked' = unmarked \ new
  /\ UNCHANGED <<published, tx, file, memory, sync, batch, torn, suspect, bounds>>

CommitSchedule ==
  /\ sync = "load"
  /\ rest = <<>>
  /\ tx' = NoTx
  /\ torn' = IF tx = NoTx THEN torn ELSE torn \ {Bundles[batch].policy}
  /\ SyncEnds
  /\ UNCHANGED <<published, db, file, rest, suspect, finished, unmarked, bounds>>

(* cleanupStorage: when the disk is too full, rows and files go, in the order of   *)
(* a last_played_time that every load sets back to 0 and that is not kept here,    *)
(* until the disk is half empty.                                                   *)
CleanupStorage ==
  /\ main = "cleanup"
  /\ main' = "interrupt"
  /\ \E gone \in SUBSET Registered :
       /\ db' = [db EXCEPT !.ads = [a \in Ads |-> IF a \in gone THEN Absent ELSE @[a]]]
       /\ file' = [a \in Ads |-> IF a \in gone THEN Absent ELSE file[a]]
       /\ suspect' = suspect \ gone
  /\ UNCHANGED <<published, tx, item, lastSlot, index, loader, torn, finished, unmarked, bounds>>

--------------------------------------------------------------------------------
(* SIGKILL and a new start: SQLite drops the open transaction, files stay as they  *)
(* are.                                                                           *)
Kill ==
  /\ Faulty
  /\ db' = IF tx = NoTx THEN db ELSE tx
  /\ tx' = NoTx
  /\ suspect' = suspect \cup RowsUndone
                        \cup {a \in Ads : sync = "writing" /\ a = Head(rest).id}
  /\ main' = "boot"
  /\ item' = NothingFound
  /\ lastSlot' = -1
  /\ index' = 0
  /\ sync' = "ads"
  /\ batch' = 0
  /\ rest' = <<>>
  /\ UNCHANGED <<published, file, torn, finished, unmarked, publishes>>

Main == SelectInterrupt \/ SelectSlot \/ StartPlay \/ EndPlay \/ CleanupStorage

Sync ==
  \/ FetchAds \/ FetchAdsFails
  \/ StoreAd \/ OpenFile \/ DownloadFails \/ WriteFile \/ CommitAds
  \/ FetchSchedule \/ FetchScheduleFails \/ LoadStatement \/ CommitSchedule

SchedulerNext == Publish \/ Main \/ Sync \/ LoadMeetsPlay \/ Kill

SchedulerSpec == SchedulerInit /\ [][SchedulerNext]_schedulerVars
FairSchedulerSpec == SchedulerSpec /\ WF_schedulerVars(Main) /\ WF_schedulerVars(Sync)
--------------------------------------------------------------------------------
SlotRows == UNION {{RowsOfBundle(b)[n] : n \in DOMAIN Bundles[b].slots} : b \in DOMAIN Bundles}

(* Every variable has the type the code gives it. *)
SchedulerTypeOK ==
  /\ published \in DOMAIN Bundles /\ batch \in DOMAIN Bundles \cup {0}
  /\ db.ads \in [Ads -> Versions \cup {Absent}]
  /\ \A i \in db.interrupts : i.policy \in Policies /\ i.ad \in Ads /\ i.status \in {0, 1}
  /\ db.slots \in Seq(SlotRows)
  /\ file \in [Ads -> Versions \cup {Absent, Short}]
  /\ main \in {"boot", "cleanup", "interrupt", "slots", "start", "playing", "halted"}
  /\ item # NothingFound => item.ad \in Ads
  /\ lastSlot \in Int /\ index \in Nat
  /\ sync \in {"ads", "store", "download", "writing", "schedule", "load"}
  /\ (tx # NoTx) => sync \notin {"ads", "schedule"}

(* A kill finds the tables of a policy as one load has left them: all slots and   *)
(* interrupts of one bundle, each once, or none, unless a job of the main thread  *)
(* rolled back that policy's last load (loadSchedule's transaction).              *)
Kept == IF tx = NoTx THEN db ELSE tx

TablesWhole ==
  \A p \in Policies \ torn :
    LET slots == RowsOfPolicies(Kept.slots, {p})
        interrupts == {[i EXCEPT !.status = 0] : i \in {j \in Kept.interrupts : j.policy = p}}
    IN \/ slots = <<>> /\ interrupts = {}
       \/ \E b \in DOMAIN Bundles : /\ Bundles[b].policy = p
                                    /\ slots = RowsOfBundle(b)
                                    /\ interrupts = Interrupts(b)

(* A file that is there is complete and has the md5 of its ad's row, although     *)
(* nobody compares them, but for the four circumstances that suspect records      *)
(* (loadAds' exists test, downloadAdFile's writing in place).                     *)
FilesMatch ==
  \A a \in Registered \ suspect :
    file[a] \in {Absent, db.ads[a]} \/ (sync = "writing" /\ Head(rest).id = a)

(* An interrupt whose ad has been played is not played again before a load        *)
(* inserts it anew (schedule_interrupt.status), whatever policy it was played for, *)
(* unless recordPlayEnd and a load met in a BEGIN: the mark is then lost, nobody   *)
(* writes it again, and the interrupt stays pending until its ad's next play.      *)
ReplayExplained ==
  [][main = "interrupt" /\ main' = "start" =>
       <<item'.policy, item'.ad>> \notin finished \ unmarked]_schedulerVars

(* The ads of a slot take turns, though the rows are deleted and inserted every   *)
(* minute and the index lives in memory: when time slots are consulted for ever,  *)
(* and always find this row first (with no ad of its list missing, or with no     *)
(* other row to fall through to), each of its ads that has a row is picked again  *)
(* and again.                                                                     *)
Favours(row, a, now) ==
  LET found == Found(db.slots, now) IN
  /\ \E i \in found : /\ db.slots[i] = row
                     /\ \A j \in found \ {i} : Before(db.slots, i, j)
  /\ a \in Registered
  /\ ToSet(row.list) \subseteq Registered \/ Cardinality(found) = 1

PassesOver(row, a) ==
  main = "slots" /\ \E now \in Times : ~Favours(row, a, now) /\ SelectSlotAt(now)
Picks(row, a) == item' = [ad |-> a, slot |-> row.slot, policy |-> row.policy]

TurnComes ==
  \A row \in SlotRows : \A a \in Ads :
    a \in ToSet(row.list) =>
      \/ ~[]<><<SelectSlot>>_schedulerVars
      \/ []<><<Picks(row, a) /\ SelectSlot>>_schedulerVars
      \/ []<><<PassesOver(row, a)>>_schedulerVars

(* README: the fallback slot is for the times that no other slot covers.          *)
FallbackLast ==
  [][\A now \in Times :
       SelectSlotAt(now) /\ item' # item /\ item'.slot = FallbackSlot =>
         \A n \in DOMAIN db.slots :
           LET row == db.slots[n] IN
           row.slot # FallbackSlot /\ InRange(now, row.range)
             => ~(ToSet(row.list) \subseteq Registered)]_schedulerVars
================================================================================
