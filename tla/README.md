# Verification of the elevator advertising platform

TLA+ models of the platform's gateway, edge device and control plane, the TLC runs
that check them on small instances, and TLAPS proofs for all instances. `PROJECT.json`
is the machine-readable side of this file: components, runs, mutants, the map from
definitions to source lines, findings, hazards and theorems.

Contents: 1 the system, 2 modules and how they correspond to the code, 3 runs and
bounds, 4 fairness, 5 proofs, 6 where code and documentation disagree, 7 not
modelled, 8 plan.

## 1. The system

An elevator screen (the *edge*, C++) plays advertisements by a schedule. It talks to a
*gateway* (`cloud/`, Go) by WebSocket and HTTP. The gateway stands before a *control
plane* (Python, FastAPI) with PostgreSQL, and sends play logs through Kafka.

    web admin -> control plane <-> gateway <-> watchdog ~~> player
                     |    ^          |  |          \          /
                 PostgreSQL +-Kafka--+ Redis        SQLite file

| Component | State | Operations | Hard behaviour | What makes it correct |
|---|---|---|---|---|
| Gateway sessions (`manager.go`, `handler.go`) | map device -> connection and last activity; `device:online:` keys in Redis | WebSocket handshake, Register, UpdateActiveTime, Unregister, the 10 s scan, `/api/send` | one goroutine per connection, Redis outside the lock, removal by device id, reconnects, crashes | the map leads only to live connections; commands reach their device; 404 only when offline; a device gone for good ends offline |
| Play log pipeline (`EdgeManager.cpp`, `Watchdog.cpp`, `NetworkClient.cpp`, `handler.go`, `kafka_consumer.py`, `background_tasks.py`) | log table with `uploaded`, messages in flight, topic and offsets, `ad_logs` | log, select, send, mark, forward, poll, insert, stop | five programs, at-least-once in some hops and at-most-once in others | every log accounted for; retries lose nothing; settled in the end |
| Edge database (`Database.cpp`, `EdgeManager.cpp`) | one SQLite connection and its transaction | recordPlayStart, recordPlayEnd, loadAds, loadSchedule, log, updateLogStatus | three threads in one transaction, long downloads inside it, catch blocks that roll back | transactions atomic, log rows kept, player not halted |
| Watchdog and player process (`Watchdog.cpp`, `EdgeManager.cpp`, `VideoPlayer.cpp`) | `player_pid_`, last heartbeat, process states | start, stop, monitor, REBOOT | two threads without a lock, SIGTERM during each phase, silent and stuck players | one player; a dead one is replaced; stopPlayer returns |
| Commands and snapshots (`device_snapshot_service.py`, `commands.py`, `db_service.py`, `manager.go`) | `_waiters`, `command_logs` and its in-memory substitute | send, wait, time out, two callbacks | coroutines sharing one entry per device, callbacks late and in any order | own picture, no leaked waiter, true audit rows |
| Player (`VideoPlayer.cpp`, `EdgeManager.cpp`) | frame queue, flags, window | run, Load, Play, Update, Stop, CloseWindow, soft reboot, snapshot, decode thread | condition variable, lost wake-ups, end of file, a renderer used by two threads | the main loop comes round; frames in order; what is billed was seen |
| Schedule (`campaigns.py`, `EdgeManager.cpp`, `NetworkClient.cpp`) | ad, slot and interrupt tables, files, index into the playlist | _build_edge_schedule, getNextAsset, syncLoop, loadAds, loadSchedule, downloadAdFile, cleanupStorage | the schedule is replaced statement by statement while it is played, files are written in place, either thread rolls the other's transaction back | tables of a policy whole; a file is its row's; interrupts once; every ad of a slot in turn |
| Material and bundle cache (`handler.go`) | files and `.tmp` files, bundles in Redis | getDeviceBundle, ensureAssetCached, downloadFileToPath, GetMaterialFile | concurrent downloads to one `.tmp` path, stale bundles, half downloads | a served file is whole |
| Campaigns (`campaigns.py`, `gateway.py`, `db_service.py`) | rows and versions in Postgres and in two dictionaries | create, update, publish, roll back, delete, the choice for a device | read-modify-write without a lock, half-failed saves, copies that drift apart in an outage | what is shown was validated; versions keep their schedule; deleted is deleted |
| Materials (`materials.py`, `material_service.py`) | index file, rows, files | upload, delete, transcode, update_material_status | an id computed before an await, three stores changed one after the other | the three stores agree |
| Devices, distribution (`devices.py`, `gateway.py`) | device rows | register, bundle | - | part of Campaigns' `Served` |

The hazards these parts are exposed to, at their source lines, with the properties that
watch them, are listed under `hazards` in `PROJECT.json`.

## 2. Modules

Each component has a specification with one action per atomic step of the code, an
`MC` module with the values of its constants for TLC, and `.cfg` files. Two components have names
of their own for the usual ones (`SchedulerInit`, `SchedulerNext`, `SchedulerSpec`, `schedulerVars` and
likewise `Materials...`), so that one module of proofs can extend two components. Operators marked
`mutant` are deliberate faults, never used by the specification itself: a property is
kept only if putting such a fault into the model makes TLC report it.

**GatewaySessions.** Variables: `connections`/`lastActive` (DeviceManager), `online`/`ttl`
(Redis), per connection `pc` (the goroutine's position), `link`, `inbox`, `closed`, per
HTTP request `call`, and `received`. The manager's methods are cut where they release
the lock and where they call Redis: `RegisterMap`/`RegisterOnline`,
`UpdateActiveTime`/`ExtendOnline`, `UnregisterMap`/`UnregisterOnline`. The scan
(`KeepAliveManager`) holds the lock throughout and is one step, which is also the tick
of time (10 s). `GatewayCrash` loses memory and sockets, not Redis. The device's client drops a
socket before it opens another, so at most one link of a device is up; the gateway may
still serve several. `overlapped` remembers devices for which it did.

**PlayLogs**, implementing **LogLedger**. The whole way of a log row: `LogPlay` (the player),
`LogFault` (the watchdog), `SelectLogs`/`SendLogs`/`OnSuccess` (the sender thread),
`HandleLogReport`/`ForwardLog` (gateway), `StartConsuming`/`Poll`/`AutoCommit`/`GetDbConnection`/
`InsertLogRecord`/`InsertBatchDone`/`DbConnectionDies`/`Stop` (consumer). `provider` says whether the
player (typed rows) or the watchdog (rows of strings) holds the WebSocket. A batch is a set: order
within it matters to nobody. A row of the player, and the mark of a sent one, may join a transaction that
another thread has open on the same connection: it is then `pending`, until `CommitTx`, or `RollBackTx`
(recordPlayEnd's own BEGIN fails and its catch block rolls back), or the player's death
(`EdgeCrash`, `PlayerCrash`). `undone` are the rows taken back. When a statement may join is left free,
which includes whatever `EdgeDatabase` does in detail. The watchdog has a connection of its own: it is never inside
that transaction, does not see what is uncommitted, and is locked out while a row is (`Locked`).
A consumer that could not be created is "dead": its thread ends, and only a restart of the
control plane (`ConsumerCrash`) starts one. `dropped` remembers logs of which a copy was given up;
`harmed`, that a fault came which no retry makes up for.
`LogLedger` says what that amounts to for billing: absent, pending, then stored or lost
(given up, or rolled back), and a lost one may still be stored by another copy: a row can be
sent before it is rolled back. `Status` is the refinement mapping.

**EdgeDatabase.** Jobs are scripts of statements, run by the threads `main`, `sync` and
`ws` and interleaved at every statement, since `Database`'s mutex is held for one
statement only. `opener`/`pending`/`disk` are SQLite's transaction. A statement may fail,
a JSON conversion may throw before BEGIN (`ParseFails`), the process may be killed. `Catch` is the catch
block; when its rollback finds no transaction it throws out of `run()` (`halted`). `joined` remembers
which statement outside any transaction of its own (a log row, a mark) was written into which job's.

**Watchdog.** `monitor` and `ws` run `stopPlayer`/`startPlayer`, cut at each access to
`player_pid_` and each system call. Player states distinguish what SIGTERM and a missing
heartbeat lead to: starting, up, hung in the decoder, thrown (an exception left `run()`, the
destructor joins the heartbeat thread), halted (window closed, same, SDL gone),
leaving (no heartbeats, waiting in `recvfrom`). `raced` remembers that both threads
were inside at once.

**DeviceCommands.** One action is one turn of the event loop: `RequestSnapshot` up to
its await, `Resume`/`Timeout` after it, `SendCommand`, `SnapshotCallback`,
`CommandCallback`. `Answer` is the device, the gateway's upload and the callback goroutine's
start. A request's id stands for its `cmd_id`, a picture for the request whose command
took it. Of the ways in which sending and recording fail (`SendFaults`): a refused insert is put into
`mock_command_db`, or (`unwritten`) falls back to an UPDATE that finds no row and raises
nothing; and the record of a failed command goes there too, since the exception it is answered with
is caught once more. The second record that `send_command` writes for a capture is left out: no callback
names it and no guess finds it. A capture that failed on the device is uploaded as an empty object and
counts as its picture: the code makes no difference. `mixed`, `guessed` and `skipped` remember overlapping
captures, rows found by device id only, and answers that no row could take. The run gives one device both an answered capture and a
REBOOT that is answered without `cmd_id`; in the field that is a device whose player
was run with and without the watchdog, a superset of either way alone.

**VideoPlayer.** `main` is where `run()` stands, in its loop, in `Load`'s clean-up, in the
playback loop with `Update`, in a soft reboot or in `~EdgeManager`; `dec` where
`DecodeThreadFunc` stands. Its untimed wait on `queue_cv` is three places: `push` tests the
predicate under `queue_mutex`, `falling` still holds the mutex, `asleep` has released it.
`should_stop` is set and `notify_all` called without the mutex, so both may happen at
`falling`; `Update`'s pop takes the mutex and cannot. The timed wait before a packet needs no
place of its own: it only delays. `Load` and `~VideoPlayer` share `CleanupStops`,
`CleanupNotifies` and `Joined`. The command thread is the gateway connection's, as in the
mode without watchdog: with a watchdog REBOOT never reaches the player (see Watchdog), and
the thread on the UDP port is never stopped, which leaves only `SnapshotReads`' exception.
A soft reboot is two steps, as the connection is up again (`SoftReboot`) before the flag is cleared
(`ResetReboot`); `asked` remembers whether the last REBOOT was carried out, waits, or came in between
("crossed").
Frames are numbered per play; pictures, sizes and titles are not modelled.

**EdgeSchedule** holds the pure part of the schedule: `BuildEdgeSchedule` (a playlist becomes
slots, with the fallback slot 99), `InRange`, and `PickFromSlots`, getNextAsset's loop over
the rows, a recursive function. What the code sorts is `Ranked`: the n-th is the one that has n-1 before it. The runs build their bundles with it. **EdgeScheduler** puts it to work: the main
thread (`SelectInterrupt`, `SelectSlot`, `StartPlay`, `EndPlay`, `CleanupStorage`) against the sync thread
(`FetchAds` to `CommitAds`, `FetchSchedule` to `CommitSchedule`), which executes one statement, or half of the
writing of a file, per step. `db` is what the one connection reads, `tx` what a rollback would bring
back: `EdgeDatabase` has both threads statement by statement, so here the main thread's own short
transactions are single steps. They meet a load in two ways: `RollsLoadBack`, when their BEGIN finds a load's
transaction, and `LoadMeetsPlay`, when a load's BEGIN finds theirs (the load is given up and the player
"halted"). In both recordPlayEnd's mark may be lost: `finished` are the interrupts played to their end
since a load inserted them, `unmarked` those of them whose mark was lost. During `init()`
the same loads run on the main thread (`boot`). The time of day is chosen anew at each selection, which
includes every passing of time. An ad has one file name of its own; the bytes of a file are the version
(md5) they belong to. `cleanupStorage` may take any ads: the order it takes them in is that of
`last_played_time`, which every load sets to 0 for every ad of the bundle. The `schedule` and `playlist`
tables do not influence what is played and are left out. One fault budget serves kills, unnoticed write errors and clashes of
transactions.

**GatewayCache.** Requests of one device, each at its place in `getDeviceBundle`, `ensureAssetCached`
and `downloadFileToPath`. Files are inodes under names, as two writers of one `.tmp` file, or a
rename under a writer, need it; a file is copied in two parts, each at its writer's own offset.
`os.Create` of a new file takes an inode that nothing refers to. `http.ServeFile` is one step: what it
has opened stays the same file after a rename. The edge asks for an ad by id and falls back to its file name; both
find the same asset here, as no bundle of the instance has a name twice. md5 sums are not compared anywhere.
There are finitely many requests and assets, so one of the inodes is always free.

**Campaigns.** One campaign, one day: a version is its number. Each request is cut at its
database calls. A request that has read the campaign from the dictionary holds the dictionary's own
object (`shared`), so a later change in place reaches it and it changes the store: `Puts` says who
sees what; for two requests that is exact. A request that finds the database away behaves as with
`ENABLE_MEMORY_FALLBACK`, the default. Nobody knows a new campaign's id before its creation is answered, so `create` meets no
other request. `_validate_publish_inputs` accepts the schedules in `Valid`; its
checks against the database only add warnings when it is away, and that difference is not modelled.
`mixed` remembers which kinds of request, and outages, were under way together.

**Materials.** Uploads (with a file: cut at the `await`; without: at the database call), deletions
and transcodings over the index file, the rows and the files. Ids are numbers: the code's `M_001`,
`M_2`, ... with the highest number found in the index and the rows plus one. A file's name is its id and
its upload's name, as on disk. A deletion of one id and a new upload that takes it again meet in every
order. A database call, a write or an unlink may fail (`Called`, `StoreUploadFails`,
`IndexWriteFails`); a failing unlink is swallowed and leaves the file.
`UpdateStatus` is the debug endpoint, the only caller of `update_material_status`.

### Properties

| Module | Property | In words |
|---|---|---|
| GatewaySessions | `MappedSessionServes` | what the map holds for a device is its own connection, open, before its clean-up |
| | `CommandsToOwner` | a command is received by its device only |
| | `OrderlySession`, `OfflineReplyJustified` | unless two connections of a device were served at once, a served one is in the map, and 404 means none is served |
| | `GoneEndsOffline` | a device gone for good ends up, and stays, without an online key |
| PlayLogs | `LogsAccounted`: `UploadedAccounted`, `ReadAccounted` | a log marked uploaded, or read by the consumer, is under way, stored or given up at a known place |
| | and `RetriesLoseNothing`, `RollbacksCost` | consumer crashes and lost marks cost duplicates, not logs; a rollback costs one row at most, and none that is marked uploaded |
| | `LedgerSpec`, `EventuallySettled` | the pipeline implements the ledger; every log is stored, given up or rolled back in the end, but for three named stalls (a reader blocked by a fault row, a batch held until the next message, a dead consumer) |
| EdgeDatabase | `TransactionsHold`: `NoLeakedTransaction` | an open transaction has a job that will end it |
| | `PendingSettles` | and it ends |
| | `AtomicUnlessDisturbed`, `DisturbanceExplained` (`TransactionsHold`) | only another thread's ending breaks a transaction, and only after a job failed before its BEGIN or SQLite rolled back by itself |
| | `LogRowsKept` | a log row or mark that joined another job's transaction shares its fate, committed or rolled back with it, unless yet another job ended it |
| | `HaltExplained` (`TransactionsHold`) | what alone halts the player |
| Watchdog | `OnePlayerUnlessRaced` | one player, signals only to it, unless REBOOT met the monitor |
| | `SilentReplaced`, `StopReturns` | a silent player is reaped, stopPlayer returns, but for players that go on beating and races |
| VideoPlayer | `FramesInOrder` | the queue holds the next frames of the file being played: none stale, twice or left out |
| | `SnapshotReads` | a soft reboot takes the renderer from no snapshot; only the end of `run()` may |
| | `TurnsAgain` | `run()` comes back for the next item or ends, unless a wake-up was lost in the join or the decode thread gave up silently |
| | `RebootServed` | a REBOOT is carried out, even when the playback is dead, unless it crossed the end of a soft reboot |
| DeviceCommands | `PicturesOwned`: `WaitersWait`, `OwnPicture` | no stale waiter; one's own picture unless captures of the device overlapped |
| | `SuccessTrue`: `SuccessAnswered`, `GuessStaysHome` | a success row was answered; a guess stays on its device |
| | `LateAnswerRecorded` | an answer reaches its row even after the time-out |
| EdgeScheduler | `TablesWhole` | a kill finds a policy's slots and interrupts as one load has left them, unless its last load was rolled back by the main thread |
| | `FilesMatch` | a file is complete and its row's version, but for the four circumstances `suspect` records |
| | `ReplayExplained` | an interrupt played to its end is repeated only after a load has inserted it again, or when recordPlayEnd and a load met in a BEGIN (`unmarked`) |
| | `TurnComes` | while a slot is the one consulted, each of its ads is picked again and again |
| Campaigns | `ServedValidated` | a device is given a schedule that passed the validation, unless a publication met a call that writes the campaign or an outage |
| | `VersionsStay` | a saved version keeps its schedule, unless two updates ran together, an update met an outage on its way or when it numbered its version, a rollback or republish met a publish, or a deletion met a call that holds a version |
| | `DeletedStays` | a deleted campaign is never given out again, unless the deletion met an outage or another call |
| Materials | `MaterialsAgree` | index, files and rows agree on every id, but for the encounters and failures it names |
| GatewayCache | `ServedWhole` | what is served is the whole of one published asset of that name, unless two downloads shared the `.tmp` file |

The exceptions named in these properties (`overlapped`, `raced`, `mixed`, `torn`, `suspect`,
`unmarked`, `crossed`, ...) are history variables: they record a circumstance in the past, not the outcome, so the
property still says that nothing else can cause the harm. Each exception is needed: leaving one out of
`ServedValidated`, `VersionsStay`, `DeletedStays`, `MaterialsAgree`, `FilesMatch`, `TablesWhole`, `ReplayExplained` or `ServedWhole`
makes TLC find the harm it excuses.

## 3. Runs and bounds

| Run | Expect | Instance | Why it is enough |
|---|---|---|---|
| `gateway_sessions` | pass | one device with two connections, a second one offline, one request, IdleLimit and TTL of 2 ticks, one crash, one failing Redis call | two connections suffice for every pair of old and new session; 2 ticks give a session before, at and past the limit; the theorems cover the rest |
| `gateway_alive_key` | violation | as above, no faults, the real 60 ticks | shows that no time-out is involved |
| `play_logs` | pass | two plays, a fault row, batches of two, any two faults or rollbacks | three rows fill one batch and start a second; pairs of faults such as a lost mark and a crash |
| `edge_database` | pass | two jobs of `main` and of `sync`, one of `ws`, one error, one kill | PlayStart and PlayEnd meet any two loads; three transactions contend |
| `watchdog` | pass | three processes, two faults, two REBOOTs | a fault during a restart during a restart |
| `video_player` | pass | a queue of two, files of up to four frames, packets of up to two, two plays, one failure, two REBOOTs | the queue fills and empties; a packet overruns a full queue; the second play meets what the first has left; the second REBOOT meets the first one's soft reboot |
| `device_commands` | pass | two captures and a reboot of one device, a command to another, two failures | overlapping captures, a guess with rivals, and a row of another device to guess wrongly |
| `edge_scheduler` | pass | three ads, two versions of a schedule that share a slot and change a file's version, one interrupt, a day of two times, one fault | times in and out of a slot; an old and a new policy in the tables together; a second load follows every fault |
| `edge_scheduler_fallback` | violation | as above, no fault | |
| `campaigns` | pass | a good and a bad schedule, two requests at a time and four in all, versions up to 3, two changes of the database, one restart | a creation and any three calls on it; an outage that begins and ends |
| `materials` | pass | two files of one name, a link, two deletions or transcodings, two ids, one failing call, write or unlink, one restart | an id given out twice, and taken again after a deletion |
| `gateway_cache` | pass | three requests, two bundles in which different assets have one file name, two faults | two downloads that meet and a third request that is served meanwhile |

Bounds are constants with names of their own (`MaxCrashes`, `MaxRedisFaults`, `MaxFaults`,
`MaxJobs`, `MaxErrors`, `MaxKills`, `MaxForks`, `MaxReboots`, `MaxFrames`, `MaxPlays`,
`MaxPublishes`, `MaxVersion`, `MaxCalls`, `MaxChanges`, `MaxRestarts`, `MaxId`, `MaxFailures`; `LastTime` is the length of a day). They limit faults and
work, never a queue: queues are bounded by the rows and requests there are (`MaxQueue` is the
code's own `MAX_QUEUE_SIZE`, 2 instead of 10).
`PlayLogs` counts faults and rollbacks together, of any kind and repeated ones too. When `MaxForks` is reached `fork` fails, which
it may do anyway, and the next check tries again.

`CHECK_DEADLOCK FALSE` stands where the instance really comes to rest: all logs
settled, all jobs done, all requests answered, the last permitted player gone quiet, `run()` left. The gateway's runs check for deadlock.

## 4. Fairness

* GatewaySessions: the ticker and Redis's expiry only (`KeepAliveManager`, `KeyExpires`).
  Goroutines get none: `GoneEndsOffline` must not depend on a dead peer's read error.
* PlayLogs: weak fairness of each thread's next step (they are loops with time-outs) and of
  the reconnection; none of devices playing, of faults, or of auto-commit. Of the player's transactions only that they
  end is assumed (`CommitTx`), which `EdgeDatabase`'s `PendingSettles` shows; no rollback is owed, and nobody owes
  a dead consumer a restart.
* EdgeDatabase: weak fairness per thread: the mutex is held for one statement and downloads time out.
* Watchdog: weak fairness of both threads, of time passing (`Silence`), of heartbeats, of a
  start's end, and of `ForwardCommand`: the gateway answers the WebSocket heartbeat every
  10 s with a pong, and the watchdog forwards whatever is not a REBOOT.
* VideoPlayer: weak fairness of the main and the decode thread, of a snapshot's end and of an
  image's time; strong fairness of `ShowFrame`, because `Update` passes it over only while
  the frame is not due yet, and time passes. None of users, commands or failures.
* EdgeScheduler: `TurnComes` is stated without fairness: it only speaks of behaviours in which the main
  thread goes on consulting the slots. `FairSchedulerSpec` (weak fairness of both threads) serves the violation
  run. Campaigns, Materials, GatewayCache: safety only.
* DeviceCommands: coroutines resume or time out, the device works through its commands,
  callback goroutines arrive (or fail, as a fault).

## 5. Proofs

Every safety invariant and every safety action property of the passing runs is a theorem of its
specification, for all values of the constants, and so is the refinement of `LogLedger`. Each
module of proofs assumes the named `ASSUME` of the module it is about and nothing else: numbers
are naturals, values that stand for nothing are no values, bundles have the shape the control plane
gives them, and, where the code counts or picks from a set (`GatewayCache`'s inodes, the requests of
`DeviceCommands`, the interrupts of a bundle), that set is finite. TLC evaluates each assumption on its run.

| Module | About | Theorems |
|---|---|---|
| `GatewaySessions_proofs` | GatewaySessions | `TypeCorrect`, `SessionsServe`, `SessionsOrderly`, `OfflineJustified`, `CommandsReachOwner` |
| `PlayLogs_proofs` | PlayLogs, LogLedger | `TypeCorrect`, `LogsAreAccounted`, `ImplementsLedger` |
| `EdgeTables_proofs` | EdgeDatabase | `TypeCorrect`, `TransactionsHeld`, `LogsKept` |
| | EdgeScheduler | `SchedulerTypeCorrect`, `TablesStayWhole`, `FilesMatchRows`, `NoReplay` |
| | EdgeSchedule | `SchedulesWellFormed`, `FallbackIsLast`, `FallbackLastOfOne` |
| `Watchdog_proofs` | Watchdog | `TypeCorrect`, `OnePlayer` |
| `VideoPlayer_proofs` | VideoPlayer | `TypeCorrect`, `FramesArriveInOrder`, `SnapshotsSafe`, `RebootKept` |
| `DeviceCommands_proofs` | DeviceCommands | `TypeCorrect`, `PicturesBelong`, `SuccessClaims` |
| `Campaigns_proofs` | Campaigns | `TypeCorrect`, `ServedIsValid`, `VersionsKept`, `DeletedIsGone` |
| `MaterialFiles_proofs` | GatewayCache | `TypeCorrect`, `FilesServedWhole` |
| | Materials | `MaterialsTypeCorrect`, `StoresAgree` |

**GatewaySessions.** `TypeOK` is inductive: `lastActive <= IdleLimit` because the scan removes every
session whose age would pass the limit. `MappedSessionServes` is strengthened by `FreshOpen` (a
connection that is accepted but not registered yet has not been closed), without which `RegisterMap`
could put a closed connection into the map; `OrderlySession` by `Sole`: a device outside `overlapped` has
at most one connection between handshake and clean-up, since a second one's `HandleWebsocket` is
what puts it there. `OfflineReplyJustified` follows from it and the step of `Lookup`;
`CommandsToOwner` needs that a request which has found a connection found one of its own device.

**PlayLogs, LogLedger.** The types need the shape of the consumer: outside `fetched` it holds no
fetched offsets, and `committed <= position <= Len(topic)` survives restarts. `LogsAccounted` is not
inductive: it speaks of logs, and a log that was sent twice has two offsets in the topic.
`AccountInv` restates it by offsets: every offset behind the position is in the consumer's memory or its
log is stored or given up (`ReadOffsets`), and likewise every offset that `_insert_batch` has
passed (`PassedOffsets`, without which clearing the batch could forget a log). What `onSuccess` will mark
must be somewhere already (`SentAccounted`), and the consumer holds no committed offset
(`HoldsUncommitted`). The lemma `NothingForgotten` carries the proof: no step removes a log from all
the places at once. The refinement maps initial states to initial states and every step to a step
of the ledger or a stutter; it needs that batches, messages and `ad_logs` hold only logs of the table. A rollback is
the ledger's `LoseLogs` of the pending rows that are stored nowhere; `RollbacksCost` is
inductive once one adds that at most one row is pending, and a pending row's mark is pending with it (`RollbackInv`).

**EdgeDatabase.** Of the scripts the proofs use only where a job begins and ends its transaction and
where it writes in between (`ScriptFacts`). The types need `OpenerInside` (an open transaction has an opener
inside its job) and `AtWork`. `TransactionsHold` rests on `TxInv`: a row on disk or
pending was written by its job (`RowWritten`); whoever is inside a transaction that is not his own
has lost his to another's ending, after a job failed before its BEGIN or SQLite rolled back
(`LossExplained`); rows of a job nobody disturbed wait in its own open transaction
(`PendingOwned`), all of them that it has written so far (`OpenWhole`). `LogRowsKept` needs besides that a row which
joined a job's transaction is pending while that job is in it, and on disk or gone as its other rows
are once it has ended (`JoinedFate`, kept by every step that does not disturb the job).

**EdgeScheduler.** One invariant, `SchedulerInv`, for all four properties; `FilesMatch` and `TablesWhole` are
part of it (`FilesHonest`, `KeptWhole`). A played interrupt outside `unmarked` is marked both in the tables and in what a rollback would bring back
(`PlayedMarked`), which is what makes any later rollback or kill harmless to `ReplayExplained`. `KeptWhole` needs to
know how far the load that will replace the rows has come: `Progress(k)` says what the tables
hold after k of its statements, and that it has touched no other policy. Under it lie facts about the
model's operators: the load's statements delete, insert every interrupt once and then
the slots in order (`LoadFacts`); an order is total, so that each member
has one place (`Ranks`) and `ByPriority` lists each row found once (`OrderedRows`); `RowsOfPolicies` and the loop of `getNextAsset` are recursive
functions, and what they return is shown by counting up, which follows from the least element of a set of
naturals.

**EdgeSchedule.** The second violation run (section 6) shows that the fallback of one schedule is played at times that a
slot of another covers. That this is the only way is proved: any playlist becomes slots of
the shape the proofs above assume, one for each range that an item names, with just the ads that name it, and the
fallback after them (`SchedulesWellFormed`); of these rows the query comes to the fallback last and to every slot
that holds the time before (`FallbackIsLast`: the priorities are at least the fallback's 1, and equal ones are decided
by the order of insertion); so with the rows of one schedule in the table the main thread plays it
only when each covering slot lacks an ad's row (`FallbackLastOfOne`). The last assumes fewer than 99
ranges, as slots are numbered from 1 and the fallback is 99: nothing in the code keeps them apart.

**Watchdog.** `OnePlayerUnlessRaced` is `~raced => Lonely`, strengthened: at most one of the two threads is
inside (`OneAtWork`), a living child is the last process that was started, `player_pid_` names it or nothing,
and where the thread stands says which (`Stands`). The types need that no pid is held of a process that was not
started (`PidsStarted`).

**VideoPlayer.** One inductive invariant: a packet's outstanding frames fit into the file
(`PacketsInFile`, else a frame number could pass the file's end); from the choice of an item to
its log row exactly one row is to come (`RowToCome`, which is why no item is logged twice); and the
soft reboot runs with the command thread joined (`RebootsAlone`). From that follows too that the flag is up for as long as a
REBOOT waits (`FlagStands`, `RebootKept`): none is forgotten but those that crossed a soft reboot.
That it is then served is liveness, and TLC's.

**DeviceCommands.** `PicturesOwned` is a consequence of what travels: commands to their device, callbacks with
the picture of their own capture (`CallsTrue`), a waiter's data taken by a device that answered
(`DataTrue`), and whoever waits while a rival's command or picture is there is in `mixed` already
(`RivalsNoted`); a picture that wakes a request outside `mixed` is therefore its own. `SuccessTrue` is
inductive on top of it: a row found by device id is the latest open one of that device (`LatestFacts`), and the callback
that marks it comes from a device that has answered.

**Campaigns.** `CallInv` says what runs together: creation alone (`Alone`), every other pair noted (`Noted`),
and that a call that shares its object with the store has what the store has (`SharedIsMem`).
On it stand three arguments. Served schedules: every record that says published has a valid schedule,
wherever it is (`ValidRec`), and a publication marks what it has validated (`Knows`). Deletions: a
deletion that has only the dictionary left to clear finds no row and no version, and after the answer both stores are empty
and no call but deletions under way (`DeletedInv`). Versions (an action property): there is a map from
versions to schedules with which both stores, every record and every call agree (`Agrees`), and what
makes an update's number new is that each store's version is known or not above the call's (`Bounded`).

The attempt to prove `VersionsStay` refuted the form it had first, beyond the bounds of its run:
after an update, a restart and a rollback, an update that finds the database away numbers its version
as an older one, because the failing list of versions is passed over, and when the database is back
its row replaces the saved one. With three requests at a time a deletion does the same to a call that
holds a version. `VersionMet` names both encounters now.

**GatewayCache.** `ServedWhole` follows from: no inode has two names (`NamesApart`), what a download has
open is under no other name (`WritersApart`), the writer of a name that was never crossed has the `.tmp`
file to itself (`WritersAlone`), so that its renaming puts whole assets under names (`FilesWhole`), and a served
inode is not written to (`AnswersWhole`). That `os.Create` finds a free inode is a counting argument (`FreeInode`).

**Materials.** `MaterialsAgree` rests on: whoever meets at an id is noted (`MeetingsNoted`); an entry is
of an upload that was given its id, and none of a deleted one (`EntriesOwned`); an upload that nobody met
keeps entry and file (`UploadsKept`); a deleted one's file is gone or about to go, unless its unlink failed or the process
ended (`FilesGo`); and row
and entry are in step at every place of an upload and a deletion (`RowsInStep`).

What stays with TLC: the liveness properties (`GoneEndsOffline`, `EventuallySettled`, `PendingSettles`,
`SilentReplaced`, `StopReturns`, `TurnsAgain`, `RebootServed`, `LateAnswerRecorded`, `TurnComes`), since fairness and
ENABLED are out of the proof system's reach; `RetriesLoseNothing` is a conjunct of `LogsAccounted` and proved
with it. The two violation runs are single counterexamples.

## 6. Where the code and its documentation disagree

Two violation runs show one each, with the line quoted under `findings`:

1. An old connection's Unregister deletes a new session's online key (`AliveKeepsKey`).
2. The fallback slot of an old version is played at times that a slot of the new one covers
   (`FallbackLast`; `src/README.md:98`).

Others met while modelling, which the models contain but no run is devoted to:

* The watchdog's fault rows are marked uploaded but refused by the gateway (PlayLogs, `HandleLogReport`).
* "Transactions for atomicity" on a shared connection are not atomic (EdgeDatabase, `AtomicUnlessDisturbed`).
* A stuck player keeps beating and is not restarted (Watchdog, the exception of `SilentReplaced`).
* A failed upload can be recorded as a success with an empty url (DeviceCommands).
* Every play is logged as "Play Success" with its scheduled duration, also one whose file did
  not open or whose frames were dropped at the end of the file (VideoPlayer).
* `src/README.md:26` has the edge check md5 sums; neither the edge nor the gateway compares one, so a file
  that changed under its name is served and played in its old version (EdgeScheduler, GatewayCache).
* `src/README.md:112` has `last_played_time` decide what `cleanupStorage` deletes; every sync sets it to 0.
* A material id is given out again when the highest one was deleted, and the transcode endpoint writes the status
  "ready", which `MaterialStatus` does not have (Materials).
* The policy id of an edge schedule is made of its version only, so schedules of two campaigns with the
  same version replace one another on the edge.

## 7. Not modelled

Pictures, codecs and the sizes of textures and frames, authentication (a fixed token check), formatting of messages, statistics queries (read-only SQL), the
web front end, tools and deployment, vendored and generated code. Concurrent
`WriteJSON` on one connection is below the level of the models. The notification of
a device's status goes to an endpoint the control plane does not have. `player_pid_` is a plain
`int` used by two threads; its reads and writes are taken as single steps, and the
races the steps allow are explored.

Of campaigns, `retry-failed` and the publish logs change no state; one campaign is modelled, and
with it the choice between several published campaigns is left out. `apply_transcode_callback` has no caller. Some hazards
have no property, because nothing in the code guards against them (a command written to a connection that has just been
replaced; a play that nobody saw, logged as a success): `PROJECT.json` lists them with the reason.

## 8. Plan

Done in this order: GatewaySessions, PlayLogs with LogLedger, EdgeDatabase, Watchdog,
DeviceCommands, VideoPlayer, EdgeScheduler, Campaigns, Materials, GatewayCache; then the proofs of
their safety properties. Next:

1. An abstract specification "a device plays a schedule that was validated" over Campaigns,
   GatewayCache's bundles and EdgeScheduler's loads, and the proof that they implement it; an abstract table
   that a load replaces in one step, implemented by EdgeScheduler while nothing is torn.
2. The connection's writer (concurrent `WriteJSON`).
