-------------------------------- MODULE Campaigns --------------------------------
(* One campaign in the control plane (campaigns.py, db_service.py).  Its row and   *)
(* its versions are in Postgres, and a copy of both is in two dictionaries of the  *)
(* process, which answer when Postgres does not (ENABLE_MEMORY_FALLBACK, on by     *)
(* default).  FastAPI runs every request in a thread of its own: two requests      *)
(* interleave between their database calls.  All on one day: a version is its n of *)
(* "<day>_v<n>".                                                                   *)
EXTENDS Integers, FiniteSets, FiniteSetsExt

CONSTANTS
  Requests,     (* threads                                                         *)
  Schedules,    (* contents of schedule_json                                       *)
  Valid,        (* those that _validate_publish_inputs lets pass                   *)
  Nothing,      (* no campaign, no schedule                                        *)
  MaxVersion,   (* bound: versions                                                 *)
  MaxCalls,     (* bound: requests                                                 *)
  MaxChanges,   (* bound: Postgres goes away or comes back                         *)
  MaxRestarts   (* bound: restarts of the control plane                            *)

Versions == 1..MaxVersion

(* A campaign: its row, or its copy in memory.                                     *)
Records == [status : {"draft", "published"}, schedule : Schedules, version : Versions]

ASSUME CampaignsConstants ==
  /\ Valid \subseteq Schedules
  /\ Nothing \notin Schedules /\ Nothing \notin Records
  /\ {MaxVersion, MaxCalls, MaxChanges, MaxRestarts} \subseteq Nat
  /\ MaxVersion > 0

VARIABLES
  up,           (* Postgres answers                                                *)
  row, saved,   (* the row of campaigns; campaign_versions                         *)
  mem, memSaved,(* _CAMPAIGN_STORE, _CAMPAIGN_VERSION_STORE                        *)
  call,         (* what each request is doing                                      *)
  mixed,        (* history: what was under way together, "db" being an outage that *)
                (* began or ended, or that a delete or the choice of a version met *)
  removed,      (* history: a delete has answered ok                               *)
  calls, changes, restarts

store == <<row, saved, mem, memSaved>>
bounds == <<calls, changes, restarts>>
vars == <<up, store, call, mixed, removed, bounds>>

Idle == [at |-> "idle"]
NoVersions == [v \in Versions |-> Nothing]
Campaign(status, schedule, version) ==
  [status |-> status, schedule |-> schedule, version |-> version]

Active == {r \in Requests : call[r] # Idle}

Init ==
  /\ up \in BOOLEAN
  /\ row = Nothing /\ saved = NoVersions
  /\ mem = Nothing /\ memSaved = NoVersions
  /\ call = [r \in Requests |-> Idle]
  /\ mixed = {}
  /\ removed = FALSE
  /\ calls = 0 /\ changes = 0 /\ restarts = 0

--------------------------------------------------------------------------------
(* A request begins, knowing the campaign (rec, which is the object of the store   *)
(* itself if it is shared), a schedule and a version.  The answer to the request   *)
(* that creates the campaign is what tells others its id.                          *)
Begins(r, kind, at, rec, shared, schedule, version) ==
  /\ call[r] = Idle /\ \A q \in Active : call[q].kind # "create"
  /\ calls < MaxCalls
  /\ calls' = calls + 1
  /\ call' = [call EXCEPT ![r] =
       [kind |-> kind, at |-> at, rec |-> rec, shared |-> shared,
        schedule |-> schedule, version |-> version]]
  /\ mixed' = mixed \cup {{kind, call[q].kind} : q \in Active}
  /\ UNCHANGED <<changes, restarts>>

Goes(r, at) == call' = [call EXCEPT ![r].at = at]
Ends(r) == call' = [call EXCEPT ![r] = Idle]

(* db_service.get_campaign, or else _CAMPAIGN_STORE.get                            *)
InRow == up /\ row # Nothing
Found == IF InRow THEN row ELSE mem

(* rec goes into the store, and call r on to its next step.  Whoever holds the     *)
(* object that was there sees the change if it is made in place, and else keeps    *)
(* that object to himself.                                                         *)
Puts(r, rec, at, inPlace) ==
  /\ mem' = rec
  /\ call' = [q \in Requests |->
       CASE q = r -> [call[r] EXCEPT !.at = at, !.rec = rec, !.shared = TRUE]
         [] q # r /\ ~(q \in Active /\ call[q].shared) -> call[q]
         [] q # r /\ q \in Active /\ call[q].shared ->
              IF inPlace THEN [call[q] EXCEPT !.rec = rec]
              ELSE [call[q] EXCEPT !.shared = FALSE]]

At(r, at) == r \in Active /\ call[r].at = at

--------------------------------------------------------------------------------
(* create_campaign_strategy, update_campaign_strategy.                             *)
Create(r, schedule) ==
  /\ calls = 0
  /\ Begins(r, "create", "insert", Nothing, FALSE, schedule, 1)
  /\ UNCHANGED <<up, store, removed>>

Update(r, schedule) ==
  /\ Found # Nothing
  /\ Begins(r, "update", "version", Found, ~InRow, schedule, 0)
  /\ UNCHANGED <<up, store, removed>>

(* _next_campaign_version: one more than the versions it can see; a list that      *)
(* fails is passed over.                                                           *)
Numbers(versions) == {v \in Versions : versions[v] # Nothing}

NextVersionOfRow(rec) == rec.version + 1  (* mutant *)

NextVersion(rec) ==
  1 + Max({rec.version} \cup Numbers(memSaved) \cup (IF up THEN Numbers(saved) ELSE {}))

ChooseVersion(r) ==
  /\ At(r, "version")
  /\ NextVersion(call[r].rec) \in Versions
  /\ call' = [call EXCEPT ![r].at = "insert", ![r].version = NextVersion(call[r].rec),
                           ![r].rec = Nothing, ![r].shared = FALSE]
  /\ mixed' = IF up THEN mixed ELSE mixed \cup {{"update", "db"}}
  /\ UNCHANGED <<up, store, removed, bounds>>

InsertCampaign(r) ==
  /\ At(r, "insert")
  /\ row' = IF up THEN Campaign("draft", call[r].schedule, call[r].version) ELSE row
  /\ Goes(r, "store")
  /\ UNCHANGED <<up, saved, mem, memSaved, mixed, removed, bounds>>

(* A new object for the store; _save_campaign_version begins with the memory.      *)
StoreCampaign(r) ==
  /\ At(r, "store")
  /\ Puts(r, Campaign("draft", call[r].schedule, call[r].version), "save", FALSE)
  /\ memSaved' = [memSaved EXCEPT ![call[r].version] = call[r].schedule]
  /\ UNCHANGED <<up, row, saved, mixed, removed, bounds>>

(* _save_campaign_version: Postgres, or nothing.                                   *)
SaveVersion(r) ==
  /\ At(r, "save")
  /\ saved' = IF up THEN [saved EXCEPT ![call[r].version] = call[r].schedule] ELSE saved
  /\ IF call[r].kind = "publish" /\ call[r].rec.status # "published"
     THEN Goes(r, "mark")
     ELSE Ends(r)
  /\ UNCHANGED <<up, row, mem, memSaved, mixed, removed, bounds>>

--------------------------------------------------------------------------------
(* publish_campaign: the schedule it has read is validated, and saved again under  *)
(* the version that the campaign, if it is the object in the store, has by then.   *)
Publish(r) ==
  /\ Found # Nothing
  /\ Begins(r, "publish", "validate", Found, ~InRow, Found.schedule, 0)
  /\ UNCHANGED <<up, store, removed>>

Validate(r) ==
  /\ At(r, "validate")
  /\ \/ /\ call[r].schedule \notin Valid
        /\ Ends(r)
        /\ UNCHANGED memSaved
     \/ /\ call[r].schedule \in Valid /\ call[r].kind = "publish"
        /\ memSaved' = [memSaved EXCEPT ![call[r].rec.version] = call[r].schedule]
        /\ call' = [call EXCEPT ![r].at = "save", ![r].version = call[r].rec.version]
     \/ /\ call[r].schedule \in Valid /\ call[r].kind = "republish"
        /\ Goes(r, "mark")
        /\ UNCHANGED memSaved
  /\ UNCHANGED <<up, row, saved, mem, mixed, removed, bounds>>

(* _mark_campaign_published: the whole campaign in the store, the row by its id.   *)
MarkedActive(rec) == [rec EXCEPT !.status = "active"]  (* mutant *)

Marked(rec) == [rec EXCEPT !.status = "published"]

MarkInMemory(r) ==
  /\ At(r, "mark")
  /\ Puts(r, Marked(call[r].rec), "mark row", call[r].shared)
  /\ UNCHANGED <<up, row, saved, memSaved, mixed, removed, bounds>>

MarkRow(r) ==
  /\ At(r, "mark row")
  /\ row' = IF InRow THEN Marked(row) ELSE row
  /\ Ends(r)
  /\ UNCHANGED <<up, saved, mem, memSaved, mixed, removed, bounds>>

--------------------------------------------------------------------------------
(* rollback_campaign: the version's schedule, then the campaign, then a draft of   *)
(* both, which is published at once if it was asked to ("republish") and passes    *)
(* the validation.                                                                 *)
Rollback(r, kind, version) ==
  LET schedule == IF up /\ saved[version] # Nothing THEN saved[version]
                  ELSE memSaved[version]
  IN /\ schedule # Nothing
     /\ Begins(r, kind, "read", Nothing, FALSE, schedule, version)
     /\ UNCHANGED <<up, store, removed>>

AlreadyOut(r) ==
  /\ call[r].kind = "republish"
  /\ Found.status = "published" /\ Found.version = call[r].version

ReadCampaign(r) ==
  /\ At(r, "read")
  /\ IF Found = Nothing \/ (Found # Nothing /\ AlreadyOut(r))
     THEN Ends(r)
     ELSE call' = [call EXCEPT ![r].at = "draft", ![r].rec = Found, ![r].shared = ~InRow]
  /\ UNCHANGED <<up, store, mixed, removed, bounds>>

RollbackInMemory(r) ==
  /\ At(r, "draft")
  /\ Puts(r, Campaign("draft", call[r].schedule, call[r].version), "draft row",
          call[r].shared)
  /\ UNCHANGED <<up, row, saved, memSaved, mixed, removed, bounds>>

RollbackRowUnchecked(r) ==  (* mutant *)
  /\ At(r, "draft row")
  /\ row' = IF up THEN call[r].rec ELSE row
  /\ IF call[r].kind = "republish" THEN Goes(r, "mark") ELSE Ends(r)
  /\ UNCHANGED <<up, saved, mem, memSaved, mixed, removed, bounds>>

RollbackRow(r) ==
  /\ At(r, "draft row")
  /\ row' = IF up THEN call[r].rec ELSE row
  /\ IF call[r].kind = "republish" THEN Goes(r, "validate") ELSE Ends(r)
  /\ UNCHANGED <<up, saved, mem, memSaved, mixed, removed, bounds>>

--------------------------------------------------------------------------------
(* delete_campaign: all tables in one transaction, then the memory; answered with  *)
(* ok if one of them had it.                                                       *)
Delete(r) ==
  /\ calls > 0
  /\ Begins(r, "delete", "delete", Nothing, FALSE, Nothing, 0)
  /\ UNCHANGED <<up, store, removed>>

DeleteRow(r) ==
  /\ At(r, "delete")
  /\ IF up
     THEN row' = Nothing /\ saved' = NoVersions /\ UNCHANGED mixed
     ELSE mixed' = mixed \cup {{"delete", "db"}} /\ UNCHANGED <<row, saved>>
  /\ call' = [call EXCEPT ![r].at = "forget", ![r].version = IF InRow THEN 1 ELSE 0]
  /\ UNCHANGED <<up, mem, memSaved, removed, bounds>>

ForgetNothing(r) ==  (* mutant *)
  /\ At(r, "forget")
  /\ removed' = (removed \/ call[r].version = 1 \/ mem # Nothing)
  /\ Ends(r)
  /\ UNCHANGED <<up, store, mixed, bounds>>

Forget(r) ==
  /\ At(r, "forget")
  /\ mem' = Nothing /\ memSaved' = NoVersions
  /\ removed' = (removed \/ call[r].version = 1 \/ mem # Nothing)
  /\ call' = [q \in Requests |->
       IF q \in Active \ {r} THEN [call[q] EXCEPT !.shared = FALSE]
       ELSE IF q = r THEN Idle ELSE call[q]]
  /\ UNCHANGED <<up, row, saved, mixed, bounds>>

--------------------------------------------------------------------------------
(* Postgres goes away or comes back; the process is started again.                 *)
DatabaseChanges ==
  /\ changes < MaxChanges
  /\ changes' = changes + 1
  /\ up' = ~up
  /\ mixed' = mixed \cup {{call[q].kind, "db"} : q \in Active}
  /\ UNCHANGED <<store, call, removed, calls, restarts>>

Restart ==
  /\ restarts < MaxRestarts
  /\ restarts' = restarts + 1
  /\ mem' = Nothing /\ memSaved' = NoVersions
  /\ call' = [r \in Requests |-> Idle]
  /\ UNCHANGED <<up, row, saved, mixed, removed, calls, changes>>

Steps(r) ==
  \/ ChooseVersion(r) \/ InsertCampaign(r) \/ StoreCampaign(r) \/ SaveVersion(r)
  \/ Validate(r) \/ MarkInMemory(r) \/ MarkRow(r)
  \/ ReadCampaign(r) \/ RollbackInMemory(r) \/ RollbackRow(r)
  \/ DeleteRow(r) \/ Forget(r)

Next ==
  \/ \E r \in Requests :
       \/ \E s \in Schedules : Create(r, s) \/ Update(r, s)
       \/ \E v \in Versions, kind \in {"rollback", "republish"} : Rollback(r, kind, v)
       \/ Publish(r) \/ Delete(r) \/ Steps(r)
  \/ DatabaseChanges \/ Restart

Spec == Init /\ [][Next]_vars
--------------------------------------------------------------------------------
(* _get_published_campaign_for_device: the published row, or else the published    *)
(* copy in memory.                                                                 *)
IsPublished(rec) == rec # Nothing /\ rec.status = "published"
Served == IF up /\ IsPublished(row) THEN row
          ELSE IF IsPublished(mem) THEN mem ELSE Nothing

(* Every variable has the type the code gives it.                                  *)
TypeOK ==
  /\ up \in BOOLEAN /\ removed \in BOOLEAN
  /\ row \in Records \cup {Nothing} /\ mem \in Records \cup {Nothing}
  /\ saved \in [Versions -> Schedules \cup {Nothing}]
  /\ memSaved \in [Versions -> Schedules \cup {Nothing}]
  /\ \A r \in Active : /\ call[r].rec \in Records \cup {Nothing}
                        /\ call[r].schedule \in Schedules \cup {Nothing}
                        /\ call[r].version \in Versions \cup {0}

(* What ran together, for each of the properties below.                            *)
PublicationMet ==
  mixed \cap {{p, k} : p \in {"publish", "republish"},
                       k \in {"update", "rollback", "republish", "db"}} # {}

VersionMet ==
  \/ mixed \cap {{"update"}, {"update", "db"}, {"publish", "rollback"}, {"publish", "republish"}} # {}
  \/ \E k \in {"update", "publish", "rollback", "republish"} : {"delete", k} \in mixed

DeletionMet == \E pair \in mixed : "delete" \in pair /\ pair # {"delete"}

(* A device is given a schedule that passed the validation, whichever copies the   *)
(* outages and restarts have left apart, unless a publication was under way        *)
(* together with a call that writes the campaign, or an outage began or ended in   *)
(* it (publish_campaign validates one reading and marks what is there then).       *)
ServedValidated == PublicationMet \/ (Served # Nothing => Served.schedule \in Valid)

(* A version that is saved keeps its schedule, so that a rollback brings back what *)
(* was shown (campaign_versions), unless two updates ran together, an update did   *)
(* without the database on its way or when it numbered its version                 *)
(* (_next_campaign_version), a rollback changed the campaign that a publication    *)
(* had read from memory, or a deletion took versions away from under a call that   *)
(* held one of them, whose number an update then gave again.                       *)
VersionsStay ==
  [][\A v \in Versions :
       saved[v] = Nothing \/ saved'[v] \in {saved[v], Nothing} \/ VersionMet]_vars

(* A campaign whose deletion was answered with ok is never given to a device again *)
(* unless the database was away then or another call was under way together with   *)
(* the deletion (delete_campaign, upserts).                                        *)
DeletedStays == DeletionMet \/ (removed => Served = Nothing)
================================================================================
