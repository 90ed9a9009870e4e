-------------------------------- MODULE Materials --------------------------------
(* The control plane's materials (materials.py, material_service.py): a file on    *)
(* disk, an entry of index.json and, if Postgres takes it, a row of materials.     *)
(* Uploads run on the event loop, deletions and transcodings in threads; each      *)
(* access to the index is under a lock, and nothing is held from one to the next.  *)
(* Names are qualified: MaterialFiles_proofs EXTENDS this beside GatewayCache.     *)
EXTENDS Integers, FiniteSets, FiniteSetsExt

CONSTANTS
  Uploads,      (* uploads; each stands for its bytes and its metadata             *)
  Links,        (* those that bring an oss_url and no file                         *)
  UploadName,   (* their file names                                                *)
  Jobs,         (* deletions and transcodings                                      *)
  Nothing,      (* no entry, no row, no file                                       *)
  Ghost,        (* what an entry holds that has a status and nothing else          *)
  MaxId,        (* bound: material ids                                             *)
  MaxFailures,  (* bound: database calls, writes and unlinks that fail             *)
  MaxRestarts   (* bound: restarts of the control plane                            *)

Ids == 1..MaxId
UploadNames == {UploadName[u] : u \in Uploads}
Statuses == {"uploaded", "transcoding", "ready", "done", "failed"}
Entries == [content : Uploads \cup {Ghost}, status : Statuses]

ASSUME MaterialsConstants ==
  /\ DOMAIN UploadName = Uploads /\ Links \subseteq Uploads
  /\ {Nothing, Ghost} \cap Uploads = {} /\ Nothing \notin Entries \cup {Ghost}
  /\ {MaxId, MaxFailures, MaxRestarts} \subseteq Nat

VARIABLES
  index,        (* id -> [content, status], or Nothing                             *)
  rows,         (* id -> the upload that wrote the row of materials, or Nothing    *)
  disk,         (* id and name -> the upload whose bytes are in that file          *)
  upload,       (* Uploads -> where it is, and the id it has taken                 *)
  job,          (* Jobs -> where it is, and the id it is about                     *)
  mixed,        (* history: <<id, kinds that were under way together>>, a kind     *)
                (* being "db" for a database call, "disk" for a write or an unlink *)
                (* that failed, and "restart" for an end of the process            *)
  gone,         (* history: uploads whose entry a deletion has taken away          *)
  failures, restarts

materialsVars == <<index, rows, disk, upload, job, mixed, gone, failures, restarts>>

Entry(content, status) == [content |-> content, status |-> status]
Waiting == [at |-> "waiting", id |-> 0]
Under(at, id) == [at |-> at, id |-> id]

(* material_service.ALLOWED_TRANSITIONS                                            *)
AllowedTransitions == {<<"uploaded", "transcoding">>, <<"uploaded", "failed">>,
                       <<"transcoding", "done">>, <<"transcoding", "failed">>}

MaterialsInit ==
  /\ index = [i \in Ids |-> Nothing]
  /\ rows = [i \in Ids |-> Nothing]
  /\ disk = [f \in Ids \X UploadNames |-> Nothing]
  /\ upload = [u \in Uploads |-> Waiting]
  /\ job = [j \in Jobs |-> Waiting]
  /\ mixed = {}
  /\ gone = {}
  /\ failures = 0 /\ restarts = 0

--------------------------------------------------------------------------------
(* What is under way about an id, and what a beginning of kind k meets there.      *)
KindOf(j) == IF job[j].at \in {"mark", "finish"} THEN "transcode" ELSE "delete"
UnderWay(i) ==
  {"upload" : u \in {v \in Uploads : upload[v].id = i /\ upload[v].at \in {"taken", "indexed"}}}
  \cup {KindOf(j) : j \in {k \in Jobs : job[k].id = i /\ job[k].at \notin {"waiting", "over"}}}

Meets(i, k) == {<<i, {k, other}>> : other \in UnderWay(i)}

(* What an operation of kind k asks of the database or the disk (d) fails, as the  *)
(* bound permits, which the history of i notes.                                    *)
Fails(i, k, d) ==
  /\ failures < MaxFailures
  /\ failures' = failures + 1
  /\ mixed' = mixed \cup {<<i, {k, d}>>}

(* A call is answered, or fails.                                                   *)
Called(i, k, d, succeeds) ==
  \/ succeeds /\ UNCHANGED <<failures, mixed>>
  \/ ~succeeds /\ Fails(i, k, d)

--------------------------------------------------------------------------------
(* upload_material.  get_next_material_id: one more than the ids in the index and, *)
(* when the database answers, in its rows; then a file's body is awaited.          *)
Taken(S) == {i \in Ids : S[i] # Nothing}

NextIdOfRows(dbAnswers) ==  (* mutant *)
  1 + Max({0} \cup (IF dbAnswers THEN Taken(rows) ELSE Taken(index)))

NextId(dbAnswers) ==
  1 + Max({0} \cup Taken(index) \cup (IF dbAnswers THEN Taken(rows) ELSE {}))

Takes(u, i, dbAnswers, at) ==
  /\ upload[u].at = "waiting"
  /\ i = NextId(dbAnswers)
  /\ upload' = [upload EXCEPT ![u] = Under(at, i)]
  /\ failures' = IF dbAnswers THEN failures ELSE failures + 1
  /\ failures' <= MaxFailures
  /\ mixed' = mixed \cup Meets(i, "upload")
                    \cup (IF dbAnswers THEN {} ELSE {<<i, {"upload", "db"}>>})
  /\ UNCHANGED <<rows, disk, job, gone, restarts>>

TakeId(u) ==
  /\ u \notin Links
  /\ \E i \in Ids, dbAnswers \in BOOLEAN : Takes(u, i, dbAnswers, "taken")
  /\ UNCHANGED index

(* Without a file nothing is awaited: the id and upsert_material in one go.        *)
UploadLink(u) ==
  /\ u \in Links
  /\ \E i \in Ids, dbAnswers \in BOOLEAN :
       /\ Takes(u, i, dbAnswers, "indexed")
       /\ index' = [index EXCEPT ![i] = Entry(u, "uploaded")]

(* The file, then upsert_material.                                                 *)
StoreUpload(u) ==
  /\ upload[u].at = "taken"
  /\ LET i == upload[u].id IN
     /\ disk' = [disk EXCEPT ![<<i, UploadName[u]>>] = u]
     /\ index' = [index EXCEPT ![i] = Entry(u, "uploaded")]
     /\ upload' = [upload EXCEPT ![u].at = "indexed"]
  /\ UNCHANGED <<rows, job, mixed, gone, failures, restarts>>

(* write_bytes or the index's _atomic_write raises: 500.  The file stays if it was *)
(* written.  A link whose index write raises has left nothing anywhere.            *)
StoreUploadFails(u) ==
  /\ upload[u].at = "taken"
  /\ LET i == upload[u].id IN
     /\ Fails(i, "upload", "disk")
     /\ upload' = [upload EXCEPT ![u] = Under("lost", i)]
     /\ disk' \in {disk, [disk EXCEPT ![<<i, UploadName[u]>>] = u]}
  /\ UNCHANGED <<index, rows, job, gone, restarts>>

(* insert_material, best effort; the answer.                                       *)
PersistUpload(u) ==
  /\ upload[u].at = "indexed"
  /\ LET i == upload[u].id IN
     \E ok \in BOOLEAN :
       /\ Called(i, "upload", "db", ok)
       /\ rows' = IF ok THEN [rows EXCEPT ![i] = u] ELSE rows
  /\ upload' = [upload EXCEPT ![u].at = "answered"]
  /\ UNCHANGED <<index, disk, job, gone, restarts>>

--------------------------------------------------------------------------------
(* delete_one_material: the row, if the database answers; the entry; the file that *)
(* the entry named.                                                                *)
Delete(j, i) ==
  /\ job[j].at = "waiting"
  /\ job' = [job EXCEPT ![j] = Under("row", i)]
  /\ mixed' = mixed \cup Meets(i, "delete")
  /\ UNCHANGED <<index, rows, disk, upload, gone, failures, restarts>>

DeleteRow(j) ==
  /\ job[j].at = "row"
  /\ \E ok \in BOOLEAN :
       /\ Called(job[j].id, "delete", "db", ok)
       /\ rows' = IF ok THEN [rows EXCEPT ![job[j].id] = Nothing] ELSE rows
  /\ job' = [job EXCEPT ![j].at = "entry"]
  /\ UNCHANGED <<index, disk, upload, gone, restarts>>

DeleteEntry(j) ==
  /\ job[j].at = "entry"
  /\ LET i == job[j].id IN
     IF index[i] = Nothing                                          (* 404 *)
     THEN job' = [job EXCEPT ![j].at = "over"] /\ UNCHANGED <<index, gone>>
     ELSE /\ index' = [index EXCEPT ![i] = Nothing]
          /\ job' = [job EXCEPT ![j] = [at |-> "unlink", id |-> i, of |-> index[i].content]]
          /\ gone' = gone \cup ({index[i].content} \ {Ghost})
  /\ UNCHANGED <<rows, disk, upload, mixed, failures, restarts>>

(* Best effort too: unlink's exception is swallowed, and the file stays.           *)
Unlink(j) ==
  /\ job[j].at = "unlink"
  /\ LET i == job[j].id IN
     /\ job' = [job EXCEPT ![j] = Under("over", i)]
     /\ IF job[j].of \in Links \cup {Ghost}
        THEN UNCHANGED <<disk, mixed, failures>>
        ELSE \E ok \in BOOLEAN :
               /\ Called(i, "delete", "disk", ok)
               /\ disk' = IF ok THEN [disk EXCEPT ![<<i, UploadName[job[j].of]>>] = Nothing]
                          ELSE disk
  /\ UNCHANGED <<index, rows, upload, gone, restarts>>

--------------------------------------------------------------------------------
(* upsert_material of a status: a new entry if there is none.                      *)
WithStatusWhenFound(i, status) ==  (* mutant: a new entry misses its status *)
  [index EXCEPT ![i] = IF @ = Nothing THEN Ghost ELSE [@ EXCEPT !.status = status]]

WithStatus(i, status) ==
  [index EXCEPT ![i] = IF @ = Nothing THEN Entry(Ghost, status)
                       ELSE [@ EXCEPT !.status = status]]

(* transcode_material, and its background task.                                    *)
Transcode(j, i) ==
  /\ job[j].at = "waiting"
  /\ index[i] # Nothing
  /\ job' = [job EXCEPT ![j] = Under("mark", i)]
  /\ mixed' = mixed \cup Meets(i, "transcode")
  /\ UNCHANGED <<index, rows, disk, upload, gone, failures, restarts>>

MarkTranscoding(j) ==
  /\ job[j].at = "mark"
  /\ index' = WithStatus(job[j].id, "transcoding")
  /\ job' = [job EXCEPT ![j].at = "finish"]
  /\ UNCHANGED <<rows, disk, upload, mixed, gone, failures, restarts>>

FinishTranscoding(j) ==
  /\ job[j].at = "finish"
  /\ index' = WithStatus(job[j].id, "ready")
  /\ job' = [job EXCEPT ![j].at = "over"]
  /\ UNCHANGED <<rows, disk, upload, mixed, gone, failures, restarts>>

(* update_material_status, for the debug endpoint: one step under the lock.        *)
UpdateStatus(i, status) ==
  /\ index[i] # Nothing
  /\ <<index[i].status, status>> \in AllowedTransitions
  /\ index' = WithStatus(i, status)
  /\ UNCHANGED <<rows, disk, upload, job, mixed, gone, failures, restarts>>

(* The index's _atomic_write raises, in a deletion after the row is gone or in a    *)
(* transcoding: the entry stays as it was, and the job is over.                    *)
IndexWriteFails(j) ==
  /\ job[j].at \in {"entry", "mark", "finish"}
  /\ Fails(job[j].id, KindOf(j), "disk")
  /\ job' = [job EXCEPT ![j].at = "over"]
  /\ UNCHANGED <<index, rows, disk, upload, gone, restarts>>

(* A restart: requests and background tasks are lost, what is on disk is not.      *)
RestartControlPlane ==
  /\ restarts < MaxRestarts
  /\ restarts' = restarts + 1
  /\ mixed' = mixed \cup UNION {Meets(i, "restart") : i \in Ids}
  /\ upload' = [u \in Uploads |-> IF upload[u].at \in {"taken", "indexed"}
                                 THEN Under("lost", upload[u].id) ELSE upload[u]]
  /\ job' = [j \in Jobs |-> IF job[j].at = "waiting" THEN Waiting
                           ELSE Under("over", job[j].id)]
  /\ UNCHANGED <<index, rows, disk, gone, failures>>

MaterialsNext ==
  \/ \E u \in Uploads : TakeId(u) \/ UploadLink(u) \/ StoreUpload(u) \/ PersistUpload(u)
                           \/ StoreUploadFails(u)
  \/ \E j \in Jobs :
       \/ \E i \in Ids : Delete(j, i) \/ Transcode(j, i)
       \/ DeleteRow(j) \/ DeleteEntry(j) \/ Unlink(j)
       \/ MarkTranscoding(j) \/ FinishTranscoding(j) \/ IndexWriteFails(j)
  \/ \E i \in Ids, s \in {"transcoding", "done", "failed"} : UpdateStatus(i, s)
  \/ RestartControlPlane

MaterialsSpec == MaterialsInit /\ [][MaterialsNext]_materialsVars
--------------------------------------------------------------------------------
(* Every variable has the type the code gives it.                                  *)
MaterialsTypeOK ==
  /\ index \in [Ids -> Entries \cup {Nothing}]
  /\ rows \in [Ids -> Uploads \cup {Nothing}]
  /\ disk \in [Ids \X UploadNames -> Uploads \cup {Nothing}]
  /\ \A u \in Uploads : upload[u].id \in Ids \cup {0}
  /\ \A j \in Jobs : job[j].id \in Ids \cup {0}
  /\ gone \subseteq Uploads

(* Calm(i, pairs): none of these pairs of kinds has met at i.                      *)
Calm(i, pairs) == \A p \in pairs : <<i, p>> \notin mixed

(* An answered upload that nobody deleted has its entry and its file under its id, *)
(* unless two uploads computed the same id before an await, or a deletion met the  *)
(* upload; the file of one that was deleted is gone, unless its unlink failed,     *)
(* which nobody is told, or the process ended before it; and the database's row    *)
(* says what the index says, unless two of an id's operations met, a call to the   *)
(* database failed, the index could not be written after the row was gone, or the  *)
(* process ended in between: materials.py takes no lock from one store to the next *)
(* and undoes nothing.                                                             *)
MaterialsAgree ==
  /\ \A u \in Uploads : \A i \in Ids :
       upload[u] = Under("answered", i) /\ u \notin gone
       /\ Calm(i, {{"upload"}, {"upload", "delete"}})
         => /\ index[i] # Nothing /\ index[i].content = u
            /\ disk[<<i, UploadName[u]>>] = u \/ u \in Links
  /\ \A u \in gone : LET i == upload[u].id IN
       UnderWay(i) = {} /\ Calm(i, {{"delete", "disk"}, {"delete", "restart"}})
         => disk[<<i, UploadName[u]>>] # u
  /\ \A i \in Ids :
       UnderWay(i) = {}
       /\ Calm(i, {{"upload"}, {"upload", "delete"}, {"delete", "transcode"}, {"upload", "db"},
                   {"delete", "db"}, {"delete", "disk"}, {"upload", "restart"}, {"delete", "restart"}})
         => rows[i] = IF index[i] = Nothing THEN Nothing ELSE index[i].content
================================================================================
