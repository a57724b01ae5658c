----------------------------- MODULE Attachments -----------------------------
(***************************************************************************)
(* Files and their objects: FilesService (core/files/files.service.ts),    *)
(* StorageService, the cleanup job of one object, and the public complaint *)
(* that takes uploaded files over (complaints.service.ts createPublic).    *)
(* A visitor uploads first and files the complaint later; every upload     *)
(* first purges the uploads nobody used for a day.  A row and its object   *)
(* are written and deleted by calls of their own, and the files are linked *)
(* on a connection outside the transaction that creates the complaint.     *)
(***************************************************************************)
EXTENDS Naturals, FiniteSets

CONSTANTS Files, Uploaders, Reports, \* file ids, callers, complaints in order
          Nobody, Staff,             \* owners that are no complaint
          MaxErased,                 \* rows the staff removes (a bound)
          MaxOutages                 \* objects the bucket fails on (a bound)
ASSUME OwnersDiffer == /\ Reports \subseteq Nat
                       /\ Nobody # Staff /\ {Nobody, Staff} \cap Reports = {}

VARIABLES objects,               \* keys in the bucket
          meta,                  \* file rows: "none", "live", "gone"
          holder,                \* ownerType and ownerId of a row
          job,                   \* the cleanup job of a file's object
          upload,                \* uploads under way
          report,                \* complaints under way and filed
          erasing,               \* removals between their row and their object
          unqueued, abandoned,   \* objects left: audited, and by a crash
          swept, erased, contested \* rows a purge read, staff removed, two took
fileVars == <<objects, meta, holder, job, upload, report, erasing,
              unqueued, abandoned, swept, erased, contested>>
fileRowVars == <<meta, holder>>
traceVars == <<unqueued, abandoned, swept, erased, contested>>

NoUpload == [step |-> "idle", for |-> Nobody, stale |-> {}, file |-> Nobody]
NoReport == [step |-> "none", files |-> {}, saw |-> {}]

FilesInit == /\ objects = {} /\ meta = [f \in Files |-> "none"]
             /\ holder = [f \in Files |-> Nobody]
             /\ job = [f \in Files |-> "none"]
             /\ upload = [u \in Uploaders |-> NoUpload]
             /\ report = [r \in Reports |-> NoReport]
             /\ erasing = {} /\ unqueued = {} /\ abandoned = {}
             /\ swept = {} /\ erased = {} /\ contested = {}

Unused(f) == meta[f] = "live" /\ holder[f] = Nobody

\* uploadPublic: the unused uploads that are a day old, which may be any, are
\* read, then taken one at a time.
MutUploadPublic(u) ==
  /\ upload[u] = NoUpload
  /\ \E stale \in SUBSET {f \in Files : meta[f] = "live"} :
     /\ upload' = [upload EXCEPT ![u] = [NoUpload EXCEPT !.step = "purge",
                                                         !.stale = stale]]
     /\ swept' = swept \cup {f \in stale : Unused(f)}
  /\ UNCHANGED <<objects, fileRowVars, job, report, erasing, unqueued, abandoned,
                 erased, contested>>
UploadPublic(u) ==
  /\ upload[u] = NoUpload
  /\ \E stale \in SUBSET {f \in Files : Unused(f)} :
     /\ upload' = [upload EXCEPT ![u] = [NoUpload EXCEPT !.step = "purge",
                                                         !.stale = stale]]
     /\ swept' = swept \cup stale
  /\ UNCHANGED <<objects, fileRowVars, job, report, erasing, unqueued, abandoned,
                 erased, contested>>
\* upload, by the staff: no purge, and the row has its owner from the start.
UploadByStaff(u) ==
  /\ upload[u] = NoUpload
  /\ upload' = [upload EXCEPT ![u] = [NoUpload EXCEPT !.step = "purge",
                                                      !.for = Staff]]
  /\ UNCHANGED <<objects, fileRowVars, job, report, erasing, traceVars>>

\* scheduleStorageCleanup: a job id is queued once, and a kept job of the same
\* id swallows the next; without Redis the audit row is all that remains.
ScheduleStorageCleanup(f) ==
  \/ /\ job' = [job EXCEPT ![f] = IF @ = "none" THEN "queued" ELSE @]
     /\ UNCHANGED unqueued
  \/ unqueued' = unqueued \cup {f} /\ UNCHANGED job
MutDeleteObject(f) ==
  \/ objects' = objects \ {f} /\ UNCHANGED <<job, unqueued>>
  \/ UNCHANGED <<objects, job, unqueued>>
\* The object of f is deleted, or a cleanup is scheduled.
DeleteObject(f) ==
  \/ objects' = objects \ {f} /\ UNCHANGED <<job, unqueued>>
  \/ /\ Cardinality(({g \in Files : job[g] # "none"} \cup unqueued) \ {f}) < MaxOutages
     /\ ScheduleStorageCleanup(f) /\ UNCHANGED objects

PurgeObject(u) ==
  /\ upload[u].step = "purge"
  /\ \E f \in upload[u].stale :
       /\ DeleteObject(f)
       /\ upload' = [upload EXCEPT ![u].step = "drop", ![u].file = f]
  /\ UNCHANGED <<fileRowVars, report, erasing, abandoned, swept, erased, contested>>
\* The row is deleted by its id: what happened to it since it was read is not
\* looked at, and the upload fails when somebody else deleted it.
PurgeRow(u) ==
  /\ upload[u].step = "drop"
  /\ LET f == upload[u].file IN
     IF meta[f] = "live"
     THEN /\ meta' = [meta EXCEPT ![f] = "gone"]
          /\ upload' = [upload EXCEPT ![u].step = "purge", ![u].file = Nobody,
                                      ![u].stale = @ \ {f}]
     ELSE upload' = [upload EXCEPT ![u] = NoUpload] /\ UNCHANGED meta
  /\ UNCHANGED <<objects, holder, job, report, erasing, traceVars>>

\* Names are random: a key that was never used, whichever.
Unnamed == {f \in Files : meta[f] = "none" /\ f \notin objects
                           /\ \A u \in Uploaders : upload[u].file # f}
PutObject(u) ==
  /\ upload[u].step = "purge" /\ upload[u].stale = {}
  /\ Unnamed # {}
  /\ LET f == CHOOSE f \in Unnamed : TRUE IN
       /\ objects' = objects \cup {f}
       /\ upload' = [upload EXCEPT ![u].step = "insert", ![u].file = f]
  /\ UNCHANGED <<fileRowVars, job, report, erasing, traceVars>>
InsertFile(u) ==
  /\ upload[u].step = "insert"
  /\ meta' = [meta EXCEPT ![upload[u].file] = "live"]
  /\ holder' = [holder EXCEPT ![upload[u].file] = upload[u].for]
  /\ upload' = [upload EXCEPT ![u] = NoUpload]
  /\ UNCHANGED <<objects, job, report, erasing, traceVars>>
\* A call to the bucket or the database fails, or the process dies.
UploadFails(u) ==
  /\ upload[u] # NoUpload
  /\ upload' = [upload EXCEPT ![u] = NoUpload]
  /\ UNCHANGED <<objects, fileRowVars, job, report, erasing, traceVars>>

\* createPublic: the complaint is inserted in a transaction ...
CreatePublic(r) ==
  /\ report[r] = NoReport /\ \A q \in Reports : q < r => report[q] # NoReport
  /\ \E fs \in SUBSET {f \in Files : meta[f] = "live"} \ {{}} :
       report' = [report EXCEPT ![r] = [step |-> "open", files |-> fs,
                                        saw |-> {}]]
  /\ UNCHANGED <<objects, fileRowVars, job, upload, erasing, traceVars>>
Goes(r, step) == report' = [report EXCEPT ![r].step = step]
\* ... then linkPublicComplaintFiles finds all of them unused or refuses ...
CheckFiles(r) ==
  /\ report[r].step = "open"
  /\ LET saw == {f \in report[r].files : Unused(f)} IN
     report' = IF saw = report[r].files
               THEN [report EXCEPT ![r].step = "checked", ![r].saw = saw]
               ELSE [report EXCEPT ![r].step = "refused"]
  /\ UNCHANGED <<objects, fileRowVars, job, upload, erasing, traceVars>>
\* ... and updates them by id alone, committed at once on its connection ...
LinkFiles(r) ==
  /\ report[r].step = "checked" /\ Goes(r, "linked")
  /\ LET live == {f \in report[r].files : meta[f] = "live"} IN
     /\ holder' = [f \in Files |-> IF f \in live THEN r ELSE holder[f]]
     /\ contested' = contested \cup {f \in live : holder[f] # Nobody}
  /\ UNCHANGED <<objects, meta, job, upload, erasing, unqueued, abandoned,
                 swept, erased>>
\* ... before the complaint itself is, or is rolled back.
CommitReport(r) == /\ report[r].step = "linked" /\ Goes(r, "filed")
                   /\ UNCHANGED <<objects, fileRowVars, job, upload, erasing, traceVars>>
RollBackReport(r) == /\ report[r].step \in {"open", "checked", "linked"}
                     /\ Goes(r, "refused")
                     /\ UNCHANGED <<objects, fileRowVars, job, upload, erasing,
                                    traceVars>>

\* remove: the row, then the object.
RemoveFile(f) ==
  /\ meta[f] = "live" /\ Cardinality(erased) < MaxErased
  /\ meta' = [meta EXCEPT ![f] = "gone"]
  /\ erasing' = erasing \cup {f} /\ erased' = erased \cup {f}
  /\ UNCHANGED <<objects, holder, job, upload, report, unqueued,
                 abandoned, swept, contested>>
RemoveObject(f) ==
  /\ f \in erasing /\ erasing' = erasing \ {f} /\ DeleteObject(f)
  /\ UNCHANGED <<fileRowVars, upload, report, abandoned, swept, erased, contested>>
RemoveDies(f) ==
  /\ f \in erasing /\ erasing' = erasing \ {f}
  /\ abandoned' = abandoned \cup {f}
  /\ UNCHANGED <<objects, fileRowVars, job, upload, report, unqueued, swept, erased,
                 contested>>

\* The worker deletes the object, or has used its eight attempts.
CleanUp(f) ==
  /\ job[f] = "queued"
  /\ \/ objects' = objects \ {f} /\ job' = [job EXCEPT ![f] = "done"]
     \/ job' = [job EXCEPT ![f] = "failed"] /\ UNCHANGED objects
  /\ UNCHANGED <<fileRowVars, upload, report, erasing, traceVars>>

FilesNext ==
  \/ \E u \in Uploaders :
       \/ UploadPublic(u) \/ UploadByStaff(u) \/ PurgeObject(u) \/ PurgeRow(u)
       \/ PutObject(u) \/ InsertFile(u) \/ UploadFails(u)
  \/ \E r \in Reports :
       \/ CreatePublic(r) \/ CheckFiles(r) \/ LinkFiles(r)
       \/ CommitReport(r) \/ RollBackReport(r)
  \/ \E f \in Files : \/ RemoveFile(f) \/ RemoveObject(f)
                      \/ RemoveDies(f) \/ CleanUp(f)
FilesSpec == FilesInit /\ [][FilesNext]_fileVars
-----------------------------------------------------------------------------
\* Types.
FilesTypeOK ==
  /\ objects \subseteq Files /\ meta \in [Files -> {"none", "live", "gone"}]
  /\ holder \in [Files -> {Nobody, Staff} \cup Reports]
  /\ job \in [Files -> {"none", "queued", "done", "failed"}]
  /\ \A u \in Uploaders : upload[u].stale \subseteq Files
  /\ \A r \in Reports : report[r].saw \subseteq report[r].files

\* A complaint that was filed has the files it was sent with, each with its
\* row and its object.  The code loses one in three cases only: a purge had
\* read it before it was linked, a second complaint with the same file passed
\* its check before the first was linked, or the staff removed it.
AttachmentKept ==
  \A r \in Reports : report[r].step = "filed" =>
    \A f \in report[r].files :
      /\ f \in report[r].saw
      /\ \/ meta[f] = "live" /\ holder[f] = r /\ f \in objects
         \/ f \in swept \cup contested \cup erased

\* The object of a deleted row is deleted, or its cleanup is queued, or the
\* audit log says that it is not: only a death between the two steps of a
\* removal forgets it.
ObjectFollowsRow ==
  \A f \in objects : meta[f] = "gone" =>
    \/ f \in erasing \cup unqueued \cup abandoned
    \/ job[f] \in {"queued", "failed"}
=============================================================================
