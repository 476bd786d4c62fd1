---------------------------- MODULE JobLifecycle ----------------------------
(***************************************************************************)
(* One asynchronous translation job, from POST /jobs to the deletion of    *)
(* its record, with every actor that writes its Redis record or its temp   *)
(* directories: the submitting handler, the background pipeline            *)
(* (_run_translation_job and TranslationService.translate_document), the   *)
(* cancel, download and purge handlers, the grace-period deleters, and the *)
(* startup recovery after a crash of the API process.                      *)
(*                                                                         *)
(* The record is a JSON string under job:<id>.  JobManager changes it with *)
(* repository.get, an assignment to the copy, and repository.update, which *)
(* overwrites the whole string: two Redis calls with an await between      *)
(* them, hence two actions here.  The code between two awaits is one       *)
(* action.  Redis calls succeed, and no record reaches its TTL of days.    *)
(***************************************************************************)
EXTENDS Naturals, FiniteSets

CONSTANTS
    Requests,   \* HTTP requests that reach the job after its submission
    Ops,        \* the operations they may ask for
    Batches,    \* number of translation batches of the document
    TextMay,    \* whether extraction may find text: a subset of BOOLEAN
    Keep,       \* who may keep the job's artifacts: "no" (nobody), the flag of
                \* the "job", the "global" flag of the environment
    MaxCrashes, \* bound on the crashes of the process
    Recovery,   \* whether startup recovery may run: a subset of BOOLEAN
    NoRec       \* the value of a missing record

ASSUME OpsAssumption == Ops \subseteq {"cancel", "download", "purge"}
ASSUME BatchesAssumption == Batches \in Nat
ASSUME TextAssumption == TextMay \subseteq BOOLEAN
ASSUME KeepAssumption == Keep \subseteq {"no", "job", "global"}
ASSUME CrashAssumption == MaxCrashes \in Nat
ASSUME RecoveryAssumption == Recovery \subseteq BOOLEAN

Status == {"PENDING", "RUNNING", "COMPLETED", "FAILED", "CANCELLED"}
Active == {"PENDING", "RUNNING"}

\* main: metadata temp_dir is set (keep_artifacts is recorded with it);
\* work: metadata temp_dirs names the translator's own temp dir.
Record == [status : Status, main : BOOLEAN, work : BOOLEAN]
ASSUME NoRecAssumption == NoRec \notin Record

VARIABLES
    rec,        \* the string under job:<id>, or NoRec
    indexed,    \* the id is a member of the sorted set job:index
    dirs,       \* state of the upload directory and the translator's one
    output,     \* the translated file is in the upload directory
    pipeline,   \* the submitting handler, then the background job
    request,    \* state of each request handler
    timers,     \* number of sleeping _delete_job_after_grace tasks
    due,        \* number of those that woke up and have yet to delete
    crashes,    \* crashes so far
    keep,       \* who keeps the job's artifacts: it does not change
    cleanCancel,  \* history: since the record was last created or deleted, a
                  \* cancel was written with a checkpoint ahead
    queuedCancel  \* history: a cancel was answered while the job was queued

store == <<rec, indexed>>
files == <<dirs, output>>
grace == <<timers, due>>
server == <<crashes, keep>>
history == <<cleanCancel, queuedCancel>>
vars == <<store, files, pipeline, request, grace, server, history>>

-----------------------------------------------------------------------------
(* The stages of the pipeline, in the order of the code. *)

Progress == {"received", "validation", "extraction", "conversion",
             "extracted", "glossary", "batchDone", "saved"}
Starts == {"start1", "start2"}
Fails == {"fail", "invalid", "missing"}
Updates == Progress \cup Starts \cup Fails \cup {"register", "complete", "meta"}
Checks == {"check1", "check2", "batchCheck", "check3"}
Steps == {"file", "open", "validate", "extract", "text", "translate",
          "gapfill", "save", "cleanup"}
Submission == {"new", "created", "recorded", "queued"}
Ends == {"done", "failed", "lost"}
Stages == Submission \cup Updates \cup Checks \cup Steps \cup Ends

\* A bug: the loop runs once more.
NextBatchTooMany == IF pipeline.batch <= Batches THEN {"batchCheck"} ELSE {"gapfill"}

\* The loop over the batches: the next batch, or the gap-fill rounds.
NextBatch == IF pipeline.batch < Batches THEN {"batchCheck"} ELSE {"gapfill"}

\* Where the pipeline goes after an update or a passed check.
After ==
    [start1 |-> {"file"}, start2 |-> {"received"}, received |-> {"open"},
     validation |-> {"validate"}, extraction |-> {"check1"},
     check1 |-> IF dirs.main = "none" THEN {"fail"} ELSE {"conversion", "extract"},
     conversion |-> {"extract"}, register |-> {"text"}, extracted |-> {"check2"},
     check2 |-> {"glossary"} \cup NextBatch, glossary |-> NextBatch,
     batchCheck |-> {"translate"}, batchDone |-> NextBatch,
     check3 |-> {"save"}, saved |-> {"complete"}, complete |-> {"meta"},
     meta |-> {"done"}, missing |-> {"done"}, invalid |-> {"fail"},
     fail |-> {"cleanup"}]

\* From here on a cancelled status is seen by is_cancelled before anything
\* of the pipeline overwrites it.
Checkpointed ==
    {"received", "open", "validation", "validate", "extraction", "check1",
     "conversion", "extract", "register", "text", "extracted", "check2",
     "glossary", "batchCheck", "translate", "batchDone", "gapfill", "check3"}

-----------------------------------------------------------------------------
(* Temp directories: "none", "live", or "retained" with the marker file. *)

\* A bug: the environment flag is not looked at.
RetainedJobOnly(r) == keep = "job" /\ r.main

\* retention_enabled(job).
Retained(r) == keep = "global" \/ (keep = "job" /\ r.main)

CleanDirs(names, retain) ==
    /\ dirs' = [d \in DOMAIN dirs |->
                  IF d \notin names \/ dirs[d] = "none" THEN dirs[d]
                  ELSE IF retain THEN "retained" ELSE "none"]
    /\ output' = (output /\ dirs'.main # "none")

DirsOf(r) == {d \in {"main", "work"} : r[d]}

CleanJobDirs(r, fallback) == CleanDirs(DirsOf(r) \cup fallback, Retained(r))

-----------------------------------------------------------------------------
Init ==
    /\ rec = NoRec
    /\ indexed = FALSE
    /\ dirs = [main |-> "none", work |-> "none"]
    /\ output = FALSE
    /\ pipeline = [pc |-> "new", copy |-> NoRec, batch |-> 0]
    /\ request = [q \in Requests |->
                    [op |-> "none", pc |-> "idle", copy |-> NoRec, wasRunning |-> FALSE]]
    /\ timers = 0
    /\ due = 0
    /\ crashes = 0
    /\ keep \in Keep
    /\ cleanCancel = FALSE
    /\ queuedCancel = FALSE

At(stage) == pipeline.pc = stage
Exists == rec # NoRec
Is(status) == Exists /\ rec.status = status

GoTo(stages) ==
    \E s \in stages :
        pipeline' = [pc |-> s, copy |-> NoRec, batch |-> pipeline.batch]

DeleteRecord == rec' = NoRec /\ indexed' = FALSE /\ cleanCancel' = FALSE

\* A bug: nobody is told to delete the record.
ScheduleDeletionNever == UNCHANGED grace

\* asyncio.create_task(_delete_job_after_grace(job_id)).
ScheduleDeletion == timers' = timers + 1 /\ UNCHANGED due

(* Submission *)

\* The upload is written to a new temp dir and the record is created.
Create ==
    /\ At("new")
    /\ dirs' = [dirs EXCEPT !.main = "live"]
    /\ rec' = [status |-> "PENDING", main |-> FALSE, work |-> FALSE]
    /\ indexed' = TRUE
    /\ GoTo({"created"})
    /\ UNCHANGED <<output, request, grace, server, history>>

\* The handler's own copy, now with the metadata, overwrites the record.
RecordTempDir ==
    /\ At("created")
    /\ rec' = [status |-> "PENDING", main |-> TRUE, work |-> FALSE]
    /\ GoTo({"recorded"})
    /\ UNCHANGED <<indexed, files, request, grace, server, history>>

Enqueue ==
    /\ At("recorded")
    /\ GoTo({"queued"})
    /\ UNCHANGED <<store, files, request, grace, server, history>>

(* The background job *)

\* The queue worker takes the job, which looks for an early cancel.
Dequeue ==
    /\ At("queued")
    /\ IF Is("CANCELLED") THEN GoTo({"done"}) ELSE GoTo({"start1"})
    /\ UNCHANGED <<store, files, request, grace, server, history>>

\* The update does nothing: the record is gone, a progress report finds it in
\* a terminal status, or the translator has no temp dir to register.
SkipsUpdate(stage) ==
    \/ rec = NoRec
    \/ stage \in Progress /\ rec.status \notin Active
    \/ stage = "register" /\ dirs.work = "none"

\* A bug: the metadata is written through the copy start_job returned.
StatusAfterStaleMeta(stage, r) ==
    IF stage \in Starts \cup {"meta"} THEN "RUNNING"
    ELSE IF stage \in Fails THEN "FAILED"
    ELSE IF stage = "complete" THEN "COMPLETED"
    ELSE r.status

StatusAfter(stage, r) ==
    IF stage \in Starts THEN "RUNNING"
    ELSE IF stage \in Fails THEN "FAILED"
    ELSE IF stage = "complete" THEN "COMPLETED"
    ELSE r.status

\* What the update writes, from the copy it read.
Updated(stage, r) ==
    [status |-> StatusAfter(stage, r),
     main |-> r.main \/ stage = "meta",
     work |-> r.work \/ stage = "register"]

\* repository.get of an update.  Only the first start_job stops the job when
\* the record is gone.
ReadRecord ==
    /\ pipeline.pc \in Updates
    /\ pipeline.copy = NoRec
    /\ IF SkipsUpdate(pipeline.pc)
       THEN GoTo(IF At("start1") THEN {"done"} ELSE After[pipeline.pc])
       ELSE pipeline' = [pipeline EXCEPT !.copy = rec]
    /\ UNCHANGED <<store, files, request, grace, server, history>>

\* repository.update: the copy overwrites the record; the index is not touched.
WriteRecord ==
    /\ pipeline.pc \in Updates
    /\ pipeline.copy # NoRec
    /\ rec' = Updated(pipeline.pc, pipeline.copy)
    /\ GoTo(After[pipeline.pc])
    /\ UNCHANGED <<indexed, files, request, grace, server, history>>

\* A bug: a checkpoint never looks at the status.
SeesCancelNever == FALSE

\* JobManager.is_cancelled.
SeesCancel == Is("CANCELLED")

Check ==
    /\ pipeline.pc \in Checks
    /\ \/ SeesCancel /\ GoTo({"cleanup"})
       \/ ~SeesCancel
          /\ \E s \in After[pipeline.pc] :
                pipeline' = [pc |-> s, copy |-> NoRec,
                             batch |-> IF At("batchCheck") THEN pipeline.batch + 1
                                       ELSE pipeline.batch]
    /\ UNCHANGED <<store, files, request, grace, server, history>>

\* The input file is looked for before the work and again by the service.
FindFile ==
    /\ At("file")
    /\ GoTo({IF dirs.main = "none" THEN "missing" ELSE "start2"})
    /\ UNCHANGED <<store, files, request, grace, server, history>>

Open ==
    /\ At("open")
    /\ GoTo({IF dirs.main = "none" THEN "fail" ELSE "validation"})
    /\ UNCHANGED <<store, files, request, grace, server, history>>

\* The validators pass, reject the file, or one of the calls around them (the
\* language codes, the choice of a translator) raises.
Validate ==
    /\ At("validate")
    /\ GoTo({"extraction", "invalid", "fail"})
    /\ UNCHANGED <<store, files, request, grace, server, history>>

\* The translator makes its temp dir (DXF has none); when extraction raises,
\* XLSX and PDF leave it behind and DOCX removes it.
Extract ==
    /\ At("extract")
    /\ GoTo({"register", "fail"})
    /\ \E d \in {"none", "live"} : dirs' = [dirs EXCEPT !.work = d]
    /\ UNCHANGED <<store, output, request, grace, server, history>>

\* Without text the service reports success on the spot.
InspectText ==
    /\ At("text")
    /\ \E hasText \in TextMay : GoTo({IF hasText THEN "extracted" ELSE "meta"})
    /\ UNCHANGED <<store, files, request, grace, server, history>>

\* The provider answers, gives the batch up (TranslationError: the batch keeps
\* its original text), or the model is unavailable.
TranslateBatch ==
    /\ At("translate")
    /\ GoTo({"batchDone", "fail"} \cup NextBatch)
    /\ UNCHANGED <<store, files, request, grace, server, history>>

\* Retry rounds for missing units; seeing a cancel only ends them early.
GapFill ==
    /\ At("gapfill")
    /\ GoTo({"check3", "fail"})
    /\ UNCHANGED <<store, files, request, grace, server, history>>

\* Translations are applied and the document is saved next to the input, then
\* the integrity gate passes or fails the job.  DOCX, PDF and XLSX remove
\* their temp dir on the way out.
Save ==
    /\ At("save")
    /\ GoTo({"fail"} \cup IF dirs.main = "none" THEN {} ELSE {"saved"})
    /\ \E d \in {dirs.work, "none"} : dirs' = [dirs EXCEPT !.work = d]
    /\ output' \in {output, dirs.main # "none"}
    /\ (pipeline'.pc = "saved" => output')
    /\ UNCHANGED <<store, request, grace, server, history>>

\* A bug: without a record nothing is removed.
CleanRunDirsOfRecord == IF Exists THEN CleanJobDirs(rec, {}) ELSE UNCHANGED files

\* The directories of the record; the upload directory if there is no record,
\* and then the flag of the job is not known either.
CleanRunDirs ==
    IF Exists THEN CleanJobDirs(rec, {}) ELSE CleanDirs({"main"}, keep = "global")

\* A failed or cancelled run.
CleanUp ==
    /\ At("cleanup")
    /\ CleanRunDirs
    /\ ScheduleDeletion
    /\ GoTo({"failed"})
    /\ UNCHANGED <<store, request, server, history>>

-----------------------------------------------------------------------------
(* Request handlers *)

Begin(q, op, pc) ==
    request' = [request EXCEPT ![q] =
        [op |-> op, pc |-> pc, copy |-> rec,
         wasRunning |-> Is("RUNNING")]]

Continue(q, pc, copy) ==
    request' = [request EXCEPT ![q] =
        [op |-> @.op, pc |-> pc, copy |-> copy, wasRunning |-> @.wasRunning]]

Finish(q) == Continue(q, "done", NoRec)

Arrives(q, op) == request[q].pc = "idle" /\ op \in Ops /\ ~At("new")

\* POST /job/{id}/cancel: the first look at the record.
Cancel(q) ==
    /\ Arrives(q, "cancel")
    /\ Begin(q, "cancel", IF rec = NoRec THEN "done" ELSE "read")
    /\ UNCHANGED <<store, files, pipeline, grace, server, history>>

\* JobManager.cancel_job reads: only a running job can be cancelled.
CancelRead(q) ==
    LET next == IF request[q].op = "cancel" THEN "finish" ELSE "done" IN
    /\ request[q].pc = "read"
    /\ IF rec = NoRec THEN Finish(q)
       ELSE IF Is("RUNNING") THEN Continue(q, "write", rec)
       ELSE Continue(q, next, rec)
    /\ UNCHANGED <<store, files, pipeline, grace, server, history>>

\* ... and overwrites the record with its copy.
CancelWrite(q) ==
    LET cancelled == [request[q].copy EXCEPT !.status = "CANCELLED"]
        next == IF request[q].op = "cancel" THEN "finish" ELSE "done"
    IN  /\ request[q].pc = "write"
        /\ rec' = cancelled
        /\ Continue(q, next, cancelled)
        /\ cleanCancel' = (cleanCancel \/ (pipeline.pc \in Checkpointed /\ pipeline.copy = NoRec))
        /\ UNCHANGED <<indexed, files, pipeline, grace, server, queuedCancel>>

\* Only the status seen by the first look decides.
SparesRunning(q) == request[q].wasRunning

\* The rest of the handler: queue tracking, temp dirs, the deferred deletion.
CancelFinish(q) ==
    /\ request[q].pc = "finish"
    /\ IF SparesRunning(q) THEN UNCHANGED files ELSE CleanJobDirs(request[q].copy, {})
    /\ ScheduleDeletion
    /\ queuedCancel' = (queuedCancel \/ At("queued"))
    /\ Finish(q)
    /\ UNCHANGED <<store, pipeline, server, cleanCancel>>

\* A bug: the record of a result that was sent stays.
AfterDownloadNothing == UNCHANGED grace

AfterDownload == IF output THEN ScheduleDeletion ELSE UNCHANGED grace

\* GET /job/{id}/download: the file is sent and, when sent, its dirs go; a
\* completed record without a file is dropped.
Download(q) ==
    /\ Arrives(q, "download")
    /\ \/ /\ ~Is("COMPLETED")
          /\ Begin(q, "download", "done")
          /\ UNCHANGED grace
       \/ /\ Is("COMPLETED")
          /\ Begin(q, "download", IF output THEN "sending" ELSE "delete")
          /\ AfterDownload
    /\ UNCHANGED <<store, files, pipeline, server, history>>

DownloadSent(q) ==
    /\ request[q].pc = "sending"
    /\ CleanJobDirs(request[q].copy, {"main"})
    /\ Finish(q)
    /\ UNCHANGED <<store, pipeline, grace, server, history>>

\* POST /internal/users/{id}/jobs/purge: the job as the index lists it.
Purge(q) ==
    /\ Arrives(q, "purge")
    /\ Begin(q, "purge", IF ~Exists \/ ~indexed THEN "done"
                         ELSE IF Is("RUNNING") THEN "read" ELSE "drop")
    /\ UNCHANGED <<store, files, pipeline, grace, server, history>>

\* A job that was not running when it was listed: its dirs, then its record.
PurgeDirs(q) ==
    /\ request[q].pc = "drop"
    /\ CleanJobDirs(request[q].copy, {})
    /\ Continue(q, "delete", NoRec)
    /\ UNCHANGED <<store, pipeline, grace, server, history>>

DropRecord(q) ==
    /\ request[q].pc = "delete"
    /\ DeleteRecord
    /\ Finish(q)
    /\ UNCHANGED <<files, pipeline, grace, server, queuedCancel>>

-----------------------------------------------------------------------------
(* Deletion after the grace period, crash and restart *)

\* The sleep of 60 s outlasts the two Redis calls of any update, and the
\* submission, that was under way when it began.
OutlastsCalls ==
    /\ pipeline.copy = NoRec
    /\ pipeline.pc \notin {"created", "recorded"}
    /\ \A q \in Requests : request[q].pc # "write"

GraceOver ==
    /\ timers > 0
    /\ OutlastsCalls
    /\ timers' = timers - 1
    /\ due' = due + 1
    /\ UNCHANGED <<store, files, pipeline, request, server, history>>

\* The record goes, whatever its status and whoever has just read it.
DeleteAfterGrace ==
    /\ due > 0
    /\ due' = due - 1
    /\ DeleteRecord
    /\ UNCHANGED <<files, pipeline, request, timers, server, queuedCancel>>

\* A bug: recovery fails the running jobs only.
OrphanedRunningOnly == Is("RUNNING")

Orphaned == Exists /\ rec.status \in Active

\* The process dies with the queue, every task and every request in flight;
\* at startup, before the first request, the listed orphans are failed --
\* unless MongoDB is down or 100 newer jobs hide them.
Crash ==
    /\ crashes < MaxCrashes
    /\ ~At("new")
    /\ crashes' = crashes + 1
    /\ timers' = 0
    /\ due' = 0
    /\ GoTo({"lost"})
    /\ request' = [q \in Requests |->
                     IF request[q].pc = "idle" THEN request[q]
                     ELSE [op |-> request[q].op, pc |-> "done", copy |-> NoRec,
                           wasRunning |-> request[q].wasRunning]]
    /\ \E recovers \in Recovery :
          rec' = IF recovers /\ indexed /\ Orphaned
                 THEN [rec EXCEPT !.status = "FAILED"] ELSE rec
    /\ UNCHANGED <<indexed, files, keep, history>>

-----------------------------------------------------------------------------
Submit == Create \/ RecordTempDir \/ Enqueue

Run ==
    \/ Dequeue \/ ReadRecord \/ WriteRecord \/ Check
    \/ FindFile \/ Open \/ Validate \/ Extract \/ InspectText
    \/ TranslateBatch \/ GapFill \/ Save \/ CleanUp

\* A handler that was called goes on.
Handle(q) ==
    \/ CancelRead(q) \/ CancelWrite(q) \/ CancelFinish(q)
    \/ DownloadSent(q) \/ PurgeDirs(q) \/ DropRecord(q)

Ask(q) == Cancel(q) \/ Download(q) \/ Purge(q)

Next ==
    \/ Submit
    \/ Run
    \/ \E q \in Requests : Ask(q) \/ Handle(q)
    \/ GraceOver \/ DeleteAfterGrace
    \/ Crash

\* The event loop runs what has begun, every call of the pipeline has a
\* timeout, and sleeping tasks wake up.  Requests and crashes may not come.
Fairness ==
    /\ WF_vars(RecordTempDir \/ Enqueue)
    /\ WF_vars(Run)
    /\ \A q \in Requests : WF_vars(Handle(q))
    /\ WF_vars(GraceOver)
    /\ WF_vars(DeleteAfterGrace)

Spec == Init /\ [][Next]_vars /\ Fairness

-----------------------------------------------------------------------------
TypeOK ==
    /\ rec \in Record \cup {NoRec}
    /\ indexed \in BOOLEAN
    /\ dirs \in [{"main", "work"} -> {"none", "live", "retained"}]
    /\ output \in BOOLEAN
    /\ pipeline \in [pc : Stages, copy : Record \cup {NoRec}, batch : 0..Batches]
    /\ request \in [Requests ->
            [op : Ops \cup {"none"},
             pc : {"idle", "read", "write", "finish", "sending", "drop", "delete", "done"},
             copy : Record \cup {NoRec}, wasRunning : BOOLEAN]]
    /\ timers \in Nat
    /\ due \in Nat
    /\ crashes \in 0..MaxCrashes
    /\ keep \in Keep
    /\ cleanCancel \in BOOLEAN
    /\ queuedCancel \in BOOLEAN

\* A cancel written while no update of the pipeline is in flight and with a
\* checkpoint still ahead is respected: whatever other requests and updates
\* follow, the job neither runs on nor completes (job_manager.py:164-165).
CleanCancelHonoured ==
    cleanCancel => Is("CANCELLED") \/ Is("FAILED") \/ ~Exists

\* A job that completed or failed never runs again, no job goes back to the
\* queue, and nothing completes a job that has failed -- although every update
\* of job_manager.py overwrites the record with an older copy.  A cancelled job
\* is not among them: an update may well set it running again (CancelIsFinal).
StatusMovesForward ==
    [][Exists /\ Exists' =>
        /\ rec.status \in {"COMPLETED", "FAILED"} => rec'.status \notin Active
        /\ rec.status # "PENDING" => rec'.status # "PENDING"
        /\ rec.status = "FAILED" => rec'.status # "COMPLETED"]_vars

\* As long as no crash loses the deleter, a listed completed job whose file is
\* gone has a deletion of its record on the way (app.py:1671-1673, "the job
\* must exist nowhere afterwards").  An update that raced a deletion may have
\* brought a record back that is not listed.
NoGhostResult ==
    crashes = 0 /\ indexed /\ Is("COMPLETED") /\ ~output =>
        timers + due > 0 \/ \E q \in Requests : request[q].pc \in {"sending", "drop", "delete"}

\* A failed or cancelled run leaves no upload directory behind, however the
\* record changed under it: it is removed, or marked for the purge where
\* somebody keeps the artifacts of the job (README.md:17).
FailedRunReclaims ==
    At("failed") => dirs.main = "none" \/ (dirs.main = "retained" /\ keep # "no")

\* With the global flag no request, failure or crash loses the upload of a
\* job, whatever became of its record ("retains the job's temp dirs",
\* app.py:699-702).
UploadKept == keep = "global" /\ ~At("new") => dirs.main # "none"

\* Every job reaches a terminal status or disappears, also across a crash with
\* startup recovery: only a record missing from the index, brought back by an
\* update that raced its deletion, is out of recovery's sight.
EveryJobEnds ==
    Exists ~> ~Exists \/ rec.status \notin Active \/ (crashes > 0 /\ ~indexed)

\* Unless a crash loses the deleter, every cancel that found the job ends in
\* the deletion of the record, also when the pipeline overwrote the status
\* (app.py:1635-1636), and a failed job disappears by itself after the grace
\* period, or is not listed any more.
EndedJobsVanish ==
    /\ \A q \in Requests : request[q].pc = "finish" ~> ~Exists \/ crashes > 0
    /\ Is("FAILED") ~> ~Exists \/ crashes > 0 \/ ~indexed

(* What the code and its documentation say and a run refutes. *)

\* "The cancellation is respected at the next safe checkpoint during
\* processing" (job_manager.py:164-165): once cancelled, a job is not
\* running, completed or failed afterwards.
CancelIsFinal ==
    [][Is("CANCELLED") /\ Exists' => rec'.status \notin {"RUNNING", "COMPLETED"}]_vars

\* "Cancel a pending/running job" (README.md:155): a job whose cancel was
\* answered while it waited in the queue is not processed.
QueuedCancelStops == queuedCancel => ~Is("RUNNING") /\ ~Is("COMPLETED")

=============================================================================
