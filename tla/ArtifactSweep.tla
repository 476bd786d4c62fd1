--------------------------- MODULE ArtifactSweep ---------------------------
(***************************************************************************)
(* The periodic cleanup (app.py, _cleanup_orphaned_temp_dirs) and the      *)
(* debug retention (diagnostics/retention.py): what becomes of the temp    *)
(* directories of jobs and of their records in Redis when nobody fetches   *)
(* the result, when artifacts are to be kept, and when Redis fails while   *)
(* the sweep looks for the directories that are in use.                    *)
(*                                                                         *)
(* The jobs themselves are reduced to what the sweep sees of them: records *)
(* that are active or terminal and have a life, and directories with ages. *)
(* JobLifecycle has their details.  Time is counted in ticks.              *)
(***************************************************************************)
EXTENDS Integers, FiniteSets

CONSTANTS SweepJobs,     \* jobs
          XlsxJobs,      \* those that translate an XLSX or XLS
          JobTTL,        \* JOB_TTL_SECONDS, in ticks
          KeepTTL,       \* life of the record of a job that keeps its artifacts
          RetainAge,     \* DEBUG_KEEP_ARTIFACTS_MAX_AGE_SECONDS, in ticks
          RetainCap,     \* DEBUG_KEEP_ARTIFACTS_MAX_DIRS
          ListLimit,     \* newest jobs that get_recent_jobs returns
          LastTick       \* bound of the clock

ASSUME SweepAssumption ==
    /\ IsFiniteSet(SweepJobs) /\ XlsxJobs \subseteq SweepJobs
    /\ JobTTL \in Nat /\ KeepTTL \in Nat /\ RetainAge \in Nat
    /\ RetainCap \in Nat \ {0} /\ ListLimit \in Nat \ {0} /\ LastTick \in Nat

VARIABLES swJob,      \* [job -> its record: state, birth, last write, keep flag]
          swDir,      \* [directory -> its state, mtime, and the tick it was marked]
          swAt,       \* where the sweep is
          swCutoff,   \* cutoff_ts of this sweep
          swProtected,\* protected_dirs of this sweep
          swBlind,    \* whether a listing of this sweep failed
          swDoomed,   \* jobs that this sweep is about to delete from Redis
          swClock

swSweep == <<swAt, swCutoff, swProtected, swBlind, swDoomed>>
swVars == <<swJob, swDir, swAt, swCutoff, swProtected, swBlind, swDoomed, swClock>>

\* The upload's directory (temp_dir) and the translator's (temp_dirs).
Parts == {"main", "work"}
Dirs == SweepJobs \X Parts
DirsOfJob(j) == {j} \X Parts
Ticks == 0..LastTick

NoDir == [state |-> "gone", mtime |-> 0, marked |-> 0]
Fresh == [state |-> "plain", mtime |-> swClock, marked |-> 0]
NoRecord(state) == [state |-> state, born |-> 0, written |-> 0, keep |-> FALSE]

\* _TEMP_PREFIXES: the scan and the purge know directories by the first part of
\* their names.  The one an XLSX translator makes (xlsx_*) is not among them.
Seen(d) == d[1] \notin XlsxJobs \/ d[2] = "main"

\* collect_retained_dirs: those with a marker, also when a removal has failed.
RetainedDirs == {d \in Dirs : Seen(d) /\ swDir[d].state \in {"marked", "stuck"}}
Recorded == {j \in SweepJobs : swJob[j].state \in {"active", "terminal"}}

\* The index jobs:by_time: Redis drops a record but not its entry.
Indexed == Recorded \cup {j \in SweepJobs : swJob[j].state = "expired"}

\* list_recent: the newest entries of the index, those of expired records among
\* them.  Jobs created in one tick are ordered somehow.
Newest(chosen) ==
    /\ chosen \subseteq Indexed
    /\ Cardinality(chosen) = IF Cardinality(Indexed) < ListLimit THEN Cardinality(Indexed)
                             ELSE ListLimit
    /\ \A j \in chosen, k \in Indexed \ chosen : swJob[j].born >= swJob[k].born

\* It skips the expired ones it meets and takes them out of the index.
Pruned(seen) == [j \in SweepJobs |-> IF j \in seen \ Recorded THEN NoRecord("deleted")
                                     ELSE swJob[j]]

SweepInit ==
    /\ swJob = [j \in SweepJobs |-> NoRecord("none")]
    /\ swDir = [d \in Dirs |-> NoDir]
    /\ swAt = "asleep" /\ swCutoff = -JobTTL /\ swProtected = {} /\ swBlind = FALSE /\ swDoomed = {}
    /\ swClock = 0

(* ---- the jobs ---- *)

MakeDir(d) == [swDir EXCEPT ![d] = Fresh]

\* A job is submitted; its record names the upload's directory and whether the
\* artifacts are to be kept.
SubmitJob(j, keep) ==
    /\ swJob[j].state = "none"
    /\ swJob' = [swJob EXCEPT ![j] = [state |-> "active", born |-> swClock,
                                      written |-> swClock, keep |-> keep]]
    /\ swDir' = MakeDir(<<j, "main">>)
    /\ UNCHANGED <<swSweep, swClock>>

\* The translator makes its directory and registers it, which like every
\* progress report renews the life of the record.
WorkOn(j) ==
    /\ swJob[j].state = "active"
    /\ swJob' = [swJob EXCEPT ![j].written = swClock]
    /\ swDir' = IF swDir[<<j, "work">>].state = "gone" THEN MakeDir(<<j, "work">>) ELSE swDir
    /\ UNCHANGED <<swSweep, swClock>>

\* The job ends; its output is in the upload's directory.
FinishJob(j) ==
    /\ swJob[j].state = "active"
    /\ swJob' = [swJob EXCEPT ![j] = [state |-> "terminal", born |-> swJob[j].born,
                                      written |-> swClock, keep |-> swJob[j].keep]]
    /\ swDir' = [swDir EXCEPT ![<<j, "main">>].mtime = swClock]
    /\ UNCHANGED <<swSweep, swClock>>

\* _cleanup_temp_dir: the directories of a fetched or failed job go, or are
\* marked when they are to be kept; one that can be neither removed nor marked is
\* logged and stays.  Then the record goes.
CleanupTempDirs(j) ==
    /\ swJob[j].state = "terminal"
    /\ \E failed \in SUBSET DirsOfJob(j) : swDir' = [d \in Dirs |->
          IF d \notin DirsOfJob(j) \ failed \/ swDir[d].state = "gone" THEN swDir[d]
          ELSE IF swJob[j].keep
          THEN [state |-> "marked", mtime |-> swDir[d].mtime, marked |-> swClock]
          ELSE NoDir]
    /\ swJob' = [swJob EXCEPT ![j] = NoRecord("deleted")]
    /\ UNCHANGED <<swSweep, swClock>>

\* Redis drops a record at the end of its life; the process may die with it,
\* and its directories stay.
RecordExpires(j) ==
    /\ j \in Recorded
    /\ swClock - swJob[j].written >= (IF swJob[j].keep THEN KeepTTL ELSE JobTTL)
    /\ swJob' = [swJob EXCEPT ![j].state = "expired"]
    /\ UNCHANGED <<swDir, swSweep, swClock>>

(* ---- the sweep ---- *)

\* The sweep sleeps for an interval first.
WakeUp ==
    /\ swAt = "asleep" /\ swCutoff # swClock - JobTTL
    /\ swAt' = "recent" /\ swCutoff' = swClock - JobTTL
    /\ UNCHANGED <<swJob, swDir, swProtected, swBlind, swDoomed, swClock>>

DirsOfJobs(jobs) == {d \in Dirs : d[1] \in jobs}

\* get_recent_jobs, then get_active_jobs; a failure of either leaves the set of
\* protected directories empty, since it is filled after both.
ListRecent ==
    /\ swAt = "recent"
    /\ \/ /\ \E jobs \in SUBSET SweepJobs :
                /\ Newest(jobs)
                /\ swProtected' = DirsOfJobs(jobs \cap Recorded) /\ swJob' = Pruned(jobs)
          /\ swAt' = "active" /\ UNCHANGED swBlind
       \/ swProtected' = {} /\ swBlind' = TRUE /\ swAt' = "scan" /\ UNCHANGED swJob
    /\ UNCHANGED <<swDir, swCutoff, swDoomed, swClock>>
ListActive ==
    /\ swAt = "active" /\ swAt' = "scan"
    /\ \/ /\ swProtected' = swProtected \cup
                 DirsOfJobs({j \in SweepJobs : swJob[j].state = "active"})
          /\ UNCHANGED swBlind
       \/ swProtected' = {} /\ swBlind' = TRUE
    /\ UNCHANGED <<swJob, swDir, swCutoff, swDoomed, swClock>>

\* The scan: unprotected, unmarked directories older than the cutoff.
\* Mutant: the scan goes by age alone.
SweptByAge(d) == Seen(d) /\ swDir[d].state = "plain" /\ swDir[d].mtime < swCutoff
Swept(d) == /\ Seen(d) /\ d \notin swProtected /\ swDir[d].state = "plain"
            /\ swDir[d].mtime < swCutoff

\* purge_debug_artifacts: first by age, then the oldest beyond the cap.
TooOld(d) == swClock - swDir[d].marked > RetainAge
\* Mutant: sorted the wrong way round, the newest are removed.
SurplusNewest(dirs, chosen) ==
    /\ chosen \subseteq dirs
    /\ Cardinality(dirs \ chosen) = IF Cardinality(dirs) > RetainCap THEN RetainCap
                                    ELSE Cardinality(dirs)
    /\ \A d \in chosen, e \in dirs \ chosen : swDir[d].marked >= swDir[e].marked
Surplus(dirs, chosen) ==
    /\ chosen \subseteq dirs
    /\ Cardinality(dirs \ chosen) = IF Cardinality(dirs) > RetainCap THEN RetainCap
                                    ELSE Cardinality(dirs)
    /\ \A d \in chosen, e \in dirs \ chosen : swDir[d].marked <= swDir[e].marked

\* What a failed removal leaves: the directory as it was, or, when it broke off
\* behind some files, with a new mtime and perhaps without its marker.
Leftover(d, broken) ==
    IF d \in broken THEN Fresh
    ELSE IF swDir[d].state = "plain" THEN swDir[d] ELSE [swDir[d] EXCEPT !.state = "stuck"]

\* The scan and the purge await nothing: one step.  A removal that fails is only
\* logged (_cleanup_temp_dir, _rm_retained_dir).
ScanAndPurge ==
    /\ swAt = "scan" /\ swAt' = "records"
    /\ LET aged == {d \in RetainedDirs : TooOld(d)}
           orphans == {d \in Dirs : Swept(d)}
       IN  \E surplus \in SUBSET (RetainedDirs \ aged) :
              /\ Surplus(RetainedDirs \ aged, surplus)
              /\ \E failed \in SUBSET (orphans \cup aged \cup surplus) : \E broken \in SUBSET failed :
                    swDir' = [d \in Dirs |->
                        IF d \in failed THEN Leftover(d, broken)
                        ELSE IF d \in orphans \cup aged \cup surplus THEN NoDir ELSE swDir[d]]
    /\ swProtected' = {} /\ swBlind' = FALSE
    /\ UNCHANGED <<swJob, swCutoff, swDoomed, swClock>>

\* The safety net: terminal records that ended longer ago than their life, but
\* not those of jobs that keep their artifacts.
ListStale ==
    /\ swAt = "records" /\ swAt' = "deleting"
    /\ \/ \E jobs \in SUBSET SweepJobs :
             /\ Newest(jobs)
             /\ swDoomed' = {j \in jobs : /\ swJob[j].state = "terminal" /\ ~swJob[j].keep
                                          /\ swJob[j].written < swCutoff}
             /\ swJob' = Pruned(jobs)
       \/ UNCHANGED <<swDoomed, swJob>>          \* the listing fails
    /\ UNCHANGED <<swDir, swCutoff, swProtected, swBlind, swClock>>
DeleteStale ==
    /\ swAt = "deleting"
    /\ IF swDoomed = {} THEN swAt' = "asleep" /\ UNCHANGED <<swDoomed, swJob>>
       ELSE \E j \in swDoomed :
              /\ swDoomed' = swDoomed \ {j}
              /\ swJob' = IF j \in Recorded THEN [swJob EXCEPT ![j] = NoRecord("deleted")] ELSE swJob
              /\ UNCHANGED swAt
    /\ UNCHANGED <<swDir, swCutoff, swProtected, swBlind, swClock>>

Sweeping == WakeUp \/ ListRecent \/ ListActive \/ ScanAndPurge \/ ListStale \/ DeleteStale

\* A sweep takes less than a tick.
SweepTick ==
    /\ swClock < LastTick /\ swAt = "asleep"
    /\ swClock' = swClock + 1
    /\ UNCHANGED <<swJob, swDir, swSweep>>

SweepNext ==
    \/ \E j \in SweepJobs : \/ \E keep \in BOOLEAN : SubmitJob(j, keep)
                            \/ WorkOn(j) \/ FinishJob(j) \/ CleanupTempDirs(j) \/ RecordExpires(j)
    \/ Sweeping \/ SweepTick

SweepSpec == SweepInit /\ [][SweepNext]_swVars

(* ---- properties ---- *)

\* The types of the records, the directories and the sweep.
SweepTypeOK ==
    /\ swJob \in [SweepJobs -> [state : {"none", "active", "terminal", "expired", "deleted"}, born : Ticks,
                                written : Ticks, keep : BOOLEAN]]
    /\ swDir \in [Dirs -> [state : {"gone", "plain", "marked", "stuck"}, mtime : Ticks, marked : Ticks]]
    /\ swAt \in {"asleep", "recent", "active", "scan", "records", "deleting"}
    /\ swProtected \subseteq Dirs /\ swDoomed \subseteq SweepJobs /\ swClock \in Ticks

\* A directory that the scan removes belongs to no record, unless a listing
\* failed, or the job has ended and is not among the newest that are listed.
DirsSpared ==
    swAt = "scan" /\ swAt' = "records" => \A d \in Dirs :
        swDir[d].state = "plain" /\ swDir'[d].state = "gone" =>
            \/ d[1] \notin Recorded \/ swBlind
            \/ /\ swJob[d[1]].state = "terminal"
               /\ Cardinality({j \in SweepJobs : swJob[j].state # "none"}) > ListLimit

\* No record is deleted while its job runs, or while its artifacts are to be kept,
\* or before a result that nobody fetched has been there for its whole life.
RecordsSpared ==
    swAt = "deleting" /\ swDoomed' # swDoomed => \A j \in Recorded :
        swJob'[j].state = "deleted" => /\ swJob[j].state = "terminal" /\ ~swJob[j].keep
                                       /\ swClock - swJob[j].written > JobTTL

\* "Any dir belonging to an existing job record is protected": the cleanup takes
\* neither a directory nor a record that somebody may still need.
SweepSparesTheLiving == [][DirsSpared /\ RecordsSpared]_swVars

\* Of the marked directories that the purge sees, those it leaves, but for the
\* ones whose removal failed, are no more than the cap and none is over its age;
\* and one that it removes within its age has as many left beside it as the cap
\* allows, none of the former marked before it.
PurgeBounded ==
    swAt = "scan" /\ swAt' = "records" =>
        LET left == {d \in RetainedDirs : swDir'[d].state \in {"marked", "stuck"}}
            kept == {d \in left : swDir'[d].state = "marked"}
        IN  /\ Cardinality(kept) <= RetainCap
            /\ \A d \in kept : swClock - swDir[d].marked <= RetainAge
            /\ \A d \in RetainedDirs : swDir'[d].state = "gone" =>
                 swClock - swDir[d].marked > RetainAge \/
                 (/\ Cardinality(left) >= RetainCap
                  /\ \A e \in kept : swDir[d].marked <= swDir[e].marked)

\* "Keep at most N retained dirs", none of them over its age, and of those the
\* latest (retention.py), as far as the purge sees them and can remove them.
RetentionIsBounded == [][PurgeBounded]_swVars
=============================================================================
