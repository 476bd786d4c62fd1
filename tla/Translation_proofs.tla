-------------------------- MODULE Translation_proofs --------------------------
(***************************************************************************)
(* Proofs about the translation of one document: the files of its          *)
(* translators (TranslatorFiles), the sweep that takes them and the        *)
(* retained ones (ArtifactSweep), for any finite set of jobs and any       *)
(* lives, ages, caps and limits, and the batches of its units with the     *)
(* provider's recursion on each (TranslationBatch); then about the parts   *)
(* of a document's way together (MCDocuments).                             *)
(***************************************************************************)
EXTENDS MCDocuments, DocumentConversion_proofs, DocumentText_proofs

(* ---- the files ---- *)

\* What went wrong in a way that no cleanup of the run can make up for, and the
\* directories of a translator that forgot them when it failed.
Excused == tfMishaps \cap {"crash", "expired", "unregistered"} # {}
Forgotten(d) == "extract" \in tfMishaps /\ d \in {"xlsx", "pdf", "oda"}
KnownDir(d) == d \in tfNamed \/ Excused \/ Forgotten(d)

\* What a stage says of the document and the record.
StageInv ==
    /\ tfAt = "office" => NeedsOffice
    /\ tfAt = "convert" => tfKind \in {"pdf", "dwg"}
    /\ tfAt \in {"xliff", "merging", "copying", "postprocess"} => IsDocx
    /\ tfAt = "rewriting" => IsXlsx
    /\ tfAt = "died" => "crash" \in tfMishaps
    /\ tfAt = "over" => ~tfRecord
    /\ tfRecord \/ tfAt = "over" \/ "expired" \in tfMishaps
    /\ tfAt # "over" => tfMarked = {}
    /\ "upload" \in tfNamed

\* The directories there may be before the job hears of them.
EarlyDirs(at) ==
    {"upload"} \cup (IF at = "submitted" THEN {} ELSE FirstDir)
               \cup (IF at = "office" THEN {"profile"} ELSE {})
               \cup (IF at \in {"read", "xliff"} /\ IsDocx THEN {"okapi"} ELSE {})

EarlyStages == {"submitted", "office", "convert", "read", "xliff"}
KnownStages == {"registered", "applying", "translated", "postprocess", "rewriting", "writing",
                "saved", "completed", "empty", "failed"}

\* Every directory is one the cleanup finds, but for a LibreOffice at work; once
\* the job was told, every directory but that of a merge is known to its record
\* or has a reason not to be; and what is left at the end has one.
DirsInv ==
    /\ \A d \in tfDirs : \/ d \in SweptDirs \/ (IsXlsx /\ d = "xlsx")
                         \/ d = "profile" /\ (tfAt = "office" \/ "crash" \in tfMishaps)
    /\ tfAt \in EarlyStages => tfDirs \subseteq EarlyDirs(tfAt)
    /\ tfAt \in KnownStages => \A d \in tfDirs : KnownDir(d)
    /\ tfAt \in {"merging", "copying"} => \A d \in tfDirs \ MergeDir : KnownDir(d)
    /\ tfAt = "over" => \A d \in tfDirs : LeftFor(d)

\* The output of a save that succeeded.
WholeInv ==
    /\ tfAt = "postprocess" => tfOutput = "translated"
    /\ "unset" \in tfMishaps => IsCad
    /\ tfAt \in {"saved", "completed"} =>
          \/ tfOutput = "translated" /\ "unset" \notin tfMishaps
          \/ tfOutput = "partly" /\ "unset" \in tfMishaps
          \/ tfOutput = "torn" /\ tfKind = "dwg" /\ tfLocal

FilesInv == FilesTypeOK /\ StageInv /\ DirsInv /\ WholeInv

\* The invariant holds of a new job, and gives the two properties.
LEMMA FilesStart == FilesInit => FilesInv
BY KindsAssumption
   DEF FilesInit, FilesInv, FilesTypeOK, StageInv, DirsInv, WholeInv, WorkDirs, SweptDirs,
       EarlyDirs, EarlyStages, KnownStages, NeedsOffice, IsDocx, IsXlsx, MergeDir

LEMMA FilesInvImplies == FilesInv => OutputIsWhole /\ DirsReclaimed
<1> SUFFICES ASSUME FilesInv PROVE OutputIsWhole /\ DirsReclaimed
  OBVIOUS
<1>1. OutputIsWhole
  BY DEF FilesInv, WholeInv, OutputIsWhole
<1>2. ASSUME ~Running, ~tfRecord, NEW d \in tfDirs
      PROVE  /\ LeftFor(d)
             /\ d \in SweptDirs \/ (IsXlsx /\ d = "xlsx") \/ (d = "profile" /\ "crash" \in tfMishaps)
  <2>1. tfAt \in {"over", "completed", "empty", "died"}
    BY <1>2 DEF Running
  <2>2. tfAt = "over" \/ "expired" \in tfMishaps
    BY <1>2 DEF FilesInv, StageInv
  <2>3. LeftFor(d)
    BY <1>2, <2>2 DEF FilesInv, DirsInv, LeftFor
  <2> QED
    BY <1>2, <2>1, <2>3 DEF FilesInv, DirsInv
<1> QED
  BY <1>1, <1>2 DEF DirsReclaimed

\* The types after a step that adds no directory, name or mark.
LEMMA FilesTypeStays ==
    ASSUME FilesTypeOK, UNCHANGED <<tfKind, tfKeep, tfLocal, tfNamed, tfOutput>>,
           tfAt' \in {tfAt, "over"}, tfDirs' \subseteq tfDirs, tfMarked' \subseteq tfDirs',
           tfRecord' \in {tfRecord, FALSE}, tfMishaps' \subseteq tfMishaps \cup {"expired"}
    PROVE  FilesTypeOK'
<1>1. tfDirs' \subseteq WorkDirs /\ tfNamed' \subseteq WorkDirs /\ tfRecord' \in BOOLEAN
  BY DEF FilesTypeOK
<1>2. tfMishaps' \subseteq {"extract", "unregistered", "unset", "crash", "expired"}
  BY DEF FilesTypeOK
<1> QED
  BY <1>1, <1>2 DEF FilesTypeOK

\* One step per action; the definitions the invariant is made of are used throughout.
LEMMA FilesKeep == FilesInv /\ [FilesNext]_tfVars => FilesInv'
<1> SUFFICES ASSUME FilesInv, [FilesNext]_tfVars PROVE FilesInv'
  OBVIOUS
<1> USE DEF FilesInv, FilesTypeOK, StageInv, DirsInv, WholeInv, KnownDir, Excused, Forgotten,
            LeftFor, EarlyDirs, EarlyStages, KnownStages, FirstDir, NeedsOffice, IsDocx, IsXlsx,
            IsCad, WorkDirs, SweptDirs, MergeDir
<1>1. CASE Extracting
  <2>1. CASE BeginExtract
    BY <2>1, KindsAssumption DEF BeginExtract, Goes, Reach, tfJob, tfRest
  <2>2. CASE OfficeStarts
    BY <2>2 DEF OfficeStarts, Goes, Reach, tfJob, tfRest
  <2>3. CASE OfficeEnds
    BY <2>3 DEF OfficeEnds, Goes, Reach, ExtractFails, tfJob, tfRest
  <2>4. CASE PdfConverted
    BY <2>4 DEF PdfConverted, Goes, Reach, ExtractFails, tfJob, tfRest
  <2>5. CASE DwgConverted
    BY <2>5 DEF DwgConverted, Goes, Reach, ExtractFails, tfJob, tfRest
  <2>6. CASE TikalExtracts
    BY <2>6 DEF TikalExtracts, Goes, Reach, ExtractFails, DocxFails, tfJob, tfRest
  <2>7. CASE LoadXliff
    BY <2>7 DEF LoadXliff, Goes, Reach, ExtractFails, DocxFails, tfJob, tfRest
  <2>8. CASE ReadXlsx
    BY <2>8 DEF ReadXlsx, Goes, Reach, ExtractFails, tfJob, tfRest
  <2>9. CASE ReadDrawing
    BY <2>9 DEF ReadDrawing, Goes, Reach, ExtractFails, IsCad, tfJob, tfRest
  <2> QED
    BY <1>1, <2>1, <2>2, <2>3, <2>4, <2>5, <2>6, <2>7, <2>8, <2>9 DEF Extracting
<1>2. CASE Register
  BY <1>2 DEF Register, tfJob
<1>3. CASE NoText
  BY <1>3 DEF NoText, Goes, Reach, tfJob, tfRest
<1>4. CASE BatchesEnd
  BY <1>4 DEF BatchesEnd, Goes, Reach, tfJob, tfRest
<1>5. CASE Apply
  BY <1>5 DEF Apply, Goes, Reach, tfJob, tfRest
<1>6. CASE Saving
  <2>1. CASE SaveDocx
    BY <2>1 DEF SaveDocx, Goes, Reach, tfJob, tfRest
  <2>2. CASE MergeXliff
    BY <2>2 DEF MergeXliff, Goes, Reach, SaveCleans, tfJob, tfRest
  <2>3. CASE CopyEnds
    BY <2>3 DEF CopyEnds, Goes, Reach, SaveCleans, tfJob, tfRest
  <2>4. CASE PostProcessDocx
    BY <2>4 DEF PostProcessDocx, Goes, Reach, SaveCleans, tfJob, tfRest
  <2>5. CASE XlsxCopy
    <3>1. /\ tfAt = "translated" /\ tfAt' \in {"rewriting", "failed"}
          /\ tfOutput' \in {"none", "torn", "copy"}
          /\ IsXlsx
          /\ UNCHANGED <<tfKind, tfKeep, tfLocal, tfDirs, tfNamed, tfMarked, tfRecord, tfMishaps>>
      BY <2>5 DEF XlsxCopy, Reach, tfJob, tfRest
    <3>2. FilesTypeOK' /\ StageInv'
      BY <3>1
    <3>3. DirsInv'
      BY <3>1
    <3>4. WholeInv'
      BY <3>1
    <3> QED
      BY <3>2, <3>3, <3>4
  <2>6. CASE XlsxRewrite
    BY <2>6 DEF XlsxRewrite, Goes, Reach, SaveCleans, tfJob, tfRest
  <2>7. CASE BuildDxf
    <3>1. /\ tfAt = "translated" /\ tfAt' \in {"writing", "failed"} /\ IsCad
          /\ tfOutput' \in {tfOutput, "none", "torn"}
          /\ tfMishaps' \in {tfMishaps, tfMishaps \cup {"unset"}}
          /\ UNCHANGED <<tfKind, tfKeep, tfLocal, tfDirs, tfNamed, tfMarked, tfRecord>>
      BY <2>7 DEF BuildDxf, SetTexts, Reach, tfJob, tfRest
    <3>2. FilesTypeOK' /\ StageInv'
      <4>1. tfMishaps' \subseteq {"extract", "unregistered", "unset", "crash", "expired"}
        BY <3>1
      <4>2. "expired" \in tfMishaps => "expired" \in tfMishaps'
        BY <3>1
      <4> QED
        BY <3>1, <4>1, <4>2
    <3>3. DirsInv'
      <4>1. tfMishaps \subseteq tfMishaps'
        BY <3>1
      <4>2. \A d \in tfDirs : KnownDir(d)'
        BY <3>1, <4>1
      <4> QED
        BY <3>1, <4>1, <4>2
    <3>4. WholeInv'
      BY <3>1
    <3> QED
      BY <3>2, <3>3, <3>4
  <2>8. CASE WriteDrawing
    BY <2>8 DEF WriteDrawing, Reach, tfJob, tfRest
  <2>9. CASE IntegrityGate
    BY <2>9 DEF IntegrityGate, Goes, Reach, tfJob, tfRest
  <2> QED
    BY <1>6, <2>1, <2>2, <2>3, <2>4, <2>5, <2>6, <2>7, <2>8, <2>9 DEF Saving
\* what the job's own cleanup leaves
<1>7. ASSUME tfAt \in {"failed", "completed", "empty", "died"}, tfRecord, tfAt' = "over",
             RemoveOrMark, tfRecord' = FALSE, UNCHANGED <<tfJob, tfNamed, tfOutput, tfMishaps>>
      PROVE  FilesInv'
  <2> DEFINE retain == tfKeep \in {"global", "job"}
  <2>1. IF retain THEN tfMarked' = tfMarked \cup (tfNamed \cap tfDirs) /\ UNCHANGED tfDirs
                  ELSE tfDirs' = tfDirs \ tfNamed /\ tfMarked' = tfMarked \ tfNamed
    BY <1>7 DEF RemoveOrMark
  <2>2. \A d \in tfDirs : KnownDir(d)
    BY <1>7
  <2>3. \A d \in tfDirs' : LeftFor(d)'
    BY <1>7, <2>1, <2>2
  <2>4. tfDirs' \subseteq tfDirs /\ tfMarked' \subseteq tfDirs'
    BY <2>1
  <2>5. tfAt' = "over" /\ tfRecord' = FALSE /\ UNCHANGED <<tfKind, tfKeep, tfLocal, tfNamed, tfOutput, tfMishaps>>
    BY <1>7 DEF tfJob
  <2>6. FilesTypeOK'
    BY <2>4, <2>5, FilesTypeStays
  <2>7. StageInv' /\ WholeInv'
    BY <2>5
  <2>8. DirsInv'
    <3>1. "crash" \in tfMishaps => "crash" \in tfMishaps'
      BY <2>5
    <3>2. tfAt # "office"
      BY <1>7
    <3> QED
      BY <2>3, <2>4, <2>5, <3>1, <3>2
  <2> QED
    BY <2>6, <2>7, <2>8
<1>8. CASE FailedRunCleans
  <2>1. CASE tfRecord
    BY <1>7, <1>8, <2>1 DEF FailedRunCleans
  <2>2. CASE ~tfRecord
    <3>1. "expired" \in tfMishaps /\ "expired" \in tfMishaps'
      BY <1>8, <2>2 DEF FailedRunCleans
    <3>2. tfDirs' \subseteq tfDirs /\ tfMarked' \subseteq tfDirs'
      BY <1>8 DEF FailedRunCleans, RemoveOrMark
    <3> QED
      BY <1>8, <3>1, <3>2 DEF FailedRunCleans, tfJob
  <2> QED
    BY <2>1, <2>2
<1>9. CASE Discard
  BY <1>7, <1>9 DEF Discard
<1>10. CASE ProcessDies
  BY <1>10 DEF ProcessDies, Running, tfJob, tfRest
<1>11. CASE RecordLost
  <2>1. /\ "expired" \in tfMishaps' /\ tfMishaps \subseteq tfMishaps' /\ ~tfRecord'
        /\ tfMishaps' \subseteq {"extract", "unregistered", "unset", "crash", "expired"}
        /\ UNCHANGED <<tfKind, tfKeep, tfLocal, tfAt, tfDirs, tfNamed, tfMarked, tfOutput>>
    BY <1>11 DEF RecordLost, tfJob
  <2>2. FilesTypeOK'
    BY <1>11, FilesTypeStays DEF RecordLost, tfJob
  <2>3. StageInv'
    BY <2>1
  <2>4. WholeInv'
    <3>1. "unset" \in tfMishaps' <=> "unset" \in tfMishaps
      BY <1>11 DEF RecordLost
    <3> QED
      BY <2>1, <3>1
  <2>5. DirsInv'
    BY <2>1
  <2> QED
    BY <2>2, <2>3, <2>4, <2>5
<1>12. CASE SweepDirs
  <2>1. PICK found \in SUBSET tfDirs : tfDirs' = tfDirs \ found /\ tfMarked' = tfMarked \ found
    BY <1>12 DEF SweepDirs
  <2>2. UNCHANGED <<tfKind, tfKeep, tfLocal, tfAt, tfNamed, tfRecord, tfOutput, tfMishaps>>
    BY <1>12 DEF SweepDirs, tfJob
  <2>3. FilesTypeOK'
    <3>1. tfMarked' \subseteq tfDirs'
      BY <2>1
    <3> QED
      BY <2>1, <2>2, <3>1, FilesTypeStays
  <2>4. StageInv' /\ WholeInv'
    BY <2>1, <2>2
  <2>5. tfAt = "over" => \A d \in tfDirs' : LeftFor(d)'
    BY <2>1, <2>2
  <2>6. DirsInv'
    BY <2>1, <2>2, <2>5
  <2> QED
    BY <2>3, <2>4, <2>6
<1>13. CASE UNCHANGED tfVars
  <2>1. UNCHANGED <<tfKind, tfKeep, tfLocal, tfAt, tfDirs, tfNamed, tfMarked, tfRecord, tfOutput,
                    tfMishaps>>
    BY <1>13 DEF tfVars
  <2>2. FilesTypeOK'
    <3>1. tfMarked' \subseteq tfDirs'
      BY <2>1
    <3> QED
      BY <2>1, <3>1, FilesTypeStays
  <2>3. StageInv' /\ WholeInv'
    BY <2>1
  <2>4. DirsInv'
    BY <2>1
  <2> QED
    BY <2>2, <2>3, <2>4
<1> QED
  BY <1>1, <1>2, <1>3, <1>4, <1>5, <1>6, <1>8, <1>9, <1>10, <1>11, <1>12, <1>13 DEF FilesNext

\* The types of the files, the record and the run.
THEOREM FilesTypeCorrect == FilesSpec => []FilesTypeOK
<1>1. FilesInv => FilesTypeOK
  BY DEF FilesInv
<1> QED
  BY <1>1, FilesStart, FilesKeep, PTL DEF FilesSpec

\* A job that is completed has the translated document, but for the texts of a
\* drawing that could not be set, and for a local ODA converter's product, which
\* is taken when it was killed half way (ezdxf_backend.py, dxf_translator.py).
THEOREM WholeOutputs == FilesSpec => []OutputIsWhole
BY FilesStart, FilesKeep, FilesInvImplies, PTL DEF FilesSpec

\* A run that is over, whose record is gone, leaves a directory behind for one
\* of the reasons of LeftFor only, and then one that the cleanup finds.
THEOREM NothingForgotten == FilesSpec => []DirsReclaimed
BY FilesStart, FilesKeep, FilesInvImplies, PTL DEF FilesSpec

(* ---- the sweep of the files ---- *)

\* Jobs that have existed.
Known == {j \in SweepJobs : swJob[j].state # "none"}

\* The cutoff stands for the whole of a sweep, which takes no tick.
CutoffOK == swAt # "asleep" => swCutoff = swClock - JobTTL

\* Unless a listing failed, a directory that the scan could take and that belongs
\* to a record is there because more jobs are known than are listed; once the
\* active ones are listed too, it belongs to a job that has ended.
ProtectedOK ==
    ~swBlind /\ swAt \in {"active", "scan"} => \A d \in Dirs :
        swDir[d].state = "plain" /\ d \notin swProtected /\ d[1] \in Recorded =>
            \/ swDir[d].mtime >= swCutoff
            \/ /\ Cardinality(Known) > ListLimit
               /\ swAt = "scan" => swJob[d[1]].state = "terminal"

\* A record that is about to be deleted has ended, is not to be kept and is older
\* than its life, or is gone already.
DoomedOK ==
    /\ swAt # "deleting" => swDoomed = {}
    /\ \A j \in swDoomed :
          \/ swJob[j].state \in {"expired", "deleted"}
          \/ swJob[j].state = "terminal" /\ ~swJob[j].keep /\ swJob[j].written < swCutoff

\* A job that was never submitted has no directory.
UnbornOK == \A d \in Dirs : swJob[d[1]].state = "none" => swDir[d].state = "gone"

SweepInv == SweepTypeOK /\ CutoffOK /\ ProtectedOK /\ DoomedOK /\ UnbornOK

-----------------------------------------------------------------------------
\* The constants that the arithmetic is about.
LEMMA SweepNumbers ==
    /\ IsFiniteSet(SweepJobs) /\ LastTick \in Nat /\ JobTTL \in Nat /\ RetainAge \in Nat
    /\ RetainCap \in Nat \ {0} /\ ListLimit \in Nat \ {0}
  BY SweepAssumption DEF SweepAssumption

\* The types that the steps are shown to keep.
JobRecords == [state : {"none", "active", "terminal", "expired", "deleted"}, born : Ticks,
               written : Ticks, keep : BOOLEAN]
DirRecords == [state : {"gone", "plain", "marked", "stuck"}, mtime : Ticks, marked : Ticks]

LEMMA NoneTyped ==
    /\ \A state \in {"none", "deleted"} : NoRecord(state) \in JobRecords
    /\ NoDir \in DirRecords
  BY SweepNumbers DEF NoRecord, NoDir, JobRecords, DirRecords, Ticks

\* What the jobs do keeps the types.
LEMMA JobsTyped ==
    ASSUME SweepTypeOK, NEW j \in SweepJobs,
           \/ \E keep \in BOOLEAN : SubmitJob(j, keep)
           \/ WorkOn(j) \/ FinishJob(j) \/ CleanupTempDirs(j) \/ RecordExpires(j)
    PROVE  SweepTypeOK'
<1>1. swJob \in [SweepJobs -> JobRecords] /\ swDir \in [Dirs -> DirRecords] /\ swClock \in Ticks
  BY DEF SweepTypeOK, JobRecords, DirRecords
<1>2. UNCHANGED <<swSweep, swClock>>
  BY DEF SubmitJob, WorkOn, FinishJob, CleanupTempDirs, RecordExpires
<1>3. SUFFICES swJob' \in [SweepJobs -> JobRecords] /\ swDir' \in [Dirs -> DirRecords]
  BY <1>2 DEF SweepTypeOK, JobRecords, DirRecords, swSweep
<1>4. /\ Fresh \in DirRecords
      /\ \A keep \in BOOLEAN : [state |-> "active", born |-> swClock, written |-> swClock,
                                keep |-> keep] \in JobRecords
      /\ [state |-> "terminal", born |-> swJob[j].born, written |-> swClock,
          keep |-> swJob[j].keep] \in JobRecords
  BY <1>1, SweepNumbers DEF JobRecords, DirRecords, Fresh, Ticks
<1>5. \A d \in Dirs : MakeDir(d) \in [Dirs -> DirRecords]
  BY <1>1, <1>4 DEF MakeDir
<1>6. <<j, "main">> \in Dirs /\ <<j, "work">> \in Dirs
  BY DEF Dirs, Parts
<1>7. CASE \E keep \in BOOLEAN : SubmitJob(j, keep)
  BY <1>1, <1>4, <1>5, <1>6, <1>7 DEF SubmitJob
<1>8. CASE WorkOn(j)
  <2>1. swDir' \in [Dirs -> DirRecords]
    BY <1>1, <1>5, <1>6, <1>8 DEF WorkOn
  <2>2. [swJob[j] EXCEPT !.written = swClock] \in JobRecords
    BY <1>1 DEF JobRecords
  <2>3. swJob' = [swJob EXCEPT ![j] = [swJob[j] EXCEPT !.written = swClock]]
    BY <1>8 DEF WorkOn
  <2> QED
    BY <1>1, <2>1, <2>2, <2>3
<1>9. CASE FinishJob(j)
  <2>1. swJob' \in [SweepJobs -> JobRecords]
    BY <1>1, <1>4, <1>9 DEF FinishJob
  <2>2. [swDir[<<j, "main">>] EXCEPT !.mtime = swClock] \in DirRecords
    BY <1>1, <1>6 DEF DirRecords
  <2>3. swDir' = [swDir EXCEPT ![<<j, "main">>] = [swDir[<<j, "main">>] EXCEPT !.mtime = swClock]]
    BY <1>9 DEF FinishJob
  <2> QED
    BY <1>1, <1>6, <2>1, <2>2, <2>3
<1>10. CASE CleanupTempDirs(j)
  <2>1. swJob' \in [SweepJobs -> JobRecords]
    BY <1>1, <1>10, NoneTyped DEF CleanupTempDirs
  <2>2. \A d \in Dirs : [state |-> "marked", mtime |-> swDir[d].mtime, marked |-> swClock] \in DirRecords
    BY <1>1 DEF DirRecords
  <2>3. \A d \in Dirs : swDir[d] \in DirRecords
    BY <1>1
  <2> QED
    BY <1>10, <2>1, <2>2, <2>3, NoneTyped DEF CleanupTempDirs
<1>11. CASE RecordExpires(j)
  <2>1. [swJob[j] EXCEPT !.state = "expired"] \in JobRecords
    BY <1>1 DEF JobRecords
  <2>2. swJob' = [swJob EXCEPT ![j] = [swJob[j] EXCEPT !.state = "expired"]] /\ UNCHANGED swDir
    BY <1>11 DEF RecordExpires
  <2> QED
    BY <1>1, <2>1, <2>2
<1> QED
  BY <1>7, <1>8, <1>9, <1>10, <1>11

\* So does the sweep.
LEMMA SweepTyped ==
    ASSUME SweepTypeOK, Sweeping PROVE SweepTypeOK'
<1>1. swJob \in [SweepJobs -> JobRecords] /\ swDir \in [Dirs -> DirRecords] /\ swClock \in Ticks
  BY DEF SweepTypeOK, JobRecords, DirRecords
<1>2. \A jobs : Pruned(jobs) \in [SweepJobs -> JobRecords]
  BY <1>1, NoneTyped DEF Pruned
<1>3. SUFFICES /\ swJob' \in [SweepJobs -> JobRecords] /\ swDir' \in [Dirs -> DirRecords]
               /\ swAt' \in {"asleep", "recent", "active", "scan", "records", "deleting"}
               /\ swProtected' \subseteq Dirs /\ swDoomed' \subseteq SweepJobs /\ swClock' \in Ticks
  BY DEF SweepTypeOK, JobRecords, DirRecords
<1>4. CASE WakeUp
  BY <1>1, <1>4 DEF WakeUp, SweepTypeOK
<1>5. CASE ListRecent
  BY <1>1, <1>2, <1>5 DEF ListRecent, SweepTypeOK, DirsOfJobs
<1>6. CASE ListActive
  BY <1>1, <1>6 DEF ListActive, SweepTypeOK, DirsOfJobs
<1>7. CASE ScanAndPurge
  <2>1. \A d \in Dirs : swDir[d] \in DirRecords
    BY <1>1
  <2>2. \A d \in Dirs : \A broken : Leftover(d, broken) \in DirRecords
    <3>1. Fresh \in DirRecords
      BY <1>1, SweepNumbers DEF DirRecords, Fresh, Ticks
    <3>2. \A d \in Dirs : [swDir[d] EXCEPT !.state = "stuck"] \in DirRecords
      BY <2>1 DEF DirRecords
    <3> QED
      BY <2>1, <3>1, <3>2 DEF Leftover
  <2> DEFINE aged == {d \in RetainedDirs : TooOld(d)}
             orphans == {d \in Dirs : Swept(d)}
  <2>3. PICK surplus \in SUBSET (RetainedDirs \ aged) :
            \E failed \in SUBSET (orphans \cup aged \cup surplus) : \E broken \in SUBSET failed :
                swDir' = [d \in Dirs |->
                    IF d \in failed THEN Leftover(d, broken)
                    ELSE IF d \in orphans \cup aged \cup surplus THEN NoDir ELSE swDir[d]]
    BY <1>7 DEF ScanAndPurge
  <2>4. swDir' \in [Dirs -> DirRecords]
    BY <2>1, <2>2, <2>3, NoneTyped
  <2> QED
    BY <1>1, <1>7, <2>4 DEF ScanAndPurge, SweepTypeOK
<1>8. CASE ListStale
  BY <1>1, <1>2, <1>8 DEF ListStale, SweepTypeOK
<1>9. CASE DeleteStale
  <2>1. swJob' \in [SweepJobs -> JobRecords]
    BY <1>1, <1>9, NoneTyped DEF DeleteStale, SweepTypeOK
  <2> QED
    BY <1>1, <1>9, <2>1 DEF DeleteStale, SweepTypeOK
<1> QED
  BY <1>4, <1>5, <1>6, <1>7, <1>8, <1>9 DEF Sweeping

\* Every record, directory and variable of the sweep keeps its type (app.py,
\* _cleanup_orphaned_temp_dirs, and diagnostics/retention.py).
THEOREM SweepTypeCorrect == SweepSpec => []SweepTypeOK
<1>1. SweepInit => SweepTypeOK
  BY SweepNumbers DEF SweepInit, SweepTypeOK, NoRecord, NoDir, Ticks
<1>2. SweepTypeOK /\ [SweepNext]_swVars => SweepTypeOK'
  <2> SUFFICES ASSUME SweepTypeOK, [SweepNext]_swVars PROVE SweepTypeOK'
    OBVIOUS
  <2>1. CASE SweepTick
    <3>1. swClock' \in Ticks
      BY <2>1, SweepNumbers DEF SweepTick, SweepTypeOK, Ticks
    <3> QED
      BY <2>1, <3>1 DEF SweepTick, SweepTypeOK, swSweep
  <2>2. CASE UNCHANGED swVars
    BY <2>2 DEF swVars, SweepTypeOK
  <2> QED
    BY <2>1, <2>2, JobsTyped, SweepTyped DEF SweepNext
<1> QED
  BY <1>1, <1>2, PTL DEF SweepSpec

-----------------------------------------------------------------------------
(* ---- what the sweep takes ---- *)

JobStep(j) == \/ \E keep \in BOOLEAN : SubmitJob(j, keep)
              \/ WorkOn(j) \/ FinishJob(j) \/ CleanupTempDirs(j) \/ RecordExpires(j)

\* A job's step leaves a directory of a record as it was, with its job at least
\* as far as before, or touches it now.
LEMMA JobStepDirs ==
    ASSUME SweepInv, NEW j \in SweepJobs, JobStep(j), NEW d \in Dirs,
           swDir'[d].state = "plain", d[1] \in Recorded'
    PROVE  \/ swDir'[d].mtime = swClock
           \/ /\ swDir[d].state = "plain" /\ swDir'[d].mtime = swDir[d].mtime
              /\ d[1] \in Recorded
              /\ swJob[d[1]].state = "terminal" => swJob'[d[1]].state = "terminal"
<1>1. d[1] \in SweepJobs /\ d = <<d[1], d[2]>>
  BY DEF Dirs
<1>2. /\ swJob \in [SweepJobs -> JobRecords] /\ swDir \in [Dirs -> DirRecords]
      /\ \A x \in SweepJobs : swJob[x] \in JobRecords
      /\ \A e \in Dirs : swDir[e] \in DirRecords
  BY DEF SweepInv, SweepTypeOK, JobRecords, DirRecords
<1>3. ASSUME NEW e \in Dirs, swDir' = MakeDir(e)
      PROVE  swDir'[d].mtime = swClock \/ swDir'[d] = swDir[d]
  BY <1>2, <1>3 DEF MakeDir, Fresh
<1>4. CASE \E keep \in BOOLEAN : SubmitJob(j, keep)
  <2>1. PICK keep \in BOOLEAN : SubmitJob(j, keep)
    BY <1>4
  <2>2. <<j, "main">> \in Dirs
    BY DEF Dirs, Parts
  <2>3. swDir'[d].mtime = swClock \/ swDir'[d] = swDir[d]
    BY <1>3, <2>1, <2>2 DEF SubmitJob
  <2>4. d[1] # j => swJob'[d[1]] = swJob[d[1]]
    BY <1>1, <1>2, <2>1 DEF SubmitJob
  <2>5. d[1] = j => swDir[d].state = "gone"
    BY <2>1 DEF SubmitJob, SweepInv, UnbornOK
  <2> QED
    BY <1>1, <2>3, <2>4, <2>5 DEF Recorded
<1>5. CASE WorkOn(j)
  <2>1. <<j, "work">> \in Dirs
    BY DEF Dirs, Parts
  <2>2. swDir'[d].mtime = swClock \/ swDir'[d] = swDir[d]
    BY <1>3, <1>5, <2>1 DEF WorkOn
  <2>3. swJob'[d[1]].state = swJob[d[1]].state
    BY <1>1, <1>2, <1>5 DEF WorkOn, JobRecords
  <2> QED
    BY <1>1, <2>2, <2>3 DEF Recorded
<1>6. CASE FinishJob(j)
  <2>1. swDir'[d].mtime = swClock \/ swDir'[d] = swDir[d]
    BY <1>2, <1>6 DEF FinishJob, DirRecords
  <2>2. d[1] # j => swJob'[d[1]] = swJob[d[1]]
    BY <1>1, <1>2, <1>6 DEF FinishJob
  <2>3. d[1] = j => swJob[d[1]].state = "active"
    BY <1>6 DEF FinishJob
  <2> QED
    BY <1>1, <2>1, <2>2, <2>3 DEF Recorded
<1>7. CASE CleanupTempDirs(j)
  <2>1. swJob' = [swJob EXCEPT ![j] = NoRecord("deleted")]
    BY <1>7 DEF CleanupTempDirs
  <2>2. d[1] # j
    BY <1>1, <1>2, <2>1 DEF Recorded, NoRecord
  <2>3. swDir'[d] = swDir[d] /\ swJob'[d[1]] = swJob[d[1]]
    BY <1>1, <1>2, <1>7, <2>2 DEF CleanupTempDirs, DirsOfJob
  <2> QED
    BY <1>1, <2>3 DEF Recorded
<1>8. CASE RecordExpires(j)
  <2>1. swJob'[j].state = "expired" /\ UNCHANGED swDir
    BY <1>2, <1>8 DEF RecordExpires, JobRecords
  <2>2. d[1] # j
    BY <2>1 DEF Recorded
  <2>3. swJob'[d[1]] = swJob[d[1]]
    BY <1>1, <1>2, <1>8, <2>2 DEF RecordExpires
  <2> QED
    BY <1>1, <2>1, <2>3 DEF Recorded
<1> QED
  BY <1>4, <1>5, <1>6, <1>7, <1>8 DEF JobStep

\* A job that has existed stays known, so their number never falls.
LEMMA KnownGrows ==
    ASSUME SweepInv, \A j \in SweepJobs : swJob'[j].state = "none" => swJob[j].state = "none"
    PROVE  /\ Cardinality(Known) \in Nat /\ Cardinality(Known') \in Nat
           /\ Cardinality(Known) <= Cardinality(Known')
<1>1. IsFiniteSet(SweepJobs) /\ Known \subseteq SweepJobs /\ Known' \subseteq SweepJobs
  BY SweepNumbers DEF Known
<1>2. IsFiniteSet(Known) /\ IsFiniteSet(Known') /\ Known \subseteq Known'
  BY <1>1, FS_Subset DEF Known
<1> QED
  BY <1>2, FS_Subset, FS_CardinalityType

\* No step forgets a job, and what a record has become it does not leave.
LEMMA JobStepRecords ==
    ASSUME SweepInv, NEW j \in SweepJobs, JobStep(j), NEW k \in SweepJobs
    PROVE  /\ swJob'[k].state = "none" => swJob[k].state = "none"
           /\ swJob[k].state \in {"expired", "deleted"} => swJob'[k] = swJob[k]
           /\ swJob[k].state = "terminal" =>
                 swJob'[k] = swJob[k] \/ swJob'[k].state \in {"expired", "deleted"}
<1>1. swJob \in [SweepJobs -> JobRecords] /\ swJob[k] \in JobRecords /\ swJob[j] \in JobRecords
  BY DEF SweepInv, SweepTypeOK, JobRecords
<1>2. CASE k # j
  <2>1. swJob'[k] = swJob[k]
    BY <1>1, <1>2 DEF JobStep, SubmitJob, WorkOn, FinishJob, CleanupTempDirs, RecordExpires
  <2> QED
    BY <2>1
<1>3. CASE k = j
  <2>1. \/ swJob[j].state = "none" /\ swJob'[j].state = "active"
        \/ swJob[j].state = "active" /\ swJob'[j].state \in {"active", "terminal", "expired"}
        \/ swJob[j].state = "terminal" /\ swJob'[j].state \in {"expired", "deleted"}
    <3>1. CASE \E keep \in BOOLEAN : SubmitJob(j, keep)
      BY <1>1, <3>1 DEF SubmitJob
    <3>2. CASE WorkOn(j)
      BY <1>1, <3>2 DEF WorkOn, JobRecords
    <3>3. CASE FinishJob(j)
      BY <1>1, <3>3 DEF FinishJob
    <3>4. CASE CleanupTempDirs(j)
      BY <1>1, <3>4 DEF CleanupTempDirs, NoRecord
    <3>5. CASE RecordExpires(j)
      BY <1>1, <3>5 DEF RecordExpires, JobRecords, Recorded
    <3> QED
      BY <3>1, <3>2, <3>3, <3>4, <3>5 DEF JobStep
  <2> QED
    BY <1>3, <2>1
<1> QED
  BY <1>2, <1>3

LEMMA JobsKeep ==
    ASSUME SweepInv, NEW j \in SweepJobs, JobStep(j) PROVE SweepInv'
<1>1. SweepTypeOK'
  BY JobsTyped DEF SweepInv, JobStep
<1>2. UNCHANGED <<swAt, swCutoff, swProtected, swBlind, swDoomed, swClock>>
  BY DEF JobStep, SubmitJob, WorkOn, FinishJob, CleanupTempDirs, RecordExpires, swSweep
<1>3. CutoffOK'
  BY <1>2 DEF SweepInv, CutoffOK
<1>4. ProtectedOK'
  <2>1. SUFFICES ASSUME ~swBlind, swAt \in {"active", "scan"}, NEW d \in Dirs,
                        swDir'[d].state = "plain", d \notin swProtected, d[1] \in Recorded'
                 PROVE  \/ swDir'[d].mtime >= swCutoff
                        \/ /\ Cardinality(Known') > ListLimit
                           /\ swAt = "scan" => swJob'[d[1]].state = "terminal"
    BY <1>2 DEF ProtectedOK
  <2>2. swClock >= swCutoff
    BY <2>1, SweepNumbers DEF SweepInv, CutoffOK, SweepTypeOK, Ticks
  <2>3. /\ Cardinality(Known) \in Nat /\ Cardinality(Known') \in Nat
        /\ Cardinality(Known) <= Cardinality(Known')
    BY KnownGrows, JobStepRecords
  <2>4. CASE swDir'[d].mtime = swClock
    BY <2>2, <2>4
  <2>5. CASE /\ swDir[d].state = "plain" /\ swDir'[d].mtime = swDir[d].mtime
             /\ d[1] \in Recorded
             /\ swJob[d[1]].state = "terminal" => swJob'[d[1]].state = "terminal"
    <3>1. \/ swDir[d].mtime >= swCutoff
          \/ /\ Cardinality(Known) > ListLimit
             /\ swAt = "scan" => swJob[d[1]].state = "terminal"
      BY <2>1, <2>5 DEF SweepInv, ProtectedOK
    <3>2. Cardinality(Known) > ListLimit => Cardinality(Known') > ListLimit
      BY <2>3, SweepNumbers
    <3> QED
      BY <2>5, <3>1, <3>2
  <2> QED
    BY <2>1, <2>4, <2>5, JobStepDirs
<1>5. DoomedOK'
  <2>1. swDoomed \subseteq SweepJobs
    BY DEF SweepInv, SweepTypeOK
  <2>2. ASSUME NEW k \in swDoomed
        PROVE  \/ swJob'[k].state \in {"expired", "deleted"}
               \/ swJob'[k].state = "terminal" /\ ~swJob'[k].keep /\ swJob'[k].written < swCutoff
    <3>1. k \in SweepJobs
      BY <2>1
    <3>2. \/ swJob[k].state \in {"expired", "deleted"}
          \/ swJob[k].state = "terminal" /\ ~swJob[k].keep /\ swJob[k].written < swCutoff
      BY DEF SweepInv, DoomedOK
    <3> QED
      BY <3>1, <3>2, JobStepRecords
  <2> QED
    BY <1>2, <2>2 DEF SweepInv, DoomedOK
<1>6. UnbornOK'
  <2>1. SUFFICES ASSUME NEW d \in Dirs, swJob'[d[1]].state = "none"
                 PROVE  swDir'[d].state = "gone"
    BY DEF UnbornOK
  <2>2. d[1] \in SweepJobs
    BY DEF Dirs
  <2>3. swJob[d[1]].state = "none" /\ swDir[d].state = "gone"
    BY <2>1, <2>2, JobStepRecords DEF SweepInv, UnbornOK
  <2>4. /\ swJob \in [SweepJobs -> JobRecords] /\ swDir \in [Dirs -> DirRecords]
        /\ <<j, "main">> \in Dirs /\ <<j, "work">> \in Dirs
    BY DEF SweepInv, SweepTypeOK, JobRecords, DirRecords, Dirs, Parts
  <2>5. d[1] # j
    <3>1. CASE \E keep \in BOOLEAN : SubmitJob(j, keep)
      BY <2>1, <2>4, <3>1 DEF SubmitJob
    <3>2. CASE ~\E keep \in BOOLEAN : SubmitJob(j, keep)
      <4>1. swJob[j].state \in {"active", "terminal"}
        BY <3>2 DEF JobStep, WorkOn, FinishJob, CleanupTempDirs, RecordExpires, Recorded
      <4> QED
        BY <2>3, <4>1
    <3> QED
      BY <3>1, <3>2
  <2>6. swDir'[d] = swDir[d]
    <3>1. d # <<j, "main">> /\ d # <<j, "work">> /\ d \notin DirsOfJob(j)
      BY <2>5 DEF DirsOfJob, Parts
    <3> QED
      BY <2>4, <3>1 DEF JobStep, SubmitJob, WorkOn, FinishJob, CleanupTempDirs, RecordExpires, MakeDir
  <2> QED
    BY <2>3, <2>6
<1> QED
  BY <1>1, <1>3, <1>4, <1>5, <1>6 DEF SweepInv

\* What a listing of the newest jobs leaves out is there because the index holds
\* more jobs than a listing returns.
LEMMA NewestListsAll ==
    ASSUME SweepInv, NEW jobs, Newest(jobs), NEW j \in Recorded, j \notin jobs
    PROVE  Cardinality(Known) > ListLimit
<1>1. IsFiniteSet(SweepJobs) /\ Known \subseteq SweepJobs /\ Indexed \subseteq Known
  BY SweepNumbers DEF Known, Indexed, Recorded
<1>2. IsFiniteSet(Known) /\ IsFiniteSet(Indexed)
  BY <1>1, FS_Subset
<1>3. jobs \subseteq Indexed /\ j \in Indexed
  BY DEF Newest, Indexed
<1>4. Cardinality(jobs) # Cardinality(Indexed)
  BY <1>2, <1>3, FS_Subset
<1>5. ~(Cardinality(Indexed) < ListLimit) /\ Cardinality(jobs) = ListLimit
  BY <1>4 DEF Newest
<1>6. Cardinality(jobs) < Cardinality(Indexed) \/ Cardinality(jobs) = Cardinality(Indexed)
  <2>1. Cardinality(jobs) <= Cardinality(Indexed) /\ IsFiniteSet(jobs)
    BY <1>2, <1>3, FS_Subset
  <2> QED
    BY <1>2, <2>1, FS_CardinalityType
<1>7. Cardinality(Indexed) <= Cardinality(Known) /\ Cardinality(Known) \in Nat
      /\ Cardinality(Indexed) \in Nat
  BY <1>1, <1>2, FS_Subset, FS_CardinalityType
<1> QED
  BY <1>4, <1>5, <1>6, <1>7, SweepNumbers

\* Taking expired entries out of the index neither touches a record nor forgets a job.
LEMMA PruningKeeps ==
    ASSUME SweepInv, NEW jobs, jobs \subseteq Indexed, swJob' = Pruned(jobs), NEW k \in SweepJobs
    PROVE  /\ swJob'[k].state = "none" <=> swJob[k].state = "none"
           /\ k \in Recorded \/ k \in Recorded' => swJob'[k] = swJob[k]
           /\ swJob[k].state \in {"expired", "deleted"} => swJob'[k].state \in {"expired", "deleted"}
  BY DEF Pruned, NoRecord, Indexed, Recorded

\* No record is lost from the count of known jobs by a listing.
LEMMA PruningKnows ==
    ASSUME SweepInv, NEW jobs, jobs \subseteq Indexed, swJob' = Pruned(jobs)
    PROVE  Known' = Known
  BY PruningKeeps DEF Known

LEMMA ListRecentKeeps == ASSUME SweepInv, ListRecent PROVE SweepInv'
<1>1. SweepTypeOK' /\ swAt = "recent" /\ swDoomed = {} /\ UNCHANGED <<swDir, swCutoff, swDoomed, swClock>>
  BY SweepTyped DEF SweepInv, Sweeping, ListRecent, DoomedOK
<1>2. CutoffOK' /\ DoomedOK'
  BY <1>1 DEF SweepInv, CutoffOK, DoomedOK
<1>3. CASE swBlind' = TRUE /\ UNCHANGED swJob
  BY <1>1, <1>2, <1>3 DEF SweepInv, ProtectedOK, UnbornOK
<1>4. CASE \E jobs \in SUBSET SweepJobs :
              /\ Newest(jobs) /\ swProtected' = DirsOfJobs(jobs \cap Recorded)
              /\ swJob' = Pruned(jobs) /\ swAt' = "active"
  <2>1. PICK jobs \in SUBSET SweepJobs :
              /\ Newest(jobs) /\ swProtected' = DirsOfJobs(jobs \cap Recorded)
              /\ swJob' = Pruned(jobs) /\ swAt' = "active"
    BY <1>4
  <2>2. jobs \subseteq Indexed
    BY <2>1 DEF Newest
  <2>3. ASSUME NEW d \in Dirs, d \notin swProtected', d[1] \in Recorded'
        PROVE  Cardinality(Known') > ListLimit
    <3>1. d[1] \in SweepJobs
      BY DEF Dirs
    <3>2. d[1] \in Recorded
      BY <2>1, <2>2, <2>3, <3>1, PruningKeeps DEF Recorded
    <3>3. d[1] \notin jobs
      BY <2>1, <2>3, <3>2 DEF DirsOfJobs
    <3> QED
      BY <2>1, <2>2, <3>2, <3>3, NewestListsAll, PruningKnows
  <2>4. ProtectedOK'
    BY <2>1, <2>3 DEF ProtectedOK
  <2>5. \A d \in Dirs : swJob'[d[1]].state = "none" => swJob[d[1]].state = "none"
    BY <2>1, <2>2, PruningKeeps DEF Dirs
  <2> QED
    BY <1>1, <1>2, <2>4, <2>5 DEF SweepInv, UnbornOK
<1> QED
  BY <1>3, <1>4 DEF ListRecent

LEMMA ListActiveKeeps == ASSUME SweepInv, ListActive PROVE SweepInv'
<1>1. /\ SweepTypeOK' /\ swAt = "active" /\ swAt' = "scan" /\ swDoomed = {}
      /\ UNCHANGED <<swJob, swDir, swCutoff, swDoomed, swClock>>
  BY SweepTyped DEF SweepInv, Sweeping, ListActive, DoomedOK
<1>2. CutoffOK' /\ DoomedOK' /\ UnbornOK'
  BY <1>1 DEF SweepInv, CutoffOK, DoomedOK, UnbornOK
<1>3. ProtectedOK'
  <2>1. SUFFICES ASSUME ~swBlind', NEW d \in Dirs, swDir[d].state = "plain",
                        d \notin swProtected', d[1] \in Recorded
                 PROVE  \/ swDir[d].mtime >= swCutoff
                        \/ Cardinality(Known) > ListLimit /\ swJob[d[1]].state = "terminal"
    BY <1>1 DEF ProtectedOK, Recorded, Known
  <2>2. /\ ~swBlind
        /\ swProtected' = swProtected \cup
                DirsOfJobs({j \in SweepJobs : swJob[j].state = "active"})
    BY <2>1 DEF ListActive
  <2>3. d \notin swProtected /\ swJob[d[1]].state # "active"
    BY <2>1, <2>2 DEF DirsOfJobs, Dirs
  <2> QED
    BY <1>1, <2>1, <2>2, <2>3 DEF SweepInv, ProtectedOK, Recorded
<1> QED
  BY <1>1, <1>2, <1>3 DEF SweepInv

\* What the scan and the purge do to a directory, one by one.
LEMMA ScanOutcome ==
    ASSUME ScanAndPurge
    PROVE  \E surplus \in SUBSET (RetainedDirs \ {d \in RetainedDirs : TooOld(d)}) :
              /\ Surplus(RetainedDirs \ {d \in RetainedDirs : TooOld(d)}, surplus)
              /\ \A d \in Dirs :
                    IF Swept(d) \/ d \in surplus \/ (d \in RetainedDirs /\ TooOld(d))
                    THEN /\ swDir'[d].state \in {"gone", "plain", "stuck"}
                         /\ swDir[d].state = "plain" => swDir'[d].state # "stuck"
                    ELSE swDir'[d] = swDir[d]
<1> DEFINE aged == {d \in RetainedDirs : TooOld(d)}
           orphans == {d \in Dirs : Swept(d)}
<1>1. PICK surplus \in SUBSET (RetainedDirs \ aged) :
          /\ Surplus(RetainedDirs \ aged, surplus)
          /\ \E failed \in SUBSET (orphans \cup aged \cup surplus) : \E broken \in SUBSET failed :
                swDir' = [d \in Dirs |->
                    IF d \in failed THEN Leftover(d, broken)
                    ELSE IF d \in orphans \cup aged \cup surplus THEN NoDir ELSE swDir[d]]
  BY DEF ScanAndPurge
<1>2. PICK failed \in SUBSET (orphans \cup aged \cup surplus) : \E broken \in SUBSET failed :
          swDir' = [d \in Dirs |->
              IF d \in failed THEN Leftover(d, broken)
              ELSE IF d \in orphans \cup aged \cup surplus THEN NoDir ELSE swDir[d]]
  BY <1>1
<1> PICK broken \in SUBSET failed :
          swDir' = [d \in Dirs |->
              IF d \in failed THEN Leftover(d, broken)
              ELSE IF d \in orphans \cup aged \cup surplus THEN NoDir ELSE swDir[d]]
  BY <1>2
<1>3. ASSUME NEW d \in Dirs
      PROVE  IF Swept(d) \/ d \in surplus \/ (d \in RetainedDirs /\ TooOld(d))
             THEN /\ swDir'[d].state \in {"gone", "plain", "stuck"}
                  /\ swDir[d].state = "plain" => swDir'[d].state # "stuck"
             ELSE swDir'[d] = swDir[d]
  <2>1. d \in orphans \cup aged \cup surplus <=>
            Swept(d) \/ d \in surplus \/ (d \in RetainedDirs /\ TooOld(d))
    OBVIOUS
  <2>2. /\ Leftover(d, broken).state \in {"plain", "stuck"}
        /\ swDir[d].state = "plain" => Leftover(d, broken).state # "stuck"
    BY DEF Leftover, Fresh
  <2>3. CASE d \in failed
    BY <1>2, <2>1, <2>2, <2>3
  <2>4. CASE d \notin failed
    BY <1>2, <2>1, <2>4 DEF NoDir
  <2> QED
    BY <2>3, <2>4
<1> QED
  BY <1>1, <1>3

LEMMA ScanKeeps == ASSUME SweepInv, ScanAndPurge PROVE SweepInv'
<1>1. /\ SweepTypeOK' /\ swAt = "scan" /\ swAt' = "records" /\ swDoomed = {}
      /\ UNCHANGED <<swJob, swCutoff, swDoomed, swClock>>
  BY SweepTyped DEF SweepInv, Sweeping, ScanAndPurge, DoomedOK
<1>2. \A d \in Dirs : swDir[d].state = "gone" => swDir'[d].state = "gone"
  BY ScanOutcome DEF RetainedDirs, Swept
<1> QED
  BY <1>1, <1>2 DEF SweepInv, CutoffOK, DoomedOK, UnbornOK, ProtectedOK

LEMMA ListStaleKeeps == ASSUME SweepInv, ListStale PROVE SweepInv'
<1>1. /\ SweepTypeOK' /\ swAt = "records" /\ swAt' = "deleting" /\ swDoomed = {}
      /\ UNCHANGED <<swDir, swCutoff, swClock>>
  BY SweepTyped DEF SweepInv, Sweeping, ListStale, DoomedOK
<1>2. CutoffOK' /\ ProtectedOK'
  BY <1>1 DEF SweepInv, CutoffOK, ProtectedOK
<1>3. CASE UNCHANGED <<swDoomed, swJob>>
  BY <1>1, <1>2, <1>3 DEF SweepInv, DoomedOK, UnbornOK
<1>4. CASE \E jobs \in SUBSET SweepJobs :
             /\ Newest(jobs)
             /\ swDoomed' = {j \in jobs : /\ swJob[j].state = "terminal" /\ ~swJob[j].keep
                                          /\ swJob[j].written < swCutoff}
             /\ swJob' = Pruned(jobs)
  <2>1. PICK jobs \in SUBSET SweepJobs :
             /\ Newest(jobs)
             /\ swDoomed' = {j \in jobs : /\ swJob[j].state = "terminal" /\ ~swJob[j].keep
                                          /\ swJob[j].written < swCutoff}
             /\ swJob' = Pruned(jobs)
    BY <1>4
  <2>2. jobs \subseteq Indexed
    BY <2>1 DEF Newest
  <2>3. \A j \in swDoomed' : j \in Recorded /\ swJob'[j] = swJob[j]
    BY <2>1, <2>2, PruningKeeps DEF Recorded
  <2>4. DoomedOK'
    BY <1>1, <2>1, <2>3 DEF DoomedOK
  <2>5. \A d \in Dirs : swJob'[d[1]].state = "none" => swJob[d[1]].state = "none"
    BY <2>1, <2>2, PruningKeeps DEF Dirs
  <2> QED
    BY <1>1, <1>2, <2>4, <2>5 DEF SweepInv, UnbornOK
<1> QED
  BY <1>3, <1>4 DEF ListStale

\* Deleting a doomed record leaves every other one as it was.
LEMMA DeletingOne ==
    ASSUME SweepInv, DeleteStale, NEW k \in SweepJobs
    PROVE  \/ swJob'[k] = swJob[k]
           \/ k \in swDoomed /\ k \in Recorded /\ swJob'[k].state = "deleted"
  BY DEF DeleteStale, SweepInv, SweepTypeOK, NoRecord

LEMMA DeleteStaleKeeps == ASSUME SweepInv, DeleteStale PROVE SweepInv'
<1>1. /\ SweepTypeOK' /\ swAt = "deleting" /\ swDoomed' \subseteq swDoomed
      /\ swAt' # "deleting" => swDoomed' = {}
      /\ swAt' \in {"deleting", "asleep"} /\ UNCHANGED <<swDir, swCutoff, swClock>>
  BY SweepTyped DEF SweepInv, Sweeping, DeleteStale
<1>2. CutoffOK' /\ ProtectedOK'
  BY <1>1 DEF SweepInv, CutoffOK, ProtectedOK
<1>3. swDoomed \subseteq SweepJobs
  BY DEF SweepInv, SweepTypeOK
<1>4. DoomedOK'
  <2>1. ASSUME NEW k \in swDoomed'
        PROVE  \/ swJob'[k].state \in {"expired", "deleted"}
               \/ swJob'[k].state = "terminal" /\ ~swJob'[k].keep /\ swJob'[k].written < swCutoff
    <3>1. k \in SweepJobs /\ k \in swDoomed
      BY <1>1, <1>3
    <3> QED
      BY <3>1, DeletingOne DEF SweepInv, DoomedOK
  <2> QED
    BY <1>1, <2>1 DEF DoomedOK
<1>5. \A d \in Dirs : swJob'[d[1]].state = "none" => swJob[d[1]].state = "none"
  BY DeletingOne DEF Dirs
<1> QED
  BY <1>1, <1>2, <1>4, <1>5 DEF SweepInv, UnbornOK

\* The invariant holds initially and every step keeps it.
LEMMA SweepInductive ==
    /\ SweepInit => SweepInv
    /\ SweepInv /\ [SweepNext]_swVars => SweepInv'
<1>1. SweepInit => SweepInv
  <2> SUFFICES ASSUME SweepInit PROVE SweepInv
    OBVIOUS
  <2>1. SweepTypeOK
    BY SweepNumbers DEF SweepInit, SweepTypeOK, NoRecord, NoDir, Ticks
  <2>2. UnbornOK
    BY DEF SweepInit, UnbornOK, NoDir
  <2> QED
    BY <2>1, <2>2 DEF SweepInit, SweepInv, CutoffOK, ProtectedOK, DoomedOK
<1>2. ASSUME SweepInv, [SweepNext]_swVars PROVE SweepInv'
  <2>1. CASE WakeUp
    <3>1. SweepTypeOK'
      BY <1>2, <2>1, SweepTyped DEF SweepInv, Sweeping
    <3> QED
      BY <1>2, <2>1, <3>1 DEF WakeUp, SweepInv, CutoffOK, ProtectedOK, DoomedOK, UnbornOK
  <2>2. CASE SweepTick
    <3>1. SweepTypeOK'
      <4>1. swClock' \in Ticks
        BY <1>2, <2>2, SweepNumbers DEF SweepTick, SweepInv, SweepTypeOK, Ticks
      <4> QED
        BY <1>2, <2>2, <4>1 DEF SweepTick, SweepInv, SweepTypeOK, swSweep
    <3> QED
      BY <1>2, <2>2, <3>1 DEF SweepTick, swSweep, SweepInv, CutoffOK, ProtectedOK, DoomedOK,
                              UnbornOK
  <2>3. CASE UNCHANGED swVars
    BY <1>2, <2>3 DEF swVars, SweepInv, SweepTypeOK, CutoffOK, ProtectedOK, DoomedOK, UnbornOK,
                      Recorded, Known
  <2>4. CASE Sweeping
    BY <1>2, <2>1, <2>4, ListRecentKeeps, ListActiveKeeps, ScanKeeps, ListStaleKeeps,
       DeleteStaleKeeps DEF Sweeping
  <2>5. ASSUME NEW j \in SweepJobs, JobStep(j) PROVE SweepInv'
    BY <1>2, <2>5, JobsKeep
  <2> QED
    BY <1>2, <2>2, <2>3, <2>4, <2>5 DEF SweepNext, JobStep
<1> QED
  BY <1>1, <1>2

\* A step at the scan, or one that deletes a record, is the sweep's own.
LEMMA JobsDoNotSweep ==
    ASSUME SweepInv, [SweepNext]_swVars
    PROVE  /\ swAt = "scan" /\ swAt' = "records" => ScanAndPurge
           /\ swAt = "deleting" /\ swDoomed' # swDoomed => DeleteStale
<1>1. ASSUME NEW j \in SweepJobs, JobStep(j) PROVE UNCHANGED <<swAt, swDoomed>>
  BY <1>1 DEF JobStep, SubmitJob, WorkOn, FinishJob, CleanupTempDirs, RecordExpires, swSweep
<1>2. SweepTick \/ UNCHANGED swVars => UNCHANGED <<swAt, swDoomed>>
  BY DEF SweepTick, swVars, swSweep
<1>3. CASE Sweeping
  BY <1>3 DEF Sweeping, WakeUp, ListRecent, ListActive, ScanAndPurge, ListStale, DeleteStale
<1> QED
  BY <1>1, <1>2, <1>3 DEF SweepNext, JobStep

\* A directory of a job record is protected: the cleanup takes neither a directory
\* nor a record that somebody may still need (app.py, _cleanup_orphaned_temp_dirs),
\* for any number of jobs and any life and limit, unless a listing failed or the job
\* has ended and is not among the newest.
THEOREM SweepTakesTheDead == SweepSpec => SweepSparesTheLiving
<1>1. SweepInv /\ [SweepNext]_swVars => DirsSpared /\ RecordsSpared
  <2> SUFFICES ASSUME SweepInv, [SweepNext]_swVars PROVE DirsSpared /\ RecordsSpared
    OBVIOUS
  <2>1. DirsSpared
    <3>1. SUFFICES ASSUME swAt = "scan", ScanAndPurge, NEW d \in Dirs, swDir[d].state = "plain",
                          swDir'[d].state = "gone", d[1] \in Recorded, ~swBlind
                   PROVE  swJob[d[1]].state = "terminal" /\ Cardinality(Known) > ListLimit
      BY JobsDoNotSweep DEF DirsSpared, Known
    <3>2. Swept(d)
      BY <3>1, ScanOutcome DEF RetainedDirs
    <3>3. d \notin swProtected /\ ~(swDir[d].mtime >= swCutoff)
      <4>1. swDir[d].mtime \in Int /\ swCutoff \in Int
        BY <3>1, SweepNumbers DEF SweepInv, SweepTypeOK, CutoffOK, Ticks
      <4> QED
        BY <3>2, <4>1 DEF Swept
    <3> QED
      BY <3>1, <3>3 DEF SweepInv, ProtectedOK
  <2>2. RecordsSpared
    <3>1. SUFFICES ASSUME swAt = "deleting", DeleteStale, NEW j \in Recorded,
                          swJob'[j].state = "deleted"
                   PROVE  /\ swJob[j].state = "terminal" /\ ~swJob[j].keep
                          /\ swClock - swJob[j].written > JobTTL
      BY JobsDoNotSweep DEF RecordsSpared
    <3>2. j \in SweepJobs /\ j \in swDoomed
      BY <3>1, DeletingOne DEF Recorded
    <3>3. swJob[j].state = "terminal" /\ ~swJob[j].keep /\ swJob[j].written < swClock - JobTTL
      BY <3>1, <3>2 DEF SweepInv, DoomedOK, CutoffOK, Recorded
    <3>4. swJob[j].written \in Int /\ swClock \in Int /\ JobTTL \in Int
      BY <3>2, SweepNumbers DEF SweepInv, SweepTypeOK, Ticks
    <3> QED
      BY <3>3, <3>4
  <2> QED
    BY <2>1, <2>2
<1>2. SweepSpec => []SweepInv
  BY SweepInductive, PTL DEF SweepSpec
<1>3. SweepInv /\ [SweepNext]_swVars => [DirsSpared /\ RecordsSpared]_swVars
  BY <1>1
<1> QED
  BY <1>2, <1>3, PTL DEF SweepSpec, SweepSparesTheLiving

-----------------------------------------------------------------------------
(* ---- what the purge leaves ---- *)

\* Of the marked directories that a purge sees, at most RetainCap are left, none of
\* them over its age, but for those whose removal failed; what was removed within
\* its age was marked no later than what is left (diagnostics/retention.py,
\* purge_debug_artifacts), for any cap and age.
THEOREM RetentionBounded == SweepSpec => RetentionIsBounded
<1> DEFINE Left == {d \in RetainedDirs : swDir'[d].state \in {"marked", "stuck"}}
           Kept == {d \in Left : swDir'[d].state = "marked"}
           Bound == /\ Cardinality(Kept) <= RetainCap
                    /\ \A d \in Kept : swClock - swDir[d].marked <= RetainAge
                    /\ \A d \in RetainedDirs : swDir'[d].state = "gone" =>
                          swClock - swDir[d].marked > RetainAge \/
                          (/\ Cardinality(Left) >= RetainCap
                           /\ \A e \in Kept : swDir[d].marked <= swDir[e].marked)
<1>1. ASSUME SweepInv, [SweepNext]_swVars, swAt = "scan", swAt' = "records" PROVE Bound
  <2>1. ScanAndPurge
    BY <1>1, JobsDoNotSweep
  <2> DEFINE aged == {d \in RetainedDirs : TooOld(d)}
             rest == RetainedDirs \ aged
  <2>2. PICK surplus \in SUBSET rest :
            /\ Surplus(rest, surplus)
            /\ \A d \in Dirs :
                  IF Swept(d) \/ d \in surplus \/ (d \in RetainedDirs /\ TooOld(d))
                  THEN /\ swDir'[d].state \in {"gone", "plain", "stuck"}
                       /\ swDir[d].state = "plain" => swDir'[d].state # "stuck"
                  ELSE swDir'[d] = swDir[d]
    BY <2>1, ScanOutcome
  <2>3. /\ Kept \subseteq rest \ surplus /\ rest \ surplus \subseteq Left
        /\ \A d \in rest \ surplus : swDir'[d] = swDir[d]
    BY <2>2 DEF RetainedDirs, Swept
  <2>4. IsFiniteSet(rest) /\ IsFiniteSet(Left)
    <3>1. IsFiniteSet(Parts)
      <4>1. Parts = ({} \cup {"main"}) \cup {"work"}
        BY DEF Parts
      <4>2. IsFiniteSet({} \cup {"main"})
        BY FS_EmptySet, FS_AddElement
      <4> QED
        BY <4>1, <4>2, FS_AddElement
    <3>2. IsFiniteSet(Dirs)
      BY <3>1, SweepNumbers, FS_Product DEF Dirs
    <3> QED
      BY <3>2, FS_Subset DEF RetainedDirs
  <2>5. Cardinality(rest) \in Nat
    BY <2>4, FS_CardinalityType
  <2> HIDE DEF aged
  <2>6. /\ Cardinality(rest \ surplus) = IF Cardinality(rest) > RetainCap THEN RetainCap
                                         ELSE Cardinality(rest)
        /\ \A d \in surplus, e \in rest \ surplus : swDir[d].marked <= swDir[e].marked
    BY <2>2 DEF Surplus
  <2>7. Cardinality(rest \ surplus) # RetainCap => surplus = {}
    <3>1. SUFFICES ASSUME Cardinality(rest \ surplus) = Cardinality(rest) PROVE surplus = {}
      BY <2>6
    <3>2. rest \ surplus = rest
      BY <2>4, <3>1, FS_Subset
    <3> QED
      BY <2>2, <3>2
  <2> HIDE DEF rest, Left, Kept
  <2>8. IsFiniteSet(rest \ surplus)
    BY <2>4, FS_Subset
  <2>9. /\ Cardinality(Kept) <= Cardinality(rest \ surplus)
        /\ Cardinality(rest \ surplus) <= Cardinality(Left)
        /\ IsFiniteSet(Kept)
    BY <2>3, <2>4, <2>8, FS_Subset
  <2>10. Cardinality(Kept) \in Nat /\ Cardinality(rest \ surplus) \in Nat /\ Cardinality(Left) \in Nat
    BY <2>4, <2>8, <2>9, FS_CardinalityType
  <2>11. Cardinality(Kept) <= RetainCap
    BY <2>5, <2>6, <2>9, <2>10, SweepNumbers
  <2>12. Cardinality(rest \ surplus) = RetainCap => Cardinality(Left) >= RetainCap
    BY <2>9, <2>10, SweepNumbers
  <2>13. ASSUME NEW d \in RetainedDirs
         PROVE  swDir[d].marked \in Int /\ swClock \in Int /\ RetainAge \in Int
    BY <1>1, SweepNumbers DEF SweepInv, SweepTypeOK, RetainedDirs, Ticks
  <2>14. \A d \in RetainedDirs : d \in aged <=> swClock - swDir[d].marked > RetainAge
    BY DEF aged, TooOld
  <2>15. \A d \in rest : swClock - swDir[d].marked <= RetainAge
    BY <2>13, <2>14 DEF rest
  <2>16. \A d \in Kept : swClock - swDir[d].marked <= RetainAge
    BY <2>3, <2>15
  <2>17. ASSUME NEW d \in RetainedDirs, swDir'[d].state = "gone"
         PROVE  swClock - swDir[d].marked > RetainAge \/
                (/\ Cardinality(Left) >= RetainCap
                 /\ \A e \in Kept : swDir[d].marked <= swDir[e].marked)
    <3>1. CASE d \in aged
      BY <2>14, <3>1
    <3>2. CASE d \notin aged
      <4>1. d \in rest /\ swDir[d].state # "gone"
        BY <3>2 DEF rest, RetainedDirs
      <4>2. d \in surplus
        BY <2>3, <2>17, <4>1
      <4> QED
        BY <2>3, <2>6, <2>7, <2>12, <4>2
    <3> QED
      BY <3>1, <3>2
  <2> QED
    BY <2>11, <2>16, <2>17
<1> HIDE DEF Bound
<1>2. SweepInv /\ [SweepNext]_swVars => PurgeBounded
  BY <1>1 DEF Bound, PurgeBounded
<1>3. SweepInv /\ [SweepNext]_swVars => [PurgeBounded]_swVars
  BY <1>2
<1>4. SweepSpec => []SweepInv
  BY SweepInductive, PTL DEF SweepSpec
<1> QED
  BY <1>3, <1>4, PTL DEF SweepSpec, RetentionIsBounded

(* ---- the order of the units ---- *)

\* The units of a document are finitely many integers.
LEMMA UnitsFinite ==
    ASSUME NEW S \in SUBSET Units
    PROVE  IsFiniteSet(S) /\ Cardinality(S) \in Nat /\ \A u \in S : u \in Int
<1>1. UnitCount \in Nat
  BY BatchAssumption
<1>2. IsFiniteSet(1..UnitCount)
  BY <1>1, FS_Interval
<1>3. IsFiniteSet(S)
  BY <1>2, FS_Subset DEF Units
<1>4. \A u \in S : u \in Int
  BY <1>1 DEF Units
<1> QED
  BY <1>3, <1>4, FS_CardinalityType

\* A set of units has a first one and a last one: of the sets of units before
\* (after) a member, one has no other as a proper subset.
LEMMA FirstAndLast ==
    ASSUME NEW S \in SUBSET Units, S # {}
    PROVE  /\ \E u \in S : \A v \in S : u <= v
           /\ \E u \in S : \A v \in S : v <= u
<1>1. IsFiniteSet(S) /\ \A v \in S : v \in Int
  BY UnitsFinite
<1>2. IsWellFoundedOn(StrictSubsetOrdering(S), FiniteSubsetsOf(S))
  BY FS_StrictSubsetOrderingWellFounded
<1>3. SUBSET S = FiniteSubsetsOf(S)
  BY <1>1, FS_FiniteSubsetsOfFinite
<1>4. \E u \in S : \A v \in S : u <= v
  <2> DEFINE Lower(u) == {v \in S : v < u}
             T == {Lower(u) : u \in S}
  <2>0. \A u \in S : Lower(u) \in SUBSET S
    OBVIOUS
  <2> HIDE DEF Lower
  <2>1. T \subseteq FiniteSubsetsOf(S) /\ T # {}
    BY <1>3, <2>0
  <2>2. \E x \in T : \A y \in T : ~(<<y, x>> \in StrictSubsetOrdering(S))
    BY <1>2, <2>1, WFMin
  <2>3. PICK u \in S : \A v \in S : ~(<<Lower(v), Lower(u)>> \in StrictSubsetOrdering(S))
    BY <2>2
  <2>4. ASSUME NEW v \in S, v < u PROVE FALSE
    <3>1. \A w \in S : w \in Int
      BY <1>1
    <3>2. Lower(v) \subseteq Lower(u) /\ v \in Lower(u) /\ v \notin Lower(v)
      BY <2>4, <3>1 DEF Lower
    <3>3. <<Lower(v), Lower(u)>> \in StrictSubsetOrdering(S)
      BY <2>0, <2>4, <3>2 DEF StrictSubsetOrdering
    <3> QED
      BY <2>3, <2>4, <3>3
  <2> QED
    BY <1>1, <2>4
<1>5. \E u \in S : \A v \in S : v <= u
  <2> DEFINE Upper(u) == {v \in S : u < v}
             T == {Upper(u) : u \in S}
  <2>0. \A u \in S : Upper(u) \in SUBSET S
    OBVIOUS
  <2> HIDE DEF Upper
  <2>1. T \subseteq FiniteSubsetsOf(S) /\ T # {}
    BY <1>3, <2>0
  <2>2. \E x \in T : \A y \in T : ~(<<y, x>> \in StrictSubsetOrdering(S))
    BY <1>2, <2>1, WFMin
  <2>3. PICK u \in S : \A v \in S : ~(<<Upper(v), Upper(u)>> \in StrictSubsetOrdering(S))
    BY <2>2
  <2>4. ASSUME NEW v \in S, u < v PROVE FALSE
    <3>1. \A w \in S : w \in Int
      BY <1>1
    <3>2. Upper(v) \subseteq Upper(u) /\ v \in Upper(u) /\ v \notin Upper(v)
      BY <2>4, <3>1 DEF Upper
    <3>3. <<Upper(v), Upper(u)>> \in StrictSubsetOrdering(S)
      BY <2>0, <2>4, <3>2 DEF StrictSubsetOrdering
    <3> QED
      BY <2>3, <2>4, <3>3
  <2> QED
    BY <1>1, <2>4
<1> QED
  BY <1>4, <1>5

\* A unit of a set has fewer units before it than the set has.
LEMMA BeforeBound ==
    ASSUME NEW S \in SUBSET Units, NEW u \in S
    PROVE  /\ Before(S, u) \in Nat /\ Cardinality(S) \in Nat
           /\ Before(S, u) <= Cardinality(S) - 1
<1>1. IsFiniteSet(S) /\ \A v \in S : v \in Int
  BY UnitsFinite
<1>2. {v \in S : v < u} \subseteq S \ {u}
  BY <1>1
<1>3. IsFiniteSet(S \ {u}) /\ Cardinality(S \ {u}) = Cardinality(S) - 1
  BY <1>1, FS_RemoveElement
<1>4. /\ Cardinality({v \in S : v < u}) <= Cardinality(S \ {u})
      /\ IsFiniteSet({v \in S : v < u})
  BY <1>2, <1>3, FS_Subset
<1> QED
  BY <1>1, <1>3, <1>4, FS_CardinalityType DEF Before

\* Every smaller number of units stands before some unit.
LEMMA BeforeOnto ==
    ASSUME NEW S \in SUBSET Units, NEW k \in Nat, k < Cardinality(S)
    PROVE  \E u \in S : Before(S, u) = k
<1>1. IsFiniteSet(S) /\ Cardinality(S) \in Nat /\ \A v \in S : v \in Int
  BY UnitsFinite
<1>2. S # {}
  BY FS_EmptySet
<1>3. PICK g \in S : \A v \in S : v <= g
  BY <1>2, FirstAndLast
<1>4. Before(S, g) = Cardinality(S) - 1
  <2>1. \A v \in S : v < g <=> v # g
    BY <1>1, <1>3
  <2>2. {v \in S : v < g} = S \ {g}
    BY <2>1
  <2> QED
    BY <1>1, <2>2, FS_RemoveElement DEF Before
<1> DEFINE T == {u \in S : Before(S, u) >= k}
<1>5. PICK u \in T : \A v \in T : u <= v
  <2>1. g \in T
    BY <1>1, <1>4
  <2> QED
    BY <2>1, FirstAndLast
<1>6. ASSUME NEW v \in S, v < u PROVE Before(S, v) < k
  BY <1>1, <1>5, <1>6, BeforeBound
<1> DEFINE P == {v \in S : v < u}
<1>7. CASE P = {}
  <2>1. Before(S, u) = 0
    BY <1>7, FS_EmptySet DEF Before
  <2> QED
    BY <1>5, <2>1
<1>8. CASE P # {}
  <2>1. PICK p \in P : \A v \in P : v <= p
    BY <1>8, FirstAndLast
  <2>2. {v \in S : v < p} = P \ {p}
    <3>1. \A v \in S : v < p <=> v < u /\ v # p
      BY <1>1, <1>5, <2>1
    <3> QED
      BY <3>1
  <2>3. IsFiniteSet(P) /\ Cardinality(P \ {p}) = Cardinality(P) - 1
    BY <1>1, <2>1, FS_Subset, FS_RemoveElement
  <2>4. Before(S, p) = Before(S, u) - 1 /\ Before(S, p) < k
    BY <1>6, <2>1, <2>2, <2>3 DEF Before
  <2> QED
    BY <1>5, <2>1, <2>4, BeforeBound
<1> QED
  BY <1>7, <1>8

\* Division by the size of a batch.
LEMMA Division ==
    ASSUME NEW size \in Nat \ {0}, NEW k \in Nat
    PROVE  /\ k \div size \in Nat
           /\ size * (k \div size) <= k /\ k < size * (k \div size) + size
<1>1. size > 0
  OBVIOUS
<1>2. k \div size \in Nat
  BY <1>1
<1>3. size * (k \div size) <= k
  BY <1>1
<1>4. k < size * (k \div size) + size
  BY <1>1
<1> QED
  BY <1>2, <1>3, <1>4

\* The quotient is the number between the multiples.
LEMMA DivisionIs ==
    ASSUME NEW size \in Nat \ {0}, NEW k \in Nat, NEW q \in Nat,
           size * q <= k, k < size * q + size
    PROVE  k \div size = q
<1> DEFINE d == k \div size
<1>1. d \in Nat /\ size * d <= k /\ k < size * d + size
  BY Division
<1> HIDE DEF d
<1>2. ASSUME d < q PROVE FALSE
  <2>1. d + 1 <= q
    BY <1>1, <1>2
  <2>2. size * (d + 1) <= size * q
    BY <1>1, <2>1
  <2>3. size * (d + 1) = size * d + size
    BY <1>1
  <2> QED
    BY <1>1, <2>2, <2>3
<1>3. ASSUME q < d PROVE FALSE
  <2>1. q + 1 <= d
    BY <1>1, <1>3
  <2>2. size * (q + 1) <= size * d
    BY <1>1, <2>1
  <2>3. size * (q + 1) = size * q + size
    OBVIOUS
  <2> QED
    BY <1>1, <2>2, <2>3
<1> QED
  BY <1>1, <1>2, <1>3 DEF d

\* The batches of a set of units are never empty, have no unit in common, and
\* have all its units.
LEMMA BatchesCover ==
    ASSUME NEW S \in SUBSET Units, NEW size \in Nat \ {0}
    PROVE  /\ CreateBatches(S, size) \in Seq((SUBSET Units) \ {{}})
           /\ \A i, j \in DOMAIN CreateBatches(S, size) :
                 i # j => CreateBatches(S, size)[i] \cap CreateBatches(S, size)[j] = {}
           /\ \A u \in Units : u \in S <=> \E i \in DOMAIN CreateBatches(S, size) :
                                             u \in CreateBatches(S, size)[i]
<1> DEFINE n == Cardinality(S)
           count == (n + size - 1) \div size
           q == CreateBatches(S, size)
<1>1. n \in Nat
  BY UnitsFinite
<1>2. n + size - 1 \in Nat
  BY <1>1
<1>3. count \in Nat /\ size * count <= n + size - 1 /\ n + size - 1 < size * count + size
  BY <1>2, Division
<1>4. q = [b \in 1..count |-> Chunk(S, size, b)]
  BY DEF CreateBatches
<1> HIDE DEF n, count, q
<1>5. ASSUME NEW b \in 1..count PROVE Chunk(S, size, b) # {}
  <2>1. b - 1 \in Nat /\ b \in Nat /\ b <= count
    BY <1>3, <1>5
  <2>2. size * b <= size * count
    BY <1>3, <2>1
  <2>3. size * b = size * (b - 1) + size /\ size * (b - 1) \in Nat
    BY <2>1
  <2>4. size * (b - 1) < n
    BY <1>1, <1>3, <2>2, <2>3
  <2>5. PICK u \in S : Before(S, u) = size * (b - 1)
    BY <2>3, <2>4, BeforeOnto DEF n
  <2>6. (size * (b - 1)) \div size = b - 1
    BY <2>1, <2>3, DivisionIs
  <2> QED
    BY <2>5, <2>6 DEF Chunk
<1>6. ASSUME NEW u \in S
      PROVE  /\ Before(S, u) \div size \in Nat
             /\ (Before(S, u) \div size) + 1 \in 1..count
  <2> DEFINE k == Before(S, u)
             d == k \div size
  <2>1. k \in Nat /\ k <= n - 1
    BY <1>6, BeforeBound DEF n
  <2>2. d \in Nat /\ size * d <= k
    BY <2>1, Division
  <2> HIDE DEF k, d
  <2>3. size * d + size < size * count + size
    BY <1>1, <1>3, <2>1, <2>2
  <2>4. ASSUME count <= d PROVE FALSE
    <3>1. size * count <= size * d
      BY <1>3, <2>2, <2>4
    <3> QED
      BY <1>3, <2>2, <2>3, <3>1
  <2> QED
    BY <1>3, <2>2, <2>4 DEF k, d
<1>7. q \in Seq((SUBSET Units) \ {{}})
  <2>1. \A b \in 1..count : Chunk(S, size, b) \in SUBSET Units
    BY DEF Chunk
  <2>2. \A b \in 1..count : Chunk(S, size, b) \in (SUBSET Units) \ {{}}
    BY <1>5, <2>1
  <2> QED
    BY <1>3, <1>4, <2>2
<1>8. ASSUME NEW i \in DOMAIN q, NEW j \in DOMAIN q, i # j PROVE q[i] \cap q[j] = {}
  <2>1. i \in Int /\ j \in Int /\ q[i] = Chunk(S, size, i) /\ q[j] = Chunk(S, size, j)
    BY <1>3, <1>4, <1>8
  <2> QED
    BY <1>8, <2>1 DEF Chunk
<1>9. ASSUME NEW u \in Units PROVE u \in S <=> \E i \in DOMAIN q : u \in q[i]
  <2>1. ASSUME u \in S PROVE \E i \in DOMAIN q : u \in q[i]
    <3> DEFINE d == Before(S, u) \div size
    <3>1. d \in Nat /\ d + 1 \in 1..count
      BY <1>6, <2>1
    <3>2. u \in Chunk(S, size, d + 1)
      BY <2>1, <3>1 DEF Chunk
    <3> QED
      BY <1>4, <3>1, <3>2
  <2>2. ASSUME NEW i \in DOMAIN q, u \in q[i] PROVE u \in S
    BY <1>4, <2>2 DEF Chunk
  <2> QED
    BY <2>1, <2>2
<1> QED
  BY <1>7, <1>8, <1>9 DEF q

(* ---- the texts of some units ---- *)

TextSet == UNION {[D -> Texts] : D \in SUBSET Units}

\* No texts, texts that others are updated with, some of the texts.
LEMMA NoTexts == Nothing \in TextSet /\ DOMAIN Nothing = {}
<1>1. DOMAIN Nothing = {} /\ Nothing \in [{} -> Texts]
  BY DEF Nothing
<1> QED
  BY <1>1 DEF TextSet

LEMMA TextsAre ==
    ASSUME NEW t \in TextSet
    PROVE  DOMAIN t \subseteq Units /\ t \in [DOMAIN t -> Texts]
BY DEF TextSet

LEMMA TextsMerge ==
    ASSUME NEW t \in TextSet, NEW r \in TextSet
    PROVE  /\ Updated(t, r) \in TextSet
           /\ DOMAIN Updated(t, r) = DOMAIN t \cup DOMAIN r
           /\ \A u \in DOMAIN r : Updated(t, r)[u] = r[u]
           /\ \A u \in DOMAIN t \ DOMAIN r : Updated(t, r)[u] = t[u]
<1>1. Updated(t, r) = [u \in DOMAIN t \cup DOMAIN r |-> IF u \in DOMAIN r THEN r[u] ELSE t[u]]
  BY DEF Updated
<1>2. Updated(t, r) \in [DOMAIN t \cup DOMAIN r -> Texts]
  BY <1>1, TextsAre
<1>3. DOMAIN t \cup DOMAIN r \in SUBSET Units
  BY TextsAre
<1>4. Updated(t, r) \in TextSet
  BY <1>2, <1>3 DEF TextSet
<1> QED
  BY <1>1, <1>4

LEMMA TextsRestrict ==
    ASSUME NEW t \in TextSet, NEW D \in SUBSET DOMAIN t
    PROVE  /\ Restrict(t, D) \in TextSet /\ DOMAIN Restrict(t, D) = D
           /\ \A u \in D : Restrict(t, D)[u] = t[u]
<1>1. Restrict(t, D) = [u \in D |-> t[u]]
  BY DEF Restrict
<1>2. Restrict(t, D) \in [D -> Texts] /\ D \in SUBSET Units
  BY <1>1, TextsAre
<1>3. Restrict(t, D) \in TextSet
  BY <1>2 DEF TextSet
<1> QED
  BY <1>1, <1>3

(* ---- the frames of the provider's recursion ---- *)

Batches == (SUBSET Units) \ {{}}
FrameStages == {"ask", "split", "missing", "integrity"}
Frames == [units : Batches, depth : 0..MaxSplitDepth, stage : FrameStages, texts : TextSet,
           retry : SUBSET Units, found : SUBSET Units]
Returns == [kind : {"result", "raise"}, result : TextSet, found : SUBSET Units]

\* A bad text is one that came for a unit nobody asked about.  Unless the batch
\* was split, a text that was taken from the source is among the findings.
CleanTexts == {t \in TextSet : \A u \in DOMAIN t : t[u] = "bad" => u \in tbStray}
SourcesFound(texts, found) ==
    tbSplit \/ \A u \in DOMAIN texts : texts[u] = "source" => u \in found

\* In a frame that asked for what was missing the other texts are not checked
\* yet.  A frame that has called waits for an answer and asks for none.
GoodFrames ==
    {f \in Frames :
        /\ \A u \in DOMAIN f.texts :
              f.texts[u] = "bad" => u \in tbStray \/ (f.stage = "missing" /\ u \in f.units)
        /\ SourcesFound(f.texts, f.found)
        /\ f.stage = "split" => tbSplit}
Callers == {f \in GoodFrames : f.stage # "ask"}
GoodReturns == {r \in Returns : r.result \in CleanTexts /\ SourcesFound(r.result, r.found)}

ProviderInv ==
    /\ tbStray \subseteq Units /\ tbSplit \in BOOLEAN
    /\ tbStack \in Seq(GoodFrames) /\ tbRet \in {NoReturn} \cup GoodReturns
    /\ tbStack # <<>> => Below \in Seq(Callers)
    /\ tbRet # NoReturn => tbStack \in Seq(Callers)

\* The last frame of a stack, and the stack with another one in its place or
\* one more.
LEMMA StackSteps ==
    ASSUME NEW F, NEW C \in SUBSET F, NEW s \in Seq(F), s # <<>>,
           SubSeq(s, 1, Len(s) - 1) \in Seq(C), NEW g \in C, NEW h \in F
    PROVE  LET below == SubSeq(s, 1, Len(s) - 1)
           IN  /\ s[Len(s)] \in F
               /\ below \o <<g>> \in Seq(C) /\ below \o <<g>> # <<>>
               /\ SubSeq(below \o <<g>>, 1, Len(below \o <<g>>) - 1) = below
               /\ (below \o <<g>>) \o <<h>> \in Seq(F) /\ (below \o <<g>>) \o <<h>> # <<>>
               /\ SubSeq((below \o <<g>>) \o <<h>>, 1, Len((below \o <<g>>) \o <<h>>) - 1)
                     = below \o <<g>>
<1> DEFINE below == SubSeq(s, 1, Len(s) - 1)
           one == below \o <<g>>
           two == one \o <<h>>
<1>1. s[Len(s)] \in F
  OBVIOUS
<1>2. below \in Seq(C) /\ below \in Seq(F)
  OBVIOUS
<1> HIDE DEF below
<1>3. one \in Seq(C) /\ one \in Seq(F) /\ Len(one) = Len(below) + 1 /\ one # <<>>
      /\ \A i \in 1..Len(below) : one[i] = below[i]
  BY <1>2
<1>4. SubSeq(one, 1, Len(one) - 1) = below
  BY <1>2, <1>3
<1> HIDE DEF one
<1>5. two \in Seq(F) /\ Len(two) = Len(one) + 1 /\ two # <<>>
      /\ \A i \in 1..Len(one) : two[i] = one[i]
  BY <1>3
<1>6. SubSeq(two, 1, Len(two) - 1) = one
  BY <1>3, <1>5
<1> QED
  BY <1>1, <1>3, <1>4, <1>5, <1>6 DEF below, one, two

\* A stack of these frames is one of those, if these are those.
LEMMA StackWidens ==
    ASSUME NEW A, NEW B, A \subseteq B, NEW s \in Seq(A)
    PROVE  s \in Seq(B)
OBVIOUS

\* The frames of the code's assignments, field by field.
FrameOf(units, depth, stage, texts, retry, found) ==
    [units |-> units, depth |-> depth, stage |-> stage, texts |-> texts, retry |-> retry,
     found |-> found]

LEMMA FrameFields ==
    ASSUME NEW f \in Frames
    PROVE  /\ f.units \in Batches /\ f.depth \in 0..MaxSplitDepth /\ f.stage \in FrameStages
           /\ f.texts \in TextSet /\ f.retry \in SUBSET Units /\ f.found \in SUBSET Units
           /\ f = FrameOf(f.units, f.depth, f.stage, f.texts, f.retry, f.found)
BY DEF Frames, FrameOf

LEMMA FrameChanges ==
    ASSUME NEW f \in Frames
    PROVE  /\ \A x : [f EXCEPT !.found = x]
                        = FrameOf(f.units, f.depth, f.stage, f.texts, f.retry, x)
           /\ \A s, t, r : Waits(f, s, t, r) = FrameOf(f.units, f.depth, s, t, r, f.found)
<1>1. f = FrameOf(f.units, f.depth, f.stage, f.texts, f.retry, f.found)
  BY FrameFields
<1>2. \A x : [f EXCEPT !.found = x] = FrameOf(f.units, f.depth, f.stage, f.texts, f.retry, x)
  BY <1>1 DEF FrameOf
<1>3. ASSUME NEW s, NEW t, NEW r
      PROVE  Waits(f, s, t, r) = FrameOf(f.units, f.depth, s, t, r, f.found)
  <2> DEFINE g == FrameOf(f.units, f.depth, s, f.texts, f.retry, f.found)
             h == FrameOf(f.units, f.depth, s, t, f.retry, f.found)
  <2>1. [f EXCEPT !.stage = s] = g
    BY <1>1 DEF FrameOf
  <2>2. /\ [g EXCEPT !.texts = t] = h
        /\ [h EXCEPT !.retry = r] = FrameOf(f.units, f.depth, s, t, r, f.found)
    BY DEF FrameOf
  <2> HIDE DEF g, h
  <2> QED
    BY <2>1, <2>2 DEF Waits
<1> QED
  BY <1>2, <1>3

\* A call or a return of the service's is under way.
InFlight == tbStack # <<>> \/ tbRet # NoReturn

LEMMA ReturnsAre ==
    ASSUME NEW result \in TextSet, NEW found \in SUBSET Units
    PROVE  /\ Return(result, found) \in Returns /\ Raise(found) \in Returns
           /\ Return(result, found) # NoReturn /\ Raise(found) # NoReturn
           /\ Return(result, found).result = result /\ Return(result, found).found = found
           /\ Raise(found).result = Nothing
BY NoTexts DEF Return, Raise, Returns, NoReturn

\* A frame ends with what it may return.
LEMMA EndsKeep ==
    ASSUME tbStray' \subseteq Units, tbSplit' \in BOOLEAN, Below \in Seq(Callers'),
           NEW return \in GoodReturns', Ends(return)
    PROVE  ProviderInv' /\ InFlight'
<1>1. tbStack' \in Seq(Callers') /\ tbRet' = return
  BY DEF Ends
<1>2. tbStack' \in Seq(GoodFrames')
  <2>1. Callers' \subseteq GoodFrames'
    BY DEF Callers
  <2> QED
    BY <1>1, <2>1, StackWidens
<1>3. tbRet' # NoReturn
  BY <1>1 DEF GoodReturns, Returns, NoReturn
<1>4. tbStack' # <<>> => SubSeq(tbStack', 1, Len(tbStack') - 1) \in Seq(Callers')
  BY <1>1
<1> QED
  BY <1>1, <1>2, <1>3, <1>4 DEF ProviderInv, Below, InFlight

\* What a call that raises returns.
LEMMA RaiseIsGood ==
    ASSUME NEW found \in SUBSET Units
    PROVE  Raise(found) \in GoodReturns'
BY ReturnsAre, NoTexts DEF GoodReturns, CleanTexts, SourcesFound

\* A frame calls, if it is not too deep.
LEMMA EntersKeep ==
    ASSUME tbStray' \subseteq Units, tbSplit' \in BOOLEAN, tbStack \in Seq(GoodFrames'),
           tbStack # <<>>, Below \in Seq(Callers'), NEW caller \in Callers',
           NEW units \in Batches, NEW depth \in 1..(MaxSplitDepth + 1),
           Enters(caller, units, depth)
    PROVE  ProviderInv' /\ InFlight'
<1>1. caller.found \in SUBSET Units /\ Callers' \subseteq GoodFrames'
  BY FrameFields DEF Callers, GoodFrames
<1> DEFINE called == Frame(units, depth, caller.found)
           one == Below \o <<caller>>
           two == one \o <<called>>
<1>2. ASSUME depth <= MaxSplitDepth PROVE called \in GoodFrames'
  <2>1. depth \in 0..MaxSplitDepth
    BY <1>2, BatchAssumption
  <2>2. called \in Frames /\ called.texts = Nothing /\ called.stage = "ask"
    BY <1>1, <2>1, NoTexts DEF Frame, Frames, FrameStages
  <2> HIDE DEF called
  <2> QED
    BY <2>2, NoTexts DEF GoodFrames, SourcesFound
<1>3. /\ one \in Seq(Callers') /\ one # <<>>
      /\ SubSeq(one, 1, Len(one) - 1) = Below
  BY <1>1, StackSteps DEF Below
<1>4. ASSUME called \in GoodFrames'
      PROVE  /\ two \in Seq(GoodFrames') /\ two # <<>>
             /\ SubSeq(two, 1, Len(two) - 1) = one
  <2> HIDE DEF called
  <2> QED
    BY <1>1, <1>4, StackSteps DEF Below
<1> HIDE DEF called, one
<1>5. CASE depth > MaxSplitDepth
  <2>1. tbStack' = one /\ tbRet' = Raise(caller.found)
    BY <1>5 DEF Enters, Replaced, one
  <2>2. tbStack' \in Seq(GoodFrames') /\ tbRet' \in GoodReturns'
    BY <1>1, <1>3, <2>1, StackWidens, RaiseIsGood
  <2>3. SubSeq(tbStack', 1, Len(tbStack') - 1) \in Seq(Callers')
    BY <1>3, <2>1
  <2> QED
    BY <1>3, <2>1, <2>2, <2>3 DEF ProviderInv, Below, InFlight
<1>6. CASE depth <= MaxSplitDepth
  <2>1. tbStack' = two /\ tbRet' = NoReturn
    BY <1>6, BatchAssumption DEF Enters, Replaced, one, called
  <2>2. two \in Seq(GoodFrames') /\ two # <<>> /\ SubSeq(two, 1, Len(two) - 1) = one
    BY <1>2, <1>4, <1>6
  <2> HIDE DEF two
  <2> QED
    BY <1>3, <2>1, <2>2 DEF ProviderInv, Below, InFlight
<1> QED
  BY <1>5, <1>6, BatchAssumption

\* Units that keep their source text, and are recorded.
LEMMA FallbackIsGood ==
    ASSUME NEW f \in Frames, NEW texts \in CleanTexts', NEW broken \in SUBSET Units,
           SourcesFound(texts, f.found)'
    PROVE  SourceFallback(f, texts, broken) \in GoodReturns'
<1> DEFINE result == [u \in DOMAIN texts \cup broken |-> IF u \in broken THEN "source" ELSE texts[u]]
<1>1. texts \in TextSet /\ \A u \in DOMAIN texts : texts[u] = "bad" => u \in tbStray'
  BY DEF CleanTexts
<1>2. f.found \cup broken \in SUBSET Units
  BY FrameFields
<1>3. DOMAIN texts \cup broken \in SUBSET Units
  BY <1>1, TextsAre
<1>4. result \in [DOMAIN texts \cup broken -> Texts]
  BY <1>1, TextsAre DEF Texts
<1>5. result \in TextSet
  BY <1>3, <1>4 DEF TextSet
<1>6. /\ DOMAIN result = DOMAIN texts \cup broken
      /\ \A u \in DOMAIN result : result[u] = IF u \in broken THEN "source" ELSE texts[u]
  OBVIOUS
<1>7. SourceFallback(f, texts, broken) = Return(result, f.found \cup broken)
  BY DEF SourceFallback
<1> HIDE DEF result
<1>8. result \in CleanTexts'
  BY <1>1, <1>5, <1>6 DEF CleanTexts
<1>9. tbSplit' \/ \A u \in DOMAIN result : result[u] = "source" => u \in f.found \cup broken
  BY <1>6 DEF SourcesFound
<1> QED
  BY <1>2, <1>5, <1>7, <1>8, <1>9, ReturnsAre DEF GoodReturns, SourcesFound

\* The checks of a frame's raw texts: one that is spoilt is one of its units', or
\* came for a unit nobody asked about.
LEMMA PostProcessKeeps ==
    ASSUME tbStray' \subseteq Units, tbSplit' \in BOOLEAN, tbStack \in Seq(GoodFrames'),
           tbStack # <<>>, Below \in Seq(Callers'), NEW f \in Frames, NEW texts \in TextSet,
           \A u \in DOMAIN texts : texts[u] = "bad" => u \in tbStray' \/ u \in f.units,
           SourcesFound(texts, f.found)', PostProcess(f, texts)
    PROVE  ProviderInv' /\ InFlight'
<1>1. PICK broken \in SUBSET Units : broken = Incomplete(f, texts)
  BY FrameFields DEF Incomplete, Batches
<1>2. /\ broken \subseteq DOMAIN texts /\ broken \subseteq f.units
      /\ \A u \in DOMAIN texts \ broken : u \in f.units => texts[u] # "bad"
      /\ DOMAIN texts \ broken \in SUBSET DOMAIN texts
  BY <1>1 DEF Incomplete
<1>3. PICK kept \in TextSet :
        /\ kept = Restrict(texts, DOMAIN texts \ broken) /\ DOMAIN kept = DOMAIN texts \ broken
        /\ \A u \in DOMAIN texts \ broken : kept[u] = texts[u]
  BY <1>2, TextsRestrict
<1>4. IF broken = {} THEN Ends(Return(texts, f.found))
      ELSE IF f.depth < MaxSplitDepth
      THEN Enters(Waits(f, "integrity", kept, broken), broken, f.depth + 1)
      ELSE Ends(SourceFallback(f, kept, broken))
  BY <1>1, <1>3 DEF PostProcess
<1>5. kept \in CleanTexts'
  BY <1>2, <1>3 DEF CleanTexts
<1>6. SourcesFound(kept, f.found)'
  BY <1>3 DEF SourcesFound
<1>7. CASE broken = {}
  <2>1. texts \in CleanTexts'
    BY <1>2, <1>7 DEF CleanTexts
  <2>2. Return(texts, f.found) \in GoodReturns'
    BY <2>1, FrameFields, ReturnsAre DEF GoodReturns, SourcesFound
  <2> QED
    BY <1>4, <1>7, <2>2, EndsKeep
<1>8. CASE broken # {} /\ f.depth < MaxSplitDepth
  <2> DEFINE caller == FrameOf(f.units, f.depth, "integrity", kept, broken, f.found)
  <2>1. Waits(f, "integrity", kept, broken) = caller
    BY FrameChanges
  <2>2. Enters(caller, broken, f.depth + 1)
    BY <1>4, <1>8, <2>1
  <2>3. caller \in Frames /\ caller.stage = "integrity" /\ caller.texts = kept
        /\ caller.found = f.found
    BY FrameFields DEF FrameOf, Frames, FrameStages
  <2> HIDE DEF caller
  <2>4. caller \in Callers'
    BY <1>5, <1>6, <2>3 DEF Callers, GoodFrames, CleanTexts, SourcesFound
  <2>5. broken \in Batches /\ f.depth + 1 \in 1..(MaxSplitDepth + 1)
    BY <1>8, FrameFields, BatchAssumption DEF Batches
  <2> QED
    BY <2>2, <2>4, <2>5, EntersKeep
<1>9. CASE broken # {} /\ ~(f.depth < MaxSplitDepth)
  <2>1. SourceFallback(f, kept, broken) \in GoodReturns'
    BY <1>5, <1>6, FallbackIsGood
  <2> QED
    BY <1>4, <1>9, <2>1, EndsKeep
<1> QED
  BY <1>7, <1>8, <1>9

\* What was good stays good when more strays are known, or the batch was split.
LEMMA ProviderWidens ==
    ASSUME ProviderInv, tbStray \subseteq tbStray', tbSplit' \in BOOLEAN, tbSplit => tbSplit'
    PROVE  /\ tbStack \in Seq(GoodFrames')
           /\ tbStack # <<>> => Below \in Seq(Callers') /\ Top \in GoodFrames
           /\ tbRet # NoReturn => tbStack \in Seq(Callers')
           /\ Callers \subseteq Callers' /\ GoodReturns \subseteq GoodReturns'
           /\ CleanTexts \subseteq CleanTexts'
<1>1. GoodFrames \subseteq GoodFrames'
  BY DEF GoodFrames, SourcesFound
<1>2. Callers \subseteq Callers'
  BY <1>1 DEF Callers
<1>3. CleanTexts \subseteq CleanTexts'
  BY DEF CleanTexts
<1>4. GoodReturns \subseteq GoodReturns'
  BY <1>3 DEF GoodReturns, SourcesFound
<1>5. tbStack # <<>> => Below \in Seq(Callers') /\ Top \in GoodFrames
  BY <1>2, StackWidens DEF ProviderInv, Top
<1>6. tbStack \in Seq(GoodFrames') /\ (tbRet # NoReturn => tbStack \in Seq(Callers'))
  BY <1>1, <1>2, StackWidens DEF ProviderInv
<1> QED
  BY <1>2, <1>3, <1>4, <1>5, <1>6

\* A batch of several units is split in two.
LEMMA SplitKeeps ==
    ASSUME ProviderInv, Asking, Cardinality(Top.units) > 1, Split,
           tbStray \subseteq tbStray', tbStray' \subseteq Units
    PROVE  ProviderInv' /\ InFlight'
<1>1. tbSplit' = TRUE
  BY DEF Split
<1>2. /\ tbStack # <<>> /\ tbStack \in Seq(GoodFrames') /\ Below \in Seq(Callers')
      /\ Top \in GoodFrames /\ Top.stage = "ask"
  BY <1>1, ProviderWidens DEF Asking
<1>3. PICK f \in GoodFrames : f = Top /\ f.stage = "ask"
  BY <1>2
<1>4. f \in Frames /\ f.units \in SUBSET Units
  BY FrameFields DEF GoodFrames, Batches
<1>5. PICK left \in SUBSET f.units : left = FirstOf(f.units, Cardinality(f.units) \div 2)
  BY DEF FirstOf
<1>6. left \in Batches
  <2>1. Cardinality(f.units) \in Nat /\ Cardinality(f.units) > 1
    BY <1>3, <1>4, UnitsFinite
  <2>2. Cardinality(f.units) \div 2 >= 1
    BY <2>1
  <2>3. PICK u \in f.units : Before(f.units, u) = 0
    BY <1>4, <2>1, BeforeOnto
  <2>4. u \in left
    BY <1>5, <2>1, <2>2, <2>3 DEF FirstOf
  <2> QED
    BY <1>4, <2>4 DEF Batches
<1> DEFINE caller == FrameOf(f.units, f.depth, "split", f.texts, f.units \ left, f.found)
<1>7. Enters(caller, left, f.depth + 1)
  BY <1>3, <1>4, <1>5, FrameChanges DEF Split
<1>8. caller \in Frames /\ caller.stage = "split" /\ caller.texts = f.texts
      /\ caller.found = f.found
  BY <1>4, FrameFields DEF FrameOf, Frames, FrameStages
<1> HIDE DEF caller
<1>9. caller \in Callers'
  <2>1. \A u \in DOMAIN f.texts : f.texts[u] = "bad" => u \in tbStray
    BY <1>3 DEF GoodFrames
  <2> QED
    BY <1>1, <1>8, <2>1 DEF Callers, GoodFrames, SourcesFound
<1>10. f.depth + 1 \in 1..(MaxSplitDepth + 1)
  BY <1>4, FrameFields, BatchAssumption
<1> QED
  BY <1>1, <1>2, <1>6, <1>7, <1>9, <1>10, EntersKeep

\* An answer with texts for some of the units, and perhaps for another one.
LEMMA AnswerItemsKeep ==
    ASSUME ProviderInv, NEW texts \in TextSet, NEW repeated \in BOOLEAN, NEW stray \in TextSet,
           Asking => DOMAIN texts \subseteq Top.units,
           \A u \in DOMAIN texts : texts[u] # "source",
           \A u \in DOMAIN stray : stray[u] # "source",
           AnswerItems(texts, repeated, stray)
    PROVE  ProviderInv' /\ InFlight'
<1>1. Asking /\ tbStray' = tbStray \cup DOMAIN stray
  BY DEF AnswerItems
<1>2. tbStray \subseteq tbStray' /\ tbStray' \subseteq Units
  BY <1>1, TextsAre DEF ProviderInv
<1>3. PICK f : f = Top
  OBVIOUS
<1>4. f \in GoodFrames /\ tbStack # <<>>
  BY <1>1, <1>3 DEF Asking, ProviderInv, Top
<1>5. f \in Frames /\ f.units \in SUBSET Units
  BY <1>4, FrameFields DEF GoodFrames, Batches
<1>6. PICK raw \in TextSet : /\ raw = Updated(texts, stray)
                             /\ DOMAIN raw = DOMAIN texts \cup DOMAIN stray
                             /\ \A u \in DOMAIN stray : raw[u] = stray[u]
                             /\ \A u \in DOMAIN texts \ DOMAIN stray : raw[u] = texts[u]
  BY TextsMerge
<1>7. /\ \A u \in DOMAIN raw : raw[u] = "bad" => u \in tbStray' \/ u \in f.units
      /\ \A u \in DOMAIN raw : raw[u] # "source"
  BY <1>1, <1>3, <1>6
<1> DEFINE missing == f.units \ DOMAIN texts
<1>8. \/ Cardinality(f.units) > 1 /\ Split
      \/ /\ UNCHANGED tbSplit
         /\ \/ /\ missing # {} /\ f.depth < MaxSplitDepth
               /\ Enters(Waits(f, "missing", raw, f.retry), missing, f.depth + 1)
            \/ PostProcess(f, raw)
  BY <1>3, <1>6 DEF AnswerItems
<1>9. CASE Cardinality(f.units) > 1 /\ Split
  BY <1>1, <1>2, <1>3, <1>9, SplitKeeps
<1>10. ASSUME UNCHANGED tbSplit
       PROVE  /\ tbSplit' \in BOOLEAN /\ tbStack \in Seq(GoodFrames') /\ Below \in Seq(Callers')
  BY <1>2, <1>4, <1>10, ProviderWidens DEF ProviderInv
<1>11. CASE /\ UNCHANGED tbSplit /\ missing # {} /\ f.depth < MaxSplitDepth
            /\ Enters(Waits(f, "missing", raw, f.retry), missing, f.depth + 1)
  <2> DEFINE caller == FrameOf(f.units, f.depth, "missing", raw, f.retry, f.found)
  <2>1. Enters(caller, missing, f.depth + 1)
    BY <1>5, <1>11, FrameChanges
  <2>2. caller \in Frames /\ caller.stage = "missing" /\ caller.texts = raw
        /\ caller.found = f.found /\ caller.units = f.units
    BY <1>5, FrameFields DEF FrameOf, Frames, FrameStages
  <2> HIDE DEF caller
  <2>3. caller \in Callers'
    BY <1>7, <2>2 DEF Callers, GoodFrames, SourcesFound
  <2>4. missing \in Batches /\ f.depth + 1 \in 1..(MaxSplitDepth + 1)
    BY <1>5, <1>11, FrameFields, BatchAssumption DEF Batches
  <2> QED
    BY <1>2, <1>4, <1>10, <1>11, <2>1, <2>3, <2>4, EntersKeep
<1>12. CASE UNCHANGED tbSplit /\ PostProcess(f, raw)
  <2>1. SourcesFound(raw, f.found)'
    BY <1>7 DEF SourcesFound
  <2> QED
    BY <1>2, <1>4, <1>5, <1>7, <1>10, <1>12, <2>1, PostProcessKeeps
<1> QED
  BY <1>8, <1>9, <1>11, <1>12

\* The other answers split the batch, give up the frame, or end the job.
LEMMA AnswerKeeps ==
    ASSUME ProviderInv, Answer
    PROVE  /\ Asking /\ ProviderOnly
           /\ ProviderInv' /\ InFlight' /\ tbStray \subseteq tbStray'
        \/ /\ Asking /\ tbStack' = <<>> /\ tbOutcome' \in {"unavailable", "failed"}
           /\ ProviderInv'
           /\ UNCHANGED <<tbRet, tbQueue, tbRound, tbStill, tbAll, tbRussian, tbTries, tbStray,
                          tbSplit, tbUnrecorded>>
<1>1. ASSUME NEW delivered \in SUBSET (IF Asking THEN Top.units ELSE {}),
             NEW texts \in [delivered -> {"good", "bad"}], NEW repeated \in BOOLEAN,
             NEW stray \in {Nothing} \cup
                 UNION {[{u} -> {"good", "bad"}] : u \in (IF Asking THEN Units \ Top.units ELSE {})},
             AnswerItems(texts, repeated, stray)
      PROVE  ProviderInv' /\ InFlight' /\ Asking /\ ProviderOnly /\ tbStray \subseteq tbStray'
  <2>1. Asking /\ ProviderOnly /\ tbStray \subseteq tbStray'
    BY <1>1 DEF AnswerItems
  <2>2. Top.units \in SUBSET Units
    BY <2>1, FrameFields DEF Asking, ProviderInv, Top, GoodFrames, Batches
  <2>3. texts \in TextSet /\ DOMAIN texts \subseteq Top.units
        /\ \A u \in DOMAIN texts : texts[u] # "source"
    BY <1>1, <2>1, <2>2 DEF TextSet, Texts
  <2>4. stray \in TextSet /\ \A u \in DOMAIN stray : stray[u] # "source"
    <3>1. CASE stray = Nothing
      BY <3>1, NoTexts
    <3>2. CASE stray # Nothing
      <4>1. PICK u \in Units : stray \in [{u} -> {"good", "bad"}]
        BY <1>1, <2>1, <3>2
      <4>2. stray \in [{u} -> Texts] /\ {u} \in SUBSET Units
        BY <4>1 DEF Texts
      <4> QED
        BY <4>1, <4>2 DEF TextSet
    <3> QED
      BY <3>1, <3>2
  <2> QED
    BY <1>1, <2>1, <2>3, <2>4, AnswerItemsKeep
<1>2. ASSUME Asking, Ends(Raise(Top.found)), UNCHANGED <<tbSplit, tbStray>>
      PROVE  ProviderInv' /\ InFlight'
  <2>1. /\ tbStray' \subseteq Units /\ tbSplit' \in BOOLEAN /\ Below \in Seq(Callers')
        /\ Top \in GoodFrames
    BY <1>2, ProviderWidens DEF ProviderInv, Asking
  <2>2. PICK found \in SUBSET Units : found = Top.found
    BY <2>1, FrameFields DEF GoodFrames
  <2>3. Raise(found) \in GoodReturns' /\ Ends(Raise(found))
    BY <1>2, <2>2, RaiseIsGood
  <2> QED
    BY <2>1, <2>3, EndsKeep
<1>3. CASE AnswerUnreadable
  <2>1. Asking /\ ProviderOnly /\ UNCHANGED tbStray
        /\ \/ Cardinality(Top.units) > 1 /\ Split
           \/ Ends(Raise(Top.found)) /\ UNCHANGED tbSplit
    BY <1>3 DEF AnswerUnreadable
  <2> QED
    BY <1>2, <2>1, SplitKeeps DEF ProviderInv
<1>4. CASE AnswerNotAList
  BY <1>2, <1>4 DEF AnswerNotAList
<1>5. CASE AnswerMalformed \/ ModelUnavailable
  <2>1. /\ Asking /\ tbStack' = <<>> /\ tbOutcome' \in {"unavailable", "failed"}
        /\ UNCHANGED <<tbRet, tbQueue, tbRound, tbStill, tbAll, tbRussian, tbTries, tbStray,
                       tbSplit, tbUnrecorded>>
    BY <1>5 DEF AnswerMalformed, ModelUnavailable, Aborts
  <2>2. tbRet' = NoReturn
    BY <2>1 DEF Asking
  <2>3. ProviderInv'
    BY <2>1, <2>2 DEF ProviderInv
  <2> QED
    BY <2>1, <2>3
<1> QED
  BY <1>1, <1>3, <1>4, <1>5 DEF Answer

\* A frame gets what the one it called returned or raised.
LEMMA ResumeKeeps ==
    ASSUME ProviderInv, Resume
    PROVE  ProviderInv' /\ InFlight'
<1>1. tbStack # <<>> /\ tbRet # NoReturn /\ tbStray' = tbStray /\ tbSplit' = tbSplit
  BY DEF Resume
<1>2. /\ tbStray' \subseteq Units /\ tbSplit' \in BOOLEAN /\ tbStack # <<>>
      /\ tbStack \in Seq(GoodFrames') /\ Below \in Seq(Callers')
  BY <1>1, ProviderWidens DEF ProviderInv
<1>3. PICK top : top = Top /\ top \in Callers
  BY <1>1 DEF ProviderInv, Top
<1>4. PICK ret : ret = tbRet /\ ret \in GoodReturns
  BY <1>1 DEF ProviderInv
<1>5. /\ top \in Frames /\ top.stage # "ask" /\ SourcesFound(top.texts, top.found)
      /\ \A u \in DOMAIN top.texts :
            top.texts[u] = "bad" => u \in tbStray \/ (top.stage = "missing" /\ u \in top.units)
      /\ top.stage = "split" => tbSplit
  BY <1>3 DEF Callers, GoodFrames
<1>6. /\ ret \in Returns /\ ret.result \in TextSet /\ ret.found \in SUBSET Units
      /\ \A u \in DOMAIN ret.result : ret.result[u] = "bad" => u \in tbStray
      /\ SourcesFound(ret.result, ret.found)
  BY <1>4 DEF GoodReturns, Returns, CleanTexts
<1>7. PICK found \in SUBSET Units : /\ found = Collected(top, ret)
                                    /\ tbSplit \/ (top.found \subseteq found /\ ret.found \subseteq found)
  <2>1. top.found \in SUBSET Units
    BY <1>5, FrameFields
  <2>2. Collected(top, ret) \in SUBSET Units
    BY <1>6, <2>1 DEF Collected
  <2>3. top.found \subseteq Collected(top, ret)
    BY DEF Collected
  <2>4. top.stage # "split" => ret.found \subseteq Collected(top, ret)
    BY DEF Collected
  <2> QED
    BY <1>5, <2>2, <2>3, <2>4
<1>8. PICK f : f = [top EXCEPT !.found = found]
  OBVIOUS
<1>9. f = FrameOf(top.units, top.depth, top.stage, top.texts, top.retry, found)
  BY <1>5, <1>8, FrameChanges
<1>10. /\ f \in Frames /\ f.units = top.units /\ f.depth = top.depth /\ f.stage = top.stage
       /\ f.texts = top.texts /\ f.retry = top.retry /\ f.found = found
  BY <1>5, <1>9, FrameFields DEF FrameOf, Frames
<1>11. PICK merged \in TextSet :
         /\ merged = Updated(f.texts, ret.result)
         /\ DOMAIN merged = DOMAIN f.texts \cup DOMAIN ret.result
         /\ \A u \in DOMAIN ret.result : merged[u] = ret.result[u]
         /\ \A u \in DOMAIN f.texts \ DOMAIN ret.result : merged[u] = f.texts[u]
  <2>1. f.texts \in TextSet /\ ret.result \in TextSet
    BY <1>6, <1>10, FrameFields
  <2>2. PICK t \in TextSet : t = f.texts
    BY <2>1
  <2>3. PICK r \in TextSet : r = ret.result
    BY <2>1
  <2>4. /\ Updated(t, r) \in TextSet /\ DOMAIN Updated(t, r) = DOMAIN t \cup DOMAIN r
        /\ \A u \in DOMAIN r : Updated(t, r)[u] = r[u]
        /\ \A u \in DOMAIN t \ DOMAIN r : Updated(t, r)[u] = t[u]
    BY TextsMerge
  <2> QED
    BY <2>2, <2>3, <2>4
<1>12. /\ \A u \in DOMAIN merged : merged[u] = "bad" =>
             u \in tbStray' \/ (f.stage = "missing" /\ u \in f.units)
       /\ SourcesFound(merged, found)'
  <2>1. UNCHANGED <<tbStray, tbSplit>>
    BY <1>1
  <2> QED
    BY <1>5, <1>6, <1>7, <1>10, <1>11, <2>1 DEF SourcesFound
<1>13. CASE f.stage = "split"
  <2>1. IF ret.kind = "raise" THEN Ends(Raise(f.found))
        ELSE IF f.retry # {}
        THEN Enters(Waits(f, "split", merged, {}), f.retry, f.depth + 1)
        ELSE Ends(Return(merged, f.found))
    BY <1>3, <1>4, <1>7, <1>8, <1>11, <1>13 DEF Resume
  <2>2. merged \in CleanTexts'
    BY <1>12, <1>13 DEF CleanTexts
  <2>3. CASE ret.kind = "raise"
    <3>1. Ends(Raise(found)) /\ Raise(found) \in GoodReturns'
      BY <1>10, <2>1, <2>3, RaiseIsGood
    <3> QED
      BY <1>2, <3>1, EndsKeep
  <2>4. CASE ret.kind # "raise" /\ f.retry # {}
    <3> DEFINE caller == FrameOf(f.units, f.depth, "split", merged, {}, f.found)
    <3>1. Enters(caller, f.retry, f.depth + 1)
      BY <1>10, <2>1, <2>4, FrameChanges
    <3>2. caller \in Frames /\ caller.stage = "split" /\ caller.texts = merged
          /\ caller.found = found
      BY <1>10, FrameFields DEF FrameOf, Frames, FrameStages
    <3> HIDE DEF caller
    <3>3. tbSplit'
      BY <1>1, <1>5, <1>10, <1>13
    <3>4. caller \in Callers'
      BY <1>12, <2>2, <3>2, <3>3 DEF Callers, GoodFrames, CleanTexts, SourcesFound
    <3>5. f.retry \in Batches /\ f.depth + 1 \in 1..(MaxSplitDepth + 1)
      BY <1>10, <2>4, FrameFields, BatchAssumption DEF Batches
    <3> QED
      BY <1>2, <3>1, <3>4, <3>5, EntersKeep
  <2>5. CASE ret.kind # "raise" /\ f.retry = {}
    <3>1. Return(merged, found) \in GoodReturns'
      BY <1>12, <2>2, ReturnsAre DEF GoodReturns, SourcesFound
    <3>2. Ends(Return(merged, found))
      BY <1>10, <2>1, <2>5
    <3> QED
      BY <1>2, <3>1, <3>2, EndsKeep
  <2> QED
    BY <2>3, <2>4, <2>5
<1>14. CASE f.stage = "missing"
  <2>1. PostProcess(f, merged)
    BY <1>3, <1>4, <1>7, <1>8, <1>11, <1>14 DEF Resume
  <2>2. SourcesFound(merged, f.found)'
    BY <1>10, <1>12
  <2> QED
    BY <1>2, <1>10, <1>12, <2>1, <2>2, PostProcessKeeps
<1>15. CASE f.stage = "integrity"
  <2>1. PICK taken \in TextSet :
          /\ taken = Restrict(merged, DOMAIN f.texts \cup (f.retry \cap DOMAIN ret.result))
          /\ DOMAIN taken \subseteq DOMAIN merged
          /\ \A u \in DOMAIN taken : taken[u] = merged[u]
    <3>1. DOMAIN f.texts \cup (f.retry \cap DOMAIN ret.result) \in SUBSET DOMAIN merged
      BY <1>11
    <3> QED
      BY <3>1, TextsRestrict
  <2>2. Ends(SourceFallback(f, taken, f.retry \ DOMAIN taken))
    BY <1>3, <1>4, <1>7, <1>8, <1>11, <1>15, <2>1 DEF Resume
  <2>3. taken \in CleanTexts' /\ SourcesFound(taken, f.found)'
    BY <1>10, <1>12, <1>15, <2>1 DEF CleanTexts, SourcesFound
  <2>4. f.retry \ DOMAIN taken \in SUBSET Units
    BY <1>10, FrameFields
  <2>5. SourceFallback(f, taken, f.retry \ DOMAIN taken) \in GoodReturns'
    BY <1>10, <2>3, <2>4, FallbackIsGood
  <2> QED
    BY <1>2, <2>2, <2>5, EndsKeep
<1> QED
  BY <1>5, <1>10, <1>13, <1>14, <1>15, FrameFields DEF FrameStages

(* ---- the service's passes over the document ---- *)

Outcomes == {"waiting", "running", "done", "cancelled", "unavailable", "failed"}
ServiceInv ==
    /\ tbQueue \in Seq(Batches) /\ tbRound \in 0..GapRounds /\ tbStill \subseteq Units
    /\ tbAll \in CleanTexts /\ tbOutcome \in Outcomes /\ tbTries \in [Units -> 0..(GapRounds + 1)]
    /\ tbUnrecorded = {}
    /\ InFlight => tbQueue # <<>> /\ tbOutcome = "running"

\* A unit whose batch is still to be sent was sent in every pass before this one,
\* and one that has no text was sent in this one too, and is remembered.
Sending(i) == i = 1 /\ InFlight
Counted(u) ==
    /\ \A i \in DOMAIN tbQueue :
          u \in tbQueue[i] => tbTries[u] = IF Sending(i) THEN tbRound + 1 ELSE tbRound
    /\ u \in tbStill => tbTries[u] = tbRound + 1
    /\ u \notin DOMAIN tbAll => \/ \E i \in DOMAIN tbQueue : u \in tbQueue[i]
                                \/ tbTries[u] = tbRound + 1 /\ (tbRound # 0 => u \in tbStill)
PassInv ==
    /\ \A i, j \in DOMAIN tbQueue : i # j => tbQueue[i] \cap tbQueue[j] = {}
    /\ tbOutcome \in {"waiting", "running"} => \A u \in Units : Counted(u)
    /\ tbOutcome = "done" => \A u \in Units \ DOMAIN tbAll : tbTries[u] = GapRounds + 1

BatchInv == ProviderInv /\ ServiceInv /\ PassInv

\* The passes are not concerned with what the provider does within a batch.
LEMMA ServiceStands ==
    ASSUME ServiceInv, PassInv, InFlight, InFlight', tbStray \subseteq tbStray',
           UNCHANGED <<tbQueue, tbRound, tbStill, tbAll, tbOutcome, tbTries, tbUnrecorded>>
    PROVE  ServiceInv' /\ PassInv'
<1>1. tbAll' \in CleanTexts'
  BY DEF ServiceInv, CleanTexts
<1>2. ServiceInv'
  BY <1>1 DEF ServiceInv
<1>3. \A u \in Units : Counted(u) => Counted(u)'
  BY DEF Counted, Sending
<1>4. PassInv'
  BY <1>3 DEF PassInv
<1> QED
  BY <1>2, <1>4

\* When the job ends before its passes do, only the types of them matter.
LEMMA ServiceAborted ==
    ASSUME ServiceInv, PassInv, tbStack' = <<>>, tbRet' = NoReturn,
           tbOutcome' \in Outcomes \ {"waiting", "running", "done"}, tbStray' = tbStray,
           UNCHANGED <<tbQueue, tbRound, tbStill, tbAll, tbTries, tbUnrecorded>>
    PROVE  ServiceInv' /\ PassInv'
<1>1. tbAll' \in CleanTexts'
  BY DEF ServiceInv, CleanTexts
<1>2. ~InFlight'
  BY DEF InFlight
<1>3. ServiceInv'
  BY <1>1, <1>2 DEF ServiceInv
<1>4. PassInv'
  BY DEF PassInv, Outcomes
<1> QED
  BY <1>3, <1>4

\* A batch is sent.
LEMMA SendBatchKeeps == ASSUME BatchInv, SendBatch PROVE BatchInv'
<1>1. /\ tbOutcome = "running" /\ tbStack = <<>> /\ tbRet = NoReturn /\ tbQueue # <<>>
      /\ ~InFlight
      /\ UNCHANGED <<tbRet, tbQueue, tbRound, tbStill, tbAll, tbOutcome, tbRussian, tbStray,
                     tbSplit, tbUnrecorded>>
  BY DEF SendBatch, Between, InFlight
<1>2. /\ tbQueue \in Seq(Batches) /\ tbRound \in 0..GapRounds /\ GapRounds \in Nat
      /\ tbTries \in [Units -> 0..(GapRounds + 1)]
  BY BatchAssumption DEF BatchInv, ServiceInv
<1>3. PICK head \in Batches : head = Head(tbQueue) /\ head = tbQueue[1] /\ 1 \in DOMAIN tbQueue
  BY <1>1, <1>2
<1>4. tbTries' = [u \in Units |-> IF u \in head /\ tbTries[u] < GapRounds + 2
                                  THEN tbTries[u] + 1 ELSE tbTries[u]]
  BY <1>3 DEF SendBatch
<1>5. PICK frame : frame = Frame(head, 0, {}) /\ tbStack' = <<frame>>
  BY <1>3 DEF SendBatch
<1>6. ProviderInv' /\ InFlight'
  <2>1. frame \in Frames /\ frame.texts = Nothing /\ frame.stage = "ask"
    <3>1. 0 \in 0..MaxSplitDepth
      BY BatchAssumption
    <3> QED
      BY <1>5, <3>1, NoTexts DEF Frame, Frames, FrameStages
  <2>2. frame \in GoodFrames'
    BY <2>1, NoTexts DEF GoodFrames, SourcesFound
  <2>3. /\ tbStack' \in Seq(GoodFrames') /\ tbStack' # <<>>
        /\ SubSeq(tbStack', 1, Len(tbStack') - 1) = <<>>
    BY <1>5, <2>2
  <2>4. Below' \in Seq(Callers')
    <3>1. <<>> \in Seq(Callers')
      OBVIOUS
    <3>2. Below' = SubSeq(tbStack', 1, Len(tbStack') - 1)
      BY DEF Below
    <3> QED
      BY <2>3, <3>1, <3>2
  <2>5. tbStray' \subseteq Units /\ tbSplit' \in BOOLEAN /\ tbRet' = NoReturn
    BY <1>1 DEF BatchInv, ProviderInv
  <2> QED
    BY <2>3, <2>4, <2>5 DEF ProviderInv, InFlight
<1>7. \A u \in Units : Counted(u) /\ (u \in head => tbTries[u] = tbRound)
  <2>1. \A u \in Units : Counted(u)
    BY <1>1 DEF BatchInv, PassInv
  <2> QED
    BY <1>1, <1>3, <2>1 DEF Counted, Sending
<1>8. \A u \in Units : tbTries'[u] = IF u \in head THEN tbRound + 1 ELSE tbTries[u]
  BY <1>2, <1>4, <1>7
<1>9. tbTries' \in [Units -> 0..(GapRounds + 1)]
  <2>1. \A u \in Units : tbTries'[u] \in 0..(GapRounds + 1)
    BY <1>2, <1>8
  <2> QED
    BY <1>4, <2>1
<1>10. ServiceInv'
  <2>1. tbAll' \in CleanTexts'
    BY <1>1 DEF BatchInv, ServiceInv, CleanTexts
  <2> QED
    BY <1>1, <1>9, <2>1 DEF BatchInv, ServiceInv
<1>11. ASSUME NEW u \in Units PROVE Counted(u)'
  <2>1. ASSUME NEW i \in DOMAIN tbQueue, u \in tbQueue[i]
        PROVE  tbTries'[u] = IF i = 1 THEN tbRound + 1 ELSE tbRound
    <3>1. CASE i = 1
      BY <1>3, <1>8, <2>1, <3>1
    <3>2. CASE i # 1
      <4>1. u \notin head
        BY <1>3, <2>1, <3>2 DEF BatchInv, PassInv
      <4> QED
        BY <1>1, <1>7, <1>8, <2>1, <3>2, <4>1 DEF Counted, Sending
    <3> QED
      BY <3>1, <3>2
  <2>2. u \in tbStill => tbTries'[u] = tbRound + 1
    BY <1>7, <1>8 DEF Counted
  <2>3. u \notin DOMAIN tbAll =>
           \/ \E i \in DOMAIN tbQueue : u \in tbQueue[i]
           \/ tbTries'[u] = tbRound + 1 /\ (tbRound # 0 => u \in tbStill)
    BY <1>3, <1>7, <1>8 DEF Counted
  <2> QED
    BY <1>1, <1>6, <2>1, <2>2, <2>3 DEF Counted, Sending
<1>12. PassInv'
  BY <1>1, <1>11 DEF BatchInv, PassInv
<1> QED
  BY <1>6, <1>10, <1>12 DEF BatchInv

\* The first batch of a queue, and the batches behind it.
LEMMA QueueTail ==
    ASSUME NEW q \in Seq(Batches), q # <<>>
    PROVE  /\ 1 \in DOMAIN q /\ Head(q) = q[1] /\ Head(q) \in Batches
           /\ Tail(q) \in Seq(Batches)
           /\ \A i \in DOMAIN Tail(q) : i + 1 \in DOMAIN q /\ i + 1 # 1 /\ Tail(q)[i] = q[i + 1]
           /\ \A i \in DOMAIN q : i # 1 => i - 1 \in DOMAIN Tail(q) /\ Tail(q)[i - 1] = q[i]
           /\ DOMAIN q \subseteq Int /\ DOMAIN Tail(q) \subseteq Int
<1>1. Len(q) \in Nat /\ Len(q) > 0 /\ DOMAIN q = 1..Len(q)
  OBVIOUS
<1>2. Head(q) = q[1] /\ Head(q) \in Batches /\ Tail(q) \in Seq(Batches)
      /\ Len(Tail(q)) = Len(q) - 1
  OBVIOUS
<1>3. \A i \in 1..(Len(q) - 1) : Tail(q)[i] = q[i + 1]
  OBVIOUS
<1>4. DOMAIN Tail(q) = 1..(Len(q) - 1)
  BY <1>1, <1>2
<1>5. \A i \in DOMAIN Tail(q) : i + 1 \in DOMAIN q /\ i + 1 # 1 /\ Tail(q)[i] = q[i + 1]
  BY <1>1, <1>3, <1>4
<1>6. \A i \in DOMAIN q : i # 1 => i - 1 \in DOMAIN Tail(q) /\ Tail(q)[i - 1] = q[i]
  BY <1>1, <1>3, <1>4
<1> QED
  BY <1>1, <1>2, <1>4, <1>5, <1>6

\* A batch's texts join those of the document.
LEMMA StoreBatchKeeps == ASSUME BatchInv, StoreBatch PROVE BatchInv'
<1>1. /\ tbStack = <<>> /\ tbRet # NoReturn /\ tbStack' = <<>> /\ tbRet' = NoReturn
      /\ InFlight /\ ~InFlight' /\ tbSplit' = FALSE
      /\ UNCHANGED <<tbRound, tbOutcome, tbRussian, tbTries, tbStray>>
  BY DEF StoreBatch, InFlight
<1>2. /\ tbQueue \in Seq(Batches) /\ tbQueue # <<>> /\ tbOutcome = "running"
      /\ tbStill \subseteq Units /\ tbAll \in CleanTexts /\ tbUnrecorded = {}
      /\ \A i, j \in DOMAIN tbQueue : i # j => tbQueue[i] \cap tbQueue[j] = {}
      /\ \A u \in Units : Counted(u)
  BY <1>1 DEF BatchInv, ServiceInv, PassInv
<1>3. PICK ret : ret = tbRet /\ ret \in GoodReturns
  BY <1>1 DEF BatchInv, ProviderInv
<1>4. /\ ret.result \in TextSet /\ SourcesFound(ret.result, ret.found)
      /\ \A u \in DOMAIN ret.result : ret.result[u] = "bad" => u \in tbStray
  BY <1>3 DEF GoodReturns, CleanTexts
<1>5. PICK all \in TextSet : all = tbAll
  BY <1>2 DEF CleanTexts
<1>6. PICK result \in TextSet : result = ret.result
  BY <1>4
<1>7. PICK head \in Batches : head = Head(tbQueue) /\ head = tbQueue[1] /\ 1 \in DOMAIN tbQueue
  BY <1>2, QueueTail
<1>8. /\ tbQueue' = Tail(tbQueue) /\ tbAll' = Updated(all, result)
      /\ tbStill' = IF tbRound = 0 THEN {} ELSE tbStill \cup (head \ DOMAIN tbAll')
      /\ tbUnrecorded' = tbUnrecorded \cup
            {u \in DOMAIN result : result[u] = "source" /\ u \notin ret.found /\ ~tbSplit}
  BY <1>3, <1>5, <1>6, <1>7 DEF StoreBatch
<1>9. /\ tbAll' \in TextSet /\ DOMAIN tbAll' = DOMAIN all \cup DOMAIN result
      /\ \A u \in DOMAIN result : tbAll'[u] = result[u]
      /\ \A u \in DOMAIN all \ DOMAIN result : tbAll'[u] = all[u]
  BY <1>8, TextsMerge
<1>10. tbAll' \in CleanTexts'
  <2>1. tbStray' = tbStray
    BY <1>1
  <2>2. \A u \in DOMAIN all : all[u] = "bad" => u \in tbStray
    BY <1>2, <1>5 DEF CleanTexts
  <2>3. \A u \in DOMAIN tbAll' : tbAll'[u] = "bad" => u \in tbStray'
    BY <1>4, <1>6, <1>9, <2>1, <2>2
  <2> QED
    BY <1>9, <2>3 DEF CleanTexts
<1>11. tbUnrecorded' = {}
  BY <1>2, <1>4, <1>6, <1>8 DEF SourcesFound
<1>12. ProviderInv'
  <2>1. tbStray' \subseteq Units /\ tbSplit' \in BOOLEAN
    BY <1>1 DEF BatchInv, ProviderInv
  <2>2. <<>> \in Seq(GoodFrames')
    OBVIOUS
  <2> QED
    BY <1>1, <2>1, <2>2 DEF ProviderInv
<1>13. /\ tbQueue' \in Seq(Batches)
       /\ \A i \in DOMAIN tbQueue' : /\ i + 1 \in DOMAIN tbQueue /\ i + 1 # 1
                                     /\ tbQueue'[i] = tbQueue[i + 1] /\ i \in Int
       /\ \A i \in DOMAIN tbQueue : i # 1 => /\ i - 1 \in DOMAIN tbQueue'
                                             /\ tbQueue'[i - 1] = tbQueue[i]
  <2>1. DOMAIN Tail(tbQueue) \subseteq Int
    BY <1>2, QueueTail
  <2> QED
    BY <1>2, <1>8, <2>1, QueueTail
<1>14. tbStill' \subseteq Units
  BY <1>2, <1>8 DEF Batches
<1>15. ServiceInv'
  BY <1>1, <1>10, <1>11, <1>13, <1>14 DEF BatchInv, ServiceInv
<1>16. ASSUME NEW u \in Units PROVE Counted(u)'
  <2>1. Counted(u) /\ tbRound' = tbRound /\ tbTries' = tbTries
    BY <1>1, <1>2
  <2>2. u \in head => tbTries[u] = tbRound + 1
    BY <1>1, <1>7, <2>1 DEF Counted, Sending
  <2>3. \A i \in DOMAIN tbQueue : u \in tbQueue[i] /\ i # 1 => tbTries[u] = tbRound
    BY <1>1, <2>1 DEF Counted, Sending
  <2>4. \A i \in DOMAIN tbQueue' : u \in tbQueue'[i] => tbTries[u] = tbRound
    BY <1>13, <2>3
  <2>5. u \in tbStill' => tbTries[u] = tbRound + 1
    BY <1>8, <2>1, <2>2 DEF Counted
  <2>6. ASSUME u \notin DOMAIN tbAll'
        PROVE  \/ \E i \in DOMAIN tbQueue' : u \in tbQueue'[i]
               \/ tbTries[u] = tbRound + 1 /\ (tbRound # 0 => u \in tbStill')
    <3>1. u \notin DOMAIN tbAll
      BY <1>5, <1>9, <2>6
    <3>2. CASE \E i \in DOMAIN tbQueue : u \in tbQueue[i]
      <4>1. PICK i \in DOMAIN tbQueue : u \in tbQueue[i]
        BY <3>2
      <4>2. CASE i = 1
        BY <1>7, <1>8, <2>2, <2>6, <4>1, <4>2
      <4>3. CASE i # 1
        BY <1>13, <4>1, <4>3
      <4> QED
        BY <4>2, <4>3
    <3>3. CASE tbTries[u] = tbRound + 1 /\ (tbRound # 0 => u \in tbStill)
      BY <1>8, <3>3
    <3> QED
      BY <2>1, <3>1, <3>2, <3>3 DEF Counted
  <2> QED
    BY <1>1, <2>1, <2>4, <2>5, <2>6 DEF Counted, Sending
<1>17. \A i, j \in DOMAIN tbQueue' : i # j => tbQueue'[i] \cap tbQueue'[j] = {}
  <2> SUFFICES ASSUME NEW i \in DOMAIN tbQueue', NEW j \in DOMAIN tbQueue', i # j
               PROVE  tbQueue'[i] \cap tbQueue'[j] = {}
    OBVIOUS
  <2>1. i + 1 \in DOMAIN tbQueue /\ j + 1 \in DOMAIN tbQueue /\ i + 1 # j + 1
    BY <1>13
  <2> QED
    BY <1>2, <1>13, <2>1
<1>18. PassInv'
  BY <1>1, <1>2, <1>16, <1>17 DEF PassInv
<1> QED
  BY <1>12, <1>15, <1>18 DEF BatchInv

\* A pass is over, and the next one begins or the document is done.
LEMMA EndPassKeeps == ASSUME BatchInv, EndPass PROVE BatchInv'
<1>1. /\ tbOutcome = "running" /\ tbStack = <<>> /\ tbRet = NoReturn /\ tbQueue = <<>>
      /\ ~InFlight /\ ~InFlight'
      /\ UNCHANGED <<tbStack, tbRet, tbAll, tbRussian, tbTries, tbStray, tbSplit, tbUnrecorded>>
  BY DEF EndPass, Between, InFlight
<1>2. /\ tbRound \in 0..GapRounds /\ GapRounds \in Nat /\ tbStill \subseteq Units
      /\ GapBatchSize \in Nat \ {0}
      /\ \A u \in Units : Counted(u)
  BY <1>1, BatchAssumption DEF BatchInv, ServiceInv, PassInv
<1>3. PICK missing \in SUBSET Units :
         /\ missing = IF tbRound = 0 THEN Units \ DOMAIN tbAll ELSE tbStill
         /\ IF missing # {} /\ tbRound < GapRounds
            THEN /\ tbRound' = tbRound + 1
                 /\ tbQueue' = CreateBatches(missing, GapBatchSize)
                 /\ tbStill' = {} /\ UNCHANGED tbOutcome
            ELSE tbOutcome' = "done" /\ UNCHANGED <<tbRound, tbQueue, tbStill>>
  BY <1>2 DEF EndPass
<1>4. ASSUME NEW u \in Units
      PROVE  /\ u \in missing => tbTries[u] = tbRound + 1
             /\ u \notin DOMAIN tbAll => u \in missing
  <2>1. Counted(u)
    BY <1>2
  <2>2. ~\E i \in DOMAIN tbQueue : u \in tbQueue[i]
    BY <1>1
  <2>3. /\ u \in tbStill => tbTries[u] = tbRound + 1
        /\ u \notin DOMAIN tbAll => tbTries[u] = tbRound + 1 /\ (tbRound # 0 => u \in tbStill)
    BY <2>1, <2>2 DEF Counted
  <2> QED
    BY <1>3, <2>3
<1>5. ProviderInv'
  <2>1. ProviderInv
    BY DEF BatchInv
  <2>2. GoodFrames' = GoodFrames /\ Callers' = Callers /\ GoodReturns' = GoodReturns
    BY <1>1 DEF GoodFrames, Callers, GoodReturns, CleanTexts, SourcesFound
  <2> QED
    BY <1>1, <2>1, <2>2 DEF ProviderInv
<1>6. tbAll' \in CleanTexts'
  BY <1>1 DEF BatchInv, ServiceInv, CleanTexts
<1>7. CASE missing # {} /\ tbRound < GapRounds
  <2>1. /\ tbRound' = tbRound + 1 /\ tbStill' = {} /\ tbOutcome' = "running"
        /\ tbQueue' = CreateBatches(missing, GapBatchSize)
    BY <1>1, <1>3, <1>7
  <2>2. /\ tbQueue' \in Seq(Batches)
        /\ \A i, j \in DOMAIN tbQueue' : i # j => tbQueue'[i] \cap tbQueue'[j] = {}
        /\ \A u \in Units : u \in missing <=> \E i \in DOMAIN tbQueue' : u \in tbQueue'[i]
    BY <1>2, <2>1, BatchesCover DEF Batches
  <2>3. ServiceInv'
    <3>1. tbRound' \in 0..GapRounds
      BY <1>2, <1>7, <2>1
    <3> QED
      BY <1>1, <1>6, <2>1, <2>2, <3>1 DEF BatchInv, ServiceInv
  <2>4. ASSUME NEW u \in Units PROVE Counted(u)'
    <3>1. \A i \in DOMAIN tbQueue' : u \in tbQueue'[i] => tbTries'[u] = tbRound'
      BY <1>1, <1>4, <2>1, <2>2
    <3>2. u \notin DOMAIN tbAll' => \E i \in DOMAIN tbQueue' : u \in tbQueue'[i]
      BY <1>1, <1>4, <2>2
    <3> QED
      BY <1>1, <2>1, <3>1, <3>2 DEF Counted, Sending
  <2>5. PassInv'
    BY <2>1, <2>2, <2>4 DEF PassInv
  <2> QED
    BY <1>5, <2>3, <2>5 DEF BatchInv
<1>8. CASE ~(missing # {} /\ tbRound < GapRounds)
  <2>1. tbOutcome' = "done" /\ UNCHANGED <<tbRound, tbQueue, tbStill>>
    BY <1>3, <1>8
  <2>2. ServiceInv'
    BY <1>1, <1>6, <2>1 DEF BatchInv, ServiceInv, Outcomes
  <2>3. \A u \in Units \ DOMAIN tbAll' : tbTries'[u] = GapRounds + 1
    BY <1>1, <1>2, <1>4, <1>8
  <2>4. PassInv'
    BY <1>1, <2>1, <2>3 DEF PassInv
  <2> QED
    BY <1>5, <2>2, <2>4 DEF BatchInv
<1> QED
  BY <1>7, <1>8

\* At the start every unit is in a batch, and was sent in none.
LEMMA BatchStart == BatchInit => BatchInv
<1> SUFFICES ASSUME BatchInit PROVE BatchInv
  OBVIOUS
<1>1. /\ tbStack = <<>> /\ tbRet = NoReturn /\ tbQueue = CreateBatches(Units, BatchSize)
      /\ tbRound = 0 /\ tbStill = {} /\ tbAll = Nothing /\ tbOutcome = "waiting"
      /\ tbTries = [u \in Units |-> 0] /\ tbStray = {} /\ tbSplit = FALSE /\ tbUnrecorded = {}
  BY DEF BatchInit
<1>2. BatchSize \in Nat \ {0} /\ GapRounds \in Nat /\ ~InFlight
  BY <1>1, BatchAssumption DEF InFlight
<1>3. /\ tbQueue \in Seq(Batches)
      /\ \A i, j \in DOMAIN tbQueue : i # j => tbQueue[i] \cap tbQueue[j] = {}
      /\ \A u \in Units : \E i \in DOMAIN tbQueue : u \in tbQueue[i]
  BY <1>1, <1>2, BatchesCover DEF Batches
<1>4. ProviderInv
  <2>1. <<>> \in Seq(GoodFrames)
    OBVIOUS
  <2> QED
    BY <1>1, <2>1 DEF ProviderInv
<1>5. ServiceInv
  <2>1. tbAll \in CleanTexts
    BY <1>1, NoTexts DEF CleanTexts
  <2>2. tbTries \in [Units -> 0..(GapRounds + 1)] /\ tbRound \in 0..GapRounds
    BY <1>1, <1>2
  <2> QED
    BY <1>1, <1>2, <1>3, <2>1, <2>2 DEF ServiceInv, Outcomes
<1>6. \A u \in Units : Counted(u)
  BY <1>1, <1>2, <1>3 DEF Counted, Sending
<1>7. PassInv
  BY <1>1, <1>3, <1>6 DEF PassInv
<1> QED
  BY <1>4, <1>5, <1>7 DEF BatchInv

\* One step per action.
LEMMA BatchKeeps == BatchInv /\ [BatchNext]_tbVars => BatchInv'
<1> SUFFICES ASSUME BatchInv, [BatchNext]_tbVars PROVE BatchInv'
  OBVIOUS
<1>1. ProviderInv /\ ServiceInv /\ PassInv
  BY DEF BatchInv
<1>2. ASSUME UNCHANGED <<tbStack, tbRet, tbQueue, tbRound, tbStill, tbAll, tbTries, tbStray,
                         tbSplit, tbUnrecorded>>,
             \/ UNCHANGED tbOutcome
             \/ tbOutcome = "waiting" /\ tbOutcome' = "running"
      PROVE  BatchInv'
  <2>1. GoodFrames' = GoodFrames /\ Callers' = Callers /\ GoodReturns' = GoodReturns
        /\ CleanTexts' = CleanTexts
    BY <1>2 DEF GoodFrames, Callers, GoodReturns, CleanTexts, SourcesFound
  <2>2. Below' = Below /\ (InFlight' <=> InFlight)
    BY <1>2 DEF Below, InFlight
  <2>3. ProviderInv'
    BY <1>1, <1>2, <2>1, <2>2 DEF ProviderInv
  <2>4. ServiceInv'
    BY <1>1, <1>2, <2>1, <2>2 DEF ServiceInv, Outcomes
  <2>5. \A u \in Units : Counted(u) => Counted(u)'
    BY <1>2, <2>2 DEF Counted, Sending
  <2>6. PassInv'
    BY <1>1, <1>2, <2>5 DEF PassInv
  <2> QED
    BY <2>3, <2>4, <2>6 DEF BatchInv
<1>3. CASE StartTranslation
  BY <1>2, <1>3 DEF StartTranslation
<1>4. CASE Answer
  <2>1. CASE Asking /\ ProviderOnly /\ ProviderInv' /\ InFlight' /\ tbStray \subseteq tbStray'
    BY <1>1, <2>1, ServiceStands DEF BatchInv, ProviderOnly, InFlight, Asking
  <2>2. CASE /\ Asking /\ tbStack' = <<>> /\ tbOutcome' \in {"unavailable", "failed"}
             /\ ProviderInv'
             /\ UNCHANGED <<tbRet, tbQueue, tbRound, tbStill, tbAll, tbRussian, tbTries, tbStray,
                            tbSplit, tbUnrecorded>>
    <3>1. tbRet' = NoReturn
      BY <2>2 DEF Asking
    <3>2. tbOutcome' \in Outcomes \ {"waiting", "running", "done"}
      BY <2>2 DEF Outcomes
    <3> QED
      BY <1>1, <2>2, <3>1, <3>2, ServiceAborted DEF BatchInv
  <2> QED
    BY <1>1, <1>4, <2>1, <2>2, AnswerKeeps
<1>5. CASE Resume
  <2>1. /\ InFlight /\ tbStray \subseteq tbStray'
        /\ UNCHANGED <<tbQueue, tbRound, tbStill, tbAll, tbOutcome, tbTries, tbUnrecorded>>
    BY <1>5 DEF Resume, ProviderOnly, InFlight
  <2> QED
    BY <1>1, <1>5, <2>1, ResumeKeeps, ServiceStands DEF BatchInv
<1>6. CASE SendBatch
  BY <1>6, SendBatchKeeps
<1>7. CASE StopCancelled
  <2>1. /\ tbStack' = <<>> /\ tbRet' = NoReturn /\ tbOutcome' = "cancelled"
        /\ tbStack = <<>> /\ tbRet = NoReturn
        /\ UNCHANGED <<tbQueue, tbRound, tbStill, tbAll, tbTries, tbStray, tbSplit, tbUnrecorded>>
    BY <1>7 DEF StopCancelled, Between, Aborts
  <2>2. tbOutcome' \in Outcomes \ {"waiting", "running", "done"}
    BY <2>1 DEF Outcomes
  <2>3. ProviderInv'
    <3>1. tbStray' \subseteq Units /\ tbSplit' \in BOOLEAN /\ <<>> \in Seq(GoodFrames')
      BY <1>1, <2>1 DEF ProviderInv
    <3> QED
      BY <2>1, <3>1 DEF ProviderInv
  <2> QED
    BY <1>1, <2>1, <2>2, <2>3, ServiceAborted DEF BatchInv
<1>8. CASE StoreBatch
  BY <1>8, StoreBatchKeeps
<1>9. CASE EndPass
  BY <1>9, EndPassKeeps
<1>10. CASE UNCHANGED tbVars
  BY <1>2, <1>10 DEF tbVars
<1> QED
  BY <1>3, <1>4, <1>5, <1>6, <1>7, <1>8, <1>9, <1>10 DEF BatchNext

\* What the invariant says of the types and of the units.
LEMMA BatchInvImplies == BatchInv => BatchTypeOK /\ UnitsAccountedFor
<1> SUFFICES ASSUME BatchInv PROVE BatchTypeOK /\ UnitsAccountedFor
  OBVIOUS
<1>1. UnitsAccountedFor
  BY DEF BatchInv, ServiceInv, PassInv, CleanTexts, UnitsAccountedFor
<1>2. ASSUME NEW i \in DOMAIN tbStack
      PROVE  /\ tbStack[i].units \subseteq Units /\ tbStack[i].units # {}
             /\ tbStack[i].depth \in 0..MaxSplitDepth
             /\ tbStack[i].stage \in {"ask", "split", "missing", "integrity"}
             /\ DOMAIN tbStack[i].texts \subseteq Units
  <2>1. tbStack[i] \in GoodFrames
    BY <1>2 DEF BatchInv, ProviderInv
  <2>2. PICK f \in Frames : f = tbStack[i]
    BY <2>1 DEF GoodFrames
  <2>3. /\ f.units \in Batches /\ f.depth \in 0..MaxSplitDepth /\ f.stage \in FrameStages
        /\ f.texts \in TextSet
    BY FrameFields
  <2>4. DOMAIN f.texts \subseteq Units
    BY <2>3, TextsAre
  <2> QED
    BY <2>2, <2>3, <2>4 DEF Batches, FrameStages
<1>3. tbRet.kind \in {"none", "result", "raise"}
  BY DEF BatchInv, ProviderInv, NoReturn, GoodReturns, Returns
<1>4. DOMAIN tbAll \subseteq Units /\ \A u \in DOMAIN tbAll : tbAll[u] \in Texts
  <2>1. tbAll \in TextSet
    BY DEF BatchInv, ServiceInv, CleanTexts
  <2> QED
    BY <2>1, TextsAre
<1>5. /\ tbRound \in 0..GapRounds /\ tbStill \subseteq Units /\ tbOutcome \in Outcomes
      /\ tbTries \in [Units -> 0..(GapRounds + 1)]
  BY DEF BatchInv, ServiceInv
<1>6. BatchTypeOK
  BY <1>2, <1>3, <1>4, <1>5 DEF BatchTypeOK, Outcomes
<1> QED
  BY <1>1, <1>6

\* The types of the provider's frames and of the service's pass: no frame has an
\* empty set of units, however a batch is split, or is deeper than the limit.
THEOREM BatchTypeCorrect == BatchSpec => []BatchTypeOK
BY BatchStart, BatchKeeps, BatchInvImplies, PTL DEF BatchSpec

\* Whatever the model answers, a bad text gets into the document only for a unit
\* nobody asked about, every fallback to the source of an unsplit batch is a
\* finding, and a unit without a text was sent in the main pass and every round.
THEOREM UnitsKept == BatchSpec => []UnitsAccountedFor
BY BatchStart, BatchKeeps, BatchInvImplies, PTL DEF BatchSpec

-----------------------------------------------------------------------------
(* ---- the parts of a document's way together ---- *)

\* A part that stays is in an initial state of its own.
LEMMA BatchStaysInitial == BatchStays => BatchInit
  BY DEF BatchStays, BatchInit

LEMMA TextStaysInitial == TextStays => DocumentInit
<1> SUFFICES ASSUME TextStays PROVE DocumentInit
  OBVIOUS
<1>1. /\ dtKind = "segment" /\ dtDocument = <<Space(TRUE)>> /\ dtReply = 0
      /\ dtResult = Untouched
  BY DEF TextStays
<1>2. MaxPieces \in Nat \ {0} /\ MaxWords \in Nat
  BY DocumentAssumption
<1>3. Space(TRUE) \in Positions
  BY DEF Positions
<1>4. dtDocument \in [1..1 -> Positions]
  <2>1. \A p \in Positions : <<p>> \in [1..1 -> Positions]
    OBVIOUS
  <2> QED
    BY <1>1, <1>3, <2>1
<1>5. 1 \in 1..MaxPieces /\ dtReply \in 0..MaxWords
  BY <1>1, <1>2
<1>6. dtDocument \in SeqsUpto(Positions, MaxPieces)
  BY <1>4, <1>5 DEF SeqsUpto
<1> QED
  BY <1>1, <1>5, <1>6 DEF DocumentInit

LEMMA FilesStayInitial == FilesStay => FilesInit
  BY StaysAssumption DEF FilesStay, FilesInit

LEMMA DocumentsStart ==
    DocumentsInit =>
        ConversionInit /\ BatchInit /\ DocumentInit /\ FilesInit /\ SweepInit
  BY BatchStaysInitial, TextStaysInitial, FilesStayInitial DEF DocumentsInit

LEMMA DocumentsStep ==
    [DocumentsNext]_partVars =>
        /\ [ConversionNext]_dcVars /\ [BatchNext]_tbVars /\ [TranslateDocument]_dtVars
        /\ [FilesNext]_tfVars /\ [SweepNext]_swVars
  BY DEF DocumentsNext, Runs, partVars

\* What a part does in a behaviour of all of them is, its fairness aside, a
\* behaviour of that part's own specification: every invariant proved of the
\* conversions, the batches, the texts, the files and the sweep holds of them
\* together.
THEOREM DocumentPartsRun ==
    DocumentsSpec =>
        /\ ConversionInit /\ [][ConversionNext]_dcVars
        /\ BatchInit /\ [][BatchNext]_tbVars
        /\ DocumentSpec /\ FilesSpec /\ SweepSpec
  BY DocumentsStart, DocumentsStep, PTL DEF DocumentsSpec, DocumentSpec, FilesSpec, SweepSpec

\* The types of all five parts.
THEOREM DocumentsTypesCorrect == DocumentsSpec => []DocumentsTypeOK
<1>1. ConversionInit /\ [][ConversionNext]_dcVars => []ConversionTypeOK
  BY ServersInit, ServersInductive, ServersTyped, PTL
<1>2. BatchInit /\ [][BatchNext]_tbVars => []BatchTypeOK
  BY BatchStart, BatchKeeps, BatchInvImplies, PTL
<1>3. ConversionTypeOK /\ BatchTypeOK /\ DocumentTypeOK /\ FilesTypeOK /\ SweepTypeOK
         => DocumentsTypeOK
  BY DEF DocumentsTypeOK
<1> QED
  BY <1>1, <1>2, <1>3, DocumentPartsRun, DocumentTypeCorrect, FilesTypeCorrect,
     SweepTypeCorrect, PTL

=============================================================================
