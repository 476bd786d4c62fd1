------------------------ MODULE JobLifecycle_proofs ------------------------
(***************************************************************************)
(* Proofs about JobLifecycle for every number of requests and batches:     *)
(* type correctness, that a cancel written with a checkpoint ahead is      *)
(* respected, that failed runs reclaim their upload directory, that a kept *)
(* upload is never lost, that what completed or failed stays so, and that  *)
(* a completed job without its file is about to be forgotten.              *)
(***************************************************************************)
EXTENDS JobLifecycle, TLAPS

RequestPc == {"idle", "read", "write", "finish", "sending", "drop", "delete", "done"}
UsesCopy == {"write", "finish", "sending", "drop"}

StoreOK == rec \in Record \cup {NoRec} /\ indexed \in BOOLEAN

FilesOK ==
    dirs \in [{"main", "work"} -> {"none", "live", "retained"}] /\ output \in BOOLEAN

\* The loop over the batches is entered only with a batch left.
PipelineOK ==
    /\ pipeline \in [pc : Stages, copy : Record \cup {NoRec}, batch : 0..Batches]
    /\ pipeline.pc = "batchCheck" => pipeline.batch < Batches

\* A handler that is going to use its copy of the record has one.
RequestOK ==
    /\ request \in [Requests -> [op : Ops \cup {"none"}, pc : RequestPc,
                                 copy : Record \cup {NoRec}, wasRunning : BOOLEAN]]
    /\ \A q \in Requests : request[q].pc \in UsesCopy => request[q].copy \in Record

CountOK == timers \in Nat /\ due \in Nat /\ crashes \in 0..MaxCrashes /\ keep \in Keep

HistoryOK == cleanCancel \in BOOLEAN /\ queuedCancel \in BOOLEAN

TypeInv == StoreOK /\ FilesOK /\ PipelineOK /\ RequestOK /\ CountOK /\ HistoryOK

USE DEF Exists, Is, At

-----------------------------------------------------------------------------
LEMMA TypeInvImpliesTypeOK == TypeInv => TypeOK
  BY DEF TypeInv, StoreOK, FilesOK, PipelineOK, RequestOK, CountOK, HistoryOK,
         TypeOK, RequestPc

\* What an action leaves alone keeps its type.
LEMMA StoreSame == StoreOK /\ UNCHANGED store => StoreOK'
  BY DEF StoreOK, store

LEMMA FilesSame == FilesOK /\ UNCHANGED files => FilesOK'
  BY DEF FilesOK, files

LEMMA PipelineSame == PipelineOK /\ UNCHANGED pipeline => PipelineOK'
  BY DEF PipelineOK

LEMMA RequestSame == RequestOK /\ UNCHANGED request => RequestOK'
  BY DEF RequestOK

LEMMA CountSame == CountOK /\ UNCHANGED <<grace, server>> => CountOK'
  BY DEF CountOK, grace, server

LEMMA HistorySame == HistoryOK /\ UNCHANGED history => HistoryOK'
  BY DEF HistoryOK, history

\* The stages follow each other inside Stages, and a batch check has a batch.
LEMMA AfterStages ==
    ASSUME NEW s \in Updates \cup Checks
    PROVE  /\ After[s] \subseteq Stages
           /\ "batchCheck" \in After[s] => pipeline.batch < Batches
  BY DEF After, Stages, Updates, Checks, Progress, Starts, Fails, Steps, Submission, Ends, NextBatch

LEMMA UpdatedType ==
    ASSUME NEW s, NEW r \in Record
    PROVE  Updated(s, r) \in Record
  BY DEF Updated, StatusAfter, Record, Status

LEMMA CleanDirsType ==
    ASSUME FilesOK, NEW names, NEW retain, CleanDirs(names, retain)
    PROVE  FilesOK'
  BY DEF FilesOK, CleanDirs

LEMMA CleanJobDirsType ==
    ASSUME FilesOK, NEW r, NEW fallback, CleanJobDirs(r, fallback)
    PROVE  FilesOK'
  BY CleanDirsType DEF CleanJobDirs

LEMMA GoToType ==
    ASSUME PipelineOK, NEW S, S \subseteq Stages, GoTo(S),
           "batchCheck" \in S => pipeline.batch < Batches
    PROVE  PipelineOK'
  BY DEF PipelineOK, GoTo

LEMMA ContinueType ==
    ASSUME RequestOK, NEW q \in Requests, NEW pc \in RequestPc,
           NEW copy \in Record \cup {NoRec}, pc \in UsesCopy => copy \in Record,
           Continue(q, pc, copy)
    PROVE  RequestOK'
  BY DEF RequestOK, Continue

LEMMA FinishType ==
    ASSUME RequestOK, NEW q \in Requests, Finish(q)
    PROVE  RequestOK'
  BY ContinueType DEF Finish, RequestPc, UsesCopy

LEMMA BeginType ==
    ASSUME RequestOK, StoreOK, NEW q \in Requests, NEW op \in Ops, NEW pc \in RequestPc,
           pc \in UsesCopy => Exists, Begin(q, op, pc)
    PROVE  RequestOK'
<1>1. Is("RUNNING") \in BOOLEAN
  OBVIOUS
<1>2. rec \in Record \cup {NoRec} /\ (pc \in UsesCopy => rec \in Record)
  BY DEF StoreOK
<1> DEFINE new == [op |-> op, pc |-> pc, copy |-> rec, wasRunning |-> Is("RUNNING")]
<1>3. new \in [op : Ops \cup {"none"}, pc : RequestPc,
               copy : Record \cup {NoRec}, wasRunning : BOOLEAN]
  BY <1>1, <1>2
<1>4. new.pc = pc /\ new.copy = rec
  OBVIOUS
<1>5. request' = [request EXCEPT ![q] = new]
  BY DEF Begin
<1> HIDE DEF new
<1> QED
  BY <1>2, <1>3, <1>4, <1>5 DEF RequestOK

LEMMA DeleteRecordType ==
    ASSUME HistoryOK, DeleteRecord, queuedCancel' = queuedCancel
    PROVE  StoreOK' /\ HistoryOK'
<1>1. indexed' \in BOOLEAN /\ cleanCancel' \in BOOLEAN
  BY Zenon DEF DeleteRecord
<1> QED
  BY <1>1 DEF DeleteRecord, StoreOK, HistoryOK

LEMMA InitTypeInv == Init => TypeInv
<1> SUFFICES ASSUME Init PROVE TypeInv
  OBVIOUS
<1>1. FilesOK
  <2>1. output \in BOOLEAN
    BY Zenon DEF Init
  <2> QED
    BY <2>1 DEF Init, FilesOK
<1>2. PipelineOK
  BY BatchesAssumption DEF Init, PipelineOK, Stages, Submission
<1>3. RequestOK
  BY DEF Init, RequestOK, RequestPc, UsesCopy
<1>4. StoreOK
  <2>1. indexed \in BOOLEAN
    BY Zenon DEF Init
  <2> QED
    BY <2>1 DEF Init, StoreOK
<1>5. CountOK
  BY CrashAssumption DEF Init, CountOK
<1>6. HistoryOK
  BY Zenon DEF Init, HistoryOK
<1> QED
  BY <1>1, <1>2, <1>3, <1>4, <1>5, <1>6 DEF TypeInv

-----------------------------------------------------------------------------
(* Every action keeps TypeInv. *)

\* The actions of the pipeline touch neither requests, crashes nor history.
LEMMA SubmitType ==
    ASSUME TypeInv, Submit
    PROVE  TypeInv'
<1>1. /\ StoreOK
      /\ FilesOK
      /\ PipelineOK
      /\ RequestOK
      /\ CountOK
      /\ HistoryOK
  BY DEF TypeInv
<1>2. CASE Create
  <2>1. StoreOK'
    <3>1. rec' \in Record
      BY <1>2 DEF Create, Record, Status
    <3>2. indexed' \in BOOLEAN
      BY <1>2, Zenon DEF Create
    <3> QED
      BY <3>1, <3>2 DEF StoreOK
  <2>2. FilesOK'
    BY <1>1, <1>2 DEF Create, FilesOK
  <2>3. PipelineOK'
    BY <1>1, <1>2, GoToType DEF Create, Stages, Submission
  <2>4. RequestOK' /\ CountOK' /\ HistoryOK'
    BY <1>1, <1>2, RequestSame, CountSame, HistorySame DEF Create
  <2> QED
    BY <2>1, <2>2, <2>3, <2>4 DEF TypeInv
<1>3. CASE RecordTempDir
  <2>1. StoreOK'
    BY <1>1, <1>3 DEF RecordTempDir, StoreOK, Record, Status
  <2>2. PipelineOK'
    BY <1>1, <1>3, GoToType DEF RecordTempDir, Stages, Submission
  <2>3. FilesOK' /\ RequestOK' /\ CountOK' /\ HistoryOK'
    BY <1>1, <1>3, FilesSame, RequestSame, CountSame, HistorySame DEF RecordTempDir
  <2> QED
    BY <2>1, <2>2, <2>3 DEF TypeInv
<1>4. CASE Enqueue
  <2>1. PipelineOK'
    BY <1>1, <1>4, GoToType DEF Enqueue, Stages, Submission
  <2>2. StoreOK' /\ FilesOK' /\ RequestOK' /\ CountOK' /\ HistoryOK'
    BY <1>1, <1>4, StoreSame, FilesSame, RequestSame, CountSame, HistorySame DEF Enqueue
  <2> QED
    BY <2>1, <2>2 DEF TypeInv
<1> QED
  BY <1>2, <1>3, <1>4 DEF Submit

LEMMA RunType ==
    ASSUME TypeInv, Run
    PROVE  TypeInv'
<1>1. /\ StoreOK
      /\ FilesOK
      /\ PipelineOK
      /\ RequestOK
      /\ CountOK
      /\ HistoryOK
  BY DEF TypeInv
<1>2. RequestOK' /\ HistoryOK'
  BY <1>1, RequestSame, HistorySame
  DEF Run, Dequeue, ReadRecord, WriteRecord, Check, FindFile, Open, Validate, Extract,
      InspectText, TranslateBatch, GapFill, Save, CleanUp
<1>3. CountOK'
  <2>1. CASE CleanUp
    BY <1>1, <2>1 DEF CleanUp, ScheduleDeletion, CountOK, server
  <2>2. CASE UNCHANGED <<grace, server>>
    BY <1>1, <2>2, CountSame
  <2> QED
    BY <2>1, <2>2
    DEF Run, Dequeue, ReadRecord, WriteRecord, Check, FindFile, Open, Validate, Extract,
        InspectText, TranslateBatch, GapFill, Save
<1>4. StoreOK'
  <2>1. CASE WriteRecord
    <3>1. pipeline.copy \in Record
      BY <1>1, <2>1 DEF PipelineOK, WriteRecord
    <3> QED
      BY <1>1, <2>1, <3>1, UpdatedType DEF StoreOK, WriteRecord
  <2>2. CASE UNCHANGED store
    BY <1>1, <2>2, StoreSame
  <2> QED
    BY <2>1, <2>2
    DEF Run, Dequeue, ReadRecord, Check, FindFile, Open, Validate, Extract,
        InspectText, TranslateBatch, GapFill, Save, CleanUp
<1>5. FilesOK'
  <2>1. CASE Extract
    BY <1>1, <2>1 DEF Extract, FilesOK
  <2>2. CASE Save
    <3>1. output' \in BOOLEAN
      <4>1. (dirs.main # "none") \in BOOLEAN
        OBVIOUS
      <4> QED
        BY <1>1, <2>2, <4>1 DEF Save, FilesOK
    <3> QED
      BY <1>1, <2>2, <3>1 DEF Save, FilesOK
  <2>3. CASE CleanUp
    <3>1. CASE Exists
      BY <1>1, <2>3, <3>1, CleanJobDirsType DEF CleanUp, CleanRunDirs
    <3>2. CASE ~Exists
      BY <1>1, <2>3, <3>2, CleanDirsType DEF CleanUp, CleanRunDirs
    <3> QED
      BY <3>1, <3>2
  <2>4. CASE UNCHANGED files
    BY <1>1, <2>4, FilesSame
  <2> QED
    BY <2>1, <2>2, <2>3, <2>4
    DEF Run, Dequeue, ReadRecord, WriteRecord, Check, FindFile, Open, Validate,
        InspectText, TranslateBatch, GapFill
<1>6. PipelineOK'
  <2> USE <1>1
  <2>1. CASE Dequeue
    BY <2>1, GoToType DEF Dequeue, Stages, Updates, Starts, Ends
  <2>2. CASE ReadRecord
    <3>1. CASE SkipsUpdate(pipeline.pc)
      BY <2>2, <3>1, GoToType, AfterStages DEF ReadRecord, Stages, Ends
    <3>2. CASE ~SkipsUpdate(pipeline.pc)
      BY <2>2, <3>2 DEF ReadRecord, PipelineOK, StoreOK
    <3> QED
      BY <3>1, <3>2
  <2>3. CASE WriteRecord
    BY <2>3, GoToType, AfterStages DEF WriteRecord
  <2>4. CASE Check
    <3>1. CASE GoTo({"cleanup"})
      BY <3>1, GoToType DEF Stages, Steps
    <3>2. CASE \E s \in After[pipeline.pc] :
                 pipeline' = [pc |-> s, copy |-> NoRec,
                              batch |-> IF At("batchCheck") THEN pipeline.batch + 1
                                        ELSE pipeline.batch]
      <4>1. PICK s \in After[pipeline.pc] :
                 pipeline' = [pc |-> s, copy |-> NoRec,
                              batch |-> IF At("batchCheck") THEN pipeline.batch + 1
                                        ELSE pipeline.batch]
        BY <3>2
      <4>2. pipeline.batch \in Nat /\ pipeline.batch \in 0..Batches
        BY DEF PipelineOK
      <4>3. s \in Stages /\ (s = "batchCheck" => pipeline.batch < Batches)
        BY <2>4, <4>1, AfterStages DEF Check
      <4>4. CASE At("batchCheck")
        <5>1. s = "translate"
          BY <2>4, <4>1, <4>4 DEF After, Check
        <5> QED
          BY <4>1, <4>2, <4>3, <4>4, <5>1, BatchesAssumption DEF PipelineOK
      <4>5. CASE ~At("batchCheck")
        BY <4>1, <4>2, <4>3, <4>5 DEF PipelineOK
      <4> QED
        BY <4>4, <4>5
    <3> QED
      BY <2>4, <3>1, <3>2 DEF Check
  <2>5. CASE FindFile \/ Open \/ Validate \/ Extract \/ InspectText \/ Save \/ CleanUp
    <3>1. {"missing", "start2", "fail", "validation", "extraction", "invalid", "register",
           "extracted", "meta", "saved", "failed"} \subseteq Stages
      BY DEF Stages, Updates, Progress, Starts, Fails, Ends
    <3>2. ASSUME NEW S, GoTo(S),
                 S \subseteq {"missing", "start2", "fail", "validation", "extraction", "invalid",
                              "register", "extracted", "meta", "saved", "failed"}
          PROVE  PipelineOK'
      BY <3>1, <3>2, GoToType
    <3>3. CASE FindFile
      BY <3>2, <3>3 DEF FindFile
    <3>4. CASE Open
      BY <3>2, <3>4 DEF Open
    <3>5. CASE Validate
      BY <3>2, <3>5 DEF Validate
    <3>6. CASE Extract
      BY <3>2, <3>6 DEF Extract
    <3>7. CASE InspectText
      BY <3>2, <3>7 DEF InspectText
    <3>8. CASE Save
      BY <3>2, <3>8 DEF Save
    <3>9. CASE CleanUp
      BY <3>2, <3>9 DEF CleanUp
    <3> QED
      BY <2>5, <3>3, <3>4, <3>5, <3>6, <3>7, <3>8, <3>9
  <2>6. CASE TranslateBatch
    BY <2>6, GoToType
    DEF TranslateBatch, NextBatch, Stages, Updates, Progress, Fails, Checks, Steps
  <2>7. CASE GapFill
    BY <2>7, GoToType DEF GapFill, Stages, Updates, Fails, Checks
  <2> QED
    BY <2>1, <2>2, <2>3, <2>4, <2>5, <2>6, <2>7 DEF Run
<1> QED
  BY <1>2, <1>3, <1>4, <1>5, <1>6 DEF TypeInv

LEMMA HandlerType ==
    ASSUME TypeInv, NEW q \in Requests, Ask(q) \/ Handle(q)
    PROVE  TypeInv'
<1>1. /\ StoreOK
      /\ FilesOK
      /\ PipelineOK
      /\ RequestOK
      /\ CountOK
      /\ HistoryOK
  BY DEF TypeInv
<1>2. PipelineOK'
  BY <1>1, PipelineSame
  DEF Ask, Handle, Cancel, CancelRead, CancelWrite, CancelFinish, Download, DownloadSent,
      Purge, PurgeDirs, DropRecord
<1>3. CASE Cancel(q) \/ Purge(q) \/ CancelRead(q) \/ DownloadSent(q) \/ PurgeDirs(q)
  <2>1. StoreOK' /\ CountOK' /\ HistoryOK'
    BY <1>1, <1>3, StoreSame, CountSame, HistorySame
    DEF Cancel, Purge, CancelRead, DownloadSent, PurgeDirs
  <2>2. FilesOK'
    BY <1>1, <1>3, FilesSame, CleanJobDirsType
    DEF Cancel, Purge, CancelRead, DownloadSent, PurgeDirs
  <2>3. RequestOK'
    <3>1. CASE Cancel(q)
      BY <1>1, <3>1, BeginType DEF Cancel, Arrives, RequestPc, UsesCopy
    <3>2. CASE Purge(q)
      BY <1>1, <3>2, BeginType DEF Purge, Arrives, RequestPc, UsesCopy
    <3>3. CASE CancelRead(q)
      <4>1. CASE rec = NoRec
        BY <1>1, <3>3, <4>1, FinishType DEF CancelRead
      <4>2. CASE rec # NoRec
        BY <1>1, <3>3, <4>2, ContinueType DEF CancelRead, StoreOK, RequestPc
      <4> QED
        BY <4>1, <4>2
    <3>4. CASE DownloadSent(q)
      BY <1>1, <3>4, FinishType DEF DownloadSent
    <3>5. CASE PurgeDirs(q)
      BY <1>1, <3>5, ContinueType DEF PurgeDirs, RequestPc, UsesCopy
    <3> QED
      BY <1>3, <3>1, <3>2, <3>3, <3>4, <3>5
  <2> QED
    BY <1>2, <2>1, <2>2, <2>3 DEF TypeInv
<1>4. CASE CancelWrite(q)
  <2>1. request[q].copy \in Record
    BY <1>1, <1>4 DEF CancelWrite, RequestOK, UsesCopy
  <2>2. [request[q].copy EXCEPT !.status = "CANCELLED"] \in Record
    BY <2>1 DEF Record, Status
  <2>3. StoreOK'
    BY <1>1, <1>4, <2>2 DEF CancelWrite, StoreOK
  <2>4. RequestOK'
    BY <1>1, <1>4, <2>2, ContinueType DEF CancelWrite, RequestPc
  <2>5. FilesOK' /\ CountOK'
    BY <1>1, <1>4, FilesSame, CountSame DEF CancelWrite
  <2>6. HistoryOK'
    BY <1>1, <1>4, Zenon DEF CancelWrite, HistoryOK
  <2> QED
    BY <1>2, <2>3, <2>4, <2>5, <2>6 DEF TypeInv
<1>5. CASE CancelFinish(q)
  <2>1. FilesOK'
    BY <1>1, <1>5, FilesSame, CleanJobDirsType DEF CancelFinish
  <2>2. CountOK'
    BY <1>1, <1>5 DEF CancelFinish, ScheduleDeletion, CountOK, server
  <2>3. HistoryOK'
    BY <1>1, <1>5, Zenon DEF CancelFinish, HistoryOK
  <2>4. StoreOK' /\ RequestOK'
    BY <1>1, <1>5, StoreSame, FinishType DEF CancelFinish
  <2> QED
    BY <1>2, <2>1, <2>2, <2>3, <2>4 DEF TypeInv
<1>6. CASE Download(q)
  <2>1. CountOK'
    BY <1>1, <1>6 DEF Download, AfterDownload, ScheduleDeletion, CountOK, grace, server
  <2>2. RequestOK'
    BY <1>1, <1>6, BeginType DEF Download, Arrives, RequestPc, UsesCopy
  <2>3. StoreOK' /\ FilesOK' /\ HistoryOK'
    BY <1>1, <1>6, StoreSame, FilesSame, HistorySame DEF Download
  <2> QED
    BY <1>2, <2>1, <2>2, <2>3 DEF TypeInv
<1>7. CASE DropRecord(q)
  <2>1. StoreOK' /\ HistoryOK'
    BY <1>1, <1>7, DeleteRecordType DEF DropRecord
  <2>2. FilesOK' /\ RequestOK' /\ CountOK'
    BY <1>1, <1>7, FilesSame, FinishType, CountSame DEF DropRecord
  <2> QED
    BY <1>2, <2>1, <2>2 DEF TypeInv
<1> QED
  BY <1>3, <1>4, <1>5, <1>6, <1>7 DEF Ask, Handle

LEMMA GraceType == TypeInv /\ (GraceOver \/ DeleteAfterGrace) => TypeInv'
<1>1. CASE TypeInv /\ GraceOver
  <2>1. CountOK'
    BY <1>1 DEF GraceOver, TypeInv, CountOK, server
  <2>2. StoreOK' /\ FilesOK' /\ PipelineOK' /\ RequestOK' /\ HistoryOK'
    BY <1>1, StoreSame, FilesSame, PipelineSame, RequestSame, HistorySame DEF GraceOver, TypeInv
  <2> QED
    BY <2>1, <2>2 DEF TypeInv
<1>2. CASE TypeInv /\ DeleteAfterGrace
  <2>1. CountOK'
    BY <1>2 DEF DeleteAfterGrace, TypeInv, CountOK, server
  <2>2. StoreOK' /\ HistoryOK'
    BY <1>2, DeleteRecordType DEF DeleteAfterGrace, TypeInv
  <2>3. FilesOK' /\ PipelineOK' /\ RequestOK'
    BY <1>2, FilesSame, PipelineSame, RequestSame DEF DeleteAfterGrace, TypeInv
  <2> QED
    BY <2>1, <2>2, <2>3 DEF TypeInv
<1> QED
  BY <1>1, <1>2

LEMMA CrashType == TypeInv /\ Crash => TypeInv'
<1> SUFFICES ASSUME TypeInv, Crash PROVE TypeInv'
  OBVIOUS
<1>1. StoreOK'
  <2>1. CASE rec' = rec
    BY <2>1 DEF Crash, TypeInv, StoreOK
  <2>2. CASE Orphaned /\ rec' = [rec EXCEPT !.status = "FAILED"]
    BY <2>2 DEF Crash, Orphaned, TypeInv, StoreOK, Record, Status
  <2> QED
    BY <2>1, <2>2 DEF Crash
<1>2. PipelineOK'
  BY GoToType DEF Crash, TypeInv, Stages, Ends
<1>3. RequestOK'
  <2>1. ASSUME NEW q \in Requests
        PROVE  /\ request'[q] \in [op : Ops \cup {"none"}, pc : RequestPc,
                                   copy : Record \cup {NoRec}, wasRunning : BOOLEAN]
               /\ request'[q].pc \notin UsesCopy
    BY DEF Crash, TypeInv, RequestOK, RequestPc, UsesCopy
  <2>2. request' = [q \in Requests |-> request'[q]]
    BY DEF Crash
  <2> QED
    BY <2>1, <2>2 DEF RequestOK
<1>4. CountOK'
  BY CrashAssumption DEF Crash, TypeInv, CountOK
<1>5. FilesOK' /\ HistoryOK'
  BY FilesSame, HistorySame DEF Crash, TypeInv
<1> QED
  BY <1>1, <1>2, <1>3, <1>4, <1>5 DEF TypeInv

LEMMA NextTypeInv == TypeInv /\ [Next]_vars => TypeInv'
<1>1. CASE UNCHANGED vars
  BY <1>1, StoreSame, FilesSame, PipelineSame, RequestSame, CountSame, HistorySame
  DEF vars, TypeInv
<1> QED
  BY <1>1, SubmitType, RunType, HandlerType, GraceType, CrashType DEF Next

\* The inductive invariant of the typed state.
THEOREM TypeInvariant == Spec => []TypeInv
  BY InitTypeInv, NextTypeInv, PTL DEF Spec

\* Every variable of a job keeps its type: in particular an update never
\* writes anything but a record, and the batch counter stays in range.
THEOREM TypeCorrect == Spec => []TypeOK
  BY TypeInvariant, TypeInvImpliesTypeOK, PTL

-----------------------------------------------------------------------------
(***************************************************************************)
(* A cancel written with a checkpoint ahead.  CleanCancelHonoured is not   *)
(* inductive: it says nothing of the copies in flight, which could bring   *)
(* an old status back, nor of where the pipeline is.                       *)
(***************************************************************************)
Finished == {"meta", "done"}
FailPath == {"fail", "invalid", "cleanup", "failed", "lost"}

\* Either the record and the copy in flight still say so, or the pipeline is
\* failing.
CancelKept ==
    /\ Exists
    /\ \/ /\ pipeline.pc \in Checkpointed \cup Finished
          /\ rec.status = "CANCELLED"
          /\ pipeline.copy # NoRec => pipeline.copy.status = "CANCELLED"
       \/ /\ pipeline.pc \in FailPath
          /\ rec.status \in {"CANCELLED", "FAILED"}

CancelInv == cleanCancel => CancelKept

LEMMA CancelInvImplies == CancelInv => CleanCancelHonoured
  BY DEF CancelInv, CancelKept, CleanCancelHonoured

\* Where a step that writes no record may take the pipeline.
Moves ==
    /\ pipeline'.copy = NoRec
    /\ pipeline.pc \in Finished => pipeline'.pc \in Finished
    /\ pipeline.pc \in FailPath => pipeline'.pc \in FailPath
    /\ pipeline.pc \in Checkpointed =>
          pipeline'.pc \in Checkpointed \cup FailPath \cup {"meta"} \/ ~Is("CANCELLED")

\* The steps that write no record.
QuietRun ==
    \/ Dequeue \/ (ReadRecord /\ SkipsUpdate(pipeline.pc)) \/ Check
    \/ FindFile \/ Open \/ Validate \/ Extract \/ InspectText
    \/ TranslateBatch \/ GapFill \/ Save \/ CleanUp

\* The stages after an update or check, as Moves needs them.
LEMMA AfterMoves ==
    ASSUME NEW s \in Updates \cup Checks, NEW n \in After[s]
    PROVE  /\ s \in Finished => n \in Finished
           /\ s \in FailPath => n \in FailPath
           /\ s \in Checkpointed \ {"check3"} => n \in Checkpointed \cup FailPath
  BY DEF After, NextBatch, Updates, Checks, Progress, Starts, Fails, Finished, FailPath, Checkpointed

LEMMA QuietRunMoves ==
    ASSUME QuietRun
    PROVE  Moves
<1> USE DEF GoTo, Finished, FailPath, Checkpointed
<1>1. CASE Dequeue
  BY <1>1 DEF Dequeue, Moves
<1>2. CASE ReadRecord /\ SkipsUpdate(pipeline.pc)
  <2>1. CASE At("start1")
    BY <1>2, <2>1 DEF ReadRecord, Moves
  <2>2. CASE ~At("start1")
    <3>1. pipeline.pc \in Updates /\ "check3" \notin Updates
      BY <1>2 DEF ReadRecord, Updates, Progress, Starts, Fails
    <3>2. PICK n \in After[pipeline.pc] :
             pipeline' = [pc |-> n, copy |-> NoRec, batch |-> pipeline.batch]
      BY <1>2, <2>2 DEF ReadRecord
    <3> QED
      BY <3>1, <3>2, AfterMoves DEF Moves
  <2> QED
    BY <2>1, <2>2
<1>3. CASE Check
  BY <1>3, AfterMoves DEF Check, SeesCancel, Moves, Checks
<1>4. CASE FindFile \/ Open \/ Validate \/ Extract \/ InspectText
  BY <1>4 DEF FindFile, Open, Validate, Extract, InspectText, Moves
<1>5. CASE TranslateBatch \/ GapFill \/ Save \/ CleanUp
  BY <1>5 DEF TranslateBatch, NextBatch, GapFill, Save, CleanUp, Moves
<1> QED
  BY <1>1, <1>2, <1>3, <1>4, <1>5 DEF QuietRun

LEMMA QuietRunCancelInv ==
    ASSUME CancelInv, QuietRun
    PROVE  CancelInv'
<1>1. Moves
  BY QuietRunMoves
<1>2. rec' = rec /\ cleanCancel' = cleanCancel
  BY DEF QuietRun, Dequeue, ReadRecord, Check, FindFile, Open, Validate, Extract,
         InspectText, TranslateBatch, GapFill, Save, CleanUp, store, history
<1> QED
  BY <1>1, <1>2 DEF CancelInv, CancelKept, Moves, Finished

\* Submission is over when a cancel is written.
LEMMA SubmitCancelInv ==
    ASSUME CancelInv, Submit
    PROVE  CancelInv'
<1>1. cleanCancel' = cleanCancel /\ pipeline.pc \in {"new", "created", "recorded"}
  BY DEF Submit, Create, RecordTempDir, Enqueue, history
<1> QED
  BY <1>1 DEF CancelInv, CancelKept, Checkpointed, Finished, FailPath

\* The copy a pipeline update reads is the record of that moment.
LEMMA ReadCancelInv ==
    ASSUME TypeInv, CancelInv, ReadRecord, ~SkipsUpdate(pipeline.pc)
    PROVE  CancelInv'
<1>1. /\ cleanCancel' = cleanCancel
      /\ rec' = rec
      /\ pipeline' = [pipeline EXCEPT !.copy = rec]
  BY DEF ReadRecord, store, history
<1>2. pipeline'.pc = pipeline.pc /\ pipeline'.copy = rec
  BY <1>1 DEF TypeInv, PipelineOK
<1> QED
  BY <1>1, <1>2 DEF CancelInv, CancelKept

LEMMA WriteCancelInv ==
    ASSUME TypeInv, CancelInv, WriteRecord
    PROVE  CancelInv'
<1> SUFFICES ASSUME cleanCancel PROVE CancelKept'
  BY DEF CancelInv, WriteRecord, history
<1>1. /\ rec' = Updated(pipeline.pc, pipeline.copy)
      /\ pipeline.pc \in Updates
      /\ pipeline.copy \in Record
      /\ pipeline.copy # NoRec
  BY DEF WriteRecord, TypeInv, PipelineOK
<1>2. PICK n \in After[pipeline.pc] :
         pipeline' = [pc |-> n, copy |-> NoRec, batch |-> pipeline.batch]
  BY DEF WriteRecord, GoTo
<1>3. Exists' /\ rec'.status = StatusAfter(pipeline.pc, pipeline.copy)
  BY <1>1, UpdatedType, NoRecAssumption DEF Updated
<1>4. CASE /\ pipeline.pc \in Checkpointed \cup Finished
           /\ pipeline.copy.status = "CANCELLED"
  <2>1. pipeline.pc \notin Starts \cup Fails \cup {"complete", "check3"}
    BY <1>1, <1>4 DEF Updates, Progress, Starts, Fails, Checkpointed, Finished
  <2>2. rec'.status = "CANCELLED"
    BY <1>3, <1>4, <2>1 DEF StatusAfter
  <2>3. n \in Checkpointed \cup Finished \cup FailPath
    BY <1>1, <1>2, <1>4, <2>1, AfterMoves
  <2> QED
    BY <1>2, <1>3, <2>2, <2>3 DEF CancelKept
<1>5. CASE pipeline.pc \in FailPath
  <2>1. pipeline.pc \in {"fail", "invalid"}
    BY <1>1, <1>5 DEF FailPath, Updates, Progress, Starts, Fails
  <2>2. rec'.status = "FAILED"
    BY <1>3, <2>1 DEF StatusAfter, Starts, Fails
  <2>3. n \in FailPath
    BY <1>1, <1>2, <1>5, AfterMoves
  <2> QED
    BY <1>2, <1>3, <2>2, <2>3 DEF CancelKept
<1> QED
  BY <1>1, <1>4, <1>5 DEF CancelInv, CancelKept

\* A step of a handler changes the handler's own entry.
LEMMA HandlerEntry ==
    ASSUME TypeInv, NEW q \in Requests, NEW pc,
           \/ \E copy : Continue(q, pc, copy)
           \/ \E op : Begin(q, op, pc)
    PROVE  /\ request'[q].pc = pc
           /\ \A p \in Requests : p # q => request'[p] = request[p]
  BY DEF Continue, Begin, TypeInv, RequestOK

LEMMA FinishEntry ==
    ASSUME TypeInv, NEW q \in Requests, Finish(q) \/ Continue(q, "delete", NoRec)
    PROVE  /\ request'[q].pc \in {"done", "delete"}
           /\ \A p \in Requests : p # q => request'[p] = request[p]
<1>1. CASE Finish(q)
  BY <1>1, HandlerEntry DEF Finish
<1>2. CASE Continue(q, "delete", NoRec)
  BY <1>2, HandlerEntry
<1> QED
  BY <1>1, <1>2

LEMMA CancelWriteCancelInv ==
    ASSUME TypeInv, CancelInv, NEW q \in Requests, CancelWrite(q)
    PROVE  CancelInv'
<1> DEFINE cancelled == [request[q].copy EXCEPT !.status = "CANCELLED"]
<1>1. /\ request[q].pc = "write"
      /\ rec' = cancelled
      /\ cleanCancel' = (cleanCancel \/ (pipeline.pc \in Checkpointed /\ pipeline.copy = NoRec))
      /\ pipeline' = pipeline
  BY DEF CancelWrite
<1>2. Exists' /\ rec'.status = "CANCELLED"
  <2>1. request[q].copy \in Record
    BY <1>1 DEF TypeInv, RequestOK, UsesCopy
  <2>2. cancelled \in Record /\ cancelled.status = "CANCELLED"
    BY <2>1 DEF Record, Status
  <2> QED
    BY <1>1, <2>2, NoRecAssumption
<1>3. cleanCancel' /\ ~cleanCancel => pipeline.pc \in Checkpointed /\ pipeline.copy = NoRec
  BY <1>1
<1> HIDE DEF cancelled
<1> QED
  BY <1>1, <1>2, <1>3 DEF CancelInv, CancelKept

\* The other steps of a handler leave the record alone or delete it.
LEMMA HandlerCancelInv ==
    ASSUME TypeInv, CancelInv, NEW q \in Requests, Ask(q) \/ Handle(q)
    PROVE  CancelInv'
<1>1. CASE Ask(q) \/ CancelRead(q) \/ CancelFinish(q) \/ DownloadSent(q) \/ PurgeDirs(q)
  <2>1. UNCHANGED <<rec, pipeline, cleanCancel>>
    BY <1>1 DEF Ask, Cancel, Download, Purge, CancelRead, CancelFinish, DownloadSent, PurgeDirs,
                store, history
  <2> QED
    BY <2>1 DEF CancelInv, CancelKept
<1>2. CASE DropRecord(q)
  BY <1>2 DEF DropRecord, DeleteRecord, CancelInv
<1> QED
  BY <1>1, <1>2, CancelWriteCancelInv DEF Handle

\* Startup recovery does not find a cancelled or failed record orphaned.
LEMMA CrashCancelInv ==
    ASSUME TypeInv, CancelInv, Crash
    PROVE  CancelInv'
<1>1. pipeline'.pc = "lost" /\ pipeline'.copy = NoRec /\ cleanCancel' = cleanCancel
  BY DEF Crash, GoTo, history
<1>2. ~Orphaned => rec' = rec
  BY DEF Crash
<1>3. cleanCancel => Exists /\ ~Orphaned /\ rec.status \in {"CANCELLED", "FAILED"}
  BY DEF CancelInv, CancelKept, Orphaned, Active
<1> QED
  BY <1>1, <1>2, <1>3 DEF CancelInv, CancelKept, FailPath

LEMMA NextCancelInv == TypeInv /\ CancelInv /\ [Next]_vars => CancelInv'
<1> SUFFICES ASSUME TypeInv, CancelInv, [Next]_vars PROVE CancelInv'
  OBVIOUS
<1>1. CASE UNCHANGED vars
  BY <1>1 DEF vars, store, history, CancelInv, CancelKept
<1>2. CASE Run
  BY <1>2, QuietRunCancelInv, ReadCancelInv, WriteCancelInv DEF Run, QuietRun
<1>3. CASE GraceOver
  BY <1>3 DEF GraceOver, store, history, CancelInv, CancelKept
<1>4. CASE DeleteAfterGrace
  BY <1>4 DEF DeleteAfterGrace, DeleteRecord, CancelInv
<1> QED
  BY <1>1, <1>2, <1>3, <1>4, SubmitCancelInv, HandlerCancelInv, CrashCancelInv DEF Next

\* A cancel written with no update of the pipeline in flight and a checkpoint
\* ahead is respected as long as the record exists, whatever the other
\* requests, the failures and the crashes do (job_manager.py:161-178 and the
\* checkpoints of translate_document).
THEOREM CleanCancelRespected == Spec => []CleanCancelHonoured
<1>1. Init => CancelInv
  BY DEF Init, CancelInv
<1> QED
  BY <1>1, NextCancelInv, TypeInvariant, CancelInvImplies, PTL DEF Spec

-----------------------------------------------------------------------------
(***************************************************************************)
(* The upload directory of a failed or cancelled run.  The clean-up goes   *)
(* by the record, so no copy that overwrites it may have lost the path.    *)
(***************************************************************************)
Unrecorded == {"new", "created", "lost"}

\* After the clean-up the upload directory is removed or marked.
Reclaimed == At("failed") => dirs.main # "live"

\* Once a job can run, its record and every copy about to overwrite it know
\* the upload directory; and the clean-up has removed or marked it.
MainKnown ==
    /\ Exists /\ (rec.status = "RUNNING" \/ pipeline.pc \notin Unrecorded) => rec.main
    /\ pipeline.copy # NoRec => pipeline.copy.main
    /\ \A q \in Requests : request[q].pc = "write" => request[q].copy.main
    /\ Reclaimed

\* A directory is marked only where somebody keeps the artifacts.
MarkedKept == dirs.main = "retained" => keep # "no"

\* Cleaning makes no directory live, and leaves no named one live.
LEMMA CleanDirsReclaims ==
    ASSUME FilesOK, NEW names, NEW retain, CleanDirs(names, retain)
    PROVE  /\ dirs.main # "live" => dirs'.main # "live"
           /\ "main" \in names => dirs'.main # "live"
  BY DEF FilesOK, CleanDirs

LEMMA CleanJobDirsReclaims ==
    ASSUME FilesOK, NEW r, NEW fallback, CleanJobDirs(r, fallback)
    PROVE  /\ dirs.main # "live" => dirs'.main # "live"
           /\ r.main => dirs'.main # "live"
  BY CleanDirsReclaims DEF CleanJobDirs, DirsOf

\* A step of the job stays inside the stages of a recorded job.
LEMMA RunStages ==
    ASSUME TypeInv, Run
    PROVE  /\ pipeline.pc \notin Unrecorded
           /\ pipeline'.pc \notin Unrecorded
           /\ pipeline'.pc = "failed" => CleanUp
<1>1. CASE WriteRecord \/ (ReadRecord /\ SkipsUpdate(pipeline.pc)) \/ Check
  <2>1. /\ pipeline.pc \in Updates \cup Checks
        /\ pipeline'.pc \in After[pipeline.pc] \cup {"done", "cleanup"}
    BY <1>1 DEF WriteRecord, ReadRecord, Check, GoTo
  <2>2. \A n \in After[pipeline.pc] : n \notin Unrecorded \cup {"failed"}
    BY <2>1 DEF After, NextBatch, Updates, Checks, Progress, Starts, Fails, Unrecorded
  <2> QED
    BY <2>1, <2>2 DEF Updates, Checks, Progress, Starts, Fails, Unrecorded
<1>2. CASE ReadRecord /\ ~SkipsUpdate(pipeline.pc)
  <2>1. pipeline' = [pipeline EXCEPT !.copy = rec] /\ pipeline.pc \in Updates
    BY <1>2 DEF ReadRecord
  <2>2. pipeline'.pc = pipeline.pc
    BY <2>1 DEF TypeInv, PipelineOK
  <2> QED
    BY <2>1, <2>2 DEF Updates, Progress, Starts, Fails, Unrecorded
<1>3. CASE Dequeue \/ FindFile \/ Open \/ Validate \/ Extract \/ InspectText
  BY <1>3 DEF Dequeue, FindFile, Open, Validate, Extract, InspectText, GoTo, Unrecorded
<1>4. CASE TranslateBatch \/ GapFill \/ Save \/ CleanUp
  BY <1>4 DEF TranslateBatch, NextBatch, GapFill, Save, CleanUp, GoTo, Unrecorded
<1> QED
  BY <1>1, <1>2, <1>3, <1>4 DEF Run

LEMMA RunMainKnown ==
    ASSUME TypeInv, MainKnown, Run
    PROVE  MainKnown'
<1>1. request' = request
  BY DEF Run, Dequeue, ReadRecord, WriteRecord, Check, FindFile, Open, Validate, Extract,
         InspectText, TranslateBatch, GapFill, Save, CleanUp
<1>2. CASE WriteRecord
  <2>1. /\ rec' = Updated(pipeline.pc, pipeline.copy)
        /\ pipeline.copy \in Record
        /\ pipeline'.copy = NoRec
    BY <1>2 DEF WriteRecord, GoTo, TypeInv, PipelineOK
  <2>2. rec'.main
    BY <2>1, NoRecAssumption DEF MainKnown, Updated, Record
  <2>3. ~CleanUp
    BY <1>2 DEF WriteRecord, CleanUp, Updates, Progress, Starts, Fails
  <2> QED
    BY <1>1, <2>1, <2>2, <2>3, RunStages DEF MainKnown, Reclaimed
<1>3. CASE ReadRecord
  <2>1. rec' = rec /\ pipeline'.copy \in {rec, NoRec}
    BY <1>3 DEF ReadRecord, GoTo, store, TypeInv, PipelineOK
  <2>2. ~CleanUp
    BY <1>3 DEF ReadRecord, CleanUp, Updates, Progress, Starts, Fails
  <2> QED
    BY <1>1, <2>1, <2>2, RunStages DEF MainKnown, Reclaimed
<1>4. CASE CleanUp
  <2>1. rec' = rec /\ pipeline'.copy = NoRec /\ CleanRunDirs
    BY <1>4 DEF CleanUp, GoTo, store
  <2>2. Exists => rec.main
    BY RunStages DEF MainKnown
  <2>3. dirs'.main # "live"
    BY <2>1, <2>2, CleanJobDirsReclaims, CleanDirsReclaims DEF CleanRunDirs, TypeInv
  <2> QED
    BY <1>1, <2>1, <2>2, <2>3 DEF MainKnown, Reclaimed
<1>5. CASE ~WriteRecord /\ ~ReadRecord /\ ~CleanUp
  <2>1. rec' = rec /\ pipeline'.copy = NoRec
    BY <1>5 DEF Run, Dequeue, Check, FindFile, Open, Validate, Extract, InspectText,
                TranslateBatch, GapFill, Save, GoTo, store
  <2> QED
    BY <1>1, <1>5, <2>1, RunStages DEF MainKnown, Reclaimed
<1> QED
  BY <1>2, <1>3, <1>4, <1>5

LEMMA HandlerMainKnown ==
    ASSUME TypeInv, MainKnown, NEW q \in Requests, Ask(q) \/ Handle(q)
    PROVE  MainKnown'
<1>1. pipeline' = pipeline
  BY DEF Ask, Handle, Cancel, CancelRead, CancelWrite, CancelFinish, Download, DownloadSent,
         Purge, PurgeDirs, DropRecord
<1>2. dirs.main # "live" => dirs'.main # "live"
  <2>1. CASE CancelFinish(q)
    BY <2>1, CleanJobDirsReclaims DEF CancelFinish, TypeInv, files
  <2>2. CASE DownloadSent(q) \/ PurgeDirs(q)
    BY <2>2, CleanJobDirsReclaims DEF DownloadSent, PurgeDirs, TypeInv
  <2>3. CASE ~CancelFinish(q) /\ ~DownloadSent(q) /\ ~PurgeDirs(q)
    BY <2>3 DEF Ask, Handle, Cancel, CancelRead, CancelWrite, Download, Purge, DropRecord, files
  <2> QED
    BY <2>1, <2>2, <2>3
<1>3. Reclaimed'
  BY <1>1, <1>2 DEF MainKnown, Reclaimed
<1>4. CASE CancelWrite(q)
  <2> DEFINE cancelled == [request[q].copy EXCEPT !.status = "CANCELLED"]
  <2>1. request[q].pc = "write" /\ rec' = cancelled /\ request[q].copy \in Record
    BY <1>4 DEF CancelWrite, TypeInv, RequestOK, UsesCopy
  <2>2. cancelled.main = request[q].copy.main
    BY <2>1 DEF Record
  <2>3. request'[q].pc # "write" /\ \A p \in Requests : p # q => request'[p] = request[p]
    <3> HIDE DEF cancelled
    <3>1. Continue(q, IF request[q].op = "cancel" THEN "finish" ELSE "done", cancelled)
      BY <1>4 DEF CancelWrite, cancelled
    <3> QED
      BY <3>1, HandlerEntry
  <2> HIDE DEF cancelled
  <2> QED
    BY <1>1, <1>3, <2>1, <2>2, <2>3 DEF MainKnown
<1>5. CASE CancelRead(q)
  <2>1. rec' = rec
    BY <1>5 DEF CancelRead, store
  <2>2. \A p \in Requests : p # q => request'[p] = request[p]
    BY <1>5 DEF CancelRead, Finish, Continue, TypeInv, RequestOK
  <2>3. request'[q].pc = "write" => Is("RUNNING") /\ request'[q].copy = rec
    BY <1>5 DEF CancelRead, Finish, Continue, TypeInv, RequestOK
  <2> QED
    BY <1>1, <1>3, <2>1, <2>2, <2>3 DEF MainKnown
<1>6. CASE ~CancelWrite(q) /\ ~CancelRead(q)
  <2>1. rec' = rec \/ rec' = NoRec
    BY <1>6 DEF Ask, Handle, Cancel, CancelFinish, Download, DownloadSent, Purge, PurgeDirs,
                DropRecord, DeleteRecord, store
  <2>2. request'[q].pc # "write" /\ \A p \in Requests : p # q => request'[p] = request[p]
    <3>1. CASE Ask(q)
      <4>1. PICK op, pc : Begin(q, op, pc) /\ pc # "write"
        BY <3>1 DEF Ask, Cancel, Download, Purge
      <4> QED
        BY <4>1, HandlerEntry
    <3>2. CASE CancelFinish(q) \/ DownloadSent(q) \/ PurgeDirs(q) \/ DropRecord(q)
      BY <3>2, FinishEntry DEF CancelFinish, DownloadSent, PurgeDirs, DropRecord
    <3> QED
      BY <1>6, <3>1, <3>2 DEF Handle
  <2> QED
    BY <1>1, <1>3, <2>1, <2>2 DEF MainKnown
<1> QED
  BY <1>4, <1>5, <1>6

LEMMA NextMainKnown == TypeInv /\ MainKnown /\ [Next]_vars => MainKnown'
<1> SUFFICES ASSUME TypeInv, MainKnown, [Next]_vars PROVE MainKnown'
  OBVIOUS
<1>1. CASE UNCHANGED vars
  BY <1>1 DEF vars, store, files, MainKnown, Reclaimed
<1>2. CASE Submit
  <2>1. request' = request /\ pipeline'.copy = NoRec /\ pipeline'.pc # "failed"
    BY <1>2 DEF Submit, Create, RecordTempDir, Enqueue, GoTo
  <2>2. Create => pipeline'.pc = "created" /\ rec'.status = "PENDING"
    BY DEF Create, GoTo
  <2>3. RecordTempDir => rec'.main
    BY DEF RecordTempDir
  <2>4. Enqueue => rec' = rec /\ pipeline.pc \notin Unrecorded
    BY DEF Enqueue, store, Unrecorded
  <2> QED
    BY <1>2, <2>1, <2>2, <2>3, <2>4 DEF Submit, MainKnown, Reclaimed, Unrecorded
<1>3. CASE GraceOver \/ DeleteAfterGrace
  BY <1>3 DEF GraceOver, DeleteAfterGrace, DeleteRecord, store, files, MainKnown, Reclaimed
<1>4. CASE Crash
  <2>1. pipeline'.pc = "lost" /\ pipeline'.copy = NoRec
    BY <1>4 DEF Crash, GoTo
  <2>2. \A q \in Requests : request'[q].pc # "write"
    BY <1>4 DEF Crash
  <2>3. Exists' /\ rec'.status = "RUNNING" => rec' = rec
    <3> DEFINE failed == [rec EXCEPT !.status = "FAILED"]
    <3>1. rec' = rec \/ (Orphaned /\ rec' = failed)
      BY <1>4 DEF Crash
    <3>2. Orphaned => failed.status = "FAILED"
      BY DEF Orphaned, TypeInv, StoreOK, Record
    <3> HIDE DEF failed
    <3> QED
      BY <3>1, <3>2
  <2> QED
    BY <2>1, <2>2, <2>3 DEF MainKnown, Reclaimed, Unrecorded
<1> QED
  BY <1>1, <1>2, <1>3, <1>4, RunMainKnown, HandlerMainKnown DEF Next

\* Cleaning without a reason to keep marks nothing.
LEMMA CleanDirsMarks ==
    ASSUME FilesOK, NEW names, NEW retain \in BOOLEAN, CleanDirs(names, retain),
           dirs'.main = "retained"
    PROVE  dirs.main = "retained" \/ retain
  BY DEF FilesOK, CleanDirs

LEMMA CleanJobDirsMarks ==
    ASSUME FilesOK, MarkedKept, NEW r, NEW fallback, CleanJobDirs(r, fallback), keep' = keep
    PROVE  MarkedKept'
<1> DEFINE retain == Retained(r)
<1>1. retain \in BOOLEAN /\ (retain => keep # "no")
  BY DEF Retained
<1>2. CleanDirs(DirsOf(r) \cup fallback, retain)
  BY DEF CleanJobDirs
<1> HIDE DEF retain
<1> QED
  BY <1>1, <1>2, CleanDirsMarks DEF MarkedKept

\* Who keeps the artifacts does not change.
LEMMA KeepSame == [Next]_vars => keep' = keep
<1> SUFFICES ASSUME [Next]_vars PROVE keep' = keep
  OBVIOUS
<1>1. CASE UNCHANGED vars \/ Submit \/ GraceOver \/ DeleteAfterGrace \/ Crash
  BY <1>1 DEF vars, server, Submit, Create, RecordTempDir, Enqueue, GraceOver, DeleteAfterGrace, Crash
<1>2. CASE Run
  BY <1>2 DEF server, Run, Dequeue, ReadRecord, WriteRecord, Check, FindFile, Open, Validate,
         Extract, InspectText, TranslateBatch, GapFill, Save, CleanUp
<1>3. CASE \E q \in Requests : Ask(q) \/ Handle(q)
  BY <1>3 DEF server, Ask, Handle, Cancel, CancelRead, CancelWrite, CancelFinish, Download,
         DownloadSent, Purge, PurgeDirs, DropRecord
<1> QED
  BY <1>1, <1>2, <1>3 DEF Next

LEMMA NextMarkedKept == TypeInv /\ MarkedKept /\ [Next]_vars => MarkedKept'
<1> SUFFICES ASSUME TypeInv, MarkedKept, [Next]_vars PROVE MarkedKept'
  OBVIOUS
<1>1. FilesOK
  BY DEF TypeInv
<1>2. CASE UNCHANGED vars \/ GraceOver \/ DeleteAfterGrace \/ Crash
  BY <1>2, KeepSame DEF vars, GraceOver, DeleteAfterGrace, Crash, files, MarkedKept
<1>3. CASE Submit
  BY <1>1, <1>3, KeepSame DEF Submit, Create, RecordTempDir, Enqueue, files, MarkedKept, FilesOK
<1>4. CASE Run
  <2>1. keep' = keep
    BY KeepSame
  <2>2. CASE CleanUp
    <3>1. CleanJobDirs(rec, {}) \/ CleanDirs({"main"}, keep = "global")
      BY <2>2 DEF CleanUp, CleanRunDirs
    <3>2. CASE CleanDirs({"main"}, keep = "global")
      BY <1>1, <2>1, <3>2, CleanDirsMarks DEF MarkedKept
    <3> QED
      BY <1>1, <2>1, <3>1, <3>2, CleanJobDirsMarks
  <2>3. CASE Extract \/ Save
    BY <1>1, <2>1, <2>3 DEF Extract, Save, FilesOK, MarkedKept
  <2>4. CASE ~CleanUp /\ ~Extract /\ ~Save
    BY <1>4, <2>1, <2>4 DEF Run, Dequeue, ReadRecord, WriteRecord, Check, FindFile, Open,
                Validate, InspectText, TranslateBatch, GapFill, files, MarkedKept
  <2> QED
    BY <2>2, <2>3, <2>4
<1>5. CASE \E q \in Requests : Ask(q) \/ Handle(q)
  <2>1. keep' = keep /\ (UNCHANGED files \/ \E r, fallback : CleanJobDirs(r, fallback))
    BY <1>5, KeepSame DEF Ask, Handle, Cancel, CancelRead, CancelWrite, CancelFinish, Download,
                DownloadSent, Purge, PurgeDirs, DropRecord
  <2> QED
    BY <1>1, <2>1, CleanJobDirsMarks DEF files, MarkedKept
<1> QED
  BY <1>2, <1>3, <1>4, <1>5 DEF Next

\* A failed or cancelled run has removed the upload directory, or marked it where
\* somebody keeps the artifacts, whatever requests and updates overwrote the
\* record meanwhile (app.py:229-249 and 271-297).
THEOREM FailedRunsReclaim == Spec => []FailedRunReclaims
<1>1. Init => MainKnown /\ MarkedKept
  BY DEF Init, MainKnown, Reclaimed, MarkedKept
<1>2. TypeInv /\ MainKnown /\ MarkedKept => FailedRunReclaims
  BY DEF MainKnown, Reclaimed, MarkedKept, FailedRunReclaims, TypeInv, FilesOK
<1> QED
  BY <1>1, <1>2, NextMainKnown, NextMarkedKept, TypeInvariant, PTL DEF Spec

-----------------------------------------------------------------------------
(***************************************************************************)
(* The upload directory while artifacts are kept: cleaning marks it.       *)
(***************************************************************************)

\* With the global flag a cleaned directory is still there.
LEMMA CleanDirsKeeps ==
    ASSUME FilesOK, NEW names, CleanDirs(names, TRUE), dirs.main # "none"
    PROVE  dirs'.main # "none"
  BY DEF FilesOK, CleanDirs

LEMMA CleanJobDirsKeeps ==
    ASSUME FilesOK, NEW r, NEW fallback, CleanJobDirs(r, fallback),
           keep = "global", dirs.main # "none"
    PROVE  dirs'.main # "none"
<1>1. Retained(r) = TRUE
  BY DEF Retained
<1> QED
  BY <1>1, CleanDirsKeeps DEF CleanJobDirs

LEMMA NextUploadKept == TypeInv /\ UploadKept /\ [Next]_vars => UploadKept'
<1> SUFFICES ASSUME TypeInv, UploadKept, [Next]_vars, keep = "global", ~At("new")'
             PROVE  dirs'.main # "none"
  BY KeepSame DEF UploadKept
<1> USE DEF TypeInv
<1>1. CASE UNCHANGED vars
  BY <1>1 DEF vars, files, UploadKept
<1>2. CASE Create
  BY <1>2 DEF Create, FilesOK
<1>3. CASE RecordTempDir \/ Enqueue
  BY <1>3 DEF RecordTempDir, Enqueue, files, UploadKept
<1>4. CASE Run
  <2>1. dirs.main # "none"
    BY <1>4, RunStages DEF UploadKept, Unrecorded
  <2>2. CASE CleanUp
    <3>1. CleanJobDirs(rec, {}) \/ CleanDirs({"main"}, TRUE)
      BY <2>2 DEF CleanUp, CleanRunDirs
    <3> QED
      BY <2>1, <3>1, CleanJobDirsKeeps, CleanDirsKeeps
  <2>3. CASE Extract \/ Save
    BY <2>1, <2>3 DEF Extract, Save, FilesOK
  <2>4. CASE ~CleanUp /\ ~Extract /\ ~Save
    BY <1>4, <2>1, <2>4 DEF Run, Dequeue, ReadRecord, WriteRecord, Check, FindFile, Open,
                Validate, InspectText, TranslateBatch, GapFill, files
  <2> QED
    BY <2>2, <2>3, <2>4
<1>5. CASE \E q \in Requests : Ask(q) \/ Handle(q)
  <2>1. PICK q \in Requests : Ask(q) \/ Handle(q)
    BY <1>5
  <2>2. pipeline' = pipeline
    BY <2>1 DEF Ask, Handle, Cancel, CancelRead, CancelWrite, CancelFinish, Download,
                DownloadSent, Purge, PurgeDirs, DropRecord
  <2>3. dirs.main # "none"
    BY <2>2 DEF UploadKept
  <2>4. UNCHANGED files \/ \E r, fallback : CleanJobDirs(r, fallback)
    BY <2>1 DEF Ask, Handle, Cancel, CancelRead, CancelWrite, CancelFinish, Download,
                DownloadSent, Purge, PurgeDirs, DropRecord
  <2> QED
    BY <2>3, <2>4, CleanJobDirsKeeps DEF files
<1>6. CASE GraceOver \/ DeleteAfterGrace \/ Crash
  BY <1>6 DEF GraceOver, DeleteAfterGrace, Crash, files, UploadKept
<1> QED
  BY <1>1, <1>2, <1>3, <1>4, <1>5, <1>6 DEF Next, Submit

\* With the global flag the upload outlives every request, failure and crash,
\* whatever became of the record (service.py:213-247, app.py:699-702).
THEOREM UploadStaysKept == Spec => []UploadKept
<1>1. Init => UploadKept
  BY DEF Init, UploadKept
<1> QED
  BY <1>1, NextUploadKept, TypeInvariant, PTL DEF Spec

-----------------------------------------------------------------------------
(***************************************************************************)
(* The status only moves forward.  An update overwrites the record with an *)
(* older copy, so the copy's status must fit the stage the job has reached *)
(* as well as the record's.                                                *)
(***************************************************************************)
Unstarted == {"new", "created", "recorded", "queued", "start1", "lost"}
Failing == {"fail", "cleanup", "failed", "done", "lost"}

\* A status seen in the record or in a copy, and where the pipeline is then.
Fits(status) ==
    /\ status = "PENDING" => pipeline.pc \in Unstarted
    /\ status = "FAILED" => pipeline.pc \in Failing
    /\ status = "COMPLETED" => pipeline.pc \in Finished \cup {"lost"}

\* Before the job is taken from the queue its record is pending and nobody is
\* about to cancel it; a completed job's last update has seen that.
ForwardInv ==
    /\ Exists => Fits(rec.status)
    /\ pipeline.copy # NoRec => Fits(pipeline.copy.status)
    /\ At("meta") /\ pipeline.copy # NoRec /\ Is("COMPLETED") => pipeline.copy.status = "COMPLETED"
    /\ pipeline.pc \in Submission =>
          /\ pipeline.copy = NoRec
          /\ Exists => rec.status = "PENDING"
          /\ \A q \in Requests : request[q].pc # "write"

\* What a step may do to the status.
Forward ==
    Exists /\ Exists' =>
        /\ rec.status \in {"COMPLETED", "FAILED"} => rec'.status \notin Active
        /\ rec.status # "PENDING" => rec'.status # "PENDING"
        /\ rec.status = "FAILED" => rec'.status # "COMPLETED"

\* A step of the job that writes no record leaves the queue only for a job that
\* is not pending, and stays among the last stages of its kind.
LEMMA QuietRunForward ==
    ASSUME QuietRun
    PROVE  /\ pipeline'.copy = NoRec
           /\ pipeline'.pc \notin Submission
           /\ pipeline.pc \in Failing => pipeline'.pc \in Failing
           /\ pipeline.pc \in Finished => pipeline'.pc \in Finished
           /\ pipeline.pc \in Unstarted => \/ pipeline'.pc = "start1"
                                           \/ Is("CANCELLED") \/ rec = NoRec
           /\ pipeline'.pc = "lost" => pipeline.pc = "lost"
<1> USE DEF GoTo, Finished, Failing, Unstarted, Submission
<1>1. CASE Dequeue
  BY <1>1 DEF Dequeue
<1>2. CASE ReadRecord /\ SkipsUpdate(pipeline.pc)
  <2>1. CASE At("start1")
    BY <1>2, <2>1 DEF ReadRecord, SkipsUpdate, Progress
  <2>2. CASE ~At("start1")
    <3>1. PICK n \in After[pipeline.pc] :
             pipeline' = [pc |-> n, copy |-> NoRec, batch |-> pipeline.batch]
      BY <1>2, <2>2 DEF ReadRecord
    <3>2. pipeline.pc \in Updates
      BY <1>2 DEF ReadRecord
    <3> QED
      BY <2>2, <3>1, <3>2 DEF After, NextBatch, Updates, Progress, Starts, Fails
  <2> QED
    BY <2>1, <2>2
<1>3. CASE Check
  <2>1. CASE SeesCancel
    BY <1>3, <2>1 DEF Check, SeesCancel, Checks, After, NextBatch
  <2>2. CASE ~SeesCancel
    BY <1>3, <2>2 DEF Check, Checks, After, NextBatch
  <2> QED
    BY <2>1, <2>2
<1>4. CASE FindFile \/ Open \/ Validate \/ Extract \/ InspectText
  BY <1>4 DEF FindFile, Open, Validate, Extract, InspectText
<1>5. CASE TranslateBatch \/ GapFill \/ Save \/ CleanUp
  BY <1>5 DEF TranslateBatch, NextBatch, GapFill, Save, CleanUp
<1> QED
  BY <1>1, <1>2, <1>3, <1>4, <1>5 DEF QuietRun

LEMMA QuietForwardInv ==
    ASSUME ForwardInv, QuietRun
    PROVE  ForwardInv' /\ Forward
<1>1. rec' = rec
  BY DEF QuietRun, Dequeue, ReadRecord, Check, FindFile, Open, Validate, Extract,
         InspectText, TranslateBatch, GapFill, Save, CleanUp, store
<1>2. Exists => Fits(rec.status)'
  BY <1>1, QuietRunForward DEF ForwardInv, Fits, Unstarted, Failing, Finished
<1> QED
  BY <1>1, <1>2, QuietRunForward DEF ForwardInv, Forward, Active

\* The copy an update reads is the record of that moment.
LEMMA ReadForwardInv ==
    ASSUME TypeInv, ForwardInv, ReadRecord, ~SkipsUpdate(pipeline.pc)
    PROVE  ForwardInv' /\ Forward
<1>1. rec' = rec /\ pipeline.pc \in Updates /\ pipeline' = [pipeline EXCEPT !.copy = rec]
  BY DEF ReadRecord, store
<1>2. pipeline'.pc = pipeline.pc /\ pipeline'.copy = rec
  BY <1>1 DEF TypeInv, PipelineOK
<1>3. pipeline.pc \notin Submission
  BY <1>1 DEF Updates, Progress, Starts, Fails, Submission
<1> QED
  BY <1>1, <1>2, <1>3 DEF ForwardInv, Fits, Forward, Active

\* What an update writes fits the stage it goes to.
LEMMA WriteForwardInv ==
    ASSUME TypeInv, ForwardInv, WriteRecord
    PROVE  ForwardInv' /\ Forward
<1> DEFINE pc == pipeline.pc
<1> DEFINE status == pipeline.copy.status
<1>1. /\ pc \in Updates /\ pipeline.copy \in Record /\ pipeline.copy # NoRec
      /\ rec' = Updated(pc, pipeline.copy)
  BY DEF WriteRecord, TypeInv, PipelineOK
<1>2. PICK n \in After[pc] : pipeline'.pc = n /\ pipeline'.copy = NoRec
  BY DEF WriteRecord, GoTo
<1>3. rec'.status = StatusAfter(pc, pipeline.copy)
  BY <1>1 DEF Updated
<1>4. Fits(status) /\ (Exists => Fits(rec.status))
  BY <1>1 DEF ForwardInv
<1>5. n \notin Submission
  BY <1>1, <1>2 DEF After, NextBatch, Updates, Progress, Starts, Fails, Submission
<1>6. CASE pc \in Starts
  <2>1. rec'.status = "RUNNING"
    BY <1>3, <1>6 DEF StatusAfter
  <2>2. Exists => rec.status \notin {"COMPLETED", "FAILED"}
    BY <1>4, <1>6 DEF Fits, Starts, Finished, Failing
  <2> QED
    BY <1>2, <1>5, <2>1, <2>2 DEF ForwardInv, Fits, Forward
<1>7. CASE pc \in Fails
  <2>1. rec'.status = "FAILED"
    BY <1>3, <1>7 DEF StatusAfter, Starts, Fails
  <2>2. n \in Failing
    BY <1>2, <1>7 DEF After, Fails, Failing
  <2> QED
    BY <1>2, <1>5, <2>1, <2>2 DEF ForwardInv, Fits, Forward, Active
<1>8. CASE pc = "complete"
  <2>1. rec'.status = "COMPLETED"
    BY <1>3, <1>8 DEF StatusAfter, Starts, Fails
  <2>2. n = "meta"
    BY <1>2, <1>8 DEF After
  <2>3. Exists => rec.status # "FAILED"
    BY <1>4, <1>8 DEF Fits, Failing
  <2> QED
    BY <1>2, <1>5, <2>1, <2>2, <2>3 DEF ForwardInv, Fits, Forward, Active, Finished
<1>9. CASE pc \notin Starts \cup Fails \cup {"complete"}
  <2>1. rec'.status = status
    BY <1>3, <1>9 DEF StatusAfter
  <2>2. pc \in Progress \cup {"register", "meta"}
    BY <1>1, <1>9 DEF Updates
  <2>3. status \notin {"PENDING", "FAILED"}
    BY <1>4, <2>2 DEF Fits, Progress, Unstarted, Failing
  <2>4. status = "COMPLETED" => pc = "meta" /\ n = "done"
    BY <1>2, <1>4, <2>2 DEF Fits, Progress, Finished, After
  <2>5. Exists => rec.status # "FAILED" /\ (rec.status = "COMPLETED" => pc = "meta")
    BY <1>4, <2>2 DEF Fits, Progress, Failing, Finished
  <2>6. Exists /\ rec.status = "COMPLETED" => status = "COMPLETED"
    BY <1>1, <2>5 DEF ForwardInv
  <2> HIDE DEF status, pc
  <2> QED
    BY <1>2, <1>5, <2>1, <2>3, <2>4, <2>5, <2>6 DEF ForwardInv, Fits, Forward, Active, Finished
<1> QED
  BY <1>6, <1>7, <1>8, <1>9

\* The record is created pending and stays so until the job is queued.
LEMMA SubmitForwardInv ==
    ASSUME TypeInv, ForwardInv, Submit
    PROVE  ForwardInv' /\ Forward
<1>1. /\ request' = request /\ pipeline'.copy = NoRec
      /\ pipeline.pc \in {"new", "created", "recorded"}
      /\ pipeline'.pc \in {"created", "recorded", "queued"}
  BY DEF Submit, Create, RecordTempDir, Enqueue, GoTo
<1>2. rec' = rec \/ rec'.status = "PENDING"
  BY DEF Submit, Create, RecordTempDir, Enqueue, store
<1>3. Exists => rec.status = "PENDING"
  BY <1>1 DEF ForwardInv, Submission
<1>4. Exists' => rec'.status = "PENDING"
  BY <1>2, <1>3
<1> QED
  BY <1>1, <1>3, <1>4 DEF ForwardInv, Fits, Forward, Submission, Unstarted

\* A handler only cancels a job that was running when it looked.
LEMMA HandlerForwardInv ==
    ASSUME TypeInv, ForwardInv, NEW q \in Requests, Ask(q) \/ Handle(q)
    PROVE  ForwardInv' /\ Forward
<1>1. pipeline' = pipeline
  BY DEF Ask, Handle, Cancel, CancelRead, CancelWrite, CancelFinish, Download, DownloadSent,
         Purge, PurgeDirs, DropRecord
<1>2. CASE CancelWrite(q)
  <2> DEFINE cancelled == [request[q].copy EXCEPT !.status = "CANCELLED"]
  <2>1. request[q].pc = "write" /\ rec' = cancelled /\ request[q].copy \in Record
    BY <1>2 DEF CancelWrite, TypeInv, RequestOK, UsesCopy
  <2>2. rec'.status = "CANCELLED"
    BY <2>1 DEF Record
  <2>3. pipeline.pc \notin Submission
    BY <2>1 DEF ForwardInv
  <2> HIDE DEF cancelled
  <2> QED
    BY <1>1, <2>2, <2>3 DEF ForwardInv, Fits, Forward, Active
<1>3. CASE CancelRead(q)
  <2>1. rec' = rec
    BY <1>3 DEF CancelRead, store
  <2>2. \A p \in Requests : p # q => request'[p] = request[p]
    BY <1>3 DEF CancelRead, Finish, Continue, TypeInv, RequestOK
  <2>3. request'[q].pc = "write" => Is("RUNNING")
    BY <1>3 DEF CancelRead, Finish, Continue, TypeInv, RequestOK
  <2> QED
    BY <1>1, <2>1, <2>2, <2>3 DEF ForwardInv, Fits, Forward, Active
<1>4. CASE ~CancelWrite(q) /\ ~CancelRead(q)
  <2>1. rec' = rec \/ rec' = NoRec
    BY <1>4 DEF Ask, Handle, Cancel, CancelFinish, Download, DownloadSent, Purge, PurgeDirs,
                DropRecord, DeleteRecord, store
  <2>2. request'[q].pc # "write" /\ \A p \in Requests : p # q => request'[p] = request[p]
    <3>1. CASE Ask(q)
      <4>1. PICK op, pc : Begin(q, op, pc) /\ pc # "write"
        BY <3>1 DEF Ask, Cancel, Download, Purge
      <4> QED
        BY <4>1, HandlerEntry
    <3>2. CASE CancelFinish(q) \/ DownloadSent(q) \/ PurgeDirs(q) \/ DropRecord(q)
      BY <3>2, FinishEntry DEF CancelFinish, DownloadSent, PurgeDirs, DropRecord
    <3> QED
      BY <1>4, <3>1, <3>2 DEF Handle
  <2> QED
    BY <1>1, <2>1, <2>2 DEF ForwardInv, Fits, Forward, Active
<1> QED
  BY <1>2, <1>3, <1>4

\* Recovery fails only jobs that had not ended.
LEMMA CrashForwardInv ==
    ASSUME TypeInv, ForwardInv, Crash
    PROVE  ForwardInv' /\ Forward
<1>1. pipeline'.pc = "lost" /\ pipeline'.copy = NoRec
  BY DEF Crash, GoTo
<1>2. rec' = rec \/ (Exists /\ rec.status \in Active /\ rec'.status = "FAILED")
  BY DEF Crash, Orphaned, TypeInv, StoreOK, Record
<1> QED
  BY <1>1, <1>2 DEF ForwardInv, Fits, Forward, Active, Unstarted, Failing, Submission

LEMMA NextForwardInv ==
    TypeInv /\ ForwardInv /\ [Next]_vars => ForwardInv' /\ [Forward]_vars
<1> SUFFICES ASSUME TypeInv, ForwardInv, [Next]_vars PROVE ForwardInv' /\ [Forward]_vars
  OBVIOUS
<1>1. CASE UNCHANGED vars
  BY <1>1 DEF vars, store, ForwardInv, Fits
<1>2. CASE Run
  BY <1>2, QuietForwardInv, ReadForwardInv, WriteForwardInv DEF Run, QuietRun
<1>3. CASE GraceOver \/ DeleteAfterGrace
  BY <1>3 DEF GraceOver, DeleteAfterGrace, DeleteRecord, store, ForwardInv, Fits, Forward, Active
<1> QED
  BY <1>1, <1>2, <1>3, SubmitForwardInv, HandlerForwardInv, CrashForwardInv DEF Next

\* A job that completed or failed never runs again, none goes back to the queue
\* and nothing completes a failed one, although every update of job_manager.py
\* writes back an older copy of the record.  (A cancelled one may run again.)
THEOREM CompletedOrFailedNeverRuns == Spec => StatusMovesForward
<1>1. Init => ForwardInv
  BY DEF Init, ForwardInv
<1>2. [Forward]_vars =>
        [Exists /\ Exists' =>
            /\ rec.status \in {"COMPLETED", "FAILED"} => rec'.status \notin Active
            /\ rec.status # "PENDING" => rec'.status # "PENDING"
            /\ rec.status = "FAILED" => rec'.status # "COMPLETED"]_vars
  BY DEF Forward
<1> QED
  BY <1>1, <1>2, NextForwardInv, TypeInvariant, PTL DEF Spec, StatusMovesForward

-----------------------------------------------------------------------------
(***************************************************************************)
(* A completed job without its file.  The index is written once, so a      *)
(* deletion that is on its way stays so until the job is not listed.       *)
(***************************************************************************)
OnTheWay == timers + due > 0 \/ \E q \in Requests : request[q].pc \in {"drop", "delete"}
Covered == crashes = 0 /\ indexed => output \/ OnTheWay

\* The result is there, or will be forgotten, from its saving on; a download
\* under way has scheduled its deletion.
GhostInv ==
    /\ pipeline.pc \in {"saved", "complete"} => Covered
    /\ Is("COMPLETED") => Covered
    /\ pipeline.copy # NoRec /\ pipeline.copy.status = "COMPLETED" => Covered
    /\ crashes = 0 /\ indexed /\ (\E q \in Requests : request[q].pc = "sending")
          => timers + due > 0

LEMMA GhostInvImplies == GhostInv => NoGhostResult
  BY DEF GhostInv, Covered, OnTheWay, NoGhostResult

\* What the steps of the job do to the file and to the deletions.
LEMMA RunGhost ==
    ASSUME TypeInv, ForwardInv, GhostInv, Run
    PROVE  GhostInv'
<1>1. request' = request /\ indexed' = indexed /\ crashes' = crashes
  BY DEF Run, Dequeue, ReadRecord, WriteRecord, Check, FindFile, Open, Validate, Extract,
         InspectText, TranslateBatch, GapFill, Save, CleanUp, store, server
<1>2. ~CleanUp => timers' = timers /\ due' = due
  BY DEF Run, Dequeue, ReadRecord, WriteRecord, Check, FindFile, Open, Validate, Extract,
         InspectText, TranslateBatch, GapFill, Save, grace
<1>3. CASE CleanUp
  <2>1. timers' + due' > 0
    BY <1>3 DEF CleanUp, ScheduleDeletion, TypeInv, CountOK
  <2> QED
    BY <2>1 DEF GhostInv, Covered, OnTheWay
<1>4. CASE ~CleanUp
  <2>1. OnTheWay' = OnTheWay
    BY <1>1, <1>2, <1>4 DEF OnTheWay
  <2>2. (crashes' = 0 /\ indexed' /\ \E q \in Requests : request'[q].pc = "sending")
          => timers' + due' > 0
    BY <1>1, <1>2, <1>4 DEF GhostInv
  <2>3. CASE Save
    <3>1. /\ pipeline.pc = "save" /\ rec' = rec
          /\ pipeline'.pc \in {"fail", "saved"} /\ pipeline'.copy = NoRec
          /\ pipeline'.pc = "saved" => output'
      BY <2>3 DEF Save, GoTo, store
    <3>2. ~Is("COMPLETED")
      BY <3>1 DEF ForwardInv, Fits, Finished
    <3> QED
      BY <2>2, <3>1, <3>2 DEF GhostInv, Covered
  <2>4. CASE ~Save
    <3>1. output' = output
      BY <1>4, <2>4 DEF Run, Dequeue, ReadRecord, WriteRecord, Check, FindFile, Open, Validate,
                  Extract, InspectText, TranslateBatch, GapFill, files
    <3>2. Covered' = Covered
      BY <1>1, <2>1, <3>1 DEF Covered
    <3>3. CASE WriteRecord
      <4>1. /\ pipeline.pc \in Updates /\ pipeline.copy \in Record /\ pipeline.copy # NoRec
            /\ rec'.status = StatusAfter(pipeline.pc, pipeline.copy)
        BY <3>3 DEF WriteRecord, TypeInv, PipelineOK, Updated
      <4>2. PICK n \in After[pipeline.pc] : pipeline'.pc = n /\ pipeline'.copy = NoRec
        BY <3>3 DEF WriteRecord, GoTo
      <4>3. n \in {"saved", "complete"} => pipeline.pc = "saved"
        BY <4>1, <4>2 DEF After, NextBatch, Updates, Progress, Starts, Fails
      <4>4. rec'.status = "COMPLETED" =>
              pipeline.pc = "complete" \/ pipeline.copy.status = "COMPLETED"
        BY <4>1 DEF StatusAfter
      <4> QED
        BY <2>2, <3>2, <4>1, <4>2, <4>3, <4>4 DEF GhostInv
    <3>4. CASE ReadRecord /\ ~SkipsUpdate(pipeline.pc)
      <4>1. rec' = rec /\ pipeline'.copy = rec /\ pipeline'.pc = pipeline.pc
        BY <3>4 DEF ReadRecord, store, TypeInv, PipelineOK
      <4> QED
        BY <2>2, <3>2, <4>1 DEF GhostInv
    <3>5. CASE QuietRun
      <4>1. rec' = rec /\ pipeline'.copy = NoRec
        BY <3>5, QuietRunForward DEF QuietRun, Dequeue, ReadRecord, Check, FindFile, Open, Validate,
                    Extract, InspectText, TranslateBatch, GapFill, Save, CleanUp, store
      <4>2. pipeline'.pc \in {"saved", "complete"} => pipeline.pc = "saved"
        <5>1. CASE ReadRecord \/ Check
          <6>1. pipeline'.pc \in After[pipeline.pc] \cup {"done", "cleanup"} \cup {pipeline.pc}
                /\ pipeline.pc \in Updates \cup Checks
            BY <3>5, <5>1 DEF ReadRecord, Check, GoTo, TypeInv, PipelineOK
          <6>2. pipeline.pc # "complete" \/ pipeline'.pc \notin {"saved", "complete"}
            BY <3>5, <5>1, QuietRunForward DEF ReadRecord, Check, GoTo, QuietRun, After, Checks,
                     Dequeue, FindFile, Open, Validate, Extract, InspectText, TranslateBatch,
                     GapFill, Save, CleanUp
          <6> QED
            BY <6>1, <6>2 DEF After, NextBatch, Updates, Checks, Progress, Starts, Fails
        <5>2. CASE ~ReadRecord /\ ~Check
          BY <1>4, <2>4, <3>5, <5>2 DEF QuietRun, Dequeue, FindFile, Open, Validate, Extract,
                      InspectText, TranslateBatch, NextBatch, GapFill, GoTo
        <5> QED
          BY <5>1, <5>2
      <4> QED
        BY <2>2, <3>2, <4>1, <4>2 DEF GhostInv
    <3> QED
      BY <3>3, <3>4, <3>5 DEF Run, QuietRun
  <2> QED
    BY <2>3, <2>4
<1> QED
  BY <1>3, <1>4

\* A handler that takes the file away has scheduled the deletion, or is about
\* to drop the record itself.
LEMMA HandlerGhost ==
    ASSUME TypeInv, GhostInv, NEW q \in Requests, Ask(q) \/ Handle(q)
    PROVE  GhostInv'
<1>1. pipeline' = pipeline /\ crashes' = crashes /\ due' = due
  BY DEF Ask, Handle, Cancel, CancelRead, CancelWrite, CancelFinish, Download, AfterDownload,
         ScheduleDeletion, DownloadSent, Purge, PurgeDirs, DropRecord, grace, server
<1>2. timers' = timers \/ timers' + due' > 0
  BY DEF Ask, Handle, Cancel, CancelRead, CancelWrite, CancelFinish, Download, AfterDownload,
         ScheduleDeletion, DownloadSent, Purge, PurgeDirs, DropRecord, grace, TypeInv, CountOK
<1>3. CASE DropRecord(q)
  <2>1. rec' = NoRec /\ ~indexed'
    BY <1>3 DEF DropRecord, DeleteRecord
  <2> QED
    BY <1>1, <2>1 DEF GhostInv, Covered
<1>4. CASE ~DropRecord(q)
  <2>1. indexed' = indexed
    BY <1>4 DEF Ask, Handle, Cancel, CancelRead, CancelWrite, CancelFinish, Download,
           DownloadSent, Purge, PurgeDirs, store
  <2>2. \A p \in Requests : p # q => request'[p] = request[p]
    BY <1>4, HandlerEntry DEF Ask, Handle, Cancel, CancelRead, CancelWrite, CancelFinish, Download,
           DownloadSent, Purge, PurgeDirs, Finish
  <2>3. request[q].pc \in {"drop", "delete"} => request'[q].pc = "delete"
    BY <1>4, HandlerEntry DEF Ask, Handle, Arrives, Cancel, CancelRead, CancelWrite, CancelFinish,
           Download, DownloadSent, Purge, PurgeDirs
  <2>4. OnTheWay => OnTheWay'
    BY <1>1, <1>2, <2>2, <2>3 DEF OnTheWay
  <2>5. request'[q].pc = "sending" => timers' + due' > 0
    <3>1. CASE Download(q)
      <4>1. Is("COMPLETED") /\ output => timers' + due' > 0
        BY <3>1, <1>1 DEF Download, AfterDownload, ScheduleDeletion, Begin, TypeInv, CountOK
      <4>2. request'[q].pc = "sending" => Is("COMPLETED") /\ output
        BY <3>1 DEF Download, Begin, TypeInv, RequestOK
      <4> QED
        BY <4>1, <4>2
    <3>2. CASE Cancel(q) \/ Purge(q)
      BY <3>2 DEF Cancel, Purge, Begin, TypeInv, RequestOK
    <3>3. CASE Handle(q)
      <4>1. request'[q].pc # "sending"
        <5>1. CASE CancelFinish(q) \/ DownloadSent(q) \/ PurgeDirs(q) \/ DropRecord(q)
          BY <5>1, FinishEntry DEF CancelFinish, DownloadSent, PurgeDirs, DropRecord
        <5>2. CASE CancelRead(q) \/ CancelWrite(q)
          <6>1. Finish(q) \/ \E pc \in {"write", "finish", "done"} : \E copy : Continue(q, pc, copy)
            BY <5>2 DEF CancelRead, CancelWrite
          <6> QED
            BY <6>1, HandlerEntry, FinishEntry
        <5> QED
          BY <3>3, <5>1, <5>2 DEF Handle
      <4> QED
        BY <4>1
    <3> QED
      BY <3>1, <3>2, <3>3 DEF Ask
  <2>6. output' \/ ~output \/ OnTheWay' \/ ~indexed \/ crashes # 0
    <3>1. CASE CancelFinish(q)
      BY <3>1 DEF CancelFinish, ScheduleDeletion, OnTheWay, TypeInv, CountOK
    <3>2. CASE DownloadSent(q)
      <4>1. request[q].pc = "sending" /\ timers' = timers
        BY <3>2 DEF DownloadSent, grace
      <4> QED
        BY <1>1, <4>1 DEF GhostInv, OnTheWay
    <3>3. CASE PurgeDirs(q)
      <4>1. request'[q].pc = "delete"
        BY <3>3, HandlerEntry DEF PurgeDirs
      <4> QED
        BY <4>1 DEF OnTheWay
    <3>4. CASE ~CancelFinish(q) /\ ~DownloadSent(q) /\ ~PurgeDirs(q)
      BY <1>4, <3>4 DEF Ask, Handle, Cancel, CancelRead, CancelWrite, Download, Purge, files
    <3> QED
      BY <3>1, <3>2, <3>3, <3>4
  <2>7. Covered => Covered'
    BY <1>1, <2>1, <2>4, <2>6 DEF Covered
  <2>8. Is("COMPLETED")' => Is("COMPLETED")
    <3>1. CASE CancelWrite(q)
      <4>1. request[q].copy \in Record
        BY <3>1 DEF CancelWrite, TypeInv, RequestOK, UsesCopy
      <4>2. [request[q].copy EXCEPT !.status = "CANCELLED"].status = "CANCELLED"
        BY <4>1 DEF Record
      <4> QED
        BY <3>1, <4>2 DEF CancelWrite
    <3>2. CASE ~CancelWrite(q)
      BY <1>4, <3>2 DEF Ask, Handle, Cancel, CancelRead, CancelFinish, Download, DownloadSent,
                  Purge, PurgeDirs, store
    <3> QED
      BY <3>1, <3>2
  <2>9. (crashes' = 0 /\ indexed' /\ \E p \in Requests : request'[p].pc = "sending")
          => timers' + due' > 0
    BY <1>1, <1>2, <2>1, <2>2, <2>5 DEF GhostInv
  <2> QED
    BY <1>1, <2>7, <2>8, <2>9 DEF GhostInv
<1> QED
  BY <1>3, <1>4

\* Nobody asks for a job that has not been submitted.
NoneYet == At("new") => \A q \in Requests : request[q].pc = "idle"

LEMMA NextNoneYet == TypeInv /\ NoneYet /\ [Next]_vars => NoneYet'
<1> SUFFICES ASSUME TypeInv, NoneYet, [Next]_vars PROVE NoneYet'
  OBVIOUS
<1>1. CASE UNCHANGED vars
  BY <1>1 DEF vars, NoneYet
<1>2. CASE Submit
  BY <1>2 DEF Submit, Create, RecordTempDir, Enqueue, GoTo, NoneYet
<1>3. CASE Run
  BY <1>3, RunStages DEF NoneYet, Unrecorded
<1>4. CASE \E q \in Requests : Ask(q) \/ Handle(q)
  BY <1>4 DEF Ask, Handle, Arrives, Cancel, CancelRead, CancelWrite, CancelFinish, Download,
              DownloadSent, Purge, PurgeDirs, DropRecord, NoneYet
<1>5. CASE GraceOver \/ DeleteAfterGrace
  BY <1>5 DEF GraceOver, DeleteAfterGrace, NoneYet
<1>6. CASE Crash
  BY <1>6 DEF Crash, GoTo, NoneYet
<1> QED
  BY <1>1, <1>2, <1>3, <1>4, <1>5, <1>6 DEF Next

LEMMA NextGhostInv ==
    TypeInv /\ ForwardInv /\ NoneYet /\ GhostInv /\ [Next]_vars => GhostInv'
<1> SUFFICES ASSUME TypeInv, ForwardInv, NoneYet, GhostInv, [Next]_vars PROVE GhostInv'
  OBVIOUS
<1>1. CASE UNCHANGED vars
  BY <1>1 DEF vars, store, files, grace, server, GhostInv, Covered, OnTheWay
<1>2. CASE Submit
  <2>1. /\ request' = request /\ timers' = timers /\ due' = due /\ crashes' = crashes
        /\ pipeline.pc \in {"new", "created", "recorded"}
        /\ pipeline'.pc \in {"created", "recorded", "queued"} /\ pipeline'.copy = NoRec
    BY <1>2 DEF Submit, Create, RecordTempDir, Enqueue, GoTo, grace, server
  <2>2. ~Is("COMPLETED")'
    BY <2>1, <1>2 DEF ForwardInv, Submission, Submit, Create, RecordTempDir, Enqueue, store
  <2>3. indexed' = indexed \/ At("new")
    BY <1>2 DEF Submit, Create, RecordTempDir, Enqueue, store
  <2>4. CASE ~At("new")
    BY <2>1, <2>2, <2>3, <2>4 DEF GhostInv
  <2>5. CASE At("new")
    <3>1. \A q \in Requests : request[q].pc # "sending"
      BY <2>5 DEF NoneYet
    <3> QED
      BY <2>1, <2>2, <3>1 DEF GhostInv
  <2> QED
    BY <2>4, <2>5
<1>3. CASE GraceOver
  <2>1. timers' + due' = timers + due /\ UNCHANGED <<rec, indexed, output, pipeline, request, crashes>>
    BY <1>3 DEF GraceOver, store, files, server, TypeInv, CountOK
  <2> QED
    BY <2>1 DEF GhostInv, Covered, OnTheWay
<1>4. CASE DeleteAfterGrace
  <2>1. rec' = NoRec /\ ~indexed'
    BY <1>4 DEF DeleteAfterGrace, DeleteRecord
  <2> QED
    BY <2>1 DEF GhostInv, Covered
<1>5. CASE Crash
  <2>1. crashes' # 0
    BY <1>5 DEF Crash, TypeInv, CountOK
  <2> QED
    BY <2>1 DEF GhostInv, Covered
<1> QED
  BY <1>1, <1>2, <1>3, <1>4, <1>5, RunGhost, HandlerGhost DEF Next

\* As long as no crash loses the deleter, a listed completed job whose file is
\* gone is about to be forgotten (app.py:1650-1689, 181-186).
THEOREM NoGhostResults == Spec => []NoGhostResult
<1>1. Init => ForwardInv /\ NoneYet /\ GhostInv
  BY DEF Init, ForwardInv, NoneYet, GhostInv
<1> QED
  BY <1>1, NextForwardInv, NextNoneYet, NextGhostInv, GhostInvImplies, TypeInvariant, PTL DEF Spec

=============================================================================
