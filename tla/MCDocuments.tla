----------------------------- MODULE MCDocuments -----------------------------
(***************************************************************************)
(* What happens to a document on its way through the system, checked in    *)
(* one run: the conversions around the translation, the batches of units,  *)
(* how a translated text gets back into its document, the files of the     *)
(* translators, and the cleanup.  They share no state, so a behaviour is   *)
(* one of one part, chosen at the start, while the others stay in an       *)
(* initial state of theirs.                                                *)
(***************************************************************************)
EXTENDS DocumentConversion, TranslationBatch, DocumentText, TranslatorFiles,
        ArtifactSweep, TLC

CONSTANTS c1, c2, j1, j2

VARIABLE part

partVars == <<part, tbVars, dcVars, dtVars, tfVars, swVars>>

MCStem == c1 :> 1 @@ c2 :> 2
MCMegabytes == c1 :> 1 @@ c2 :> 10
MCLabels == {"a1", "a2", "b", "c"}
MCPrefix == "a1" :> "a" @@ "a2" :> "a" @@ "b" :> "b" @@ "c" :> "c"

\* The document whose files stay is a drawing.
ASSUME StaysAssumption == "dxf" \in Kinds

(* ---- the initial state in which a part stays ---- *)

BatchStays ==
    /\ tbStack = <<>> /\ tbRet = NoReturn /\ tbQueue = CreateBatches(Units, BatchSize)
    /\ tbRound = 0 /\ tbStill = {} /\ tbAll = Nothing /\ tbOutcome = "waiting"
    /\ tbRussian = FALSE /\ tbTries = [u \in Units |-> 0]
    /\ tbStray = {} /\ tbSplit = FALSE /\ tbUnrecorded = {}
TextStays ==
    /\ dtKind = "segment" /\ dtDocument = <<Space(TRUE)>> /\ dtReply = 0 /\ dtResult = Untouched
FilesStay ==
    /\ tfKind = "dxf" /\ tfKeep = "no" /\ tfLocal = TRUE /\ tfAt = "submitted"
    /\ tfDirs = {"upload"} /\ tfNamed = {"upload"} /\ tfMarked = {} /\ tfRecord = TRUE
    /\ tfOutput = "none" /\ tfMishaps = {}

DocumentsInit ==
    /\ part \in {"conversion", "batch", "text", "files", "sweep"}
    /\ ConversionInit /\ (part # "conversion" => dcRemote)
    /\ IF part = "batch" THEN BatchInit ELSE BatchStays
    /\ IF part = "text" THEN DocumentInit ELSE TextStays
    /\ IF part = "files" THEN FilesInit ELSE FilesStay
    /\ SweepInit

(* ---- one part runs ---- *)

Runs(p) == part = p /\ UNCHANGED part

DocumentsNext ==
    \/ Runs("conversion") /\ ConversionNext /\ UNCHANGED <<tbVars, dtVars, tfVars, swVars>>
    \/ Runs("batch") /\ BatchNext /\ UNCHANGED <<dcVars, dtVars, tfVars, swVars>>
    \/ Runs("text") /\ TranslateDocument /\ UNCHANGED <<dcVars, tbVars, tfVars, swVars>>
    \/ Runs("files") /\ FilesNext /\ UNCHANGED <<dcVars, tbVars, dtVars, swVars>>
    \/ Runs("sweep") /\ SweepNext /\ UNCHANGED <<dcVars, tbVars, dtVars, tfVars>>

\* The fairness of a part's own specification, for the part that runs.
DocumentsFairness ==
    /\ WF_tbVars(part = "batch" /\ BatchNext)
    /\ \A c \in Conversions : WF_dcVars(part = "conversion" /\ ClientStep(c))
    /\ WF_dcVars(part = "conversion" /\ OdaStep)
    /\ \A c \in Conversions : WF_dcVars(part = "conversion" /\ GivesUpFirst(c))
    /\ WF_dcVars(part = "conversion" /\ PdfStep)
    /\ WF_dcVars(part = "conversion" /\ PdfLate)

DocumentsSpec == DocumentsInit /\ [][DocumentsNext]_partVars /\ DocumentsFairness

\* The type invariants of the parts (each module names the code it models).
DocumentsTypeOK == ConversionTypeOK /\ BatchTypeOK /\ DocumentTypeOK
                     /\ FilesTypeOK /\ SweepTypeOK
=============================================================================
