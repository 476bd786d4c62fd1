--------------------------- MODULE TranslatorFiles ---------------------------
(***************************************************************************)
(* The files of one translation: the working directories that the          *)
(* translators make (docx_translator.py, xlsx_translator.py,               *)
(* pdf_translator.py, dxf_translator.py with the Okapi, LibreOffice and    *)
(* ezdxf services under them), how the job learns of them, how the output  *)
(* is written, and who removes what when the run ends, fails or dies.      *)
(*                                                                         *)
(* A run makes a translator of its own.  What a conversion returns is the  *)
(* subject of DocumentConversion, the jobs' records that of JobLifecycle,  *)
(* the ages of directories that of ArtifactSweep.                          *)
(***************************************************************************)
EXTENDS FiniteSets

CONSTANT Kinds     \* the suffixes of the documents that are uploaded

ASSUME KindsAssumption == Kinds \subseteq {"docx", "doc", "pdf", "xlsx", "xls", "dxf", "dwg"}

VARIABLES tfKind,     \* suffix of the document
          tfKeep,     \* whether artifacts are kept: "no", for this "job", "global"
          tfLocal,    \* whether the ODA converter runs as a subprocess
          tfAt,       \* where the run is
          tfDirs,     \* directories that exist
          tfNamed,    \* those that the job's record names
          tfMarked,   \* those that are marked as retained
          tfRecord,   \* whether the record exists
          tfOutput,   \* what stands under the name of the output
          tfMishaps   \* what went wrong

tfJob == <<tfKind, tfKeep, tfLocal>>
tfRest == <<tfNamed, tfMarked, tfRecord>>
tfVars == <<tfKind, tfKeep, tfLocal, tfAt, tfDirs, tfNamed, tfMarked, tfRecord, tfOutput, tfMishaps>>

\* translator_* has the upload, docx_okapi_* the XLIFF, tikal_merge_* a merge,
\* lo_profile_* the profile of a LibreOffice.
WorkDirs == {"upload", "okapi", "merge", "xlsx", "pdf", "oda", "profile"}
SweptDirs == {"upload", "okapi", "merge", "pdf", "oda"}

IsDocx == tfKind \in {"docx", "doc", "pdf"}
IsXlsx == tfKind \in {"xlsx", "xls"}
IsCad == tfKind \in {"dxf", "dwg"}
NeedsOffice == tfKind \in {"doc", "xls"}

\* _find_translator; then the directory that extract makes first.
FirstDir == CASE tfKind \in {"docx", "doc"} -> {"okapi"}
              [] IsXlsx -> {"xlsx"}
              [] tfKind = "pdf" -> {"pdf"}
              [] tfKind = "dwg" -> {"oda"}
              [] tfKind = "dxf" -> {}

FilesInit ==
    /\ tfKind \in Kinds /\ tfKeep \in {"no", "job", "global"} /\ tfLocal \in BOOLEAN
    /\ (tfKind # "dwg" => tfLocal)
    /\ tfAt = "submitted"
    /\ tfDirs = {"upload"} /\ tfNamed = {"upload"} /\ tfMarked = {} /\ tfRecord = TRUE
    /\ tfOutput = "none" /\ tfMishaps = {}

\* The run goes on to a stage, with these directories.
Reach(stage, directories) ==
    tfAt' = stage /\ tfDirs' = directories /\ UNCHANGED <<tfJob, tfRest>>
Goes(stage, directories) == Reach(stage, directories) /\ UNCHANGED <<tfOutput, tfMishaps>>
ExtractFails(removed) ==
    /\ Reach("failed", tfDirs \ removed)
    /\ tfMishaps' = tfMishaps \cup {"extract"} /\ UNCHANGED tfOutput

(* ---- extract ---- *)

BeginExtract ==
    /\ tfAt = "submitted"
    /\ Goes(IF NeedsOffice THEN "office" ELSE IF tfKind \in {"pdf", "dwg"} THEN "convert"
            ELSE "read", tfDirs \cup FirstDir)

\* LibreOffice runs with a profile of its own, which is removed whatever happens.
OfficeStarts ==
    /\ tfAt = "office" /\ "profile" \notin tfDirs
    /\ Goes("office", tfDirs \cup {"profile"})
\* A DOC translator removes its directory on any exception, an XLS one never.
OfficeEnds ==
    /\ tfAt = "office" /\ "profile" \in tfDirs
    /\ \/ Goes("read", tfDirs \ {"profile"})
       \/ ExtractFails({"profile"} \cup (IF IsDocx THEN {"okapi"} ELSE {}))

\* A PDF is converted before its DOCX half is extracted.  Its directory goes when
\* the converter refuses, and stays on any other exception.
PdfConverted ==
    /\ tfAt = "convert" /\ tfKind = "pdf"
    /\ \/ Goes("read", tfDirs \cup {"okapi"})
       \/ ExtractFails({"pdf"}) \/ ExtractFails({})

\* A DWG becomes a DXF in a directory that stays for the save.  One that cannot
\* be converted takes the directory along, unless a local converter left
\* something in it.
DwgConverted ==
    /\ tfAt = "convert" /\ tfKind = "dwg"
    /\ \/ Goes("read", tfDirs)
       \/ ExtractFails({"oda"})
       \/ tfLocal /\ ExtractFails({})

\* A DOCX: Tikal writes the XLIFF into the directory, load_xliff reads its units.
\* Any exception takes the directory along.
DocxFails == ExtractFails({"okapi"})
TikalExtracts == tfAt = "read" /\ IsDocx /\ (Goes("xliff", tfDirs) \/ DocxFails)
LoadXliff == tfAt = "xliff" /\ (Goes("extracted", tfDirs) \/ DocxFails)

\* The archive of an XLSX and its classifier; the directory stays on a failure.
ReadXlsx == tfAt = "read" /\ IsXlsx /\ (Goes("extracted", tfDirs) \/ ExtractFails({}))

\* The texts of a DXF; that of a DWG stays on a failure.
ReadDrawing == tfAt = "read" /\ IsCad /\ (Goes("extracted", tfDirs) \/ ExtractFails({}))

\* _register_temp_dirs: temp_dir, pdf_convert_dir, and the directory of a DXF
\* when it is one of the pipeline's.  A failure is swallowed.
\* Mutant: the translator's temp_dir is forgotten.
RegisterConversionsOnly ==
    /\ tfAt = "extracted" /\ tfAt' = "registered"
    /\ \/ /\ tfRecord /\ tfNamed' = tfNamed \cup (tfDirs \cap {"pdf", "oda"})
          /\ UNCHANGED tfMishaps
       \/ tfMishaps' = tfMishaps \cup {"unregistered"} /\ UNCHANGED tfNamed
    /\ UNCHANGED <<tfJob, tfDirs, tfMarked, tfRecord, tfOutput>>
Register ==
    /\ tfAt = "extracted" /\ tfAt' = "registered"
    /\ \/ tfRecord /\ tfNamed' = tfNamed \cup tfDirs /\ UNCHANGED tfMishaps
       \/ tfMishaps' = tfMishaps \cup {"unregistered"} /\ UNCHANGED tfNamed
    /\ UNCHANGED <<tfJob, tfDirs, tfMarked, tfRecord, tfOutput>>

\* A document without text is done as it is.
NoText == tfAt = "registered" /\ Goes("empty", tfDirs)
\* The batches bring translations, or the job fails or is cancelled.
BatchesEnd == tfAt = "registered" /\ (Goes("applying", tfDirs) \/ Goes("failed", tfDirs))
\* translate writes them into the XLIFF, the archive or the drawing.
Apply == tfAt = "applying" /\ (Goes("translated", tfDirs) \/ Goes("failed", tfDirs))

(* ---- save ---- *)

\* A merge has a directory of its own, which is removed whatever happens.
MergeDir == {"merge"}
SaveDocx == tfAt = "translated" /\ IsDocx /\ Goes("merging", tfDirs \cup MergeDir)

\* finally: a translator removes its directory, kept artifacts or not; that of a
\* PDF after the one of its DOCX half.
SaveCleans == tfDirs \ (MergeDir \cup {"okapi", "xlsx"} \cup (IF tfKind = "pdf" THEN {"pdf"} ELSE {}))

\* Tikal merges the XLIFF with the original, and its product is copied.
MergeXliff ==
    /\ tfAt = "merging"
    /\ \/ Goes("failed", SaveCleans)
       \/ /\ Reach("copying", tfDirs) /\ tfOutput' = "torn"
          /\ UNCHANGED tfMishaps
\* The copied output is post-processed in a file next to it that replaces it,
\* or not at all: it is whole either way.
CopyEnds ==
    /\ tfAt = "copying"
    /\ \/ /\ Reach("postprocess", tfDirs \ MergeDir) /\ tfOutput' = "translated"
          /\ UNCHANGED tfMishaps
       \/ Goes("failed", SaveCleans)
PostProcessDocx == tfAt = "postprocess" /\ Goes("saved", SaveCleans)

\* The XLSX is copied; a copy that fails leaves the directory.
XlsxCopy ==
    /\ tfAt = "translated" /\ IsXlsx
    /\ \/ Reach("rewriting", tfDirs) /\ tfOutput' = "copy"
       \/ Reach("failed", tfDirs) /\ tfOutput' \in {"none", "torn"}
    /\ UNCHANGED tfMishaps
\* Then it is rewritten in a file next to it that replaces it.
\* Mutant: a failed rewrite is only logged.
XlsxRewriteLogged ==
    /\ tfAt = "rewriting"
    /\ Reach("saved", SaveCleans) /\ tfOutput' \in {"translated", "copy"}
    /\ UNCHANGED tfMishaps
XlsxRewrite ==
    /\ tfAt = "rewriting"
    /\ \/ /\ Reach("saved", SaveCleans) /\ tfOutput' = "translated"
          /\ UNCHANGED tfMishaps
       \/ Goes("failed", SaveCleans)

\* A text that cannot be set is passed over without a word: set_text swallows
\* the exception, as it does of every override of a DIMENSION.
SetTexts == tfMishaps' \in {tfMishaps, tfMishaps \cup {"unset"}}

\* The DXF is opened again, and its texts are set by their handles.
BuildDxf ==
    /\ tfAt = "translated" /\ IsCad
    /\ \/ /\ Reach("writing", tfDirs) /\ SetTexts
          /\ tfOutput' = (IF tfKind = "dxf" THEN "torn" ELSE "none")
       \/ Reach("failed", tfDirs) /\ UNCHANGED <<tfOutput, tfMishaps>>

\* A DWG is written as a DXF that is converted.  If that fails the DXF is the
\* output; a local converter's product is taken even if it broke off.
WriteDrawing ==
    /\ tfAt = "writing"
    /\ \/ Reach("failed", tfDirs) /\ UNCHANGED tfOutput
       \/ /\ Reach("saved", tfDirs)
          /\ tfOutput' = (IF "unset" \in tfMishaps THEN "partly" ELSE "translated")
       \/ tfKind = "dwg" /\ tfLocal /\ Reach("saved", tfDirs) /\ tfOutput' = "torn"
    /\ UNCHANGED tfMishaps

\* extract_paragraphs of the uploaded document: only a DOCX has any.  Another
\* archive has none, and what is no archive cannot be read.
GateReads == IF tfKind = "docx" THEN "paragraphs" ELSE IF tfKind = "xlsx" THEN "none" ELSE "error"
\* run_integrity_check misses paragraphs and legal references only of an original
\* that has some.
MayFindLoss == GateReads = "paragraphs"
\* A critical finding fails the job; a gate that cannot run lets it pass.
IntegrityGate == tfAt = "saved" /\ (Goes("completed", tfDirs) \/ (MayFindLoss /\ Goes("failed", tfDirs)))

(* ---- the end ---- *)

\* _cleanup_job_temp_dirs for the directories a record names; without a record
\* only the upload's directory is known, and only the global flag.
RemoveOrMark ==
    LET known == IF tfRecord THEN tfNamed ELSE {"upload"}
        retain == tfKeep = "global" \/ (tfKeep = "job" /\ tfRecord)
    IN  IF retain THEN tfMarked' = tfMarked \cup (known \cap tfDirs) /\ UNCHANGED tfDirs
        ELSE tfDirs' = tfDirs \ known /\ tfMarked' = tfMarked \ known

\* A failed or cancelled run cleans up; its record goes after the grace period.
FailedRunCleans ==
    /\ tfAt = "failed" /\ tfAt' = "over"
    /\ RemoveOrMark /\ tfRecord' = FALSE
    /\ UNCHANGED <<tfJob, tfNamed, tfOutput, tfMishaps>>
\* The job is fetched, or dropped by its user or an administrator.
Discard ==
    /\ tfAt \in {"completed", "empty", "died"} /\ tfRecord
    /\ tfAt' = "over" /\ RemoveOrMark /\ tfRecord' = FALSE
    /\ UNCHANGED <<tfJob, tfNamed, tfOutput, tfMishaps>>

Running == tfAt \notin {"over", "completed", "empty", "died"}
\* The process dies; the record stays.
ProcessDies ==
    /\ Running /\ tfAt' = "died"
    /\ tfMishaps' = tfMishaps \cup {"crash"}
    /\ UNCHANGED <<tfJob, tfDirs, tfRest, tfOutput>>
\* Redis drops the record, and with it the names.
RecordLost ==
    /\ tfRecord /\ tfRecord' = FALSE
    /\ tfMishaps' = tfMishaps \cup {"expired"}
    /\ UNCHANGED <<tfJob, tfAt, tfDirs, tfNamed, tfMarked, tfOutput>>

\* The cleanup finds directories by the first part of their names, and leaves
\* those a record names; the purge ends the retention of the marked ones.
SweepDirs ==
    /\ ~Running
    /\ LET found == {d \in tfDirs \cap SweptDirs : d \in tfMarked \/ ~tfRecord \/ d \notin tfNamed}
       IN  /\ found # {}
           /\ tfDirs' = tfDirs \ found /\ tfMarked' = tfMarked \ found
    /\ UNCHANGED <<tfJob, tfAt, tfNamed, tfRecord, tfOutput, tfMishaps>>

Extracting == \/ BeginExtract \/ OfficeStarts \/ OfficeEnds \/ PdfConverted \/ DwgConverted
              \/ TikalExtracts \/ LoadXliff \/ ReadXlsx \/ ReadDrawing
Saving == \/ SaveDocx \/ MergeXliff \/ CopyEnds \/ PostProcessDocx
          \/ XlsxCopy \/ XlsxRewrite \/ BuildDxf \/ WriteDrawing \/ IntegrityGate
FilesNext == \/ Extracting \/ Register \/ NoText \/ BatchesEnd \/ Apply \/ Saving
             \/ FailedRunCleans \/ Discard \/ ProcessDies \/ RecordLost \/ SweepDirs

FilesSpec == FilesInit /\ [][FilesNext]_tfVars

(* ---- properties ---- *)

\* The types of the files, the record and the run.
FilesTypeOK ==
    /\ tfKind \in Kinds /\ tfKeep \in {"no", "job", "global"} /\ tfLocal \in BOOLEAN
    /\ tfAt \in {"submitted", "office", "convert", "read", "xliff", "extracted", "registered",
                 "applying", "translated", "merging", "copying", "postprocess", "rewriting", "writing", "saved",
                 "completed", "empty", "failed", "died", "over"}
    /\ tfDirs \subseteq WorkDirs /\ tfNamed \subseteq WorkDirs /\ tfMarked \subseteq tfDirs
    /\ tfRecord \in BOOLEAN /\ tfOutput \in {"none", "torn", "copy", "partly", "translated"}
    /\ tfMishaps \subseteq {"extract", "unregistered", "unset", "crash", "expired"}

\* A job that completes has the translated document as its output, with these
\* exceptions: a drawing, in which the texts that could not be set, and those
\* alone, are still the original ones, and the product of a local ODA converter,
\* which is taken when it was killed half way.
OutputIsWhole ==
    tfAt = "completed" =>
        \/ tfOutput = "translated" /\ "unset" \notin tfMishaps
        \/ tfOutput = "partly" /\ "unset" \in tfMishaps /\ IsCad
        \/ tfOutput = "torn" /\ tfKind = "dwg" /\ tfLocal

\* Why a directory may be left when the run is over and the record gone: it is
\* kept, nobody could know of it, or its translator forgot it on a failure.
LeftFor(d) ==
    \/ d \in tfMarked
    \/ tfMishaps \cap {"crash", "expired", "unregistered"} # {}
    \/ "extract" \in tfMishaps /\ d \in {"xlsx", "pdf", "oda"}

\* A run leaves a directory behind for one of these reasons only, and what it
\* leaves is found by the cleanup, unless it is the one of an XLSX or, after a
\* crash, the profile of a LibreOffice.
DirsReclaimed ==
    ~Running /\ ~tfRecord => \A d \in tfDirs :
        /\ LeftFor(d)
        /\ d \in SweptDirs \/ (IsXlsx /\ d = "xlsx") \/ (d = "profile" /\ "crash" \in tfMishaps)
=============================================================================
