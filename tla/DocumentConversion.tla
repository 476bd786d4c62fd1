------------------------- MODULE DocumentConversion -------------------------
(***************************************************************************)
(* The conversions a job needs around the translation: DWG to DXF and back *)
(* through the ODA converter (oda_converter_service.py and the server      *)
(* oda-converter/), PDF to DOCX through the First PDF service              *)
(* (pdf_to_docx_converter.py, first_pdf_converter/), DOC to DOCX through   *)
(* LibreOffice (doc_to_docx_converter.py).  A conversion runs in a worker  *)
(* thread of the API, several at a time.                                   *)
(*                                                                         *)
(* The ODA converter gets its documents in files of a shared volume, named *)
(* after the process and the document, and serves one request at a time.   *)
(* The First PDF server gets them in the request and holds a lock while it *)
(* drives the program.  Both work on after a client gave up waiting.  First *)
(* PDF's document is taken as soon as it is not empty, and its process is  *)
(* killed then.                                                            *)
(***************************************************************************)
EXTENDS Integers, FiniteSets, SequencesExt

CONSTANTS Conversions,  \* calls of a converter
          Stem,         \* [Conversions -> names], the document's name without extension
          Routes,       \* routes a call may take, of those below
          Megabytes,    \* [Conversions -> size of the document]
          Deadline,     \* FIRST_PDF_CONVERTER_TIMEOUT in seconds, 0 if it is not set
          NoDoc         \* no document

ASSUME ConversionAssumption ==
    /\ Stem \in [Conversions -> {Stem[c] : c \in Conversions}]
    /\ Routes \subseteq {"dwg2dxf", "dxf2dwg", "pdf", "office"}
    /\ Megabytes \in [Conversions -> Nat] /\ Deadline \in Nat

VARIABLES dcRemote,   \* whether ODA_CONVERTER_URL is set
          dcClient,   \* [call -> its route, stage, and the document it got]
          dcShared,   \* [names of the shared volume -> document]
          dcQueue,    \* ODA requests waiting to be accepted
          dcOda,      \* what the ODA server is doing
          dcOrphans,  \* ODA converters that outlived their timeout
          dcUploads,  \* PDF requests waiting for the lock
          dcPdf,      \* what the First PDF server is doing
          dcTemp,     \* calls whose temporary directory exists
          dcBroken    \* calls that gave up, or whose converter broke

dcFiles == <<dcShared, dcTemp>>
dcServers == <<dcQueue, dcOda, dcUploads, dcPdf>>
dcVars == <<dcRemote, dcClient, dcShared, dcQueue, dcOda, dcOrphans, dcUploads, dcPdf, dcTemp, dcBroken>>

CadRoutes == {"dwg2dxf", "dxf2dwg"}
Stages == {"idle", "ready", "waiting", "answered", "cleaning", "ended"}
OtherExt(ext) == IF ext = "dwg" THEN "dxf" ELSE "dwg"

\* A document is known by the call it was made from, and by being complete.
Doc(c, whole) == [of |-> c, whole |-> whole]
SharedNames == {"input", "output"} \X {Stem[c] : c \in Conversions} \X {"dwg", "dxf"}

\* input_<pid>_<stem><suffix> and output_<pid>_<stem><suffix>; the converter
\* itself names its product after the input.
ExtOf(c) == IF dcClient[c].route = "dwg2dxf" THEN "dwg" ELSE "dxf"
InputName(c) == <<"input", Stem[c], ExtOf(c)>>
OutputName(c) == <<"output", Stem[c], OtherExt(ExtOf(c))>>
ProducedName(c) == <<"input", Stem[c], OtherExt(ExtOf(c))>>

Idling == [for |-> NoDoc, stage |-> "idle", holds |-> NoDoc]

\* For whom First PDF works, its document and process, whether the watchdog's
\* time is over, and what convert_pdf does next.
PdfIdle == [for |-> NoDoc, docx |-> "none", alive |-> FALSE, late |-> FALSE, next |-> "drive"]

(* ---- the client ---- *)

ConversionInit ==
    /\ dcRemote \in BOOLEAN
    /\ dcClient = [c \in Conversions |-> [route |-> "none", stage |-> "idle", got |-> NoDoc]]
    /\ dcShared = [n \in SharedNames |-> NoDoc]
    /\ dcQueue = <<>> /\ dcOda = Idling /\ dcOrphans = {}
    /\ dcUploads = <<>> /\ dcPdf = PdfIdle
    /\ dcTemp = {} /\ dcBroken = {}

\* The call makes its temporary directory, and for the ODA server copies its
\* document to the shared volume.
BeginConversion(c, route) ==
    /\ dcClient[c].stage = "idle"
    /\ dcClient' = [dcClient EXCEPT ![c].route = route, ![c].stage = "ready"]
    /\ dcTemp' = IF route = "dxf2dwg" /\ dcRemote THEN dcTemp ELSE dcTemp \cup {c}
    /\ dcShared' = IF route \in CadRoutes /\ dcRemote
                   THEN [dcShared EXCEPT ![<<"input", Stem[c], IF route = "dwg2dxf" THEN "dwg"
                                                              ELSE "dxf">>] = Doc(c, TRUE)]
                   ELSE dcShared
    /\ UNCHANGED <<dcRemote, dcOrphans, dcServers, dcBroken>>

Remote(c) == dcClient[c].route = "pdf" \/ (dcClient[c].route \in CadRoutes /\ dcRemote)

\* The request is on its way; the server has it, as soon as it takes it.
SendRequest(c) ==
    /\ dcClient[c].stage = "ready" /\ Remote(c)
    /\ dcClient' = [dcClient EXCEPT ![c].stage = "waiting"]
    /\ IF dcClient[c].route = "pdf"
       THEN dcUploads' = Append(dcUploads, c) /\ UNCHANGED dcQueue
       ELSE dcQueue' = Append(dcQueue, c) /\ UNCHANGED dcUploads
    /\ UNCHANGED <<dcRemote, dcOrphans, dcFiles, dcOda, dcPdf, dcBroken>>

\* The connection fails or the client's deadline passes.  It runs from the
\* moment the request is sent, the server's from the moment it starts to work.
GiveUp(c) ==
    /\ dcClient[c].stage \in {"ready", "waiting"} /\ Remote(c)
    /\ dcClient' = [dcClient EXCEPT ![c].stage = "cleaning"]
    /\ dcBroken' = dcBroken \cup {c}
    /\ UNCHANGED <<dcRemote, dcOrphans, dcFiles, dcServers>>

\* A successful answer: the client copies the output file from the shared volume.
Receive(c) ==
    /\ dcClient[c].stage = "answered"
    /\ dcClient' = [dcClient EXCEPT ![c].stage = "cleaning", ![c].got = dcShared[OutputName(c)]]
    /\ UNCHANGED <<dcRemote, dcOrphans, dcFiles, dcServers, dcBroken>>

\* Mutant: only the output is unlinked.
CleanOutputOnly(c) ==
    /\ dcClient[c].stage = "cleaning"
    /\ dcClient' = [dcClient EXCEPT ![c].stage = "ended"]
    /\ dcShared' = IF dcClient[c].route = "pdf" THEN dcShared
                   ELSE [dcShared EXCEPT ![OutputName(c)] = NoDoc]
    /\ dcTemp' = IF dcClient[c].got = NoDoc THEN dcTemp \ {c} ELSE dcTemp
    /\ UNCHANGED <<dcRemote, dcOrphans, dcServers, dcBroken>>

\* finally: the two files on the volume are unlinked.  A DWG or a PDF that could
\* not be converted takes its temporary directory with it.
Clean(c) ==
    /\ dcClient[c].stage = "cleaning"
    /\ dcClient' = [dcClient EXCEPT ![c].stage = "ended"]
    /\ dcShared' = IF dcClient[c].route = "pdf" THEN dcShared
                   ELSE [dcShared EXCEPT ![InputName(c)] = NoDoc, ![OutputName(c)] = NoDoc]
    /\ dcTemp' = IF dcClient[c].got = NoDoc THEN dcTemp \ {c} ELSE dcTemp
    /\ UNCHANGED <<dcRemote, dcOrphans, dcServers, dcBroken>>

\* The converter as a subprocess with directories of its own.  Its product is
\* taken even when it failed or was killed half way; dxf_to_dwg removes its
\* directories, dwg_to_dxf removes its own only when it is empty.
LocalConvert(c) ==
    /\ dcClient[c].stage = "ready" /\ dcClient[c].route \in CadRoutes /\ ~Remote(c)
    /\ \E got \in {Doc(c, TRUE), Doc(c, FALSE), NoDoc}, littered \in BOOLEAN :
          /\ dcClient' = [dcClient EXCEPT ![c].stage = "ended", ![c].got = got]
          /\ dcTemp' = IF dcClient[c].route = "dxf2dwg" \/ (got = NoDoc /\ ~littered)
                       THEN dcTemp \ {c} ELSE dcTemp
    /\ UNCHANGED <<dcRemote, dcOrphans, dcShared, dcServers, dcBroken>>

\* soffice with a profile and an output directory of its own; an output under
\* another name is taken, the translator removes the directory on an error.
OfficeConvert(c) ==
    /\ dcClient[c].stage = "ready" /\ dcClient[c].route = "office"
    /\ \E got \in {Doc(c, TRUE), NoDoc} :
          /\ dcClient' = [dcClient EXCEPT ![c].stage = "ended", ![c].got = got]
          /\ dcTemp' = IF got = NoDoc THEN dcTemp \ {c} ELSE dcTemp
    /\ UNCHANGED <<dcRemote, dcOrphans, dcShared, dcServers, dcBroken>>

(* ---- the ODA server ---- *)

\* Mutant: a request that failed gets no answer.
AnsweredWhenDone(c, ok) ==
    dcClient' = [dcClient EXCEPT ![c].stage =
        IF @ = "waiting" /\ ok THEN "answered" ELSE @]

\* An answer reaches the client only while it waits.
Answered(c, ok) ==
    dcClient' = [dcClient EXCEPT ![c].stage =
        IF @ # "waiting" THEN @ ELSE IF ok THEN "answered" ELSE "cleaning"]

\* The next request is read; without its input file it is answered 404, else
\* the converter starts and reads the file.
OdaAccept ==
    /\ dcOda.stage = "idle" /\ dcQueue # <<>>
    /\ LET c == Head(dcQueue)
       IN  IF dcShared[InputName(c)] = NoDoc
           THEN Answered(c, FALSE) /\ UNCHANGED dcOda
           ELSE /\ dcOda' = [for |-> c, stage |-> "running", holds |-> dcShared[InputName(c)]]
                /\ UNCHANGED dcClient
    /\ dcQueue' = Tail(dcQueue)
    /\ UNCHANGED <<dcRemote, dcOrphans, dcFiles, dcUploads, dcPdf, dcBroken>>

\* The converter exits with 0, having written its product or (with a drawing it
\* cannot read) nothing.
OdaExits ==
    /\ dcOda.stage = "running"
    /\ dcOda' = [dcOda EXCEPT !.stage = "exited"]
    /\ \/ /\ dcShared' = [dcShared EXCEPT ![ProducedName(dcOda.for)] = dcOda.holds]
          /\ UNCHANGED dcBroken
       \/ /\ dcBroken' = dcBroken \cup {dcOda.for}
          /\ UNCHANGED dcShared
    /\ UNCHANGED <<dcRemote, dcOrphans, dcClient, dcTemp, dcQueue, dcUploads, dcPdf>>

\* It fails, or its timeout passes, perhaps in the middle of its product.  Only
\* xvfb-run is killed then, and the converter below it may live on.
OdaBreaks ==
    /\ dcOda.stage = "running"
    /\ dcOda' = Idling
    /\ Answered(dcOda.for, FALSE)
    /\ \/ UNCHANGED dcShared
       \/ dcShared' = [dcShared EXCEPT ![ProducedName(dcOda.for)] = Doc(dcOda.holds.of, FALSE)]
    /\ dcBroken' = dcBroken \cup {dcOda.for}
    /\ \/ UNCHANGED dcOrphans
       \/ dcOrphans' = dcOrphans \cup {[for |-> dcOda.for, holds |-> dcOda.holds]}
    /\ UNCHANGED <<dcRemote, dcTemp, dcQueue, dcUploads, dcPdf>>

\* Such a converter writes, some time later and for nobody.
OrphanWrites ==
    /\ \E o \in dcOrphans :
          \/ /\ dcShared' = [dcShared EXCEPT ![ProducedName(o.for)] = Doc(o.holds.of, FALSE)]
             /\ UNCHANGED dcOrphans
          \/ /\ dcShared' = [dcShared EXCEPT ![ProducedName(o.for)] = o.holds]
             /\ dcOrphans' = dcOrphans \ {o}
    /\ UNCHANGED <<dcRemote, dcClient, dcTemp, dcServers, dcBroken>>

\* What stands under the product's name is renamed to the output.
OdaFinish ==
    /\ dcOda.stage = "exited"
    /\ dcOda' = Idling
    /\ LET c == dcOda.for
           product == dcShared[ProducedName(c)]
       IN  /\ Answered(c, product # NoDoc)
           /\ dcShared' = IF product = NoDoc THEN dcShared
                          ELSE [dcShared EXCEPT ![ProducedName(c)] = NoDoc,
                                                ![OutputName(c)] = product]
    /\ UNCHANGED <<dcRemote, dcOrphans, dcTemp, dcQueue, dcUploads, dcPdf, dcBroken>>

(* ---- the deadlines of a PDF, in seconds ---- *)

Earlier(a, b) == IF a < b THEN a ELSE b
Later(a, b) == IF a < b THEN b ELSE a
MaxTimeout == 3600
\* Half a minute and 5.5 seconds a megabyte, twice.
EstimateDeadline(megabytes) == Earlier(MaxTimeout, Later(30, 60 + 11 * megabytes))
ResolveDeadline(c) ==
    IF Deadline # 0 THEN Earlier(Deadline, MaxTimeout) ELSE EstimateDeadline(Megabytes[c])
\* The client waits half a minute longer than it asks the server to work; the
\* server works for two minutes at least.
ClientTimeout(c) == ResolveDeadline(c) + 30
ResolveTimeout(c) == Later(120, Earlier(ResolveDeadline(c), MaxTimeout))
ServerEndsFirst(c) == ResolveTimeout(c) <= ClientTimeout(c)

(* ---- the First PDF server ---- *)

\* _convert_lock, which asyncio hands over in the order of arrival.
LockFree == dcPdf.for = NoDoc
\* A client that still waits writes the document to a file of its own, or maps
\* the answer to an error.
ClientGets(c, got) ==
    dcClient' = [dcClient EXCEPT ![c] =
        IF @.stage = "waiting" THEN [@ EXCEPT !.stage = "cleaning", !.got = got] ELSE @]

PdfStart ==
    /\ dcUploads # <<>> /\ LockFree
    /\ dcPdf' = [PdfIdle EXCEPT !.for = Head(dcUploads), !.alive = TRUE]
    /\ dcUploads' = Tail(dcUploads)
    /\ UNCHANGED <<dcRemote, dcOrphans, dcClient, dcFiles, dcQueue, dcOda, dcBroken>>

PdfGoesOn ==
    /\ ~LockFree
    /\ UNCHANGED <<dcRemote, dcOrphans, dcClient, dcFiles, dcQueue, dcOda, dcUploads, dcBroken>>

\* The program writes its document, and exits after it or without one.
FirstPdfWrites ==
    /\ PdfGoesOn /\ dcPdf.alive /\ dcPdf.next # "drive" /\ dcPdf.docx # "whole"
    /\ dcPdf' = [dcPdf EXCEPT !.docx = IF @ = "none" THEN "part" ELSE "whole"]
FirstPdfExits ==
    /\ PdfGoesOn /\ dcPdf.alive
    /\ dcPdf' = [dcPdf EXCEPT !.alive = FALSE]
\* The watchdog's time is over.  The client of a small document has hung up by then.
PdfLate ==
    /\ PdfGoesOn /\ ~dcPdf.late /\ dcPdf.next # "drive"
    /\ dcClient[dcPdf.for].stage = "waiting" => ServerEndsFirst(dcPdf.for)
    /\ dcPdf' = [dcPdf EXCEPT !.late = TRUE]

\* A request that waits is refused when its upload is no PDF, empty, or cannot be
\* stored.
PdfRefuses(c) ==
    /\ \E i \in DOMAIN dcUploads : dcUploads[i] = c /\ dcUploads' = RemoveAt(dcUploads, i)
    /\ ClientGets(c, NoDoc)
    /\ UNCHANGED <<dcRemote, dcOrphans, dcFiles, dcQueue, dcOda, dcPdf, dcBroken>>

\* The program is killed, and the server answers.
PdfAnswers(got) ==
    /\ dcPdf' = PdfIdle
    /\ ClientGets(dcPdf.for, got)
    /\ UNCHANGED <<dcRemote, dcOrphans, dcFiles, dcQueue, dcOda, dcUploads, dcBroken>>

\* convert_pdf starts the program, finds its window, sets the output directory and
\* begins the conversion; or one of these fails.
PdfDrives ==
    /\ ~LockFree /\ dcPdf.next = "drive"
    /\ \/ PdfGoesOn /\ dcPdf' = [dcPdf EXCEPT !.next = "find"]
       \/ PdfAnswers(NoDoc)

\* Then it looks for a document that is not empty, then whether the program
\* is alive, every half second until the watchdog's time is over.
PdfFinds ==
    /\ ~LockFree /\ dcPdf.next = "find"
    /\ IF dcPdf.late THEN PdfAnswers(NoDoc)
       ELSE IF dcPdf.docx # "none" THEN PdfAnswers(Doc(dcPdf.for, dcPdf.docx = "whole"))
       ELSE PdfGoesOn /\ dcPdf' = [dcPdf EXCEPT !.next = "poll"]
PdfPolls ==
    /\ ~LockFree /\ dcPdf.next = "poll"
    /\ IF dcPdf.alive THEN PdfGoesOn /\ dcPdf' = [dcPdf EXCEPT !.next = "find"]
       ELSE PdfAnswers(NoDoc)

ClientStep(c) == SendRequest(c) \/ Receive(c) \/ Clean(c) \/ LocalConvert(c) \/ OfficeConvert(c)
OdaStep == OdaAccept \/ OdaExits \/ OdaBreaks \/ OdaFinish
PdfStep == PdfStart \/ PdfDrives \/ PdfFinds \/ PdfPolls
FirstPdfStep == FirstPdfWrites \/ FirstPdfExits

ConversionNext ==
    \/ \E c \in Conversions : \/ \E route \in Routes : BeginConversion(c, route)
                              \/ ClientStep(c) \/ GiveUp(c)
    \/ OdaStep \/ OrphanWrites \/ PdfStep \/ FirstPdfStep \/ PdfLate
    \/ \E c \in Conversions : PdfRefuses(c)

\* Worker threads run, the subprocess of the ODA server has a timeout and First
\* PDF a watchdog.  Nobody needs to give up for a conversion to end, except the
\* client of a PDF whose own deadline is before the watchdog's.
GivesUpFirst(c) == dcClient[c].route = "pdf" /\ ~ServerEndsFirst(c) /\ GiveUp(c)
ConversionFairness ==
    /\ \A c \in Conversions : WF_dcVars(ClientStep(c))
    /\ \A c \in Conversions : WF_dcVars(GivesUpFirst(c))
    /\ WF_dcVars(OdaStep) /\ WF_dcVars(PdfStep) /\ WF_dcVars(PdfLate)
ConversionSpec == ConversionInit /\ [][ConversionNext]_dcVars /\ ConversionFairness

(* ---- properties ---- *)

\* The types of the converters' clients, servers and files.
ConversionTypeOK ==
    /\ dcRemote \in BOOLEAN
    /\ \A c \in Conversions : /\ dcClient[c].stage \in Stages
                              /\ dcClient[c].got \in {NoDoc} \cup [of : Conversions, whole : BOOLEAN]
    /\ \A n \in SharedNames : dcShared[n] \in {NoDoc} \cup [of : Conversions, whole : BOOLEAN]
    /\ \A i \in DOMAIN dcQueue : dcQueue[i] \in Conversions
    /\ \A i \in DOMAIN dcUploads : dcUploads[i] \in Conversions
    /\ dcOrphans \subseteq [for : Conversions, holds : [of : Conversions, whole : BOOLEAN]]
    /\ dcPdf.for \in Conversions \cup {NoDoc} /\ dcPdf.docx \in {"none", "part", "whole"}
    /\ dcTemp \subseteq Conversions

\* "Convert .dwg to temp .dxf": what a conversion returns was made from the
\* document it was called with, and through the ODA server from all of it.
OwnDrawingReturned ==
    \A c \in Conversions :
        LET client == dcClient[c]
        IN  client.got # NoDoc =>
                client.got.of = c /\ (dcRemote /\ client.route \in CadRoutes => client.got.whole)

\* What is left on the shared volume, which no sweep covers, comes from a call
\* that gave up or a converter that broke: every other call removes its files.
LeftoversExplained ==
    \A n \in SharedNames :
        dcShared[n] # NoDoc /\ (\A c \in Conversions : Stem[c] = n[2] =>
                                    dcClient[c].stage \in {"idle", "ended"} /\ dcOda.for # c)
        => \E c \in dcBroken : Stem[c] = n[2]

\* Calls whose documents have different names never get each other's documents,
\* and what they leave behind is explained.
ConversionsKeptApart ==
    /\ (\A c, d \in Conversions : Stem[c] = Stem[d] => c = d) => OwnDrawingReturned
    /\ LeftoversExplained

\* Every conversion that was begun ends, however the requests queue up.
ConversionsEnd ==
    \A c \in Conversions : dcClient[c].stage = "ready" ~> dcClient[c].stage = "ended"
=============================================================================
