----------------------------- MODULE DocumentText -----------------------------
(***************************************************************************)
(* How a translation gets back into a document, where the document gave    *)
(* its text away in pieces:                                                *)
(*   "segment"    the segment of a DOCX, words over the inline codes of an *)
(*                XLIFF unit (okapi_service.py, docx_translator.py);       *)
(*   "runs"       a shared string of an XLSX, characters over its rich     *)
(*                text runs (xlsx_translator.py);                          *)
(*   "labels"     the labels of a chart or drawing of an XLSX, found again *)
(*                by their text (xlsx_content_classifier.py);              *)
(*   "paragraphs" a multi-line text of a drawing, split into one unit per  *)
(*                paragraph (dxf_translator.py);                           *)
(*   "codes"      the formatting codes of such a text, which the model sees *)
(*                as placeholders (cad_token_protector.py);                *)
(*   "numbers"    the numbers of a unit, which the model sees as           *)
(*                placeholders (numeric_fidelity.py).                      *)
(*                                                                         *)
(* Words and characters are numbered by their place in the translation: it *)
(* matters where they end up, not what they are.                           *)
(***************************************************************************)
EXTENDS Integers, Sequences, FiniteSets, FiniteSetsExt, SequencesExt, Functions

CONSTANTS MaxPieces,    \* pieces of a document
          MaxSize,      \* visible characters of a piece
          MaxWords,     \* words, or characters, of a translation
          Labels,       \* texts of labels
          Prefix,       \* [Labels -> the first characters, which make the id]
          Translated,   \* texts of translated labels, some may equal a label
          MaxNumbers    \* numbers of a unit and of its translation

ASSUME DocumentAssumption ==
    /\ MaxPieces \in Nat \ {0} /\ MaxSize \in Nat \ {0} /\ MaxWords \in Nat /\ MaxNumbers \in Nat \ {0}
    /\ Prefix \in [Labels -> {Prefix[t] : t \in Labels}]

VARIABLES dtKind,      \* which of the six
          dtDocument,  \* the pieces of the document
          dtReply,     \* the translation, as the service hands it over
          dtResult     \* the pieces after the translation was applied, or Untouched

dtVars == <<dtKind, dtDocument, dtReply, dtResult>>

Untouched == <<>>
Upto(n) == [i \in 1..n |-> i]
Slice(s, from, count) == SubSeq(s, from + 1, from + count)

\* Some places of a sequence in their order, and what stands there.
Rank(places, i) == Cardinality({k \in places : k <= i})
InOrder(places) == [n \in 1..Cardinality(places) |-> CHOOSE i \in places : Rank(places, i) = n]
At(s, places) == [n \in 1..Cardinality(places) |-> s[InOrder(places)[n]]]

(* ---- the words of a segment ---- *)

\* A position holds visible text with or without space around it, or nothing
\* but space; it is the text of an element or what follows one (its tail).
Space(tail) == [tail |-> tail, size |-> 0, before |-> TRUE, after |-> TRUE]
Positions ==
    {Space(tail) : tail \in BOOLEAN}
    \cup [tail : BOOLEAN, size : 1..MaxSize, before : BOOLEAN, after : BOOLEAN]

\* The length of the position's text, its space included.
TextLength(p) == p.size + (IF p.before THEN 1 ELSE 0) + (IF p.after THEN 1 ELSE 0)
Content(positions) == {i \in DOMAIN positions : positions[i].size > 0}
SumOver(amounts, indices) == MapThenSumSet(LAMBDA i : amounts[i], indices)
TotalLength(positions) ==
    SumOver([i \in Content(positions) |-> TextLength(positions[i])], Content(positions))

\* Each position gets the whole part of its share; what remains goes, one word
\* each, to the largest fractions, the first of equal ones first.
WholeShare(positions, i, words, total) == (TextLength(positions[i]) * words) \div total
Fraction(positions, i, words, total) == (TextLength(positions[i]) * words) % total
Preferred(positions, i, words, total) ==
    {k \in Content(positions) :
        \/ Fraction(positions, k, words, total) > Fraction(positions, i, words, total)
        \/ Fraction(positions, k, words, total) = Fraction(positions, i, words, total) /\ k < i}
WordCount(positions, words) ==
    LET total == TotalLength(positions)
        whole == [i \in Content(positions) |-> WholeShare(positions, i, words, total)]
        left == words - SumOver(whole, Content(positions))
    IN  [i \in DOMAIN positions |->
            IF i \notin Content(positions) THEN 0
            ELSE whole[i] + (IF Cardinality(Preferred(positions, i, words, total)) < left THEN 1 ELSE 0)]

CountBefore(counts, i) == SumOver(counts, 1..(i - 1))

\* Whether space ends the text written so far, as prev_had_trailing_ws says: it
\* looks at the position before this one only.
SpaceBefore(positions, i) ==
    i > 1 /\ LET p == positions[i - 1] IN IF p.size = 0 THEN p.after ELSE ~p.tail /\ p.after

\* _set_target_with_inline_codes: the text of an element keeps the space after
\* it, a tail the space before it unless there is some already.
FilledSegment(positions, words) ==
    LET counts == WordCount(positions, words)
    IN  IF Content(positions) = {}
        THEN <<[words |-> Upto(words), before |-> FALSE, after |-> FALSE]>>
                 \o [i \in DOMAIN positions |-> [words |-> <<>>, before |-> TRUE, after |-> TRUE]]
        ELSE [i \in DOMAIN positions |->
                LET p == positions[i]
                IN  [words |-> Slice(Upto(words), CountBefore(counts, i), counts[i]),
                     before |-> p.size = 0 \/ (p.tail /\ p.before /\ ~SpaceBefore(positions, i)),
                     after |-> p.size = 0 \/ (~p.tail /\ p.after)]]

\* A unit without a translation gets its source as its target.
WrittenSegment(positions, words) ==
    IF words = 0 THEN <<"source">> ELSE FilledSegment(positions, words)

(* ---- the characters of rich text runs ---- *)

\* _set_r_text: every run but the last gets its share, at least one character
\* as long as there are some; the last gets the rest.
\* Mutant: the last run gets a share like the others.
ShareOfRunRounded(lengths, i, words, taken) ==
    LET total == SumOver(lengths, DOMAIN lengths)
    IN  Min({Max({1, (words * lengths[i]) \div total}), words - taken})
ShareOfRun(lengths, i, words, taken) ==
    LET total == SumOver(lengths, DOMAIN lengths)
        wanted == IF i = Len(lengths) THEN words - taken
                  ELSE Max({1, (words * lengths[i]) \div total})
    IN  Min({wanted, words - taken})
FilledRuns(lengths, words) ==
    LET fill(filled, i) ==
          LET share == ShareOfRun(lengths, i, words, filled.taken)
          IN  [taken |-> filled.taken + share,
               runs |-> Append(filled.runs, Slice(Upto(words), filled.taken, share))]
    IN  FoldLeft(fill, [taken |-> 0, runs |-> <<>>], Upto(Len(lengths))).runs

\* Several runs without any text are left as they are.
AllEmpty(lengths) == Len(lengths) > 1 /\ \A i \in DOMAIN lengths : lengths[i] = 0
WrittenRuns(lengths, words) ==
    IF Len(lengths) = 1 THEN <<Upto(words)>>
    ELSE IF AllEmpty(lengths) THEN [i \in DOMAIN lengths |-> <<>>]
    ELSE FilledRuns(lengths, words)

(* ---- the labels of a chart ---- *)

\* A label's unit is known by the first characters of its text, and the service
\* keeps one translation per unit.  _apply_to_chart_or_shape replaces the first
\* element that still has the label's text.
LabelId(text) == Prefix[text]
WriteLabel(texts, label, reply) ==
    LET same == {k \in DOMAIN texts : texts[k] = label}
    IN  IF LabelId(label) \notin DOMAIN reply \/ same = {} THEN texts
        ELSE [texts EXCEPT ![Min(same)] = reply[LabelId(label)]]
WrittenLabels(labels, reply) ==
    FoldLeft(LAMBDA texts, label : WriteLabel(texts, label, reply), labels, labels)

(* ---- the paragraphs of a drawing's text ---- *)

\* _build_text_units: a long text of many paragraphs is split, and a paragraph
\* of formatting codes or nothing is no unit.
SplitMinParagraphs == 3
IsSplit(text) == Len(text.paragraphs) > SplitMinParagraphs /\ text.long
HasText(text, i) == text.paragraphs[i] = "text"
UnitsOfText(text) ==
    IF IsSplit(text) THEN {i \in DOMAIN text.paragraphs : HasText(text, i)}
    ELSE IF \E i \in DOMAIN text.paragraphs : HasText(text, i) THEN {0} ELSE {}

\* translate: the units of a split text are joined, those without a translation
\* as they were; another text is replaced as a whole, or not at all.
Paragraph(i, translated) == [paragraph |-> i, translated |-> translated]
WrittenParagraphs(text, reply) ==
    LET units == UnitsOfText(text)
    IN  IF IsSplit(text) /\ units # {}
        THEN LET inOrder == InOrder(units)
             IN  [k \in DOMAIN inOrder |-> Paragraph(inOrder[k], inOrder[k] \in reply)]
        ELSE [i \in DOMAIN text.paragraphs |-> Paragraph(i, 0 \in reply)]

(* ---- the formatting codes of a drawing's text ---- *)

\* A text has formatting codes, words, and perhaps a word that reads like a
\* placeholder.  Placeholders are counted from 1 here.
Code(v) == [kind |-> "code", value |-> v]
Word == [kind |-> "word", value |-> 0]
Placeholder(i) == [kind |-> "placeholder", value |-> i]
Placeholders == {Placeholder(i) : i \in 1..(MaxNumbers + 1)}
Codes(text) == {i \in DOMAIN text : text[i].kind = "code"}

\* encode: every code becomes a placeholder of its own, also one that comes twice.
\* What the text had that reads like one stays.
Encoded(text) ==
    [i \in DOMAIN text |->
        IF i \in Codes(text) THEN Placeholder(Rank(Codes(text), i)) ELSE text[i]]

\* restore_numerics and decode: the originals of the placeholders are put back,
\* and a placeholder of none stays as it is.
Restored(reply, originals) ==
    [i \in DOMAIN reply |->
        IF reply[i].kind = "placeholder" /\ reply[i].value \in DOMAIN originals
        THEN originals[reply[i].value] ELSE reply[i]]

\* translate: nothing checks which placeholders the translation has.
Decoded(text, reply) == Restored(reply, At(text, Codes(text)))

CountOf(text, mark) == Cardinality({i \in DOMAIN text : text[i] = mark})

(* ---- the numbers of a unit ---- *)

\* A number with its normalized value: a reference (No. 732), a dotted designator,
\* a plain number of two digits or more, a date, which is protected but not
\* compared, or a single digit, which is neither.
Numbers == [kind : {"ref", "sub", "num", "date", "digit"}, value : 1..2]

\* protect_numerics: of the numbers that _spans finds the n-th is the n-th
\* placeholder.
Protected(source) == {i \in DOMAIN source : source[i].kind # "digit"}
ProtectedNumbers(source) ==
    [i \in DOMAIN source |-> IF i \in Protected(source)
                             THEN Placeholder(Rank(Protected(source), i)) ELSE source[i]]

\* The numbers of a kind that a text has more often than another, in the order
\* in which they come first.
Beyond(text, other, kind) ==
    LET add(found, n) ==
          LET more == Max({0, CountOf(text, n) - CountOf(other, n)})
          IN  IF n.kind # kind \/ Contains(found, n) THEN found
              ELSE found \o [i \in 1..more |-> n]
    IN  FoldLeft(add, <<>>, text)

\* verify_numeric: each number that was lost, with one that came in its place.
MismatchesOf(kind, source, text) ==
    LET lost == Beyond(source, text, kind)
        extra == Beyond(text, source, kind)
    IN  [i \in DOMAIN lost |->
            [lost |-> lost[i], found |-> IF i \in DOMAIN extra THEN <<extra[i]>> ELSE <<>>]]
Mismatches(source, text) ==
    MismatchesOf("ref", source, text) \o MismatchesOf("sub", source, text)
        \o MismatchesOf("num", source, text)

\* repair_numeric: a reference or a designator is put where the first of those
\* that came in its place stands; plain numbers are not repaired.
Repaired(text, mismatches) ==
    LET repair(done, m) ==
          LET hits == {i \in DOMAIN done.text : <<done.text[i]>> = m.found}
          IN  IF m.lost.kind = "num" \/ hits = {} THEN [done EXCEPT !.resolved = FALSE]
              ELSE [done EXCEPT !.text[Min(hits)] = m.lost]
    IN  FoldLeft(repair, [text |-> text, resolved |-> TRUE], mismatches)

\* _post_process: what cannot be repaired is asked for again.
\* Mutant: what could be repaired is enough.
CheckedNumbersPartly(source, reply) ==
    LET text == Restored(reply, At(source, Protected(source)))
    IN  <<"accepted", Repaired(text, Mismatches(source, text)).text>>
CheckedNumbers(source, reply) ==
    LET text == Restored(reply, At(source, Protected(source)))
        repaired == Repaired(text, Mismatches(source, text))
    IN  IF repaired.resolved THEN <<"accepted", repaired.text>> ELSE <<"rejected">>

(* ---- a document is translated ---- *)

SeqsUpto(set, n) == UNION {[1..k -> set] : k \in 1..n}
PartialReplies(ids, values) == UNION {[some -> values] : some \in SUBSET ids}

\* The translation of a text may lack units, as TranslationBatch shows; one of
\* a shared string or of a label that is missing leaves it alone.
DocumentInit ==
    /\ dtResult = Untouched
    /\ \/ /\ dtKind = "segment"
          /\ dtDocument \in SeqsUpto(Positions, MaxPieces)
          /\ dtReply \in 0..MaxWords
       \/ /\ dtKind = "runs"
          /\ dtDocument \in SeqsUpto(0..MaxSize, MaxPieces)
          /\ dtReply \in 1..MaxWords
       \/ /\ dtKind = "labels"
          /\ dtDocument \in SeqsUpto(Labels, MaxPieces)
          /\ dtReply \in PartialReplies({LabelId(dtDocument[i]) : i \in DOMAIN dtDocument},
                                       Translated)
       \/ /\ dtKind = "paragraphs"
          /\ dtDocument \in [paragraphs : SeqsUpto({"text", "codes"}, MaxPieces + 1),
                             long : BOOLEAN]
          /\ dtReply \in SUBSET UnitsOfText(dtDocument)
       \/ /\ dtKind = "codes"
          /\ dtDocument \in SeqsUpto({Code(1), Code(2), Word, Placeholder(1)}, MaxNumbers + 1)
          /\ dtReply \in SeqsUpto(Placeholders \cup {Word}, MaxNumbers + 1) \cup {<<>>}
       \/ /\ dtKind = "numbers"
          /\ dtDocument \in SeqsUpto(Numbers, MaxNumbers)
          /\ dtReply \in SeqsUpto(Numbers \cup Placeholders, MaxNumbers) \cup {<<>>}

\* translate of the translator the document belongs to.
TranslateDocument ==
    /\ dtResult = Untouched
    /\ dtResult' = CASE dtKind = "segment" -> WrittenSegment(dtDocument, dtReply)
                      [] dtKind = "runs" -> WrittenRuns(dtDocument, dtReply)
                      [] dtKind = "labels" -> WrittenLabels(dtDocument, dtReply)
                      [] dtKind = "paragraphs" -> WrittenParagraphs(dtDocument, dtReply)
                      [] dtKind = "codes" -> Decoded(dtDocument, dtReply)
                      [] dtKind = "numbers" -> CheckedNumbers(dtDocument, dtReply)
    /\ UNCHANGED <<dtKind, dtDocument, dtReply>>

DocumentSpec == DocumentInit /\ [][TranslateDocument]_dtVars

(* ---- properties ---- *)

\* The kinds of documents and the shape of what is written into them.
DocumentTypeOK ==
    /\ dtKind \in {"segment", "runs", "labels", "paragraphs", "codes", "numbers"}
    /\ dtResult # Untouched /\ dtKind \in {"runs", "labels"} =>
          Len(dtResult) = Len(dtDocument)

Pieces == [i \in DOMAIN dtResult |-> dtResult[i].words]

\* A space of the source that is kept: before a tail, after an element's text.
KeepsSpace(i, j) ==
    \E k \in i..j : \/ dtDocument[k].size = 0
                    \/ k < j /\ ~dtDocument[k].tail /\ dtDocument[k].after
                    \/ k > i /\ dtDocument[k].tail /\ dtDocument[k].before
Spaced(i, j) ==
    \E k \in i..j : \/ k < j /\ dtResult[k].after
                    \/ k > i /\ dtResult[k].before

\* Every word of a segment's translation is written exactly once and in order,
\* however many positions share however few words, and two words that land in
\* different positions stay apart where the source had a space that is kept.
SegmentArrives ==
    dtKind = "segment" /\ dtReply > 0 /\ dtResult # Untouched =>
        /\ FlattenSeq(Pieces) = Upto(dtReply)
        /\ Content(dtDocument) # {} => \A i, j \in DOMAIN dtDocument :
              i < j /\ Pieces[i] # <<>> /\ Pieces[j] # <<>> /\ KeepsSpace(i, j) => Spaced(i, j)

\* Every character of a shared string's translation lands in one of its runs.
RunsArrive ==
    dtKind = "runs" /\ dtResult # Untouched /\ ~AllEmpty(dtDocument) =>
        FlattenSeq(dtResult) = Upto(dtReply)

\* Every label gets the translation of its own unit, unless two labels share
\* their first characters or a translation is the text of another label.
LabelsArrive ==
    LET texts == {dtDocument[i] : i \in DOMAIN dtDocument}
    IN  dtKind = "labels" /\ dtResult # Untouched
        /\ (\A t, u \in texts : LabelId(t) = LabelId(u) => t = u)
        /\ (\A id \in DOMAIN dtReply : dtReply[id] \notin texts)
        => \A i \in DOMAIN dtDocument :
              dtResult[i] = IF LabelId(dtDocument[i]) \in DOMAIN dtReply
                            THEN dtReply[LabelId(dtDocument[i])] ELSE dtDocument[i]

\* Every paragraph that has text is in the text that is handed to the drawing
\* (translated_text), once and in its place among the others, translated exactly
\* if its unit was.  Whether the drawing takes it is the subject of TranslatorFiles.
ParagraphsArrive ==
    dtKind = "paragraphs" /\ dtResult # Untouched =>
        At(dtResult, {k \in DOMAIN dtResult : HasText(dtDocument, dtResult[k].paragraph)}) =
            LET texts == {i \in DOMAIN dtDocument.paragraphs : HasText(dtDocument, i)}
                inOrder == InOrder(texts)
            IN  [k \in DOMAIN inOrder |->
                    Paragraph(inOrder[k], inOrder[k] \in dtReply \/ 0 \in dtReply)]

\* A translation that has every placeholder of the text once, in whatever order,
\* has every formatting code as often as the text, unless the text had a word
\* that reads like a placeholder.
CodesArrive ==
    dtKind = "codes" /\ dtResult # Untouched /\ (\A i \in DOMAIN dtDocument : dtDocument[i] \notin Placeholders)
    /\ (\A mark \in Placeholders : CountOf(dtReply, mark) = CountOf(Encoded(dtDocument), mark))
        => \A v \in 1..2 : CountOf(dtResult, Code(v)) = CountOf(dtDocument, Code(v))

\* A translation that is accepted has every number of its source, other than
\* dates and single digits, at least as often as the source, whatever the model
\* did to them; one that has its placeholders and digits in their places is
\* accepted.
Compared(number) == number.kind \notin {"date", "digit"}
NumbersArrive ==
    dtKind = "numbers" /\ dtResult # Untouched =>
        /\ dtResult[1] = "accepted" => \A i \in DOMAIN dtDocument : Compared(dtDocument[i]) =>
              CountOf(dtResult[2], dtDocument[i]) >= CountOf(dtDocument, dtDocument[i])
        /\ dtReply = ProtectedNumbers(dtDocument) => dtResult = <<"accepted", dtDocument>>

\* A translation reaches the pieces it is written into whole, whatever they are.
TranslationArrives ==
    SegmentArrives /\ RunsArrive /\ LabelsArrive /\ ParagraphsArrive /\ CodesArrive /\ NumbersArrive
=============================================================================
