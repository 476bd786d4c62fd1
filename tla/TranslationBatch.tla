-------------------------- MODULE TranslationBatch --------------------------
(***************************************************************************)
(* How the units of a document get their translations: the batches and the *)
(* gap-filling rounds of the service (service.py), and the provider's      *)
(* recursive call for one batch (openai_provider.py), which splits a batch *)
(* it cannot read, asks again for units the model left out or spoilt, and  *)
(* falls back to the source text.                                          *)
(*                                                                         *)
(* A text is "good" or "bad" (numbers changed, or source language left in) *)
(* or the unit's own "source" text.  The provider's recursion is a stack   *)
(* of frames; tbRet is what the frame that just ended returned or raised.  *)
(* What the model answers is arbitrary: an answer may lack units, repeat   *)
(* one, or carry one that was not asked for.                               *)
(***************************************************************************)
EXTENDS Integers, FiniteSets, Sequences, Functions

CONSTANTS UnitCount,        \* units of the document, in document order
          BatchSize,        \* units of a batch of the main pass
          GapBatchSize,     \* GAP_FILL_BATCH_SIZE
          GapRounds,        \* GAP_FILL_MAX_ROUNDS
          MaxSplitDepth,    \* MAX_SPLIT_DEPTH
          MaxStray          \* bound: answers with a unit that was not asked for

ASSUME BatchAssumption ==
    /\ UnitCount \in Nat /\ BatchSize \in Nat \ {0} /\ GapBatchSize \in Nat \ {0}
    /\ GapRounds \in Nat /\ MaxSplitDepth \in Nat /\ MaxStray \in Nat

VARIABLES tbStack,      \* frames of translate_batch, the running one last
          tbRet,        \* the outcome of the frame that just ended, or NoReturn
          tbQueue,      \* batches of this pass that are still to be sent
          tbRound,      \* 0 in the main pass, else the gap-filling round
          tbStill,      \* units this gap-filling round leaves missing
          tbAll,        \* all_translations: [units -> text]
          tbOutcome,    \* "waiting", "running", or how the passes over the document ended
          tbRussian,    \* whether the source language is Russian
          tbTries,      \* [unit -> batches it was sent in, counted up to one too many]
          tbStray,      \* units for which an answer came that was not asked for
          tbSplit,      \* whether the current batch was split
          tbUnrecorded  \* fallbacks of an unsplit batch that the service gets no finding of

tbVars == <<tbStack, tbRet, tbQueue, tbRound, tbStill, tbAll, tbOutcome, tbRussian,
            tbTries, tbStray, tbSplit, tbUnrecorded>>

Units == 1..UnitCount
Texts == {"good", "bad", "source"}
Nothing == <<>>                       \* the function with no units

\* dict.update: the new texts join the others, and replace those of their units.
Updated(texts, new) ==
    [u \in DOMAIN texts \cup DOMAIN new |-> IF u \in DOMAIN new THEN new[u] ELSE texts[u]]

NoReturn == [kind |-> "none"]
Return(result, found) == [kind |-> "result", result |-> result, found |-> found]
Raise(found) == [kind |-> "raise", result |-> Nothing, found |-> found]

\* How many of the units stand before one of them in the document.
Before(units, u) == Cardinality({v \in units : v < u})
FirstOf(units, n) == {u \in units : Before(units, u) < n}
Chunk(units, size, b) == {u \in units : Before(units, u) \div size = b - 1}

\* Mutant: a document that fills its batches gets an empty one as well.
CreateBatchesRagged(units, size) ==
    [b \in 1..(Cardinality(units) \div size + 1) |-> Chunk(units, size, b)]

\* _create_batches (and BatchBuilder._build_flat): consecutive chunks.
CreateBatches(units, size) ==
    [b \in 1..((Cardinality(units) + size - 1) \div size) |-> Chunk(units, size, b)]

(* ---- one call of translate_batch ---- *)

Frame(units, depth, found) ==
    [units |-> units, depth |-> depth, stage |-> "ask", texts |-> Nothing,
     retry |-> {}, found |-> found]
\* A frame that calls keeps what it has, and for whom it calls.
Waits(f, stage, texts, retry) ==
    [f EXCEPT !.stage = stage, !.texts = texts, !.retry = retry]
Top == tbStack[Len(tbStack)]
Below == SubSeq(tbStack, 1, Len(tbStack) - 1)
Replaced(frame) == Below \o <<frame>>

\* A nested call starts with a copy of batch_data, findings included; beyond
\* the depth limit it raises at once.
Enters(caller, units, depth) ==
    IF depth > MaxSplitDepth
    THEN /\ tbStack' = Replaced(caller) /\ tbRet' = Raise(caller.found)
    ELSE /\ tbStack' = Replaced(caller) \o <<Frame(units, depth, caller.found)>>
         /\ tbRet' = NoReturn

Ends(return) == tbStack' = Below /\ tbRet' = return

\* _translate_with_split: the first half, then the second.
Split ==
    LET f == Top
        left == FirstOf(f.units, Cardinality(f.units) \div 2)
    IN  /\ Enters(Waits(f, "split", f.texts, f.units \ left), left, f.depth + 1)
        /\ tbSplit' = TRUE

\* _post_process: a unit of the batch has to keep its numbers and, from Russian,
\* leave nothing of the source; a unit of another batch is not looked at.
Incomplete(f, texts) ==
    {u \in DOMAIN texts \cap f.units :
        texts[u] = "bad" \/ (texts[u] = "source" /\ tbRussian)}

\* Mutant: nobody hears of the fallback.
SourceFallbackSilent(f, texts, broken) ==
    Return([u \in DOMAIN texts \cup broken |-> IF u \in broken THEN "source" ELSE texts[u]],
           f.found)

\* The units that stay broken keep their source text, and are recorded.
SourceFallback(f, texts, broken) ==
    Return([u \in DOMAIN texts \cup broken |-> IF u \in broken THEN "source" ELSE texts[u]],
           f.found \cup broken)

\* The end of a frame that has its raw texts: it is done, or asks once more for
\* the units that failed the checks, or is as deep as it may go.
PostProcess(f, texts) ==
    LET broken == Incomplete(f, texts)
        kept == Restrict(texts, DOMAIN texts \ broken)
    IN  IF broken = {} THEN Ends(Return(texts, f.found))
        ELSE IF f.depth < MaxSplitDepth
        THEN Enters(Waits(f, "integrity", kept, broken), broken, f.depth + 1)
        ELSE Ends(SourceFallback(f, kept, broken))

(* ---- the model's answers ---- *)

Asking == tbStack # <<>> /\ tbRet = NoReturn /\ Top.stage = "ask"
ProviderOnly == UNCHANGED <<tbQueue, tbRound, tbStill, tbAll, tbOutcome, tbRussian,
                            tbTries, tbUnrecorded>>

\* DELIVERY_RATIO_THRESHOLD, three quarters.
DeliveredEnough(count, expected) == 4 * count >= 3 * expected

\* A list of items: texts for some units of the batch, perhaps one of them twice
\* or a text for another unit of the document.  The code counts items, not units.
AnswerItems(texts, repeated, stray) ==
    LET f == Top
        raw == Updated(texts, stray)
        count == Cardinality(DOMAIN texts) + Cardinality(DOMAIN stray)
                 + (IF repeated THEN 1 ELSE 0)
        expected == Cardinality(f.units)
        missing == f.units \ DOMAIN texts
    IN  /\ Asking
        /\ repeated => texts # Nothing
        /\ stray # Nothing => Cardinality(tbStray) < MaxStray
        /\ tbStray' = tbStray \cup DOMAIN stray
        /\ IF count < expected /\ ~DeliveredEnough(count, expected) /\ expected > 1
           THEN Split
           ELSE /\ UNCHANGED tbSplit
                /\ IF count < expected /\ missing # {} /\ f.depth < MaxSplitDepth
                   THEN Enters(Waits(f, "missing", raw, f.retry), missing, f.depth + 1)
                   ELSE PostProcess(f, raw)
        /\ ProviderOnly

\* The content cannot be parsed, whatever is repaired: a batch is split, a
\* single unit is given up.
AnswerUnreadable ==
    /\ Asking
    /\ IF Cardinality(Top.units) > 1 THEN Split
       ELSE Ends(Raise(Top.found)) /\ UNCHANGED tbSplit
    /\ UNCHANGED tbStray /\ ProviderOnly

\* "translations" is not a list.
AnswerNotAList ==
    /\ Asking
    /\ Ends(Raise(Top.found))
    /\ UNCHANGED <<tbSplit, tbStray>> /\ ProviderOnly

Aborts(outcome) ==
    /\ tbStack' = <<>> /\ tbOutcome' = outcome
    /\ UNCHANGED <<tbRet, tbQueue, tbRound, tbStill, tbAll, tbRussian, tbTries, tbStray,
                   tbSplit, tbUnrecorded>>

\* An error status, a timeout or a refused connection: ModelUnavailableError
\* passes every retry and ends the job.
ModelUnavailable == Asking /\ Aborts("unavailable")

\* An answer without content, or whose content is JSON but no object, raises an
\* AttributeError that nobody handles as a failed batch: the job fails.
AnswerMalformed == Asking /\ Aborts("failed")

(* ---- a frame gets what its nested call returned or raised ---- *)

\* A retry collects the findings of the nested call.  The halves of a split
\* get copies of batch_data and nobody collects theirs: they reach the caller
\* only through a list that was there before and that the copies share.
Collected(f, ret) ==
    IF f.stage = "split" /\ f.found = {} THEN f.found ELSE f.found \cup ret.found

Resume ==
    LET f == [Top EXCEPT !.found = Collected(Top, tbRet)]
        merged == Updated(f.texts, tbRet.result)
    IN  /\ tbStack # <<>> /\ tbRet # NoReturn
        /\ CASE f.stage = "split" ->
                  IF tbRet.kind = "raise" THEN Ends(Raise(f.found))
                  ELSE IF f.retry # {}
                  THEN Enters(Waits(f, "split", merged, {}), f.retry, f.depth + 1)
                  ELSE Ends(Return(merged, f.found))
             [] f.stage = "missing" -> PostProcess(f, merged)
             [] f.stage = "integrity" ->
                  LET taken == Restrict(merged, DOMAIN f.texts \cup
                                                (f.retry \cap DOMAIN tbRet.result))
                  IN  Ends(SourceFallback(f, taken, f.retry \ DOMAIN taken))
        /\ UNCHANGED <<tbStray, tbSplit>> /\ ProviderOnly

(* ---- the service's passes over the document ---- *)

BatchInit ==
    /\ tbStack = <<>> /\ tbRet = NoReturn
    /\ tbQueue = CreateBatches(Units, BatchSize)
    /\ tbRound = 0 /\ tbStill = {} /\ tbAll = Nothing /\ tbOutcome = "waiting"
    /\ tbRussian \in BOOLEAN
    /\ tbTries = [u \in Units |-> 0]
    /\ tbStray = {} /\ tbSplit = FALSE /\ tbUnrecorded = {}

\* The document is parsed and its units are collected.
StartTranslation ==
    /\ tbOutcome = "waiting" /\ tbOutcome' = "running"
    /\ UNCHANGED <<tbStack, tbRet, tbQueue, tbRound, tbStill, tbAll, tbRussian, tbTries,
                   tbStray, tbSplit, tbUnrecorded>>

Between == tbOutcome = "running" /\ tbStack = <<>> /\ tbRet = NoReturn

SendBatch ==
    /\ Between /\ tbQueue # <<>>
    /\ tbStack' = <<Frame(Head(tbQueue), 0, {})>>
    /\ tbTries' = [u \in Units |-> IF u \in Head(tbQueue) /\ tbTries[u] < GapRounds + 2
                                THEN tbTries[u] + 1 ELSE tbTries[u]]
    /\ UNCHANGED <<tbRet, tbQueue, tbRound, tbStill, tbAll, tbOutcome, tbRussian, tbStray,
                   tbSplit, tbUnrecorded>>

\* The job was cancelled: no further batch is sent and nothing is applied.
StopCancelled == Between /\ Aborts("cancelled")

\* The batch's texts join all_translations; one that raised leaves nothing, and
\* its units keep their original text.  A gap-filling round notes who is missing.
StoreBatch ==
    /\ tbStack = <<>> /\ tbRet # NoReturn
    /\ tbRet' = NoReturn /\ tbQueue' = Tail(tbQueue)
    /\ tbAll' = Updated(tbAll, tbRet.result)
    /\ tbStill' = IF tbRound = 0 THEN {} ELSE tbStill \cup (Head(tbQueue) \ DOMAIN tbAll')
    /\ tbUnrecorded' = tbUnrecorded \cup
          {u \in DOMAIN tbRet.result : /\ tbRet.result[u] = "source" /\ u \notin tbRet.found
                                       /\ ~tbSplit}
    /\ tbSplit' = FALSE
    /\ UNCHANGED <<tbStack, tbRound, tbOutcome, tbRussian, tbTries, tbStray>>

\* Mutant: the rounds are not counted.
EndPassUncounted ==
    LET missing == IF tbRound = 0 THEN Units \ DOMAIN tbAll ELSE tbStill
    IN  /\ Between /\ tbQueue = <<>>
        /\ IF missing # {}
           THEN /\ tbRound' = 1
                /\ tbQueue' = CreateBatches(missing, GapBatchSize)
                /\ tbStill' = {} /\ UNCHANGED tbOutcome
           ELSE tbOutcome' = "done" /\ UNCHANGED <<tbRound, tbQueue, tbStill>>
        /\ UNCHANGED <<tbStack, tbRet, tbAll, tbRussian, tbTries, tbStray, tbSplit, tbUnrecorded>>

\* A pass is over: the missing units are sent again in small batches, for a
\* bounded number of rounds; what is missing then keeps its original text.
EndPass ==
    LET missing == IF tbRound = 0 THEN Units \ DOMAIN tbAll ELSE tbStill
    IN  /\ Between /\ tbQueue = <<>>
        /\ IF missing # {} /\ tbRound < GapRounds
           THEN /\ tbRound' = tbRound + 1
                /\ tbQueue' = CreateBatches(missing, GapBatchSize)
                /\ tbStill' = {} /\ UNCHANGED tbOutcome
           ELSE tbOutcome' = "done" /\ UNCHANGED <<tbRound, tbQueue, tbStill>>
        /\ UNCHANGED <<tbStack, tbRet, tbAll, tbRussian, tbTries, tbStray, tbSplit, tbUnrecorded>>

Answer ==
    \/ \E delivered \in SUBSET (IF Asking THEN Top.units ELSE {}) :
       \E texts \in [delivered -> {"good", "bad"}], repeated \in BOOLEAN,
          stray \in {Nothing} \cup
                    UNION {[{u} -> {"good", "bad"}] : u \in (IF Asking THEN Units \ Top.units ELSE {})} :
            AnswerItems(texts, repeated, stray)
    \/ AnswerUnreadable \/ AnswerNotAList \/ AnswerMalformed \/ ModelUnavailable

BatchNext == StartTranslation \/ Answer \/ Resume \/ SendBatch \/ StopCancelled \/ StoreBatch \/ EndPass

\* The HTTP client's timeout ends every request, so the model's answer, like
\* every step of the service, is taken.
BatchSpec == BatchInit /\ [][BatchNext]_tbVars /\ WF_tbVars(BatchNext)

(* ---- properties ---- *)

\* The types of the provider's frames and of the service's pass.
BatchTypeOK ==
    /\ \A i \in DOMAIN tbStack :
          /\ tbStack[i].units \subseteq Units /\ tbStack[i].units # {}
          /\ tbStack[i].depth \in 0..MaxSplitDepth
          /\ tbStack[i].stage \in {"ask", "split", "missing", "integrity"}
          /\ DOMAIN tbStack[i].texts \subseteq Units
    /\ tbRet.kind \in {"none", "result", "raise"}
    /\ tbRound \in 0..GapRounds /\ tbStill \subseteq Units
    /\ DOMAIN tbAll \subseteq Units /\ \A u \in DOMAIN tbAll : tbAll[u] \in Texts
    /\ tbOutcome \in {"waiting", "running", "done", "cancelled", "unavailable", "failed"}
    /\ tbTries \in [Units -> 0..GapRounds + 1]

\* Every unit is accounted for, however batches are split, retried and merged.  A
\* text that fails the fidelity checks reaches the document only when the model
\* sent it for a unit it was not asked about; "source fallback ... guarantees no
\* content loss while recording the finding", unless the batch was split; and a
\* unit without a text at the end was sent in the main pass and in every round.
UnitsAccountedFor ==
    /\ \A u \in DOMAIN tbAll : tbAll[u] = "bad" => u \in tbStray
    /\ tbUnrecorded = {}
    /\ tbOutcome = "done" =>
          \A u \in Units \ DOMAIN tbAll : tbTries[u] = GapRounds + 1

\* The passes over a document end, whatever the model answers: splitting and
\* retrying are bounded together, and so are the rounds.
TranslationEnds == tbOutcome = "running" ~> tbOutcome \notin {"waiting", "running"}
=============================================================================
