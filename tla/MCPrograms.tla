------------------------------ MODULE MCPrograms ----------------------------
(***************************************************************************)
(* The components of the program and optimizer layers, each checked on its *)
(* own.  "which" says whose state the slots hold; a component that has     *)
(* fewer variables leaves the other slots None.  Components share slots,   *)
(* never values.                                                           *)
(***************************************************************************)
EXTENDS ProgramSlots, TLC

CONSTANTS
  Docs, Chunks, Budgeted, Cap, Costs, MaxEntries,
  Letters

VARIABLE which

(* Constants of the model *)

\* Two documents that begin with the same chunks.
TwoDocs == [d \in Docs |-> IF d \in Budgeted THEN <<"a", "b", "c">> ELSE <<"a", "b", "d">>]

\* The first call of a strict program has a cascade.
RoutedCall == (Programs \ Tolerant) \X {1}

\* float("-inf")
BelowAll == -1

\* What two models are estimated to cost.
TwoEstimates == <<2, 0>>

\* A document of two paragraphs and a line too short to be one, and another.
TwoTexts == (<<"doc">> :> <<"a", "b", "n", "n", "A", "b", "n", "n", "b">>) @@ (<<"memo">> :> <<"b", "b">>)
TaggedText == <<"doc">>
LowerCase == [c \in {"a", "b", "A", "B", "n"} |-> CASE c = "A" -> "a" [] c = "B" -> "b" [] OTHER -> c]
FewStrategies == {<<"strict", "substring">>, <<"strict">>, <<"substring", "fuzzy_char">>,
                  <<"fuzzy_token", "case_insensitive">>, <<"normalized_token">>, <<>>}

\* Quotes that are where they say, elsewhere, in other letters, invented, out
\* of range, of an unknown source, of a paragraph, of another paragraph.
SpanOf(source, start, end, quote) == [source |-> source, start |-> start, end |-> end, quote |-> quote]
Exact == SpanOf(<<"doc">>, 0, 2, <<"a", "b">>)
Moved == SpanOf(<<"doc">>, 4, 6, <<"a", "b">>)
Recased == SpanOf(<<"doc">>, 0, 2, <<"a", "B">>)
Invented == SpanOf(<<"memo">>, 0, 2, <<"a", "a">>)
Beyond == SpanOf(<<"memo">>, 1, 9, <<"b", "b">>)
Unknown == SpanOf(<<"web">>, 0, 2, <<"a", "b">>)
OfParagraph == SpanOf(<<"doc", 1>>, 0, 2, <<"A", "b">>)
OfOther == SpanOf(<<"doc", 1>>, 0, 2, <<"a", "b">>)
Part(c, spans) == [cited |-> c, spans |-> spans]
SomeOutputs == {
  [kind |-> "answer", parts |-> <<Part(FALSE, <<Exact>>), Part(FALSE, <<Moved, Recased>>)>>],
  [kind |-> "answer", parts |-> <<Part(FALSE, <<Invented, Beyond>>), Part(FALSE, <<Unknown>>)>>],
  [kind |-> "answer", parts |-> <<Part(FALSE, <<OfParagraph>>)>>],
  [kind |-> "answer", parts |-> <<Part(FALSE, <<Unknown, Exact>>)>>],
  [kind |-> "insufficient", parts |-> <<>>],
  [kind |-> "model", parts |-> <<Part(TRUE, <<Exact, Beyond>>)>>],
  [kind |-> "model", parts |-> <<Part(TRUE, <<OfParagraph>>), Part(TRUE, <<Recased>>)>>],
  [kind |-> "model", parts |-> <<Part(TRUE, <<OfOther, Invented>>), Part(TRUE, <<Unknown>>)>>],
  [kind |-> "model", parts |-> <<Part(FALSE, <<Invented>>), Part(TRUE, <<Moved>>)>>]}

\* A required scalar, a list, and a text that need not be there.
ThreeColumns ==
  [price |-> [type |-> "scalar", required |-> TRUE],
   parties |-> [type |-> "list", required |-> FALSE],
   note |-> [type |-> "text", required |-> FALSE]]
FieldsOf(price, parties, note) == [price |-> price, parties |-> parties, note |-> note]
SomeFields == {
  FieldsOf(<<"k1">>, <<"k2", Pending>>, <<"t">>), FieldsOf(None, Pending, None),
  FieldsOf(Failed, None, Failed), FieldsOf(Failed, <<>>, <<"t">>), FieldsOf(<<Pending>>, None, None),
  FieldsOf(<<"k2">>, <<"k1", "k1">>, <<"u">>)}
SomeHits == [price : {<<>>, <<"k1">>, <<"k1", "k1">>}, parties : {<<>>, <<"k1", "k2", "k1">>}, note : {<<>>}]

\* Runs of two optimizers, which gain or lose; two calls of a process, the first
\* with a long line, and one of its child.
TwoStrategies == <<2, 1>>
GainOrLoss == {-1, 2}
ParentAndChild == <<"parent", "parent", "child">>
LongAndShort == <<2, 1, 1>>

\* Claims that quote a sentence that may be there, or one that is nowhere.
Quoting(start, quote) == [start |-> start, quote |-> quote]
SomeClaims == {<<>>, <<<<Quoting(0, 1)>>>>, <<<<Quoting(0, 1), Quoting(1, 9)>>>>,
               <<<<Quoting(1, 2)>>, <<Quoting(0, 9)>>, <<Quoting(0, 3)>>>>,
               <<<<Quoting(2, 3), Quoting(0, 2)>>>>}

\* Passages of two documents, one of them long, found with different scores.
HitOf(doc, block, start, size, score) ==
  [uri |-> None, doc |-> doc, block |-> block, start |-> start, text |-> doc, size |-> size, score |-> score]
Given == [HitOf(2, None, None, 3, 2) EXCEPT !.uri = <<1, "block", 1>>]
FoundIn == [units |-> {<<>>, <<HitOf(2, 1, 0, 3, 1), HitOf(1, 1, 4, 2, 2)>>,
                       <<HitOf(1, None, 7, 6, 3), HitOf(2, 1, 0, 3, 3)>>, <<Given, HitOf(1, 1, 4, 2, 0)>>},
            files |-> {<<HitOf(1, None, None, 9, 1)>>, <<HitOf(2, None, None, 1, 2), HitOf(2, 1, 0, 3, 0)>>}]
SomeQueries == {<<>>, <<"", "question", "synonym", "synonym">>, <<"b", "c", "d">>}
Cites(source, quoted) == [source |-> source, quoted |-> quoted]
SomeAnswers == {
  [answers |-> FALSE, spans |-> <<>>],
  [answers |-> TRUE, spans |-> <<Cites(<<1, "block", 1>>, <<1, "block", 1>>), Cites(<<2, "block", 1>>, <<1, "block", 1>>)>>],
  [answers |-> TRUE, spans |-> <<Cites(<<2, "block", 1>>, None), Cites(<<1, "at", 7>>, None)>>],
  [answers |-> TRUE, spans |-> <<Cites(<<2, "block", 1>>, <<2, "block", 1>>)>>],
  [answers |-> TRUE, spans |-> <<Cites(<<2, "block", 1>>, <<"across">>)>>],
  [answers |-> TRUE, spans |-> <<Cites(<<1, "block", 1>>, None), Cites(<<2, "text", 2>>, None), Cites(<<1, "at", 7>>, <<2, "block", 1>>)>>]}

\* Two roots, one of which has a child.
ThreeLabels == 1..3
SmallTree == <<None, 1, None>>
FarToNear == {-1, 1, 2}
ThreeTexts == <<2, 1, 1>>
SomePicks == {<<>>, <<3, 1>>, <<Failed, 2, 2>>}
SomeMembers == {<<"nli">>, <<"retrieval">>, <<"prototype">>, <<"multi_label">>, <<"nli", "zero_shot">>,
                <<"retrieval", "zero_shot">>, <<"multi_label", "prototype">>}

\* A question, and answers in other letters, of several labels or of none.
ThreeAnswers == <<"no", "yes", "YES">>
SomeReplies == {<<>>, <<"yes">>, <<"Yes", "no">>, <<"maybe", "YES", "no">>, <<"maybe">>}
SmallLetters == [l \in {"no", "yes", "YES", "Yes", "maybe"} |-> IF l \in {"YES", "Yes"} THEN "yes" ELSE l]

\* Steps that read the input, another step or a field that is not there.
PointerTo(source, name, part, field) == [source |-> source, name |-> name, part |-> part, field |-> field]
TheText == PointerTo("inputs", "text", None, None)
TheField(id, field) == PointerTo("steps", id, "output", field)
StepOf(id, kind, reads, type) ==
  [id |-> id, kind |-> kind, client |-> "main", reads |-> reads, fields |-> {"f"}, type |-> type]
TwoTypes == [plain |-> None, loop |-> "loop", lost |-> "nothing"]
SomeSteps == {
  StepOf("a", "call", <<TheText>>, None), StepOf("b", "call", <<TheField("a", "f")>>, "plain"),
  StepOf("b", "call", <<TheText, TheField("a", "g")>>, None), StepOf("a", "call", <<TheField("b", "f")>>, None),
  StepOf("a", "call", <<PointerTo("steps", "b", "output", None)>>, None),
  StepOf("a", "call", <<PointerTo("steps", "b", "trace", "f")>>, None),
  StepOf("b", "call", <<PointerTo("inputs", "other", None, None)>>, None),
  StepOf("b", "call", <<PointerTo("env", "text", None, None)>>, None),
  StepOf("a", "refine", <<TheText>>, None), StepOf("a", "call", <<>>, "loop"), StepOf("b", "call", <<>>, "lost"),
  StepOf("b", "call", <<>>, "unknown"), StepOf("forward", "call", <<TheText>>, None),
  StepOf("envelope", "call", <<>>, None), [StepOf("b", "call", <<>>, None) EXCEPT !.client = "other"]}
SomeCapabilities == {{"call", "refine"}, {"call"}, {"call", "shell"}}
SomeMappings == {<<>>, <<TheText, TheField("a", "f")>>, <<TheField("b", "f"), TheField("b", "g")>>}

\* Items with and without an id, and what is none.
EntryOf(form, id, text) == [form |-> form, id |-> id, text |-> text]
SomeEntries == {EntryOf("item", None, "a"), EntryOf("item", None, "b"), EntryOf("item", 1, "b"), EntryOf("blank", None, ""), EntryOf("broken", None, "")}
PagesFrom(from, to) == [from |-> from, to |-> to]
SomeRanges == {PagesFrom(-1, 2), PagesFrom(0, 1), PagesFrom(1, 9)}

\* Rubrics of both channels and of one, two of them refused by their validator.
Wants(column, op, value, weight) == [column |-> column, op |-> op, value |-> value, weight |-> weight]
RubricOf(criteria, guided, hard, soft) ==
  [criteria |-> criteria, guided |-> guided, hard |-> hard, soft |-> soft]
SomeRubrics == {
  RubricOf({Wants("a", "eq", {1}, 1), Wants("b", "falsy", {}, -1)}, TRUE, 1, 1),
  RubricOf({Wants("a", "lt", {1}, 1), Wants("doc_id", "neq", {1}, 1)}, FALSE, 2, 0),
  RubricOf({Wants("b", "not_in", {0}, -1)}, FALSE, 2, 0),
  RubricOf({Wants("a", "truthy", {}, 0)}, FALSE, 2, 0),
  RubricOf({}, TRUE, 0, 2), RubricOf({}, TRUE, 1, 1), RubricOf({}, FALSE, 0, 2)}

\* Equal weights, one metric alone, one that counts against, and two that are refused.
WeighingOf(f, p, r, a) ==
  [m \in {"faithfulness", "context_precision", "context_recall", "answer_relevancy"} |->
     CASE m = "faithfulness" -> f [] m = "context_precision" -> p [] m = "context_recall" -> r [] OTHER -> a]
SomeWeights == {WeighingOf(1, 1, 1, 1), WeighingOf(1, 0, 0, 0), WeighingOf(2, -1, 0, 1), WeighingOf(0, 0, 0, 0), [m \in {"faithfulness"} |-> 1]}

-----------------------------------------------------------------------------
Leaves == INSTANCE ChunkedLeaves WITH
  entries <- v1, doc <- v2, leaf <- v3, spent <- v4, partial <- v5
Chunker == INSTANCE Chunking WITH
  at <- v1, segments <- v2, chunks <- v3, open <- v4, MaxChars <- 4, MinChars <- 3,
  SegmentLengths <- {1, 2, 4, 9}, Gaps <- {0, 1}, MaxSegments <- 4
Reduces == INSTANCE Reducing WITH
  at <- v1, kind <- v2, depth <- v3, leaves <- v4, rest <- v5, groups <- v6, ended <- v7,
  level <- v8, paid <- v9, result <- v10,
  MaxLeaves <- 5, Branching <- 2, Depths <- {1, 2}, KRequests <- {0, 1, 3}
Focus == INSTANCE FocusedSummary WITH
  at <- v1, kind <- v2, top_k <- v3, cap <- v4, scores <- v5, picks <- v6, claims <- v7,
  spans <- v8, text <- v9, MaxSentences <- 3, SentenceScores <- {0, 1, 2},
  TopKs <- {1, 2}, CostCaps <- {None, 0, 1}, None <- None, ClaimChoices <- SomeClaims,
  RefuseBelow <- 50
Rags == INSTANCE Rag WITH
  at <- v1, options <- v2, retriever <- v3, asked <- v4, queries <- v5, hits <- v6,
  passages <- v7, outcomes <- v8, None <- None, Corpora <- {"units"}, Plain <- {"files"},
  HitChoices <- FoundIn, Expansions <- SomeQueries, MaxQueries <- 3, TopK <- 2,
  MaxContext <- 5, Ranks <- {0, 1}, Outcomes <- SomeAnswers, MaxRetries <- 1,
  MaxQuestions <- 2
Json == INSTANCE JsonCodec WITH
  at <- v1, text <- v2, intended <- v3, open <- v4, spoiled <- v5, sources <- v6,
  result <- v7, Fields <- {"a", "b"}, Required <- {"a"}, Keys <- {"a", "b", "c"},
  MaxLength <- 6, None <- None
Marked == INSTANCE MarkedCodecs WITH
  at <- v1, codec <- v2, example <- v3, inputs <- v4, messages <- v5, text <- v6,
  outputs <- v7, Fields <- {1, 2}, Required <- {1}, Listed <- {2}, Pieces <- {<<"word", 1>>},
  Separators <- <<<<"newline", 0>>, <<"comma", 0>>>>, MaxLength <- 5, MaxExamples <- 2,
  Inputs <- {"file", "question"}, None <- None
Checked == INSTANCE ClaimChecking WITH
  at <- v1, claims <- v2, confident <- v3, neutral_floor <- v4, judged <- v5,
  gated <- v6, scores <- v7, verdicts <- v8, cosines <- v9, opinions <- v10,
  None <- None, Claims <- {<<>>, <<"first">>, <<"first", "second">>},
  Scores <- {<<8, 1, 1>>, <<4, 4, 2>>, <<2, 4, 4>>, <<1, 2, 7>>, <<1, 8, 1>>},
  Cosines <- {3, 6}, Confidences <- {2, 8}, Thresholds <- {3, 5, 11}, Gate <- 5
Calibrating == INSTANCE Calibration WITH
  lines <- v1, at <- v2, questions <- v3, results <- v4, tally <- v5, spent <- v6,
  dry <- v7, table <- v8, None <- None,
  Lines <- {"blank", "broken", "answerable", "unanswerable"}, MaxLines <- 3,
  Confidences <- {2, 9}, Costs <- {1, 2}
Deals == INSTANCE DealReview WITH
  at <- v1, columns <- v2, rows <- v3, rubric <- v4, judged <- v5, ended <- v6,
  scores <- v7, None <- None, Text <- Letters, Documents <- 2,
  Designs <- {<<"a">>, <<"a", "b">>, <<"doc_id", "a">>}, Cells <- {None, 0, 1},
  Rubrics <- SomeRubrics, Judgements <- {0, 9}, Scale <- 4, Weights <- 2
Ragas == INSTANCE RagMetrics WITH
  prediction <- v1, gold <- v2, corpus <- v3, judge <- v4, weights <- v5, at <- v6,
  scores <- v7, composite <- v8, None <- None, Refs <- {"p", "q"},
  MaxRetrieved <- 2, Full <- 12, Scores <- {-1, 5, 13}, WeightSets <- SomeWeights

\* The slots behind the first n hold nothing.
NoneAfter(n) ==
  /\ IF n < 2 THEN v2 = None ELSE TRUE
  /\ IF n < 3 THEN v3 = None ELSE TRUE
  /\ IF n < 4 THEN v4 = None ELSE TRUE
  /\ IF n < 5 THEN v5 = None ELSE TRUE
  /\ IF n < 6 THEN v6 = None ELSE TRUE
  /\ IF n < 7 THEN v7 = None ELSE TRUE
  /\ IF n < 8 THEN v8 = None ELSE TRUE
  /\ IF n < 9 THEN v9 = None ELSE TRUE
  /\ IF n < 10 THEN v10 = None ELSE TRUE
  /\ IF n < 11 THEN v11 = None ELSE TRUE
  /\ IF n < 12 THEN v12 = None ELSE TRUE
StillNoneAfter(n) ==
  /\ IF n < 2 THEN UNCHANGED v2 ELSE TRUE
  /\ IF n < 3 THEN UNCHANGED v3 ELSE TRUE
  /\ IF n < 4 THEN UNCHANGED v4 ELSE TRUE
  /\ IF n < 5 THEN UNCHANGED v5 ELSE TRUE
  /\ IF n < 6 THEN UNCHANGED v6 ELSE TRUE
  /\ IF n < 7 THEN UNCHANGED v7 ELSE TRUE
  /\ IF n < 8 THEN UNCHANGED v8 ELSE TRUE
  /\ IF n < 9 THEN UNCHANGED v9 ELSE TRUE
  /\ IF n < 10 THEN UNCHANGED v10 ELSE TRUE
  /\ IF n < 11 THEN UNCHANGED v11 ELSE TRUE
  /\ IF n < 12 THEN UNCHANGED v12 ELSE TRUE

Init ==
  \/ which = "calls" /\ Calls!Init
  \/ which = "co_optimizer" /\ CoOpt!Init
  \/ which = "leaves" /\ Leaves!Init /\ NoneAfter(5)
  \/ which = "sampling" /\ Samples!Init /\ NoneAfter(5)
  \/ which = "refine" /\ Refine!Init /\ NoneAfter(5)
  \/ which = "react" /\ ReAct!Init
  \/ which = "grounding" /\ Ground!Init /\ NoneAfter(6)
  \/ which = "chunking" /\ Chunker!Init /\ NoneAfter(4)
  \/ which = "extraction" /\ Extracts!Init /\ NoneAfter(10)
  \/ which = "reducing" /\ Reduces!Init /\ NoneAfter(10)
  \/ which = "focused_summary" /\ Focus!Init /\ NoneAfter(9)
  \/ which = "rag" /\ Rags!Init /\ NoneAfter(8)
  \/ which = "joint_search" /\ Joint!Init
  \/ which = "random_search" /\ Draws!Init
  \/ which = "selection" /\ Selects!Init /\ NoneAfter(11)
  \/ which = "reflection" /\ Reflects!Init /\ NoneAfter(11)
  \/ which = "classifying" /\ Classify!Init /\ NoneAfter(8)
  \/ which = "json_codec" /\ Json!Init /\ NoneAfter(7)
  \/ which = "marked_codecs" /\ Marked!Init /\ NoneAfter(7)
  \/ which = "starter" /\ Start!Init /\ NoneAfter(5)
  \/ which = "tool_server" /\ Tools!Init /\ NoneAfter(8)
  \/ which = "program_of_thought" /\ Thought!Init /\ NoneAfter(9)
  \/ which = "claim_checking" /\ Checked!Init /\ NoneAfter(10)
  \/ which = "envelope" /\ Written!Init /\ NoneAfter(8)
  \/ which = "trial_log" /\ Trials!Init /\ NoneAfter(9)
  \/ which = "env_recorder" /\ Recorder!Init /\ NoneAfter(8)
  \/ which = "batch_sources" /\ Sources!Init /\ NoneAfter(10)
  \/ which = "calibration" /\ Calibrating!Init /\ NoneAfter(8)
  \/ which = "tool_schema" /\ Schemas!Init /\ NoneAfter(4)
  \/ which = "deal_review" /\ Deals!Init /\ NoneAfter(7)
  \/ which = "rag_metrics" /\ Ragas!Init /\ NoneAfter(8)
  \/ which = "corpus_extraction" /\ CorpusTable!Init /\ NoneAfter(6)
  \/ which = "batch_request" /\ OneBatch!Init

Next ==
  /\ UNCHANGED which
  /\ \/ which = "calls" /\ Calls!Next
     \/ which = "co_optimizer" /\ CoOpt!Next
     \/ which = "leaves" /\ Leaves!Next /\ StillNoneAfter(5)
     \/ which = "sampling" /\ Samples!Next /\ StillNoneAfter(5)
     \/ which = "refine" /\ Refine!Next /\ StillNoneAfter(5)
     \/ which = "react" /\ ReAct!Next
     \/ which = "grounding" /\ Ground!Next /\ StillNoneAfter(6)
     \/ which = "chunking" /\ Chunker!Next /\ StillNoneAfter(4)
     \/ which = "extraction" /\ Extracts!Next /\ StillNoneAfter(10)
     \/ which = "reducing" /\ Reduces!Next /\ StillNoneAfter(10)
     \/ which = "focused_summary" /\ Focus!Next /\ StillNoneAfter(9)
     \/ which = "rag" /\ Rags!Next /\ StillNoneAfter(8)
     \/ which = "joint_search" /\ Joint!Next
     \/ which = "random_search" /\ Draws!Next
     \/ which = "selection" /\ Selects!Next /\ StillNoneAfter(11)
     \/ which = "reflection" /\ Reflects!Next /\ StillNoneAfter(11)
     \/ which = "classifying" /\ Classify!Next /\ StillNoneAfter(8)
     \/ which = "json_codec" /\ Json!Next /\ StillNoneAfter(7)
     \/ which = "marked_codecs" /\ Marked!Next /\ StillNoneAfter(7)
     \/ which = "starter" /\ Start!Next /\ StillNoneAfter(5)
     \/ which = "tool_server" /\ Tools!Next /\ StillNoneAfter(8)
     \/ which = "program_of_thought" /\ Thought!Next /\ StillNoneAfter(9)
     \/ which = "claim_checking" /\ Checked!Next /\ StillNoneAfter(10)
     \/ which = "envelope" /\ Written!Next /\ StillNoneAfter(8)
     \/ which = "trial_log" /\ Trials!Next /\ StillNoneAfter(9)
     \/ which = "env_recorder" /\ Recorder!Next /\ StillNoneAfter(8)
     \/ which = "batch_sources" /\ Sources!Next /\ StillNoneAfter(10)
     \/ which = "calibration" /\ Calibrating!Next /\ StillNoneAfter(8)
     \/ which = "tool_schema" /\ Schemas!Next /\ StillNoneAfter(4)
     \/ which = "deal_review" /\ Deals!Next /\ StillNoneAfter(7)
     \/ which = "rag_metrics" /\ Ragas!Next /\ StillNoneAfter(8)
     \/ which = "corpus_extraction" /\ CorpusTable!Next /\ StillNoneAfter(6)
     \/ which = "batch_request" /\ OneBatch!Next

vars == <<which, v1, v2, v3, v4, v5, v6, v7, v8, v9, v10, v11, v12>>
Spec == Init /\ [][Next]_vars

-----------------------------------------------------------------------------
(* Properties: those of the components, each for the states that are its own *)

\* Every component's variables have their types.
TypeOK ==
  CASE which = "calls" -> Calls!TypeOK
    [] which = "co_optimizer" -> CoOpt!TypeOK
    [] which = "leaves" -> Leaves!TypeOK
    [] which = "sampling" -> Samples!TypeOK
    [] which = "refine" -> Refine!TypeOK
    [] which = "react" -> ReAct!TypeOK
    [] which = "grounding" -> Ground!TypeOK
    [] which = "chunking" -> Chunker!TypeOK
    [] which = "extraction" -> Extracts!TypeOK
    [] which = "reducing" -> Reduces!TypeOK
    [] which = "focused_summary" -> Focus!TypeOK
    [] which = "rag" -> Rags!TypeOK
    [] which = "joint_search" -> Joint!TypeOK
    [] which = "random_search" -> Draws!TypeOK
    [] which = "selection" -> Selects!TypeOK
    [] which = "reflection" -> Reflects!TypeOK
    [] which = "classifying" -> Classify!TypeOK
    [] which = "json_codec" -> Json!TypeOK
    [] which = "marked_codecs" -> Marked!TypeOK
    [] which = "starter" -> Start!TypeOK
    [] which = "tool_server" -> Tools!TypeOK
    [] which = "program_of_thought" -> Thought!TypeOK
    [] which = "claim_checking" -> Checked!TypeOK
    [] which = "envelope" -> Written!TypeOK
    [] which = "trial_log" -> Trials!TypeOK
    [] which = "env_recorder" -> Recorder!TypeOK
    [] which = "batch_sources" -> Sources!TypeOK
    [] which = "calibration" -> Calibrating!TypeOK
    [] which = "tool_schema" -> Schemas!TypeOK
    [] which = "deal_review" -> Deals!TypeOK
    [] which = "rag_metrics" -> Ragas!TypeOK
    [] which = "corpus_extraction" -> CorpusTable!TypeOK
    [] which = "batch_request" -> OneBatch!TypeOK

\* What the calls of an evaluation spend is charged once to the trial, comes to
\* the tracker unless a program gathers strictly, and adds up to the usage of
\* the program (call.py _run_pipeline, trial_runner.py, base.py Program.invoke).
SpendIsCharged ==
  which = "calls" => Calls!ChargedOnce /\ Calls!TrackerSeesAll /\ Calls!PlainRollupExact

\* A budget is one for all the stages of the composite optimizer
\* (co_optimizer.py, budget.py), and MIPRO and MIPRO lite say truly why they
\* stopped and what the budget left out (mipro_v2.py, mipro_lite.py).
BudgetIsKept ==
  CASE which = "co_optimizer" -> CoOpt!TrialsBounded
    [] which = "joint_search" -> Joint!StopReasonIsTrue
    [] which = "random_search" -> Draws!OmissionIsReported
    [] OTHER -> TRUE

\* No stage begins once the budget is used up (co_optimizer.py).
NoStageAfterExhaustion ==
  [][which = "co_optimizer" /\ CoOpt!InStage' /\ v3' # v3
     => ~CoOpt!ExhaustedAt(v9', v10')]_vars

\* An optimizer that returns leaves on the program the best that it measured, or
\* what was there before.  One that raises leaves what was there before (the two
\* searches, mipro_v2.py and mipro_lite.py, and model_optimizer.py), or the best
\* so far or the one variant whose own evaluation raised (the stages,
\* bootstrap.py, instruction.py and hyperparameter.py, and reflective.py), or
\* the best codec so far (codec_optimizer.py).
\* The frontier of pareto.py is the best of its trials.
BestIsKept ==
  CASE which = "co_optimizer" -> CoOpt!StageKeepsBest
    [] which = "joint_search" -> Joint!SearchKeepsBest
    [] which = "random_search" -> Draws!DrawKeepsBest
    [] which = "selection" -> Selects!SelectionIsBest /\ Selects!FrontierIsOptimal
    [] which = "reflection" -> Reflects!ReflectionKeepsBest
    [] OTHER -> TRUE

\* A program that tries several times returns the best of what came back, and
\* nothing before it was as good: BestOfN and Ensemble among the samples that
\* did not fail, by their scores and votes, Refine among all iterations,
\* Grounded among the attempts by their errors (best_of_n.py, ensemble.py,
\* refine.py, grounded.py).
BestIsReturned ==
  CASE which = "sampling" -> Samples!SelectedIsBest
    [] which = "refine" -> Refine!ReturnsBest
    [] which = "grounding" -> Ground!ReturnsBestAttempt
    [] OTHER -> TRUE

\* ReAct shows the model a result for each of its tool calls, and what it
\* returns accounts for every answer and says how it ended (react.py).
AnswersAreAccountedFor ==
  which = "react" => ReAct!EveryCallHasItsResult /\ ReAct!ResultIsWhole

\* A long input is worked through without a gap: chunks tile the text
\* (chunk_retry.py), a budgeted document is covered from its beginning and its
\* cache never answers for another (long_doc.py, classify/chunked.py,
\* cache/chunk.py), and the reducers lose no summary (composition/reduce.py).
NothingIsLeftOut ==
  CASE which = "leaves" -> Leaves!CoversPrefix /\ Leaves!CacheIsAMap
    [] which = "chunking" -> Chunker!ChunksTile
    [] which = "reducing" -> Reduces!ReduceKeepsAll
    [] OTHER -> TRUE

\* A table row holds what the document or a chunk of it gave and says which;
\* what the retry pays goes over its budget by less than a chunk and by the
\* chunks that failed; and a corpus that is resumed after a crash has one row for
\* each document that succeeded (extract.py, merge.py, chunk_retry.py).
ExtractionIsHonest ==
  CASE which = "extraction" -> Extracts!ExtractionIsHonest
    [] which = "corpus_extraction" -> CorpusTable!TableCountsDocuments
    [] OTHER -> TRUE

\* What is said to be verified was: quotes against the documents (grounding.py),
\* claims of a summary against the chosen sentences (programs/summarize), an
\* answer against the passages it was shown, best first (rag.py), and a judge
\* speaks only of the claims in doubt (programs/classify/nli.py).
CitationsAreReal ==
  CASE which = "grounding" -> Ground!QuotesAreReal
    [] which = "focused_summary" -> Focus!FocusIsVerified
    [] which = "rag" -> Rags!AnswerIsAccountedFor /\ Rags!RankedByBestScore
    [] which = "claim_checking" -> Checked!VerdictsAreAccountedFor
    [] OTHER -> TRUE

\* A classification names declared labels that a member gave, walks a hierarchy
\* from parent to child, and abstains only where it may (programs/classify,
\* composition/aggregate.py).
LabelsAreDeclared ==
  which = "classifying" => Classify!LabelsAreDeclared /\ Classify!PathsDescend

\* What a codec repairs or cuts out of an answer is what the model meant, from
\* one source, and each input reaches the model once (codecs).
CodecsAreFaithful ==
  CASE which = "json_codec" -> Json!RepairsAreFaithful /\ Json!CompleteSourceIsUsed
    [] which = "marked_codecs" -> Marked!EachInputOnce /\ Marked!ValuesAreQuoted
    [] OTHER -> TRUE

\* What runs is what was asked for: refused requests cost nothing
\* (integrations/mcp), code runs only when it was allowed and shown
\* (program_of_thought.py), an envelope asks its steps as they are written
\* (programs/envelope), the one-line functions pass a budget on (starter.py),
\* and a tool binds what its schema accepts but for three signatures (tool.py).
NothingRunsUnasked ==
  CASE which = "tool_server" -> Tools!RefusedIsFree
    [] which = "program_of_thought" -> Thought!NothingRunsUnasked
    [] which = "envelope" -> Written!EnvelopeRunsAsWritten
    [] which = "starter" -> Start!StarterKeepsItsWord
    [] which = "tool_schema" -> Schemas!SchemaCallsBind
    [] OTHER -> TRUE

\* Figures mean what their names say: the rates and cost of a calibration
\* (calibration), the score of a deal by its rubric (scoring.py, deal_review.py)
\* and the retrieval metrics of a prediction together (metrics/retrieval.py).
ScoresMeanTheirWords ==
  CASE which = "calibration" -> Calibrating!ReportTellsTheResults
    [] which = "deal_review" -> Deals!ScoresFollowTheRubric
    [] which = "rag_metrics" -> Ragas!ScoresMeanTheirWords
    [] OTHER -> TRUE

\* What is read back from a file happened: nearly all of a mutation log
\* (mutations.py, analysis.py), and the line of a call in the recorder's file,
\* whole (env_recorder.py).
RecordsAreTrue ==
  CASE which = "trial_log" -> Trials!LogTellsTheRuns
    [] which = "env_recorder" -> Recorder!LinesAreWhole
    [] OTHER -> TRUE

\* What batch-create expects, batch-run counts and batch-status and
\* batch-results say of one batch agree, through failed runs, resumed ones and
\* reruns of what completed (integrations/mcp/batch_*.py), and an id means the
\* same inputs when the source is read again (batch/sources.py,
\* batch_bridges.py).
RequestsAgree ==
  CASE which = "batch_request" -> OneBatch!RequestsAgree
    [] which = "batch_sources" -> Sources!IdsMeanTheirInputs
    [] OTHER -> TRUE
=============================================================================
