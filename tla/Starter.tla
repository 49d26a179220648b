-------------------------------- MODULE Starter -------------------------------
(***************************************************************************)
(* The one-line functions of starter.py: each resolves the model, chooses  *)
(* a program and its arguments, runs it and shapes what it returns.  What  *)
(* the programs answer is chosen; they are modelled on their own.  A text  *)
(* is "short" or "long" (_LONG_DOC_CHAR_THRESHOLD).                        *)
(***************************************************************************)
EXTENDS Integers, Sequences, FiniteSets, Functions

CONSTANTS
  None,
  Labels,   \* of a request to classify, a sequence
  Folded,   \* [label or answer -> it in lower case]
  Answers   \* the lists of labels that a model may choose

VARIABLES
  at,       \* "called", "running", "returned" or "raised"
  request,
  route,    \* the program, whether it calls several times, what it was given
  paid,     \* the model was asked
  result

vars == <<at, request, route, paid, result>>

-----------------------------------------------------------------------------
Facade == {"text", "extract", "classify", "classify_multi", "summarize", "summarize_doc", "classify_doc"}
Supervisions == {"zero_shot", "few_shot", "prototype", "retrieval", "nli"}
Strategies(f) ==
  CASE f = "summarize_doc" -> {"auto", "single", "tree", "refine"}
    [] f = "classify_doc" -> {"auto", "single", "chunk"}
    [] OTHER -> {"single"}

\* What the caller gives besides the text: names of arguments.
Arguments(f) ==
  CASE f = "summarize_doc" -> {"model", "query", "embedder", "cited", "budget"}
    [] f = "classify_doc" -> {"model", "labels", "examples", "embedder", "corpus", "nli_scorer", "budget"}
    [] f \in {"classify", "classify_multi"} -> {"model", "labels"}
    [] OTHER -> {"model"}
Requests ==
  UNION {[function : {f}, size : {"short", "long"}, strategy : Strategies(f), given : SUBSET Arguments(f),
          supervision : IF f = "classify_doc" THEN Supervisions ELSE {None},
          default_model : BOOLEAN, caller : {"async", "sync", "sync_in_loop"}] : f \in Facade}
Given(argument) == argument \in request.given

\* _resolve_default_model: the caller's, or the one of the settings.
ModelResolves == Given("model") \/ request.default_model
NeedsModel ==
  request.function = "classify_doc" => request.supervision \in {"zero_shot", "few_shot"}

\* The arguments that a way of answering cannot do without.
Needed ==
  (IF request.function \in {"classify", "classify_multi", "classify_doc"} THEN {"labels"} ELSE {})
    \union (IF request.function = "summarize_doc" /\ Given("query") THEN {"embedder"} ELSE {})
    \union (CASE request.supervision = "few_shot" -> {"examples"}
              [] request.supervision = "prototype" -> {"embedder"}
              [] request.supervision = "retrieval" -> {"embedder", "corpus"}
              [] request.supervision = "nli" -> {"nli_scorer"}
              [] OTHER -> {})
Refused == (NeedsModel /\ ~ModelResolves) \/ ~(Needed \subseteq request.given)

\* The strategy of a document: as asked, or after its size.
LongSummary == IF request.strategy # "auto" THEN request.strategy
               ELSE IF request.size = "short" THEN "single" ELSE "tree"
LongClassify == IF request.strategy # "auto" THEN request.strategy
                ELSE IF request.size = "short" THEN "single" ELSE "chunk"

Route(program, several, arguments) ==
  [program |-> program, several |-> several, arguments |-> arguments \intersect request.given]
\* A bug: the chunk loop is not given the budget.
SummaryRouteUnbudgeted ==
  IF Given("query") THEN Route("query_focused", FALSE, {"cited", "budget"})
  ELSE IF LongSummary = "single" THEN Route(IF Given("cited") THEN "cited" ELSE "abstractive", FALSE, {})
  ELSE Route(LongSummary, TRUE, {})
SummaryRoute ==
  IF Given("query") THEN Route("query_focused", FALSE, {"cited", "budget"})
  ELSE IF LongSummary = "single" THEN Route(IF Given("cited") THEN "cited" ELSE "abstractive", FALSE, {})
  ELSE Route(LongSummary, TRUE, {"budget"})
ClassifyRoute ==
  IF LongClassify = "single" THEN Route(request.supervision, FALSE, {})
  ELSE Route("chunk", TRUE, {"budget"})

-----------------------------------------------------------------------------
Init ==
  /\ at = "called"
  /\ request \in Requests
  /\ route = None
  /\ paid = FALSE
  /\ result = None

\* A _sync function is asyncio.run, which a running loop refuses.
SyncRefused ==
  /\ at = "called" /\ request.caller = "sync_in_loop"
  /\ at' = "raised"
  /\ UNCHANGED <<request, route, paid, result>>
Refuse ==
  /\ at = "called" /\ request.caller # "sync_in_loop"
  /\ Refused
  /\ at' = "raised"
  /\ UNCHANGED <<request, route, paid, result>>
Run ==
  /\ at = "called" /\ request.caller # "sync_in_loop"
  /\ ~Refused
  /\ route' = CASE request.function = "summarize_doc" -> SummaryRoute
                [] request.function = "classify_doc" -> ClassifyRoute
                [] OTHER -> Route("call", FALSE, {})
  /\ at' = "running"
  /\ paid' = NeedsModel
  /\ UNCHANGED <<request, result>>

Return(value) == result' = value /\ at' = "returned"
Raise == at' = "raised" /\ UNCHANGED result

\* classify: the label as the model wrote it, or the last one that differs in
\* case only.  A bug: what the model chose.
AnyLabel(answer) == {answer}
LabelOf(answer) ==
  IF answer \in Range(Labels) THEN {answer}
  ELSE LET same == {k \in DOMAIN Labels : Folded[Labels[k]] = Folded[answer]}
       IN {Labels[k] : k \in {k \in same : \A j \in same : j <= k}}
OneLabel ==
  /\ at = "running" /\ request.function = "classify"
  /\ \E answers \in Answers \ {<<>>} :
       IF LabelOf(Head(answers)) # {} THEN \E l \in LabelOf(Head(answers)) : Return(<<l>>) ELSE Raise
  /\ UNCHANGED <<request, route, paid>>

\* The members of a list that are labels, in its order.
Places(list) == {k \in DOMAIN list : list[k] \in Range(Labels)}
Orders(places) ==
  {order \in [1..Cardinality(places) -> places] : \A i, j \in DOMAIN order : i < j => order[i] < order[j]}
Filtered(list) == {[k \in DOMAIN order |-> list[order[k]]] : order \in Orders(Places(list))}

\* multi_label: those of the chosen that are labels, as the model wrote them.
ManyLabels ==
  /\ at = "running" /\ request.function = "classify_multi"
  /\ \E answers \in Answers : \E filtered \in Filtered(answers) :
       IF filtered # <<>> THEN Return(filtered) ELSE Raise
  /\ UNCHANGED <<request, route, paid>>
Answered ==
  /\ at = "running" /\ request.function \notin {"classify", "classify_multi"}
  /\ Return(route)
  /\ UNCHANGED <<request, route, paid>>
ProgramRaises ==
  /\ at = "running"
  /\ Raise
  /\ UNCHANGED <<request, route, paid>>

Next == SyncRefused \/ Refuse \/ Run \/ OneLabel \/ ManyLabels \/ Answered \/ ProgramRaises

Spec == Init /\ [][Next]_vars

-----------------------------------------------------------------------------
TypeOK ==
  /\ at \in {"called", "running", "returned", "raised"}
  /\ request.function \in Facade
  /\ request.given \subseteq Arguments(request.function)
  /\ paid \in BOOLEAN

\* Labels that are returned are labels of the request; a budget reaches every
\* program that asks a model more than once; a long text is not answered in one
\* call unless that was asked for, or a query was; and nobody pays for a
\* request that is refused.
StarterKeepsItsWord ==
  /\ at = "returned" /\ request.function \in {"classify", "classify_multi"} =>
       result # <<>> /\ Range(result) \subseteq Range(Labels)
  /\ route # None /\ route.several /\ Given("budget") => "budget" \in route.arguments
  /\ route # None /\ request.size = "long" /\ ~route.several =>
       request.strategy = "single" \/ Given("query")
  /\ at = "raised" /\ route = None => ~paid

-----------------------------------------------------------------------------
(* Why the word is kept: the inductive invariant *)

\* What a function may route to.
RoutedPrograms == {"call", "query_focused", "cited", "abstractive", "chunk"}
                    \union Strategies("summarize_doc") \union Supervisions
Routes ==
  [program : RoutedPrograms, several : BOOLEAN, arguments : SUBSET UNION {Arguments(f) : f \in Facade}]

\* A route is given when the program runs, and nobody has paid without one.
RouteBeforePay ==
  /\ request \in Requests
  /\ at = "called" => route = None /\ ~paid
  /\ at \in {"running", "returned"} => route \in Routes
  /\ route # None => route \in Routes
  /\ StarterKeepsItsWord
=============================================================================
