------------------------------ MODULE ToolServer -----------------------------
(***************************************************************************)
(* The MCP tools (integrations/mcp, without the batch tools).  A handler   *)
(* goes through its steps in order: it reads parameters, refuses what it   *)
(* finds wrong, asks models, and may read, run or write something.  What   *)
(* is wrong with a request is chosen; a file of the VFS changes whenever   *)
(* its owner writes it.  BaseLLMCoreTool.execute answers every exception.  *)
(***************************************************************************)
EXTENDS Integers, Sequences, FiniteSets, Functions

CONSTANTS
  None,
  MaxWrong,     \* how much may be wrong with one request
  MaxResults,   \* ALPHA_MAX_RESULTS
  MaxFound

VARIABLES
  at,       \* "received", "handling" or "answered"
  tool,
  wrong,    \* what is wrong with the request
  steps,    \* what the handler still has to do
  done,     \* the effects so far
  file,     \* what the path of the request holds: "valid", "invalid" or "missing"
  taken,    \* what the handler read of it
  result    \* [kind, has_more, size], or None

vars == <<at, tool, wrong, steps, done, file, taken, result>>

-----------------------------------------------------------------------------
(* Steps.  A parameter that is taken raises if it is wrong, one that is     *)
(* needed is refused.                                                       *)

Takes(name) == [does |-> "takes", of |-> name]
Needs(name) == [does |-> "needs", of |-> name]
Asks(model) == [does |-> "asks", of |-> model]
Runs(what) == [does |-> "runs", of |-> what]
Reads(what) == [does |-> "reads", of |-> what]
Writes(what) == [does |-> "writes", of |-> what]
Effects == {"asks", "runs", "writes"}

\* _resolve_metric_by_name and _build_eval_dataset
Metric == Needs("metric_name")
Dataset == Needs("examples")

\* The handlers
CallTool == <<Takes("output_fields"), Needs("model"), Asks("model")>>
ReasonTool == <<Takes("output_fields"), Needs("model"), Asks("model")>>
ClassifyTool == <<Needs("text"), Needs("labels"), Takes("budget"), Takes("model"), Asks("classifier")>>
SummarizeTool == <<Needs("text"), Takes("budget"), Takes("model"), Asks("summarizer")>>
JudgeTool == <<Takes("criteria"), Asks("judge")>>
MetricTool == <<Needs("prediction")>>
JudgedMetricTool == <<Needs("prediction"), Needs("judge_model"), Asks("judge")>>
UnknownMetricTool == <<Needs("prediction"), Needs("metric_name")>>
EnsembleTool == <<Takes("models"), Needs("models"), Takes("output_fields"), Asks("models")>>
BestOfNTool == <<Needs("parameters"), Needs("n"), Asks("producer")>>
JudgedBestOfNTool == <<Needs("parameters"), Needs("n"), Needs("judge_criteria"), Asks("producer"), Asks("judge")>>
RefineTool == <<Needs("parameters"), Takes("max_iterations"), Asks("producer"), Asks("judge")>>
ReActTool == <<Needs("parameters"), Takes("max_iterations"), Needs("tool_specs"), Asks("model")>>
EvaluateTool == <<Takes("examples_json"), Dataset, Asks("model")>>
OptimizeTool == <<Takes("examples_json"), Dataset, Asks("model")>>
OptimizeModelTool == <<Takes("models"), Needs("models"), Metric, Dataset, Takes("min_score"), Asks("models")>>
OptimizeCodecTool == <<Metric, Dataset, Needs("codecs"), Takes("model"), Asks("model")>>
ParetoTool == <<Takes("models"), Needs("models"), Metric, Dataset, Asks("models")>>
RecipeTool == <<Metric, Dataset, Needs("model"), Asks("model")>>
CostAwareRecipeTool == <<Metric, Dataset, Takes("models"), Needs("models"), Takes("min_score"), Asks("models")>>
MiproTool == <<Takes("parameters"), Needs("train_set"), Needs("val_set"), Needs("examples"), Metric, Asks("model")>>
CostReportTool == <<Needs("trace_json"), Takes("trace")>>
AnalyzeTool == <<Needs("mutation_log_path"), Reads("log")>>
AlphaTool == <<Needs("text")>>
VisionTool == <<Needs("image"), Asks("vision_model")>>
LoadTool == <<Needs("mode"), Needs("path"), Reads("envelope")>>
RoundTripTool == <<Needs("mode"), Needs("path"), Reads("envelope"), Writes("copy")>>
ExecuteTool == <<Needs("envelope"), Reads("envelope"), Asks("program")>>
ExecuteInlineTool == <<Needs("envelope"), Needs("program"), Asks("inline_program")>>

\* A bug: the settings are asked for consent after the code has run.
ThoughtToolUnasked ==
  <<Needs("parameters"), Needs("consent"), Takes("limits"), Asks("writer"), Runs("code"), Needs("gate"), Asks("interpreter")>>
ThoughtTool ==
  <<Needs("parameters"), Needs("consent"), Needs("gate"), Takes("limits"), Asks("writer"), Runs("code"), Asks("interpreter")>>

\* register_llm_core_tools
Handlers ==
  [call |-> CallTool, reason |-> ReasonTool, classify |-> ClassifyTool, summarize |-> SummarizeTool,
   judge |-> JudgeTool, metric |-> MetricTool, judged_metric |-> JudgedMetricTool,
   unknown_metric |-> UnknownMetricTool, ensemble |-> EnsembleTool, best_of_n |-> BestOfNTool,
   judged_best_of_n |-> JudgedBestOfNTool,
   refine |-> RefineTool, react |-> ReActTool, evaluate |-> EvaluateTool, optimize |-> OptimizeTool,
   optimize_model |-> OptimizeModelTool, optimize_codec |-> OptimizeCodecTool, pareto |-> ParetoTool,
   recipe |-> RecipeTool, cost_aware_recipe |-> CostAwareRecipeTool,
   mipro |-> MiproTool, cost_report |-> CostReportTool, analyze |-> AnalyzeTool,
   alpha |-> AlphaTool, vision |-> VisionTool, load |-> LoadTool, round_trip |-> RoundTripTool,
   execute |-> ExecuteTool, execute_inline |-> ExecuteInlineTool,
   thought |-> ThoughtTool]
Wrongs(t) == {Handlers[t][k].of : k \in {i \in DOMAIN Handlers[t] : Handlers[t][i].does \in {"takes", "needs"}}}

-----------------------------------------------------------------------------
Init ==
  /\ at = "received"
  /\ tool \in DOMAIN Handlers
  /\ wrong \in {w \in SUBSET Wrongs(tool) : Cardinality(w) <= MaxWrong}
  /\ steps = Handlers[tool]
  /\ done = <<>>
  /\ file \in {"valid", "invalid", "missing"}
  /\ taken = None
  /\ result = None

Result(kind) == [kind |-> kind, size |-> 0, has_more |-> FALSE]
Answer(r) == result' = r /\ at' = "answered"

Step(kinds) == at = "handling" /\ steps # <<>> /\ Head(steps).does \in kinds
Go == steps' = Tail(steps) /\ UNCHANGED <<at, tool, wrong, file, result>>

Begin ==
  /\ at = "received"
  /\ at' = "handling"
  /\ UNCHANGED <<tool, wrong, steps, done, file, taken, result>>
Accept ==
  /\ Step({"takes", "needs"}) /\ Head(steps).of \notin wrong
  /\ Go
  /\ UNCHANGED <<done, taken>>

\* What is refused, or raises and is caught by execute, is answered as an error.
Refuse ==
  /\ Step({"takes", "needs"}) /\ Head(steps).of \in wrong
  /\ Answer(Result("refused"))
  /\ UNCHANGED <<tool, wrong, steps, done, file, taken>>
Read ==
  /\ Step({"reads"})
  /\ taken' = file
  /\ IF file = "valid" THEN Go ELSE Answer(Result("refused")) /\ UNCHANGED <<tool, wrong, steps, file>>
  /\ UNCHANGED done
Effect ==
  /\ Step(Effects)
  /\ done' = Append(done, Head(steps))
  /\ Go
  /\ UNCHANGED taken
Fails ==
  /\ Step(Effects)
  /\ Answer(Result("failed"))
  /\ UNCHANGED <<tool, wrong, steps, done, file, taken>>

\* The spans that were found, as many as the answer may hold.
\* A bug: the spans are cut without saying so.
CutSilently(found) ==
  [kind |-> "success", size |-> IF found > MaxResults THEN MaxResults ELSE found, has_more |-> FALSE]
Cut(found) ==
  [kind |-> "success", size |-> IF found > MaxResults THEN MaxResults ELSE found, has_more |-> found >= MaxResults]
Succeed ==
  /\ at = "handling" /\ steps = <<>>
  /\ IF tool = "alpha" THEN \E found \in 0..MaxFound : Answer(Cut(found)) ELSE Answer(Result("success"))
  /\ UNCHANGED <<tool, wrong, steps, done, file, taken>>

\* Somebody else writes the file.
FileChanges ==
  /\ at # "answered"
  /\ \E f \in {"valid", "invalid", "missing"} \ {file} : file' = f
  /\ UNCHANGED <<at, tool, wrong, steps, done, taken, result>>

Next == Begin \/ Accept \/ Refuse \/ Read \/ Effect \/ Fails \/ Succeed \/ FileChanges

Spec == Init /\ [][Next]_vars

-----------------------------------------------------------------------------
TypeOK ==
  /\ at \in {"received", "handling", "answered"}
  /\ tool \in DOMAIN Handlers
  /\ wrong \subseteq Wrongs(tool)
  /\ file \in {"valid", "invalid", "missing"} /\ taken \in {"valid", "invalid", "missing", None}
  /\ at = "answered" => result.kind \in {"refused", "failed", "success"} /\ result.size <= MaxResults

\* A request that is refused has cost nothing, run nothing and left nothing
\* behind; code runs only with the consent of the caller and of the server; a
\* program is asked only if it was valid when it was read, whatever its file
\* became; success means that nothing was wrong and every model was asked, in the
\* order of the handler, which does so last; and an answer that was cut says so.
EffectsOf(handler) == {k \in DOMAIN handler : handler[k].does \in Effects}
RefusedIsFree ==
  /\ at = "answered" /\ result.kind = "refused" => done = <<>>
  /\ Runs("code") \in Range(done) => {"consent", "gate"} \intersect wrong = {}
  /\ Asks("program") \in Range(done) \/ Writes("copy") \in Range(done) => taken = "valid"
  /\ at = "answered" /\ result.kind = "success" =>
       /\ wrong = {}
       /\ \E first \in 1..(Len(Handlers[tool]) + 1) :
            /\ EffectsOf(Handlers[tool]) = first..Len(Handlers[tool])
            /\ done = SubSeq(Handlers[tool], first, Len(Handlers[tool]))
       /\ tool = "alpha" /\ ~result.has_more => result.size < MaxResults

-----------------------------------------------------------------------------
(* Why what is refused is free: the inductive invariant *)

Behind == Len(Handlers[tool]) - Len(steps)

\* The handler has gone through its first steps and what is left of it is the
\* rest; what it took or needed so far was not wrong, what it read was valid;
\* and its effects, which come last, are those that are behind.
HandledInOrder ==
  LET handler == Handlers[tool] IN
  /\ at \in {"received", "handling", "answered"}
  /\ tool \in DOMAIN Handlers /\ wrong \subseteq Wrongs(tool)
  /\ Behind \in 0..Len(handler)
  /\ steps = SubSeq(handler, Behind + 1, Len(handler))
  /\ \A k \in 1..Behind : handler[k].does \in {"takes", "needs"} => handler[k].of \notin wrong
  /\ at # "answered" => \A k \in 1..Behind : handler[k].does = "reads" => taken = "valid"
  /\ \E first \in 1..(Len(handler) + 1) :
       /\ EffectsOf(handler) = first..Len(handler)
       /\ done = SubSeq(handler, first, Behind)
  /\ RefusedIsFree
=============================================================================
