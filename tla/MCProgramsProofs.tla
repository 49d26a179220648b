--------------------------- MODULE MCProgramsProofs -------------------------
(***************************************************************************)
(* What the runs of MCPrograms check of the proved components, as theorems *)
(* about its own specification.  A behaviour of MCPrograms is one of the   *)
(* component "which" names, so the component's inductive invariant is one  *)
(* of MCPrograms too.                                                      *)
(***************************************************************************)
EXTENDS MCPrograms, ProgramSlotsProofs, OptimizerSlotsProofs

-----------------------------------------------------------------------------
(* A component is alone: its specification is that of MCPrograms            *)

LEMMA CallsAlone ==
  /\ Init /\ which = "calls" => Calls!Init
  /\ which = "calls" /\ [Next]_vars => [Calls!Next]_(Calls!vars)
<1>1. which = "calls" /\ Next => Calls!Next
  BY DEF Next
<1>2. UNCHANGED vars => UNCHANGED Calls!vars
  BY DEF vars, Calls!vars, Calls!scopes, Calls!calls
<1> QED BY <1>1, <1>2 DEF Init

LEMMA CoOptAlone ==
  /\ Init /\ which = "co_optimizer" => CoOpt!Init
  /\ which = "co_optimizer" /\ [Next]_vars => [CoOpt!Next]_(CoOpt!vars)
<1>1. which = "co_optimizer" /\ Next => CoOpt!Next
  BY DEF Next
<1>2. UNCHANGED vars => UNCHANGED CoOpt!vars
  BY DEF vars, CoOpt!vars, CoOpt!arguments, CoOpt!stageVars
<1> QED BY <1>1, <1>2 DEF Init

LEMMA ReActAlone ==
  /\ Init /\ which = "react" => ReAct!Init
  /\ which = "react" /\ [Next]_vars => [ReAct!Next]_(ReAct!vars)
<1>1. which = "react" /\ Next => ReAct!Next
  BY DEF Next
<1>2. UNCHANGED vars => UNCHANGED ReAct!vars
  BY DEF vars, ReAct!vars
<1> QED BY <1>1, <1>2 DEF Init

LEMMA SamplesAlone ==
  /\ Init /\ which = "sampling" => Samples!Init
  /\ which = "sampling" /\ [Next]_vars => [Samples!Next]_(Samples!vars)
<1>1. which = "sampling" /\ Next => Samples!Next
  BY DEF Next
<1>2. UNCHANGED vars => UNCHANGED Samples!vars
  BY DEF vars, Samples!vars
<1> QED BY <1>1, <1>2 DEF Init

LEMMA RefineAlone ==
  /\ Init /\ which = "refine" => Refine!Init
  /\ which = "refine" /\ [Next]_vars => [Refine!Next]_(Refine!vars)
<1>1. which = "refine" /\ Next => Refine!Next
  BY DEF Next
<1>2. UNCHANGED vars => UNCHANGED Refine!vars
  BY DEF vars, Refine!vars
<1> QED BY <1>1, <1>2 DEF Init

LEMMA GroundAlone ==
  /\ Init /\ which = "grounding" => Ground!Init
  /\ which = "grounding" /\ [Next]_vars => [Ground!Next]_(Ground!vars)
<1>1. which = "grounding" /\ Next => Ground!Next
  BY DEF Next
<1>2. UNCHANGED vars => UNCHANGED Ground!vars
  BY DEF vars, Ground!vars, Ground!arguments
<1> QED BY <1>1, <1>2 DEF Init

LEMMA JointAlone ==
  /\ Init /\ which = "joint_search" => Joint!Init
  /\ which = "joint_search" /\ [Next]_vars => [Joint!Next]_(Joint!vars)
<1>1. which = "joint_search" /\ Next => Joint!Next
  BY DEF Next
<1>2. UNCHANGED vars => UNCHANGED Joint!vars
  BY DEF vars, Joint!vars, Joint!sampling
<1> QED BY <1>1, <1>2 DEF Init

LEMMA DrawsAlone ==
  /\ Init /\ which = "random_search" => Draws!Init
  /\ which = "random_search" /\ [Next]_vars => [Draws!Next]_(Draws!vars)
<1>1. which = "random_search" /\ Next => Draws!Next
  BY DEF Next
<1>2. UNCHANGED vars => UNCHANGED Draws!vars
  BY DEF vars, Draws!vars, Draws!sampling
<1> QED BY <1>1, <1>2 DEF Init

LEMMA SelectsAlone ==
  /\ Init /\ which = "selection" => Selects!Init
  /\ which = "selection" /\ [Next]_vars => [Selects!Next]_(Selects!vars)
<1>1. which = "selection" /\ Next => Selects!Next
  BY DEF Next
<1>2. UNCHANGED vars => UNCHANGED Selects!vars
  BY DEF vars, Selects!vars
<1> QED BY <1>1, <1>2 DEF Init

LEMMA ReflectsAlone ==
  /\ Init /\ which = "reflection" => Reflects!Init
  /\ which = "reflection" /\ [Next]_vars => [Reflects!Next]_(Reflects!vars)
<1>1. which = "reflection" /\ Next => Reflects!Next
  BY DEF Next
<1>2. UNCHANGED vars => UNCHANGED Reflects!vars
  BY DEF vars, Reflects!vars
<1> QED BY <1>1, <1>2 DEF Init

LEMMA SourcesAlone ==
  /\ Init /\ which = "batch_sources" => Sources!Init
  /\ which = "batch_sources" /\ [Next]_vars => [Sources!Next]_(Sources!vars)
<1>1. which = "batch_sources" /\ Next => Sources!Next
  BY DEF Next
<1>2. UNCHANGED vars => UNCHANGED Sources!vars
  BY DEF vars, Sources!vars
<1> QED BY <1>1, <1>2 DEF Init

LEMMA OneBatchAlone ==
  /\ Init /\ which = "batch_request" => OneBatch!Init
  /\ which = "batch_request" /\ [Next]_vars => [OneBatch!Next]_(OneBatch!vars)
<1>1. which = "batch_request" /\ Next => OneBatch!Next
  BY DEF Next
<1>2. UNCHANGED vars => UNCHANGED OneBatch!vars
  BY DEF vars, OneBatch!vars
<1> QED BY <1>1, <1>2 DEF Init

LEMMA ClassifyAlone ==
  /\ Init /\ which = "classifying" => Classify!Init
  /\ which = "classifying" /\ [Next]_vars => [Classify!Next]_(Classify!vars)
<1>1. which = "classifying" /\ Next => Classify!Next
  BY DEF Next
<1>2. UNCHANGED vars => UNCHANGED Classify!vars
  BY DEF vars, Classify!vars, Classify!choices
<1> QED BY <1>1, <1>2 DEF Init

LEMMA StartAlone ==
  /\ Init /\ which = "starter" => Start!Init
  /\ which = "starter" /\ [Next]_vars => [Start!Next]_(Start!vars)
<1>1. which = "starter" /\ Next => Start!Next
  BY DEF Next
<1>2. UNCHANGED vars => UNCHANGED Start!vars
  BY DEF vars, Start!vars
<1> QED BY <1>1, <1>2 DEF Init

LEMMA ToolsAlone ==
  /\ Init /\ which = "tool_server" => Tools!Init
  /\ which = "tool_server" /\ [Next]_vars => [Tools!Next]_(Tools!vars)
<1>1. which = "tool_server" /\ Next => Tools!Next
  BY DEF Next
<1>2. UNCHANGED vars => UNCHANGED Tools!vars
  BY DEF vars, Tools!vars
<1> QED BY <1>1, <1>2 DEF Init

LEMMA ThoughtAlone ==
  /\ Init /\ which = "program_of_thought" => Thought!Init
  /\ which = "program_of_thought" /\ [Next]_vars => [Thought!Next]_(Thought!vars)
<1>1. which = "program_of_thought" /\ Next => Thought!Next
  BY DEF Next
<1>2. UNCHANGED vars => UNCHANGED Thought!vars
  BY DEF vars, Thought!vars
<1> QED BY <1>1, <1>2 DEF Init

LEMMA WrittenAlone ==
  /\ Init /\ which = "envelope" => Written!Init
  /\ which = "envelope" /\ [Next]_vars => [Written!Next]_(Written!vars)
<1>1. which = "envelope" /\ Next => Written!Next
  BY DEF Next
<1>2. UNCHANGED vars => UNCHANGED Written!vars
  BY DEF vars, Written!vars, Written!envelope
<1> QED BY <1>1, <1>2 DEF Init

LEMMA SchemasAlone ==
  /\ Init /\ which = "tool_schema" => Schemas!Init
  /\ which = "tool_schema" /\ [Next]_vars => [Schemas!Next]_(Schemas!vars)
<1>1. which = "tool_schema" /\ Next => Schemas!Next
  BY DEF Next
<1>2. UNCHANGED vars => UNCHANGED Schemas!vars
  BY DEF vars, Schemas!vars
<1> QED BY <1>1, <1>2 DEF Init

LEMMA ExtractsAlone ==
  /\ Init /\ which = "extraction" => Extracts!Init
  /\ which = "extraction" /\ [Next]_vars => [Extracts!Next]_(Extracts!vars)
<1>1. which = "extraction" /\ Next => Extracts!Next
  BY DEF Next
<1>2. UNCHANGED vars => UNCHANGED Extracts!vars
  BY DEF vars, Extracts!vars, Extracts!arguments
<1> QED BY <1>1, <1>2 DEF Init

LEMMA CorpusTableAlone ==
  /\ Init /\ which = "corpus_extraction" => CorpusTable!Init
  /\ which = "corpus_extraction" /\ [Next]_vars => [CorpusTable!Next]_(CorpusTable!vars)
<1>1. which = "corpus_extraction" /\ Next => CorpusTable!Next
  BY DEF Next
<1>2. UNCHANGED vars => UNCHANGED CorpusTable!vars
  BY DEF vars, CorpusTable!vars
<1> QED BY <1>1, <1>2 DEF Init

LEMMA TrialsAlone ==
  /\ Init /\ which = "trial_log" => Trials!Init
  /\ which = "trial_log" /\ [Next]_vars => [Trials!Next]_(Trials!vars)
<1>1. which = "trial_log" /\ Next => Trials!Next
  BY DEF Next
<1>2. UNCHANGED vars => UNCHANGED Trials!vars
  BY DEF vars, Trials!vars
<1> QED BY <1>1, <1>2 DEF Init

LEMMA RecorderAlone ==
  /\ Init /\ which = "env_recorder" => Recorder!Init
  /\ which = "env_recorder" /\ [Next]_vars => [Recorder!Next]_(Recorder!vars)
<1>1. which = "env_recorder" /\ Next => Recorder!Next
  BY DEF Next
<1>2. UNCHANGED vars => UNCHANGED Recorder!vars
  BY DEF vars, Recorder!vars
<1> QED BY <1>1, <1>2 DEF Init

LEMMA WhichStays == [Next]_vars => which' = which
BY DEF Next, vars

-----------------------------------------------------------------------------
(* What every component keeps                                              *)

CallsKept == which = "calls" => Calls!CallsInv
LoopKept == which = "react" => ReAct!LoopInv
AttemptsKept ==
  /\ which = "sampling" => Samples!SamplesInv
  /\ which = "refine" => Refine!RefineInv
  /\ which = "grounding" => Ground!AttemptsInv
BudgetKept == which = "co_optimizer" => BudgetInv
ReasonsKept ==
  /\ which = "joint_search" => Joint!ReasonFollowsBudget
  /\ which = "random_search" => Draws!StepsAreCounted
BestKept ==
  /\ which = "co_optimizer" => KeepsInv
  /\ which = "joint_search" => Joint!BestSoFar
  /\ which = "random_search" => Draws!StepsAreCounted /\ Draws!RankedAndApplied
  /\ which = "selection" => Selects!ChosenAmongMeasured
  /\ which = "reflection" => Reflects!HighestSoFar
RequestsKept ==
  /\ which = "batch_request" =>
       OneBatch!CreatedInOrder /\ OneBatch!RowAndManifest /\ OneBatch!RunsAreCounted
  /\ which = "batch_sources" => Sources!YieldedInOrder
ClassifyKept == which = "classifying" => Classify!MembersAreSound
UnaskedKept ==
  /\ which = "tool_server" => Tools!HandledInOrder
  /\ which = "program_of_thought" => Thought!WorkInv
  /\ which = "envelope" => Written!FirstStepsAreDone
  /\ which = "starter" => Start!RouteBeforePay
  /\ which = "tool_schema" => Schemas!SchemaIsOfParams
ExtractionKept ==
  /\ which = "extraction" => Extracts!MergedBeforeRetry
  /\ which = "corpus_extraction" => CorpusTable!OneRecordEach
RecordsKept ==
  /\ which = "trial_log" => Trials!LogInv
  /\ which = "env_recorder" => Recorder!RecorderInv

\* What the calls of an evaluation spend is charged once to the trial, comes to
\* the tracker unless a program gathers strictly, and adds up to the usage of a
\* plain program, for every number of programs, calls, models and attempts
\* (call.py _run_pipeline, trial_runner.py, base.py Program.invoke).
THEOREM SpendIsChargedHolds == Spec => []SpendIsCharged
<1>1. Init => CallsKept
  BY ConstantsAssumption, CallsAlone, CallsInvInit DEF CallsKept
<1>2. CallsKept /\ [Next]_vars => CallsKept'
  BY ConstantsAssumption, WhichStays, CallsAlone, CallsInvNext DEF CallsKept
<1>3. CallsKept => SpendIsCharged
  BY DEF SpendIsCharged, Calls!CallsInv, CallsKept
<1> QED BY <1>1, <1>2, <1>3, PTL DEF Spec

\* ReAct shows the model a result for each of its tool calls and accounts for
\* every answer in what it returns, whatever the model answers and however many
\* turns, tools and retries it has (react.py).
THEOREM AnswersAreAccountedForHolds == Spec => []AnswersAreAccountedFor
<1>1. Init => LoopKept
  BY ConstantsAssumption, ReActAlone, LoopInvInit DEF LoopKept
<1>2. LoopKept /\ [Next]_vars => LoopKept'
  BY ConstantsAssumption, WhichStays, ReActAlone, LoopInvNext DEF LoopKept
<1>3. LoopKept => AnswersAreAccountedFor
  BY ConstantsAssumption, LoopInvImplies DEF AnswersAreAccountedFor, LoopKept
<1> QED BY <1>1, <1>2, <1>3, PTL DEF Spec

\* BestOfN, Ensemble, Refine and Grounded return the best of what came back, and
\* nothing that came before it was as good, for every number of samples,
\* iterations and retries, and all scores, answers and citations (best_of_n.py,
\* ensemble.py, refine.py, grounded.py).  What Ensemble returns may be a
\* CancelledError that it has counted as an answer.
THEOREM BestIsReturnedHolds == Spec => []BestIsReturned
<1>1. Init => AttemptsKept
  BY ConstantsAssumption, SamplesAlone, SamplesInvInit, RefineAlone, RefineInvInit, GroundAlone,
     AttemptsInvInit DEF AttemptsKept
<1>2. AttemptsKept /\ [Next]_vars => AttemptsKept'
  BY ConstantsAssumption, WhichStays, SamplesAlone, SamplesInvNext, RefineAlone, RefineInvNext,
     GroundAlone, AttemptsInvNext DEF AttemptsKept
<1>3. AttemptsKept => BestIsReturned
  <2> SUFFICES ASSUME AttemptsKept PROVE BestIsReturned
    OBVIOUS
  <2>1. which = "sampling" => Samples!SelectedIsBest
    BY ConstantsAssumption, SamplesInvImplies DEF AttemptsKept
  <2>2. which = "refine" => Refine!ReturnsBest
    BY DEF Refine!RefineInv, Refine!ReturnsBest, AttemptsKept
  <2>3. which = "grounding" => Ground!ReturnsBestAttempt
    BY DEF Ground!AttemptsInv, AttemptsKept
  <2> QED BY <2>1, <2>2, <2>3 DEF BestIsReturned
<1> QED BY <1>1, <1>2, <1>3, PTL DEF Spec

\* No step begins a stage of the composite optimizer with the budget used up, for
\* every cap and every number of trials (co_optimizer.py's check between stages,
\* which asks the tracker and not only the child's reason).
THEOREM NoStageAfterExhaustionHolds == Spec => NoStageAfterExhaustion
<1>1. Init => BudgetKept
  BY ConstantsAssumption, CoOptAlone, BudgetInvInit DEF BudgetKept
<1>2. BudgetKept /\ [Next]_vars => BudgetKept'
  BY ConstantsAssumption, WhichStays, CoOptAlone, BudgetInvNext DEF BudgetKept
<1>3. BudgetKept /\ [Next]_vars => [which = "co_optimizer" /\ CoOpt!InStage' /\ v3' # v3
                                    => ~CoOpt!ExhaustedAt(v9', v10')]_vars
  BY ConstantsAssumption, CoOptAlone, StageEnteredWithBudget DEF BudgetKept
<1> QED BY <1>1, <1>2, <1>3, PTL DEF Spec, NoStageAfterExhaustion

\* A budget is one for all the stages of the composite optimizer, and MIPRO and
\* MIPRO lite say truly why they stopped and what the budget left out, for every
\* cap and every number of trials, candidates and promotions (co_optimizer.py,
\* mipro_v2.py, mipro_lite.py).
THEOREM BudgetIsKeptHolds == Spec => []BudgetIsKept
<1>1. Init => BudgetKept /\ ReasonsKept
  BY ConstantsAssumption, CoOptAlone, BudgetInvInit, JointAlone, ReasonInit, DrawsAlone, StepsInit
     DEF BudgetKept, ReasonsKept
<1>2. BudgetKept /\ [Next]_vars => BudgetKept'
  BY ConstantsAssumption, WhichStays, CoOptAlone, BudgetInvNext DEF BudgetKept
<1>3. ReasonsKept /\ [Next]_vars => ReasonsKept'
  BY ConstantsAssumption, WhichStays, JointAlone, ReasonNext, DrawsAlone, StepsNext DEF ReasonsKept
<1>4. BudgetKept /\ ReasonsKept => BudgetIsKept
  <2> SUFFICES ASSUME BudgetKept, ReasonsKept PROVE BudgetIsKept
    OBVIOUS
  <2>1. which = "co_optimizer" => CoOpt!TrialsBounded
    BY DEF BudgetKept, BudgetInv, WithinCap, CoOpt!TrialsBounded
  <2>2. which = "joint_search" => Joint!StopReasonIsTrue
    BY ReasonImplies DEF ReasonsKept
  <2>3. which = "random_search" => Draws!OmissionIsReported
    BY StepsImply DEF ReasonsKept
  <2> QED BY <2>1, <2>2, <2>3 DEF BudgetIsKept
<1> QED BY <1>1, <1>2, <1>3, <1>4, PTL DEF Spec

\* An optimizer that returns leaves on the program the best that it measured, or
\* what was there before; one that raises leaves what was there before, the best
\* so far, or, of the stages and the reflective loop, the one variant whose own
\* evaluation raised; and a frontier is the best of the trials of its own run.
\* For all scores and costs, and every number of trials, candidates and runs
\* (bootstrap.py, instruction.py, hyperparameter.py, mipro_v2.py, mipro_lite.py,
\* model_optimizer.py, codec_optimizer.py, pareto.py, reflective.py).
THEOREM BestIsKeptHolds == Spec => []BestIsKept
<1>1. Init => BestKept
  <2>1. Init /\ which = "co_optimizer" => KeepsInv
    BY CoOptAlone, KeepsInit
  <2>2. Init /\ which = "joint_search" => Joint!BestSoFar
    BY JointAlone, BestInit
  <2>3. Init /\ which = "random_search" => Draws!StepsAreCounted /\ Draws!RankedAndApplied
    BY ConstantsAssumption, DrawsAlone, StepsInit, RankedInit
  <2>4. Init /\ which = "selection" => Selects!ChosenAmongMeasured
    BY SelectsAlone, ChosenInit
  <2>5. Init /\ which = "reflection" => Reflects!HighestSoFar
    BY ReflectsAlone, HighestInit
  <2> QED BY <2>1, <2>2, <2>3, <2>4, <2>5 DEF BestKept
<1>2. BestKept /\ [Next]_vars => BestKept'
  <2> SUFFICES ASSUME BestKept, [Next]_vars PROVE BestKept'
    OBVIOUS
  <2>1. which' = which
    BY WhichStays
  <2>2. which = "co_optimizer" => KeepsInv'
    BY ConstantsAssumption, CoOptAlone, KeepsNext DEF BestKept
  <2>3. which = "joint_search" => Joint!BestSoFar'
    BY ConstantsAssumption, JointAlone, BestNext DEF BestKept
  <2>4. which = "random_search" => Draws!StepsAreCounted' /\ Draws!RankedAndApplied'
    BY ConstantsAssumption, DrawsAlone, StepsNext, RankedNext DEF BestKept
  <2>5. which = "selection" => Selects!ChosenAmongMeasured'
    BY ConstantsAssumption, SelectsAlone, ChosenNext DEF BestKept
  <2>6. which = "reflection" => Reflects!HighestSoFar'
    BY ConstantsAssumption, ReflectsAlone, HighestNext DEF BestKept
  <2> QED BY <2>1, <2>2, <2>3, <2>4, <2>5, <2>6 DEF BestKept
<1>3. BestKept => BestIsKept
  <2> SUFFICES ASSUME BestKept PROVE BestIsKept
    OBVIOUS
  <2>1. which = "co_optimizer" => CoOpt!StageKeepsBest
    BY DEF BestKept, KeepsInv
  <2>2. which = "joint_search" => Joint!SearchKeepsBest
    BY ConstantsAssumption, BestSoFarImplies DEF BestKept
  <2>3. which = "random_search" => Draws!DrawKeepsBest
    BY ConstantsAssumption, RankedImplies DEF BestKept
  <2>4. which = "selection" => Selects!SelectionIsBest /\ Selects!FrontierIsOptimal
    BY ConstantsAssumption, ChosenIsBest, FrontierIs DEF BestKept
  <2>5. which = "reflection" => Reflects!ReflectionKeepsBest
    BY ConstantsAssumption, HighestImplies DEF BestKept
  <2> QED BY <2>1, <2>2, <2>3, <2>4, <2>5 DEF BestIsKept
<1> QED BY <1>1, <1>2, <1>3, PTL DEF Spec

\* What batch-create expects is what batch-run has seen when it completes, errors
\* that a resume skips included; what batch-status and batch-results say together
\* agrees, but for a batch that an earlier run completed and a later one failed;
\* and an id means the same inputs when a source is read again.  For every length
\* of a source, every range of pages and rows, and every number of runs, resumed
\* or not (integrations/mcp/batch_*.py, batch/sources.py, batch_bridges.py).
THEOREM RequestsAgreeHolds == Spec => []RequestsAgree
<1>1. Init => RequestsKept
  BY ConstantsAssumption, OneBatchAlone, RequestsInit, SourcesAlone, SourcesInit DEF RequestsKept
<1>2. RequestsKept /\ [Next]_vars => RequestsKept'
  BY ConstantsAssumption, WhichStays, OneBatchAlone, RequestsNext, SourcesAlone, SourcesNext
     DEF RequestsKept
<1>3. RequestsKept => RequestsAgree
  <2> SUFFICES ASSUME RequestsKept PROVE RequestsAgree
    OBVIOUS
  <2>1. which = "batch_request" => OneBatch!RequestsAgree
    BY ConstantsAssumption, RequestsImplies DEF RequestsKept
  <2>2. which = "batch_sources" => Sources!IdsMeanTheirInputs
    BY ConstantsAssumption, SourcesImplies DEF RequestsKept
  <2> QED BY <2>1, <2>2 DEF RequestsAgree
<1> QED BY <1>1, <1>2, <1>3, PTL DEF Spec

\* A classification names declared labels that a member gave, each once and one
\* if only one may apply, walks from parent to child and abstains only where it
\* may, for every set of labels, tree, corpus and ensemble (programs/classify,
\* composition/aggregate.py).
THEOREM LabelsAreDeclaredHolds == Spec => []LabelsAreDeclared
<1>1. Init => ClassifyKept
  BY ConstantsAssumption, ClassifyAlone, MembersInit DEF ClassifyKept
<1>2. ClassifyKept /\ [Next]_vars => ClassifyKept'
  BY ConstantsAssumption, WhichStays, ClassifyAlone, MembersNext DEF ClassifyKept
<1>3. ClassifyKept => LabelsAreDeclared
  BY MembersImply DEF ClassifyKept, LabelsAreDeclared
<1> QED BY <1>1, <1>2, <1>3, PTL DEF Spec

\* What runs is what was asked for: a refused request has cost nothing and code
\* runs with every consent, whatever is wrong with a request, whichever handler
\* and model fails and whoever writes the file; an envelope of any length asks
\* its steps as they are written; the one-line functions pass a budget on; and a
\* tool binds what its schema accepts but for three signatures
\* (integrations/mcp, program_of_thought.py, programs/envelope, starter.py,
\* tool.py).
THEOREM NothingRunsUnaskedHolds == Spec => []NothingRunsUnasked
<1>1. Init => UnaskedKept
  <2> SUFFICES ASSUME Init PROVE UnaskedKept
    OBVIOUS
  <2>1. which = "tool_server" => Tools!HandledInOrder
    BY ConstantsAssumption, ToolsAlone, HandledInit
  <2>2. which = "program_of_thought" => Thought!WorkInv
    BY ConstantsAssumption, ThoughtAlone, WorkInit
  <2>3. which = "envelope" => Written!FirstStepsAreDone
    BY ConstantsAssumption, WrittenAlone, FirstStepsInit
  <2>4. which = "starter" => Start!RouteBeforePay
    BY StartAlone, WordInit
  <2>5. which = "tool_schema" => Schemas!SchemaIsOfParams
    BY SchemasAlone, SchemaInit
  <2> QED BY <2>1, <2>2, <2>3, <2>4, <2>5 DEF UnaskedKept
<1>2. UnaskedKept /\ [Next]_vars => UnaskedKept'
  <2> SUFFICES ASSUME UnaskedKept, [Next]_vars PROVE UnaskedKept'
    OBVIOUS
  <2>1. which' = which
    BY WhichStays
  <2>2. which = "tool_server" => Tools!HandledInOrder'
    BY ConstantsAssumption, ToolsAlone, HandledNext DEF UnaskedKept
  <2>3. which = "program_of_thought" => Thought!WorkInv'
    BY ConstantsAssumption, ThoughtAlone, WorkNext DEF UnaskedKept
  <2>4. which = "envelope" => Written!FirstStepsAreDone'
    BY ConstantsAssumption, WrittenAlone, FirstStepsNext DEF UnaskedKept
  <2>5. which = "starter" => Start!RouteBeforePay'
    BY ConstantsAssumption, StartAlone, WordNext DEF UnaskedKept
  <2>6. which = "tool_schema" => Schemas!SchemaIsOfParams'
    BY SchemasAlone, SchemaNext DEF UnaskedKept
  <2> QED BY <2>1, <2>2, <2>3, <2>4, <2>5, <2>6 DEF UnaskedKept
<1>3. UnaskedKept => NothingRunsUnasked
  <2> SUFFICES ASSUME UnaskedKept PROVE NothingRunsUnasked
    OBVIOUS
  <2>1. which = "tool_server" => Tools!RefusedIsFree
    BY HandledImplies DEF UnaskedKept
  <2>2. which = "program_of_thought" => Thought!NothingRunsUnasked
    BY DEF UnaskedKept, Thought!WorkInv
  <2>3. which = "envelope" => Written!EnvelopeRunsAsWritten
    BY FirstStepsImply DEF UnaskedKept
  <2>4. which = "starter" => Start!StarterKeepsItsWord
    BY WordImplies DEF UnaskedKept
  <2>5. which = "tool_schema" => Schemas!SchemaCallsBind
    BY SchemaImplies DEF UnaskedKept
  <2> QED BY <2>1, <2>2, <2>3, <2>4, <2>5 DEF NothingRunsUnasked
<1> QED BY <1>1, <1>2, <1>3, PTL DEF Spec

\* A row holds what the document or a chunk of it gave and says which; the
\* provider is paid over the budget of the retry less than one chunk and what
\* the chunks cost that failed, which is no more than as many of the dearest;
\* and the table of a corpus that is resumed, whatever crashes, has one row for
\* each document that succeeded.  For every schema, answer, hit, number of
\* chunks and cost, and every corpus and number of calls (programs/extract.py,
\* extract/merge.py, programs/chunk_retry.py).
THEOREM ExtractionIsHonestHolds == Spec => []ExtractionIsHonest
<1>1. Init => ExtractionKept
  BY ConstantsAssumption, ExtractsAlone, ExtractInit, CorpusTableAlone, CorpusInit DEF ExtractionKept
<1>2. ExtractionKept /\ [Next]_vars => ExtractionKept'
  BY ConstantsAssumption, WhichStays, ExtractsAlone, ExtractNext, CorpusTableAlone, CorpusNext
     DEF ExtractionKept
<1>3. ExtractionKept => ExtractionIsHonest
  <2> SUFFICES ASSUME ExtractionKept PROVE ExtractionIsHonest
    OBVIOUS
  <2>1. which = "extraction" => Extracts!ExtractionIsHonest
    BY ExtractImplies DEF ExtractionKept
  <2>2. which = "corpus_extraction" => CorpusTable!TableCountsDocuments
    BY CorpusImplies DEF ExtractionKept
  <2> QED BY <2>1, <2>2 DEF ExtractionIsHonest
<1> QED BY <1>1, <1>2, <1>3, PTL DEF Spec

\* What is read of a mutation log happened, once and in its order, and a fault
\* loses at most two trials, for every number of runs, trials and faults, torn
\* writes and crashes; and the recorder's file has the line of every call, whole
\* and once, for every number of calls, of pieces and of failing writes, unless
\* both processes write after a fork (mutations.py, analysis.py, env_recorder.py).
THEOREM RecordsAreTrueHolds == Spec => []RecordsAreTrue
<1>1. Init => RecordsKept
  BY ConstantsAssumption, TrialsAlone, LogInit, RecorderAlone, RecorderInit DEF RecordsKept
<1>2. RecordsKept /\ [Next]_vars => RecordsKept'
  BY ConstantsAssumption, WhichStays, TrialsAlone, LogNext, RecorderAlone, RecorderNext
     DEF RecordsKept
<1>3. RecordsKept => RecordsAreTrue
  <2> SUFFICES ASSUME RecordsKept PROVE RecordsAreTrue
    OBVIOUS
  <2>1. which = "trial_log" => Trials!LogTellsTheRuns
    BY ConstantsAssumption, LogTellsThen DEF RecordsKept
  <2>2. which = "env_recorder" => Recorder!LinesAreWhole
    BY ConstantsAssumption, LinesAreWholeThen DEF RecordsKept
  <2> QED BY <2>1, <2>2 DEF RecordsAreTrue
<1> QED BY <1>1, <1>2, <1>3, PTL DEF Spec
=============================================================================
