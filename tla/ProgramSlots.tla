---------------------------- MODULE ProgramSlots ----------------------------
(***************************************************************************)
(* The components about which theorems are proved, on the slots that all   *)
(* components of the program and optimizer layers share: what the slots    *)
(* mean, component by component.  MCPrograms adds the other components.    *)
(***************************************************************************)
EXTENDS Integers, Sequences, FiniteSets

CONSTANTS
  Programs, Width, Routed, Models, MaxAttempts, MaxConcurrent, Tolerant,
  MayCancel, MetricMayRaise,
  Scores, Perfect, Caps, None, TimeCap, MaxProposals, Patience, MaxConfigs, MayRaise,
  MaxTurns, MaxRetries, MaxTools, RaiseOnError,
  N, Answers, Failed, Cancelled, Pending, NoScore,
  MaxIterations, MinScore, QualityScores,
  Documents, Tagged, MinParagraph, Lower, StrategyChoices, Threshold, Candidates,
  MaxGroundings,
  SearchCaps, BatchScores, NumCandidates, JointTrials, FullEvalSteps, JointScores,
  NumDemos, NumInstructions, DrawTrials, NumPromoted, DrawScores,
  SelectCandidates, SelectCaps, QualifyingScore, TrialCosts, Estimates, MaxRuns,
  ReflectCaps, SampleCount, Grades, QualityThreshold, MaxTrials,
  SourceEntries, SourceLength, PageRanges, TableRows, RequestLength, InlineCap,
  DeclaredLabels, Parent, Similarities, NearThreshold, MinScores, LabelledTexts, K, Margin, Picks,
  Members, Aggregators, MaxConcurrency, MaxDepth,
  QuestionLabels, LetterFolding, QuestionAnswers,
  MaxWrong, MaxResults, MaxFound,
  CodeRequests, CodeThreads, CodeBodies, EmptyBody,
  EnvelopeSteps, EnvelopeLength, EnvelopeOutputs, EnvelopeInputs, Capable, ClientNames,
  NamedTypes, MethodNames, ProtectedNames,
  Hints, MaxParams,
  TableColumns, ColumnAnswers, RuleHits, ChunkNumbers, ChunkCap, RetryCap, ChunkPrices,
  DocumentSets, SchemaVersions, TableSettings, CorpusCalls,
  LogRuns, RunStrategies, MetricGains, RunTrials, LogFaults,
  RecordedCalls, CallOwners, LinePieces, MayFork, WriteFaults

VARIABLES v1, v2, v3, v4, v5, v6, v7, v8, v9, v10, v11, v12

Calls == INSTANCE CallPipeline WITH
  program <- v1, phase <- v2, at <- v3, kept <- v4, usage <- v5, ended <- v6,
  pushed <- v7, rollup <- v8, trial <- v9, scope <- v10, charged <- v11, orphans <- v12
CoOpt == INSTANCE CoOptimizer WITH
  cap <- v1, strategies <- v2, stage <- v3, step <- v4, held <- v5, best <- v6,
  original <- v7, barren <- v8, spent <- v9, late <- v10, stop <- v11, seen <- v12
ReAct == INSTANCE ReActLoop WITH
  at <- v1, turn <- v2, messages <- v3, pending <- v4, retries <- v5, records <- v6,
  trajectory <- v7, answers <- v8, usage <- v9, trial <- v10, stop <- v11, outputs <- v12
Samples == INSTANCE Sampling WITH
  kind <- v1, stage <- v2, sample <- v3, score <- v4, selected <- v5
Refine == INSTANCE RefineLoop WITH
  at <- v1, history <- v2, answered <- v3, traced <- v4, chosen <- v5
Ground == INSTANCE Grounding WITH
  at <- v1, strategies <- v2, span_map <- v3, outputs <- v4,
  best <- v5, feedback <- v6, MaxRetries <- MaxGroundings
Joint == INSTANCE JointSearch WITH
  at <- v1, options <- v2, round <- v3, spent <- v4, demos <- v5, instrs <- v6,
  tried <- v7, promoted <- v8, held <- v9, best <- v10, before <- v11, stop <- v12,
  Caps <- SearchCaps, NumTrials <- JointTrials, FullScores <- JointScores
Draws == INSTANCE RandomSearch WITH
  at <- v1, cap <- v2, spent <- v3, round <- v4, demos <- v5, instrs <- v6, pairs <- v7,
  candidates <- v8, full <- v9, held <- v10, before <- v11, stop <- v12,
  Caps <- SearchCaps, NumTrials <- DrawTrials, FullScores <- DrawScores
Selects == INSTANCE Selection WITH
  at <- v1, kind <- v2, cap <- v3, runs <- v4, next <- v5, scores <- v6, held <- v7,
  original <- v8, log <- v9, trials <- v10, frontier <- v11, Caps <- SelectCaps,
  Candidates <- SelectCandidates, MinScore <- QualifyingScore, Costs <- TrialCosts
Reflects == INSTANCE Reflection WITH
  at <- v1, cap <- v2, spent <- v3, round <- v4, grades <- v5, critiques <- v6,
  scores <- v7, best <- v8, held <- v9, barren <- v10, stop <- v11, Caps <- ReflectCaps
Sources == INSTANCE BatchSources WITH
  kind <- v1, entries <- v2, hashed <- v3, range <- v4, at <- v5, position <- v6,
  yielded <- v7, first <- v8, edited <- v9, pass <- v10, Entries <- SourceEntries,
  MaxEntries <- SourceLength, Ranges <- PageRanges, MaxRows <- TableRows
OneBatch == INSTANCE BatchRequest WITH
  request <- v1, entries <- v2, at <- v3, files <- v4, hint <- v5, row <- v6, next <- v7,
  seen <- v8, log <- v9, manifest <- v10, run <- v11, reply <- v12,
  MaxEntries <- RequestLength, Ranges <- PageRanges, MaxRows <- TableRows
Classify == INSTANCE Classifying WITH
  at <- v1, options <- v2, members <- v3, aggregator <- v4, state <- v5, results <- v6,
  path <- v7, result <- v8, Unknown <- Failed, Threshold <- NearThreshold,
  Labels <- DeclaredLabels, Corpus <- LabelledTexts
Start == INSTANCE Starter WITH
  at <- v1, request <- v2, route <- v3, paid <- v4, result <- v5,
  Labels <- QuestionLabels, Folded <- LetterFolding, Answers <- QuestionAnswers
Tools == INSTANCE ToolServer WITH
  at <- v1, tool <- v2, wrong <- v3, steps <- v4, done <- v5, file <- v6, taken <- v7,
  result <- v8
Thought == INSTANCE ProgramOfThought WITH
  allowed <- v1, audit <- v2, at <- v3, program <- v4, thread <- v5, shown <- v6,
  scratch <- v7, execution <- v8, given <- v9,
  Requests <- CodeRequests, Threads <- CodeThreads, Bodies <- CodeBodies, Empty <- EmptyBody
Written == INSTANCE Envelope WITH
  at <- v1, steps <- v2, output <- v3, capabilities <- v4, given <- v5, done <- v6,
  asked <- v7, unresolved <- v8, Steps <- EnvelopeSteps, MaxSteps <- EnvelopeLength,
  Outputs <- EnvelopeOutputs, Inputs <- EnvelopeInputs, Clients <- ClientNames,
  Types <- NamedTypes, Methods <- MethodNames, Protected <- ProtectedNames
Schemas == INSTANCE ToolSchema WITH
  params <- v1, at <- v2, schema <- v3, given <- v4
Extracts == INSTANCE Extraction WITH
  at <- v1, refusal <- v2, chunks <- v3, hits <- v4, answer <- v5, cells <- v6,
  heard <- v7, spent <- v8, refused <- v9, paid <- v10, Columns <- TableColumns,
  Fields <- ColumnAnswers, HitChoices <- RuleHits, Odd <- Pending, Nothing <- None,
  Insufficient <- Failed, ChunkCounts <- ChunkNumbers, MaxChunks <- ChunkCap,
  MaxCost <- RetryCap, Costs <- ChunkPrices
CorpusTable == INSTANCE CorpusExtraction WITH
  log <- v1, call <- v2, at <- v3, calls <- v4, resumed <- v5, result <- v6,
  Collections <- DocumentSets, SchemaIds <- SchemaVersions, Settings <- TableSettings,
  MaxCalls <- CorpusCalls
Trials == INSTANCE TrialLog WITH
  up <- v1, context <- v2, mutations <- v3, file <- v4, open <- v5, loaded <- v6,
  made <- v7, own <- v8, faults <- v9, Runs <- LogRuns, Strategy <- RunStrategies,
  Gains <- MetricGains, MaxTrials <- RunTrials, MaxFaults <- LogFaults
Recorder == INSTANCE EnvRecorder WITH
  alive <- v1, installed <- v2, at <- v3, line <- v4, written <- v5, lock <- v6, file <- v7,
  fails <- v8, Made <- RecordedCalls, Owner <- CallOwners, Pieces <- LinePieces,
  MaxFails <- WriteFaults
-----------------------------------------------------------------------------
(* What is assumed of the constants                                        *)

\* Finitely many programs, each with so many calls; the calls that are routed
\* have a cascade of models; a call is attempted at least once.
CallsConstants ==
  /\ IsFiniteSet(Programs)
  /\ Width \in Nat
  /\ Models \in Nat \ {0}
  /\ MaxAttempts \in Nat \ {0}
  /\ Routed \subseteq Calls!Calls

\* Budget.__post_init__: a cap on trials is a number, and at least 1.
CapsAreNumbers == Caps \subseteq Nat \union {None}

\* max_iterations >= 1 (ReAct.__init__).
LoopConstants ==
  /\ MaxTurns \in Nat \ {0}
  /\ MaxRetries \in Nat
  /\ MaxTools \in Nat
  /\ RaiseOnError \in BOOLEAN

\* max_iterations >= 1 (LoopRunner); scores are numbers.
RefineConstants ==
  /\ MaxIterations \in Nat \ {0}
  /\ MinScore \in Int
  /\ QualityScores \subseteq Int

\* An exception and what is not over are no answers, and no scores.
SamplesConstants ==
  /\ N \in Nat
  /\ Failed \notin Answers /\ Cancelled \notin Answers /\ Pending \notin Answers
  /\ Failed # Pending /\ Cancelled # Pending /\ Failed # Cancelled
  /\ Scores \subseteq Int /\ NoScore \in Int
  /\ Pending \notin Scores \union {NoScore}

\* An output has finitely many parts, each with a list of spans.
GroundConstants ==
  /\ MaxGroundings \in Nat
  /\ \A o \in Candidates :
       /\ o.kind \in {"answer", "insufficient", "model"}
       /\ IsFiniteSet(DOMAIN o.parts)
       /\ \A k \in DOMAIN o.parts : IsFiniteSet(DOMAIN o.parts[k].spans)

\* The caps are those of a budget here, too; how often a loop goes is a number,
\* and None is no score.
JointConstants ==
  /\ SearchCaps \subseteq Nat \union {None}
  /\ JointScores \subseteq Int /\ None \notin JointScores
DrawConstants ==
  /\ DrawTrials \in Nat /\ NumPromoted \in Nat
  /\ NumDemos \in Nat /\ NumInstructions \in Nat
DrawScoresAreNumbers ==
  DrawScores \subseteq Nat /\ None \notin DrawScores /\ BatchScores \subseteq Int

\* Scores and costs are numbers, and so is what a model is estimated to cost.
ScoresAreNumbers == Scores \subseteq Int
SelectConstants ==
  /\ SelectCandidates \in Nat /\ QualifyingScore \in Int
  /\ Scores \subseteq Int /\ TrialCosts \subseteq Int
  /\ Estimates \in [1..SelectCandidates -> Int]

\* What a judge says is a number; patience is how many rounds.
ReflectionConstants == Grades \subseteq Int /\ Patience \in Nat

\* A page_range is two numbers, max_rows is one, and no status is not one.
PagesAreNumbers ==
  /\ TableRows \in Int
  /\ \A r \in PageRanges : r.from \in Int /\ r.to \in Int
SourceConstants == PagesAreNumbers /\ SourceLength \in Nat
RequestConstants == PagesAreNumbers /\ None # "completed"

\* An ontology has a label (LabelSet); an ensemble has members (ensemble.py).
ClassConstants ==
  /\ IsFiniteSet(DeclaredLabels) /\ DeclaredLabels # {} /\ DeclaredLabels = 1..Cardinality(DeclaredLabels)
  /\ None \notin DeclaredLabels
  /\ Members \subseteq Seq(Classify!Kinds) \ {<<>>}
  /\ Aggregators \subseteq {"vote", "majority", "union", "intersection", "max_score"}

\* No call, no execution and no status of one is None.
StarterConstants == None \notin Start!Routes
ThoughtConstants == None \notin Thought!Executions \union Thought!Statuses \union {"accepts", "raises"}

\* ALPHA_MAX_RESULTS
ToolServerConstants == MaxResults \in Nat

\* What a step reads, and what an envelope hands out, are sequences of pointers.
EnvelopeConstants ==
  /\ EnvelopeLength \in Nat
  /\ \A step \in EnvelopeSteps : DOMAIN step.reads \subseteq Nat
  /\ \A mapping \in EnvelopeOutputs : DOMAIN mapping \subseteq Nat

\* A schema has columns; what a model answers to a list column, and what the rules
\* find, is a list (schema.py, merge.py).
ExtractionConstants ==
  /\ Extracts!Cols # {}
  /\ \A c \in Extracts!Cols :
       TableColumns[c].type \in {"scalar", "list", "text"} /\ TableColumns[c].required \in BOOLEAN
  /\ RetryCap \in Int /\ ChunkPrices \subseteq Nat
  /\ \A fields \in ColumnAnswers, c \in Extracts!Cols :
       TableColumns[c].type = "list" =>
         fields[c] \in {None, Pending, Failed} \/ fields[c] \in Seq(Extracts!Range(fields[c]))
  /\ \A found \in RuleHits, c \in Extracts!Cols : found[c] \in Seq(Extracts!Range(found[c]))

\* Cells that are there are not None.
CorpusConstants == None \notin {"values", "errors"}

\* A run has one strategy; no log has not been loaded.
LogConstants == DOMAIN RunStrategies = LogRuns /\ None # "loaded"

\* A call is made in a process, and its line has a piece; no call holds no lock.
RecorderConstants ==
  /\ None \notin RecordedCalls
  /\ CallOwners \in [RecordedCalls -> Recorder!Processes]
  /\ LinePieces \in [RecordedCalls -> Nat \ {0}]

ASSUME ConstantsAssumption ==
  /\ CallsConstants /\ CapsAreNumbers /\ LoopConstants
  /\ RefineConstants /\ SamplesConstants /\ GroundConstants
  /\ JointConstants /\ DrawConstants /\ DrawScoresAreNumbers
  /\ ScoresAreNumbers /\ SelectConstants /\ ReflectionConstants
  /\ SourceConstants /\ RequestConstants /\ ClassConstants
  /\ StarterConstants /\ ThoughtConstants /\ ToolServerConstants /\ EnvelopeConstants
  /\ ExtractionConstants /\ CorpusConstants
  /\ LogConstants /\ RecorderConstants
=============================================================================
