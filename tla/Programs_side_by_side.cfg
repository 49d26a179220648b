SPECIFICATION Spec

CONSTANTS
  None = None
  Programs = {e1, e2}
  e1 = e1
  e2 = e2
  Width = 2
  Routed <- RoutedCall
  Models = 2
  MaxAttempts = 2
  MaxConcurrent = 2
  Tolerant = {e2}
  MayCancel = TRUE
  MetricMayRaise = TRUE
  Scores = {0, 1, 2}
  Perfect = 2
  Caps = {None, 1, 2, 3, 4, 5, 6, 7, 8, 9, 10, 11, 12}
  TimeCap = TRUE
  MaxProposals = 3
  Patience = 2
  MaxConfigs = 3
  MayRaise = TRUE
  Docs = {d1, d2}
  Chunks <- TwoDocs
  Budgeted = {d2}
  Cap = 2
  Costs = {0, 1, 2}
  MaxConcurrency = 2
  MaxEntries = 2
  N = 4
  Answers = {x, y, z}
  Failed = Failed
  Cancelled = Cancelled
  Pending = Pending
  NoScore <- BelowAll
  MaxIterations = 4
  MinScore = 2
  QualityScores = {0, 1, 2}
  MaxTurns = 4
  MaxRetries = 1
  MaxTools = 2
  RaiseOnError = TRUE
  Documents <- TwoTexts
  Tagged <- TaggedText
  MinParagraph = 2
  Lower <- LowerCase
  StrategyChoices <- FewStrategies
  Threshold = 60
  Candidates <- SomeOutputs
  MaxGroundings = 2
  SearchCaps = {None, 1, 4, 6}
  BatchScores = {0, 1}
  NumCandidates = 2
  JointTrials = 3
  FullEvalSteps = 1
  JointScores = {1, 2}
  NumDemos = 1
  NumInstructions = 1
  DrawTrials = 2
  NumPromoted = 2
  DrawScores = {0, 1, 2}
  SelectCandidates = 2
  SelectCaps = {None, 0, 1}
  QualifyingScore = 1
  TrialCosts = {0, 1}
  Estimates <- TwoEstimates
  MaxRuns = 2
  ReflectCaps = {None, 2}
  SampleCount = 2
  Grades = {9}
  QualityThreshold = 9
  MaxTrials = 3
  SourceEntries <- SomeEntries
  SourceLength = 3
  PageRanges <- SomeRanges
  TableRows = 1
  RequestLength = 2
  InlineCap = 2
  DeclaredLabels <- ThreeLabels
  Parent <- SmallTree
  Similarities <- FarToNear
  NearThreshold = 1
  MinScores = {None, 2}
  LabelledTexts <- ThreeTexts
  K = 2
  Margin = 50
  Picks <- SomePicks
  Members <- SomeMembers
  Aggregators = {"vote", "majority", "union", "intersection", "max_score"}
  MaxDepth = 2
  QuestionLabels <- ThreeAnswers
  LetterFolding <- SmallLetters
  QuestionAnswers <- SomeReplies
  MaxWrong = 2
  MaxResults = 2
  MaxFound = 3
  CodeRequests = {"first", "second"}
  CodeThreads = 1
  CodeBodies = {"nothing", "program", "other"}
  EmptyBody = "nothing"
  EnvelopeSteps <- SomeSteps
  EnvelopeLength = 2
  EnvelopeOutputs <- SomeMappings
  EnvelopeInputs = {"text"}
  Capable <- SomeCapabilities
  ClientNames = {"main"}
  NamedTypes <- TwoTypes
  MethodNames = {"forward"}
  ProtectedNames = {"envelope"}
  Hints = {"none", "primitive", "optional", "union"}
  MaxParams = 3
  TableColumns <- ThreeColumns
  ColumnAnswers <- SomeFields
  RuleHits <- SomeHits
  ChunkNumbers = {0, 2, 4}
  ChunkCap = 3
  RetryCap = 2
  ChunkPrices = {0, 1, 2}
  DocumentSets = {{"a", "b"}, {"b", "c"}}
  SchemaVersions = {1, 2}
  TableSettings = {"cited"}
  CorpusCalls = 2
  LogRuns = {1, 2}
  RunStrategies <- TwoStrategies
  MetricGains <- GainOrLoss
  RunTrials = 2
  LogFaults = 2
  RecordedCalls = {1, 2, 3}
  CallOwners <- ParentAndChild
  LinePieces <- LongAndShort
  MayFork = TRUE
  WriteFaults = 1
  Letters = Letters

INVARIANT TypeOK
INVARIANT SpendIsCharged
INVARIANT BudgetIsKept
INVARIANT BestIsKept
INVARIANT BestIsReturned
INVARIANT AnswersAreAccountedFor
INVARIANT NothingIsLeftOut
INVARIANT ExtractionIsHonest
INVARIANT CitationsAreReal
INVARIANT LabelsAreDeclared
INVARIANT CodecsAreFaithful
INVARIANT NothingRunsUnasked
INVARIANT ScoresMeanTheirWords
INVARIANT RecordsAreTrue
INVARIANT RequestsAgree
PROPERTY NoStageAfterExhaustion
CHECK_DEADLOCK FALSE
