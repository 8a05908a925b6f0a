SPECIFICATION PartsSpec
CONSTANTS
  NWriters = 3
  CandidateOf <- MCCandidateOf
  Registered = {3}
  MaxClock = 4
  InstantsPerSecond = 2
  Importer = {p, q}
  NOps = 2
  MaxImportFaults = 1
  MaxAlterations = 1
  FileLimit = 4
  MarkerSize = 2
  SummaryLimit = 2
  ChunkSize = 2
  PipeSize = 2
  MaxOutput = 5
  MaxRuns = 2
  MaxDrainFaults = 1
  RepeatCounts = {1, 3}
  SampleCounts = {2, 3}
  MinStable = 3
  Finite = {0, 2}
  NIndices = 3
  K = 2
  Score = {0, 1, 2}
  ScoreTolerance = 1
  MaxCode = 1
  OutputTolerance = 1
  ResultId = {"r1", "r2"}
  MaxEdits = 1
  OperatorOrder <- MCOperatorOrder
  CandidateOrder <- MCCandidateOrder
  Folded <- MCFolded
  CaseTags <- MCCaseTags
  OperatorManifest <- MCOperatorManifest
  GivenTrees <- MCTrees
  GivenSuites <- MCSuites
  GivenCommands <- MCCommands
  MaxChanges = 1
  Adapters <- MCAdapters
  Evaluations <- MCEvaluations
  Jobs <- MCJobs
  MaxTime = 2
  MaxKills = 1
  OpCases <- MCOpCases
  RawContext = 24
  Ratio = 2
  PageSize = 2
  Window = 4
  SelectCap = 4
  SelectUnit = 2
  TopKCap = 3
  Align = 2
  FormalM = {4, 5, 6}
  Stride = 5
  OrdinalMix = 7
  RowMix = 5
  GlobalExperts = 9
  LocalExperts = 2
  TopKExperts = 3
  RoutedHidden = 4
  IndexHeads = 2
  IndexDim = 2
  SampleLimit = 4
  Warmups = {0, 2}
  Inners = {1, 2}
  NSamples = 2
  SetupTime = 1
INVARIANTS
  PartsTypeOK
  PublishedIsComplete
  NothingIsLost
  ImportIsOrderly
  LogIsHonest
  RunsSeePristineInputs
  VerdictCoversRepeats
  SamplesAreFair
  RankedIsEarned
  VerdictsAreJustified
  RankingIsKept
  PlanIsScoped
  ResumeIsFaithful
  WireIsFaithful
  TotalsAreEarned
  LayoutIsSound
  CostCountsTheWork
  SettingsAreUsable
  SamplesAreSteady
PROPERTIES
  LatestMovesForward
  ImportedIsKept
  ImportConverges
  DrainMakesProgress
  TableKeepsRows
CHECK_DEADLOCK FALSE
