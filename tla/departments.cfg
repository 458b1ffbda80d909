SPECIFICATION MCSpec
CONSTANTS
  ArchRuns = {"a1", "a2"}
  MaxTraceabilityReruns = 1
  PlatformTypes = {"deployment_architecture", "ui_blueprint"}
  Runs = {r1, r2}
  EngWorkers = {"state", "internal", "messaging"}
  EngMaxReviewCycles = 2
  DvoRuns = {d1, d2, d3}
  MaxGateMessages = 5
  RtAgents = {"worker", "reviewer"}
  RtEscalating = {"reviewer"}
  RtMaxReviewCycles = 2
  RtMaxRuns = 3
  PpRuns = {"p1", "p2"}
  BrScopes = {artifacts, configuration}
  BrMaxEdits = 1
  BrMaxBackups = 2
  BrMaxRestores = 1
  PlPlugins = 2
  PlMaxRequests = 3
  PlMaxChanges = 1
  PgPlugins = 4
  PgMaxDependencies = 5
  CvMaxHistory = 2
  CvMaxEdits = 3
  WaInner = 3
  WaMaxEdges = 4
  RdAgents = {"lead", "worker"}
  RdMaxHops = 2
  RdComponents = {"database", "monitoring", "incident_response"}
  RdSubjects = {"phase", "retry"}
  RdGraphs = {"product", "qa"}
  RdDepartments = {"qa", "devops", "monitoring"}
  DaRequests = {"q1", "q2"}
  DaTtl = 1
  DaVersionsTtl = 2
  DaMaxTime = 2
  CfMaxLayers = 3
  CfMaxLines = 2
  PrRequests = {"w1", "w2"}
  PrEnvironments = {"staging", "production"}
  PrMaxRecords = 3
INVARIANT SubmittedWasTracedAndReviewed
INVARIANT BranchHoldsOneGatedRun
INVARIANT RetryFollowsDefectsAndReport
INVARIANT NoFindingIsLost
INVARIANT ReleasedOrRolledBack
INVARIANT StartsSpendTheirPasses
INVARIANT AnnouncedAsNumbered
INVARIANT UncritiquedOnlyWhenSpent
INVARIANT PackageIsWhole
INVARIANT RestoredWasCaptured
INVARIANT PluginsAreContained
INVARIANT LoadOrderIsSound
INVARIANT OnlyLooseEdgesAreDropped
INVARIANT AnalysisIsExact
INVARIANT ReadinessIsEarned
INVARIANT CardsAreFresh
INVARIANT ConfigurationIsLayered
INVARIANT RecordsAreTold
PROPERTY UndoWalksTheLine
CHECK_DEADLOCK FALSE
