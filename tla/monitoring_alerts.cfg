SPECIFICATION MCSpec
CONSTANTS
  MonComponents = {"deployments", "nats"}
  MonBreachCycles = 2
  MonDedupCycles = 2
  MonMaxCycles = 4
  MonMaxRestarts = 1
  IrEligible = {"deployments"}
  IrMaxRuns = 2
  IrMaxRestarts = 1
  MaxRevisionRounds = 2
  MaxReviewCycles = 3
  MaxRetryCycles = 3
  MaxTaskRetries = 2
  WsSockets = {"s1", "s2"}
  WsSenders = {"b1", "b2"}
  MsMessages = {"m1", "m2"}
  MsMaxFailures = 1
  MsMaxCopies = 1
  MsMaxBreaks = 1
  ChScenarios = 2
  ChMaxRetries = 2
  ChMaxFaults = 2
  McKeyed = {"anthropic", "openrouter"}
  McContexts = {"c1", "c2"}
  McRuns = {"a1", "a2"}
  McRoles = {"lead"}
  McTasks = {"section"}
  McMaxCalls = 2
  McMaxLimit = 2
INVARIANT AlertsOutlastTheWindow
CHECK_DEADLOCK FALSE
