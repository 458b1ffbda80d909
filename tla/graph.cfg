SPECIFICATION MCSpec
CONSTANTS
  Callers = {w, c1}
  W = w
  Project = proj
  Develop = develop
  FeatureBranches = {b1}
  IntegrationBranches = {}
  PullRequests = {p1}
  Tags = {t1}
  NoBranch = nobranch
  NoPullRequest = nopr
  Branch = b1
  Tag = t1
  CreateRelease = TRUE
  MaxRetries = 1
  MaxRestarts = 1
  Ops = {"merge_pull_request", "approve_pull_request"}
  MaxCalls = 1
  MaxDisturbances = 1
INVARIANT MergedAsDecided
INVARIANT CommitLandsOnce
PROPERTY ReachesGateOrEnd
CHECK_DEADLOCK FALSE
