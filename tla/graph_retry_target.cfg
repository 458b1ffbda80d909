SPECIFICATION GraphSpec
CONSTANTS
  Callers = {w}
  W = w
  Project = proj
  Develop = develop
  FeatureBranches = {b1}
  IntegrationBranches = {}
  PullRequests = {p1}
  Tags = {t1}
  NoBranch = nobranch
  NoPullRequest = nopr
  Branch = b1
  Tag = t1
  CreateRelease = FALSE
  MaxRetries = 1
  MaxRestarts = 0
  Ops = {}
  MaxCalls = 0
  MaxDisturbances = 0
PROPERTY ReentersFailedStep
CHECK_DEADLOCK FALSE
