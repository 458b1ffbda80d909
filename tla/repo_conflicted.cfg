SPECIFICATION MCSpec
CONSTANTS
  Callers = {c1, c2}
  Project = proj
  Develop = develop
  FeatureBranches = {b1}
  IntegrationBranches = {}
  PullRequests = {p1}
  Tags = {}
  NoBranch = nobranch
  Ops = {"create_pull_request", "approve_pull_request", "merge_pull_request"}
  Clienteles = {{"create_pull_request", "approve_pull_request", "merge_pull_request"}}
  MaxCalls = 4
INVARIANT ConflictedIsUnmerged
CHECK_DEADLOCK FALSE
