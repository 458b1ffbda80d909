SPECIFICATION MCSpec
CONSTANTS
  Callers = {c1, c2, c3}
  Project = proj
  Develop = develop
  FeatureBranches = {b1}
  IntegrationBranches = {i1}
  PullRequests = {p1, p2}
  Tags = {t1}
  NoBranch = nobranch
  Ops = {"create_repository", "create_branch", "delete_branch", "commit_files", "create_pull_request", "approve_pull_request", "merge_pull_request", "create_release", "rollback_release"}
  Clienteles = {{"create_repository", "create_branch", "delete_branch"}, {"create_branch", "commit_files"}, {"create_release", "rollback_release"}, {"create_pull_request", "approve_pull_request", "merge_pull_request"}, {"create_pull_request", "approve_pull_request", "merge_pull_request", "delete_branch"}}
  MaxCalls = 4
SYMMETRY Symmetry
INVARIANT TypeOK
INVARIANT ApprovalGate
INVARIANT MergeHistoryTrue
INVARIANT RetiredBranchWasMerged
INVARIANT ProvisionedOnce
INVARIANT PublishedEventsRecorded
INVARIANT AcknowledgedCommits
PROPERTY GateSpec
CHECK_DEADLOCK FALSE
