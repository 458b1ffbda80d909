SPECIFICATION Spec
CONSTANTS
  Callers = {c1}
  Nobody = nobody
  Executable = TRUE
  MaxRounds = 2
  MaxStarts = 1
  MaxDecisions = 2
  MaxCrashes = 0
INVARIANT PipelineFollowsGate
CHECK_DEADLOCK FALSE
