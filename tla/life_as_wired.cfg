SPECIFICATION FairSpec
CONSTANTS
  Callers = {c1}
  Nobody = nobody
  Executable = FALSE
  MaxRounds = 2
  MaxStarts = 1
  MaxDecisions = 2
  MaxCrashes = 0
PROPERTY StartReachesGate
CHECK_DEADLOCK FALSE
