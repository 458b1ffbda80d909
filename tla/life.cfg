SPECIFICATION FairSpec
CONSTANTS
  Callers = {c1, c2}
  Nobody = nobody
  Executable = TRUE
  MaxRounds = 2
  MaxStarts = 2
  MaxDecisions = 5
  MaxCrashes = 1
INVARIANT GatesNeedDecisions
PROPERTY InvokesEnd
CHECK_DEADLOCK FALSE
