CONSTANTS
  exec1 = exec1
  exec2 = exec2
  jobA = jobA
  jobB = jobB
  tank = tank
  Nobody = Nobody
  Ids = {1}
  Defs = {jobA}
  Sources = {tank}
  SourceOf <- MCOneSource
  Execs = {exec1}
  Period = 2
  MaxClock = 5
  Env = {"stream", "disable", "diverge", "snapshot", "start", "prune", "record"}
SPECIFICATION LiveSpec
INVARIANT BookmarkReceived
PROPERTY DueRuns
CHECK_DEADLOCK FALSE
