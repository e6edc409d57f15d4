CONSTANTS
  exec1 = exec1
  exec2 = exec2
  jobA = jobA
  jobB = jobB
  tank = tank
  Nobody = Nobody
  Ids = {1}
  Defs = {jobA}
  Sources = {tank}
  SourceOf <- MCOneSource
  Execs = {exec1, exec2}
  Period = 2
  MaxClock = 3
  Env = {"stream", "bookmark", "destroy", "record", "crash", "cancel", "force", "delete"}
SPECIFICATION Spec
SYMMETRY ExecSymmetry
INVARIANTS TypeOK OkIsReplicated SettlesNewest Resumable
PROPERTY DestKept
CHECK_DEADLOCK FALSE
