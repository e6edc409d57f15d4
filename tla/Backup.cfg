CONSTANTS
  r1 = r1
  u1 = u1
  Loop = Loop
  Original = Original
  Fresh = Fresh
  Partial = Partial
  Absent = Absent
  Nobody = Nobody
  Requests = {r1}
  Imports = {1, 2}
  Uploads = {u1}
  Freq = 1
  Retention = 1
  Default = 0
  MaxClock = 1
  MaxStops = 1
  Env = {"vacuum", "settings", "rename", "copy", "disable"}
SPECIFICATION LiveSpec
INVARIANTS TypeOK DataKept MainWhole
PROPERTY DueRuns
CHECK_DEADLOCK FALSE
