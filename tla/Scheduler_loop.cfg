CONSTANTS
  tank = tank
  vm = vm
  req = req
  Loop = Loop
  LastMonth = 2
  FirstOf <- MCFirstOf
  Ids = {1, 2}
  Datasets = {tank, vm}
  Under <- MCTree
  Jobs <- MCTwoJobs
  Retentions = {0, 1}
  DurationLimit = 200000
  Requests = {}
  Times <- MCTimes
  MaxWritten = 1
  Env = {"measure", "schedule", "record"}
SPECIFICATION LiveSpec
INVARIANTS NextIsFirst OkIsCovered OkIsPruned
PROPERTIES DueRuns
CHECK_DEADLOCK FALSE
