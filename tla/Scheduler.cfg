CONSTANTS
  tank = tank
  vm = vm
  req = req
  Loop = Loop
  LastMonth = 2
  FirstOf <- MCFirstOf
  Ids = {1}
  Datasets = {tank}
  Under <- MCFlat
  Jobs <- MCFlatJobs
  Retentions = {0, 1}
  DurationLimit = 200000
  Requests = {req}
  Times <- MCTwoTimes
  MaxWritten = 0
  Env = {"create", "crash", "delete", "retention", "manual", "threshold", "refuse", "list", "command", "disable", "record"}
SPECIFICATION Spec
INVARIANTS TypeOK
PROPERTIES PruneWithinRetention LastStays OncePerSlot
CHECK_DEADLOCK FALSE
