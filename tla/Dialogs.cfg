CONSTANTS
  None = None
  Other = Other
  All = All
  NewName = NewName
  tank = tank
  bulk = bulk
  docs = docs
  sda = sda
  sdb = sdb
  sdc = sdc
  sdd = sdd
  sde = sde
  snapA = snapA
  daily1 = daily1
  maria = maria
  job1 = job1
  repl1 = repl1
  cron1 = cron1
  cron2 = cron2
  unit1 = unit1
  unit2 = unit2
  PoolList <- MCPools
  DatasetList <- MCDatasets
  DiskList <- MCDisks
  Home <- MCHome
  Mirrors = {tank}
  Raidz = {bulk}
  Taken = {sde}
  Size <- MCSize
  Faulted = {sdb}
  Encrypted = {docs}
  Uncommon = {bulk}
  Snaps = {snapA}
  DatasetOf <- MCDatasetOf
  ShortName <- MCShortName
  Users = {maria}
  JobIds = {job1}
  SnapshotJobs = {job1}
  TargetOf <- MCTargetOf
  ReplIds = {repl1}
  SourceDs <- MCSourceDs
  Timers = {cron1, cron2, unit1, unit2}
  ScheduleOf <- MCSchedules
  Edits <- MCEdits
  Forms <- MCForms
  Kinds = {"snapshot", "scrub", "smart"}
  MaxOpens = 2
  MaxTries = 2
SPECIFICATION Spec
INVARIANTS TypeOK SentOnce SentIsAccepted SentAsMeant
CHECK_DEADLOCK FALSE
