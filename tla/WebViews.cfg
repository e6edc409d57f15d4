CONSTANTS
  Views = {"dash", "pools", "tasks", "snaps", "disks"}
  Lists = {"pools", "jobs"}
  MaxChanges = 2
  MaxEvents = 2
  MaxAsked = 1
SPECIFICATION LiveSpec
INVARIANTS TypeOK ReadYourWrites
PROPERTY EventShown
CHECK_DEADLOCK FALSE
