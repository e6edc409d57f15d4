CONSTANTS
  MaxLogins = 2
  MaxRequests = 2
  MaxGhosts = 1
SPECIFICATION LiveSpec
INVARIANTS TypeOK StreamKept
PROPERTY ExpiredEnds
CHECK_DEADLOCK FALSE
