CONSTANTS
  MaxLogins = 1
  MaxRequests = 2
  MaxGhosts = 0
SPECIFICATION Spec
PROPERTY WrongIsNotExpired
CHECK_DEADLOCK FALSE
