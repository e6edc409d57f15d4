CONSTANTS
  c1 = c1
  c2 = c2
  tank = tank
  Calls = {c1, c2}
  Targets = {tank}
  TargetOf <- MCTargetOf
  MaxLines = 1
  Sudo = TRUE
  MaxOutput = 2
  MaxRestarts = 1
SPECIFICATION Spec
INVARIANTS
  TypeOK
  CancelDecides
  ToldInOrder
  RingIsTail
PROPERTIES
  CancelEnds
  ImplementsLifecycle
