SPECIFICATION Spec
CONSTANTS
  Slots = {s1, s2, s3}
  Intervals = {1, 2}
  Delays = {0, 1}
  MaxTimerId = 3
  MaxCreated = 4
  MaxClock = 1
INVARIANTS
  TimersInv
PROPERTIES
  NeverEarly
SYMMETRY Perms
CHECK_DEADLOCK FALSE
