CONSTANTS
  Readers = {r1, r2, r3}
  Keepers = {k1, k2}
  MaxHops = 2
SPECIFICATION Spec
INVARIANT OldLoopsExit
CHECK_DEADLOCK FALSE
