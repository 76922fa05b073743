SPECIFICATION Spec
CONSTANTS
  U = 2
  MinPortal = 3
  o1 = o1
  o2 = o2
  o3 = o3
  Owners = {o1, o2, o3}
  MaxBalance = 2
  MaxAmount = 4
INVARIANTS
  WalkIsFifoDebit
CHECK_DEADLOCK FALSE
