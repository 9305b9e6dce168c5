SPECIFICATION Spec
CONSTANTS
  c1 = c1
  c2 = c2
  c3 = c3
  o1 = o1
  v1 = v1
  v2 = v2
  n1 = n1
  n2 = n2
  n3 = n3
  Calls <- MCOne
  Others <- MCNoOther
  Volumes <- MCVolume
  Numbers <- MCTwoNumbers
  None = None
  EventCap = 1
  MayTimeout = FALSE
INVARIANTS OpenIsKnown
CHECK_DEADLOCK FALSE
