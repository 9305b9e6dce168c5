SPECIFICATION FairSpec
CONSTANTS
  c1 = c1
  c2 = c2
  c3 = c3
  o1 = o1
  v1 = v1
  v2 = v2
  n1 = n1
  n2 = n2
  n3 = n3
  Calls <- MCTwo
  Others <- MCOther
  Volumes <- MCVolumes
  Numbers <- MCOneNumber
  None = None
  EventCap = 1
  MayTimeout = TRUE
INVARIANTS TypeOK UnlockPaired AloneInv
PROPERTIES CreateReturns
CHECK_DEADLOCK FALSE
