SPECIFICATION Spec
CONSTANTS
  c1 = c1
  c2 = c2
  c3 = c3
  o1 = o1
  v1 = v1
  v2 = v2
  n1 = n1
  n2 = n2
  n3 = n3
  Calls <- MCThree
  Others <- MCNoOther
  Volumes <- MCVolumes
  Numbers <- MCNumbers
  None = None
  EventCap = 2
  MayTimeout = FALSE
SYMMETRY MCSymmetry
INVARIANTS OwnNumber NeverNil SessionInv OpenIsAccounted
PROPERTIES RegistrySpec
CHECK_DEADLOCK FALSE
