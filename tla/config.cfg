SPECIFICATION Spec
CONSTANTS
  UioMayBeMissing = FALSE
INVARIANTS ConfigInv CleanSlate RemovalInOrder
PROPERTIES NoStaleNode 
