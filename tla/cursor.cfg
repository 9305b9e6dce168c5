SPECIFICATION FairSpec
CONSTANTS
  NVecs = 6
  Starts <- MCStarts
  Asks = {0, 1, 2, 3, 7}
INVARIANTS CursorInv InOrder
PROPERTIES BufferSpec CallsReturn
