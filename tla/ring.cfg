SPECIFICATION FairSpec
CONSTANTS
  RingSize = 3
  InFlight = 2
  MaxCmds = 4
  HandlerErrs = FALSE
  MayStop = TRUE
INVARIANTS SlotInv NoIndexLost
PROPERTIES NoAnswerLost ServiceSpec EveryCommandDone
CHECK_DEADLOCK FALSE
