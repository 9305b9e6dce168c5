SPECIFICATION CloseFairSpec
CONSTANTS
  CmdrSize = 5
  Lens <- MCLens
  CmdIds <- MCIds
  MaxCmds = 3
  HandlerErrs = FALSE
  PollMayFail = TRUE
  WriteMayFail = FALSE
  TeardownMayFail = TRUE
  MayTimeout = TRUE
INVARIANTS NothingLeftAtUnmap NoFaultAtRest NoSendOnClosed
PROPERTIES LoopSpec EveryCommandDone CloseReturns
CHECK_DEADLOCK FALSE
