SPECIFICATION Spec
CONSTANTS
  CmdrSize = 7
  Lens <- MCLens
  CmdIds <- MCIds
  MaxCmds = 2
  HandlerErrs = TRUE
  PollMayFail = FALSE
  WriteMayFail = FALSE
INVARIANTS ErrorEndsService
CHECK_DEADLOCK FALSE
