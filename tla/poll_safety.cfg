SPECIFICATION Spec
CONSTANTS
  CmdrSize = 6
  Lens <- MCLens
  CmdIds <- MCIds
  MaxCmds = 3
  HandlerErrs = FALSE
  PollMayFail = TRUE
  WriteMayFail = TRUE
INVARIANTS TypeOK RingInv OwnCompletion CursorOrder OnAHeader NoWakeupLost ReplyInv
PROPERTIES TailPassesAnswered ServiceSpec
CHECK_DEADLOCK FALSE
