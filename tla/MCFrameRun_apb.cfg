SPECIFICATION FairSpec
CONSTANTS
  Num = 4
  UseVcmd = FALSE
  HasLtm = FALSE
  CmdBufs = 2
  MaxPoll = 1
  MaxQuery = 1
  Faults <- NoTimeOut
INVARIANTS AllReleased NoLostWakeup
PROPERTIES Termination CommittedIsDumped
