SPECIFICATION FairSpec
CONSTANTS
  Num = 3
  UseVcmd = TRUE
  HasLtm = TRUE
  CmdBufs = 3
  MaxPoll = 1
  MaxQuery = 1
  Faults <- NoFaults
PROPERTY LtmFollowsCommits
CHECK_DEADLOCK FALSE
