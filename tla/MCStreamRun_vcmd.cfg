SPECIFICATION Spec
CONSTANTS
  NumStreams = 2
  NumFrames = 2
  Recycle = 1
  UseVcmd = TRUE
  HasLtm = TRUE
  CmdBufs = 2
  MaxPoll = 1
  MaxQuery = 1
  Faults <- AllFaults
INVARIANTS FreedUnderThread ReadAfterReleaseOnlyAtFailure JoinReturns
