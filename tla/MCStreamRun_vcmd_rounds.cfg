SPECIFICATION Spec
CONSTANTS
  NumStreams = 2
  NumFrames = 2
  Recycle = 2
  UseVcmd = TRUE
  HasLtm = FALSE
  CmdBufs = 2
  MaxPoll = 1
  MaxQuery = 1
  Faults <- NoFaults
INVARIANT SetWithBuffers
