SPECIFICATION Spec
CONSTANTS
  NumStreams = 2
  NumFrames = 2
  Recycle = 2
  UseVcmd = FALSE
  HasLtm = FALSE
  CmdBufs = 2
  MaxPoll = 1
  MaxQuery = 1
  Faults <- DumpFault
INVARIANT PassIsOfThisRound
