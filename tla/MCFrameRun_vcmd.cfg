SPECIFICATION Spec
CONSTANTS
  Num = 3
  UseVcmd = TRUE
  HasLtm = TRUE
  CmdBufs = 2
  MaxPoll = 1
  MaxQuery = 1
  Faults <- AllFaults
INVARIANTS TypeOK FreshDump OneReleaser ReadAfterReleaseOnlyAtFailure
           LtmTargetQueued MutexHolder
PROPERTIES ImplementsDumpOrder
CHECK_DEADLOCK FALSE
