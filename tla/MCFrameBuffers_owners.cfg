SPECIFICATION Spec
CONSTANTS
  Num = 3
  NumPlanes = 1
  NumPipes = 1
  MaxFb = 12
  Setups <- AllSetups
INVARIANTS TypeOK HeldBuffersExist OneOwner CommitsOwnFbs NothingLost RamlessLives
