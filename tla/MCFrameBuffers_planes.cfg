SPECIFICATION Spec
CONSTANTS
  Num = 2
  NumPlanes = 2
  NumPipes = 1
  MaxFb = 6
  Setups <- VcmdOnly
INVARIANT CommitsOwnFbs
