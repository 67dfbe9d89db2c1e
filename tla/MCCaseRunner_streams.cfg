SPECIFICATION Spec
CONSTANTS
  Plan <- TwoCases
  MayMiss <- NoCases
  StreamCases <- OnlyA
  NumUnits = 2
  NumWbs = 1
  Goldens <- FullGoldens
  Leftovers <- Empty
  Args <- Md5Args
  Faults <- NoFaults
INVARIANTS PassMeansMatched
