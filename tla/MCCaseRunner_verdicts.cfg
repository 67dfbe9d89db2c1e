SPECIFICATION Spec
CONSTANTS
  Plan <- TwoCases
  MayMiss <- OnlyA
  StreamCases <- NoCases
  NumUnits = 2
  NumWbs = 2
  Goldens <- SomeGoldens
  Leftovers <- SomeLeftovers
  Args <- AllArgs
  Faults <- AllFaults
INVARIANTS TypeOK PassMeansMatched PassOnItsFiles UnsupportOfThisCase FreshDriver DriverLeftAsFound
