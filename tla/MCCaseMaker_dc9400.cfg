SPECIFICATION Spec
CONSTANTS
  CasesOf <- AllCases
  GoldenOf <- AllGolden
  Upgrades <- OldToNew
  CidsOf <- SomeCids
  Filters <- SomeFilters
  DieAt <- Deaths
  OnlyOnce <- TheWhole
  MaxParts = 3
INVARIANTS TypeOK NothingOverwritten LoadsWhatWasMade OnlyLastTorn GoldenOfOwnCase
           WrittenInFull OnDisplay ScalersAgree StripesTile
