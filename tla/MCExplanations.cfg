SPECIFICATION ExplanationSpec
CONSTANTS
  Null = Null
  Features = {"f1", "f2", "f3"}
  Weights <- MCWeights
  Values <- MCValues
  Amounts = {0, 1, 100}
  OldNumbers <- MCOldNumbers
  SeededStrengths = {0, 100, 150}
  MaxSeeded = 2
  Negligible = 1
  Full = 100
  TopK = 2
  OldLimit = 2
  Stub = Stub
INVARIANTS DirectionIsTrue ListAccountsForScore EverythingBuiltCanBeShown
