SPECIFICATION ReadSpec
CONSTANTS
  Null = Null
  t1 = t1
  t2 = t2
  t3 = t3
  p1 = p1
  p2 = p2
  TxIds = {t1, t2, t3}
  BareIds = {t1}
  Payloads = {p1, p2}
  Scores = {0}
  Versions = {1}
  Times = {1, 2, 3}
  Filters <- MCFilters
  Limit = 1
  MaxCommits = 3
CHECK_DEADLOCK FALSE
SYMMETRY IdSymmetry
INVARIANTS PageHonoursTotal WalkMissesNothing RepeatsOnlyAfterCommits LabelsAgree DetailIsConsistent
