SPECIFICATION Spec
CONSTANTS
  Null = Null
  t1 = t1
  p1 = p1
  p2 = p2
  TxIds = {t1}
  Payloads = {p1, p2}
  Scores = {0, 2, 9}
  Versions = {1, 2, 3}
  ZeroScore = 0
  Inferences <- MCInferences
  SeedRecords = {}
  Procs = {w1, w2}
  MaxCalls = 3
INVARIANT OtherDataIsRefused
