SPECIFICATION AsyncFairSpec
CONSTANTS
  Null = Null
  t1 = t1
  p1 = p1
  p2 = p2
  w1 = w1
  w2 = w2
  TxIds = {t1}
  Payloads = {p1, p2}
  Scores = {0, 9}
  Versions = {1, 3}
  ZeroScore = 0
  Inferences <- MCInferences
  SeedRecords <- MCSeedRecords
  Procs = {w1, w2}
  ApiProcs = {}
  Workers = {w1, w2}
  MaxJobs = 2
  MaxApiCalls = 0
  MaxCalls = 2
  MaxFaults = 1
  BrpopTimeout = 5
  SocketTimeout = 30
PROPERTIES JobsAreDrained StopEndsWorker
