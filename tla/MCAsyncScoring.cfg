SPECIFICATION AsyncSpec
CONSTANTS
  Null = Null
  t1 = t1
  p1 = p1
  p2 = p2
  w1 = w1
  c1 = c1
  TxIds = {t1}
  Payloads = {p1, p2}
  Scores = {0, 9}
  Versions = {1, 3}
  ZeroScore = 0
  Inferences <- MCInferences
  SeedRecords <- MCSeedRecords
  Procs = {w1, c1}
  ApiProcs = {c1}
  Workers = {w1}
  MaxJobs = 2
  MaxApiCalls = 1
  MaxCalls = 3
  MaxFaults = 1
  BrpopTimeout = 5
  SocketTimeout = 5
INVARIANTS JobsAccountedFor PoppedInOrder NoOrphanCall LoggedOutcomeIsStored
PROPERTIES JobsLostOnlyWithWorker ScoringUnchanged
