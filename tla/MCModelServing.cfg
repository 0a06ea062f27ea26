SPECIFICATION ServingSpec
CONSTANTS
  Null = Null
  Stub = Stub
  Torn = Torn
  Columns <- MCColumns
  Attribute <- MCAttribute
  Labels = {0, 1}
  Specs <- MCSpecs
  Frames <- MCFrames
  Requests <- MCRequests
  Api = {api}
  Workers = {worker}
  Configured = {api, worker}
  MaxTrainings = 2
CHECK_DEADLOCK FALSE
INVARIANTS LoadedBundleIsWhole OnlyIncompleteIsRefused NothingMadeUp ScoreIsOfFraud
