SPECIFICATION RequestSpec
CONSTANTS
  Null = Null
  Empty = ""
  Words <- MCWords
  Length <- MCLength
  Fields <- MCFields
  Required <- MCRequired
  Admitted <- MCAdmitted
  Limit <- MCLimit
  Width <- MCWidth
  Unstorable = {"nul"}
  Zones = {"UTC", "CET"}
  Unrepresentable = {9}
  MaxAmount = 2000
  Day = 2
  Earliest = 1
  Lag = 1
  Requests <- MCRequests
  SeedRecords <- MCSeedRecords
  MaxTime = 3
  MaxQueue = 1
INVARIANTS RetriesAreRecognised JobsSurviveTheQueue AcceptedCanBeStored
