SPECIFICATION GateSpec
CONSTANTS
  a1 = a1
  a2 = a2
  IPs = {a1, a2}
  Window = 2
  FraudLimit = 1
  ApiLimit = 2
  CheckBody = TRUE
  MaxTime = 6
  MaxRequests = 5
SYMMETRY IPSymmetry
INVARIANTS LimitsHold RefusedOnlyWhenBusy
PROPERTY RetryAfterHonoured
