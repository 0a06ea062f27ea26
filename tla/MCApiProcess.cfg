SPECIFICATION FairProcessSpec
CONSTANTS
  Null = Null
  Requests = {r1, r2, r3}
  Kinds = {"read", "score", "async"}
  Threads = 2
  Connections = 1
INVARIANTS StallNeedsCrowd NothingLeaks
PROPERTIES ClientSettles EveryRequestAnswered
