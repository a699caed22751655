CONSTANTS
  c = c
  r1 = r1
  r2 = r2
  Threads = {c, r1, r2}
  Caller = c
  TokenCount = 3
  MaxDepth = 1
  Rounds = 1
  MaxRaises = 1
SPECIFICATION PublisherSpec
PROPERTY WaitReturns
CHECK_DEADLOCK FALSE
