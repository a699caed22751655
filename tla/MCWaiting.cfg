CONSTANTS
  k1 = k1
  k2 = k2
  Conns = {k1, k2}
  MaxBroadcasts = 1
  AnyTime = FALSE
  WhileConnecting = FALSE
  Replies = FALSE
  waiter = waiter
  r1 = r1
  r2 = r2
  Threads = {waiter, r1, r2}
  Caller = waiter
  TokenCount = 3
  MaxDepth = 1
  Rounds = 2
  MaxRaises = 5
  Metrics = {"draw"}
  Latency = 3
SPECIFICATION MCSpec
INVARIANTS
  ToldInOrder OnlyTheRemovedLinger BroadcastReachesAll DropsOnlyLost
  FiringsAreHandedOver SamplesOfOneFrame
PROPERTIES
  DestructorsEnd LostIsFreed Reconnects MeasuresOn ServicesAreFound
CHECK_DEADLOCK FALSE
