CONSTANTS
  k1 = k1
  k2 = k2
  Conns = {k1, k2}
  MaxBroadcasts = 1
  AnyTime = FALSE
  WhileConnecting = FALSE
  Replies = FALSE
SPECIFICATION MessagingSpec
INVARIANT OutlivesItsHandlers
CHECK_DEADLOCK FALSE
