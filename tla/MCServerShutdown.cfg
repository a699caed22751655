CONSTANTS
  k1 = k1
  k2 = k2
  Conns = {k1, k2}
  MaxBroadcasts = 1
  AnyTime = TRUE
  WhileConnecting = FALSE
  Replies = FALSE
SPECIFICATION MessagingSpec
PROPERTIES ServerShutdownEnds
CHECK_DEADLOCK FALSE
