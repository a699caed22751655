CONSTANTS
  m1 = m1
  m2 = m2
  Messages = {m1, m2}
  MaxReceived = 2
SPECIFICATION ChannelSpec
INVARIANTS SendsInOrder AnswersAreTrue DisconnectedOnce AtMostOneLate
PROPERTIES FutureResolves PeerLossNoticed ShutdownEnds
CHECK_DEADLOCK FALSE
