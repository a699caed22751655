SPECIFICATION AllocatorSpec
CONSTANTS
  Size = 9
  Word = 32
  Requests <- MCRequests
PROPERTY MergesInPlace
CHECK_DEADLOCK FALSE
