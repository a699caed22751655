SPECIFICATION MCSpec
CONSTANTS
  Nobody = Nobody
  Handles = {curve}
  Curves <- MCCurves
  MaxSlots = 3
  MaxPatternCount = 4
  DistanceGroupSize = 4
  OffsetGroupSize = 2
  OffsetBanks = 2
  DistanceCalls <- MCDistanceCalls
  OffsetCalls <- MCOffsetCalls
  None = None
  Depths = {1, 2}
  Textures = {"texture"}
  Targets = {"target"}
  DepthBuffers = {"depth"}
  Mips = {0, 1}
  ViewSlots = {0, 1}
  All = All
VIEW MCView
INVARIANTS
  DrawsEverySegment PlacesEveryCenter BuffersSuffice
  ScansAddUp NoRace BindingsHold CacheSuffices
CHECK_DEADLOCK FALSE
