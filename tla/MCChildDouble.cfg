CONSTANTS
  t1 = t1
  t2 = t2
  Threads = {t1, t2}
  TokenCount = 4
  MaxDepth = 2
  Size = 9
  Word = 32
  Requests <- MCRequests
  Users = {t1, t2}
  Types = {"app", "log"}
  Needs <- MCNeeds
  Rank <- MCRank
  Unbuildable = {"log"}
  Root = "root"
  Child = "child"
  Setups <- MCSetups
  MaxBuilt = 3
  Workers = {t1, t2}
  Progresses = {"half"}
  Messages = {"almost done"}
  MaxUpdates = 2
  Panels <- MCPanels
  Gaps = {2, 4}
  Batches = {1}
  Period = 2
  MaxTests = 2
  MaxShapes = 2
  Names = {"first", "second", "third"}
  Ends <- MCEnds
  Values = {0, 1}
  Alphas = {0, 1}
  Tints <- MCTints
  Styles <- MCStyles
  Others = {"other"}
  MaxSize = 3
  Keys = {"W", "S", "D", "Q", "LSHIFT", "RSHIFT"}
  MaxMissed = 2
SPECIFICATION MCSpec
INVARIANT ChildSeesItsDouble
CHECK_DEADLOCK FALSE
