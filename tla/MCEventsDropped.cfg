CONSTANTS
  t1 = t1
  t2 = t2
  Threads = {t1, t2}
  TokenCount = 4
  MaxDepth = 2
SPECIFICATION Spec
INVARIANT RevokedStaysSilent
