SPECIFICATION FairSpec
CONSTANTS
  s1 = s1
  s2 = s2
  c1 = c1
  c2 = c2
  c3 = c3
  k1 = k1
  None = None
  Sid = {s1, s2}
  Conn = {c1, c2, c3}
  Call = {k1}
INVARIANTS
  ReadyIsBridged
  LeftIsClosed
PROPERTIES
  ViewsAnswered
  ConnectEnds
