SPECIFICATION Spec
CONSTANTS
  k1 = k1
  k2 = k2
  k3 = k3
  k4 = k4
  s1 = s1
  s2 = s2
  r1 = r1
  r2 = r2
  c1 = c1
  None = None
  Ceremony = {k1, k2, k3}
  Sid = {s1, s2}
  Request = {r1, r2}
  Conn = {c1}
SYMMETRY Interchangeable
INVARIANT EnsuredIsThere
