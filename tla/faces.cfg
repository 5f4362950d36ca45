SPECIFICATION Spec
CONSTANTS
  r1 = r1
  c1 = c1
  s1 = s1
  p1 = p1
  t1 = t1
  None = None
  Address <- Addresses
  Loopback <- Trusted
  Unspecified = {"0.0.0.0"}
  LOCALHOST = "localhost"
  LOCALHOST4 = "127.0.0.1"
  LOCALHOST6 = "::1"
  Malformed = Malformed
  Unstated = Unstated
  Nowhere = Nowhere
  Default <- Defaults
  CMS_TOML = "cms.toml"
  text <- Texts
  SPARQL_SPACE_CEILING = 4
  DEFAULT_ANONYMOUS_SPARQL_BUDGET = 2
  Start <- Starts
  Request = {r1}
  Conn = {c1}
  Sid = {s1}
  Principal = {p1}
  Tag = {t1}
  Kind = {"book", "bookmark"}
  Target <- Targets
  Carried <- Carries
  HostHeader <- Hosts
  OriginHeader <- Origins
  RECENT_CAP = 2
  MaxOpens = 3
INVARIANTS
  OpenOnlyAtHome
  AuthorityIsEarned
  DoorHolds
PROPERTIES
  TrailIsLatest
