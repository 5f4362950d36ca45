SPECIFICATION FairSpec
CONSTANTS
  c1 = c1
  c2 = c2
  Address <- Addresses
  Loopback <- Trusted
  Unspecified = {"0.0.0.0"}
  LOCALHOST = "localhost"
  LOCALHOST4 = "127.0.0.1"
  LOCALHOST6 = "::1"
  Malformed = Malformed
  Unstated = Unstated
  Nowhere = Nowhere
  Default <- Defaults
  CMS_TOML = "cms.toml"
  text <- Texts
  SPARQL_SPACE_CEILING = 5
  DEFAULT_ANONYMOUS_SPARQL_BUDGET = 1
  Start <- Starts
  Client = {c1, c2}
  MaxFiles = 1
  BACKOFF_FLOOR = 1
  BACKOFF_CEILING = 6
  MaxFaults = 3
  Fault = {"port", "maintenance", "listener", "pressure", "error"}
INVARIANTS
  TypeOK
  EpisodeWaits
  CertNamesDial
PROPERTIES
  OnlyDeadListenerEnds
  NobodyWaitsForEver
  DoorReopens
CHECK_DEADLOCK FALSE
