SPECIFICATION Spec
CONSTANTS
  b1 = b1
  b2 = b2
  w1 = w1
  w2 = w2
  t1 = t1
  NoOne = NoOne
  NoWork = NoWork
  Other = {}
  Tag = {t1}
  Book = {b1, b2}
  Work = {w1}
  Decider = {d1}
  Suggester = {}
  Upkeep = {k1}
  Exports <- Duplicates
  InitialOverlays <- OneChip
  Matches <- MatchOne
  StalePages = FALSE
  Faults = {"write", "death"}
PROPERTIES
  DecisionsStay
  MigrationCovers
