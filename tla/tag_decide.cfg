SPECIFICATION FairSpec
CONSTANTS
  b1 = b1
  b2 = b2
  w1 = w1
  w2 = w2
  t1 = t1
  NoOne = NoOne
  NoWork = NoWork
  Other = {}
  Tag = {t1, t2}
  Book = {b1}
  Work = {w1}
  Decider = {d1}
  Suggester = {s1}
  Upkeep = {k1}
  Exports <- OneWork
  InitialOverlays <- NothingYet
  Matches <- MatchNone
  StalePages = FALSE
  Faults = {"write", "death"}
PROPERTIES
  ChipsLeaveDecided
  DismissedStaysOut
  DecisionsAnswered
