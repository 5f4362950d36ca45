SPECIFICATION FairSpec
CONSTANTS
  u1 = u1
  u2 = u2
  NoOne = NoOne
  Url = {u1}
  Pass = {p1}
  Hand = {h1}
  Found = {"gone"}
  InitialCaches <- OneGone
  InitialBookmarks <- OneOrNone
  Editable = {u1}
  Decisions = {"gone", "remove", "keep"}
  CheckpointEvery = 1
  StrikeAttempts = 2
  Faults = {"cacheWrite", "bookmarks"}
  Mortal = {h1}
  WeekSecs = 1
  ConfirmGap = 1
  DurableRuns = 1
  DurableSecs = 1
  MaxTime = 2
PROPERTIES
  RequestsAnswered
  StaleEntriesGo
  WorksheetCatchesUp
