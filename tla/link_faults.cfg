SPECIFICATION IntentSpec
CONSTANTS
  u1 = u1
  u2 = u2
  NoOne = NoOne
  Url = {u1, u2}
  Pass = {p1}
  Hand = {h1, h2}
  Found = {"gone"}
  InitialCaches <- OneLegacy
  InitialBookmarks <- JustOne
  Editable = {u2}
  Decisions = {"remove", "keep"}
  CheckpointEvery = 2
  StrikeAttempts = 2
  Faults = {"cacheWrite", "worksheet", "bookmarks"}
  Mortal = {p1, h1, h2}
  WeekSecs = 1
  ConfirmGap = 1
  DurableRuns = 1
  DurableSecs = 1
  MaxTime = 1
SYMMETRY Interchangeable
CONSTRAINT TwoAtOnce
VIEW Unread
INVARIANTS
  RemovedStaysOut
  NoResurrection
  EditsSurvive
PROPERTIES
  KeepSticks
