SPECIFICATION SightSpec
CONSTANTS
  u1 = u1
  u2 = u2
  NoOne = NoOne
  Url = {u1}
  Pass = {p1}
  Hand = {}
  Found = {"alive", "gone", "unreachable", "refused", "nxdomain"}
  InitialCaches <- Unchecked
  InitialBookmarks <- JustOne
  Editable = {}
  Decisions = {}
  CheckpointEvery = 1
  StrikeAttempts = 2
  Faults = {}
  Mortal = {}
  WeekSecs = 1
  ConfirmGap = 2
  DurableRuns = 2
  DurableSecs = 1
  MaxTime = 4
INVARIANTS
  BrokenIsAttested
  OfferedIsUnanswered
  DeadDomainTwoRuns
PROPERTIES
  VerdictNotLowered
