SPECIFICATION Spec
CONSTANTS
  d1 = d1
  d2 = d2
  room = room
  t1 = t1
  Absent = Absent
  Plain = Plain
  Unset = Unset
  DECKS_IRI = DECKS_IRI
  r1 = r1
  owner = owner
  Deck = {d1, d2}
  Reader = {r1}
  Cap = {room, owner}
  may <- Grants
  path <- Paths
  base_url = FALSE
  Skipped = {"dist"}
  Grouping = {"conferences"}
  lower <- Lowers
  Text = {t1}
  Trees <- TwoTrees
  MaxChanges = 2
  Accidents = {"move", "overflow"}
INVARIANTS
  TypeOK
  CurrentWhenApplied
  NamesWhatMayBeRead
CHECK_DEADLOCK FALSE
