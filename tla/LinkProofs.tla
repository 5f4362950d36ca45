------------------------------ MODULE LinkProofs ------------------------------
(***************************************************************************)
(* The link review for any number of URLs, passes and requests.            *)
(*                                                                         *)
(* First LinkReview by itself: its variables keep their types, the cache's *)
(* lock is exclusive and whoever saves under it saves a change of what the *)
(* file holds now, and so no write drops the human's decision on a link by *)
(* accident.  Then what people meant (LinkIntent): no pass writes back     *)
(* what somebody removed while it ran, and no strike undoes an edit it     *)
(* could see.  Last what the checks saw (LinkEvidence): what a confirmed   *)
(* dead domain, a broken link and an offer to remove one rest on.          *)
(***************************************************************************)
EXTENDS LinkIntent, LinkEvidence, TLAPS

-------------------------------------------------------------------------------
(* The operators of LinkStatus, for every value of its thresholds.         *)

\* No recorded entry is mistaken for a missing one.
LEMMA AbsentIsNotStatus == Absent \notin Status
BY DEF Absent, Status, Broken

LEMMA AbsentIsEntry == Absent \in Entry /\ ~ Absent.kept
BY DEF Absent, Entry

\* Reading an old cache yields entries of the current vocabulary, with the
\* human's decision untouched (migrate).
LEMMA MigrateType ==
  ASSUME NEW s \in Entry
  PROVE  /\ migrate(s) \in Entry
         /\ migrate(s).kept = s.kept
         /\ migrate(s) = Absent <=> s = Absent
<1>1. CASE s = Absent
  BY <1>1 DEF migrate, Absent, Entry
<1>2. CASE s \in Status
  <2>1. CASE s.status = "gone" /\ s.nx
    <3>1. migrate(s) = [s EXCEPT !.status = "nxdomain"]
      BY <2>1 DEF migrate
    <3>2. migrate(s) \in Status /\ migrate(s).kept = s.kept
      BY <3>1, <1>2 DEF Status, Broken
    <3> QED BY <3>2, <1>2, AbsentIsNotStatus DEF Entry
  <2>2. CASE ~ (s.status = "gone" /\ s.nx)
    BY <2>2 DEF migrate
  <2> QED BY <2>1, <2>2
<1> QED BY <1>1, <1>2 DEF Entry

LEMMA SaturatingIncType ==
  ASSUME NEW n \in 0 .. DurableRuns
  PROVE  SaturatingInc(n) \in 0 .. DurableRuns
BY PolicyAssumption DEF SaturatingInc

\* One check turns whatever entry the pass started from into a recorded one,
\* and never touches the human's decision (merge).
LEMMA MergeType ==
  ASSUME NEW prev \in Entry, NEW outcome \in Outcome, NEW t \in Time
  PROVE  /\ merge(prev, outcome, t) \in Status
         /\ merge(prev, outcome, t).kept = prev.kept
<1> DEFINE m == merge(prev, outcome, t)
<1>1. Verdict(prev, outcome, t) \in {"ok"} \cup Broken
  BY DEF Verdict, Outcome, Broken
<1>2. /\ prev.first \in Timestamp
      /\ prev.count \in 0 .. DurableRuns
      /\ prev.kept \in BOOLEAN
  <2>1. CASE prev = Absent
    BY <2>1, PolicyAssumption DEF Absent, Timestamp
  <2>2. CASE prev \in Status
    BY <2>2 DEF Status
  <2> QED BY <2>1, <2>2 DEF Entry
<1>3. t \in Timestamp /\ 0 \in Timestamp
  BY PolicyAssumption DEF Time, Timestamp
<1>4. (IF outcome = "alive" THEN 0
       ELSE IF StillBroken(prev) THEN prev.first ELSE t) \in Timestamp
  BY <1>2, <1>3
<1>5. (IF outcome = "alive" THEN 0
       ELSE IF StillBroken(prev) THEN SaturatingInc(prev.count) ELSE 1)
         \in 0 .. DurableRuns
  BY <1>2, SaturatingIncType, PolicyAssumption
<1> QED BY <1>1, <1>2, <1>3, <1>4, <1>5 DEF merge, Status

\* A link the human kept is in no removal set (candidates).
THEOREM KeptIsNoCandidate ==
  ASSUME NEW set, NEW entries, NEW t, NEW u \in candidates(set, entries, t)
  PROVE  ~ kept(entries[u])
BY DEF candidates, Candidate

-------------------------------------------------------------------------------
(* What is read is typed.                                                  *)

Cache == [Url -> Entry]

LEMMA NoEntriesType == NoEntries \in Cache
BY AbsentIsEntry DEF NoEntries, Cache

LEMMA LoadType ==
  ASSUME FilesOK
  PROVE  load_status \in Cache /\ Loads \subseteq Cache
<1>1. load_status \in Cache
  BY MigrateType DEF FilesOK, load_status, Cache
<1> QED BY <1>1, NoEntriesType DEF Loads

LEMMA BucketsType ==
  ASSUME NEW c \in Cache
  PROVE  buckets(c) \in SUBSET Url
BY DEF buckets, Cache

LEMMA CandidatesType ==
  ASSUME FilesOK, NEW set
  PROVE  candidates(set, load_status, clock) \in SUBSET Url
BY LoadType DEF candidates, Cache

-------------------------------------------------------------------------------
(* Every action keeps the types.                                           *)

LEMMA InitTypeOK == Init => TypeOK
<1> SUFFICES ASSUME Init PROVE TypeOK
  OBVIOUS
<1>1. FilesOK
  <2>1. clock \in Time
    BY PolicyAssumption DEF Init, Time
  <2>2. cache \in Cache
    BY ReviewAssumption DEF Init, Cache
  <2>3. worksheet \in SUBSET Url
    BY <2>2, BucketsType DEF Init
  <2>4. bookmarks \in SUBSET Url
    BY ReviewAssumption DEF Init
  <2> QED BY <2>1, <2>2, <2>3, <2>4 DEF Init, FilesOK, Cache
<1>2. PlacesOK
  BY DEF Init, PlacesOK, Actor, PassPc, HandPc
<1>3. DraftsOK
  BY PolicyAssumption, NoEntriesType DEF Init, DraftsOK, Time, Cache
<1>4. PassOK
  BY ReviewAssumption, NoEntriesType DEF Init, PassOK, Cache
<1>5. HandOK
  BY ReviewAssumption DEF Init, HandOK, Decision
<1> QED BY <1>1, <1>2, <1>3, <1>4, <1>5 DEF TypeOK, Init

\* Moving one actor to a place of its own kind moves nobody else.
LEMMA GotoType ==
  ASSUME PlacesOK, NEW a \in Actor, NEW step, Goto(a, step),
         a \in Pass => step \in PassPc,
         a \in Hand => step \in HandPc
  PROVE  /\ PlacesOK'
         /\ pc'[a] = step
         /\ \A b \in Actor \ {a} : pc'[b] = pc[b]
BY DEF PlacesOK, Goto, Actor

\* An actor that is through goes idle and leaves typed locals.
LEMMA FinishType ==
  ASSUME PlacesOK, DraftsOK, PassOK, HandOK, NEW a \in Actor, Finish(a)
  PROVE  /\ PlacesOK' /\ DraftsOK' /\ PassOK' /\ HandOK'
         /\ pc'[a] = "idle"
         /\ \A b \in Actor \ {a} : pc'[b] = pc[b] /\ draft'[b] = draft[b]
<1>1. /\ PlacesOK' /\ pc'[a] = "idle"
      /\ \A b \in Actor \ {a} : pc'[b] = pc[b]
  BY GotoType DEF Finish, PassPc, HandPc
<1>2. DraftsOK' /\ \A b \in Actor \ {a} : draft'[b] = draft[b]
  BY PolicyAssumption, NoEntriesType DEF Finish, DraftsOK, Time, Cache
<1>3. CASE a \in Pass
  <2>1. PassOK'
    <3>1. 0 \in 0 .. CheckpointEvery - 1
      BY ReviewAssumption
    <3>2. ForgetPass(a)
      BY <1>3 DEF Finish
    <3> QED BY <1>3, <3>1, <3>2, NoEntriesType DEF ForgetPass, PassOK, Cache
  <2>2. HandOK'
    BY <1>3 DEF Finish, ForgetPass, HandOK, handVars
  <2> QED BY <1>1, <1>2, <2>1, <2>2
<1>4. CASE a \notin Pass
  <2>1. PassOK'
    BY <1>4 DEF Finish, ForgetHand, PassOK, passVars
  <2>2. HandOK'
    BY <1>4, ReviewAssumption DEF Finish, ForgetHand, HandOK, Decision
  <2> QED BY <1>1, <1>2, <2>1, <2>2
<1> QED BY <1>3, <1>4

LEMMA AcquireType ==
  ASSUME TypeOK, NEW a \in Actor, NEW from, NEW to, Acquire(a, from, to),
         a \in Pass => to \in PassPc,
         a \in Hand => to \in HandPc
  PROVE  TypeOK'
<1>1. PlacesOK'
  BY GotoType DEF Acquire, TypeOK
<1>2. FilesOK' /\ PassOK' /\ HandOK'
  BY DEF Acquire, TypeOK, FilesOK, PassOK, HandOK, files, passVars, handVars
<1>3. DraftsOK'
  BY LoadType DEF Acquire, TypeOK, DraftsOK, Cache
<1> QED BY <1>1, <1>2, <1>3 DEF Acquire, TypeOK

LEMMA ReportType ==
  ASSUME TypeOK, NEW a \in Actor, Report(a)
  PROVE  TypeOK'
<1>1. FilesOK'
  <2>1. worksheet' \in SUBSET Url
    BY BucketsType DEF Report, TypeOK, FilesOK, Cache
  <2> QED BY <2>1 DEF Report, TypeOK, FilesOK
<1>2. lock' \in Actor \cup {NoOne}
  BY DEF Report, Release, TypeOK
<1>3. CASE pc[a] = "report"
  <2>1. Finish(a)
    BY <1>3 DEF Report
  <2> QED BY <1>1, <1>2, <2>1, FinishType DEF TypeOK
<1>4. CASE pc[a] = "ckReport"
  <2>1. Goto(a, "check")
    BY <1>4 DEF Report
  <2>2. a \notin Hand
    BY <1>4 DEF TypeOK, PlacesOK, HandPc
  <2>3. PlacesOK'
    BY <2>1, <2>2, GotoType DEF TypeOK, PassPc
  <2>4. DraftsOK' /\ PassOK' /\ HandOK'
    BY <1>4, NoEntriesType
    DEF Report, TypeOK, DraftsOK, PassOK, HandOK, passVars, handVars, Cache
  <2> QED BY <1>1, <1>2, <2>3, <2>4 DEF TypeOK
<1> QED BY <1>3, <1>4 DEF Report

\* What a pass keeps of what it learned, and what it writes, are entries.
LEMMA MergedType ==
  ASSUME TypeOK, NEW p \in Pass
  PROVE  /\ Retained(p) \in Cache
         /\ \A u \in Url : Merged(p, u) \in Entry
<1>1. learned[p] \in Cache /\ draft[p] \in Cache
  BY DEF TypeOK, DraftsOK, PassOK, Cache, Actor
<1>2. Retained(p) \in Cache
  BY <1>1, AbsentIsEntry DEF Retained, Cache
<1>3. ASSUME NEW u \in Url PROVE Merged(p, u) \in Entry
  <2>1. CASE Retained(p)[u] = Absent
    BY <2>1, <1>1 DEF Merged, Cache
  <2>2. CASE Retained(p)[u] # Absent
    <3>1. Retained(p)[u] \in Status
      BY <2>2, <1>2 DEF Cache, Entry
    <3> DEFINE k == Retained(p)[u].kept \/ draft[p][u].kept
    <3>2. k \in BOOLEAN
      BY Zenon
    <3> HIDE DEF k
    <3>3. [Retained(p)[u] EXCEPT !.kept = k] \in Status
      BY <3>1, <3>2 DEF Status
    <3>4. Merged(p, u) = [Retained(p)[u] EXCEPT !.kept = k]
      BY <2>2 DEF Merged, k
    <3> QED BY <3>3, <3>4 DEF Entry
  <2> QED BY <2>1, <2>2
<1> QED BY <1>2, <1>3

LEMMA PassStepType ==
  ASSUME TypeOK, NEW p \in Pass, PassStep(p)
  PROVE  TypeOK'
<1> p \in Actor /\ p \notin Hand
  BY ReviewAssumption DEF Actor
<1> USE DEF TypeOK
<1>1. CASE PassBegin(p)
  <2>1. PlacesOK'
    BY <1>1, GotoType DEF PassBegin, PassPc
  <2>2. FilesOK' /\ HandOK'
    BY <1>1 DEF PassBegin, files, handVars, FilesOK, HandOK
  <2>3. DraftsOK' /\ PassOK'
    BY <1>1 DEF PassBegin, DraftsOK, PassOK, FilesOK
  <2> QED BY <1>1, <2>1, <2>2, <2>3 DEF PassBegin
<1>2. CASE PassLoad(p)
  <2>1. PlacesOK'
    BY <1>2, GotoType DEF PassLoad, PassPc
  <2>2. FilesOK' /\ HandOK' /\ DraftsOK'
    BY <1>2 DEF PassLoad, files, handVars, FilesOK, HandOK, DraftsOK
  <2>3. PICK c \in Loads :
           /\ start' = [start EXCEPT ![p] = c]
           /\ known' = [known EXCEPT ![p] = {u \in Url : c[u] # Absent}]
           /\ \E batch \in SUBSET {u \in listed[p] : ~ fresh(c[u], now[p])} :
                todo' = [todo EXCEPT ![p] = batch]
    BY <1>2 DEF PassLoad
  <2>4. PassOK'
    BY <1>2, <2>3, LoadType DEF PassLoad, PassOK, Cache
  <2> QED BY <1>2, <2>1, <2>2, <2>4 DEF PassLoad
<1>3. CASE CheckpointLock(p)
  BY <1>3, AcquireType DEF CheckpointLock, PassPc, Held
<1>4. CASE FinalLock(p)
  BY <1>4, AcquireType DEF FinalLock, PassPc, Held
<1>5. CASE PassSave(p)
  <2>1. PlacesOK'
    BY <1>5, GotoType DEF PassSave, PassPc, Held
  <2>2. DraftsOK' /\ HandOK'
    BY <1>5 DEF PassSave, handVars, DraftsOK, HandOK
  <2>3. FilesOK'
    BY <1>5, MergedType, AbsentIsEntry DEF PassSave, FilesOK
  <2>4. PassOK'
    BY <1>5, MergedType DEF PassSave, PassOK, Cache
  <2> QED BY <1>5, <2>1, <2>2, <2>3, <2>4 DEF PassSave
<1>6. CASE PassLockFails(p)
  <2>1. FilesOK' /\ lock' = lock
    BY <1>6 DEF PassLockFails, files, FilesOK
  <2>2. CASE Finish(p)
    BY <2>1, <2>2, FinishType
  <2>3. CASE Goto(p, "check") /\ UNCHANGED <<now, draft, passVars, handVars>>
    BY <2>1, <2>3, GotoType
    DEF PassPc, DraftsOK, PassOK, HandOK, passVars, handVars
  <2> QED BY <1>6, <2>2, <2>3 DEF PassLockFails
<1>7. CASE PassSaveFails(p)
  <2>1. FilesOK' /\ lock' \in Actor \cup {NoOne}
    BY <1>7 DEF PassSaveFails, Release, files, FilesOK
  <2>2. CASE pc[p] = "save"
    <3>1. Finish(p)
      BY <1>7, <2>2 DEF PassSaveFails
    <3> QED BY <2>1, <3>1, FinishType
  <2>3. CASE pc[p] # "save"
    <3>1. PlacesOK'
      BY <1>7, <2>3, GotoType DEF PassSaveFails, PassPc
    <3>2. DraftsOK' /\ HandOK'
      BY <1>7, <2>3, NoEntriesType
      DEF PassSaveFails, DraftsOK, HandOK, handVars, Cache
    <3>3. PassOK'
      BY <1>7, <2>3, MergedType DEF PassSaveFails, PassOK, Cache
    <3> QED BY <2>1, <3>1, <3>2, <3>3
  <2> QED BY <2>2, <2>3
<1>8. CASE Report(p)
  BY <1>8, ReportType
<1>9. CASE Die(p)
  BY <1>9, FinishType DEF Die, Release, files, FilesOK
<1> QED
  BY <1>1, <1>2, <1>3, <1>4, <1>5, <1>6, <1>7, <1>8, <1>9 DEF PassStep

LEMMA CheckType ==
  ASSUME TypeOK, NEW p \in Pass, NEW u \in Url, NEW o \in Found, Check(p, u, o)
  PROVE  TypeOK'
<1> p \in Actor /\ p \notin Hand
  BY ReviewAssumption DEF Actor
<1> USE DEF TypeOK
<1>1. PlacesOK'
  BY GotoType DEF Check, PassPc
<1>2. FilesOK' /\ HandOK' /\ DraftsOK'
  BY DEF Check, files, handVars, FilesOK, HandOK, DraftsOK
<1>3. merge(start[p][u], o, now[p]) \in Entry
  <2>1. start[p][u] \in Entry /\ now[p] \in Time /\ o \in Outcome
    BY ReviewAssumption DEF PassOK, DraftsOK
  <2> QED BY <2>1, MergeType DEF Entry
<1>4. (done[p] + 1) % CheckpointEvery \in 0 .. CheckpointEvery - 1
  BY ReviewAssumption DEF PassOK
<1>5. PassOK'
  BY <1>3, <1>4 DEF Check, PassOK
<1> QED BY <1>1, <1>2, <1>5 DEF Check

LEMMA HandStepType ==
  ASSUME TypeOK, NEW h \in Hand, HandStep(h)
  PROVE  TypeOK'
<1> h \in Actor /\ h \notin Pass
  BY ReviewAssumption DEF Actor
<1> USE DEF TypeOK
<1>1. ASSUME NEW d, NEW urls \in SUBSET Url, NEW step \in {"read", "lock"},
             HandBegin(h, d, urls, step)
      PROVE  TypeOK'
  <2>1. PlacesOK'
    BY <1>1, GotoType DEF HandBegin, HandPc
  <2>2. FilesOK' /\ PassOK'
    BY <1>1 DEF HandBegin, files, passVars, FilesOK, PassOK
  <2>3. DraftsOK' /\ HandOK'
    BY <1>1, ReviewAssumption DEF HandBegin, DraftsOK, HandOK, FilesOK
  <2> QED BY <1>1, <2>1, <2>2, <2>3 DEF HandBegin
<1>2. CASE \E set \in RemovalSet : PurgeBegin(h, set)
  BY <1>1, <1>2, CandidatesType DEF PurgeBegin
<1>3. CASE \E u \in Url : RemoveBegin(h, u) \/ KeepBegin(h, u)
  BY <1>1, <1>3 DEF RemoveBegin, KeepBegin
<1>4. CASE StrikeRead(h)
  BY <1>4, GotoType
  DEF StrikeRead, HandPc, files, passVars, FilesOK, DraftsOK, PassOK, HandOK
<1>5. CASE StrikeReread(h)
  BY <1>5, GotoType
  DEF StrikeReread, HandPc, files, passVars, handVars, FilesOK, DraftsOK, PassOK, HandOK
<1>6. CASE StrikeAgain(h)
  <2>1. tries[h] + 1 \in 0 .. StrikeAttempts
    BY <1>6, ReviewAssumption DEF StrikeAgain, HandOK
  <2>2. HandOK'
    BY <1>6, <2>1 DEF StrikeAgain, HandOK
  <2> QED BY <1>6, <2>2, GotoType
          DEF StrikeAgain, HandPc, files, passVars, FilesOK, DraftsOK, PassOK
<1>7. CASE StrikeRefuses(h)
  BY <1>7, FinishType DEF StrikeRefuses, files, FilesOK
<1>8. CASE StrikeBackup(h)
  BY <1>8, GotoType
  DEF StrikeBackup, HandPc, passVars, handVars, FilesOK, DraftsOK, PassOK, HandOK
<1>9. CASE StrikeWrite(h)
  BY <1>9, GotoType
  DEF StrikeWrite, HandPc, passVars, handVars, FilesOK, DraftsOK, PassOK, HandOK
<1>10. CASE StrikeFails(h)
  BY <1>10, FinishType DEF StrikeFails, files, FilesOK
<1>11. CASE HandLock(h)
  BY <1>11, AcquireType DEF HandLock, HandPc
<1>12. CASE HandSave(h)
  <2>1. ASSUME NEW u \in Url PROVE Decided(h, u) \in Entry
    <3>1. draft[h][u] \in Entry
      BY DEF DraftsOK
    <3>2. draft[h][u] # Absent => [draft[h][u] EXCEPT !.kept = TRUE] \in Status
      BY <3>1 DEF Entry, Status
    <3> QED BY <3>1, <3>2, AbsentIsEntry DEF Decided, Entry
  <2>2. FilesOK'
    BY <1>12, <2>1 DEF HandSave, FilesOK
  <2> QED BY <1>12, <2>2, GotoType
          DEF HandSave, HandPc, passVars, handVars, DraftsOK, PassOK, HandOK
<1>13. CASE HandSaveFails(h)
  BY <1>13, FinishType DEF HandSaveFails, Release, files, FilesOK
<1>14. CASE Report(h)
  BY <1>14, ReportType
<1>15. CASE Die(h)
  BY <1>15, FinishType DEF Die, Release, files, FilesOK
<1> QED
  BY <1>2, <1>3, <1>4, <1>5, <1>6, <1>7, <1>8, <1>9, <1>10, <1>11, <1>12, <1>13,
     <1>14, <1>15
  DEF HandStep

\* The variables of the link review keep their types (src/maintenance.rs, the
\* status file and the locals of passes and requests).
THEOREM TypeCorrect == Spec => []TypeOK
<1>1. TypeOK /\ [Next]_vars => TypeOK'
  <2> SUFFICES ASSUME TypeOK, [Next]_vars PROVE TypeOK'
    OBVIOUS
  <2> USE DEF TypeOK
  <2>1. CASE Checking
    BY <2>1, CheckType DEF Checking
  <2>2. CASE RoomStep
    BY <2>2, PassStepType, HandStepType DEF RoomStep
  <2>3. CASE Edit
    <3>1. FilesOK'
      BY <2>3 DEF Edit, EditAdd, EditDelete, FilesOK
    <3> QED BY <2>3, <3>1
            DEF Edit, EditAdd, EditDelete, passVars, handVars, PlacesOK, DraftsOK,
                PassOK, HandOK
  <2>4. CASE Tick
    <3>1. clock + 1 \in Time
      BY <2>4, PolicyAssumption DEF Tick, Time, FilesOK
    <3>2. FilesOK'
      BY <2>4, <3>1 DEF Tick, FilesOK, files
    <3> QED BY <2>4, <3>2
            DEF Tick, passVars, handVars, PlacesOK, DraftsOK, PassOK, HandOK
  <2>5. CASE UNCHANGED vars
    BY <2>5
    DEF vars, files, passVars, handVars, FilesOK, PlacesOK, DraftsOK, PassOK, HandOK
  <2> QED BY <2>1, <2>2, <2>3, <2>4, <2>5 DEF Next
<1> QED BY InitTypeOK, <1>1, PTL DEF Spec

-------------------------------------------------------------------------------
(* The cache's lock.                                                       *)

Others(a) == \A b \in Actor \ {a} : pc'[b] = pc[b] /\ draft'[b] = draft[b]

\* A step outside the lock, or one that lets it go, disturbs nobody.
LEMMA LeavingIsSafe ==
  ASSUME TypeOK, CurrentDraft, NEW a \in Actor, Others(a),
         cache' = cache, pc'[a] \notin Held,
         lock' = IF lock = a THEN NoOne ELSE lock
  PROVE  CurrentDraft'
<1>1. load_status' = load_status
  BY DEF load_status
<1>2. NoOne \notin Actor
  BY ReviewAssumption DEF Actor
<1> QED BY <1>1, <1>2 DEF CurrentDraft, Others, Held

LEMMA AcquireIsSafe ==
  ASSUME TypeOK, CurrentDraft, "cacheRead" \notin Faults,
         NEW a \in Actor, NEW from, NEW to \in Held, Acquire(a, from, to)
  PROVE  CurrentDraft'
<1>1. load_status' = load_status
  BY DEF Acquire, files, load_status
<1>2. NoOne \notin Actor
  BY ReviewAssumption DEF Actor
<1>3. draft' = [draft EXCEPT ![a] = load_status]
  BY DEF Acquire, Loads
<1>4. draft'[a] = load_status /\ pc'[a] = to
  BY <1>3 DEF TypeOK, DraftsOK, PlacesOK, Acquire, Goto
<1>5. Others(a)
  BY <1>3 DEF TypeOK, DraftsOK, PlacesOK, Acquire, Goto, Others
<1> QED BY <1>1, <1>2, <1>4, <1>5 DEF CurrentDraft, Acquire, Others

\* Saving changes the cache while nobody else is between reading and saving.
LEMMA SavingIsSafe ==
  ASSUME TypeOK, CurrentDraft, NEW a \in Actor, Others(a),
         pc[a] \in {"save", "ckSave"}, pc'[a] \in {"report", "ckReport"},
         lock' = lock
  PROVE  CurrentDraft'
BY DEF CurrentDraft, Others, Held

LEMMA ReportIsSafe ==
  ASSUME TypeOK, CurrentDraft, NEW a \in Actor, Report(a)
  PROVE  CurrentDraft'
<1>1. cache' = cache /\ lock' = IF lock = a THEN NoOne ELSE lock
  BY DEF Report, Release
<1>2. pc'[a] \notin Held /\ Others(a)
  <2>1. CASE pc[a] = "report"
    BY <2>1, FinishType DEF TypeOK, Report, Held, Others
  <2>2. CASE pc[a] = "ckReport"
    BY <2>2 DEF TypeOK, PlacesOK, DraftsOK, Report, Goto, Held, Others
  <2> QED BY <2>1, <2>2 DEF Report
<1> QED BY <1>1, <1>2, LeavingIsSafe

LEMMA PassStepCurrent ==
  ASSUME TypeOK, CurrentDraft, "cacheRead" \notin Faults,
         NEW p \in Pass, PassStep(p)
  PROVE  CurrentDraft'
<1> p \in Actor
  BY DEF Actor
<1>1. CASE PassBegin(p) \/ PassLoad(p)
  <2>1. cache' = cache /\ lock' = lock /\ pc[p] \notin Held
    BY <1>1 DEF PassBegin, PassLoad, files, Held
  <2>2. pc'[p] \notin Held /\ Others(p)
    BY <1>1 DEF PassBegin, PassLoad, Goto, TypeOK, PlacesOK, Held, Others
  <2> QED BY <2>1, <2>2, LeavingIsSafe DEF CurrentDraft
<1>2. CASE CheckpointLock(p) \/ FinalLock(p)
  BY <1>2, AcquireIsSafe DEF CheckpointLock, FinalLock, Held
<1>3. CASE PassSave(p)
  <2>1. /\ pc'[p] \in {"report", "ckReport"} /\ Others(p)
        /\ pc[p] \in {"save", "ckSave"} /\ lock' = lock
    BY <1>3 DEF PassSave, Goto, TypeOK, PlacesOK, Others
  <2> QED BY <2>1, SavingIsSafe
<1>4. CASE PassLockFails(p)
  <2>1. cache' = cache /\ lock' = lock /\ pc[p] \notin Held
    BY <1>4 DEF PassLockFails, files, Held
  <2>2. pc'[p] \notin Held /\ Others(p)
    <3>1. CASE Finish(p)
      BY <3>1, FinishType DEF TypeOK, Held, Others
    <3>2. CASE Goto(p, "check") /\ UNCHANGED draft
      BY <3>2 DEF Goto, TypeOK, PlacesOK, Held, Others
    <3> QED BY <1>4, <3>1, <3>2 DEF PassLockFails
  <2> QED BY <2>1, <2>2, LeavingIsSafe DEF CurrentDraft
<1>5. CASE PassSaveFails(p)
  <2>1. cache' = cache /\ lock' = IF lock = p THEN NoOne ELSE lock
    BY <1>5 DEF PassSaveFails, files, Release
  <2>2. pc'[p] \notin Held /\ Others(p)
    <3>1. CASE pc[p] = "save"
      BY <1>5, <3>1, FinishType DEF PassSaveFails, TypeOK, Held, Others
    <3>2. CASE pc[p] = "ckSave"
      BY <1>5, <3>2
      DEF PassSaveFails, Goto, TypeOK, PlacesOK, DraftsOK, Held, Others
    <3> QED BY <1>5, <3>1, <3>2 DEF PassSaveFails
  <2> QED BY <2>1, <2>2, LeavingIsSafe
<1>6. CASE Report(p)
  BY <1>6, ReportIsSafe
<1>7. CASE Die(p)
  <2>1. cache' = cache /\ lock' = IF lock = p THEN NoOne ELSE lock
    BY <1>7 DEF Die, files, Release
  <2>2. pc'[p] \notin Held /\ Others(p)
    BY <1>7, FinishType DEF Die, TypeOK, Held, Others
  <2> QED BY <2>1, <2>2, LeavingIsSafe
<1> QED BY <1>1, <1>2, <1>3, <1>4, <1>5, <1>6, <1>7 DEF PassStep

LEMMA HandStepCurrent ==
  ASSUME TypeOK, CurrentDraft, "cacheRead" \notin Faults,
         NEW h \in Hand, HandStep(h)
  PROVE  CurrentDraft'
<1> h \in Actor
  BY DEF Actor
<1>1. ASSUME NEW d, NEW urls, NEW step \in {"read", "lock"},
             HandBegin(h, d, urls, step)
      PROVE  CurrentDraft'
  <2>1. cache' = cache /\ lock' = lock /\ pc[h] \notin Held
    BY <1>1 DEF HandBegin, files, Held
  <2>2. pc'[h] \notin Held /\ Others(h)
    BY <1>1 DEF HandBegin, Goto, TypeOK, PlacesOK, Held, Others
  <2> QED BY <2>1, <2>2, LeavingIsSafe DEF CurrentDraft
<1>2. CASE \/ \E set \in RemovalSet : PurgeBegin(h, set)
           \/ \E u \in Url : RemoveBegin(h, u) \/ KeepBegin(h, u)
  BY <1>1, <1>2 DEF PurgeBegin, RemoveBegin, KeepBegin
<1>3. CASE \/ StrikeRead(h) \/ StrikeReread(h) \/ StrikeAgain(h)
           \/ StrikeBackup(h) \/ StrikeWrite(h)
  <2>1. cache' = cache /\ lock' = lock /\ pc[h] \notin Held
    BY <1>3
    DEF StrikeRead, StrikeReread, StrikeAgain, StrikeBackup, StrikeWrite, files, Held
  <2>2. pc'[h] \notin Held /\ Others(h)
    BY <1>3
    DEF StrikeRead, StrikeReread, StrikeAgain, StrikeBackup, StrikeWrite, Goto,
        TypeOK, PlacesOK, Held, Others
  <2> QED BY <2>1, <2>2, LeavingIsSafe DEF CurrentDraft
<1>4. CASE StrikeRefuses(h) \/ StrikeFails(h)
  <2>1. cache' = cache /\ lock' = lock /\ pc[h] \notin Held
    BY <1>4 DEF StrikeRefuses, StrikeFails, files, Held
  <2>2. pc'[h] \notin Held /\ Others(h)
    BY <1>4, FinishType DEF StrikeRefuses, StrikeFails, TypeOK, Held, Others
  <2> QED BY <2>1, <2>2, LeavingIsSafe DEF CurrentDraft
<1>5. CASE HandLock(h)
  BY <1>5, AcquireIsSafe DEF HandLock, Held
<1>6. CASE HandSave(h)
  <2>1. /\ pc'[h] \in {"report", "ckReport"} /\ Others(h)
        /\ pc[h] \in {"save", "ckSave"} /\ lock' = lock
    BY <1>6 DEF HandSave, Goto, TypeOK, PlacesOK, Others
  <2> QED BY <2>1, SavingIsSafe
<1>7. CASE HandSaveFails(h) \/ Die(h)
  <2>1. cache' = cache /\ lock' = IF lock = h THEN NoOne ELSE lock
    BY <1>7 DEF HandSaveFails, Die, files, Release
  <2>2. pc'[h] \notin Held /\ Others(h)
    BY <1>7, FinishType DEF HandSaveFails, Die, TypeOK, Held, Others
  <2> QED BY <2>1, <2>2, LeavingIsSafe
<1>8. CASE Report(h)
  BY <1>8, ReportIsSafe
<1> QED BY <1>2, <1>3, <1>4, <1>5, <1>6, <1>7, <1>8 DEF HandStep

LEMMA NextCurrent ==
  ASSUME "cacheRead" \notin Faults, TypeOK, CurrentDraft, [Next]_vars
  PROVE  CurrentDraft'
<1>1. CASE Checking
  <2>1. PICK p \in Pass, u \in Url, o \in Found : Check(p, u, o)
    BY <1>1 DEF Checking
  <2>2. cache' = cache /\ lock' = lock /\ p \in Actor /\ pc[p] \notin Held
    BY <2>1 DEF Check, files, Held, Actor
  <2>3. pc'[p] \notin Held /\ Others(p)
    BY <2>1, <2>2 DEF Check, Goto, TypeOK, PlacesOK, Held, Others
  <2> QED BY <2>2, <2>3, LeavingIsSafe DEF CurrentDraft
<1>2. CASE RoomStep
  BY <1>2, PassStepCurrent, HandStepCurrent DEF RoomStep
<1>3. CASE Edit \/ Tick \/ UNCHANGED vars
  BY <1>3 DEF Edit, EditAdd, EditDelete, Tick, vars, files, CurrentDraft, load_status
<1> QED BY <1>1, <1>2, <1>3 DEF Next

\* As long as reading the cache does not fail, whoever saves it holds its lock and
\* saves a change of what the file holds now (update_status, filelock::with_lock).
THEOREM DraftsAreCurrent ==
  ASSUME "cacheRead" \notin Faults
  PROVE  Spec => []CurrentDraft
<1>1. Init => CurrentDraft
  BY ReviewAssumption DEF Init, CurrentDraft, Held, Actor
<1>2. TypeOK /\ CurrentDraft /\ [Next]_vars => CurrentDraft'
  BY NextCurrent
<1> QED BY <1>1, <1>2, TypeCorrect, PTL DEF Spec

-------------------------------------------------------------------------------
(* The human's decision.                                                   *)

\* What is kept in the file is kept in what a pass writes over it.
LEMMA MergedKeeps ==
  ASSUME TypeOK, NEW p \in Pass, NEW u \in Url, draft[p][u].kept
  PROVE  Merged(p, u).kept
<1>1. CASE Retained(p)[u] = Absent
  BY <1>1 DEF Merged
<1>2. CASE Retained(p)[u] # Absent
  <2>1. Retained(p)[u] \in Status
    BY <1>2, MergedType DEF Cache, Entry
  <2>2. Merged(p, u) =
          [Retained(p)[u] EXCEPT !.kept = Retained(p)[u].kept \/ draft[p][u].kept]
    BY <1>2 DEF Merged
  <2> QED BY <2>1, <2>2 DEF Status
<1> QED BY <1>1, <1>2

\* Only a save changes the cache.
LEMMA OnlySavesWrite ==
  ASSUME [Next]_vars
  PROVE  \/ cache' = cache
         \/ \E p \in Pass : PassSave(p)
         \/ \E h \in Hand : HandSave(h)
BY DEF Next, Checking, Check, Edit, EditAdd, EditDelete, Tick, vars, files,
      RoomStep, PassStep, HandStep, PassBegin, PassLoad, CheckpointLock,
      FinalLock, PassLockFails, PassSaveFails, Report, Die, PurgeBegin, RemoveBegin,
      KeepBegin, HandBegin, StrikeRead, StrikeReread, StrikeAgain, StrikeRefuses,
      StrikeBackup, StrikeWrite, StrikeFails, HandLock, HandSaveFails, Acquire

\* What is kept on disk is kept in the draft of whoever is about to save.
LEMMA DraftKeeps ==
  ASSUME TypeOK, CurrentDraft, NEW a \in Actor, pc[a] \in {"save", "ckSave"},
         NEW u \in Url, kept(cache[u])
  PROVE  draft[a][u].kept /\ draft[a][u] # Absent
<1>1. draft[a][u] = migrate(cache[u])
  BY DEF CurrentDraft, load_status
<1>2. migrate(cache[u]).kept = cache[u].kept
  BY MigrateType DEF TypeOK, FilesOK
<1> QED BY <1>1, <1>2, AbsentIsEntry DEF kept

LEMMA StepKeeps ==
  ASSUME TypeOK, CurrentDraft, [Next]_vars, NEW u \in Url, kept(cache[u])
  PROVE  kept(cache'[u]) \/ DroppedOnPurpose(u)
<1>1. ASSUME NEW p \in Pass, PassSave(p)
      PROVE  kept(cache'[u]) \/ DroppedOnPurpose(u)
  <2>1. draft[p][u].kept
    BY <1>1, DraftKeeps DEF PassSave, Actor
  <2>2. cache'[u] = IF Pruned(p, u) THEN Absent ELSE Merged(p, u)
    BY <1>1 DEF PassSave
  <2>3. CASE Pruned(p, u)
    BY <2>3 DEF Pruned, DroppedOnPurpose
  <2>4. CASE ~ Pruned(p, u)
    BY <2>1, <2>2, <2>4, MergedKeeps DEF kept
  <2> QED BY <2>3, <2>4
<1>2. ASSUME NEW h \in Hand, HandSave(h)
      PROVE  kept(cache'[u]) \/ DroppedOnPurpose(u)
  <2>1. draft[h][u].kept /\ draft[h][u] # Absent
    BY <1>2, DraftKeeps DEF HandSave, Actor
  <2>2. cache'[u] = Decided(h, u) /\ pc[h] = "save"
    BY <1>2 DEF HandSave
  <2>3. CASE u \notin targets[h]
    BY <2>1, <2>2, <2>3 DEF Decided, kept
  <2>4. CASE u \in targets[h] /\ decision[h] = "keep"
    <3>1. draft[h][u] \in Status
      BY <2>1 DEF TypeOK, DraftsOK, Actor, Entry
    <3>2. cache'[u] = [draft[h][u] EXCEPT !.kept = TRUE]
      BY <2>1, <2>2, <2>4 DEF Decided
    <3> QED BY <3>1, <3>2 DEF kept, Status
  <2>5. CASE u \in targets[h] /\ decision[h] # "keep"
    BY <2>2, <2>5 DEF DroppedOnPurpose
  <2> QED BY <2>3, <2>4, <2>5
<1>3. CASE cache' = cache
  BY <1>3
<1>4. CASE RoomStep
  BY <1>1, <1>2, <1>3, <1>4
  DEF RoomStep, PassStep, HandStep, files, PassBegin, PassLoad, CheckpointLock,
      FinalLock, PassLockFails, PassSaveFails, Report, Die, PurgeBegin, RemoveBegin,
      KeepBegin, HandBegin, StrikeRead, StrikeReread, StrikeAgain, StrikeRefuses,
      StrikeBackup, StrikeWrite, StrikeFails, HandLock, HandSaveFails, Acquire
<1>5. CASE Checking \/ Edit \/ Tick \/ UNCHANGED vars
  BY <1>3, <1>5 DEF Checking, Check, Edit, EditAdd, EditDelete, Tick, vars, files
<1> QED BY <1>4, <1>5 DEF Next

\* As long as reading the cache does not fail, a link the human kept stays kept:
\* no pass, checkpoint or request about another link writes the decision away
\* (PassLedger::write, merge, LinkAction::keep).
THEOREM KeepsStick ==
  ASSUME "cacheRead" \notin Faults
  PROVE  Spec => KeepSticks
<1>1. TypeOK /\ CurrentDraft /\ [Next]_vars =>
        [\A u \in Url : kept(cache[u]) => kept(cache'[u]) \/ DroppedOnPurpose(u)]_vars
  BY StepKeeps
<1> QED BY <1>1, TypeCorrect, DraftsAreCurrent, PTL DEF Spec, KeepSticks

-------------------------------------------------------------------------------
(* What a write leaves is on the current vocabulary.                       *)

Modern(e) == ~ (e.status = "gone" /\ e.nx)

LEMMA AbsentIsModern == Modern(Absent)
BY DEF Modern, Absent

LEMMA MigrateIsModern ==
  ASSUME NEW e \in Entry
  PROVE  /\ Modern(migrate(e))
         /\ Modern(e) => migrate(e) = e
         /\ migrate(e) = Absent <=> e = Absent
<1>1. CASE e = Absent
  BY <1>1 DEF Modern, migrate, Absent
<1>2. CASE e \in Status
  <2>1. e.status # "absent" /\ Absent.status = "absent"
    BY <1>2 DEF Status, Broken, Absent
  <2>2. CASE e.status = "gone" /\ e.nx
    <3>1. migrate(e) = [e EXCEPT !.status = "nxdomain"]
      BY <2>2 DEF migrate
    <3>2. migrate(e).status = "nxdomain"
      BY <1>2, <3>1 DEF Status
    <3> QED BY <2>1, <2>2, <3>2 DEF Modern
  <2>3. CASE ~ (e.status = "gone" /\ e.nx)
    BY <2>1, <2>3 DEF migrate, Modern
  <2> QED BY <2>2, <2>3
<1> QED BY <1>1, <1>2 DEF Entry

LEMMA KeptIsModern ==
  ASSUME NEW e \in Status, Modern(e), NEW k
  PROVE  Modern([e EXCEPT !.kept = k])
BY DEF Modern, Status

LEMMA MergeIsModern ==
  ASSUME NEW prev, NEW o \in Outcome, NEW t
  PROVE  Modern(merge(prev, o, t))
BY DEF Modern, merge, Verdict, Outcome

\* What the passes have learned is on the current vocabulary.
LearnedOK == \A p \in Pass, u \in Url : Modern(learned[p][u])

\* Nothing else but its own checks adds to what a pass has learned.
LEMMA StepLearned ==
  ASSUME TypeOK, LearnedOK, [Next]_vars
  PROVE  LearnedOK'
<1>1. ASSUME NEW a \in Actor, Finish(a)
      PROVE  LearnedOK'
  <2>1. CASE a \in Pass
    <3>1. learned' = [learned EXCEPT ![a] = NoEntries]
      BY <1>1, <2>1 DEF Finish, ForgetPass
    <3> QED BY <3>1, AbsentIsModern DEF LearnedOK, NoEntries, TypeOK, PassOK
  <2>2. CASE a \notin Pass
    BY <1>1, <2>2 DEF Finish, ForgetHand, passVars, LearnedOK
  <2> QED BY <2>1, <2>2
<1>2. ASSUME NEW p \in Pass, learned' = [learned EXCEPT ![p] = Retained(p)]
      PROVE  LearnedOK'
  BY <1>2, AbsentIsModern DEF LearnedOK, Retained, TypeOK, PassOK
<1>3. CASE learned' = learned
  BY <1>3 DEF LearnedOK
<1>4. ASSUME NEW p \in Pass, NEW u \in Url, NEW o \in Found, Check(p, u, o)
      PROVE  LearnedOK'
  <2>1. Modern(merge(start[p][u], o, now[p]))
    BY ReviewAssumption, MergeIsModern
  <2> QED BY <1>4, <2>1 DEF Check, LearnedOK, TypeOK, PassOK
<1>5. ASSUME NEW p \in Pass, PassStep(p)
      PROVE  LearnedOK'
  BY <1>1, <1>2, <1>3, <1>5
  DEF PassStep, PassBegin, PassLoad, CheckpointLock, FinalLock, PassSave, PassLockFails,
      PassSaveFails, Report, Die, Acquire, passVars, Actor
<1>6. ASSUME NEW h \in Hand, HandStep(h)
      PROVE  LearnedOK'
  BY <1>1, <1>3, <1>6
  DEF HandStep, PurgeBegin, RemoveBegin, KeepBegin, HandBegin, StrikeRead, StrikeReread,
      StrikeAgain, StrikeRefuses, StrikeBackup, StrikeWrite, StrikeFails, HandLock, HandSave,
      HandSaveFails, Report, Die, Acquire, passVars, Actor
<1>7. CASE Edit \/ Tick \/ UNCHANGED vars
  BY <1>3, <1>7 DEF Edit, EditAdd, EditDelete, Tick, vars, passVars
<1> QED BY <1>4, <1>5, <1>6, <1>7 DEF Next, Checking, RoomStep

\* What somebody is about to save is on the current vocabulary.
LEMMA DraftIsModern ==
  ASSUME TypeOK, CurrentDraft, NEW a \in Actor, pc[a] \in {"save", "ckSave"}, NEW u \in Url
  PROVE  /\ draft[a][u] \in Entry /\ Modern(draft[a][u])
         /\ draft[a][u] = Absent <=> cache[u] = Absent
         /\ Modern(cache[u]) => draft[a][u] = cache[u]
<1>1. draft[a][u] = migrate(cache[u]) /\ cache[u] \in Entry
  BY DEF CurrentDraft, load_status, TypeOK, FilesOK
<1> QED BY <1>1, MigrateIsModern DEF TypeOK, DraftsOK

LEMMA WritesModern ==
  ASSUME TypeOK, CurrentDraft, LearnedOK, [Next]_vars, NEW u \in Url
  PROVE  cache'[u] = cache[u] \/ Modern(cache'[u])
<1>1. ASSUME NEW p \in Pass, PassSave(p)
      PROVE  Modern(cache'[u])
  <2>1. Modern(draft[p][u])
    BY <1>1, DraftIsModern DEF PassSave, Actor
  <2>2. cache'[u] = IF Pruned(p, u) THEN Absent ELSE Merged(p, u)
    BY <1>1 DEF PassSave
  <2>3. CASE Retained(p)[u] = Absent \/ Pruned(p, u)
    BY <2>1, <2>2, <2>3, AbsentIsModern DEF Merged
  <2>4. CASE Retained(p)[u] # Absent /\ ~ Pruned(p, u)
    <3>1. Retained(p)[u] \in Status
      BY <2>4, MergedType DEF Cache, Entry
    <3>2. Retained(p)[u] = learned[p][u]
      BY <2>4 DEF Retained
    <3>3. Modern(Retained(p)[u])
      BY <3>2 DEF LearnedOK
    <3>4. cache'[u] = [Retained(p)[u] EXCEPT !.kept = Retained(p)[u].kept \/ draft[p][u].kept]
      BY <2>2, <2>4 DEF Merged
    <3> QED BY <3>1, <3>3, <3>4, KeptIsModern
  <2> QED BY <2>3, <2>4
<1>2. ASSUME NEW h \in Hand, HandSave(h)
      PROVE  Modern(cache'[u])
  <2>1. draft[h][u] \in Entry /\ Modern(draft[h][u])
    BY <1>2, DraftIsModern DEF HandSave, Actor
  <2>2. cache'[u] = Decided(h, u)
    BY <1>2 DEF HandSave
  <2>3. CASE u \in targets[h] /\ decision[h] = "keep" /\ draft[h][u] # Absent
    <3>1. draft[h][u] \in Status /\ cache'[u] = [draft[h][u] EXCEPT !.kept = TRUE]
      BY <2>1, <2>2, <2>3 DEF Decided, Entry
    <3> QED BY <2>1, <3>1, KeptIsModern
  <2>4. CASE ~ (u \in targets[h] /\ decision[h] = "keep" /\ draft[h][u] # Absent)
    BY <2>1, <2>2, <2>4, AbsentIsModern DEF Decided
  <2> QED BY <2>3, <2>4
<1> QED BY <1>1, <1>2, OnlySavesWrite

-------------------------------------------------------------------------------
(* What a step does to one pass.                                           *)

Before == {"idle", "load"}

\* A pass's own step ends it, loads, saves, or keeps what it knows and writes nothing.
LEMMA OwnStep ==
  ASSUME TypeOK, "cacheRead" \notin Faults, NEW p \in Pass,
         PassStep(p) \/ \E u \in Url, o \in Found : Check(p, u, o)
  PROVE  \/ pc'[p] = "idle"
         \/ /\ pc[p] = "load" /\ pc'[p] = "check" /\ cache' = cache
            /\ known'[p] = Present(cache)
         \/ PassSave(p) /\ pc[p] \notin Before /\ pc'[p] \notin Before
         \/ /\ known'[p] = known[p] /\ cache' = cache
            /\ pc[p] \in Before <=> pc'[p] \in Before
            /\ ~ (pc[p] = "load" /\ pc'[p] = "check")
<1> p \in Actor /\ pc \in [Actor -> PassPc \cup HandPc] /\ pc[p] \in PassPc
  BY DEF Actor, TypeOK, PlacesOK
<1>1. CASE PassLoad(p)
  <2>1. PICK c \in Loads : known' = [known EXCEPT ![p] = {u \in Url : c[u] # Absent}]
    BY <1>1 DEF PassLoad
  <2>2. c = load_status
    BY DEF Loads
  <2>3. \A u \in Url : c[u] # Absent <=> cache[u] # Absent
    BY <2>2, MigrateIsModern DEF load_status, TypeOK, FilesOK
  <2>4. known'[p] = Present(cache)
    BY <2>1, <2>3 DEF TypeOK, PassOK, Present
  <2> QED BY <1>1, <2>4 DEF PassLoad, Goto, files
<1>2. CASE PassSave(p)
  BY <1>2 DEF PassSave, Goto, Before
<1>3. CASE Finish(p)
  BY <1>3 DEF Finish, Goto
<1>4. CASE PassBegin(p)
  BY <1>4 DEF PassBegin, Goto, files, Before
<1>5. CASE CheckpointLock(p) \/ FinalLock(p)
  BY <1>5 DEF CheckpointLock, FinalLock, Acquire, Goto, files, passVars, Before
<1>6. CASE PassLockFails(p)
  BY <1>3, <1>6 DEF PassLockFails, Goto, files, passVars, Before
<1>7. CASE PassSaveFails(p)
  BY <1>3, <1>7 DEF PassSaveFails, Goto, files, Before
<1>8. CASE Report(p)
  BY <1>3, <1>8 DEF Report, Goto, passVars, Before
<1>9. CASE Die(p)
  BY <1>3, <1>9 DEF Die
<1>10. CASE \E u \in Url, o \in Found : Check(p, u, o)
  BY <1>10 DEF Check, Goto, files, Before
<1> QED BY <1>1, <1>2, <1>4, <1>5, <1>6, <1>7, <1>8, <1>9, <1>10 DEF PassStep

\* Another's step moves the pass nowhere, and writes only without its lock.
LEMMA OthersStep ==
  ASSUME TypeOK, CurrentDraft, NEW p \in Pass, [Next]_vars,
         ~ PassStep(p), ~ \E u \in Url, o \in Found : Check(p, u, o)
  PROVE  /\ known'[p] = known[p] /\ pc'[p] = pc[p]
         /\ lock = p => cache' = cache
<1> p \in Actor /\ p \notin Hand
  BY ReviewAssumption DEF Actor
<1>1. ASSUME NEW a \in Actor, a # p, Finish(a)
      PROVE  known'[p] = known[p] /\ pc'[p] = pc[p]
  BY <1>1 DEF Finish, ForgetPass, ForgetHand, Goto, passVars, TypeOK, PlacesOK, PassOK
<1>2. ASSUME NEW q \in Pass, q # p, PassStep(q)
      PROVE  known'[p] = known[p] /\ pc'[p] = pc[p]
  BY <1>1, <1>2
  DEF PassStep, PassBegin, PassLoad, CheckpointLock, FinalLock, PassSave, PassLockFails,
      PassSaveFails, Report, Die, Acquire, passVars, Actor, Goto, TypeOK, PlacesOK, PassOK
<1>3. ASSUME NEW h \in Hand, HandStep(h)
      PROVE  known'[p] = known[p] /\ pc'[p] = pc[p]
  BY <1>1, <1>3
  DEF HandStep, PurgeBegin, RemoveBegin, KeepBegin, HandBegin, StrikeRead, StrikeReread,
      StrikeAgain, StrikeRefuses, StrikeBackup, StrikeWrite, StrikeFails, HandLock, HandSave,
      HandSaveFails, Report, Die, Acquire, passVars, Actor, Goto, TypeOK, PlacesOK
<1>4. ASSUME NEW q \in Pass, NEW u \in Url, NEW o \in Found, q # p, Check(q, u, o)
      PROVE  known'[p] = known[p] /\ pc'[p] = pc[p]
  BY <1>4 DEF Check, Goto, TypeOK, PlacesOK
<1>5. CASE Edit
  BY <1>5 DEF Edit, EditAdd, EditDelete, files, passVars
<1>8. CASE Tick \/ UNCHANGED vars
  <2>1. known' = known /\ pc' = pc /\ cache' = cache
    BY <1>8 DEF Tick, vars, files, passVars
  <2> QED BY <2>1
<1>6. known'[p] = known[p] /\ pc'[p] = pc[p]
  BY <1>2, <1>3, <1>4, <1>5, <1>8 DEF Next, Checking, RoomStep
\* A writer has the lock.
<1>7. ASSUME lock = p PROVE cache' = cache
  <2>1. ASSUME NEW a \in Actor, pc[a] \in {"save", "ckSave"} PROVE a = p
    BY <1>7, <2>1 DEF CurrentDraft, Held
  <2>2. ~ PassSave(p)
    BY DEF PassStep
  <2> QED BY <2>1, <2>2, OnlySavesWrite DEF PassSave, HandSave, Actor
<1> QED BY <1>6, <1>7
-------------------------------------------------------------------------------
(* The inductive invariant.                                                *)

\* A pass under way knows what it has had in hand; what it does not know has been
\* written since it began, on the current vocabulary; and of what it had in hand, what
\* has vanished is out of the cache.
HandsOK(p) ==
  /\ pc[p] \in Before => held[p] = {}
  /\ pc[p] \notin Before => /\ held[p] \subseteq known[p]
                            /\ \A u \in Url \ known[p] : Modern(cache[u])
  /\ vanished[p] \subseteq held[p] /\ held[p] \subseteq Url
  /\ \A u \in vanished[p] : cache[u] = Absent

IntentInv ==
  /\ TypeOK /\ CurrentDraft /\ LearnedOK
  /\ \A p \in Pass : HandsOK(p)

\* What a save of p changes it knows, and what has vanished stays out.
LEMMA SaveHolds ==
  ASSUME TypeOK, CurrentDraft, LearnedOK, NEW p \in Pass, HandsOK(p),
         PassSave(p), pc[p] \notin Before, NEW u \in Url
  PROVE  /\ known[p] \subseteq known'[p]
         /\ cache'[u] # cache[u] => u \in known'[p]
         /\ cache[u] = Absent /\ u \in known[p] => cache'[u] = Absent
<1>1. /\ known'[p] = known[p] \cup {v \in Url : Retained(p)[v] # Absent}
      /\ cache'[u] = IF Pruned(p, u) THEN Absent ELSE Merged(p, u)
      /\ pc[p] \in {"save", "ckSave"} /\ p \in Actor
  BY DEF PassSave, TypeOK, PassOK, Actor
<1>2. /\ draft[p][u] = Absent <=> cache[u] = Absent
      /\ Modern(cache[u]) => draft[p][u] = cache[u]
  BY <1>1, DraftIsModern
<1>3. ASSUME u \notin known'[p] PROVE cache'[u] = cache[u]
  <2>1. Retained(p)[u] = Absent /\ ~ Pruned(p, u) /\ u \notin known[p]
    BY <1>1, <1>3 DEF Pruned
  <2>2. Modern(cache[u])
    BY <2>1 DEF HandsOK
  <2> QED BY <1>1, <1>2, <2>1, <2>2 DEF Merged
<1>4. ASSUME cache[u] = Absent, u \in known[p] PROVE cache'[u] = Absent
  <2>1. draft[p][u] = Absent /\ Retained(p)[u] = Absent
    BY <1>2, <1>4 DEF Retained
  <2> QED BY <1>1, <2>1 DEF Merged
<1> QED BY <1>1, <1>3, <1>4

LEMMA HandsHold ==
  ASSUME IntentInv, "cacheRead" \notin Faults, NEW p \in Pass, [Next]_vars, Holding, Vanishing
  PROVE  HandsOK(p)'
<1> USE DEF IntentInv
<1> p \in Actor
  BY DEF Actor
<1>1. HandsOK(p) /\ pc[p] \in PassPc
  BY DEF TypeOK, PlacesOK
<1>2. held'[p] = IF pc'[p] = "idle" THEN {}
                 ELSE IF pc[p] = "load" /\ pc'[p] = "check" THEN Present(cache)
                 ELSE IF lock = p THEN held[p] \cup {u \in Url : cache'[u] # cache[u]}
                 ELSE held[p]
  BY DEF Holding
<1>3. vanished'[p] = IF pc'[p] = "idle" THEN {}
                     ELSE IF lock = p THEN vanished[p]
                     ELSE (vanished[p] \cup (held[p] \cap (Present(cache) \ Present(cache'))))
                            \ (Present(cache') \ Present(cache))
  BY DEF Vanishing
<1>4. \A u \in Url : cache'[u] = cache[u] \/ Modern(cache'[u])
  BY WritesModern
<1>5. CASE pc'[p] = "idle"
  BY <1>2, <1>3, <1>5 DEF HandsOK, Before
<1>6. CASE /\ pc[p] = "load" /\ pc'[p] = "check" /\ cache' = cache
           /\ known'[p] = Present(cache)
  <2>1. lock # p /\ held[p] = {} /\ vanished[p] = {}
    BY <1>1, <1>6 DEF CurrentDraft, Held, HandsOK, Before
  <2>2. held'[p] = Present(cache) /\ vanished'[p] = {}
    BY <1>2, <1>3, <1>6, <2>1
  <2>3. \A u \in Url \ known'[p] : Modern(cache'[u])
    BY <1>6, AbsentIsModern DEF Present
  <2> QED BY <1>6, <2>2, <2>3 DEF HandsOK, Before, Present
<1>7. CASE PassSave(p) /\ pc[p] \notin Before /\ pc'[p] \notin Before
  <2>1. lock = p
    BY <1>7 DEF PassSave, CurrentDraft, Held
  <2>2. /\ held'[p] = held[p] \cup {u \in Url : cache'[u] # cache[u]}
        /\ vanished'[p] = vanished[p]
    BY <1>2, <1>3, <1>7, <2>1 DEF Before
  <2>3. /\ known[p] \subseteq known'[p]
        /\ \A u \in Url : /\ cache'[u] # cache[u] => u \in known'[p]
                          /\ cache[u] = Absent /\ u \in known[p] => cache'[u] = Absent
    <3>1. ASSUME NEW u \in Url
          PROVE  /\ known[p] \subseteq known'[p]
                 /\ cache'[u] # cache[u] => u \in known'[p]
                 /\ cache[u] = Absent /\ u \in known[p] => cache'[u] = Absent
      BY <1>1, <1>7, SaveHolds
    <3>2. known[p] \subseteq known'[p]
      BY <1>7 DEF PassSave, TypeOK, PassOK
    <3> QED BY <3>1, <3>2
  <2>4. held'[p] \subseteq known'[p] /\ held'[p] \subseteq Url /\ vanished'[p] \subseteq held'[p]
    BY <1>1, <1>7, <2>2, <2>3 DEF HandsOK
  <2>5. \A u \in Url \ known'[p] : Modern(cache'[u])
    BY <1>1, <1>4, <1>7, <2>3 DEF HandsOK
  <2>6. \A u \in vanished'[p] : cache'[u] = Absent
    BY <1>1, <1>7, <2>2, <2>3 DEF HandsOK
  <2> QED BY <1>7, <2>4, <2>5, <2>6 DEF HandsOK
<1>8. CASE /\ known'[p] = known[p] /\ (lock = p => cache' = cache)
           /\ pc[p] \in Before <=> pc'[p] \in Before
           /\ ~ (pc[p] = "load" /\ pc'[p] = "check")
           /\ pc'[p] # "idle"
  <2>1. held'[p] = held[p]
    BY <1>2, <1>8
  <2>2. pc'[p] \notin Before => /\ held'[p] \subseteq known'[p]
                               /\ \A u \in Url \ known'[p] : Modern(cache'[u])
    BY <1>1, <1>4, <1>8, <2>1 DEF HandsOK
  <2>3. vanished'[p] \subseteq held'[p] /\ held'[p] \subseteq Url
    BY <1>1, <1>3, <1>8, <2>1 DEF HandsOK
  <2>4. ASSUME NEW u \in vanished'[p] PROVE cache'[u] = Absent
    <3>1. u \in Url
      BY <2>3
    <3>2. CASE lock = p
      BY <1>1, <1>3, <1>8, <3>2, <2>4 DEF HandsOK
    <3>3. CASE lock # p
      <4>1. /\ u \in vanished[p] \/ u \in Present(cache) \ Present(cache')
            /\ u \notin Present(cache') \ Present(cache)
        BY <1>3, <1>8, <3>3, <2>4
      <4> QED BY <1>1, <3>1, <4>1 DEF HandsOK, Present
    <3> QED BY <3>2, <3>3
  <2> QED BY <1>1, <1>8, <2>1, <2>2, <2>3, <2>4 DEF HandsOK
<1>9. CASE PassStep(p) \/ \E u \in Url, o \in Found : Check(p, u, o)
  BY <1>5, <1>6, <1>7, <1>8, <1>9, OwnStep
<1>10. CASE ~ (PassStep(p) \/ \E u \in Url, o \in Found : Check(p, u, o))
  <2>1. known'[p] = known[p] /\ pc'[p] = pc[p] /\ (lock = p => cache' = cache)
    BY <1>10, OthersStep
  <2> QED BY <1>5, <1>8, <2>1
<1> QED BY <1>9, <1>10

-------------------------------------------------------------------------------
\* What people meant is written beside the room, which does not see it.
LEMMA IntentStep == [IntentNext]_intendedVars => [Next]_vars
BY DEF IntentNext, Intend, Proceed, Next, Edit, intendedVars

LEMMA IntentImplements == IntentSpec => Spec
BY IntentStep, PTL DEF IntentSpec, IntentInit, Spec

\* As long as reading the cache does not fail, an entry that a pass knew, and that
\* somebody removed while it ran, is not written back by that pass, whatever the other
\* passes and requests do meanwhile (PassLedger::write).
THEOREM NothingResurrects ==
  ASSUME "cacheRead" \notin Faults
  PROVE  IntentSpec => []NoResurrection
<1>1. IntentInit => IntentInv
  <2> SUFFICES ASSUME IntentInit PROVE IntentInv
    OBVIOUS
  <2>1. TypeOK
    BY InitTypeOK DEF IntentInit
  <2>2. CurrentDraft
    BY ReviewAssumption DEF IntentInit, Init, CurrentDraft, Held, Actor
  <2>3. LearnedOK
    BY AbsentIsModern DEF IntentInit, Init, LearnedOK, NoEntries
  <2>4. \A p \in Pass : HandsOK(p)
    BY DEF IntentInit, Init, HandsOK, Before, Actor
  <2> QED BY <2>1, <2>2, <2>3, <2>4 DEF IntentInv
<1>2. IntentInv /\ TypeOK' /\ [IntentNext]_intendedVars => IntentInv'
  <2> SUFFICES ASSUME IntentInv, TypeOK', [IntentNext]_intendedVars PROVE IntentInv'
    OBVIOUS
  <2>1. [Next]_vars
    BY IntentStep
  <2>2. CurrentDraft' /\ LearnedOK'
    BY <2>1, NextCurrent, StepLearned DEF IntentInv
  <2>3. ASSUME NEW p \in Pass PROVE HandsOK(p)'
    <3>1. CASE Proceed
      BY <2>1, <3>1, HandsHold DEF Proceed
    <3>2. CASE UNCHANGED <<pc, cache, known, held, vanished>>
      BY <3>2 DEF IntentInv, HandsOK
    <3>3. CASE Intend
      BY <3>2, <3>3 DEF Intend, EditAdd, EditDelete, passVars
    <3>4. CASE UNCHANGED intendedVars
      BY <3>2, <3>4 DEF intendedVars, vars, files, passVars, intentVars
    <3> QED BY <3>1, <3>3, <3>4 DEF IntentNext
  <2> QED BY <2>2, <2>3 DEF IntentInv
<1>3. IntentInv => NoResurrection
  BY DEF IntentInv, HandsOK, NoResurrection
<1> QED BY <1>1, <1>2, <1>3, IntentImplements, TypeCorrect, PTL DEF IntentSpec
-------------------------------------------------------------------------------
(* The edits.                                                              *)

\* Only a strike's write changes the bookmarks, of what the room does.
LEMMA OnlyStrikesWrite ==
  ASSUME Checking \/ RoomStep \/ Tick
  PROVE  bookmarks' = bookmarks \/ \E h \in Hand : StrikeWrite(h)
BY DEF Checking, Check, Tick, files, RoomStep, PassStep, HandStep, PassBegin, PassLoad,
       CheckpointLock, FinalLock, PassSave, PassLockFails, PassSaveFails, Report, Die,
       PurgeBegin, RemoveBegin, KeepBegin, HandBegin, StrikeRead, StrikeReread,
       StrikeAgain, StrikeRefuses, StrikeBackup, StrikeFails, HandLock, HandSave,
       HandSaveFails, Acquire

\* What is being struck, and the text, change only on the way to the window.
HandMoved(h) ==
  /\ InWindow(h)' => \/ InWindow(h) /\ text'[h] = text[h]
                     \/ text'[h] = bookmarks /\ bookmarks' = bookmarks
  /\ Striking(h)' => \/ pc'[h] = "read"
                     \/ Striking(h) /\ targets'[h] = targets[h]

LEMMA HandStays ==
  ASSUME NEW h \in Hand, pc'[h] = pc[h], text'[h] = text[h], targets'[h] = targets[h]
  PROVE  HandMoved(h)
BY DEF HandMoved, InWindow, Striking

LEMMA HandMoves ==
  ASSUME TypeOK, NEW h \in Hand, Checking \/ RoomStep \/ Tick
  PROVE  HandMoved(h)
<1> h \in Actor /\ h \notin Pass
  BY ReviewAssumption DEF Actor
<1>1. ASSUME NEW a \in Actor, a # h, Finish(a)
      PROVE  HandMoved(h)
  <2>1. CASE a \in Pass
    BY <1>1, <2>1, HandStays DEF Finish, ForgetPass, Goto, handVars, TypeOK, PlacesOK
  <2>2. CASE a \notin Pass
    BY <1>1, <2>2, HandStays DEF Finish, ForgetHand, Goto, Actor, TypeOK, PlacesOK, HandOK
  <2> QED BY <2>1, <2>2
<1>2. ASSUME NEW a \in Actor, a # h, NEW step, Goto(a, step), UNCHANGED handVars
      PROVE  HandMoved(h)
  BY <1>2, HandStays DEF Goto, handVars, TypeOK, PlacesOK
<1>3. ASSUME NEW p \in Pass, PassStep(p)
      PROVE  HandMoved(h)
  BY <1>1, <1>2, <1>3
  DEF PassStep, PassBegin, PassLoad, CheckpointLock, FinalLock, PassSave, PassLockFails,
      PassSaveFails, Report, Die, Acquire, Actor
<1>4. ASSUME NEW p \in Pass, NEW u \in Url, NEW o \in Found, Check(p, u, o)
      PROVE  HandMoved(h)
  BY <1>2, <1>4 DEF Check, Actor
<1>5. ASSUME NEW g \in Hand, g # h, HandStep(g)
      PROVE  HandMoved(h)
  <2>1. CASE \/ \E set \in RemovalSet : PurgeBegin(g, set)
             \/ \E u \in Url : RemoveBegin(g, u) \/ KeepBegin(g, u)
    BY <1>5, <2>1, HandStays
    DEF PurgeBegin, RemoveBegin, KeepBegin, HandBegin, Goto, TypeOK, PlacesOK, HandOK
  <2>2. CASE StrikeRead(g) \/ StrikeAgain(g)
    BY <1>5, <2>2, HandStays DEF StrikeRead, StrikeAgain, Goto, TypeOK, PlacesOK, HandOK
  <2>3. CASE ~ \/ \E set \in RemovalSet : PurgeBegin(g, set)
               \/ \E u \in Url : RemoveBegin(g, u) \/ KeepBegin(g, u)
               \/ StrikeRead(g) \/ StrikeAgain(g)
    BY <1>1, <1>2, <1>5, <2>3
    DEF HandStep, StrikeReread, StrikeRefuses, StrikeBackup, StrikeWrite, StrikeFails,
        HandLock, HandSave, HandSaveFails, Report, Die, Acquire, Actor
  <2> QED BY <2>1, <2>2, <2>3
<1>6. CASE HandStep(h)
  <2>1. pc \in [Actor -> PassPc \cup HandPc] /\ text \in [Hand -> SUBSET Url]
    BY DEF TypeOK, PlacesOK, HandOK
  <2>2. CASE pc'[h] \notin {"read", "reread", "backup", "write"}
    BY <2>2 DEF HandMoved, InWindow, Striking
  <2>3. CASE StrikeRead(h)
    BY <2>1, <2>3 DEF StrikeRead, Goto, HandMoved, InWindow, Striking
  <2>4. CASE StrikeReread(h)
    BY <2>1, <2>4 DEF StrikeReread, Goto, HandMoved, InWindow, Striking, files, handVars
  <2>5. CASE StrikeBackup(h)
    BY <2>1, <2>5 DEF StrikeBackup, Goto, HandMoved, InWindow, Striking, handVars
  <2>6. CASE StrikeAgain(h) \/ \E d, urls : HandBegin(h, d, urls, "read")
    BY <2>1, <2>6 DEF StrikeAgain, HandBegin, Goto, HandMoved, InWindow, Striking
  <2>7. CASE Finish(h)
    BY <2>1, <2>2, <2>7 DEF Finish, Goto
  <2>8. ASSUME NEW step \in {"lock", "save", "report", "check"}, Goto(h, step)
        PROVE  HandMoved(h)
    BY <2>1, <2>2, <2>8 DEF Goto
  <2> QED
    BY <1>6, <2>3, <2>4, <2>5, <2>6, <2>7, <2>8
    DEF HandStep, PurgeBegin, RemoveBegin, KeepBegin, HandBegin, StrikeRefuses, StrikeWrite,
        StrikeFails, HandLock, HandSave, HandSaveFails, Report, Die, Acquire
<1>7. CASE Tick
  BY <1>7, HandStays DEF Tick, handVars
<1> QED BY <1>3, <1>4, <1>5, <1>6, <1>7 DEF Checking, RoomStep

\* A strike between its second read and its write holds every edit that counts, and
\* strikes nothing that was added since it began.
EditsOK ==
  /\ EditsSurvive
  /\ \A h \in Hand :
       /\ InWindow(h) => safe \subseteq text[h] /\ erased \cap text[h] = {}
       /\ Striking(h) => safe \cap targets[h] = {}

LEMMA EditsHold ==
  ASSUME TypeOK, EditsOK, [IntentNext]_intendedVars
  PROVE  EditsOK'
<1>1. CASE Proceed
  <2>1. safe' \subseteq safe /\ erased' = erased
        /\ safe' \cap UNION {targets'[h] : h \in {x \in Hand : pc'[x] = "read"}} = {}
    BY <1>1 DEF Proceed
  <2>2. EditsSurvive'
    <3>1. CASE bookmarks' = bookmarks
      BY <2>1, <3>1 DEF EditsOK, EditsSurvive
    <3>2. ASSUME NEW h \in Hand, StrikeWrite(h) PROVE EditsSurvive'
      <4>1. bookmarks' = text[h] \ targets[h] /\ InWindow(h) /\ Striking(h)
        BY <3>2 DEF StrikeWrite, InWindow, Striking
      <4> QED BY <2>1, <4>1 DEF EditsOK, EditsSurvive
    <3> QED BY <1>1, <3>1, <3>2, OnlyStrikesWrite DEF Proceed
  <2>3. ASSUME NEW h \in Hand
        PROVE  /\ InWindow(h)' => safe' \subseteq text'[h] /\ erased' \cap text'[h] = {}
               /\ Striking(h)' => safe' \cap targets'[h] = {}
    <3>1. HandMoved(h)
      BY <1>1, HandMoves DEF Proceed
    <3>2. pc'[h] = "read" => safe' \cap targets'[h] = {}
      BY <2>1
    <3> QED BY <2>1, <3>1, <3>2 DEF EditsOK, EditsSurvive, HandMoved
  <2> QED BY <2>2, <2>3 DEF EditsOK
<1>2. ASSUME NEW u \in Url, EditAdd(u), erased' = erased \ {u},
             safe' = IF WindowOpen \/ u \in Wanted THEN safe ELSE safe \cup {u}
      PROVE  EditsOK'
  <2>1. bookmarks' = bookmarks \cup {u} /\ pc' = pc /\ text' = text /\ targets' = targets
    BY <1>2 DEF EditAdd, handVars
  <2>2. EditsSurvive'
    BY <1>2, <2>1 DEF EditsOK, EditsSurvive
  <2>3. ASSUME NEW h \in Hand
        PROVE  /\ InWindow(h) => safe' \subseteq text[h] /\ erased' \cap text[h] = {}
               /\ Striking(h) => safe' \cap targets[h] = {}
    <3>1. InWindow(h) => safe' = safe
      BY <1>2 DEF WindowOpen
    <3>2. Striking(h) => targets[h] \subseteq Wanted
      BY DEF Wanted
    <3> QED BY <1>2, <3>1, <3>2 DEF EditsOK
  <2> QED BY <2>1, <2>2, <2>3 DEF EditsOK, InWindow, Striking
<1>3. ASSUME NEW u \in Url, EditDelete(u), safe' = safe \ {u},
             erased' = IF WindowOpen THEN erased ELSE erased \cup {u}
      PROVE  EditsOK'
  <2>1. bookmarks' = bookmarks \ {u} /\ pc' = pc /\ text' = text /\ targets' = targets
    BY <1>3 DEF EditDelete, handVars
  <2>2. EditsSurvive'
    BY <1>3, <2>1 DEF EditsOK, EditsSurvive
  <2>3. ASSUME NEW h \in Hand
        PROVE  /\ InWindow(h) => safe' \subseteq text[h] /\ erased' \cap text[h] = {}
               /\ Striking(h) => safe' \cap targets[h] = {}
    <3>1. InWindow(h) => erased' = erased
      BY <1>3 DEF WindowOpen
    <3> QED BY <1>3, <3>1 DEF EditsOK
  <2> QED BY <2>1, <2>2, <2>3 DEF EditsOK, InWindow, Striking
<1>4. CASE UNCHANGED intendedVars
  BY <1>4 DEF intendedVars, vars, files, handVars, intentVars, EditsOK, EditsSurvive, InWindow, Striking
<1> QED BY <1>1, <1>2, <1>3, <1>4 DEF IntentNext, Intend

\* No strike erases what an editor added, or brings back what one deleted, outside the
\* window between its second read and its write, for any number of strikes at once and
\* under any fault (strike_bookmarks).
THEOREM EditsAreKept == IntentSpec => []EditsSurvive
<1>1. IntentInit => EditsOK
  BY DEF IntentInit, Init, EditsOK, EditsSurvive, InWindow, Striking, Actor
<1>2. EditsOK => EditsSurvive
  BY DEF EditsOK
<1> QED BY <1>1, <1>2, EditsHold, IntentImplements, TypeCorrect, PTL DEF IntentSpec

-------------------------------------------------------------------------------
(* The removals.                                                           *)

\* A request comes to the cache by a strike that had nothing to do, or by its write.
LEMMA StruckBy ==
  ASSUME TypeOK, NEW h \in Hand, Checking \/ RoomStep \/ Tick,
         pc[h] \in {"read", "write"}, pc'[h] = "lock"
  PROVE  StrikeRead(h) \/ StrikeWrite(h)
<1> h \in Actor /\ h \notin Pass /\ pc \in [Actor -> PassPc \cup HandPc]
  BY ReviewAssumption DEF Actor, TypeOK, PlacesOK
<1>1. ASSUME NEW a \in Actor, Finish(a) PROVE FALSE
  BY <1>1 DEF Finish, Goto
<1>2. ASSUME NEW a \in Actor, a # h, NEW step, Goto(a, step) PROVE FALSE
  BY <1>2 DEF Goto
<1>3. ASSUME NEW p \in Pass, PassStep(p) PROVE FALSE
  BY <1>1, <1>2, <1>3
  DEF PassStep, PassBegin, PassLoad, CheckpointLock, FinalLock, PassSave, PassLockFails,
      PassSaveFails, Report, Die, Acquire, Actor
<1>4. ASSUME NEW p \in Pass, NEW u \in Url, NEW o \in Found, Check(p, u, o) PROVE FALSE
  BY <1>2, <1>4 DEF Check, Actor
<1>5. ASSUME NEW g \in Hand, HandStep(g) PROVE StrikeRead(h) \/ StrikeWrite(h)
  <2>1. CASE g # h
    BY <1>1, <1>2, <1>5, <2>1
    DEF HandStep, PurgeBegin, RemoveBegin, KeepBegin, HandBegin, StrikeRead, StrikeReread,
        StrikeAgain, StrikeRefuses, StrikeBackup, StrikeWrite, StrikeFails, HandLock, HandSave,
        HandSaveFails, Report, Die, Acquire, Actor
  <2>2. CASE g = h
    BY <1>1, <1>5, <2>2
    DEF HandStep, PurgeBegin, RemoveBegin, KeepBegin, HandBegin, StrikeReread,
        StrikeAgain, StrikeRefuses, StrikeBackup, StrikeFails, HandLock, HandSave,
        HandSaveFails, Report, Die, Acquire, Goto
  <2> QED BY <2>1, <2>2
<1>6. CASE Tick
  BY <1>6 DEF Tick
<1> QED BY <1>3, <1>4, <1>5, <1>6 DEF Checking, RoomStep

\* A strike inside its window writes nothing that was removed.
RemovedOK ==
  /\ RemovedStaysOut
  /\ \A h \in Hand : InWindow(h) => removed \cap (text[h] \ targets[h]) = {}

LEMMA RemovedHold ==
  ASSUME TypeOK, RemovedOK, [IntentNext]_intendedVars
  PROVE  RemovedOK'
<1>1. CASE Proceed
  <2>1. removed' = removed \cup Struck /\ (Checking \/ RoomStep \/ Tick)
    BY <1>1 DEF Proceed
  <2>2. removed \cap bookmarks' = {}
    <3>1. CASE bookmarks' = bookmarks
      BY <3>1 DEF RemovedOK, RemovedStaysOut
    <3>2. ASSUME NEW h \in Hand, StrikeWrite(h) PROVE removed \cap bookmarks' = {}
      BY <3>2 DEF StrikeWrite, InWindow, RemovedOK
    <3> QED BY <2>1, <3>1, <3>2, OnlyStrikesWrite
  <2>3. ASSUME NEW h \in Hand, pc[h] \in {"read", "write"}, pc'[h] = "lock"
        PROVE  targets[h] \cap bookmarks' = {}
    <3>1. CASE StrikeRead(h)
      <4>1. bookmarks' = bookmarks /\ Goto(h, IF bookmarks \cap targets[h] = {} THEN "lock" ELSE "reread")
        BY <3>1 DEF StrikeRead, files
      <4>2. h \in Actor /\ pc \in [Actor -> PassPc \cup HandPc]
        BY DEF Actor, TypeOK, PlacesOK
      <4> QED BY <2>3, <4>1, <4>2 DEF Goto
    <3>2. CASE StrikeWrite(h)
      BY <3>2 DEF StrikeWrite
    <3> QED BY <2>1, <2>3, <3>1, <3>2, StruckBy
  <2>4. RemovedStaysOut'
    BY <2>1, <2>2, <2>3 DEF RemovedStaysOut, Struck
  <2>5. ASSUME NEW h \in Hand, InWindow(h)'
        PROVE  removed' \cap (text'[h] \ targets'[h]) = {}
    <3>1. HandMoved(h)
      BY <2>1, HandMoves
    <3>2. CASE InWindow(h) /\ text'[h] = text[h]
      <4>1. targets'[h] = targets[h]
        BY <2>5, <3>1, <3>2 DEF HandMoved, InWindow, Striking
      <4>2. Struck = {}
        BY <2>5, <3>2 DEF Struck, Alone, InWindow
      <4> QED BY <2>1, <3>2, <4>1, <4>2 DEF RemovedOK
    <3>3. CASE text'[h] = bookmarks /\ bookmarks' = bookmarks
      BY <2>4, <3>3 DEF RemovedStaysOut
    <3> QED BY <2>5, <3>1, <3>2, <3>3 DEF HandMoved
  <2> QED BY <2>4, <2>5 DEF RemovedOK
<1>2. ASSUME NEW u \in Url, EditAdd(u), removed' = removed \ {u} PROVE RemovedOK'
  BY <1>2 DEF EditAdd, handVars, RemovedOK, RemovedStaysOut, InWindow
<1>3. ASSUME NEW u \in Url, EditDelete(u), removed' = removed PROVE RemovedOK'
  BY <1>3 DEF EditDelete, handVars, RemovedOK, RemovedStaysOut, InWindow
<1>4. CASE UNCHANGED intendedVars
  BY <1>4 DEF intendedVars, vars, files, handVars, intentVars, RemovedOK, RemovedStaysOut, InWindow
<1> QED BY <1>1, <1>2, <1>3, <1>4 DEF IntentNext, Intend

\* What a strike succeeded on while no other one was inside its window stays out of the
\* bookmarks until an editor puts it back, for any number of strikes at once, whatever
\* editors and passes do meanwhile and wherever a request fails or dies: a strike that
\* read the bookmarks before reads them again (strike_bookmarks).
THEOREM RemovedStay == IntentSpec => []RemovedStaysOut
<1>1. IntentInit => RemovedOK
  BY DEF IntentInit, Init, RemovedOK, RemovedStaysOut
<1>2. RemovedOK => RemovedStaysOut
  BY DEF RemovedOK
<1> QED BY <1>1, <1>2, RemovedHold, IntentImplements, TypeCorrect, PTL DEF IntentSpec

-------------------------------------------------------------------------------
(* The evidence: what an NXDOMAIN verdict rests on.                         *)

\* The status file starts without an NXDOMAIN verdict: the history begins there.
NoPriorNx ==
  \A c \in InitialCaches : \A u \in Url : ~ c[u].nx /\ c[u].status # "nxdomain"

\* What an entry says of NXDOMAIN is backed by what passes saw.
Backed(e, runs) ==
  /\ e.nx => e.checked \in runs
  /\ e.status = "nxdomain" => Apart(runs, ConfirmGap)
  /\ e.status = "gone" => ~ e.nx

\* The entries are, wherever a copy of them is: on disk, read under the lock, loaded
\* by a pass, learned by it.
EvidenceInv ==
  /\ nxRuns \in [Url -> SUBSET Time]
  /\ \A u \in Url :
       /\ Backed(cache[u], nxRuns[u])
       /\ \A a \in Actor : Backed(draft[a][u], nxRuns[u])
       /\ \A p \in Pass : Backed(start[p][u], nxRuns[u]) /\ Backed(learned[p][u], nxRuns[u])

LEMMA AbsentIsBacked == \A runs : Backed(Absent, runs)
BY DEF Backed, Absent

\* More sightings back what fewer did.
LEMMA BackedGrows ==
  ASSUME NEW e, NEW runs, NEW more, runs \subseteq more, Backed(e, runs)
  PROVE  Backed(e, more)
BY DEF Backed, Apart

LEMMA MigrateKeepsBacked ==
  ASSUME NEW e, NEW runs, Backed(e, runs)
  PROVE  Backed(migrate(e), runs)
BY DEF Backed, migrate

LEMMA MergeIsBacked ==
  ASSUME NEW prev \in Entry, NEW outcome \in Outcome, NEW t \in Time,
         NEW runs \in SUBSET Time, Backed(prev, runs)
  PROVE  Backed(merge(prev, outcome, t),
                IF outcome = "nxdomain" THEN runs \cup {t} ELSE runs)
<1> DEFINE m == merge(prev, outcome, t)
<1>1. /\ m.nx <=> outcome = "nxdomain"
      /\ m.checked = t
      /\ m.status = Verdict(prev, outcome, t)
  BY DEF merge
<1>2. CASE outcome # "nxdomain"
  <2>1. m.status # "nxdomain" /\ ~ m.nx
    BY <1>1, <1>2 DEF Verdict, Outcome
  <2> QED BY <2>1 DEF Backed
<1>3. CASE outcome = "nxdomain"
  <2>1. m.status # "gone"
    BY <1>1, <1>3 DEF Verdict
  <2>2. ASSUME Confirmed(prev, t) PROVE Apart(runs \cup {t}, ConfirmGap)
    <3>1. CASE prev.status = "nxdomain"
      BY <3>1 DEF Backed, Apart
    <3>2. CASE prev.nx /\ Elapsed(t, prev.checked) >= ConfirmGap
      <4>1. prev.checked \in runs /\ prev.checked \in Nat /\ t \in Nat
        <5>1. prev.checked \in runs
          BY <3>2 DEF Backed
        <5>2. Time \subseteq Nat
          BY PolicyAssumption DEF Time
        <5> QED BY <5>1, <5>2
      <4> prev.checked \in runs \cup {t} /\ t \in runs \cup {t}
        BY <4>1
      <4>2. CASE t >= prev.checked
        <5>1. t - prev.checked >= ConfirmGap
          BY <3>2, <4>2 DEF Elapsed
        <5> QED BY <4>1, <5>1 DEF Apart
      <4>3. CASE ~ (t >= prev.checked)
        <5>1. t - t >= ConfirmGap
          BY <3>2, <4>1, <4>3, PolicyAssumption DEF Elapsed
        <5> QED BY <5>1 DEF Apart
      <4> QED BY <4>2, <4>3
    <3> QED BY <2>2, <3>1, <3>2 DEF Confirmed
  <2>3. m.status = "nxdomain" => Apart(runs \cup {t}, ConfirmGap)
    BY <1>1, <1>3, <2>2 DEF Verdict
  <2> QED BY <1>1, <1>3, <2>1, <2>3 DEF Backed
<1> QED BY <1>2, <1>3

-------------------------------------------------------------------------------
(* A step that writes no evidence moves copies of entries about.           *)

\* What is read of the cache is backed.
LEMMA LoadsAreBacked ==
  ASSUME TypeOK, EvidenceInv, NEW c \in Loads, NEW u \in Url
  PROVE  Backed(c[u], nxRuns[u])
<1>1. CASE c = load_status
  BY <1>1, MigrateKeepsBacked DEF EvidenceInv, load_status
<1>2. CASE c = NoEntries
  BY <1>2, AbsentIsBacked DEF NoEntries
<1> QED BY <1>1, <1>2 DEF Loads

\* Only the human's decision is merged from elsewhere.
LEMMA KeepingIsBacked ==
  ASSUME NEW e \in Status, NEW k \in BOOLEAN, NEW runs, Backed(e, runs)
  PROVE  Backed([e EXCEPT !.kept = k], runs)
BY DEF Backed, Status

LEMMA MergedIsBacked ==
  ASSUME TypeOK, EvidenceInv, NEW p \in Pass, NEW u \in Url
  PROVE  Backed(Retained(p)[u], nxRuns[u]) /\ Backed(Merged(p, u), nxRuns[u])
<1>1. Backed(Retained(p)[u], nxRuns[u])
  BY AbsentIsBacked DEF EvidenceInv, Retained
<1>2. CASE Retained(p)[u] = Absent
  BY <1>1, <1>2 DEF Merged, EvidenceInv, Actor
<1>3. CASE Retained(p)[u] # Absent
  <2>1. Retained(p)[u] \in Status
    BY <1>3, MergedType DEF Cache, Entry
  <2> DEFINE k == Retained(p)[u].kept \/ draft[p][u].kept
  <2>2. k \in BOOLEAN
    BY Zenon
  <2> HIDE DEF k
  <2>3. Merged(p, u) = [Retained(p)[u] EXCEPT !.kept = k]
    BY <1>3 DEF Merged, k
  <2> QED BY <1>1, <2>1, <2>2, <2>3, KeepingIsBacked
<1> QED BY <1>1, <1>2, <1>3

LEMMA DecidedIsBacked ==
  ASSUME TypeOK, EvidenceInv, NEW h \in Hand, NEW u \in Url
  PROVE  Backed(Decided(h, u), nxRuns[u])
<1>1. Backed(draft[h][u], nxRuns[u]) /\ draft[h][u] \in Entry
  BY DEF EvidenceInv, Actor, TypeOK, DraftsOK
<1>2. draft[h][u] # Absent => Backed([draft[h][u] EXCEPT !.kept = TRUE], nxRuns[u])
  BY <1>1, KeepingIsBacked DEF Entry
<1> QED BY <1>1, <1>2, AbsentIsBacked DEF Decided

\* Every copy after such a step is a copy from before it.
LEMMA FinishIsBacked ==
  ASSUME TypeOK, EvidenceInv, NEW a \in Actor, Finish(a),
         cache' = cache, UNCHANGED sightVars
  PROVE  EvidenceInv'
<1>1. draft' = [draft EXCEPT ![a] = NoEntries]
  BY DEF Finish
<1>2. \/ start' = start /\ learned' = learned
      \/ /\ start' = [start EXCEPT ![a] = NoEntries]
         /\ learned' = [learned EXCEPT ![a] = NoEntries]
  BY DEF Finish, ForgetPass, ForgetHand, passVars
<1>3. ASSUME NEW u \in Url, NEW b \in Actor PROVE Backed(draft'[b][u], nxRuns[u])
  BY <1>1, AbsentIsBacked DEF EvidenceInv, NoEntries, TypeOK, DraftsOK
<1>4. ASSUME NEW u \in Url, NEW p \in Pass
      PROVE  Backed(start'[p][u], nxRuns[u]) /\ Backed(learned'[p][u], nxRuns[u])
  <2>1. Backed(start[p][u], nxRuns[u]) /\ Backed(learned[p][u], nxRuns[u])
    BY DEF EvidenceInv
  <2>2. /\ start'[p][u] \in {start[p][u], Absent}
        /\ learned'[p][u] \in {learned[p][u], Absent}
    BY <1>2 DEF NoEntries, TypeOK, PassOK
  <2> QED BY <2>1, <2>2, AbsentIsBacked
<1> QED BY <1>3, <1>4 DEF EvidenceInv, sightVars

LEMMA AcquireIsBacked ==
  ASSUME TypeOK, EvidenceInv, NEW a \in Actor, NEW from, NEW to, Acquire(a, from, to),
         UNCHANGED sightVars
  PROVE  EvidenceInv'
<1>1. PICK c \in Loads : draft' = [draft EXCEPT ![a] = c]
  BY DEF Acquire
<1> QED BY <1>1, LoadsAreBacked
        DEF Acquire, EvidenceInv, sightVars, files, passVars, TypeOK, DraftsOK

LEMMA ReportIsBacked ==
  ASSUME TypeOK, EvidenceInv, NEW a \in Actor, Report(a), UNCHANGED sightVars
  PROVE  EvidenceInv'
<1>1. CASE pc[a] = "report"
  BY <1>1, FinishIsBacked DEF Report
<1>2. CASE pc[a] # "report"
  BY <1>2, AbsentIsBacked
  DEF Report, EvidenceInv, sightVars, passVars, NoEntries, TypeOK, DraftsOK
<1> QED BY <1>1, <1>2

LEMMA PassStepBacked ==
  ASSUME TypeOK, EvidenceInv, NEW p \in Pass, PassStep(p), UNCHANGED sightVars
  PROVE  EvidenceInv'
<1> p \in Actor
  BY DEF Actor
<1>1. CASE PassBegin(p)
  BY <1>1 DEF PassBegin, EvidenceInv, sightVars, files
<1>2. CASE PassLoad(p)
  <2>1. PICK c \in Loads : start' = [start EXCEPT ![p] = c]
    BY <1>2 DEF PassLoad
  <2> QED BY <1>2, <2>1, LoadsAreBacked
          DEF PassLoad, EvidenceInv, sightVars, files, TypeOK, PassOK
<1>3. CASE CheckpointLock(p) \/ FinalLock(p)
  BY <1>3, AcquireIsBacked DEF CheckpointLock, FinalLock
<1>4. CASE PassSave(p)
  <2>1. learned' = [learned EXCEPT ![p] = Retained(p)]
    BY <1>4 DEF PassSave
  <2>2. \A u \in Url : Backed(cache'[u], nxRuns[u])
    BY <1>4, MergedIsBacked, AbsentIsBacked DEF PassSave
  <2> QED BY <1>4, <2>1, <2>2, MergedIsBacked
          DEF PassSave, EvidenceInv, sightVars, TypeOK, PassOK
<1>5. CASE PassLockFails(p)
  <2>1. CASE Finish(p)
    BY <1>5, <2>1, FinishIsBacked DEF PassLockFails, files
  <2>2. CASE UNCHANGED <<draft, passVars>>
    BY <1>5, <2>2 DEF PassLockFails, EvidenceInv, sightVars, files, passVars
  <2> QED BY <1>5, <2>1, <2>2 DEF PassLockFails
<1>6. CASE PassSaveFails(p)
  <2>1. CASE pc[p] = "save"
    BY <1>6, <2>1, FinishIsBacked DEF PassSaveFails, files
  <2>2. CASE pc[p] # "save"
    <3>1. /\ learned' = [learned EXCEPT ![p] = Retained(p)]
          /\ draft' = [draft EXCEPT ![p] = NoEntries]
          /\ UNCHANGED <<cache, start>>
      BY <1>6, <2>2 DEF PassSaveFails, files
    <3> QED BY <3>1, MergedIsBacked, AbsentIsBacked
            DEF EvidenceInv, sightVars, NoEntries, TypeOK, DraftsOK, PassOK
  <2> QED BY <2>1, <2>2
<1>7. CASE Report(p)
  BY <1>7, ReportIsBacked
<1>8. CASE Die(p)
  BY <1>8, FinishIsBacked DEF Die, files
<1> QED BY <1>1, <1>2, <1>3, <1>4, <1>5, <1>6, <1>7, <1>8 DEF PassStep

LEMMA HandStepBacked ==
  ASSUME TypeOK, EvidenceInv, NEW h \in Hand, HandStep(h), UNCHANGED sightVars
  PROVE  EvidenceInv'
<1> h \in Actor
  BY DEF Actor
<1>1. CASE UNCHANGED <<cache, draft, passVars>>
  BY <1>1 DEF EvidenceInv, sightVars, passVars
<1>2. CASE \/ \E set \in RemovalSet : PurgeBegin(h, set)
           \/ \E u \in Url : RemoveBegin(h, u) \/ KeepBegin(h, u)
  BY <1>1, <1>2 DEF PurgeBegin, RemoveBegin, KeepBegin, HandBegin, files
<1>3. CASE \/ StrikeRead(h) \/ StrikeReread(h) \/ StrikeAgain(h)
           \/ StrikeBackup(h) \/ StrikeWrite(h)
  BY <1>1, <1>3
  DEF StrikeRead, StrikeReread, StrikeAgain, StrikeBackup, StrikeWrite, files
<1>4. CASE StrikeRefuses(h) \/ StrikeFails(h) \/ HandSaveFails(h) \/ Die(h)
  BY <1>4, FinishIsBacked DEF StrikeRefuses, StrikeFails, HandSaveFails, Die, files
<1>5. CASE HandLock(h)
  BY <1>5, AcquireIsBacked DEF HandLock
<1>6. CASE HandSave(h)
  BY <1>6, DecidedIsBacked DEF HandSave, EvidenceInv, sightVars, passVars
<1>7. CASE Report(h)
  BY <1>7, ReportIsBacked
<1> QED BY <1>2, <1>3, <1>4, <1>5, <1>6, <1>7 DEF HandStep

\* The outcome is NXDOMAIN exactly when that is what was heard.
LEMMA HeardIsOutcome ==
  ASSUME NEW probe \in Probes
  PROVE  check(probe) = "nxdomain" <=> Heard(probe) = "noSuchHost"
<1>1. probe[Len(probe)] \in Try
  BY DEF Probes
<1>2. PICK last \in Try : last = probe[Len(probe)]
  BY <1>1
<1>3. CASE last.head = "false"
  <2>1. last.get \in GetAnswer
    BY <1>3 DEF Try
  <2> QED
    BY <1>2, <1>3, <2>1
    DEF check, check_once, Heard, confirm_gone_with_get, transport_outcome, send_error_string,
        reached_a_server, GetAnswer, Transient, Failure
<1>4. CASE last.head # "false"
  <2>1. last.head \in HeadAnswer
    BY <1>4 DEF Try
  <2> QED
    BY <1>2, <1>4, <2>1
    DEF check, check_once, Heard, transport_outcome, send_error_string, reached_a_server,
        HeadAnswer, Transient, Failure
<1> QED BY <1>3, <1>4

LEMMA CheckBacked ==
  ASSUME TypeOK, EvidenceInv, NEW p \in Pass, NEW u \in Url, NEW probe \in Probes,
         Sighting(p, u, probe)
  PROVE  EvidenceInv'
<1> DEFINE o == check(probe)
<1>0. o \in Found /\ Check(p, u, o) /\ Sight(p, u, probe)
  BY DEF Sighting
<1> HIDE DEF o
<1> DEFINE runs == IF o = "nxdomain" THEN nxRuns[u] \cup {now[p]} ELSE nxRuns[u]
<1>1. now[p] \in Time /\ o \in Outcome /\ start[p][u] \in Entry
  BY <1>0, ReviewAssumption DEF TypeOK, DraftsOK, PassOK, Actor
<1>2. nxRuns' = [nxRuns EXCEPT ![u] = runs]
  BY <1>0, HeardIsOutcome DEF Sight, EvidenceInv, o
<1>3. nxRuns' \in [Url -> SUBSET Time] /\ \A v \in Url : nxRuns[v] \subseteq nxRuns'[v]
  BY <1>1, <1>2 DEF EvidenceInv
<1>4. Backed(merge(start[p][u], o, now[p]), nxRuns'[u])
  BY <1>1, <1>2, MergeIsBacked DEF EvidenceInv
<1>5. learned' = [learned EXCEPT ![p][u] = merge(start[p][u], o, now[p])]
  BY <1>0 DEF Check
<1>6. \A q \in Pass, v \in Url : Backed(learned'[q][v], nxRuns'[v])
  BY <1>3, <1>4, <1>5, BackedGrows DEF EvidenceInv, TypeOK, PassOK
<1>7. UNCHANGED <<cache, draft, start>>
  BY <1>0 DEF Check, files
<1> QED BY <1>3, <1>6, <1>7, BackedGrows DEF EvidenceInv

-------------------------------------------------------------------------------
LEMMA SightIsReview == SightSpec => Spec
<1>1. SightInit => Init
  BY DEF SightInit
<1>2. [SightNext]_sightedVars => [Next]_vars
  BY DEF SightNext, Sighting, sightedVars, Next, Checking
<1> QED BY <1>1, <1>2, PTL DEF SightSpec, Spec

\* A confirmed dead domain rests on NXDOMAIN seen by two passes that began at least
\* ConfirmGap apart, however many passes overlap (merge, PassLedger::write).
THEOREM DeadDomainsAreTwoRuns ==
  ASSUME NoPriorNx
  PROVE  SightSpec => []DeadDomainTwoRuns
<1>1. SightInit => EvidenceInv
  <2> SUFFICES ASSUME SightInit PROVE EvidenceInv
    OBVIOUS
  <2>1. \A u \in Url : Backed(cache[u], nxRuns[u])
    BY DEF SightInit, Init, NoPriorNx, Backed
  <2> QED BY <2>1, AbsentIsBacked DEF SightInit, Init, EvidenceInv, NoEntries
<1>2. TypeOK /\ EvidenceInv /\ [SightNext]_sightedVars => EvidenceInv'
  <2> SUFFICES ASSUME TypeOK, EvidenceInv, [SightNext]_sightedVars PROVE EvidenceInv'
    OBVIOUS
  <2>1. CASE \E p \in Pass, u \in Url, probe \in Probes : Sighting(p, u, probe)
    BY <2>1, CheckBacked
  <2>2. CASE RoomStep /\ UNCHANGED sightVars
    BY <2>2, PassStepBacked, HandStepBacked DEF RoomStep
  <2>3. CASE (Edit \/ Tick) /\ UNCHANGED sightVars
    BY <2>3 DEF Edit, EditAdd, EditDelete, Tick, files, passVars, sightVars, EvidenceInv
  <2>4. CASE UNCHANGED sightedVars
    BY <2>4 DEF sightedVars, vars, files, passVars, sightVars, EvidenceInv
  <2> QED BY <2>1, <2>2, <2>3, <2>4 DEF SightNext
<1>3. EvidenceInv => DeadDomainTwoRuns
  BY DEF EvidenceInv, DeadDomainTwoRuns, Backed, dead_domain
<1> QED BY <1>1, <1>2, <1>3, SightIsReview, TypeCorrect, PTL DEF SightSpec
-------------------------------------------------------------------------------
(* One pass at a time: what a request's step leaves alone.                 *)

OnePass == \A p, q \in Pass : p = q

LEMMA HandFrame ==
  ASSUME TypeOK, NEW h \in Hand, HandStep(h)
  PROVE  /\ passVars' = passVars /\ clock' = clock
         /\ \A p \in Pass : pc'[p] = pc[p] /\ now'[p] = now[p]
         /\ cache' = cache \/ HandSave(h)
         /\ \A a \in Actor : pc'[a] \in {"save", "ckSave"} =>
              \/ pc[a] \in {"save", "ckSave"} /\ draft'[a] = draft[a] /\ cache' = cache
              \/ pc[a] \in {"save", "ckSave"} /\ draft'[a] = draft[a] /\ a # h
              \/ draft'[a] \in Loads /\ cache' = cache
<1> h \in Actor /\ h \notin Pass /\ Pass \subseteq Actor
  BY ReviewAssumption DEF Actor
<1> pc \in [Actor -> PassPc \cup HandPc] /\ now \in [Actor -> Time] /\ draft \in [Actor -> Cache]
  BY DEF TypeOK, PlacesOK, DraftsOK, Cache
<1> DEFINE Quiet == /\ passVars' = passVars /\ clock' = clock /\ cache' = cache
                    /\ \A p \in Pass : pc'[p] = pc[p] /\ now'[p] = now[p]
                    /\ \A a \in Actor : pc'[a] \in {"save", "ckSave"}
                         => pc[a] \in {"save", "ckSave"} /\ draft'[a] = draft[a]
<1>1. CASE Finish(h) /\ UNCHANGED <<clock, cache>>
  <2>1. Quiet
    BY <1>1 DEF Finish, ForgetHand, Goto
  <2> QED BY <2>1
<1>2. ASSUME NEW step \in {"read", "reread", "backup", "write", "lock"}, Goto(h, step),
             UNCHANGED <<clock, cache, draft, passVars>>,
             now' = now \/ now' = [now EXCEPT ![h] = clock]
      PROVE  Quiet
  BY <1>2 DEF Goto
<1>3. CASE \/ \E set \in RemovalSet : PurgeBegin(h, set)
           \/ \E u \in Url : RemoveBegin(h, u) \/ KeepBegin(h, u)
  <2>1. Quiet
    BY <1>2, <1>3 DEF PurgeBegin, RemoveBegin, KeepBegin, HandBegin, files
  <2> QED BY <2>1
<1>4. CASE StrikeRead(h) \/ StrikeReread(h) \/ StrikeAgain(h) \/ StrikeBackup(h) \/ StrikeWrite(h)
  <2>1. Quiet
    BY <1>2, <1>4 DEF StrikeRead, StrikeReread, StrikeAgain, StrikeBackup, StrikeWrite, files
  <2> QED BY <2>1
<1>5. CASE StrikeRefuses(h) \/ StrikeFails(h) \/ HandSaveFails(h) \/ Die(h)
  BY <1>1, <1>5 DEF StrikeRefuses, StrikeFails, HandSaveFails, Die, files
<1>6. CASE HandLock(h)
  BY <1>6 DEF HandLock, Acquire, Goto, files, passVars
<1>7. CASE HandSave(h)
  BY <1>7 DEF HandSave, Goto, passVars
<1>8. CASE Report(h)
  <2>1. pc[h] = "report"
    BY <1>8 DEF Report, TypeOK, PlacesOK, HandPc
  <2> QED BY <1>1, <1>8, <2>1 DEF Report
<1> QED BY <1>3, <1>4, <1>5, <1>6, <1>7, <1>8 DEF HandStep

-------------------------------------------------------------------------------
(* A confirmed dead domain stays one.                                      *)

\* The places of a pass that has loaded and has not ended its final write.
Working == {"check", "ckLock", "save", "ckSave", "ckReport"}

\* What a pass has learned of u is on the current vocabulary and confirms what it
\* loaded; and it loaded, or has learned, whatever is confirmed in the cache.
NxOK(p, u) ==
  /\ ~ (learned[p][u].status = "gone" /\ learned[p][u].nx)
  /\ learned[p][u].nx /\ dead_domain(start[p][u]) => dead_domain(learned[p][u])
  /\ pc[p] \in Working /\ dead_domain(migrate(cache[u]))
       => dead_domain(start[p][u]) \/ dead_domain(learned[p][u])

\* A pass has learned nothing before it has checked.
FreshOK(p) ==
  /\ pc[p] \in {"idle", "load"} => learned[p] = NoEntries
  /\ \A u \in todo[p] : learned[p][u] = Absent

VerdictInv == \A p \in Pass : FreshOK(p) /\ \A u \in Url : NxOK(p, u)

\* Neither an absent entry nor a keep has anything to say of NXDOMAIN.
LEMMA NxOfEntries ==
  /\ ~ Absent.nx /\ ~ dead_domain(Absent) /\ ~ dead_domain(migrate(Absent))
  /\ Absent.status # "gone"
  /\ \A e \in Status, k \in BOOLEAN :
       LET f == [e EXCEPT !.kept = k]
       IN  /\ f.nx = e.nx /\ f.status = e.status /\ dead_domain(f) = dead_domain(e)
           /\ dead_domain(migrate(f)) = dead_domain(migrate(e))
  /\ \A e \in Entry : dead_domain(e) => dead_domain(migrate(e))
  /\ \A e \in Entry : dead_domain(migrate(migrate(e))) => dead_domain(migrate(e))
<1>1. ~ Absent.nx /\ ~ dead_domain(Absent) /\ ~ dead_domain(migrate(Absent)) /\ Absent.status # "gone"
  BY DEF Absent, dead_domain, migrate
<1>2. \A e \in Entry : dead_domain(e) => dead_domain(migrate(e))
  BY DEF dead_domain, migrate
<1>3. ASSUME NEW e \in Entry, dead_domain(migrate(migrate(e))) PROVE dead_domain(migrate(e))
  <2>1. CASE e.status = "gone" /\ e.nx
    <3>1. e \in Status /\ migrate(e) = [e EXCEPT !.status = "nxdomain"]
      BY <1>1, <2>1 DEF migrate, Entry
    <3> QED BY <3>1 DEF dead_domain, Status
  <2>2. CASE ~ (e.status = "gone" /\ e.nx)
    BY <1>3, <2>2 DEF migrate
  <2> QED BY <2>1, <2>2
<1>4. ASSUME NEW e \in Status, NEW k \in BOOLEAN
      PROVE  LET f == [e EXCEPT !.kept = k]
             IN  /\ f.nx = e.nx /\ f.status = e.status /\ dead_domain(f) = dead_domain(e)
                 /\ dead_domain(migrate(f)) = dead_domain(migrate(e))
  <2> DEFINE f == [e EXCEPT !.kept = k]
  <2>1. f \in Status /\ f.nx = e.nx /\ f.status = e.status
    BY DEF Status
  <2>2. dead_domain(migrate(f)) = dead_domain(migrate(e))
    BY <2>1 DEF migrate, dead_domain, Status
  <2> QED BY <2>1, <2>2 DEF dead_domain
<1> QED BY <1>1, <1>2, <1>3, <1>4

\* What is about to be saved.
LEMMA DraftIsLoaded ==
  ASSUME TypeOK, CurrentDraft, NEW a \in Actor, pc[a] \in {"save", "ckSave"}, NEW u \in Url
  PROVE  draft[a][u] = migrate(cache[u]) /\ cache[u] \in Entry /\ draft[a][u] \in Entry
BY DEF CurrentDraft, load_status, TypeOK, FilesOK, DraftsOK

\* A request writes what is there, or nothing.
LEMMA DecidedNx ==
  ASSUME TypeOK, CurrentDraft, NEW h \in Hand, HandSave(h), NEW u \in Url
  PROVE  /\ dead_domain(migrate(cache'[u])) => dead_domain(migrate(cache[u]))
         /\ dead_domain(cache[u]) /\ cache'[u].nx => dead_domain(cache'[u])
<1>1. cache'[u] = Decided(h, u)
  BY DEF HandSave
<1>2. draft[h][u] = migrate(cache[u]) /\ cache[u] \in Entry /\ draft[h][u] \in Entry
  BY DraftIsLoaded DEF HandSave, Actor
<1>3. CASE Decided(h, u) = Absent
  BY <1>1, <1>3, NxOfEntries
<1>4. CASE Decided(h, u) = draft[h][u]
  BY <1>1, <1>2, <1>4, NxOfEntries
<1>5. CASE Decided(h, u) = [draft[h][u] EXCEPT !.kept = TRUE] /\ draft[h][u] # Absent
  <2>1. draft[h][u] \in Status /\ TRUE \in BOOLEAN
    BY <1>2, <1>5 DEF Entry
  <2>2. /\ cache'[u].nx = draft[h][u].nx /\ dead_domain(cache'[u]) = dead_domain(draft[h][u])
        /\ dead_domain(migrate(cache'[u])) = dead_domain(migrate(draft[h][u]))
    <3>1. cache'[u] = [draft[h][u] EXCEPT !.kept = TRUE]
      BY <1>1, <1>5
    <3> QED BY <2>1, <3>1, NxOfEntries
  <2> QED BY <1>2, <2>2, NxOfEntries
<1> QED BY <1>3, <1>4, <1>5 DEF Decided

\* The pass's write of u is dropped, is what is there, or is what it has learned.
LEMMA SavedNx ==
  ASSUME TypeOK, CurrentDraft, NEW p \in Pass, PassSave(p), NEW u \in Url
  PROVE  \/ cache'[u] = Absent /\ (pc[p] = "save" \/ learned'[p][u] = Absent)
         \/ /\ cache'[u] = migrate(cache[u]) /\ learned'[p][u] = Absent
            /\ learned[p][u] = Absent \/ migrate(cache[u]) = Absent
         \/ /\ learned'[p][u] = learned[p][u] /\ learned[p][u] \in Status
            /\ \E k \in BOOLEAN : cache'[u] = [learned[p][u] EXCEPT !.kept = k]
<1>1. /\ cache'[u] = IF Pruned(p, u) THEN Absent ELSE Merged(p, u)
      /\ learned'[p][u] = Retained(p)[u]
      /\ pc[p] \in {"save", "ckSave"} /\ p \in Actor
  BY DEF PassSave, TypeOK, PassOK, Actor
<1>2. draft[p][u] = migrate(cache[u])
  BY <1>1, DraftIsLoaded
<1>3. CASE Pruned(p, u)
  BY <1>1, <1>3 DEF Pruned
<1>4. CASE ~ Pruned(p, u) /\ Retained(p)[u] = Absent
  BY <1>1, <1>2, <1>4 DEF Merged, Retained
<1>5. CASE ~ Pruned(p, u) /\ Retained(p)[u] # Absent
  <2>1. Retained(p)[u] = learned[p][u] /\ learned[p][u] \in Status
    BY <1>5, MergedType DEF Cache, Entry, Retained
  <2> DEFINE k == Retained(p)[u].kept \/ draft[p][u].kept
  <2>2. k \in BOOLEAN
    BY Zenon
  <2> HIDE DEF k
  <2>3. cache'[u] = [learned[p][u] EXCEPT !.kept = k]
    BY <1>1, <1>5, <2>1 DEF Merged, k
  <2> QED BY <1>1, <2>1, <2>2, <2>3
<1> QED BY <1>3, <1>4, <1>5

LEMMA MergeNx ==
  ASSUME NEW prev \in Entry, NEW o \in Outcome, NEW t \in Time
  PROVE  LET m == merge(prev, o, t)
         IN  /\ ~ (m.status = "gone" /\ m.nx)
             /\ m.nx /\ dead_domain(prev) => dead_domain(m)
BY DEF merge, Verdict, Confirmed, dead_domain, Outcome

\* A pass that is through has forgotten what it learned.
LEMMA FinishFresh ==
  ASSUME TypeOK, NEW p \in Pass, Finish(p)
  PROVE  FreshOK(p)' /\ \A u \in Url : NxOK(p, u)'
<1>1. pc'[p] = "idle" /\ learned'[p] = NoEntries /\ todo'[p] = {} /\ p \in Actor
  BY DEF Finish, ForgetPass, Goto, TypeOK, PlacesOK, PassOK, Actor
<1>2. \A u \in Url : learned'[p][u] = Absent
  BY <1>1 DEF NoEntries
<1>3. FreshOK(p)'
  BY <1>1 DEF FreshOK
<1> QED BY <1>1, <1>2, <1>3, NxOfEntries DEF NxOK, Working

LEMMA PassVerdict ==
  ASSUME TypeOK, CurrentDraft, VerdictInv, "cacheRead" \notin Faults, NEW p \in Pass, PassStep(p)
  PROVE  FreshOK(p)' /\ \A u \in Url : NxOK(p, u)'
<1> p \in Actor /\ pc \in [Actor -> PassPc \cup HandPc] /\ pc[p] \in PassPc
    /\ learned[p] \in Cache /\ start[p] \in Cache /\ todo[p] \subseteq Url
  BY DEF Actor, TypeOK, PlacesOK, PassOK, Cache
<1>0. FreshOK(p) /\ \A u \in Url : NxOK(p, u)
  BY DEF VerdictInv
<1>1. ASSUME UNCHANGED <<cache, start, todo, learned>>, pc'[p] \in Working => pc[p] \in Working,
             pc'[p] \in {"idle", "load"} => pc[p] \in {"idle", "load"}
      PROVE  FreshOK(p)' /\ \A u \in Url : NxOK(p, u)'
  BY <1>0, <1>1 DEF FreshOK, NxOK
<1>2. CASE PassBegin(p) \/ CheckpointLock(p) \/ FinalLock(p)
  BY <1>1, <1>2
  DEF PassBegin, CheckpointLock, FinalLock, Acquire, Goto, files, passVars, Working
<1>3. CASE PassLoad(p)
  <2>1. start'[p] = load_status /\ learned' = learned /\ cache' = cache
    BY <1>3 DEF PassLoad, Loads, files, TypeOK, PassOK
  <2>2. learned[p] = NoEntries /\ pc'[p] = "check" /\ todo'[p] \subseteq Url
    <3>1. learned[p] = NoEntries /\ pc'[p] = "check"
      BY <1>0, <1>3 DEF PassLoad, FreshOK, Goto
    <3>2. todo'[p] \subseteq Url
      BY <1>3 DEF PassLoad, TypeOK, PassOK
    <3> QED BY <3>1, <3>2
  <2>3. \A u \in Url : learned'[p][u] = Absent /\ start'[p][u] = migrate(cache'[u])
    BY <2>1, <2>2 DEF NoEntries, load_status
  <2>4. \A u \in Url : NxOK(p, u)'
    BY <2>3, NxOfEntries DEF NxOK
  <2> QED BY <2>2, <2>3, <2>4 DEF FreshOK
<1>4. CASE PassSave(p)
  <2>1. /\ todo' = todo /\ start' = start /\ pc[p] \in Working
        /\ pc'[p] = IF pc[p] = "save" THEN "report" ELSE "ckReport"
        /\ learned'[p] = Retained(p)
    BY <1>4 DEF PassSave, Goto, Working, TypeOK, PassOK
  <2>2. FreshOK(p)'
    BY <1>0, <2>1 DEF FreshOK, Retained
  <2>3. ASSUME NEW u \in Url PROVE NxOK(p, u)'
    <3>1. learned'[p][u] \in {learned[p][u], Absent}
      BY <2>1 DEF Retained
    <3>2. NxOK(p, u) /\ cache[u] \in Entry /\ learned[p][u] \in Entry
      BY <1>0 DEF TypeOK, FilesOK, Cache
    <3>3. CASE cache'[u] = Absent
      BY <2>1, <3>1, <3>2, <3>3, NxOfEntries DEF NxOK
    <3>4. CASE cache'[u] = migrate(cache[u])
      <4>1. CASE learned'[p][u] = learned[p][u]
        BY <2>1, <3>2, <3>4, <4>1, NxOfEntries DEF NxOK
      <4>2. CASE learned'[p][u] # learned[p][u]
        <5>1. learned[p][u] # Absent /\ learned'[p][u] = Absent
          BY <3>1, <4>2
        <5>2. draft[p][u] = migrate(cache[u])
          BY <1>4, DraftIsLoaded DEF PassSave
        <5>3. cache'[u] = Absent
          BY <2>1, <3>4, <5>1, <5>2 DEF Retained
        <5> QED BY <3>3, <5>3
      <4> QED BY <4>1, <4>2
    <3>5. CASE /\ learned'[p][u] = learned[p][u] /\ learned[p][u] \in Status
               /\ \E k \in BOOLEAN : cache'[u] = [learned[p][u] EXCEPT !.kept = k]
      <4>1. dead_domain(migrate(cache'[u])) => dead_domain(migrate(learned[p][u]))
        BY <3>5, NxOfEntries
      <4>2. migrate(learned[p][u]) = learned[p][u]
        BY <3>2 DEF NxOK, migrate
      <4> QED BY <2>1, <3>2, <3>5, <4>1, <4>2 DEF NxOK
    <3> QED BY <1>4, <3>3, <3>4, <3>5, SavedNx
  <2> QED BY <2>2, <2>3
<1>5. CASE PassLockFails(p)
  <2>1. CASE Finish(p)
    BY <2>1, FinishFresh
  <2>2. CASE ~ Finish(p)
    BY <1>1, <1>5, <2>2 DEF PassLockFails, Goto, files, passVars, Working
  <2> QED BY <2>1, <2>2
<1>6. CASE PassSaveFails(p)
  <2>1. CASE pc[p] = "save"
    BY <1>6, <2>1, FinishFresh DEF PassSaveFails
  <2>2. CASE pc[p] = "ckSave"
    <3>1. /\ todo' = todo /\ start' = start /\ cache' = cache /\ pc'[p] = "check"
          /\ learned'[p] = Retained(p)
      BY <1>6, <2>2 DEF PassSaveFails, Goto, files, TypeOK, PassOK
    <3>2. FreshOK(p)'
      BY <1>0, <3>1 DEF FreshOK, Retained
    <3>3. ASSUME NEW u \in Url PROVE NxOK(p, u)'
      <4>1. NxOK(p, u) /\ cache[u] \in Entry /\ learned[p][u] \in Entry
        BY <1>0 DEF TypeOK, FilesOK, Cache
      <4>2. CASE Retained(p)[u] = learned[p][u]
        BY <2>2, <3>1, <4>1, <4>2 DEF NxOK, Working
      <4>3. CASE Retained(p)[u] # learned[p][u]
        <5>1. draft[p][u] = Absent /\ Retained(p)[u] = Absent
          BY <4>3 DEF Retained
        <5>2. migrate(cache[u]) = Absent
          BY <2>2, <5>1, DraftIsLoaded
        <5> QED BY <3>1, <4>1, <5>1, <5>2, NxOfEntries DEF NxOK
      <4> QED BY <4>2, <4>3
    <3> QED BY <3>2, <3>3
  <2> QED BY <1>6, <2>1, <2>2 DEF PassSaveFails
<1>7. CASE Report(p)
  <2>1. CASE pc[p] = "report"
    BY <1>7, <2>1, FinishFresh DEF Report
  <2>2. CASE pc[p] = "ckReport"
    BY <1>1, <1>7, <2>2 DEF Report, Goto, passVars, Working
  <2> QED BY <1>7, <2>1, <2>2 DEF Report
<1>8. CASE Die(p)
  BY <1>8, FinishFresh DEF Die
<1> QED BY <1>2, <1>3, <1>4, <1>5, <1>6, <1>7, <1>8 DEF PassStep

LEMMA CheckVerdict ==
  ASSUME TypeOK, VerdictInv, NEW p \in Pass, NEW u \in Url, NEW o \in Found, Check(p, u, o)
  PROVE  FreshOK(p)' /\ \A v \in Url : NxOK(p, v)'
<1> DEFINE m == merge(start[p][u], o, now[p])
<1> p \in Actor /\ pc \in [Actor -> PassPc \cup HandPc] /\ todo[p] \subseteq Url
  BY DEF Actor, TypeOK, PlacesOK, PassOK
<1>1. /\ learned'[p] = [learned[p] EXCEPT ![u] = m] /\ todo'[p] = todo[p] \ {u}
      /\ UNCHANGED <<cache, start>> /\ pc[p] = "check" /\ pc'[p] \in {"check", "ckLock"}
      /\ u \in todo[p] /\ learned[p] \in Cache
  BY DEF Check, files, Goto, TypeOK, PassOK, Cache
<1>2. start[p][u] \in Entry /\ o \in Outcome /\ now[p] \in Time
  BY ReviewAssumption DEF TypeOK, PassOK, DraftsOK, Actor
<1>3. ~ (m.status = "gone" /\ m.nx) /\ (m.nx /\ dead_domain(start[p][u]) => dead_domain(m))
  BY <1>2, MergeNx
<1> HIDE DEF m
<1>4. learned'[p][u] = m /\ \A v \in Url \ {u} : learned'[p][v] = learned[p][v]
  BY <1>1 DEF Cache
<1>5. FreshOK(p)'
  BY <1>1, <1>4 DEF FreshOK, VerdictInv
<1>6. ASSUME NEW v \in Url PROVE NxOK(p, v)'
  <2>1. NxOK(p, v) /\ learned[p][u] = Absent
    BY <1>1 DEF VerdictInv, FreshOK
  <2>2. CASE v = u
    BY <1>1, <1>3, <1>4, <2>1, <2>2, NxOfEntries DEF NxOK, Working
  <2>3. CASE v # u
    BY <1>1, <1>4, <2>1, <2>3 DEF NxOK, Working
  <2> QED BY <2>2, <2>3
<1> QED BY <1>5, <1>6

LEMMA NextVerdict ==
  ASSUME OnePass, "cacheRead" \notin Faults, TypeOK, CurrentDraft, VerdictInv, [Next]_vars
  PROVE  VerdictInv'
<1> USE DEF VerdictInv
<1>1. ASSUME NEW p \in Pass, PassStep(p) PROVE VerdictInv'
  BY <1>1, PassVerdict DEF OnePass
<1>2. ASSUME NEW p \in Pass, NEW u \in Url, NEW o \in Found, Check(p, u, o) PROVE VerdictInv'
  BY <1>2, CheckVerdict DEF OnePass
<1>3. ASSUME NEW h \in Hand, HandStep(h) PROVE VerdictInv'
  <2> SUFFICES ASSUME NEW p \in Pass PROVE FreshOK(p)' /\ \A u \in Url : NxOK(p, u)'
    OBVIOUS
  <2>1. UNCHANGED <<start, todo, learned>> /\ pc'[p] = pc[p] /\ (cache' = cache \/ HandSave(h))
    BY <1>3, HandFrame DEF passVars
  <2>2. \A u \in Url : dead_domain(migrate(cache'[u])) => dead_domain(migrate(cache[u]))
    BY <2>1, DecidedNx
  <2> QED BY <2>1, <2>2 DEF FreshOK, NxOK
<1>4. CASE Edit \/ Tick \/ UNCHANGED vars
  <2>1. UNCHANGED <<cache, pc, start, todo, learned>>
    BY <1>4 DEF Edit, EditAdd, EditDelete, Tick, vars, files, passVars
  <2> QED BY <2>1 DEF FreshOK, NxOK
<1> QED BY <1>1, <1>2, <1>3, <1>4 DEF Next, Checking, RoomStep

LEMMA StepNotLowers ==
  ASSUME TypeOK, CurrentDraft, VerdictInv, [Next]_vars, NEW u \in Url,
         dead_domain(cache[u]), cache'[u].nx
  PROVE  dead_domain(cache'[u])
<1>1. cache[u] \in Entry /\ dead_domain(migrate(cache[u]))
  BY NxOfEntries DEF TypeOK, FilesOK
<1>2. ASSUME NEW p \in Pass, PassSave(p) PROVE dead_domain(cache'[u])
  <2>1. NxOK(p, u) /\ pc[p] \in Working
    BY <1>2 DEF VerdictInv, PassSave, Working
  <2>2. CASE cache'[u] \in {Absent, migrate(cache[u])}
    BY <1>1, <2>2, NxOfEntries
  <2>3. ASSUME learned[p][u] \in Status, NEW k \in BOOLEAN, cache'[u] = [learned[p][u] EXCEPT !.kept = k]
        PROVE  dead_domain(cache'[u])
    <3>1. learned[p][u].nx /\ dead_domain(cache'[u]) = dead_domain(learned[p][u])
      BY <2>3, NxOfEntries
    <3> QED BY <1>1, <2>1, <3>1 DEF NxOK
  <2>4. \/ cache'[u] \in {Absent, migrate(cache[u])}
        \/ /\ learned[p][u] \in Status
           /\ \E k \in BOOLEAN : cache'[u] = [learned[p][u] EXCEPT !.kept = k]
    BY <1>2, SavedNx
  <2> QED BY <2>2, <2>3, <2>4
<1> QED BY <1>2, DecidedNx, OnlySavesWrite

\* While the passes do not overlap and the cache can be read, a confirmed dead domain that
\* is seen NXDOMAIN again stays confirmed, whatever requests, failing writes and deaths
\* come between (merge, PassLedger::write).
THEOREM VerdictsAreNotLowered ==
  ASSUME OnePass, "cacheRead" \notin Faults
  PROVE  SightSpec => VerdictNotLowered
<1>1. Init => VerdictInv
  <2> SUFFICES ASSUME Init PROVE VerdictInv
    OBVIOUS
  <2>1. ASSUME NEW p \in Pass
        PROVE  /\ pc[p] = "idle" /\ learned[p] = NoEntries /\ todo[p] = {}
               /\ \A u \in Url : learned[p][u] = Absent
    BY DEF Init, Actor, NoEntries
  <2> QED BY <2>1, NxOfEntries DEF VerdictInv, FreshOK, NxOK, Working
<1>2. TypeOK /\ CurrentDraft /\ VerdictInv /\ [Next]_vars => VerdictInv'
  BY NextVerdict
<1>3. TypeOK /\ CurrentDraft /\ VerdictInv /\ [Next]_vars
        => [\A u \in Url : dead_domain(cache[u]) /\ cache'[u].nx => dead_domain(cache'[u])]_vars
  BY StepNotLowers
<1> QED BY <1>1, <1>2, <1>3, SightIsReview, TypeCorrect, DraftsAreCurrent, PTL
        DEF Spec, VerdictNotLowered
-------------------------------------------------------------------------------
(* What is recorded as broken, and offered for removal.                    *)

\* The status file starts without a broken link: the history begins there.
NoPriorBroken == \A c \in InitialCaches : \A u \in Url : c[u].status \notin Broken

\* What a pass saw gets written: reading and writing the cache do not fail, and no pass
\* dies on the way.
PassesWrite == Faults \cap {"cacheRead", "cacheWrite"} = {} /\ Pass \cap Mortal = {}

\* What an entry says against u is attested by what the checks saw.
AttestedBy(e, seen, fails, last) ==
  /\ e.status \in Broken => seen <= e.first /\ e.count <= fails
  /\ e.status \in {"gone", "unreachable", "nxdomain"} => last \in NobodyThere

Attested(e, u) == AttestedBy(e, alive[u], failed[u], heard[u])

\* A pass has checked u and not written it yet.
Unwritten(u) == \E p \in Pass : pc[p] \in Working /\ learned[p][u] # Absent

SightType ==
  /\ alive \in [Url -> Timestamp] /\ failed \in [Url -> 0 .. DurableRuns]
  /\ heard \in [Url -> {"nothing"} \cup HeadAnswer \cup GetAnswer]
  /\ \A u \in Url : alive[u] <= clock
  /\ \A p \in Pass : now[p] <= clock

\* Of what a pass is to check it has loaded an attested entry, which nobody has seen alive
\* since; and what it has learned is attested.
LearnedIsAttested(p) ==
  /\ \A u \in Url : pc[p] = "load" \/ u \in todo[p] => alive[u] <= now[p]
  /\ \A u \in todo[p] : Attested(start[p][u], u)
  /\ \A u \in Url : Attested(learned[p][u], u)

\* What is on disk, or about to be, is attested or not written yet.
CopiesAreAttested ==
  /\ \A u \in Url : Attested(cache[u], u) \/ Unwritten(u)
  /\ \A a \in Actor, u \in Url :
       pc[a] \in {"save", "ckSave"} => Attested(draft[a][u], u) \/ Unwritten(u)

AttestInv ==
  /\ SightType /\ CopiesAreAttested
  /\ \A p \in Pass : FreshOK(p) /\ LearnedIsAttested(p)

LEMMA AttestedEntries ==
  ASSUME NEW seen, NEW fails, NEW last
  PROVE  /\ AttestedBy(Absent, seen, fails, last)
         /\ \A e \in Entry : AttestedBy(e, seen, fails, last) => AttestedBy(migrate(e), seen, fails, last)
         /\ \A e \in Status, k \in BOOLEAN :
              AttestedBy(e, seen, fails, last) => AttestedBy([e EXCEPT !.kept = k], seen, fails, last)
<1> DEFINE By(e) == AttestedBy(e, seen, fails, last)
<1>1. By(Absent)
  BY DEF AttestedBy, Absent, Broken
<1>2. ASSUME NEW e \in Entry, By(e) PROVE By(migrate(e))
  <2>1. CASE e.status = "gone" /\ e.nx
    <3>1. e \in Status
      BY <2>1 DEF Entry, Absent
    <3>2. migrate(e) = [e EXCEPT !.status = "nxdomain"]
      BY <2>1 DEF migrate
    <3>3. /\ migrate(e).status = "nxdomain" /\ migrate(e).first = e.first
          /\ migrate(e).count = e.count
      BY <3>1, <3>2 DEF Status
    <3> QED BY <1>2, <2>1, <3>3 DEF AttestedBy, Broken
  <2>2. CASE ~ (e.status = "gone" /\ e.nx)
    BY <1>2, <2>2 DEF migrate
  <2> QED BY <2>1, <2>2
<1>3. ASSUME NEW e \in Status, NEW k \in BOOLEAN, By(e) PROVE By([e EXCEPT !.kept = k])
  <2> DEFINE f == [e EXCEPT !.kept = k]
  <2>1. f.status = e.status /\ f.first = e.first /\ f.count = e.count
    BY DEF Status
  <2> HIDE DEF f
  <2>2. By(f)
    BY <1>3, <2>1 DEF AttestedBy
  <2> QED BY <2>2 DEF f
<1> QED BY <1>1, <1>2, <1>3

\* What a check heard, if it was no sign of life.
LEMMA HeardAgainst ==
  ASSUME NEW probe \in Probes
  PROVE  /\ check(probe) \in {"gone", "unreachable", "nxdomain"} => Heard(probe) \in NobodyThere
         /\ Heard(probe) \in HeadAnswer \cup GetAnswer
<1>1. probe[Len(probe)] \in Try
  BY DEF Probes
<1>2. PICK last \in Try : last = probe[Len(probe)]
  BY <1>1
<1>3. CASE last.head = "false"
  <2>1. last.get \in GetAnswer
    BY <1>3 DEF Try
  <2> QED
    BY <1>2, <1>3, <2>1
    DEF check, check_once, Heard, confirm_gone_with_get, transport_outcome, send_error_string,
        reached_a_server, GetAnswer, Transient, Failure, NobodyThere
<1>4. CASE last.head # "false"
  <2>1. last.head \in HeadAnswer
    BY <1>4 DEF Try
  <2> QED
    BY <1>2, <1>4, <2>1
    DEF check, check_once, Heard, transport_outcome, send_error_string, reached_a_server,
        HeadAnswer, Transient, Failure, NobodyThere
<1> QED BY <1>3, <1>4

\* What a check makes of an attested entry is attested.
LEMMA MergeIsAttested ==
  ASSUME NEW prev \in Entry, NEW o \in Outcome, NEW t \in Time,
         NEW seen \in Timestamp, NEW fails \in 0 .. DurableRuns, NEW last, NEW seen2, NEW fails2, NEW last2,
         AttestedBy(prev, seen, fails, last), seen <= t,
         o # "alive" => seen2 = seen /\ fails2 = SaturatingInc(fails),
         o \in {"gone", "unreachable", "nxdomain"} => last2 \in NobodyThere
  PROVE  AttestedBy(merge(prev, o, t), seen2, fails2, last2)
<1> DEFINE m == merge(prev, o, t)
           s == Verdict(prev, o, t)
<1>1. /\ m.status = s
      /\ m.first = IF o = "alive" THEN 0 ELSE IF StillBroken(prev) THEN prev.first ELSE t
      /\ m.count = IF o = "alive" THEN 0
                   ELSE IF StillBroken(prev) THEN SaturatingInc(prev.count) ELSE 1
  BY DEF merge
<1>2. s \in Broken => o # "alive"
  BY DEF Verdict, Broken
<1>3. s \in {"gone", "unreachable", "nxdomain"} => o \in {"gone", "unreachable", "nxdomain"}
  BY DEF Verdict, Outcome
<1> HIDE DEF s
<1>4. prev.count \in 0 .. DurableRuns
  BY PolicyAssumption DEF Entry, Status, Absent
<1>5. ASSUME o # "alive" PROVE seen2 <= m.first /\ m.count <= fails2
  <2>1. CASE StillBroken(prev)
    <3>1. prev.count <= fails /\ seen <= prev.first
      BY <2>1 DEF StillBroken, AttestedBy
    <3>2. SaturatingInc(prev.count) <= SaturatingInc(fails)
      BY <1>4, <3>1, PolicyAssumption DEF SaturatingInc
    <3> QED BY <1>1, <1>5, <2>1, <3>1, <3>2
  <2>2. CASE ~ StillBroken(prev)
    <3>1. 1 <= SaturatingInc(fails)
      BY PolicyAssumption DEF SaturatingInc
    <3> QED BY <1>1, <1>5, <2>2, <3>1
  <2> QED BY <2>1, <2>2
<1> HIDE DEF m
<1>6. AttestedBy(m, seen2, fails2, last2)
  BY <1>1, <1>2, <1>3, <1>5 DEF AttestedBy
<1> QED BY <1>6 DEF m

\* Saying the same of u needs only what was seen of u.
LEMMA SightStays ==
  ASSUME UNCHANGED sightVars, NEW e, NEW u
  PROVE  Attested(e, u) <=> AttestedBy(e, alive'[u], failed'[u], heard'[u])
BY DEF sightVars, Attested

\* A pass's claim on u lasts as long as it works on and forgets nothing.
LEMMA UnwrittenStays ==
  ASSUME \A p \in Pass : learned'[p] = learned[p] /\ (pc[p] \in Working => pc'[p] \in Working), NEW u
  PROVE  Unwritten(u) => Unwritten(u)'
BY DEF Unwritten

\* A step that leaves the passes' checks alone.
LEMMA PassesKeep ==
  ASSUME AttestInv, UNCHANGED <<sightVars, learned, todo, start>>, NEW p \in Pass, now'[p] = now[p],
         pc'[p] \in {"idle", "load"} => pc[p] \in {"idle", "load"}, pc'[p] = "load" => pc[p] = "load"
  PROVE  FreshOK(p)' /\ LearnedIsAttested(p)'
<1>1. FreshOK(p)'
  BY DEF AttestInv, FreshOK
<1>2. LearnedIsAttested(p)'
  BY DEF AttestInv, LearnedIsAttested, Attested, sightVars
<1> QED BY <1>1, <1>2

LEMMA DecidedAttests ==
  ASSUME TypeOK, AttestInv, UNCHANGED sightVars, NEW h \in Hand, HandSave(h), NEW u \in Url
  PROVE  Attested(cache[u], u)' \/ Unwritten(u)
<1>1. /\ cache'[u] = Decided(h, u)
      /\ draft[h][u] \in Entry
      /\ Attested(draft[h][u], u) \/ Unwritten(u)
  BY DEF HandSave, Actor, TypeOK, DraftsOK, AttestInv, CopiesAreAttested
<1>2. ASSUME Attested(draft[h][u], u) PROVE Attested(Decided(h, u), u)
  <2>1. CASE Decided(h, u) = Absent
    BY <2>1, AttestedEntries DEF Attested
  <2>2. CASE Decided(h, u) = draft[h][u]
    BY <1>2, <2>2
  <2>3. CASE Decided(h, u) = [draft[h][u] EXCEPT !.kept = TRUE] /\ draft[h][u] # Absent
    <3>1. draft[h][u] \in Status /\ TRUE \in BOOLEAN
      BY <1>1, <2>3 DEF Entry
    <3>2. Attested([draft[h][u] EXCEPT !.kept = TRUE], u)
      BY <1>2, <3>1, AttestedEntries DEF Attested
    <3> QED BY <2>3, <3>2
  <2> QED BY <2>1, <2>2, <2>3 DEF Decided
<1> QED BY <1>1, <1>2 DEF Attested, sightVars

\* What is read of the cache is attested if the cache is.
LEMMA LoadAttests ==
  ASSUME TypeOK, AttestInv, UNCHANGED sightVars, NEW u \in Url
  PROVE  AttestedBy(load_status[u], alive'[u], failed'[u], heard'[u]) \/ Unwritten(u)
<1>1. cache[u] \in Entry /\ (Attested(cache[u], u) \/ Unwritten(u))
  BY DEF TypeOK, FilesOK, AttestInv, CopiesAreAttested
<1>2. load_status[u] = migrate(cache[u])
  BY DEF load_status
<1>3. Attested(cache[u], u) => AttestedBy(migrate(cache[u]), alive'[u], failed'[u], heard'[u])
  BY <1>1, AttestedEntries DEF Attested, sightVars
<1> QED BY <1>1, <1>2, <1>3

LEMMA HandAttests ==
  ASSUME TypeOK, AttestInv, "cacheRead" \notin Faults, NEW h \in Hand, HandStep(h),
         UNCHANGED sightVars
  PROVE  AttestInv'
<1>1. /\ UNCHANGED <<passVars, clock>> /\ \A p \in Pass : pc'[p] = pc[p] /\ now'[p] = now[p]
      /\ cache' = cache \/ HandSave(h)
  BY HandFrame
<1>2. \A u \in Url : Unwritten(u) => Unwritten(u)'
  BY <1>1, UnwrittenStays DEF passVars
<1>3. SightType'
  BY <1>1 DEF SightType, AttestInv, sightVars
<1>4. ASSUME NEW u \in Url PROVE Attested(cache[u], u)' \/ Unwritten(u)'
  <2>1. CASE cache' = cache
    BY <1>2, <2>1 DEF AttestInv, CopiesAreAttested, Attested, sightVars
  <2>2. CASE HandSave(h)
    BY <1>2, <2>2, DecidedAttests
  <2> QED BY <1>1, <2>1, <2>2
<1>5. ASSUME NEW a \in Actor, NEW u \in Url, pc'[a] \in {"save", "ckSave"}
      PROVE  Attested(draft[a][u], u)' \/ Unwritten(u)'
  <2>1. CASE pc[a] \in {"save", "ckSave"} /\ draft'[a] = draft[a]
    BY <1>2, <2>1 DEF AttestInv, CopiesAreAttested, Attested, sightVars
  <2>2. CASE draft'[a] \in Loads
    <3>1. draft'[a] = load_status
      BY <2>2 DEF Loads
    <3> QED BY <1>2, <3>1, LoadAttests DEF Attested
  <2> QED BY <1>5, <2>1, <2>2, HandFrame
<1>6. ASSUME NEW p \in Pass PROVE FreshOK(p)' /\ LearnedIsAttested(p)'
  BY <1>1, PassesKeep DEF passVars
<1> QED BY <1>3, <1>4, <1>5, <1>6 DEF AttestInv, CopiesAreAttested

\* What the pass saves is attested, but for what it has learned and may not write yet.
LEMMA SavedAttests ==
  ASSUME OnePass, TypeOK, CurrentDraft, AttestInv, NEW p \in Pass, PassSave(p), NEW u \in Url
  PROVE  Attested(cache'[u], u)
<1>1. /\ pc[p] \in {"save", "ckSave"} /\ p \in Actor
      /\ Attested(learned[p][u], u)
      /\ Attested(draft[p][u], u) \/ learned[p][u] # Absent
  BY DEF PassSave, Actor, AttestInv, LearnedIsAttested, CopiesAreAttested, Unwritten, OnePass
<1>2. CASE cache'[u] = Absent
  BY <1>2, AttestedEntries DEF Attested
<1>3. CASE /\ learned[p][u] \in Status
           /\ \E k \in BOOLEAN : cache'[u] = [learned[p][u] EXCEPT !.kept = k]
  <2>1. PICK k \in BOOLEAN : cache'[u] = [learned[p][u] EXCEPT !.kept = k]
    BY <1>3
  <2>2. Attested([learned[p][u] EXCEPT !.kept = k], u)
    BY <1>1, <1>3, AttestedEntries DEF Attested
  <2> QED BY <2>1, <2>2
<1>4. CASE cache'[u] = migrate(cache[u]) /\ (learned[p][u] = Absent \/ migrate(cache[u]) = Absent)
  <2>1. draft[p][u] = migrate(cache[u])
    BY <1>1, DraftIsLoaded
  <2> QED BY <1>1, <1>2, <1>4, <2>1
<1> QED BY <1>2, <1>3, <1>4, SavedNx

\* A pass that begins has nothing left to write.
LEMMA IdleIsWritten ==
  ASSUME OnePass, NEW p \in Pass, pc[p] \notin Working, NEW u
  PROVE  ~ Unwritten(u)
BY DEF OnePass, Unwritten

\* A pass's step that writes nothing and forgets nothing it is working on.
LEMMA PassMoves ==
  ASSUME OnePass, TypeOK, AttestInv, NEW p \in Pass, UNCHANGED <<cache, clock, sightVars>>,
         \A a \in Actor \ {p} : pc'[a] = pc[a] /\ draft'[a] = draft[a],
         pc'[p] \in {"save", "ckSave"} => draft'[p] = load_status,
         pc[p] \in Working => pc'[p] \in Working /\ learned'[p] = learned[p]
  PROVE  CopiesAreAttested'
<1> SUFFICES ASSUME NEW u \in Url
             PROVE  /\ Attested(cache[u], u)' \/ Unwritten(u)'
                    /\ \A a \in Actor : pc'[a] \in {"save", "ckSave"}
                         => Attested(draft[a][u], u)' \/ Unwritten(u)'
  BY DEF CopiesAreAttested
<1>1. Unwritten(u) => Unwritten(u)'
  BY DEF OnePass, Unwritten
<1>2. Attested(cache[u], u)' \/ Unwritten(u)'
  BY <1>1 DEF AttestInv, CopiesAreAttested, Attested, sightVars
<1>3. ASSUME NEW a \in Actor, pc'[a] \in {"save", "ckSave"}
      PROVE  Attested(draft[a][u], u)' \/ Unwritten(u)'
  <2>1. CASE pc[a] \in {"save", "ckSave"} /\ draft'[a] = draft[a]
    BY <1>1, <2>1 DEF AttestInv, CopiesAreAttested, Attested, sightVars
  <2>2. CASE draft'[a] = load_status
    BY <1>1, <2>2, LoadAttests DEF Attested
  <2>3. a = p \/ a \in Actor \ {p}
    OBVIOUS
  <2> QED BY <1>3, <2>1, <2>2, <2>3
<1> QED BY <1>2, <1>3

\* What a pass may do: with these hypotheses it cannot fail.
LEMMA PassAttests ==
  ASSUME OnePass, PassesWrite, TypeOK, CurrentDraft, AttestInv, NEW p \in Pass, PassStep(p),
         UNCHANGED sightVars
  PROVE  AttestInv'
<1> p \in Actor /\ pc \in [Actor -> PassPc \cup HandPc] /\ pc[p] \in PassPc
    /\ now \in [Actor -> Time] /\ draft \in [Actor -> Cache]
    /\ learned \in [Pass -> Cache] /\ start \in [Pass -> Cache] /\ todo \in [Pass -> SUBSET Url]
    /\ clock \in Time
  BY DEF Actor, TypeOK, PlacesOK, PassOK, DraftsOK, FilesOK, Cache
<1> FreshOK(p) /\ LearnedIsAttested(p) /\ SightType
  BY DEF AttestInv
<1>0. ASSUME clock' = clock, now'[p] <= clock PROVE SightType'
  BY <1>0 DEF SightType, sightVars, OnePass
<1>1. CASE PassBegin(p)
  <2>1. /\ pc' = [pc EXCEPT ![p] = "load"] /\ now' = [now EXCEPT ![p] = clock]
        /\ UNCHANGED <<clock, cache, draft, start, todo, learned>> /\ pc[p] = "idle"
    BY <1>1 DEF PassBegin, Goto, files
  <2>2. CopiesAreAttested'
    BY <2>1, PassMoves DEF Working
  <2>3. FreshOK(p)'
    BY <2>1 DEF FreshOK
  <2>4. \A u \in Url : alive[u] <= now'[p]
    BY <2>1 DEF SightType
  <2>5. LearnedIsAttested(p)'
    BY <2>1, <2>4 DEF LearnedIsAttested, Attested, sightVars
  <2>6. now'[p] <= clock
    BY <2>1 DEF Time
  <2> QED BY <1>0, <2>1, <2>2, <2>3, <2>5, <2>6 DEF AttestInv, OnePass
<1>2. CASE PassLoad(p)
  <2>1. /\ pc' = [pc EXCEPT ![p] = "check"] /\ start' = [start EXCEPT ![p] = load_status]
        /\ UNCHANGED <<clock, cache, draft, now, learned>> /\ pc[p] = "load"
        /\ todo'[p] \subseteq Url
    <3>1. /\ start' = [start EXCEPT ![p] = load_status]
          /\ UNCHANGED <<clock, cache, draft, now, learned>> /\ pc[p] = "load"
          /\ pc' = [pc EXCEPT ![p] = "check"]
      BY <1>2 DEF PassLoad, Loads, PassesWrite, Goto, files
    <3>2. \E batch \in SUBSET listed[p] : todo' = [todo EXCEPT ![p] = batch]
      BY <1>2 DEF PassLoad
    <3>3. listed[p] \subseteq Url
      BY DEF TypeOK, PassOK
    <3> QED BY <3>1, <3>2, <3>3
  <2>2. CopiesAreAttested'
    BY <2>1, PassMoves DEF Working
  <2>3. learned[p] = NoEntries
    BY <2>1 DEF FreshOK
  <2>4. FreshOK(p)'
    BY <2>1, <2>3 DEF FreshOK, NoEntries
  <2>5. ASSUME NEW u \in Url PROVE Attested(start[p][u], u)'
    <3>1. ~ Unwritten(u)
      BY <2>1, IdleIsWritten DEF Working
    <3>2. start'[p] = load_status
      BY <2>1
    <3> QED BY <3>1, <3>2, LoadAttests DEF Attested
  <2>6. LearnedIsAttested(p)'
    BY <2>1, <2>5 DEF LearnedIsAttested, Attested, sightVars
  <2>7. now'[p] <= clock
    BY <2>1 DEF SightType
  <2> QED BY <1>0, <2>1, <2>2, <2>4, <2>6, <2>7 DEF AttestInv, OnePass
<1>3. ASSUME NEW from, NEW to, Acquire(p, from, to), from \in Working, to \in {"save", "ckSave"}
      PROVE  AttestInv'
  <2>1. /\ pc' = [pc EXCEPT ![p] = to] /\ draft' = [draft EXCEPT ![p] = load_status]
        /\ UNCHANGED <<clock, cache, now, start, todo, learned>> /\ pc[p] \in Working
    BY <1>3 DEF Acquire, Loads, PassesWrite, Goto, files, passVars
  <2>2. CopiesAreAttested'
    BY <1>3, <2>1, PassMoves DEF Working
  <2>3. FreshOK(p)' /\ LearnedIsAttested(p)'
    BY <1>3, <2>1, PassesKeep
  <2>4. now'[p] <= clock
    BY <2>1 DEF SightType
  <2> QED BY <1>0, <2>1, <2>2, <2>3, <2>4 DEF AttestInv, OnePass
<1>4. CASE PassSave(p)
  <2>1. /\ pc' = [pc EXCEPT ![p] = IF pc[p] = "save" THEN "report" ELSE "ckReport"]
        /\ learned' = [learned EXCEPT ![p] = Retained(p)]
        /\ UNCHANGED <<clock, now, draft, start, todo>> /\ pc[p] \in {"save", "ckSave"}
    BY <1>4 DEF PassSave, Goto
  <2>2. \A a \in Actor : pc'[a] \notin {"save", "ckSave"}
    BY <2>1 DEF CurrentDraft, Held
  <2>3. \A u \in Url : Attested(cache[u], u)'
    BY <1>4, SavedAttests DEF Attested, sightVars
  <2>4. \A u \in Url : learned'[p][u] \in {learned[p][u], Absent}
    BY <2>1 DEF Retained
  <2>5. FreshOK(p)'
    BY <2>1, <2>4 DEF FreshOK
  <2>6. \A u \in Url : Attested(learned[p][u], u)'
    BY <2>4, AttestedEntries DEF LearnedIsAttested, Attested, sightVars
  <2>7. LearnedIsAttested(p)'
    BY <2>1, <2>6 DEF LearnedIsAttested, Attested, sightVars
  <2>8. now'[p] <= clock
    BY <2>1 DEF SightType
  <2> QED BY <1>0, <2>1, <2>2, <2>3, <2>5, <2>7, <2>8 DEF AttestInv, CopiesAreAttested, OnePass
<1>5. CASE Report(p)
  <2>1. CASE pc[p] = "ckReport"
    <3>1. /\ pc' = [pc EXCEPT ![p] = "check"] /\ draft' = [draft EXCEPT ![p] = NoEntries]
          /\ UNCHANGED <<clock, cache, now, start, todo, learned>>
      BY <1>5, <2>1 DEF Report, Goto, passVars
    <3>2. CopiesAreAttested'
      BY <2>1, <3>1, PassMoves DEF Working
    <3>3. FreshOK(p)' /\ LearnedIsAttested(p)'
      BY <3>1, PassesKeep
    <3>4. now'[p] <= clock
      BY <3>1 DEF SightType
    <3> QED BY <1>0, <3>1, <3>2, <3>3, <3>4 DEF AttestInv, OnePass
  <2>2. CASE pc[p] = "report"
    <3>1. Finish(p) /\ UNCHANGED <<clock, cache>>
      BY <1>5, <2>2 DEF Report
    <3>2. /\ pc' = [pc EXCEPT ![p] = "idle"] /\ draft' = [draft EXCEPT ![p] = NoEntries]
          /\ now'[p] = 1 /\ learned'[p] = NoEntries /\ todo'[p] = {}
      BY <3>1 DEF Finish, ForgetPass, Goto
    <3>3. CopiesAreAttested'
      BY <2>2, <3>1, <3>2, PassMoves DEF Working
    <3>4. FreshOK(p)'
      BY <3>1, FinishFresh
    <3>5. \A u \in Url : Attested(learned[p][u], u)'
      BY <3>2, AttestedEntries DEF Attested, NoEntries
    <3>6. LearnedIsAttested(p)'
      BY <3>2, <3>5 DEF LearnedIsAttested
    <3>7. now'[p] <= clock
      BY <3>2 DEF Time
    <3> QED BY <1>0, <3>1, <3>3, <3>4, <3>6, <3>7 DEF AttestInv, OnePass
  <2> QED BY <1>5, <2>1, <2>2 DEF Report
<1>6. ~ PassLockFails(p) /\ ~ PassSaveFails(p) /\ ~ Die(p)
  BY DEF PassesWrite, PassLockFails, PassSaveFails, Die
<1>7. CASE CheckpointLock(p) \/ FinalLock(p)
  BY <1>3, <1>7 DEF CheckpointLock, FinalLock, Working
<1> QED BY <1>1, <1>2, <1>4, <1>5, <1>6, <1>7 DEF PassStep


\* One answer: what was seen of u, and what the pass makes of it.
LEMMA CheckAttests ==
  ASSUME OnePass, TypeOK, AttestInv, NEW p \in Pass, NEW u \in Url, NEW probe \in Probes,
         Sighting(p, u, probe)
  PROVE  AttestInv'
<1> DEFINE o == check(probe)
           m == merge(start[p][u], o, now[p])
<1>0. o \in Found /\ Check(p, u, o) /\ Sight(p, u, probe)
  BY DEF Sighting
<1>1. /\ o \in {"gone", "unreachable", "nxdomain"} => Heard(probe) \in NobodyThere
      /\ Heard(probe) \in HeadAnswer \cup GetAnswer
  BY HeardAgainst
<1> HIDE DEF o
<1> p \in Actor /\ pc \in [Actor -> PassPc \cup HandPc] /\ now \in [Actor -> Time]
    /\ learned \in [Pass -> Cache] /\ start \in [Pass -> Cache] /\ todo \in [Pass -> SUBSET Url]
    /\ clock \in Time
  BY DEF Actor, TypeOK, PlacesOK, PassOK, DraftsOK, FilesOK, Cache
<1> FreshOK(p) /\ LearnedIsAttested(p) /\ SightType
  BY DEF AttestInv
<1>2. /\ learned' = [learned EXCEPT ![p][u] = m] /\ todo' = [todo EXCEPT ![p] = @ \ {u}]
      /\ UNCHANGED <<clock, cache, now, draft, start>>
      /\ pc[p] = "check" /\ u \in todo[p]
      /\ pc' = [pc EXCEPT ![p] = pc'[p]] /\ pc'[p] \in {"check", "ckLock"}
  BY <1>0 DEF Check, files, Goto
<1>3. /\ heard' = [heard EXCEPT ![u] = Heard(probe)]
      /\ failed' = [failed EXCEPT ![u] = IF o = "alive" THEN 0 ELSE SaturatingInc(@)]
      /\ alive' = [alive EXCEPT ![u] = IF o = "alive" THEN clock ELSE @]
  BY <1>0 DEF Sight, o
<1>4. /\ start[p][u] \in Entry /\ o \in Outcome /\ now[p] \in Time
      /\ alive[u] \in Timestamp /\ failed[u] \in 0 .. DurableRuns /\ alive[u] <= now[p]
      /\ AttestedBy(start[p][u], alive[u], failed[u], heard[u])
  BY <1>0, <1>2, ReviewAssumption DEF Cache, SightType, LearnedIsAttested, Attested
<1>5. AttestedBy(m, alive'[u], failed'[u], heard'[u])
  <2>1. o # "alive" => alive'[u] = alive[u] /\ failed'[u] = SaturatingInc(failed[u])
    BY <1>3 DEF SightType
  <2>2. heard'[u] = Heard(probe)
    BY <1>3 DEF SightType
  <2> QED BY <1>1, <1>4, <2>1, <2>2, MergeIsAttested
<1>6. m # Absent
  <2>1. m.status = Verdict(start[p][u], o, now[p])
    BY DEF merge
  <2>2. Verdict(start[p][u], o, now[p]) # "absent"
    BY <1>4 DEF Verdict, Outcome
  <2> QED BY <2>1, <2>2 DEF Absent
<1> HIDE DEF m
<1>7. learned'[p][u] = m /\ \A v \in Url \ {u} : learned'[p][v] = learned[p][v]
  BY <1>2 DEF Cache
<1>8. \A v \in Url \ {u} : /\ alive'[v] = alive[v] /\ failed'[v] = failed[v] /\ heard'[v] = heard[v]
                           /\ \A e : Attested(e, v) => AttestedBy(e, alive'[v], failed'[v], heard'[v])
  BY <1>3 DEF SightType, Attested
<1>9. SightType'
  <2>1. alive' \in [Url -> Timestamp] /\ \A v \in Url : alive'[v] <= clock
    BY <1>3 DEF SightType, Time, Timestamp
  <2>2. failed' \in [Url -> 0 .. DurableRuns]
    BY <1>3, PolicyAssumption DEF SightType, SaturatingInc
  <2>3. heard' \in [Url -> {"nothing"} \cup HeadAnswer \cup GetAnswer]
    BY <1>1, <1>3 DEF SightType
  <2> QED BY <1>2, <2>1, <2>2, <2>3 DEF SightType
<1>10. ASSUME NEW v \in Url
       PROVE  /\ Attested(cache[v], v)' \/ Unwritten(v)'
              /\ \A a \in Actor : pc'[a] \in {"save", "ckSave"}
                   => Attested(draft[a][v], v)' \/ Unwritten(v)'
  <2>1. CASE v = u
    BY <1>2, <1>6, <1>7, <2>1 DEF Unwritten, Working
  <2>2. CASE v # u
    <3>1. Unwritten(v) => Unwritten(v)'
      BY <1>2, <1>7, <2>2 DEF Unwritten, Working, OnePass
    <3>2. \A a \in Actor : pc'[a] \in {"save", "ckSave"} => pc[a] \in {"save", "ckSave"}
      BY <1>2
    <3> QED BY <1>2, <1>8, <2>2, <3>1, <3>2 DEF AttestInv, CopiesAreAttested, Attested
  <2> QED BY <2>1, <2>2
<1>11. FreshOK(p)'
  BY <1>2, <1>7 DEF FreshOK
<1>12. \A v \in Url : Attested(learned[p][v], v)'
  BY <1>5, <1>7, <1>8 DEF LearnedIsAttested, Attested
<1>13. LearnedIsAttested(p)'
  <2>1. todo'[p] = todo[p] \ {u} /\ todo[p] \subseteq Url /\ pc'[p] # "load"
    BY <1>2
  <2>2. \A v \in todo'[p] : alive'[v] <= now'[p] /\ Attested(start[p][v], v)'
    BY <1>2, <1>8, <2>1 DEF LearnedIsAttested, Attested
  <2> QED BY <1>12, <2>1, <2>2 DEF LearnedIsAttested
<1> QED BY <1>9, <1>10, <1>11, <1>13 DEF AttestInv, CopiesAreAttested, OnePass

\* Under these hypotheses the attestation survives every step.
LEMMA SightIsAttested ==
  ASSUME OnePass, PassesWrite, NoPriorBroken
  PROVE  SightSpec => []AttestInv
<1>0. "cacheRead" \notin Faults
  BY DEF PassesWrite
<1>1. SightInit => AttestInv
  <2> SUFFICES ASSUME SightInit PROVE AttestInv
    OBVIOUS
  <2>1. SightType
    BY PolicyAssumption DEF SightInit, Init, SightType, Timestamp, Actor
  <2>2. \A u \in Url : Attested(cache[u], u)
    <3>1. \A u \in Url : cache[u].status \notin Broken
      BY DEF SightInit, Init, NoPriorBroken
    <3> QED BY <3>1 DEF Attested, AttestedBy, Broken
  <2>3. \A a \in Actor : pc[a] = "idle"
    BY DEF SightInit, Init
  <2>4. ASSUME NEW p \in Pass PROVE FreshOK(p) /\ LearnedIsAttested(p)
    <3>1. p \in Actor /\ learned[p] = NoEntries /\ todo[p] = {}
      BY DEF SightInit, Init, Actor
    <3>2. \A u \in Url : Attested(learned[p][u], u)
      BY <3>1, AttestedEntries DEF Attested, NoEntries
    <3> QED BY <2>3, <3>1, <3>2 DEF FreshOK, LearnedIsAttested
  <2> QED BY <2>1, <2>2, <2>3, <2>4 DEF AttestInv, CopiesAreAttested
<1>2. TypeOK /\ CurrentDraft /\ AttestInv /\ [SightNext]_sightedVars => AttestInv'
  <2> SUFFICES ASSUME TypeOK, CurrentDraft, AttestInv, [SightNext]_sightedVars PROVE AttestInv'
    OBVIOUS
  <2>1. CASE \E p \in Pass, u \in Url, probe \in Probes : Sighting(p, u, probe)
    BY <2>1, CheckAttests
  <2>2. CASE RoomStep /\ UNCHANGED sightVars
    BY <2>2, PassAttests, HandAttests DEF RoomStep, PassesWrite
  <2>3. CASE (Edit \/ Tick \/ UNCHANGED vars) /\ UNCHANGED sightVars
    <3>1. /\ UNCHANGED <<cache, pc, now, draft, start, todo, learned>>
          /\ clock' \in {clock, clock + 1} /\ clock \in Nat
      <4>1. clock \in Nat
        BY DEF TypeOK, FilesOK, Time
      <4>2. CASE Edit \/ UNCHANGED vars
        BY <4>1, <4>2 DEF Edit, EditAdd, EditDelete, vars, files, passVars
      <4>3. CASE Tick
        BY <4>1, <4>3 DEF Tick, files, passVars
      <4> QED BY <2>3, <4>2, <4>3
    <3>2. \A p \in Pass : FreshOK(p)' /\ LearnedIsAttested(p)'
      BY <2>3, <3>1, PassesKeep
    <3>3. SightType'
      <4>1. \A u \in Url : alive[u] \in Nat
        BY DEF AttestInv, SightType, Timestamp
      <4>2. \A p \in Pass : now[p] \in Nat
        BY DEF TypeOK, DraftsOK, Actor, Time
      <4> QED BY <2>3, <3>1, <4>1, <4>2 DEF AttestInv, SightType, sightVars
    <3>4. \A u \in Url : Unwritten(u) => Unwritten(u)'
      BY <3>1 DEF Unwritten
    <3>5. CopiesAreAttested'
      BY <2>3, <3>1, <3>4 DEF AttestInv, CopiesAreAttested, Attested, sightVars
    <3> QED BY <3>2, <3>3, <3>5 DEF AttestInv
  <2>4. CASE UNCHANGED sightedVars
    <3>1. UNCHANGED vars /\ UNCHANGED sightVars
      BY <2>4, Zenon DEF sightedVars
    <3> QED BY <2>3, <3>1
  <2>5. \/ \E p \in Pass, u \in Url, probe \in Probes : Sighting(p, u, probe)
        \/ RoomStep /\ UNCHANGED sightVars
        \/ (Edit \/ Tick) /\ UNCHANGED sightVars
        \/ UNCHANGED sightedVars
    BY DEF SightNext
  <2> QED BY <2>1, <2>2, <2>3, <2>4, <2>5
<1> QED BY <1>0, <1>1, <1>2, SightIsReview, TypeCorrect, DraftsAreCurrent, PTL DEF SightSpec

\* Once the passes have written, nothing on disk waits to be.
LEMMA SettledIsAttested ==
  ASSUME AttestInv, Settled, NEW u \in Url
  PROVE  Attested(cache[u], u)
BY DEF AttestInv, CopiesAreAttested, Settled, Unwritten, Working

\* While the passes do not overlap and get written what they saw, a link recorded as broken
\* since some time was not seen alive after it, and as many checks of it failed since as its
\* entry counts (merge's first_broken_at and broken_count).
THEOREM BrokenAreAttested ==
  ASSUME OnePass, PassesWrite, NoPriorBroken
  PROVE  SightSpec => []BrokenIsAttested
<1>1. AttestInv => BrokenIsAttested
  BY SettledIsAttested DEF BrokenIsAttested, Attested, AttestedBy
<1> QED BY <1>1, SightIsAttested, PTL

\* And a link is offered for removal only if its last check heard a GET's 404 or nobody at
\* all, never what a server that was reached turns away (Outcome::Refused, check_once).
THEOREM OffersAreUnanswered ==
  ASSUME OnePass, PassesWrite, NoPriorBroken
  PROVE  SightSpec => []OfferedIsUnanswered
<1>1. AttestInv => OfferedIsUnanswered
  BY SettledIsAttested
  DEF OfferedIsUnanswered, Attested, AttestedBy, Candidate, dead_domain, removable, durably_unreachable
<1> QED BY <1>1, SightIsAttested, PTL
===============================================================================
