--------------------------- MODULE TagOverlayProofs ---------------------------
(***************************************************************************)
(* TagOverlay for any number of books, works, tags, deciders, passes and   *)
(* migrations: the variables keep their types, the overlays' locks are     *)
(* exclusive and whoever writes under one writes a change of what the file *)
(* holds now, and so no decision of the human is ever written away.  Of    *)
(* migrations one after another none takes a tag off a card, and where the *)
(* links are settled a pass offers nothing that was dismissed.             *)
(***************************************************************************)
EXTENDS TagOverlay, TLAPS

-------------------------------------------------------------------------------
(* Identities.                                                             *)

LEMMA CanonicalType ==
  ASSUME NEW ids \in LinkMap, NEW k \in Key
  PROVE  canonical(ids, k) \in Key
BY DEF canonical, LinkMap, Key

LEMMA RekeyedType ==
  ASSUME NEW ids \in LinkMap, NEW es \in SUBSET Entry
  PROVE  rekeyed(ids, es) \in SUBSET Entry
<1> SUFFICES ASSUME NEW e \in es PROVE <<canonical(ids, e[1]), e[2]>> \in Entry
  BY DEF rekeyed
<1>1. e[1] \in Key /\ e[2] \in Tag
  BY DEF Entry
<1> QED BY <1>1, CanonicalType DEF Entry

\* What a link overlay projects a key onto, it projects the key's canonical form
\* onto: an identity loses no resource its book had.
LEMMA CanonicalCovers ==
  ASSUME NEW ids \in LinkMap, NEW k \in Key
  PROVE  project(ids, k) \subseteq project(ids, canonical(ids, k))
<1>1. CASE k \in Book /\ ids[k] # NoWork
  <2>1. ids[k] \in Work /\ k \notin Work
    BY <1>1, IdentityAssumption DEF LinkMap
  <2> QED BY <1>1, <2>1 DEF project, canonical
<1>2. CASE ~ (k \in Book /\ ids[k] # NoWork)
  BY <1>2 DEF canonical
<1> QED BY <1>1, <1>2

\* Rekeying an overlay takes no tag off any card, whatever the link overlay says:
\* the invariant on which migrate_locked refuses to write never fails.
THEOREM RekeyingCovers ==
  ASSUME NEW ids \in LinkMap, NEW es \in SUBSET Entry
  PROVE  projected(ids, es) \subseteq projected(ids, rekeyed(ids, es))
<1> SUFFICES ASSUME NEW r \in Resource, NEW t \in Tag, NEW k \in Key,
                    <<k, t>> \in es, r \in project(ids, k)
             PROVE  <<r, t>> \in projected(ids, rekeyed(ids, es))
  BY DEF projected
<1>1. <<canonical(ids, k), t>> \in rekeyed(ids, es)
  BY DEF rekeyed
<1>2. r \in project(ids, canonical(ids, k))
  BY CanonicalCovers
<1> QED BY <1>1, <1>2, CanonicalType DEF projected

\* An entry of an overlay is still among its rekeyed entries.
LEMMA RekeyedHolds ==
  ASSUME NEW ids \in LinkMap, NEW es \in SUBSET Entry, NEW e \in es
  PROVE  HeldAs(e, rekeyed(ids, es))
<1>1. e = <<e[1], e[2]>> /\ e[1] \in Key
  BY DEF Entry
<1>2. <<canonical(ids, e[1]), e[2]>> \in rekeyed(ids, es)
  BY DEF rekeyed
<1>3. CASE e[1] \in Book /\ ids[e[1]] # NoWork
  <2>1. canonical(ids, e[1]) \in Work
    BY <1>3 DEF canonical, LinkMap
  <2> QED BY <1>2, <1>3, <2>1 DEF HeldAs
<1>4. CASE ~ (e[1] \in Book /\ ids[e[1]] # NoWork)
  BY <1>1, <1>2, <1>4 DEF canonical, HeldAs
<1> QED BY <1>3, <1>4

-------------------------------------------------------------------------------
(* Every action keeps the types.                                           *)

LEMMA NoLinksType == NoLinks \in LinkMap /\ NoEntries \in [File -> SUBSET Entry]
BY DEF NoLinks, LinkMap, NoEntries

LEMMA InitTypeOK == Init => TypeOK
<1> SUFFICES ASSUME Init PROVE TypeOK
  OBVIOUS
<1>1. StoreOK
  <2>1. backup \in [File -> SUBSET SUBSET Entry]
    BY DEF Init, NoEntries
  <2> QED BY <2>1, OverlayAssumption, NoLinksType DEF Init, StoreOK
<1>2. PlacesOK
  BY DEF Init, PlacesOK, Actor, Writer, DeciderPc, SuggesterPc, UpkeepPc
<1>3. WritersOK /\ SuggestersOK
  BY DEF Init, WritersOK, SuggestersOK, Verb
<1>4. UpkeepOK
  BY NoLinksType DEF Init, UpkeepOK
<1> QED BY <1>1, <1>2, <1>3, <1>4 DEF TypeOK

\* Moving one actor to a place of its own kind moves nobody else.
LEMMA GotoType ==
  ASSUME PlacesOK, NEW a \in Actor, NEW place, Goto(a, place),
         a \in Decider => place \in DeciderPc,
         a \in Suggester => place \in SuggesterPc,
         a \in Upkeep => place \in UpkeepPc
  PROVE  /\ PlacesOK'
         /\ pc'[a] = place
         /\ \A b \in Actor \ {a} : pc'[b] = pc[b]
BY DEF PlacesOK, Goto, Actor, Writer

\* Unlocking frees what the actor holds and nothing else.
LEMMA UnlockType ==
  ASSUME lock \in [File -> Actor \cup {NoOne}], NEW a \in Actor, Unlock(a)
  PROVE  /\ lock' \in [File -> Actor \cup {NoOne}]
         /\ \A f \in File : lock'[f] # a
         /\ \A f \in File, b \in Actor \ {a} : lock'[f] = b <=> lock[f] = b
BY OverlayAssumption DEF Unlock, Actor, Writer

\* An actor that is through goes idle and leaves typed locals.
LEMMA FinishType ==
  ASSUME TypeOK, NEW a \in Actor, Finish(a)
  PROVE  /\ PlacesOK' /\ WritersOK' /\ SuggestersOK' /\ UpkeepOK'
         /\ pc'[a] = "idle"
         /\ \A b \in Actor \ {a} : pc'[b] = pc[b]
<1>1. /\ PlacesOK' /\ pc'[a] = "idle"
      /\ \A b \in Actor \ {a} : pc'[b] = pc[b]
  BY GotoType DEF TypeOK, Finish, DeciderPc, SuggesterPc, UpkeepPc
<1>2. WritersOK'
  BY DEF TypeOK, WritersOK, Finish, Verb
<1>3. SuggestersOK'
  BY DEF TypeOK, SuggestersOK, Finish
<1>4. UpkeepOK'
  BY NoLinksType DEF TypeOK, UpkeepOK, Finish
<1> QED BY <1>1, <1>2, <1>3, <1>4

LEMMA EntriesType ==
  ASSUME StoreOK, NEW f \in File
  PROVE  entries(f) \subseteq SUBSET Entry
BY DEF StoreOK, entries

LEMMA TakeType ==
  ASSUME TypeOK, NEW w \in Writer, NEW f \in File, NEW from, NEW to,
         Take(w, f, from, to),
         w \in Decider => to \in DeciderPc,
         w \in Suggester => to \in SuggesterPc
  PROVE  TypeOK'
<1>1. w \in Actor /\ w \notin Upkeep
  BY OverlayAssumption DEF Actor, Writer
<1>2. PlacesOK'
  BY <1>1, GotoType DEF Take, TypeOK
<1>3. StoreOK'
  BY <1>1 DEF Take, TypeOK, StoreOK, store
<1>4. WritersOK'
  BY EntriesType DEF Take, TypeOK, WritersOK, decVars
<1>5. SuggestersOK' /\ UpkeepOK'
  BY DEF Take, TypeOK, SuggestersOK, UpkeepOK, sugVars, upVars
<1> QED BY <1>2, <1>3, <1>4, <1>5 DEF TypeOK

LEMMA WriteType ==
  ASSUME TypeOK, NEW w \in Writer, NEW f \in File, NEW after \in SUBSET Entry, NEW to,
         Write(w, f, after, to),
         w \in Decider => to \in DeciderPc,
         w \in Suggester => to \in SuggesterPc
  PROVE  TypeOK'
<1>1. w \in Actor /\ w \notin Upkeep
  BY OverlayAssumption DEF Actor, Writer
<1>2. PlacesOK'
  BY <1>1, GotoType DEF Write, TypeOK
<1>3. StoreOK'
  BY <1>1, UnlockType DEF Write, TypeOK, StoreOK
<1>4. WritersOK'
  BY DEF Write, TypeOK, WritersOK, decVars
<1>5. SuggestersOK' /\ UpkeepOK'
  BY DEF Write, TypeOK, SuggestersOK, UpkeepOK, sugVars, upVars
<1> QED BY <1>2, <1>3, <1>4, <1>5 DEF TypeOK

LEMMA UpdateFailsType ==
  ASSUME TypeOK, NEW w \in Writer, NEW places, NEW to, UpdateFails(w, places, to),
         w \in Decider => to \in DeciderPc,
         w \in Suggester => to \in SuggesterPc
  PROVE  TypeOK'
<1>1. w \in Actor /\ w \notin Upkeep
  BY OverlayAssumption DEF Actor, Writer
<1>2. PlacesOK'
  BY <1>1, GotoType DEF UpdateFails, TypeOK
<1>3. StoreOK'
  BY <1>1, UnlockType DEF UpdateFails, TypeOK, StoreOK, store
<1>4. WritersOK'
  BY DEF UpdateFails, TypeOK, WritersOK, decVars
<1>5. SuggestersOK' /\ UpkeepOK'
  BY DEF UpdateFails, TypeOK, SuggestersOK, UpkeepOK, sugVars, upVars
<1> QED BY <1>2, <1>3, <1>4, <1>5 DEF TypeOK

LEMMA DeciderStepType ==
  ASSUME TypeOK, NEW d \in Decider, DeciderStep(d)
  PROVE  TypeOK'
<1> d \in Writer /\ d \in Actor /\ d \notin Suggester /\ d \notin Upkeep
  BY OverlayAssumption DEF Writer, Actor
<1>1. LandFile(d) \in File /\ "suggestions" \in File
  BY DEF LandFile, File
<1>2. ASSUME NEW v \in Verb, NEW r \in Resource, NEW t \in Tag, Begin(d, v, r, t)
      PROVE  TypeOK'
  <2>1. PlacesOK'
    BY <1>2, GotoType DEF Begin, TypeOK, DeciderPc
  <2>2. {<<r, t>>} \in SUBSET Entry
    BY DEF Entry, Key
  <2>3. rekeyed(links, {<<r, t>>}) \in SUBSET Entry
    BY <2>2, RekeyedType DEF TypeOK, StoreOK
  <2>4. WritersOK'
    BY <1>2, <2>2, <2>3 DEF Begin, TypeOK, WritersOK
  <2>5. StoreOK' /\ SuggestersOK' /\ UpkeepOK'
    BY <1>2 DEF Begin, TypeOK, StoreOK, SuggestersOK, UpkeepOK, store, sugVars, upVars
  <2> QED BY <2>1, <2>4, <2>5 DEF TypeOK
<1>3. CASE DismissKey(d)
  <2>1. PlacesOK'
    BY <1>3, GotoType DEF DismissKey, TypeOK, DeciderPc
  <2>2. rekeyed(links, put[d]) \in SUBSET Entry
    BY RekeyedType DEF TypeOK, StoreOK, WritersOK
  <2>3. WritersOK'
    BY <1>3, <2>2 DEF DismissKey, TypeOK, WritersOK, decVars
  <2>4. StoreOK' /\ SuggestersOK' /\ UpkeepOK'
    BY <1>3 DEF DismissKey, TypeOK, StoreOK, SuggestersOK, UpkeepOK, store, sugVars, upVars
  <2> QED BY <2>1, <2>3, <2>4 DEF TypeOK
<1>4. CASE LandLock(d) \/ DropLock(d)
  BY <1>1, <1>4, TakeType DEF LandLock, DropLock, DeciderPc
<1>5. CASE Land(d)
  <2>1. draft[d] \cup put[d] \in SUBSET Entry
    BY DEF TypeOK, WritersOK
  <2> QED BY <1>1, <1>5, <2>1, WriteType DEF Land, DeciderPc
<1>6. CASE Drop(d)
  <2>1. draft[d] \ drops[d] \in SUBSET Entry
    BY DEF TypeOK, WritersOK
  <2> QED BY <1>1, <1>6, <2>1, WriteType DEF Drop, DeciderPc
<1>7. CASE LandFails(d) \/ DropFails(d)
  BY <1>7, UpdateFailsType DEF LandFails, DropFails, DeciderPc
<1>8. CASE Answer(d)
  BY <1>8, FinishType DEF Answer, TypeOK, StoreOK, store
<1> QED BY <1>2, <1>3, <1>4, <1>5, <1>6, <1>7, <1>8 DEF DeciderStep

LEMMA SuggesterStepType ==
  ASSUME TypeOK, NEW s \in Suggester, SuggesterStep(s)
  PROVE  TypeOK'
<1> s \in Writer /\ s \in Actor /\ s \notin Decider /\ s \notin Upkeep
  BY OverlayAssumption DEF Writer, Actor
<1> "suggestions" \in File
  BY DEF File
<1>1. CASE \/ ListBegin(s) \/ ListApproved(s) \/ ListSuggestions(s) \/ ListDismissed(s)
  <2> USE <1>1 DEF ListBegin, ListApproved, ListSuggestions, ListDismissed, ListRead
  <2>1. PlacesOK'
    BY GotoType DEF TypeOK, SuggesterPc
  <2>2. SuggestersOK'
    BY DEF TypeOK, SuggestersOK
  <2>3. StoreOK' /\ WritersOK' /\ UpkeepOK'
    BY DEF TypeOK, StoreOK, WritersOK, UpkeepOK, store, decVars, upVars
  <2> QED BY <2>1, <2>2, <2>3 DEF TypeOK
<1>2. ASSUME NEW b \in Book, Ask(s, b)
      PROVE  TypeOK'
  <2>1. SuggestersOK'
    BY <1>2
    DEF Ask, TypeOK, SuggestersOK, openlibrary_subjects, llm_tags, filter_subjects
  <2>2. StoreOK' /\ PlacesOK' /\ WritersOK' /\ UpkeepOK'
    BY <1>2 DEF Ask, TypeOK, StoreOK, PlacesOK, WritersOK, UpkeepOK, store, decVars, upVars
  <2> QED BY <2>1, <2>2 DEF TypeOK
<1>3. ASSUME NEW o \in Book \X Tag, Offer(s, o)
      PROVE  TypeOK'
  <2>1. PlacesOK'
    BY <1>3, GotoType DEF Offer, TypeOK, SuggesterPc
  <2>2. {o} \in SUBSET Entry
    BY DEF Entry, Key, Resource
  <2>3. rekeyed(links, {o}) \in SUBSET Entry
    BY <2>2, RekeyedType DEF TypeOK, StoreOK
  <2>4. WritersOK' /\ SuggestersOK'
    BY <1>3, <2>3 DEF Offer, TypeOK, WritersOK, SuggestersOK, decVars
  <2>5. StoreOK' /\ UpkeepOK'
    BY <1>3 DEF Offer, TypeOK, StoreOK, UpkeepOK, store, upVars
  <2> QED BY <2>1, <2>4, <2>5 DEF TypeOK
<1>4. CASE AddLock(s)
  BY <1>4, TakeType DEF AddLock, SuggesterPc
<1>5. CASE Add(s)
  <2>1. draft[s] \cup put[s] \in SUBSET Entry
    BY DEF TypeOK, WritersOK
  <2> QED BY <1>5, <2>1, WriteType DEF Add, SuggesterPc
<1>6. CASE AddFails(s)
  BY <1>6, UpdateFailsType DEF AddFails, SuggesterPc
<1>7. CASE PassEnd(s)
  BY <1>7, FinishType DEF PassEnd, TypeOK, StoreOK, store
<1> QED BY <1>1, <1>2, <1>3, <1>4, <1>5, <1>6, <1>7 DEF SuggesterStep

LEMMA UpkeepStepType ==
  ASSUME TypeOK, NEW u \in Upkeep, UpkeepStep(u)
  PROVE  TypeOK'
<1> u \in Actor /\ u \notin Decider /\ u \notin Suggester
  BY OverlayAssumption DEF Actor
<1>1. ASSUME NEW matched \in Matches, Sweep(u, matched)
      PROVE  TypeOK'
  <2>1. PlacesOK'
    BY <1>1, GotoType DEF Sweep, TypeOK, UpkeepPc
  <2>2. [b \in Book |-> IF export[b] \in matched THEN export[b] ELSE NoWork] \in LinkMap
    BY DEF TypeOK, StoreOK, LinkMap
  <2>3. UpkeepOK'
    BY <1>1, <2>2 DEF Sweep, TypeOK, UpkeepOK
  <2>4. StoreOK' /\ WritersOK' /\ SuggestersOK'
    BY <1>1 DEF Sweep, TypeOK, StoreOK, WritersOK, SuggestersOK, store, decVars, sugVars
  <2> QED BY <2>1, <2>3, <2>4 DEF TypeOK
<1>2. CASE WriteLinks(u)
  <2>1. PlacesOK'
    BY <1>2, GotoType DEF WriteLinks, TypeOK, UpkeepPc
  <2>2. StoreOK' /\ UpkeepOK'
    BY <1>2, NoLinksType DEF WriteLinks, TypeOK, StoreOK, UpkeepOK
  <2>3. WritersOK' /\ SuggestersOK'
    BY <1>2 DEF WriteLinks, TypeOK, WritersOK, SuggestersOK, decVars, sugVars
  <2> QED BY <2>1, <2>2, <2>3 DEF TypeOK
<1>3. CASE \/ MigrateBegin(u) \/ LockApproved(u) \/ LockSuggestions(u) \/ LockDismissed(u)
  <2> USE <1>3 DEF MigrateBegin, LockApproved, LockSuggestions, LockDismissed, MigrateLock
  <2>1. PlacesOK'
    BY GotoType DEF TypeOK, UpkeepPc
  <2>2. StoreOK'
    BY DEF TypeOK, StoreOK, store
  <2>3. WritersOK' /\ SuggestersOK' /\ UpkeepOK'
    BY DEF TypeOK, WritersOK, SuggestersOK, UpkeepOK, decVars, sugVars, upVars
  <2> QED BY <2>1, <2>2, <2>3 DEF TypeOK
<1>4. CASE Plan(u)
  <2>1. PlacesOK'
    BY <1>4, GotoType DEF Plan, TypeOK, UpkeepPc
  <2>2. [f \in File |-> rekeyed(links, overlay[f])] \in [File -> SUBSET Entry]
    BY RekeyedType DEF TypeOK, StoreOK
  <2>3. UpkeepOK'
    BY <1>4, <2>2 DEF Plan, TypeOK, UpkeepOK
  <2>4. StoreOK' /\ WritersOK' /\ SuggestersOK'
    BY <1>4 DEF Plan, TypeOK, StoreOK, WritersOK, SuggestersOK, store, decVars, sugVars
  <2> QED BY <2>1, <2>3, <2>4 DEF TypeOK
<1>5. ASSUME NEW f \in File, Rewrite(u, f)
      PROVE  TypeOK'
  <2>1. backup' \in [File -> SUBSET SUBSET Entry]
    BY <1>5 DEF Rewrite, TypeOK, StoreOK
  <2>2. StoreOK'
    <3>1. plan[u][f] \in SUBSET Entry
      BY DEF TypeOK, UpkeepOK
    <3>2. overlay' \in [File -> SUBSET Entry]
      BY <1>5, <3>1 DEF Rewrite, TypeOK, StoreOK
    <3> QED BY <1>5, <2>1, <3>2 DEF Rewrite, TypeOK, StoreOK
  <2>3. UpkeepOK'
    BY <1>5 DEF Rewrite, TypeOK, UpkeepOK
  <2>4. PlacesOK' /\ WritersOK' /\ SuggestersOK'
    BY <1>5 DEF Rewrite, TypeOK, PlacesOK, WritersOK, SuggestersOK, decVars, sugVars
  <2> QED BY <2>2, <2>3, <2>4 DEF TypeOK
<1>6. CASE MigrateEnd(u) \/ MigrateFails(u)
  <2>1. Unlock(u) /\ Finish(u) /\ UNCHANGED store
    BY <1>6 DEF MigrateEnd, MigrateFails
  <2> QED BY <2>1, FinishType, UnlockType DEF TypeOK, StoreOK, store
<1> QED BY <1>1, <1>2, <1>3, <1>4, <1>5, <1>6 DEF UpkeepStep

\* The variables of the tag overlays keep their types (TypeOK).
THEOREM TypeCorrect == Spec => []TypeOK
<1>1. TypeOK /\ [Next]_vars => TypeOK'
  <2> SUFFICES ASSUME TypeOK, [Next]_vars PROVE TypeOK'
    OBVIOUS
  <2>1. ASSUME NEW a \in Actor, Die(a) PROVE TypeOK'
    BY <2>1, FinishType, UnlockType DEF Die, TypeOK, StoreOK, store
  <2>2. CASE ReExport
    BY <2>2, OverlayAssumption
    DEF ReExport, TypeOK, StoreOK, PlacesOK, WritersOK, SuggestersOK, UpkeepOK,
        decVars, sugVars, upVars
  <2>3. CASE UNCHANGED vars
    BY <2>3
    DEF vars, store, decVars, sugVars, upVars, TypeOK, StoreOK, PlacesOK, WritersOK,
        SuggestersOK, UpkeepOK
  <2> QED BY <2>1, <2>2, <2>3, DeciderStepType, SuggesterStepType, UpkeepStepType DEF Next
<1> QED BY <1>1, InitTypeOK, PTL DEF Spec

-------------------------------------------------------------------------------
(* The overlays' locks.                                                    *)

\* CurrentDrafts, of one actor.
Sound(a) ==
  /\ \A f \in File : f \in Holding(a) <=> lock[f] = a
  /\ a \in Writer => \A f \in Holding(a) : draft[a] = overlay[f]
  /\ a \in Upkeep /\ pc[a] = "write" =>
       \A f \in pending[a] : \E ids \in LinkMap : plan[a][f] = rekeyed(ids, overlay[f])

\* A step of a leaves every other actor where it is, with the locals that say what
\* it holds and what it is about to write.
Others(a) ==
  \A b \in Actor \ {a} :
    /\ pc'[b] = pc[b]
    /\ b \in Writer => draft'[b] = draft[b]
    /\ b \in Decider => verb'[b] = verb[b]
    /\ b \in Upkeep => plan'[b] = plan[b] /\ pending'[b] = pending[b]

\* It takes no lock from another and gives it none.
LocksBut(a) == \A f \in File, b \in Actor \ {a} : lock'[f] = b <=> lock[f] = b

LEMMA OthersSound ==
  ASSUME TypeOK, CurrentDrafts, NEW a \in Actor, Others(a), LocksBut(a),
         \A f \in File : overlay'[f] # overlay[f] => lock[f] = a
  PROVE  \A b \in Actor \ {a} : Sound(b)'
<1> SUFFICES ASSUME NEW b \in Actor, b # a PROVE Sound(b)'
  OBVIOUS
<1>1. Sound(b)
  BY DEF CurrentDrafts, Sound
<1>2. Holding(b)' = Holding(b)
  <2>1. CASE pc[b] = "land"
    <3>1. b \in Decider
      BY <2>1, OverlayAssumption DEF TypeOK, PlacesOK, Actor, Writer, SuggesterPc, UpkeepPc
    <3> QED BY <2>1, <3>1 DEF Others, Holding, LandFile
  <2>2. CASE pc[b] # "land"
    BY <2>2 DEF Others, Holding
  <2> QED BY <2>1, <2>2
<1>3. Holding(b) \subseteq File
  BY DEF Holding, LandFile, File
<1>4. \A f \in Holding(b) : overlay'[f] = overlay[f]
  BY <1>1, <1>3 DEF Sound
<1>5. ASSUME b \in Upkeep, pc[b] = "write"
      PROVE  \A f \in pending[b] : overlay'[f] = overlay[f]
  <2>1. pending[b] \subseteq Holding(b)
    BY <1>5 DEF TypeOK, UpkeepOK, Holding
  <2> QED BY <1>4, <2>1
<1> QED BY <1>1, <1>2, <1>3, <1>4, <1>5 DEF Sound, Others, LocksBut

LEMMA AllSound ==
  ASSUME TypeOK, CurrentDrafts, NEW a \in Actor, Others(a), LocksBut(a),
         \A f \in File : overlay'[f] # overlay[f] => lock[f] = a,
         Sound(a)'
  PROVE  CurrentDrafts'
BY OthersSound DEF CurrentDrafts, Sound

\* A step that holds nothing and touches neither locks nor overlays.
LEMMA OutsideIsSafe ==
  ASSUME TypeOK, CurrentDrafts, NEW a \in Actor, Others(a),
         lock' = lock, overlay' = overlay,
         Holding(a) = {}, Holding(a)' = {}, pc'[a] # "write"
  PROVE  CurrentDrafts'
<1>1. Sound(a)'
  BY DEF CurrentDrafts, Sound
<1> QED BY <1>1, AllSound DEF LocksBut

\* A step that lets go of what it holds, having written only where it may.
LEMMA UnlockIsSafe ==
  ASSUME TypeOK, CurrentDrafts, NEW a \in Actor, Others(a), Unlock(a),
         \A f \in File : overlay'[f] # overlay[f] => lock[f] = a,
         Holding(a)' = {}, pc'[a] # "write"
  PROVE  CurrentDrafts'
<1>1. LocksBut(a) /\ \A f \in File : lock'[f] # a
  BY UnlockType DEF TypeOK, StoreOK, LocksBut
<1>2. Sound(a)'
  BY <1>1 DEF Sound
<1> QED BY <1>1, <1>2, AllSound

LEMMA FinishOthers ==
  ASSUME TypeOK, NEW a \in Actor, Finish(a)
  PROVE  Others(a) /\ Holding(a)' = {} /\ pc'[a] = "idle"
<1>1. pc'[a] = "idle" /\ \A b \in Actor \ {a} : pc'[b] = pc[b]
  BY FinishType
<1>2. Holding(a)' = {}
  BY <1>1 DEF Holding
<1> QED BY <1>1, <1>2 DEF Finish, Others

LEMMA TakeIsSafe ==
  ASSUME TypeOK, CurrentDrafts, "read" \notin Faults,
         NEW w \in Writer, NEW f \in File, NEW from, NEW to, Take(w, f, from, to),
         Holding(w) = {}, Holding(w)' = {f}
  PROVE  CurrentDrafts'
<1>1. w \in Actor /\ w \notin Upkeep /\ NoOne \notin Actor
  BY OverlayAssumption DEF Actor, Writer
<1>2. draft' = [draft EXCEPT ![w] = overlay[f]] /\ overlay' = overlay
  BY DEF Take, entries, store
<1>3. draft'[w] = overlay[f]
  BY <1>2 DEF TypeOK, WritersOK
<1>4. Others(w)
  BY <1>2 DEF Take, Goto, Others, TypeOK, PlacesOK, WritersOK, decVars, upVars
<1>5. LocksBut(w) /\ \A g \in File : lock'[g] = w <=> g = f
  BY <1>1 DEF Take, LocksBut, TypeOK, StoreOK, CurrentDrafts
<1>6. Sound(w)'
  BY <1>1, <1>2, <1>3, <1>5 DEF Sound
<1> QED BY <1>1, <1>2, <1>4, <1>5, <1>6, AllSound

LEMMA WriteIsSafe ==
  ASSUME TypeOK, CurrentDrafts,
         NEW w \in Writer, NEW f \in File, NEW after, NEW to, Write(w, f, after, to),
         f \in Holding(w), Holding(w)' = {}, to # "write"
  PROVE  CurrentDrafts'
<1>1. w \in Actor
  BY DEF Actor
<1>2. Others(w) /\ pc'[w] # "write"
  BY <1>1 DEF Write, Goto, Others, TypeOK, PlacesOK, WritersOK, decVars, upVars
<1>3. \A g \in File : overlay'[g] # overlay[g] => lock[g] = w
  BY <1>1 DEF Write, TypeOK, StoreOK, CurrentDrafts
<1> QED BY <1>1, <1>2, <1>3, UnlockIsSafe DEF Write

LEMMA UpdateFailsIsSafe ==
  ASSUME TypeOK, CurrentDrafts,
         NEW w \in Writer, NEW places, NEW to, UpdateFails(w, places, to),
         Holding(w)' = {}, to # "write"
  PROVE  CurrentDrafts'
<1>1. w \in Actor
  BY DEF Actor
<1>2. Others(w) /\ pc'[w] # "write" /\ overlay' = overlay
  BY <1>1 DEF UpdateFails, Goto, Others, TypeOK, PlacesOK, WritersOK, decVars, upVars, store
<1> QED BY <1>1, <1>2, UnlockIsSafe DEF UpdateFails

LEMMA DeciderStepCurrent ==
  ASSUME TypeOK, CurrentDrafts, "read" \notin Faults, NEW d \in Decider, DeciderStep(d)
  PROVE  CurrentDrafts'
<1> d \in Writer /\ d \in Actor /\ d \notin Suggester /\ d \notin Upkeep
  BY OverlayAssumption DEF Writer, Actor
<1>1. LandFile(d) \in File /\ "suggestions" \in File
  BY DEF LandFile, File
<1>2. ASSUME NEW v \in Verb, NEW r \in Resource, NEW t \in Tag, Begin(d, v, r, t)
      PROVE  CurrentDrafts'
  <2>1. /\ Others(d) /\ lock' = lock /\ overlay' = overlay
        /\ pc[d] = "idle" /\ pc'[d] \in {"lock", "key"}
    BY <1>2 DEF Begin, Goto, Others, TypeOK, PlacesOK, WritersOK, store, upVars
  <2> QED BY <2>1, OutsideIsSafe DEF Holding
<1>3. CASE DismissKey(d)
  <2>1. /\ Others(d) /\ lock' = lock /\ overlay' = overlay
        /\ pc[d] = "key" /\ pc'[d] = "lock"
    BY <1>3 DEF DismissKey, Goto, Others, TypeOK, PlacesOK, store, decVars, upVars
  <2> QED BY <2>1, OutsideIsSafe DEF Holding
<1>4. CASE LandLock(d)
  <2>1. Take(d, LandFile(d), "lock", "land") /\ pc[d] = "lock"
    BY <1>4 DEF LandLock, Take
  <2>2. pc'[d] = "land" /\ LandFile(d)' = LandFile(d)
    BY <2>1 DEF Take, Goto, TypeOK, PlacesOK, LandFile, decVars
  <2> QED BY <1>1, <2>1, <2>2, TakeIsSafe DEF Holding
<1>5. CASE DropLock(d)
  <2>1. Take(d, "suggestions", "lock2", "drop") /\ pc[d] = "lock2"
    BY <1>5 DEF DropLock, Take
  <2>2. pc'[d] = "drop"
    BY <2>1 DEF Take, Goto, TypeOK, PlacesOK
  <2> QED BY <1>1, <2>1, <2>2, TakeIsSafe DEF Holding
<1>6. CASE Land(d)
  <2>1. Write(d, LandFile(d), draft[d] \cup put[d], "lock2") /\ pc[d] = "land"
    BY <1>6 DEF Land
  <2>2. pc'[d] = "lock2"
    BY <2>1 DEF Write, Goto, TypeOK, PlacesOK
  <2> QED BY <1>1, <2>1, <2>2, WriteIsSafe DEF Holding
<1>7. CASE Drop(d)
  <2>1. Write(d, "suggestions", draft[d] \ drops[d], "answered") /\ pc[d] = "drop"
    BY <1>7 DEF Drop
  <2>2. pc'[d] = "answered"
    BY <2>1 DEF Write, Goto, TypeOK, PlacesOK
  <2> QED BY <1>1, <2>1, <2>2, WriteIsSafe DEF Holding
<1>8. ASSUME NEW places, UpdateFails(d, places, "answered")
      PROVE  CurrentDrafts'
  <2>1. pc'[d] = "answered"
    BY <1>8 DEF UpdateFails, Goto, TypeOK, PlacesOK
  <2> QED BY <1>8, <2>1, UpdateFailsIsSafe DEF Holding
<1>9. CASE Answer(d)
  <2>1. lock' = lock /\ overlay' = overlay /\ pc[d] = "answered" /\ Finish(d)
    BY <1>9 DEF Answer, store
  <2> QED BY <2>1, FinishOthers, OutsideIsSafe DEF Holding
<1> QED
  BY <1>2, <1>3, <1>4, <1>5, <1>6, <1>7, <1>8, <1>9
  DEF DeciderStep, LandFails, DropFails

LEMMA SuggesterStepCurrent ==
  ASSUME TypeOK, CurrentDrafts, "read" \notin Faults, NEW s \in Suggester, SuggesterStep(s)
  PROVE  CurrentDrafts'
<1> s \in Writer /\ s \in Actor /\ s \notin Decider /\ s \notin Upkeep
  BY OverlayAssumption DEF Writer, Actor
<1> "suggestions" \in File
  BY DEF File
<1>1. CASE \/ ListBegin(s) \/ ListApproved(s) \/ ListSuggestions(s) \/ ListDismissed(s)
           \/ (\E b \in Book : Ask(s, b)) \/ (\E o \in Book \X Tag : Offer(s, o))
  <2>1. /\ Others(s) /\ lock' = lock /\ overlay' = overlay
        /\ pc[s] \in {"idle", "listA", "listS", "listD", "work"}
        /\ pc'[s] \in {"listA", "listS", "listD", "work", "lock"}
    BY <1>1
    DEF ListBegin, ListApproved, ListSuggestions, ListDismissed, ListRead, Ask, Offer,
        Goto, Others, TypeOK, PlacesOK, WritersOK, store, decVars, upVars
  <2> QED BY <2>1, OutsideIsSafe DEF Holding
<1>2. CASE AddLock(s)
  <2>1. Take(s, "suggestions", "lock", "add") /\ pc[s] = "lock"
    BY <1>2 DEF AddLock, Take
  <2>2. pc'[s] = "add"
    BY <2>1 DEF Take, Goto, TypeOK, PlacesOK
  <2> QED BY <2>1, <2>2, TakeIsSafe DEF Holding
<1>3. CASE Add(s)
  <2>1. Write(s, "suggestions", draft[s] \cup put[s], "work") /\ pc[s] = "add"
    BY <1>3 DEF Add
  <2>2. pc'[s] = "work"
    BY <2>1 DEF Write, Goto, TypeOK, PlacesOK
  <2> QED BY <2>1, <2>2, WriteIsSafe DEF Holding
<1>4. CASE AddFails(s)
  <2>1. UpdateFails(s, {"lock", "add"}, "work")
    BY <1>4 DEF AddFails
  <2>2. pc'[s] = "work"
    BY <2>1 DEF UpdateFails, Goto, TypeOK, PlacesOK
  <2> QED BY <2>1, <2>2, UpdateFailsIsSafe DEF Holding
<1>5. CASE PassEnd(s)
  <2>1. lock' = lock /\ overlay' = overlay /\ pc[s] = "work" /\ Finish(s)
    BY <1>5 DEF PassEnd, store
  <2> QED BY <2>1, FinishOthers, OutsideIsSafe DEF Holding
<1> QED BY <1>1, <1>2, <1>3, <1>4, <1>5 DEF SuggesterStep

LEMMA MigrateLockIsSafe ==
  ASSUME TypeOK, CurrentDrafts, NEW u \in Upkeep, NEW f \in File, NEW from, NEW to,
         MigrateLock(u, f, from, to), to # "write",
         Holding(u)' = Holding(u) \cup {f}
  PROVE  CurrentDrafts'
<1>1. u \in Actor /\ u \notin Writer /\ NoOne \notin Actor
  BY OverlayAssumption DEF Actor, Writer
<1>2. Others(u) /\ overlay' = overlay /\ pc'[u] = to
  BY <1>1 DEF MigrateLock, Goto, Others, TypeOK, PlacesOK, decVars, upVars, store
<1>3. LocksBut(u) /\ \A g \in File : lock'[g] = u <=> g = f \/ lock[g] = u
  BY <1>1 DEF MigrateLock, LocksBut, TypeOK, StoreOK
<1>4. \A g \in File : g \in Holding(u) <=> lock[g] = u
  BY <1>1 DEF CurrentDrafts
<1>5. Sound(u)'
  BY <1>1, <1>2, <1>3, <1>4 DEF Sound
<1> QED BY <1>1, <1>2, <1>3, <1>5, AllSound

LEMMA UpkeepStepCurrent ==
  ASSUME TypeOK, CurrentDrafts, NEW u \in Upkeep, UpkeepStep(u)
  PROVE  CurrentDrafts'
<1> u \in Actor /\ u \notin Decider /\ u \notin Suggester /\ u \notin Writer
  BY OverlayAssumption DEF Actor, Writer
<1> "approved" \in File /\ "suggestions" \in File /\ "dismissed" \in File
  BY DEF File
<1>1. CASE (\E matched \in Matches : Sweep(u, matched)) \/ WriteLinks(u) \/ MigrateBegin(u)
  <2>1. /\ Others(u) /\ lock' = lock /\ overlay' = overlay
        /\ pc[u] \in {"idle", "links"} /\ pc'[u] \in {"links", "lockA"}
    BY <1>1
    DEF Sweep, WriteLinks, MigrateBegin, Goto, Others, TypeOK, PlacesOK, store, decVars, upVars
  <2> QED BY <2>1, OutsideIsSafe DEF Holding
<1>2. CASE LockApproved(u)
  <2>1. MigrateLock(u, "approved", "lockA", "lockS")
    BY <1>2 DEF LockApproved
  <2>2. pc[u] = "lockA" /\ pc'[u] = "lockS"
    BY <2>1 DEF MigrateLock, Goto, TypeOK, PlacesOK
  <2>3. Holding(u)' = Holding(u) \cup {"approved"}
    BY <2>2 DEF Holding
  <2> QED BY <2>1, <2>3, MigrateLockIsSafe
<1>3. CASE LockSuggestions(u)
  <2>1. MigrateLock(u, "suggestions", "lockS", "lockD")
    BY <1>3 DEF LockSuggestions
  <2>2. pc[u] = "lockS" /\ pc'[u] = "lockD"
    BY <2>1 DEF MigrateLock, Goto, TypeOK, PlacesOK
  <2>3. Holding(u)' = Holding(u) \cup {"suggestions"}
    BY <2>2 DEF Holding
  <2> QED BY <2>1, <2>3, MigrateLockIsSafe
<1>4. CASE LockDismissed(u)
  <2>1. MigrateLock(u, "dismissed", "lockD", "plan")
    BY <1>4 DEF LockDismissed
  <2>2. pc[u] = "lockD" /\ pc'[u] = "plan"
    BY <2>1 DEF MigrateLock, Goto, TypeOK, PlacesOK
  <2>3. Holding(u)' = Holding(u) \cup {"dismissed"}
    BY <2>2 DEF Holding, File
  <2> QED BY <2>1, <2>3, MigrateLockIsSafe
<1>5. CASE Plan(u)
  <2>1. /\ lock' = lock /\ overlay' = overlay
        /\ pc[u] = "plan" /\ pc'[u] = "write"
    BY <1>5 DEF Plan, Goto, TypeOK, PlacesOK, store
  <2>2. Others(u)
    BY <1>5 DEF Plan, Goto, Others, TypeOK, PlacesOK, UpkeepOK, decVars
  <2>3. \A f \in pending'[u] : f \in File /\ plan'[u][f] = rekeyed(links, overlay[f])
    BY <1>5 DEF Plan, TypeOK, UpkeepOK
  <2>4. links \in LinkMap
    BY DEF TypeOK, StoreOK
  <2>5. Holding(u)' = Holding(u)
    BY <2>1 DEF Holding
  <2>6. \A f \in File : f \in Holding(u) <=> lock[f] = u
    BY DEF CurrentDrafts
  <2>7. \A f \in pending'[u] : \E ids \in LinkMap : plan'[u][f] = rekeyed(ids, overlay'[f])
    BY <2>1, <2>3, <2>4
  <2>8. Sound(u)'
    BY <2>1, <2>5, <2>6, <2>7 DEF Sound
  <2> QED BY <2>1, <2>2, <2>8, AllSound DEF LocksBut
<1>6. ASSUME NEW f \in File, Rewrite(u, f)
      PROVE  CurrentDrafts'
  <2>1. /\ lock' = lock /\ pc' = pc /\ pc[u] = "write"
        /\ \A g \in File \ {f} : overlay'[g] = overlay[g]
    BY <1>6 DEF Rewrite, TypeOK, StoreOK
  <2>2. Others(u)
    BY <1>6 DEF Rewrite, Others, TypeOK, UpkeepOK, decVars
  <2>3. pending'[u] = pending[u] \ {f} /\ plan' = plan /\ pending[u] \subseteq File
    BY <1>6 DEF Rewrite, TypeOK, UpkeepOK
  <2>4. Sound(u)
    BY DEF CurrentDrafts, Sound
  <2>5. Holding(u) = File /\ Holding(u)' = File
    BY <2>1 DEF Holding
  <2>6. \A g \in pending'[u] : \E ids \in LinkMap : plan'[u][g] = rekeyed(ids, overlay'[g])
    BY <2>1, <2>3, <2>4 DEF Sound
  <2>7. Sound(u)'
    BY <2>1, <2>4, <2>5, <2>6 DEF Sound
  <2>8. \A g \in File : overlay'[g] # overlay[g] => lock[g] = u
    BY <2>4, <2>5 DEF Sound
  <2> QED BY <2>1, <2>2, <2>7, <2>8, AllSound DEF LocksBut
<1>7. CASE MigrateEnd(u) \/ MigrateFails(u)
  <2>1. Unlock(u) /\ Finish(u) /\ overlay' = overlay
    BY <1>7 DEF MigrateEnd, MigrateFails, store
  <2> QED BY <2>1, FinishOthers, UnlockIsSafe
<1> QED BY <1>1, <1>2, <1>3, <1>4, <1>5, <1>6, <1>7 DEF UpkeepStep

LEMMA NextCurrent ==
  ASSUME "read" \notin Faults, TypeOK, CurrentDrafts, [Next]_vars
  PROVE  CurrentDrafts'
<1>1. ASSUME NEW a \in Actor, Die(a) PROVE CurrentDrafts'
  <2>1. Unlock(a) /\ Finish(a) /\ overlay' = overlay
    BY <1>1 DEF Die, store
  <2> QED BY <2>1, FinishOthers, UnlockIsSafe
<1>2. CASE ReExport \/ UNCHANGED vars
  BY <1>2
  DEF ReExport, vars, store, decVars, upVars, CurrentDrafts, Holding, LandFile
<1> QED BY <1>1, <1>2, DeciderStepCurrent, SuggesterStepCurrent, UpkeepStepCurrent DEF Next

\* As long as reading an overlay does not fail, whoever is about to write one holds
\* its lock and writes a change of what it holds now (update, with_locks).
THEOREM DraftsAreCurrent ==
  ASSUME "read" \notin Faults
  PROVE  Spec => []CurrentDrafts
<1>1. Init => CurrentDrafts
  BY OverlayAssumption DEF Init, CurrentDrafts, Holding, Actor, Writer
<1>2. TypeOK /\ CurrentDrafts /\ [Next]_vars => CurrentDrafts'
  BY NextCurrent
<1> QED BY <1>1, <1>2, TypeCorrect, PTL DEF Spec

-------------------------------------------------------------------------------
(* The human's decisions.                                                  *)

Kept(f) ==
  \/ overlay[f] \subseteq overlay'[f]
  \/ \E ids \in LinkMap : overlay'[f] = rekeyed(ids, overlay[f])

\* A step that writes an overlay writes a superset of it or its rekeyed entries,
\* unless it clears a chip.
LEMMA WritesKeep ==
  ASSUME TypeOK, CurrentDrafts, Next, NEW f \in File
  PROVE  \/ Kept(f)
         \/ f = "suggestions" /\ \E d \in Decider : Drop(d)
<1>1. ASSUME NEW w \in Writer, NEW g \in File, NEW after, NEW to, Write(w, g, after, to),
             g = f => overlay[f] \subseteq after
      PROVE  Kept(f)
  BY <1>1 DEF Write, TypeOK, StoreOK, Kept
<1>2. ASSUME NEW d \in Decider, Land(d)
      PROVE  Kept(f)
  <2>1. d \in Writer /\ d \in Actor /\ LandFile(d) \in File
    BY DEF Writer, Actor, LandFile, File
  <2>2. LandFile(d) = f => draft[d] = overlay[f]
    BY <1>2, <2>1 DEF Land, CurrentDrafts, Holding
  <2> QED BY <1>1, <1>2, <2>1, <2>2 DEF Land
<1>3. ASSUME NEW d \in Decider, Drop(d)
      PROVE  Kept(f) \/ f = "suggestions"
  <2>1. "suggestions" \in File /\ d \in Writer
    BY DEF File, Writer
  <2> QED BY <1>1, <1>3, <2>1 DEF Drop
<1>4. ASSUME NEW s \in Suggester, Add(s)
      PROVE  Kept(f)
  <2>1. "suggestions" \in File /\ s \in Writer /\ s \in Actor
    BY DEF File, Writer, Actor
  <2>2. draft[s] = overlay["suggestions"]
    BY <1>4, <2>1 DEF Add, CurrentDrafts, Holding
  <2> QED BY <1>1, <1>4, <2>1, <2>2 DEF Add
<1>5. ASSUME NEW u \in Upkeep, NEW g \in File, Rewrite(u, g)
      PROVE  Kept(f)
  <2>1. CASE g = f
    <3>1. \E ids \in LinkMap : plan[u][f] = rekeyed(ids, overlay[f])
      BY <1>5, <2>1 DEF Rewrite, CurrentDrafts, Actor
    <3> QED BY <1>5, <2>1, <3>1 DEF Rewrite, TypeOK, StoreOK, Kept
  <2>2. CASE g # f
    BY <1>5, <2>2 DEF Rewrite, TypeOK, StoreOK, Kept
  <2> QED BY <2>1, <2>2
<1>6. ASSUME overlay' = overlay
      PROVE  Kept(f)
  BY <1>6 DEF Kept
<1>7. ASSUME NEW d \in Decider, DeciderStep(d)
      PROVE  \/ Kept(f)
             \/ f = "suggestions" /\ Drop(d)
  BY <1>2, <1>3, <1>6, <1>7
  DEF DeciderStep, Begin, DismissKey, LandLock, LandFails, DropLock, DropFails, Answer,
      Take, UpdateFails, store
<1>8. ASSUME NEW s \in Suggester, SuggesterStep(s)
      PROVE  Kept(f)
  BY <1>4, <1>6, <1>8
  DEF SuggesterStep, ListBegin, ListApproved, ListSuggestions, ListDismissed, ListRead,
      Ask, Offer, AddLock, AddFails, PassEnd, Take, UpdateFails, store
<1>9. ASSUME NEW u \in Upkeep, UpkeepStep(u)
      PROVE  Kept(f)
  BY <1>5, <1>6, <1>9
  DEF UpkeepStep, Sweep, WriteLinks, MigrateBegin, LockApproved, LockSuggestions,
      LockDismissed, MigrateLock, Plan, MigrateEnd, MigrateFails, store
<1>10. CASE ReExport \/ \E a \in Actor : Die(a)
  BY <1>6, <1>10 DEF ReExport, Die, store
<1> QED BY <1>7, <1>8, <1>9, <1>10 DEF Next

LEMMA KeptHolds ==
  ASSUME TypeOK, NEW f \in File, Kept(f), NEW e \in overlay[f]
  PROVE  HeldAs(e, overlay'[f])
<1>1. overlay[f] \in SUBSET Entry
  BY DEF TypeOK, StoreOK
<1>2. CASE overlay[f] \subseteq overlay'[f]
  BY <1>2 DEF HeldAs
<1>3. CASE \E ids \in LinkMap : overlay'[f] = rekeyed(ids, overlay[f])
  BY <1>1, <1>3, RekeyedHolds
<1> QED BY <1>2, <1>3 DEF Kept

\* No step loses a decision.
LEMMA DecisionsHold ==
  ASSUME TypeOK, CurrentDrafts, [Next]_vars,
         NEW f \in {"approved", "dismissed"}, NEW e \in overlay[f]
  PROVE  HeldAs(e, overlay'[f])
<1>1. CASE Next
  BY <1>1, WritesKeep, KeptHolds DEF File
<1>2. CASE UNCHANGED vars
  BY <1>2 DEF vars, store, HeldAs
<1> QED BY <1>1, <1>2

\* As long as reading an overlay does not fail, what the human approved or dismissed
\* stays on file, under a book's IRI or its durable key, whatever decisions, passes
\* and migrations run at once, and whichever of them fail or die (DecisionsStay).
THEOREM DecisionsAreKept ==
  ASSUME "read" \notin Faults
  PROVE  Spec => DecisionsStay
<1>1. TypeOK /\ CurrentDrafts /\ [Next]_vars =>
        [\A f \in {"approved", "dismissed"} : \A e \in overlay[f] : HeldAs(e, overlay'[f])]_vars
  BY DecisionsHold
<1> QED BY <1>1, TypeCorrect, DraftsAreCurrent, PTL DEF Spec, DecisionsStay

-------------------------------------------------------------------------------
(* Chips.                                                                  *)

\* Whoever goes on to clear a chip has its decision on file.
Landed ==
  \A d \in Decider : pc[d] \in {"lock2", "drop"} =>
    \A p \in put[d] : HeldAs(p, overlay[LandFile(d)])

\* A durable key is not rekeyed again, so what is held in a file of which every
\* entry is held in the next is held there too.
LEMMA HeldAsTransitive ==
  ASSUME NEW p, NEW es, NEW next, HeldAs(p, es), \A e \in es : HeldAs(e, next)
  PROVE  HeldAs(p, next)
<1>1. CASE p \in es
  BY <1>1
<1>2. CASE p[1] \in Book /\ \E w \in Work : <<w, p[2]>> \in es
  <2>1. PICK w \in Work : <<w, p[2]>> \in es
    BY <1>2
  <2>2. w \notin Book /\ HeldAs(<<w, p[2]>>, next)
    BY <2>1, IdentityAssumption
  <2>3. <<w, p[2]>> \in next
    BY <2>2 DEF HeldAs
  <2> QED BY <1>2, <2>1, <2>3 DEF HeldAs
<1> QED BY <1>1, <1>2 DEF HeldAs

\* A decider's locals are its own.
LEMMA DeciderFrame ==
  ASSUME TypeOK, [Next]_vars, NEW d \in Decider
  PROVE  \/ DeciderStep(d) \/ Die(d)
         \/ pc'[d] = pc[d] /\ put'[d] = put[d] /\ verb'[d] = verb[d]
<1> DEFINE Stays == pc'[d] = pc[d] /\ put'[d] = put[d] /\ verb'[d] = verb[d]
<1> d \in Writer /\ d \in Actor /\ d \notin Suggester /\ d \notin Upkeep
  BY OverlayAssumption DEF Writer, Actor
<1>1. ASSUME NEW b \in Decider, b # d, DeciderStep(b)
      PROVE  Stays
  BY <1>1
  DEF DeciderStep, Begin, DismissKey, LandLock, Land, LandFails, DropLock, Drop,
      DropFails, Answer, Take, Write, UpdateFails, Finish, Goto, TypeOK, PlacesOK,
      WritersOK, decVars
<1>2. ASSUME NEW s \in Suggester, SuggesterStep(s)
      PROVE  Stays
  BY <1>2
  DEF SuggesterStep, ListBegin, ListApproved, ListSuggestions, ListDismissed, ListRead,
      Ask, Offer, AddLock, Add, AddFails, PassEnd, Take, Write, UpdateFails, Finish, Goto,
      TypeOK, PlacesOK, WritersOK, decVars
<1>3. ASSUME NEW u \in Upkeep, UpkeepStep(u)
      PROVE  Stays
  BY <1>3
  DEF UpkeepStep, Sweep, WriteLinks, MigrateBegin, LockApproved, LockSuggestions,
      LockDismissed, MigrateLock, Plan, Rewrite, MigrateEnd, MigrateFails, Finish, Goto,
      TypeOK, PlacesOK, WritersOK, decVars
<1>4. ASSUME NEW a \in Actor, a # d, Die(a)
      PROVE  Stays
  BY <1>4 DEF Die, Finish, Goto, TypeOK, PlacesOK, WritersOK
<1>5. CASE ReExport \/ UNCHANGED vars
  BY <1>5 DEF ReExport, vars, decVars
<1> QED BY <1>1, <1>2, <1>3, <1>4, <1>5 DEF Next

LEMMA LandedNext ==
  ASSUME TypeOK, CurrentDrafts, Landed, [Next]_vars
  PROVE  Landed'
<1> SUFFICES ASSUME NEW d \in Decider, pc'[d] \in {"lock2", "drop"}, NEW p \in put'[d]
             PROVE  HeldAs(p, overlay'[LandFile(d)'])
  BY DEF Landed, HeldAs
<1> d \in Writer /\ d \in Actor /\ d \notin Suggester /\ d \notin Upkeep
  BY OverlayAssumption DEF Writer, Actor
<1>1. CASE Land(d)
  <2>1. put' = put /\ LandFile(d)' = LandFile(d) /\ LandFile(d) \in File
    BY <1>1 DEF Land, Write, decVars, LandFile, File
  <2>2. overlay'[LandFile(d)] = draft[d] \cup put[d]
    BY <1>1, <2>1 DEF Land, Write, TypeOK, StoreOK
  <2> QED BY <2>1, <2>2 DEF HeldAs
<1>2. CASE /\ pc[d] \in {"lock2", "drop"}
           /\ put'[d] = put[d] /\ verb'[d] = verb[d]
  <2>1. LandFile(d)' = LandFile(d) /\ LandFile(d) \in {"approved", "dismissed"}
    BY <1>2 DEF LandFile
  <2>2. HeldAs(p, overlay[LandFile(d)])
    BY <1>2 DEF Landed
  <2>3. \A e \in overlay[LandFile(d)] : HeldAs(e, overlay'[LandFile(d)])
    BY <2>1, DecisionsHold
  <2> QED BY <2>1, <2>2, <2>3, HeldAsTransitive
<1>3. CASE DeciderStep(d) /\ ~ Land(d)
  <2>1. CASE DropLock(d)
    BY <1>2, <2>1 DEF DropLock, Take, decVars
  <2>2. CASE \/ \E v \in Verb, r \in Resource, t \in Tag : Begin(d, v, r, t)
             \/ DismissKey(d) \/ LandLock(d) \/ LandFails(d) \/ Drop(d) \/ DropFails(d)
    BY <2>2
    DEF Begin, DismissKey, LandLock, LandFails, Drop, DropFails, Take, Write,
        UpdateFails, Goto, TypeOK, PlacesOK
  <2>3. CASE Answer(d)
    BY <2>3 DEF Answer, Finish, Goto, TypeOK, PlacesOK
  <2> QED BY <1>3, <2>1, <2>2, <2>3 DEF DeciderStep
<1>4. ~ Die(d)
  BY DEF Die, Finish, Goto, TypeOK, PlacesOK
<1> QED BY <1>1, <1>2, <1>3, <1>4, DeciderFrame

\* As long as reading an overlay does not fail, a chip leaves the suggestions only
\* when the decision about it is on file, whoever fails or dies in between (approve,
\* reject, drop_suggestion).
THEOREM ChipsAreDecided ==
  ASSUME "read" \notin Faults
  PROVE  Spec => ChipsLeaveDecided
<1> DEFINE Leaves(e, d) == /\ pc[d] = "drop" /\ e \in drops[d]
                           /\ \A p \in put[d] : HeldAs(p, overlay[LandFile(d)])
<1>1. Init => Landed
  BY DEF Init, Landed, Actor, Writer
<1>2. TypeOK /\ CurrentDrafts /\ Landed /\ [Next]_vars => Landed'
  BY LandedNext
<1>3. ASSUME TypeOK, CurrentDrafts, Landed, [Next]_vars, NEW e \in overlay["suggestions"]
      PROVE  HeldAs(e, overlay'["suggestions"]) \/ \E d \in Decider : Leaves(e, d)
  <2>1. "suggestions" \in File
    BY DEF File
  <2>2. CASE UNCHANGED vars
    BY <2>2 DEF vars, store, HeldAs
  <2>3. CASE Next /\ Kept("suggestions")
    BY <1>3, <2>1, <2>3, KeptHolds
  <2>4. ASSUME NEW d \in Decider, Drop(d)
        PROVE  HeldAs(e, overlay'["suggestions"]) \/ Leaves(e, d)
    <3>1. d \in Actor /\ d \in Writer
      BY DEF Actor, Writer
    <3>2. draft[d] = overlay["suggestions"]
      BY <1>3, <2>1, <2>4, <3>1 DEF Drop, CurrentDrafts, Holding
    <3>3. overlay'["suggestions"] = overlay["suggestions"] \ drops[d]
      BY <1>3, <2>1, <2>4, <3>2 DEF Drop, Write, TypeOK, StoreOK
    <3>4. CASE e \in drops[d]
      BY <1>3, <2>4, <3>4 DEF Drop, Landed
    <3>5. CASE e \notin drops[d]
      BY <3>3, <3>5 DEF HeldAs
    <3> QED BY <3>4, <3>5
  <2> QED BY <1>3, <2>1, <2>2, <2>3, <2>4, WritesKeep
<1>4. TypeOK /\ CurrentDrafts /\ Landed /\ [Next]_vars =>
        [\A e \in overlay["suggestions"] :
           \/ HeldAs(e, overlay'["suggestions"])
           \/ \E d \in Decider : Leaves(e, d)]_vars
  BY <1>3
<1> QED BY <1>1, <1>2, <1>4, TypeCorrect, DraftsAreCurrent, PTL DEF Spec, ChipsLeaveDecided

-------------------------------------------------------------------------------
(* What a step does to an overlay, and to an upkeep.                       *)

LEMMA FileChanges ==
  ASSUME TypeOK, CurrentDrafts, [Next]_vars, NEW f \in File
  PROVE  \/ overlay'[f] = overlay[f]
         \/ \E d \in Decider : Land(d) /\ f = LandFile(d) /\ overlay'[f] = overlay[f] \cup put[d]
         \/ f = "suggestions" /\ \E s \in Suggester : Add(s) /\ overlay'[f] = overlay[f] \cup put[s]
         \/ f = "suggestions" /\ \E d \in Decider : Drop(d) /\ overlay'[f] \subseteq overlay[f]
         \/ \E u \in Upkeep : Rewrite(u, f) /\ overlay'[f] = plan[u][f]
<1>1. ASSUME NEW w \in Writer, NEW g \in File, NEW after, NEW to, Write(w, g, after, to)
      PROVE  overlay'[f] = IF f = g THEN after ELSE overlay[f]
  BY <1>1 DEF Write, TypeOK, StoreOK
<1>2. ASSUME NEW d \in Decider, Land(d), overlay'[f] # overlay[f]
      PROVE  f = LandFile(d) /\ overlay'[f] = overlay[f] \cup put[d]
  <2>1. d \in Writer /\ d \in Actor /\ LandFile(d) \in File
    BY DEF Writer, Actor, LandFile, File
  <2>2. draft[d] = overlay[LandFile(d)]
    BY <1>2, <2>1 DEF Land, CurrentDrafts, Holding
  <2> QED BY <1>1, <1>2, <2>1, <2>2 DEF Land
<1>3. ASSUME NEW d \in Decider, Drop(d), overlay'[f] # overlay[f]
      PROVE  f = "suggestions" /\ overlay'[f] \subseteq overlay[f]
  <2>1. "suggestions" \in File /\ d \in Writer /\ d \in Actor
    BY DEF File, Writer, Actor
  <2>2. draft[d] = overlay["suggestions"]
    BY <1>3, <2>1 DEF Drop, CurrentDrafts, Holding
  <2> QED BY <1>1, <1>3, <2>1, <2>2 DEF Drop
<1>4. ASSUME NEW s \in Suggester, Add(s), overlay'[f] # overlay[f]
      PROVE  f = "suggestions" /\ overlay'[f] = overlay[f] \cup put[s]
  <2>1. "suggestions" \in File /\ s \in Writer /\ s \in Actor
    BY DEF File, Writer, Actor
  <2>2. draft[s] = overlay["suggestions"]
    BY <1>4, <2>1 DEF Add, CurrentDrafts, Holding
  <2> QED BY <1>1, <1>4, <2>1, <2>2 DEF Add
<1>5. ASSUME NEW u \in Upkeep, NEW g \in File, Rewrite(u, g), overlay'[f] # overlay[f]
      PROVE  f = g /\ overlay'[f] = plan[u][f]
  BY <1>5 DEF Rewrite, TypeOK, StoreOK
<1>6. ASSUME overlay' # overlay
      PROVE  \/ \E d \in Decider : Land(d) \/ Drop(d)
             \/ \E s \in Suggester : Add(s)
             \/ \E u \in Upkeep, g \in File : Rewrite(u, g)
  <2>1. ASSUME NEW d \in Decider, DeciderStep(d) PROVE Land(d) \/ Drop(d)
    BY <1>6, <2>1
    DEF DeciderStep, Begin, DismissKey, LandLock, LandFails, DropLock, DropFails, Answer,
        Take, UpdateFails, store
  <2>2. ASSUME NEW s \in Suggester, SuggesterStep(s) PROVE Add(s)
    BY <1>6, <2>2
    DEF SuggesterStep, ListBegin, ListApproved, ListSuggestions, ListDismissed, ListRead,
        Ask, Offer, AddLock, AddFails, PassEnd, Take, UpdateFails, store
  <2>3. ASSUME NEW u \in Upkeep, UpkeepStep(u) PROVE \E g \in File : Rewrite(u, g)
    BY <1>6, <2>3
    DEF UpkeepStep, Sweep, WriteLinks, MigrateBegin, LockApproved, LockSuggestions,
        LockDismissed, MigrateLock, Plan, MigrateEnd, MigrateFails, store
  <2>4. ~ (ReExport \/ UNCHANGED vars \/ \E a \in Actor : Die(a))
    BY <1>6 DEF ReExport, Die, vars, store
  <2> QED BY <2>1, <2>2, <2>3, <2>4 DEF Next
<1> QED BY <1>2, <1>3, <1>4, <1>5, <1>6

\* An upkeep's locals are its own, and so are the files it has still to rewrite.
LEMMA UpkeepFrame ==
  ASSUME TypeOK, CurrentDrafts, [Next]_vars, NEW u \in Upkeep
  PROVE  \/ UpkeepStep(u) \/ Die(u)
         \/ /\ pc'[u] = pc[u] /\ rows'[u] = rows[u] /\ plan'[u] = plan[u]
            /\ pending'[u] = pending[u]
            /\ pc[u] = "write" => \A f \in pending[u] : overlay'[f] = overlay[f]
<1> DEFINE Stays == /\ pc'[u] = pc[u] /\ rows'[u] = rows[u] /\ plan'[u] = plan[u]
                    /\ pending'[u] = pending[u]
<1> u \notin Decider /\ u \notin Suggester /\ u \in Actor
  BY OverlayAssumption DEF Actor
<1>1. ASSUME NEW d \in Decider, DeciderStep(d)
      PROVE  Stays
  BY <1>1
  DEF DeciderStep, Begin, DismissKey, LandLock, Land, LandFails, DropLock, Drop,
      DropFails, Answer, Take, Write, UpdateFails, Finish, Goto, TypeOK, PlacesOK,
      UpkeepOK, upVars
<1>2. ASSUME NEW s \in Suggester, SuggesterStep(s)
      PROVE  Stays
  BY <1>2
  DEF SuggesterStep, ListBegin, ListApproved, ListSuggestions, ListDismissed, ListRead,
      Ask, Offer, AddLock, Add, AddFails, PassEnd, Take, Write, UpdateFails, Finish, Goto,
      TypeOK, PlacesOK, UpkeepOK, upVars
<1>3. ASSUME NEW v \in Upkeep, v # u, UpkeepStep(v)
      PROVE  Stays
  BY <1>3
  DEF UpkeepStep, Sweep, WriteLinks, MigrateBegin, LockApproved, LockSuggestions,
      LockDismissed, MigrateLock, Plan, Rewrite, MigrateEnd, MigrateFails, Finish, Goto,
      TypeOK, PlacesOK, UpkeepOK, upVars
<1>4. ASSUME NEW a \in Actor, a # u, Die(a)
      PROVE  Stays
  BY <1>4 DEF Die, Finish, Goto, TypeOK, PlacesOK, UpkeepOK
<1>5. CASE ReExport \/ UNCHANGED vars
  BY <1>5 DEF ReExport, vars, store, upVars
<1>6. ASSUME ~ UpkeepStep(u), pc[u] = "write", NEW f \in pending[u]
      PROVE  overlay'[f] = overlay[f]
  <2>1. f \in File /\ lock[f] = u
    BY <1>6 DEF TypeOK, UpkeepOK, CurrentDrafts, Holding
  <2>2. ASSUME NEW a \in Actor, f \in Holding(a) PROVE a = u
    BY <2>1, <2>2 DEF CurrentDrafts
  <2>3. ASSUME NEW d \in Decider, f = LandFile(d) PROVE ~ Land(d)
    BY <2>2, <2>3 DEF Land, Holding, Actor, Writer
  <2>4. ASSUME NEW d \in Decider, f = "suggestions" PROVE ~ Drop(d)
    BY <2>2, <2>4 DEF Drop, Holding, Actor, Writer
  <2>5. ASSUME NEW s \in Suggester, f = "suggestions" PROVE ~ Add(s)
    <3>1. s \in Actor /\ s # u
      BY DEF Actor, Writer
    <3> QED BY <2>2, <2>5, <3>1 DEF Add, Holding
  <2>6. ASSUME NEW v \in Upkeep PROVE ~ Rewrite(v, f)
    <3>1. Rewrite(v, f) => v = u
      BY <2>1, <2>2 DEF Rewrite, Holding, Actor
    <3> QED BY <1>6, <2>1, <3>1 DEF UpkeepStep
  <2> QED BY <2>1, <2>3, <2>4, <2>5, <2>6, FileChanges
<1> QED BY <1>1, <1>2, <1>3, <1>4, <1>5, <1>6 DEF Next

\* Only a link pass writes the links.
LEMMA LinksChange ==
  ASSUME [Next]_vars
  PROVE  links' = links \/ \E u \in Upkeep : (WriteLinks(u) /\ links' = rows[u])
<1>1. ASSUME NEW d \in Decider, DeciderStep(d) PROVE links' = links
  BY <1>1
  DEF DeciderStep, Begin, DismissKey, LandLock, Land, LandFails, DropLock, Drop,
      DropFails, Answer, Take, Write, UpdateFails, store
<1>2. ASSUME NEW s \in Suggester, SuggesterStep(s) PROVE links' = links
  BY <1>2
  DEF SuggesterStep, ListBegin, ListApproved, ListSuggestions, ListDismissed, ListRead,
      Ask, Offer, AddLock, Add, AddFails, PassEnd, Take, Write, UpdateFails, store
<1>3. ASSUME NEW u \in Upkeep, UpkeepStep(u)
      PROVE  links' = links \/ (WriteLinks(u) /\ links' = rows[u])
  BY <1>3
  DEF UpkeepStep, Sweep, WriteLinks, MigrateBegin, LockApproved, LockSuggestions,
      LockDismissed, MigrateLock, Plan, Rewrite, MigrateEnd, MigrateFails, store
<1>4. CASE ReExport \/ UNCHANGED vars \/ \E a \in Actor : Die(a)
  BY <1>4 DEF ReExport, Die, vars, store
<1> QED BY <1>1, <1>2, <1>3, <1>4 DEF Next

\* Only Zotero writes the export.
LEMMA ExportStays ==
  ASSUME [Next]_vars, export \in Exports
  PROVE  export' \in Exports
<1>1. ASSUME NEW d \in Decider, DeciderStep(d) PROVE export' = export
  BY <1>1
  DEF DeciderStep, Begin, DismissKey, LandLock, Land, LandFails, DropLock, Drop,
      DropFails, Answer, Take, Write, UpdateFails, store
<1>2. ASSUME NEW s \in Suggester, SuggesterStep(s) PROVE export' = export
  BY <1>2
  DEF SuggesterStep, ListBegin, ListApproved, ListSuggestions, ListDismissed, ListRead,
      Ask, Offer, AddLock, Add, AddFails, PassEnd, Take, Write, UpdateFails, store
<1>3. ASSUME NEW u \in Upkeep, UpkeepStep(u) PROVE export' = export
  BY <1>3
  DEF UpkeepStep, Sweep, WriteLinks, MigrateBegin, LockApproved, LockSuggestions,
      LockDismissed, MigrateLock, Plan, Rewrite, MigrateEnd, MigrateFails, store
<1>4. CASE UNCHANGED vars \/ \E a \in Actor : Die(a)
  BY <1>4 DEF Die, vars, store
<1>5. CASE ReExport
  BY <1>5 DEF ReExport
<1> QED BY <1>1, <1>2, <1>3, <1>4, <1>5 DEF Next

-------------------------------------------------------------------------------
(* One migration at a time.                                                *)

OneUpkeep == \A u, v \in Upkeep : u = v

\* What a migration is about to write is right about the links as they are.
PlansAreCurrent ==
  \A u \in Upkeep : pc[u] = "write" =>
    \A f \in pending[u] : plan[u][f] = rekeyed(links, overlay[f])

LEMMA PlansStayCurrent ==
  ASSUME OneUpkeep, TypeOK, CurrentDrafts, PlansAreCurrent, [Next]_vars
  PROVE  PlansAreCurrent'
<1> SUFFICES ASSUME NEW u \in Upkeep, pc'[u] = "write", NEW f \in pending'[u]
             PROVE  plan'[u][f] = rekeyed(links', overlay'[f])
  BY DEF PlansAreCurrent
<1> u \in Actor
  BY DEF Actor
<1>1. links' = links \/ WriteLinks(u)
  BY LinksChange DEF OneUpkeep
<1>2. ~ WriteLinks(u) /\ ~ Die(u)
  BY DEF WriteLinks, Die, Finish, Goto, TypeOK, PlacesOK
<1>3. CASE Plan(u)
  BY <1>1, <1>2, <1>3 DEF Plan, store, TypeOK, UpkeepOK
<1>4. ASSUME NEW g \in File, Rewrite(u, g)
      PROVE  plan'[u][f] = rekeyed(links', overlay'[f])
  <2>1. f \in pending[u] /\ f # g /\ f \in File /\ pc[u] = "write"
    BY <1>4 DEF Rewrite, TypeOK, UpkeepOK
  <2>2. overlay'[f] = overlay[f] /\ plan' = plan
    BY <1>4, <2>1 DEF Rewrite, TypeOK, StoreOK
  <2> QED BY <1>1, <1>2, <2>1, <2>2 DEF PlansAreCurrent
<1>5. CASE UpkeepStep(u)
  <2>1. ~ (\/ \E matched \in Matches : Sweep(u, matched)
           \/ MigrateBegin(u) \/ LockApproved(u) \/ LockSuggestions(u) \/ LockDismissed(u)
           \/ MigrateEnd(u) \/ MigrateFails(u))
    BY DEF Sweep, MigrateBegin, LockApproved, LockSuggestions, LockDismissed, MigrateLock,
           MigrateEnd, MigrateFails, Finish, Goto, TypeOK, PlacesOK
  <2> QED BY <1>2, <1>3, <1>4, <1>5, <2>1 DEF UpkeepStep
<1>6. CASE /\ pc'[u] = pc[u] /\ plan'[u] = plan[u] /\ pending'[u] = pending[u]
           /\ \A g \in pending[u] : overlay'[g] = overlay[g]
  BY <1>1, <1>2, <1>6 DEF PlansAreCurrent
<1> QED BY <1>2, <1>5, <1>6, UpkeepFrame

\* As long as reading an overlay does not fail and migrations come one after another,
\* none takes a tag off a card, although links and decisions are written while it
\* waits and whoever of the others fails or dies (migrate_to_durable_keys).
THEOREM MigrationsCover ==
  ASSUME "read" \notin Faults, OneUpkeep
  PROVE  Spec => MigrationCovers
<1>1. Init => PlansAreCurrent
  BY DEF Init, PlansAreCurrent, Actor
<1>2. ASSUME TypeOK, PlansAreCurrent, NEW u \in Upkeep, NEW f \in File, Rewrite(u, f)
      PROVE  projected(links, overlay[f]) \subseteq projected(links', overlay'[f])
  <2>1. links' = links /\ overlay'[f] = rekeyed(links, overlay[f])
    BY <1>2 DEF Rewrite, PlansAreCurrent, TypeOK, StoreOK
  <2>2. links \in LinkMap /\ overlay[f] \in SUBSET Entry
    BY <1>2 DEF TypeOK, StoreOK
  <2> QED BY <2>1, <2>2, RekeyingCovers
<1>3. TypeOK /\ PlansAreCurrent /\ [Next]_vars =>
        [\A u \in Upkeep, f \in File : Rewrite(u, f) =>
           projected(links, overlay[f]) \subseteq projected(links', overlay'[f])]_vars
  BY <1>2
<1>4. TypeOK /\ CurrentDrafts /\ PlansAreCurrent /\ [Next]_vars => PlansAreCurrent'
  BY PlansStayCurrent
<1> QED BY <1>1, <1>3, <1>4, TypeCorrect, DraftsAreCurrent, PTL DEF Spec, MigrationCovers

-------------------------------------------------------------------------------
(* What the room sees, when every link pass finds the same.                *)

\* Every link pass finds ids, in which each work is one record of the export, and
\* nothing is stored under a durable key before the first of them.
Settled(ids) ==
  /\ ids \in LinkMap
  /\ \A b, c \in Book : ids[b] = ids[c] /\ ids[b] # NoWork => b = c
  /\ \A x \in Exports, m \in Matches :
       [b \in Book |-> IF x[b] \in m THEN x[b] ELSE NoWork] = ids
  /\ \A o \in InitialOverlays, f \in File : \A e \in o[f] : e[1] \notin Work

\* Durable keys are used from the first link pass on.
Keyed(ids, es) == links = ids \/ \A e \in es : e[1] \notin Work

LEMMA SeenMore ==
  ASSUME NEW ids, NEW es, NEW fs
  PROVE  /\ projected(ids, es \cup fs) = projected(ids, es) \cup projected(ids, fs)
         /\ es \subseteq fs => projected(ids, es) \subseteq projected(ids, fs)
BY DEF projected

LEMMA SeenOne ==
  ASSUME NEW ids, NEW r \in Resource, NEW t \in Tag
  PROVE  projected(ids, {<<r, t>>}) = {<<r, t>>}
<1>1. r \in Key /\ r \notin Work /\ project(ids, r) = {r}
  BY IdentityAssumption DEF Key, Resource, project
<1>2. ASSUME NEW q \in Resource, NEW v \in Tag
      PROVE  <<q, v>> \in projected(ids, {<<r, t>>}) <=> q = r /\ v = t
  BY <1>1 DEF projected
<1>3. projected(ids, {<<r, t>>}) \subseteq Resource \X Tag
  BY DEF projected
<1> QED BY <1>2, <1>3

LEMMA NoLinksNone ==
  ASSUME NEW es \in SUBSET Entry
  PROVE  rekeyed(NoLinks, es) = es
<1>1. \A e \in es : e = <<e[1], e[2]>>
  BY DEF Entry
<1>2. \A k : canonical(NoLinks, k) = k
  BY DEF canonical, NoLinks
<1> QED BY <1>1, <1>2 DEF rekeyed

\* Whoever has read the links sees what everybody will see.
LEMMA SeenNow ==
  ASSUME NEW ids, Settled(ids), links \in {NoLinks, ids}, NEW es, Keyed(ids, es)
  PROVE  projected(links, es) = projected(ids, es)
<1>1. CASE links = ids
  BY <1>1
<1>2. CASE links # ids
  <2>1. ASSUME NEW t, NEW k, <<k, t>> \in es
        PROVE  project(links, k) = project(ids, k)
    <3>1. k \notin Work
      BY <1>2, <2>1 DEF Keyed
    <3> QED BY <3>1 DEF project
  <2>2. ASSUME NEW x \in Resource \X Tag
        PROVE  x \in projected(links, es) <=> x \in projected(ids, es)
    <3>1. \A k \in Key : <<k, x[2]>> \in es => project(links, k) = project(ids, k)
      BY <2>1
    <3> QED BY <3>1 DEF projected
  <2>3. projected(links, es) \subseteq Resource \X Tag /\ projected(ids, es) \subseteq Resource \X Tag
    BY DEF projected
  <2> QED BY <2>2, <2>3
<1> QED BY <1>1, <1>2

\* Rekeying with the links of any moment moves nothing on a card.
LEMMA SeenRekeyed ==
  ASSUME NEW ids, Settled(ids), NEW now \in {NoLinks, ids}, NEW es \in SUBSET Entry
  PROVE  projected(ids, rekeyed(now, es)) = projected(ids, es)
<1>1. CASE now = NoLinks
  BY <1>1, NoLinksNone
<1>2. CASE now = ids
  <2>1. ids \in LinkMap
    BY DEF Settled
  <2>2. ASSUME NEW k \in Key, NEW r \in project(ids, canonical(ids, k))
        PROVE  r \in project(ids, k)
    <3>1. CASE k \in Book /\ ids[k] # NoWork
      <4>1. ids[k] \in Work /\ k \notin Work /\ canonical(ids, k) = ids[k]
        BY <2>1, <3>1, IdentityAssumption DEF LinkMap, canonical
      <4>2. r \in Book /\ ids[r] = ids[k]
        BY <2>2, <4>1 DEF project
      <4>3. r = k
        BY <3>1, <4>2 DEF Settled
      <4> QED BY <4>1, <4>3 DEF project
    <3>2. CASE ~ (k \in Book /\ ids[k] # NoWork)
      BY <2>2, <3>2 DEF canonical
    <3> QED BY <3>1, <3>2
  <2>3. ASSUME NEW x \in projected(ids, rekeyed(ids, es)) PROVE x \in projected(ids, es)
    <3>1. PICK k \in Key : <<k, x[2]>> \in rekeyed(ids, es) /\ x[1] \in project(ids, k)
      BY DEF projected
    <3>2. PICK e \in es : <<k, x[2]>> = <<canonical(ids, e[1]), e[2]>>
      BY <3>1 DEF rekeyed
    <3>3. e[1] \in Key /\ e = <<e[1], e[2]>> /\ k = canonical(ids, e[1]) /\ x[2] = e[2]
      BY <3>2 DEF Entry
    <3>4. x[1] \in project(ids, e[1]) /\ <<e[1], x[2]>> \in es
      BY <2>2, <3>1, <3>3
    <3> QED BY <3>3, <3>4 DEF projected
  <2> QED BY <1>2, <2>1, <2>3, RekeyingCovers
<1> QED BY <1>1, <1>2

LEMMA KeyedRekeyed ==
  ASSUME NEW ids, NEW now \in {NoLinks, ids}, now = ids => links = ids,
         NEW es \in SUBSET Entry, Keyed(ids, es)
  PROVE  Keyed(ids, rekeyed(now, es))
<1>1. CASE now = NoLinks
  BY <1>1, NoLinksNone
<1>2. CASE now = ids
  BY <1>2 DEF Keyed
<1> QED BY <1>1, <1>2

-------------------------------------------------------------------------------
(* The keys, when every link pass finds the same.                          *)

PlanSettled(ids, u) ==
  /\ pc[u] = "links" => rows[u] = ids
  /\ pc[u] = "write" =>
       \A f \in pending[u] : \E now \in {NoLinks, ids} :
         (now = ids => links = ids) /\ plan[u][f] = rekeyed(now, overlay[f])

KeysOK(ids) ==
  /\ export \in Exports /\ links \in {NoLinks, ids}
  /\ \A f \in File : Keyed(ids, overlay[f])
  /\ \A w \in Writer : Keyed(ids, put[w])

KeysSettled(ids) == KeysOK(ids) /\ \A u \in Upkeep : PlanSettled(ids, u)

LEMMA KeyedStays ==
  ASSUME NEW ids, KeysSettled(ids), [Next]_vars, NEW es, Keyed(ids, es)
  PROVE  /\ links' \in {NoLinks, ids} /\ (links = ids => links' = ids)
         /\ (links' = ids \/ \A e \in es : e[1] \notin Work)
<1>1. \A u \in Upkeep : WriteLinks(u) => rows[u] = ids
  BY DEF KeysSettled, PlanSettled, WriteLinks
<1>2. links' = links \/ links' = ids
  BY <1>1, LinksChange
<1> QED BY <1>2 DEF KeysSettled, KeysOK, Keyed

\* An entry that is put is one that was put, or a chip's, or the tag for a book.
LEMMA PutChanges ==
  ASSUME TypeOK, [Next]_vars, NEW w \in Writer
  PROVE  \/ put'[w] = put[w] \/ put'[w] = {} \/ put'[w] = rekeyed(links, put[w])
         \/ \E r \in Resource, t \in Tag :
              put'[w] = {<<r, t>>} \/ put'[w] = rekeyed(links, {<<r, t>>})
<1>1. ASSUME NEW a, Finish(a) PROVE put'[w] = put[w] \/ put'[w] = {}
  BY <1>1 DEF Finish
<1>2. ASSUME NEW d \in Decider, NEW v \in Verb, NEW r \in Resource, NEW t \in Tag, Begin(d, v, r, t)
      PROVE  \/ put'[w] = put[w] \/ put'[w] = {<<r, t>>} \/ put'[w] = rekeyed(links, {<<r, t>>})
  BY <1>2 DEF Begin, TypeOK, WritersOK
<1>3. ASSUME NEW d \in Decider, DismissKey(d)
      PROVE  put'[w] = put[w] \/ put'[w] = rekeyed(links, put[w])
  BY <1>3 DEF DismissKey, TypeOK, WritersOK
<1>4. ASSUME NEW s \in Suggester, NEW o \in Book \X Tag, Offer(s, o)
      PROVE  put'[w] = put[w] \/ \E r \in Resource, t \in Tag : put'[w] = rekeyed(links, {<<r, t>>})
  <2>1. PICK b \in Book, t \in Tag : o = <<b, t>>
    OBVIOUS
  <2> QED BY <1>4, <2>1 DEF Offer, TypeOK, WritersOK, Resource
<1>5. ASSUME NEW d \in Decider, DeciderStep(d)
      PROVE  \/ put' = put \/ DismissKey(d) \/ Finish(d)
             \/ \E v \in Verb, r \in Resource, t \in Tag : Begin(d, v, r, t)
  BY <1>5
  DEF DeciderStep, LandLock, Land, LandFails, DropLock, Drop, DropFails, Answer, Take, Write, UpdateFails
<1>6. ASSUME NEW s \in Suggester, SuggesterStep(s)
      PROVE  put' = put \/ Finish(s) \/ \E o \in Book \X Tag : Offer(s, o)
  BY <1>6
  DEF SuggesterStep, ListBegin, ListApproved, ListSuggestions, ListDismissed, ListRead,
      Ask, AddLock, Add, AddFails, PassEnd, Take, Write, UpdateFails
<1>7. ASSUME NEW u \in Upkeep, UpkeepStep(u)
      PROVE  put' = put \/ Finish(u)
  BY <1>7
  DEF UpkeepStep, Sweep, WriteLinks, MigrateBegin, LockApproved, LockSuggestions,
      LockDismissed, MigrateLock, Plan, Rewrite, MigrateEnd, MigrateFails
<1>8. ASSUME NEW a \in Actor, Die(a) PROVE Finish(a)
  BY <1>8 DEF Die
<1>9. CASE ReExport \/ UNCHANGED vars
  BY <1>9 DEF ReExport, vars
<1> QED BY <1>1, <1>2, <1>3, <1>4, <1>5, <1>6, <1>7, <1>8, <1>9 DEF Next

LEMMA KeysStay ==
  ASSUME TypeOK, CurrentDrafts, NEW ids, Settled(ids), KeysSettled(ids), [Next]_vars
  PROVE  KeysOK(ids)'
<1>1. links' \in {NoLinks, ids} /\ (links = ids => links' = ids)
  BY KeyedStays DEF KeysSettled, KeysOK, Keyed
<1>2. ASSUME NEW es, Keyed(ids, es) PROVE links' = ids \/ \A e \in es : e[1] \notin Work
  BY <1>2, KeyedStays
<1>3. ASSUME NEW f \in File PROVE links' = ids \/ \A e \in overlay'[f] : e[1] \notin Work
  <2>1. Keyed(ids, overlay[f]) /\ \A w \in Writer : Keyed(ids, put[w])
    BY DEF KeysSettled, KeysOK
  <2>2. ASSUME NEW w \in Writer, overlay'[f] = overlay[f] \cup put[w]
        PROVE  links' = ids \/ \A e \in overlay'[f] : e[1] \notin Work
    BY <1>2, <2>1, <2>2
  <2>3. ASSUME NEW u \in Upkeep, Rewrite(u, f), overlay'[f] = plan[u][f]
        PROVE  links' = ids \/ \A e \in overlay'[f] : e[1] \notin Work
    <3>1. PICK now \in {NoLinks, ids} :
            (now = ids => links = ids) /\ plan[u][f] = rekeyed(now, overlay[f])
      BY <2>3 DEF KeysSettled, PlanSettled, Rewrite
    <3>2. overlay[f] \in SUBSET Entry
      BY DEF TypeOK, StoreOK
    <3>3. Keyed(ids, plan[u][f])
      BY <2>1, <3>1, <3>2, KeyedRekeyed
    <3> QED BY <1>2, <2>3, <3>3
  <2>4. CASE overlay'[f] \subseteq overlay[f]
    BY <1>2, <2>1, <2>4
  <2> QED BY <2>2, <2>3, <2>4, FileChanges DEF Writer
<1>4. ASSUME NEW w \in Writer PROVE links' = ids \/ \A e \in put'[w] : e[1] \notin Work
  <2>1. Keyed(ids, put[w]) /\ put[w] \in SUBSET Entry /\ links \in {NoLinks, ids}
    BY DEF KeysSettled, KeysOK, TypeOK, WritersOK
  <2>2. ASSUME NEW r \in Resource, NEW t \in Tag
        PROVE  Keyed(ids, {<<r, t>>}) /\ {<<r, t>>} \in SUBSET Entry
    BY IdentityAssumption DEF Keyed, Entry, Key, Resource
  <2>3. Keyed(ids, rekeyed(links, put[w])) /\ Keyed(ids, {})
    BY <2>1, KeyedRekeyed DEF Keyed
  <2>4. ASSUME NEW r \in Resource, NEW t \in Tag
        PROVE  Keyed(ids, rekeyed(links, {<<r, t>>}))
    BY <2>1, <2>2, KeyedRekeyed
  <2>5. Keyed(ids, put'[w])
    BY <2>1, <2>2, <2>3, <2>4, PutChanges
  <2> QED BY <1>2, <2>5
<1> QED BY <1>1, <1>3, <1>4, ExportStays DEF KeysSettled, KeysOK, Keyed

LEMMA PlansStaySettled ==
  ASSUME TypeOK, CurrentDrafts, NEW ids, Settled(ids), KeysSettled(ids), [Next]_vars,
         NEW u \in Upkeep
  PROVE  PlanSettled(ids, u)'
<1> u \in Actor
  BY DEF Actor
<1>1. links \in {NoLinks, ids} /\ (links = ids => links' = ids) /\ PlanSettled(ids, u)
  BY KeyedStays DEF KeysSettled, KeysOK, Keyed
<1>2. CASE UpkeepStep(u)
  <2>1. ASSUME NEW m \in Matches, Sweep(u, m) PROVE PlanSettled(ids, u)'
    BY <2>1 DEF Sweep, Goto, PlanSettled, Settled, KeysSettled, KeysOK, TypeOK, PlacesOK, UpkeepOK
  <2>2. CASE Plan(u)
    <3>1. pc'[u] = "write" /\ links' = links /\ overlay' = overlay
      BY <2>2 DEF Plan, Goto, TypeOK, PlacesOK, store
    <3>2. \A f \in pending'[u] : plan'[u][f] = rekeyed(links, overlay[f])
      BY <2>2 DEF Plan, TypeOK, UpkeepOK
    <3> QED BY <1>1, <3>1, <3>2 DEF PlanSettled
  <2>3. ASSUME NEW g \in File, Rewrite(u, g) PROVE PlanSettled(ids, u)'
    <3>1. /\ pc' = pc /\ pc[u] = "write" /\ links' = links /\ plan' = plan
          /\ \A f \in pending'[u] : f \in pending[u] /\ overlay'[f] = overlay[f]
      BY <2>3 DEF Rewrite, TypeOK, StoreOK, UpkeepOK
    <3> QED BY <1>1, <3>1 DEF PlanSettled
  <2>4. CASE ~ (Plan(u) \/ (\E m \in Matches : Sweep(u, m)) \/ \E g \in File : Rewrite(u, g))
    <3>1. pc'[u] \notin {"links", "write"}
      BY <1>2, <2>4
      DEF UpkeepStep, WriteLinks, MigrateBegin, LockApproved, LockSuggestions, LockDismissed,
          MigrateLock, MigrateEnd, MigrateFails, Finish, Goto, TypeOK, PlacesOK
    <3> QED BY <3>1 DEF PlanSettled
  <2> QED BY <2>1, <2>2, <2>3, <2>4
<1>3. CASE Die(u)
  BY <1>3 DEF Die, Finish, Goto, TypeOK, PlacesOK, PlanSettled
<1>4. CASE /\ pc'[u] = pc[u] /\ rows'[u] = rows[u] /\ plan'[u] = plan[u]
           /\ pending'[u] = pending[u]
           /\ pc[u] = "write" => \A f \in pending[u] : overlay'[f] = overlay[f]
  <2>1. pc'[u] = "links" => rows'[u] = ids
    BY <1>1, <1>4 DEF PlanSettled
  <2>2. ASSUME pc'[u] = "write", NEW f \in pending'[u]
        PROVE  \E now \in {NoLinks, ids} :
                 (now = ids => links' = ids) /\ plan'[u][f] = rekeyed(now, overlay'[f])
    <3>1. pc[u] = "write" /\ f \in pending[u] /\ overlay'[f] = overlay[f] /\ plan'[u] = plan[u]
      BY <1>4, <2>2
    <3>2. PICK now \in {NoLinks, ids} :
            (now = ids => links = ids) /\ plan[u][f] = rekeyed(now, overlay[f])
      BY <1>1, <3>1 DEF PlanSettled
    <3> QED BY <1>1, <3>1, <3>2
  <2> QED BY <2>1, <2>2 DEF PlanSettled
<1> QED BY <1>2, <1>3, <1>4, UpkeepFrame

LEMMA KeysSettledNext ==
  ASSUME TypeOK, CurrentDrafts, NEW ids, Settled(ids), KeysSettled(ids), [Next]_vars
  PROVE  KeysSettled(ids)'
BY KeysStay, PlansStaySettled DEF KeysSettled

LEMMA KeysSettledFirst ==
  ASSUME NEW ids, Settled(ids), Init
  PROVE  KeysSettled(ids)
<1>1. \A f \in File : Keyed(ids, overlay[f])
  BY DEF Init, Settled, Keyed
<1>2. \A w \in Writer : Keyed(ids, put[w])
  BY DEF Init, Keyed
<1>3. \A u \in Upkeep : PlanSettled(ids, u)
  BY DEF Init, PlanSettled, Actor
<1> QED BY <1>1, <1>2, <1>3 DEF Init, KeysSettled, KeysOK

-------------------------------------------------------------------------------
(* The dismissed, and the pass.                                            *)

Seen(ids, f) == projected(ids, overlay[f])

\* What is seen through a file changes by what a decision or the pass puts there,
\* or by the chips a decision clears: migrations move nothing.
LEMMA SeenChanges ==
  ASSUME TypeOK, CurrentDrafts, NEW ids, Settled(ids), KeysSettled(ids), [Next]_vars,
         NEW f \in File
  PROVE  \/ Seen(ids, f)' = Seen(ids, f)
         \/ \E d \in Decider : /\ Land(d) /\ f = LandFile(d)
                               /\ Seen(ids, f)' = Seen(ids, f) \cup projected(ids, put[d])
         \/ /\ f = "suggestions"
            /\ \/ \E s \in Suggester :
                    Add(s) /\ Seen(ids, f)' = Seen(ids, f) \cup projected(ids, put[s])
               \/ \E d \in Decider : Drop(d) /\ Seen(ids, f)' \subseteq Seen(ids, f)
<1>1. Seen(ids, f)' = projected(ids, overlay'[f])
  BY DEF Seen, projected
<1>2. ASSUME NEW w \in Writer, overlay'[f] = overlay[f] \cup put[w]
      PROVE  Seen(ids, f)' = Seen(ids, f) \cup projected(ids, put[w])
  BY <1>1, <1>2, SeenMore DEF Seen
<1>3. ASSUME NEW u \in Upkeep, Rewrite(u, f), overlay'[f] = plan[u][f]
      PROVE  Seen(ids, f)' = Seen(ids, f)
  <2>1. PICK now \in {NoLinks, ids} : plan[u][f] = rekeyed(now, overlay[f])
    BY <1>3 DEF KeysSettled, PlanSettled, Rewrite
  <2>2. overlay[f] \in SUBSET Entry
    BY DEF TypeOK, StoreOK
  <2> QED BY <1>1, <1>3, <2>1, <2>2, SeenRekeyed DEF Seen
<1>4. overlay'[f] = overlay[f] => Seen(ids, f)' = Seen(ids, f)
  BY <1>1 DEF Seen
<1>5. overlay'[f] \subseteq overlay[f] => Seen(ids, f)' \subseteq Seen(ids, f)
  BY <1>1, SeenMore DEF Seen
<1> QED BY <1>2, <1>3, <1>4, <1>5, FileChanges DEF Writer

OneWriterEach ==
  /\ \A d, e \in Decider : d = e
  /\ \A s, r \in Suggester : s = r

\* What a dismissal is about to put is still to be seen among the suggestions.
DismissesSeen(ids, d) ==
  pc[d] \in {"key", "lock", "land"} /\ verb[d] = "reject" =>
    projected(ids, put[d]) \subseteq Seen(ids, "suggestions")

LEMMA DismissesSeenNext ==
  ASSUME TypeOK, CurrentDrafts, OneWriterEach, ~ StalePages,
         NEW ids, Settled(ids), KeysSettled(ids), [Next]_vars,
         NEW d \in Decider, DismissesSeen(ids, d)
  PROVE  DismissesSeen(ids, d)'
<1> SUFFICES ASSUME pc'[d] \in {"key", "lock", "land"}, verb'[d] = "reject"
             PROVE  projected(ids, put'[d]) \subseteq Seen(ids, "suggestions")'
  BY DEF DismissesSeen, projected
<1> d \in Writer /\ d \in Actor
  BY DEF Writer, Actor
<1>1. ~ Die(d) /\ ~ Drop(d)
  BY DEF Die, Drop, Write, Finish, Goto, TypeOK, PlacesOK
<1>2. Seen(ids, "suggestions") \subseteq Seen(ids, "suggestions")'
  <2>1. \A b \in Decider : ~ Drop(b)
    BY <1>1 DEF OneWriterEach
  <2> QED BY <2>1, SeenChanges DEF File
<1>3. links \in {NoLinks, ids} /\ put[d] \in SUBSET Entry
  BY DEF KeysSettled, KeysOK, TypeOK, WritersOK
<1>4. ASSUME NEW v \in Verb, NEW r \in Resource, NEW t \in Tag, Begin(d, v, r, t)
      PROVE  projected(ids, put'[d]) \subseteq Seen(ids, "suggestions")
  <2>1. put'[d] = {<<r, t>>}
    BY <1>4 DEF Begin, TypeOK, WritersOK
  <2>2. <<r, t>> \in projected(links, overlay["suggestions"])
    BY <1>4 DEF Begin, Offered
  <2>3. <<r, t>> \in Seen(ids, "suggestions")
    BY <1>3, <2>2, SeenNow DEF KeysSettled, KeysOK, File, Seen
  <2> QED BY <2>1, <2>3, SeenOne
<1>5. CASE DismissKey(d)
  <2>1. put'[d] = rekeyed(links, put[d]) /\ pc[d] = "key" /\ verb[d] = "reject"
    BY <1>5 DEF DismissKey, TypeOK, WritersOK, decVars
  <2> QED BY <1>2, <1>3, <2>1, SeenRekeyed DEF DismissesSeen
<1>6. CASE pc[d] \in {"lock", "key", "land"} /\ put'[d] = put[d] /\ verb'[d] = verb[d]
  BY <1>2, <1>6 DEF DismissesSeen
<1>7. CASE DeciderStep(d)
  <2>1. CASE LandLock(d)
    BY <1>6, <2>1 DEF LandLock, Take, decVars
  <2>2. ~ (Land(d) \/ LandFails(d) \/ DropLock(d) \/ DropFails(d) \/ Answer(d))
    BY DEF Land, LandFails, DropLock, DropFails, Answer, Take, Write, UpdateFails, Finish,
           Goto, TypeOK, PlacesOK
  <2> QED BY <1>1, <1>2, <1>4, <1>5, <1>7, <2>1, <2>2 DEF DeciderStep
<1>8. CASE pc'[d] = pc[d] /\ put'[d] = put[d] /\ verb'[d] = verb[d]
  BY <1>6, <1>8
<1> QED BY <1>1, <1>7, <1>8, DeciderFrame

\* The pass's locals are its own.
LEMMA SuggesterFrame ==
  ASSUME TypeOK, [Next]_vars, NEW s \in Suggester
  PROVE  \/ SuggesterStep(s) \/ Die(s)
         \/ /\ pc'[s] = pc[s] /\ put'[s] = put[s]
            /\ todo'[s] = todo[s] /\ offers'[s] = offers[s]
<1> DEFINE Stays == /\ pc'[s] = pc[s] /\ put'[s] = put[s]
                    /\ todo'[s] = todo[s] /\ offers'[s] = offers[s]
<1> s \in Writer /\ s \in Actor /\ s \notin Decider /\ s \notin Upkeep
  BY OverlayAssumption DEF Writer, Actor
<1>1. ASSUME NEW d \in Decider, DeciderStep(d)
      PROVE  Stays
  BY <1>1
  DEF DeciderStep, Begin, DismissKey, LandLock, Land, LandFails, DropLock, Drop,
      DropFails, Answer, Take, Write, UpdateFails, Finish, Goto, TypeOK, PlacesOK,
      WritersOK, SuggestersOK, sugVars
<1>2. ASSUME NEW r \in Suggester, r # s, SuggesterStep(r)
      PROVE  Stays
  BY <1>2
  DEF SuggesterStep, ListBegin, ListApproved, ListSuggestions, ListDismissed, ListRead,
      Ask, Offer, AddLock, Add, AddFails, PassEnd, Take, Write, UpdateFails, Finish, Goto,
      TypeOK, PlacesOK, WritersOK, SuggestersOK, sugVars
<1>3. ASSUME NEW u \in Upkeep, UpkeepStep(u)
      PROVE  Stays
  BY <1>3
  DEF UpkeepStep, Sweep, WriteLinks, MigrateBegin, LockApproved, LockSuggestions,
      LockDismissed, MigrateLock, Plan, Rewrite, MigrateEnd, MigrateFails, Finish, Goto,
      TypeOK, PlacesOK, WritersOK, SuggestersOK, sugVars
<1>4. ASSUME NEW a \in Actor, a # s, Die(a)
      PROVE  Stays
  BY <1>4 DEF Die, Finish, Goto, TypeOK, PlacesOK, WritersOK, SuggestersOK
<1>5. CASE ReExport \/ UNCHANGED vars
  BY <1>5 DEF ReExport, vars, sugVars
<1> QED BY <1>1, <1>2, <1>3, <1>4, <1>5 DEF Next

\* What the pass may yet offer, as the room will see it.
Wanted(ids, s) ==
  (todo[s] \X Tag) \cup offers[s]
    \cup IF pc[s] \in {"lock", "add"} THEN projected(ids, put[s]) ELSE {}

\* Nothing of it is seen among the suggestions or the dismissed: neither when the
\* pass listed the books, nor since.
PassFresh(ids, s) ==
  /\ pc[s] \in {"idle", "listA", "listS", "listD"} => offers[s] = {}
  /\ pc[s] = "listD" => (todo[s] \X Tag) \cap Seen(ids, "suggestions") = {}
  /\ pc[s] \in {"work", "lock", "add"} =>
       /\ Wanted(ids, s) \cap (Seen(ids, "suggestions") \cup Seen(ids, "dismissed")) = {}
       /\ \A o \in offers[s] : o[1] \notin todo[s]
  /\ pc[s] \in {"lock", "add"} =>
       /\ \E e \in Entry : put[s] = {e}
       /\ \E o \in Book \X Tag :
            projected(ids, put[s]) = {o} /\ o \notin offers[s] /\ o[1] \notin todo[s]

\* A dismissal dismisses what was suggested, and only the pass suggests.
LEMMA SeenGrows ==
  ASSUME TypeOK, CurrentDrafts, OneWriterEach,
         NEW ids, Settled(ids), KeysSettled(ids), [Next]_vars,
         \A d \in Decider : DismissesSeen(ids, d), NEW s \in Suggester
  PROVE  /\ Seen(ids, "dismissed")' \subseteq Seen(ids, "dismissed") \cup Seen(ids, "suggestions")
         /\ \/ Seen(ids, "suggestions")' \subseteq Seen(ids, "suggestions")
            \/ /\ Add(s)
               /\ Seen(ids, "suggestions")' \subseteq
                    Seen(ids, "suggestions") \cup projected(ids, put[s])
<1>1. ASSUME NEW d \in Decider, Land(d), "dismissed" = LandFile(d)
      PROVE  projected(ids, put[d]) \subseteq Seen(ids, "suggestions")
  <2>1. verb[d] = "reject" /\ pc[d] = "land"
    BY <1>1 DEF Land, LandFile, TypeOK, WritersOK, Verb
  <2> QED BY <2>1 DEF DismissesSeen
<1>2. Seen(ids, "dismissed")' \subseteq Seen(ids, "dismissed") \cup Seen(ids, "suggestions")
  BY <1>1, SeenChanges DEF File
<1>3. \A d \in Decider : LandFile(d) # "suggestions"
  BY DEF LandFile
<1>4. \/ Seen(ids, "suggestions")' \subseteq Seen(ids, "suggestions")
      \/ \E r \in Suggester :
           Add(r) /\ Seen(ids, "suggestions")' = Seen(ids, "suggestions") \cup projected(ids, put[r])
  BY <1>3, SeenChanges DEF File
<1> QED BY <1>2, <1>4 DEF OneWriterEach

LEMMA PassFreshElsewhere ==
  ASSUME NEW ids, NEW s \in Suggester, PassFresh(ids, s),
         pc'[s] = pc[s], put'[s] = put[s], todo'[s] = todo[s], offers'[s] = offers[s],
         Seen(ids, "suggestions")' \subseteq Seen(ids, "suggestions"),
         Seen(ids, "dismissed")' \subseteq Seen(ids, "dismissed") \cup Seen(ids, "suggestions")
  PROVE  PassFresh(ids, s)'
<1>1. projected(ids, put[s])' = projected(ids, put[s])
  BY DEF projected
<1>2. Wanted(ids, s)' = Wanted(ids, s)
  BY <1>1 DEF Wanted
<1>3. pc[s] \in {"work", "lock", "add"} =>
        Wanted(ids, s)' \cap (Seen(ids, "suggestions")' \cup Seen(ids, "dismissed")') = {}
  BY <1>2 DEF PassFresh
<1>4. pc[s] = "listD" => (todo[s] \X Tag) \cap Seen(ids, "suggestions")' = {}
  BY DEF PassFresh
<1>5. projected(ids, put'[s]) = projected(ids, put[s])
  OBVIOUS
<1> QED BY <1>1, <1>3, <1>4, <1>5 DEF PassFresh

\* The listing leaves out what is seen, under whichever links it is read.
LEMMA TaggedSeen ==
  ASSUME TypeOK, NEW ids, Settled(ids), KeysSettled(ids), NEW s \in Suggester, NEW f \in File
  PROVE  ((todo[s] \ Tagged(s, overlay[f])) \X Tag) \cap Seen(ids, f) = {}
<1>1. projected(links, overlay[f]) = Seen(ids, f)
  BY SeenNow DEF KeysSettled, KeysOK, Seen
<1> QED BY <1>1 DEF Tagged

LEMMA PassFreshStep ==
  ASSUME TypeOK, CurrentDrafts, "read" \notin Faults, OneWriterEach,
         NEW ids, Settled(ids), KeysSettled(ids), [Next]_vars,
         \A d \in Decider : DismissesSeen(ids, d),
         NEW s \in Suggester, PassFresh(ids, s), SuggesterStep(s)
  PROVE  PassFresh(ids, s)'
<1> "suggestions" \in File /\ "dismissed" \in File /\ s \in Writer /\ s \in Actor
  BY DEF File, Writer, Actor
<1> DEFINE sug == Seen(ids, "suggestions")
           dis == Seen(ids, "dismissed")
<1> USE DEF Goto
<1>1. /\ dis' \subseteq dis \cup sug
      /\ sug' \subseteq sug \/ (Add(s) /\ sug' \subseteq sug \cup projected(ids, put[s]))
  BY SeenGrows
<1>2. ASSUME NEW es \in SUBSET Entry PROVE projected(ids, es)' = projected(ids, es')
  BY DEF projected
<1>3. CASE ListBegin(s) \/ ListApproved(s)
  <2>1. pc'[s] \in {"listA", "listS"} /\ offers'[s] = {}
    BY <1>3
    DEF ListBegin, ListApproved, ListRead, PassFresh, TypeOK, PlacesOK
  <2> QED BY <2>1 DEF PassFresh
<1>4. CASE ListSuggestions(s)
  <2>1. /\ pc'[s] = "listD" /\ offers'[s] = {} /\ overlay' = overlay
        /\ todo'[s] = todo[s] \ Tagged(s, overlay["suggestions"])
    BY <1>4
    DEF ListSuggestions, ListRead, entries, PassFresh, TypeOK, PlacesOK, SuggestersOK, store
  <2>2. sug' \subseteq sug
    BY <1>1, <1>4 DEF Add, ListSuggestions, ListRead
  <2>3. (todo'[s] \X Tag) \cap sug' = {}
    BY <2>1, <2>2, TaggedSeen
  <2> QED BY <2>1, <2>3 DEF PassFresh
<1>5. CASE ListDismissed(s)
  <2>1. /\ pc[s] = "listD" /\ pc'[s] = "work" /\ offers'[s] = {} /\ overlay' = overlay
        /\ todo'[s] \subseteq todo[s] \ Tagged(s, overlay["dismissed"])
    BY <1>5
    DEF ListDismissed, entries, PassFresh, TypeOK, PlacesOK, SuggestersOK, store
  <2>2. sug' = sug /\ dis' = dis
    BY <2>1 DEF Seen, projected
  <2>3. (todo'[s] \X Tag) \cap dis = {}
    BY <2>1, TaggedSeen
  <2>4. (todo'[s] \X Tag) \cap sug = {}
    BY <2>1 DEF PassFresh
  <2>5. Wanted(ids, s)' = todo'[s] \X Tag
    BY <2>1 DEF Wanted
  <2> QED BY <2>1, <2>2, <2>3, <2>4, <2>5 DEF PassFresh
<1>6. ASSUME NEW b \in Book, Ask(s, b) PROVE PassFresh(ids, s)'
  <2>1. /\ pc[s] = "work" /\ pc'[s] = "work" /\ b \in todo[s]
        /\ todo'[s] = todo[s] \ {b} /\ offers'[s] \subseteq {b} \X Tag
    BY <1>6
    DEF Ask, openlibrary_subjects, llm_tags, filter_subjects, TypeOK, SuggestersOK
  <2>2. sug' \subseteq sug
    BY <1>1, <2>1 DEF Add
  <2>3. Wanted(ids, s)' \subseteq Wanted(ids, s)
    BY <2>1 DEF Wanted
  <2>4. \A o \in offers'[s] : o[1] \notin todo'[s]
    BY <2>1
  <2> QED BY <1>1, <2>1, <2>2, <2>3, <2>4 DEF PassFresh
<1>7. ASSUME NEW o \in Book \X Tag, Offer(s, o) PROVE PassFresh(ids, s)'
  <2>1. /\ pc[s] = "work" /\ pc'[s] = "lock" /\ o \in offers[s]
        /\ todo'[s] = todo[s] /\ offers'[s] = offers[s] \ {o}
        /\ put'[s] = rekeyed(links, {o})
    BY <1>7 DEF Offer, TypeOK, PlacesOK, SuggestersOK, WritersOK
  <2>2. sug' \subseteq sug
    BY <1>1, <2>1 DEF Add
  <2>3. {o} \in SUBSET Entry /\ links \in {NoLinks, ids}
    BY DEF Entry, Key, Resource, KeysSettled, KeysOK
  <2>4. projected(ids, put'[s]) = {o}
    <3>1. PICK b \in Book, t \in Tag : o = <<b, t>>
      OBVIOUS
    <3> QED BY <2>1, <2>3, <3>1, SeenRekeyed, SeenOne DEF Resource
  <2>5. projected(ids, put[s])' = {o}
    BY <2>4 DEF projected
  <2>6. Wanted(ids, s)' \subseteq Wanted(ids, s)
    BY <2>1, <2>5 DEF Wanted
  <2>7. \E e \in Entry : put'[s] = {e}
    <3>1. put'[s] = {<<canonical(links, o[1]), o[2]>>}
      BY <2>1 DEF rekeyed
    <3>2. put'[s] \in SUBSET Entry
      BY <2>1, <2>3, RekeyedType DEF TypeOK, StoreOK
    <3> QED BY <3>1, <3>2
  <2>8. o \notin offers'[s] /\ o[1] \notin todo'[s]
    BY <2>1 DEF PassFresh
  <2>9. \A p \in offers'[s] : p[1] \notin todo'[s]
    BY <2>1 DEF PassFresh
  <2> QED BY <1>1, <2>1, <2>2, <2>5, <2>6, <2>7, <2>8, <2>9 DEF PassFresh
<1>8. CASE AddLock(s)
  <2>1. /\ pc[s] = "lock" /\ pc'[s] = "add" /\ put'[s] = put[s]
        /\ todo'[s] = todo[s] /\ offers'[s] = offers[s]
    BY <1>8 DEF AddLock, Take, TypeOK, PlacesOK, sugVars
  <2>2. sug' \subseteq sug
    BY <1>1, <2>1 DEF Add
  <2>3. projected(ids, put[s])' = projected(ids, put[s])
    BY <2>1 DEF projected
  <2>4. Wanted(ids, s)' = Wanted(ids, s)
    BY <2>1, <2>3 DEF Wanted
  <2> QED BY <1>1, <2>1, <2>2, <2>3, <2>4 DEF PassFresh
<1>9. CASE Add(s)
  <2>1. /\ pc[s] = "add" /\ pc'[s] = "work"
        /\ todo'[s] = todo[s] /\ offers'[s] = offers[s]
    BY <1>9 DEF Add, Write, TypeOK, PlacesOK, sugVars
  <2>2. PICK o \in Book \X Tag :
          projected(ids, put[s]) = {o} /\ o \notin offers[s] /\ o[1] \notin todo[s]
    BY <2>1 DEF PassFresh
  <2>3. Wanted(ids, s)' = (todo[s] \X Tag) \cup offers[s]
    BY <2>1 DEF Wanted
  <2>4. o \notin Wanted(ids, s)'
    BY <2>2, <2>3
  <2>5. sug' \subseteq sug \cup {o}
    BY <1>1, <2>2
  <2>6. Wanted(ids, s)' \cap (sug \cup dis) = {}
    BY <2>1, <2>3 DEF PassFresh, Wanted
  <2> QED BY <1>1, <2>1, <2>4, <2>5, <2>6 DEF PassFresh
<1>10. CASE AddFails(s)
  <2>1. /\ pc[s] \in {"lock", "add"} /\ pc'[s] = "work" /\ overlay' = overlay
        /\ todo'[s] = todo[s] /\ offers'[s] = offers[s]
    BY <1>10 DEF AddFails, UpdateFails, TypeOK, PlacesOK, sugVars, store
  <2>2. sug' = sug /\ dis' = dis
    BY <2>1 DEF Seen, projected
  <2>3. Wanted(ids, s)' \subseteq Wanted(ids, s)
    BY <2>1 DEF Wanted
  <2> QED BY <2>1, <2>2, <2>3 DEF PassFresh
<1>11. CASE PassEnd(s)
  <2>1. pc'[s] = "idle" /\ offers'[s] = {}
    BY <1>11 DEF PassEnd, Finish, TypeOK, PlacesOK, SuggestersOK
  <2> QED BY <2>1 DEF PassFresh
<1> QED
  BY <1>3, <1>4, <1>5, <1>6, <1>7, <1>8, <1>9, <1>10, <1>11 DEF SuggesterStep

LEMMA PassFreshNext ==
  ASSUME TypeOK, CurrentDrafts, "read" \notin Faults, OneWriterEach,
         NEW ids, Settled(ids), KeysSettled(ids), [Next]_vars,
         \A d \in Decider : DismissesSeen(ids, d),
         NEW s \in Suggester, PassFresh(ids, s)
  PROVE  PassFresh(ids, s)'
<1>1. CASE Die(s)
  <2>1. s \in Actor
    BY DEF Actor, Writer
  <2>2. pc'[s] = "idle" /\ offers'[s] = {}
    BY <1>1, <2>1 DEF Die, Finish, Goto, TypeOK, PlacesOK, SuggestersOK
  <2> QED BY <2>2 DEF PassFresh
<1>2. CASE /\ pc'[s] = pc[s] /\ put'[s] = put[s]
           /\ todo'[s] = todo[s] /\ offers'[s] = offers[s]
  <2>1. ~ Add(s)
    BY <1>2 DEF Add, Write, Goto, TypeOK, PlacesOK, Actor, Writer
  <2> QED BY <1>2, <2>1, SeenGrows, PassFreshElsewhere
<1> QED BY <1>1, <1>2, PassFreshStep, SuggesterFrame

\* As long as reading does not fail, one decider dismisses what the room offers at that
\* moment, and every link pass finds the same works, each under one book: the pass
\* offers no tag that was dismissed, before it began or while it ran, whoever fails or
\* dies (reject, untagged_books).
THEOREM DismissedAreNotOffered ==
  ASSUME "read" \notin Faults, ~ StalePages, OneWriterEach, NEW ids, Settled(ids)
  PROVE  Spec => DismissedStaysOut
<1> DEFINE Fresh == /\ KeysSettled(ids)
                    /\ \A d \in Decider : DismissesSeen(ids, d)
                    /\ \A s \in Suggester : PassFresh(ids, s)
<1>1. Init => Fresh
  <2> SUFFICES ASSUME Init PROVE Fresh
    OBVIOUS
  <2>1. \A d \in Decider : DismissesSeen(ids, d)
    BY DEF Init, DismissesSeen, Actor, Writer
  <2>2. \A s \in Suggester : PassFresh(ids, s)
    BY DEF Init, PassFresh, Actor, Writer
  <2> QED BY <2>1, <2>2, KeysSettledFirst
<1>2. ASSUME TypeOK, CurrentDrafts, Fresh, [Next]_vars
      PROVE  Fresh'
  <2>1. \A d \in Decider : DismissesSeen(ids, d)'
    BY <1>2, DismissesSeenNext
  <2>2. \A s \in Suggester : PassFresh(ids, s)'
    BY <1>2, PassFreshNext
  <2> QED BY <1>2, <2>1, <2>2, KeysSettledNext
<1>3. ASSUME Fresh, NEW s \in Suggester, Add(s), NEW p \in put[s]
      PROVE  p \notin overlay["dismissed"]
  <2>1. pc[s] = "add" /\ PassFresh(ids, s)
    BY <1>3 DEF Add
  <2>2. PICK o \in Book \X Tag : projected(ids, put[s]) = {o}
    BY <2>1 DEF PassFresh
  <2>3. o \notin Seen(ids, "dismissed")
    BY <2>1, <2>2 DEF PassFresh, Wanted
  <2>4. put[s] = {p}
    BY <1>3, <2>1 DEF PassFresh
  <2>5. put[s] \subseteq overlay["dismissed"] =>
          projected(ids, put[s]) \subseteq Seen(ids, "dismissed")
    BY SeenMore DEF Seen
  <2> QED BY <2>2, <2>3, <2>4, <2>5
<1>4. TypeOK /\ CurrentDrafts /\ Fresh /\ [Next]_vars => Fresh'
  BY <1>2
<1>5. TypeOK /\ CurrentDrafts /\ Fresh /\ [Next]_vars =>
        [\A s \in Suggester : Add(s) =>
           \A p \in put[s] \ overlay["suggestions"] : p \notin overlay["dismissed"]]_vars
  BY <1>3
<1> HIDE DEF Fresh
<1> QED BY <1>1, <1>4, <1>5, TypeCorrect, DraftsAreCurrent, PTL DEF Spec, DismissedStaysOut
===============================================================================
