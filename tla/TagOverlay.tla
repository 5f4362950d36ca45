------------------------------ MODULE TagOverlay ------------------------------
(***************************************************************************)
(* The tag overlays: three files of entries next to the link overlay, and  *)
(* everybody who rewrites them.                                            *)
(*                                                                         *)
(*   overlay   the approved, suggested and dismissed tags.  Each file has  *)
(*             a sidecar lock; a decision takes one at a time, the         *)
(*             migration all three.                                        *)
(*   links     cms-zotero-links.ttl, replaced by a link pass without any   *)
(*             lock, and read afresh by whoever needs a key.               *)
(*   export    My Library.rdf: which work each book IRI stands for today.  *)
(*                                                                         *)
(* Deciders promote and dismiss chips, suggesters are tag-suggest passes,  *)
(* and the upkeep relinks the books and rekeys the overlays, as            *)
(* cms-zotero-links does, or only rekeys them, as the server at its start. *)
(* Files are read and written between two steps of anybody else.           *)
(***************************************************************************)
EXTENDS TagIdentities, FiniteSets

CONSTANTS
  Decider, Suggester, Upkeep,
  NoOne,        \* the owner of a free lock
  Exports,      \* the exports there may be
  InitialOverlays, \* the overlays a previous run may have left
  Matches,      \* the sets of works a link pass may match
  StalePages,   \* whether a page may decide a chip the room no longer offers
  Faults        \* what may go wrong: see Fault

File == {"approved", "suggestions", "dismissed"}

\* Reading an overlay fails, locking or writing fails, an actor dies.
Fault == {"read", "write", "death"}

ASSUME OverlayAssumption ==
  /\ Exports \subseteq LinkMap
  /\ InitialOverlays \subseteq [File -> SUBSET Entry]
  /\ Matches \subseteq SUBSET Work
  /\ StalePages \in BOOLEAN
  /\ Faults \subseteq Fault
  /\ Decider \cap Suggester = {} /\ Decider \cap Upkeep = {} /\ Suggester \cap Upkeep = {}
  /\ NoOne \notin Decider \cup Suggester \cup Upkeep

Writer == Decider \cup Suggester
Actor  == Writer \cup Upkeep
Verb   == {"approve", "reject"}

VARIABLES
  export, links, overlay,
  backup,    \* the .pre-durable-keys.bak of each file: no copy, or one
  lock,      \* the holder of each file's sidecar lock
  pc,
  draft,     \* the entries a writer read under its lock
  put,       \* the entry a writer adds
  \* a decider's locals
  verb,
  drops,     \* the forms of the chip it clears
  \* a suggester's locals
  todo,      \* the untagged books it still asks about
  offers,    \* the tags it has for the book it asked about
  \* an upkeep's locals
  rows,      \* the links it found
  plan,      \* what it will write to each file
  pending    \* the files it has still to rewrite

store   == <<export, links, overlay, backup>>
decVars == <<verb, drops>>
sugVars == <<todo, offers>>
upVars  == <<rows, plan, pending>>
vars    == <<store, lock, pc, draft, put, decVars, sugVars, upVars>>

DeciderPc   == {"idle", "key", "lock", "land", "lock2", "drop", "answered"}
SuggesterPc == {"idle", "listA", "listS", "listD", "work", "lock", "add"}
UpkeepPc    == {"idle", "links", "lockA", "lockS", "lockD", "plan", "write"}

NoLinks   == [b \in Book |-> NoWork]
NoEntries == [f \in File |-> {}]

StoreOK ==
  /\ export \in LinkMap /\ links \in LinkMap
  /\ overlay \in [File -> SUBSET Entry]
  /\ backup \in [File -> SUBSET SUBSET Entry]
  /\ lock \in [File -> Actor \cup {NoOne}]

PlacesOK ==
  /\ pc \in [Actor -> DeciderPc \cup SuggesterPc \cup UpkeepPc]
  /\ \A d \in Decider : pc[d] \in DeciderPc
  /\ \A s \in Suggester : pc[s] \in SuggesterPc
  /\ \A u \in Upkeep : pc[u] \in UpkeepPc

WritersOK ==
  /\ draft \in [Writer -> SUBSET Entry]
  /\ put \in [Writer -> SUBSET Entry]
  /\ verb \in [Decider -> Verb]
  /\ drops \in [Decider -> SUBSET Entry]

SuggestersOK ==
  /\ todo \in [Suggester -> SUBSET Book]
  /\ offers \in [Suggester -> SUBSET (Book \X Tag)]

UpkeepOK ==
  /\ rows \in [Upkeep -> LinkMap]
  /\ plan \in [Upkeep -> [File -> SUBSET Entry]]
  /\ pending \in [Upkeep -> SUBSET File]

TypeOK == StoreOK /\ PlacesOK /\ WritersOK /\ SuggestersOK /\ UpkeepOK

\* Nothing is linked yet.
Init ==
  /\ export \in Exports
  /\ links = NoLinks
  /\ overlay \in InitialOverlays
  /\ backup = NoEntries
  /\ lock = [f \in File |-> NoOne]
  /\ pc = [a \in Actor |-> "idle"]
  /\ draft = [w \in Writer |-> {}]
  /\ put = [w \in Writer |-> {}]
  /\ verb = [d \in Decider |-> "approve"]
  /\ drops = [d \in Decider |-> {}]
  /\ todo = [s \in Suggester |-> {}]
  /\ offers = [s \in Suggester |-> {}]
  /\ rows = [u \in Upkeep |-> NoLinks]
  /\ plan = [u \in Upkeep |-> NoEntries]
  /\ pending = [u \in Upkeep |-> {}]

Goto(a, place) == pc' = [pc EXCEPT ![a] = place]

\* Closing its lock files gives an actor's locks up, as does its death.
Unlock(a) == lock' = [f \in File |-> IF lock[f] = a THEN NoOne ELSE lock[f]]

\* An actor that is through: its locals are not read again.
Finish(a) ==
  /\ Goto(a, "idle")
  /\ draft' = [w \in Writer |-> IF w = a THEN {} ELSE draft[w]]
  /\ put' = [w \in Writer |-> IF w = a THEN {} ELSE put[w]]
  /\ verb' = [d \in Decider |-> IF d = a THEN "approve" ELSE verb[d]]
  /\ drops' = [d \in Decider |-> IF d = a THEN {} ELSE drops[d]]
  /\ todo' = [s \in Suggester |-> IF s = a THEN {} ELSE todo[s]]
  /\ offers' = [s \in Suggester |-> IF s = a THEN {} ELSE offers[s]]
  /\ rows' = [u \in Upkeep |-> IF u = a THEN NoLinks ELSE rows[u]]
  /\ plan' = [u \in Upkeep |-> IF u = a THEN NoEntries ELSE plan[u]]
  /\ pending' = [u \in Upkeep |-> IF u = a THEN {} ELSE pending[u]]

\* What reading a file may return: one that cannot be read is an empty one.
entries(f) == {overlay[f]} \cup IF "read" \in Faults THEN {{}} ELSE {}

-------------------------------------------------------------------------------
(* `update`, one locked read-modify-write: take the lock and read, write.  *)

Take(w, f, from, to) ==
  /\ pc[w] = from
  /\ lock[f] = NoOne
  /\ lock' = [lock EXCEPT ![f] = w]
  /\ \E es \in entries(f) : draft' = [draft EXCEPT ![w] = es]
  /\ Goto(w, to)
  /\ UNCHANGED <<store, put, decVars, sugVars, upVars>>

\* write_entries and the unlock.
Write(w, f, after, to) ==
  /\ overlay' = [overlay EXCEPT ![f] = after]
  /\ Unlock(w)
  /\ draft' = [draft EXCEPT ![w] = {}]
  /\ Goto(w, to)
  /\ UNCHANGED <<export, links, backup, put, decVars, sugVars, upVars>>

\* Locking or writing fails in one of `places`: the file stays as it is.
UpdateFails(w, places, to) ==
  /\ "write" \in Faults
  /\ pc[w] \in places
  /\ Unlock(w)
  /\ draft' = [draft EXCEPT ![w] = {}]
  /\ Goto(w, to)
  /\ UNCHANGED <<store, put, decVars, sugVars, upVars>>

-------------------------------------------------------------------------------
(* Promoting and dismissing a chip.                                        *)

\* The buttons are on the chips of a card; a page may have been drawn earlier.
Offered(r, t) == StalePages \/ <<r, t>> \in projected(links, overlay["suggestions"])

\* TagApprove and TagReject up to `targets`: the entry under both its keys.
Begin(d, v, r, t) ==
  /\ pc[d] = "idle"
  /\ Offered(r, t)
  /\ verb' = [verb EXCEPT ![d] = v]
  /\ drops' = [drops EXCEPT ![d] = {<<r, t>>} \cup rekeyed(links, {<<r, t>>})]
  /\ put' = [put EXCEPT ![d] = IF v = "approve" THEN rekeyed(links, {<<r, t>>}) ELSE {<<r, t>>}]
  /\ Goto(d, IF v = "approve" THEN "lock" ELSE "key")
  /\ UNCHANGED <<store, lock, draft, sugVars, upVars>>

\* `dismiss` looks its key up anew.
DismissKey(d) ==
  /\ pc[d] = "key"
  /\ put' = [put EXCEPT ![d] = rekeyed(links, @)]
  /\ Goto(d, "lock")
  /\ UNCHANGED <<store, lock, draft, decVars, sugVars, upVars>>

\* The file a decision lands in.
LandFile(d) == IF verb[d] = "approve" THEN "approved" ELSE "dismissed"

LandLock(d) == Take(d, LandFile(d), "lock", "land")

\* Mutant: the chip's lock is taken while the decision's is still held.
Land_nested(d) ==
  /\ pc[d] = "land"
  /\ overlay' = [overlay EXCEPT ![LandFile(d)] = draft[d] \cup put[d]]
  /\ draft' = [draft EXCEPT ![d] = {}]
  /\ Goto(d, "lock2")
  /\ UNCHANGED <<export, links, backup, lock, put, decVars, sugVars, upVars>>

Land(d) == pc[d] = "land" /\ Write(d, LandFile(d), draft[d] \cup put[d], "lock2")

\* Mutant: a decision that could not be written clears its chip all the same.
LandFails_goes_on(d) == UpdateFails(d, {"lock", "land"}, "lock2")

\* A decision that could not be written is not made, and its chip stays.
LandFails(d) == UpdateFails(d, {"lock", "land"}, "answered")

DropLock(d) == Take(d, "suggestions", "lock2", "drop")

Drop(d) == pc[d] = "drop" /\ Write(d, "suggestions", draft[d] \ drops[d], "answered")

DropFails(d) == UpdateFails(d, {"lock2", "drop"}, "answered")

\* The fragment for the card: the approved chip, or nothing in the chip's place.
\* What approve and reject returned is not looked at.
Answer(d) ==
  /\ pc[d] = "answered"
  /\ Finish(d)
  /\ UNCHANGED <<store, lock>>

-------------------------------------------------------------------------------
(* The tag-suggest pass.                                                   *)

\* The query for untagged books puts its graph together, one source after
\* another: the export, then the overlays.
ListBegin(s) ==
  /\ pc[s] = "idle"
  /\ todo' = [todo EXCEPT ![s] = {b \in Book : export[b] # NoWork}]
  /\ Goto(s, "listA")
  /\ UNCHANGED <<store, lock, draft, put, decVars, offers, upVars>>

\* The books of todo on which the graph of f, as it is served, shows a tag.
Tagged(s, es) == {b \in todo[s] : \E t \in Tag : <<b, t>> \in projected(links, es)}

ListRead(s, f, from, to) ==
  /\ pc[s] = from
  /\ \E es \in entries(f) : todo' = [todo EXCEPT ![s] = @ \ Tagged(s, es)]
  /\ Goto(s, to)
  /\ UNCHANGED <<store, lock, draft, put, decVars, offers, upVars>>

ListApproved(s)    == ListRead(s, "approved", "listA", "listS")
ListSuggestions(s) == ListRead(s, "suggestions", "listS", "listD")

\* Mutant: the query does not exclude the dismissed.
ListDismissed_unread(s) ==
  /\ pc[s] = "listD"
  /\ \E batch \in SUBSET todo[s] : todo' = [todo EXCEPT ![s] = batch]
  /\ Goto(s, "work")
  /\ UNCHANGED <<store, lock, draft, put, decVars, offers, upVars>>

\* The last source, and the answer: some of the books without a tag, suggestion
\* or dismissal.  `limit` is the caller's, and the export has tags of its own.
ListDismissed(s) ==
  /\ pc[s] = "listD"
  /\ \E es \in entries("dismissed") : \E batch \in SUBSET (todo[s] \ Tagged(s, es)) :
       todo' = [todo EXCEPT ![s] = batch]
  /\ Goto(s, "work")
  /\ UNCHANGED <<store, lock, draft, put, decVars, offers, upVars>>

\* What OpenLibrary, asked by ISBN and else by title, may know of a book: nothing
\* when there is no answer.
openlibrary_subjects == SUBSET Tag

\* The tags the LLM may make of them and of the vocabulary; it may coin one.  A reply
\* without a usable tag is none.
llm_tags == SUBSET Tag \ {{}}

\* The subjects that are no codes or headings.
filter_subjects(subjects) == SUBSET subjects

\* OpenLibrary has answered about the next book, and the LLM; should it have failed
\* or said nothing of use, the subjects are filtered instead.
Ask(s, b) ==
  /\ pc[s] = "work"
  /\ offers[s] = {}
  /\ b \in todo[s]
  /\ todo' = [todo EXCEPT ![s] = @ \ {b}]
  /\ \E subjects \in openlibrary_subjects :
       \E ts \in llm_tags \cup filter_subjects(subjects) :
         offers' = [offers EXCEPT ![s] = {b} \X ts]
  /\ UNCHANGED <<store, lock, pc, draft, put, decVars, upVars>>

\* add_suggestion looks its key up, before it locks.
Offer(s, o) ==
  /\ pc[s] = "work"
  /\ o \in offers[s]
  /\ offers' = [offers EXCEPT ![s] = @ \ {o}]
  /\ put' = [put EXCEPT ![s] = rekeyed(links, {o})]
  /\ Goto(s, "lock")
  /\ UNCHANGED <<store, lock, draft, decVars, todo, upVars>>

AddLock(s) == Take(s, "suggestions", "lock", "add")

Add(s) == pc[s] = "add" /\ Write(s, "suggestions", draft[s] \cup put[s], "work")

AddFails(s) == UpdateFails(s, {"lock", "add"}, "work")

PassEnd(s) ==
  /\ pc[s] = "work"
  /\ offers[s] = {} /\ todo[s] = {}
  /\ Finish(s)
  /\ UNCHANGED <<store, lock>>

-------------------------------------------------------------------------------
(* Relinking the books and rekeying the overlays.                          *)

\* The sweep of the Zotero API and the match of the books of the export.
Sweep(u, matched) ==
  /\ pc[u] = "idle"
  /\ rows' = [rows EXCEPT ![u] =
       [b \in Book |-> IF export[b] \in matched THEN export[b] ELSE NoWork]]
  /\ Goto(u, "links")
  /\ UNCHANGED <<store, lock, draft, put, decVars, sugVars, plan, pending>>

\* write_overlay, whose failure is ignored.
WriteLinks(u) ==
  /\ pc[u] = "links"
  /\ \/ links' = rows[u]
     \/ "write" \in Faults /\ UNCHANGED links
  /\ rows' = [rows EXCEPT ![u] = NoLinks]
  /\ Goto(u, "lockA")
  /\ UNCHANGED <<export, overlay, backup, lock, draft, put, decVars, sugVars, plan, pending>>

MigrateBegin(u) ==
  /\ pc[u] = "idle"
  /\ Goto(u, "lockA")
  /\ UNCHANGED <<store, lock, draft, put, decVars, sugVars, upVars>>

\* Mutant: the migration does not wait for the writers.
MigrateLock_unlocked(u, f, from, to) ==
  /\ pc[u] = from
  /\ Goto(u, to)
  /\ UNCHANGED <<store, lock, draft, put, decVars, sugVars, upVars>>

\* with_locks takes them in this order and keeps each.
MigrateLock(u, f, from, to) ==
  /\ pc[u] = from
  /\ lock[f] = NoOne
  /\ lock' = [lock EXCEPT ![f] = u]
  /\ Goto(u, to)
  /\ UNCHANGED <<store, draft, put, decVars, sugVars, upVars>>

LockApproved(u)    == MigrateLock(u, "approved", "lockA", "lockS")
LockSuggestions(u) == MigrateLock(u, "suggestions", "lockS", "lockD")
LockDismissed(u)   == MigrateLock(u, "dismissed", "lockD", "plan")

\* Mutant: the entries are rewritten as the room sees them.
Plan_as_served(u) ==
  /\ pc[u] = "plan"
  /\ plan' = [plan EXCEPT ![u] = [f \in File |-> rekeyed(links, projected(links, overlay[f]))]]
  /\ pending' = [pending EXCEPT ![u] = {f \in File : plan'[u][f] # overlay[f]}]
  /\ Goto(u, "write")
  /\ UNCHANGED <<store, lock, draft, put, decVars, sugVars, rows>>

\* migrate_locked up to its first write.  A file it cannot read is an empty one,
\* with nothing to move.  That the room would lose sight of an entry, on which
\* the code refuses, no link overlay makes true (RekeyingCovers).
Plan(u) ==
  /\ pc[u] = "plan"
  /\ plan' = [plan EXCEPT ![u] = [f \in File |-> rekeyed(links, overlay[f])]]
  /\ \E lost \in SUBSET File :
       /\ lost # {} => "read" \in Faults
       /\ pending' = [pending EXCEPT ![u] =
            {f \in File \ lost : rekeyed(links, overlay[f]) # overlay[f]}]
  /\ Goto(u, "write")
  /\ UNCHANGED <<store, lock, draft, put, decVars, sugVars, rows>>

\* The files a migration rewrites before f.
Before(f) == CASE f = "approved" -> {}
               [] f = "suggestions" -> {"approved"}
               [] f = "dismissed" -> {"approved", "suggestions"}

\* One file's backup, if it has none, which may fail, and its new entries.
Rewrite(u, f) ==
  /\ pc[u] = "write"
  /\ f \in pending[u]
  /\ pending[u] \cap Before(f) = {}
  /\ \/ backup' = [backup EXCEPT ![f] = IF @ = {} THEN {overlay[f]} ELSE @]
     \/ "write" \in Faults /\ UNCHANGED backup
  /\ overlay' = [overlay EXCEPT ![f] = plan[u][f]]
  /\ pending' = [pending EXCEPT ![u] = @ \ {f}]
  /\ UNCHANGED <<export, links, lock, pc, draft, put, decVars, sugVars, rows, plan>>

MigrateEnd(u) ==
  /\ pc[u] = "write"
  /\ pending[u] = {}
  /\ Unlock(u)
  /\ Finish(u)
  /\ UNCHANGED store

\* A lock or a write fails: the files already rewritten stay so.
MigrateFails(u) ==
  /\ "write" \in Faults
  /\ \/ pc[u] \in {"lockA", "lockS", "lockD"}
     \/ pc[u] = "write" /\ pending[u] # {}
  /\ Unlock(u)
  /\ Finish(u)
  /\ UNCHANGED store

-------------------------------------------------------------------------------
(* The surroundings.                                                       *)

\* Zotero exports its library anew: book IRIs made of ordinals are dealt out
\* to other works.
ReExport ==
  /\ \E x \in Exports \ {export} : export' = x
  /\ UNCHANGED <<links, overlay, backup, lock, pc, draft, put, decVars, sugVars, upVars>>

\* A panic, a killed server or bin.
Die(a) ==
  /\ "death" \in Faults
  /\ pc[a] # "idle"
  /\ Unlock(a)
  /\ Finish(a)
  /\ UNCHANGED store

-------------------------------------------------------------------------------
DeciderStep(d) ==
  \/ \E v \in Verb, r \in Resource, t \in Tag : Begin(d, v, r, t)
  \/ DismissKey(d)
  \/ LandLock(d) \/ Land(d) \/ LandFails(d)
  \/ DropLock(d) \/ Drop(d) \/ DropFails(d)
  \/ Answer(d)

SuggesterStep(s) ==
  \/ ListBegin(s) \/ ListApproved(s) \/ ListSuggestions(s) \/ ListDismissed(s)
  \/ (\E b \in Book : Ask(s, b)) \/ (\E o \in Book \X Tag : Offer(s, o))
  \/ AddLock(s) \/ Add(s) \/ AddFails(s)
  \/ PassEnd(s)

UpkeepStep(u) ==
  \/ \E matched \in Matches : Sweep(u, matched)
  \/ WriteLinks(u) \/ MigrateBegin(u)
  \/ LockApproved(u) \/ LockSuggestions(u) \/ LockDismissed(u)
  \/ Plan(u) \/ (\E f \in File : Rewrite(u, f)) \/ MigrateEnd(u) \/ MigrateFails(u)

Next ==
  \/ \E d \in Decider : DeciderStep(d)
  \/ \E s \in Suggester : SuggesterStep(s)
  \/ \E u \in Upkeep : UpkeepStep(u)
  \/ \E a \in Actor : Die(a)
  \/ ReExport

Spec == Init /\ [][Next]_vars

\* What runs goes on, and a flock's waiters are served: one that is free again
\* and again is eventually got.  Nobody has to start anything.
Fairness ==
  /\ \A d \in Decider :
       /\ WF_vars(DismissKey(d) \/ Land(d) \/ Drop(d) \/ Answer(d))
       /\ SF_vars(LandLock(d)) /\ SF_vars(DropLock(d))
  /\ \A s \in Suggester : WF_vars(Add(s)) /\ SF_vars(AddLock(s))
  /\ \A u \in Upkeep :
       /\ WF_vars(Plan(u) \/ (\E f \in File : Rewrite(u, f)) \/ MigrateEnd(u))
       /\ SF_vars(LockApproved(u)) /\ SF_vars(LockSuggestions(u)) /\ SF_vars(LockDismissed(u))

FairSpec == Spec /\ Fairness

-------------------------------------------------------------------------------
(* Properties.                                                             *)

\* The files whose locks an actor holds where it is.
Holding(a) ==
  CASE pc[a] = "land" -> {LandFile(a)}
    [] pc[a] \in {"drop", "add"} -> {"suggestions"}
    [] pc[a] = "lockS" -> {"approved"}
    [] pc[a] = "lockD" -> {"approved", "suggestions"}
    [] pc[a] \in {"plan", "write"} -> File
    [] OTHER -> {}

\* Whoever is about to write an overlay holds its lock and writes a change of
\* what the file holds now, be it one decision or the whole migration: nobody's
\* update falls between (update, migrate_to_durable_keys, with_locks).
CurrentDrafts ==
  \A a \in Actor :
    /\ \A f \in File : f \in Holding(a) <=> lock[f] = a
    /\ a \in Writer => \A f \in Holding(a) : draft[a] = overlay[f]
    /\ a \in Upkeep /\ pc[a] = "write" =>
         \A f \in pending[a] : \E ids \in LinkMap : plan[a][f] = rekeyed(ids, overlay[f])

\* e is among es, under its own key or, if that is a book's, a durable one.
HeldAs(e, es) ==
  \/ e \in es
  \/ e[1] \in Book /\ \E w \in Work : <<w, e[2]>> \in es

\* What the human approved or dismissed stays so, whatever passes, migrations
\* and other decisions write, whoever fails or dies (update: sixteen approvals
\* at once once kept one or two).
DecisionsStay ==
  [][\A f \in {"approved", "dismissed"} : \A e \in overlay[f] : HeldAs(e, overlay'[f])]_vars

\* A chip leaves the suggestions only when the decision about it is on file, so
\* that a failure or a death between the two steps of a decision leaves a tag
\* decided and still offered, never neither (approve, reject).
ChipsLeaveDecided ==
  [][\A e \in overlay["suggestions"] :
       \/ HeldAs(e, overlay'["suggestions"])
       \/ \E d \in Decider :
            /\ pc[d] = "drop" /\ e \in drops[d]
            /\ \A p \in put[d] : HeldAs(p, overlay[LandFile(d)])]_vars

\* A migration takes no tag off a card: what the room sees through the file it
\* writes covers what it saw (migrate_to_durable_keys).
MigrationCovers ==
  [][\A u \in Upkeep, f \in File : Rewrite(u, f) =>
       projected(links, overlay[f]) \subseteq projected(links', overlay'[f])]_vars

\* Every decision is answered and every migration ends: the migration, which
\* holds one overlay's lock while it waits for the next, and the decisions,
\* which hold one at a time, never wait for each other in a circle (with_locks).
DecisionsAnswered ==
  /\ \A d \in Decider : pc[d] # "idle" ~> pc[d] = "idle"
  /\ \A u \in Upkeep : pc[u] = "lockS" ~> pc[u] = "idle"

\* The tag-suggest pass offers no tag the human has dismissed (reject: "so the
\* tag-suggest pass won't re-suggest it").
DismissedStaysOut ==
  [][\A s \in Suggester : Add(s) =>
       \A p \in put[s] \ overlay["suggestions"] : p \notin overlay["dismissed"]]_vars
===============================================================================
