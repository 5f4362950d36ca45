------------------------------ MODULE LinkReview ------------------------------
(***************************************************************************)
(* The link review: the passes that check the bookmarks, the requests with *)
(* which the human keeps, removes and purges links, and the editors that   *)
(* write the bookmarks file outside the room, all over two shared files.   *)
(*                                                                         *)
(*   bookmarks   bookmarks.org: the URLs it carries, one record each.  No  *)
(*               lock protects it; a strike re-reads it before it writes.  *)
(*   cache       cms-linkstatus.json.  Written only under its sidecar lock *)
(*               (`update_status`), read by anybody without it.            *)
(*   worksheet   dead-links.org, rewritten inside the same lock.           *)
(*   backup      the .bak file of each strike action.                      *)
(*                                                                         *)
(* A pass and a request (a "hand") are sequential; what is between two of  *)
(* their awaits, or between taking and releasing the lock, is a step of    *)
(* its own, so everybody else's steps may fall between.                    *)
(***************************************************************************)
EXTENDS LinkStatus, FiniteSets

CONSTANTS
  Url,
  Pass,             \* link-check passes: the scheduled one, the startup one,
                    \* `cms-linkcheck`
  Hand,             \* requests to purge, remove or keep
  NoOne,            \* the lock's owner when it is free
  Found,            \* the outcomes a check may have
  InitialCaches,    \* the status caches a previous run may have left
  InitialBookmarks, \* the bookmarks files there may be at the start
  Editable,         \* the URLs outside editors add and delete
  Decisions,        \* the requests hands may make
  CheckpointEvery,  \* CHECKPOINT_EVERY
  StrikeAttempts,   \* STRIKE_ATTEMPTS
  Faults,           \* what may go wrong: see Fault
  Mortal            \* the actors that may die

Decision == RemovalSet \cup {"remove", "keep"}

\* A read of the cache fails, a lock or a write of it fails, a write of the
\* worksheet fails, the bookmarks cannot be read or written.
Fault == {"cacheRead", "cacheWrite", "worksheet", "bookmarks"}

ASSUME ReviewAssumption ==
  /\ Found \subseteq Outcome
  /\ InitialCaches \subseteq [Url -> Entry]
  /\ InitialBookmarks \subseteq SUBSET Url
  /\ Editable \subseteq Url
  /\ Decisions \subseteq Decision
  /\ Pass \cap Hand = {}
  /\ NoOne \notin Pass \cup Hand
  /\ CheckpointEvery \in Nat \ {0}
  /\ StrikeAttempts \in Nat \ {0}
  /\ Faults \subseteq Fault
  /\ Mortal \subseteq Pass \cup Hand

Actor == Pass \cup Hand

\* The .bak file a strike backs up to: one per removal set, one for removes.
BackupFile == RemovalSet \cup {"remove"}

NoEntries == [u \in Url |-> Absent]

VARIABLES
  clock,      \* unix_now()
  bookmarks, cache, worksheet, backup,
  lock,       \* the holder of the cache's sidecar lock
  pc,         \* where each actor is
  now,        \* the time each actor took at its start
  draft,      \* the cache each actor read under the lock
  \* a pass's locals
  listed,     \* the bookmarks it lists
  start,      \* the cache it loaded
  todo,       \* the URLs it has not checked yet
  done,       \* its checks since the last multiple of CheckpointEvery
  known, learned,   \* its PassLedger
  \* a hand's locals
  decision, targets,
  text,       \* the first read of the bookmarks file
  tries       \* how often that file changed between the two reads

files    == <<bookmarks, cache, worksheet, backup>>
passVars == <<listed, start, todo, done, known, learned>>
handVars == <<decision, targets, text, tries>>
vars     == <<clock, files, lock, pc, now, draft, passVars, handVars>>

Held    == {"save", "report", "ckSave", "ckReport"}
PassPc  == {"idle", "load", "check", "ckLock"} \cup Held
HandPc  == {"idle", "read", "reread", "backup", "write", "lock", "save", "report"}

FilesOK ==
  /\ clock \in Time
  /\ bookmarks \in SUBSET Url
  /\ cache \in [Url -> Entry]
  /\ worksheet \in SUBSET Url
  /\ backup \in [BackupFile -> SUBSET Url]

PlacesOK ==
  /\ pc \in [Actor -> PassPc \cup HandPc]
  /\ \A p \in Pass : pc[p] \in PassPc
  /\ \A h \in Hand : pc[h] \in HandPc

DraftsOK ==
  /\ now \in [Actor -> Time]
  /\ draft \in [Actor -> [Url -> Entry]]

PassOK ==
  /\ listed \in [Pass -> SUBSET Url]
  /\ start \in [Pass -> [Url -> Entry]]
  /\ todo \in [Pass -> SUBSET Url]
  /\ done \in [Pass -> 0 .. CheckpointEvery - 1]
  /\ known \in [Pass -> SUBSET Url]
  /\ learned \in [Pass -> [Url -> Entry]]

HandOK ==
  /\ decision \in [Hand -> Decision]
  /\ targets \in [Hand -> SUBSET Url]
  /\ text \in [Hand -> SUBSET Url]
  /\ tries \in [Hand -> 0 .. StrikeAttempts]

TypeOK ==
  /\ lock \in Actor \cup {NoOne}
  /\ FilesOK /\ PlacesOK /\ DraftsOK /\ PassOK /\ HandOK

Init ==
  /\ clock = 1
  /\ bookmarks \in InitialBookmarks
  /\ cache \in InitialCaches
  /\ worksheet = buckets(cache)
  /\ backup = [f \in BackupFile |-> {}]
  /\ lock = NoOne
  /\ pc = [a \in Actor |-> "idle"]
  /\ now = [a \in Actor |-> 1]
  /\ draft = [a \in Actor |-> NoEntries]
  /\ listed = [p \in Pass |-> {}]
  /\ start = [p \in Pass |-> NoEntries]
  /\ todo = [p \in Pass |-> {}]
  /\ done = [p \in Pass |-> 0]
  /\ known = [p \in Pass |-> {}]
  /\ learned = [p \in Pass |-> NoEntries]
  /\ decision = [h \in Hand |-> "keep"]
  /\ targets = [h \in Hand |-> {}]
  /\ text = [h \in Hand |-> {}]
  /\ tries = [h \in Hand |-> 0]

Goto(a, step) == pc' = [pc EXCEPT ![a] = step]

\* An actor's locals when it is through: nothing of them is read again.
ForgetPass(p) ==
  /\ listed' = [listed EXCEPT ![p] = {}]
  /\ start' = [start EXCEPT ![p] = NoEntries]
  /\ todo' = [todo EXCEPT ![p] = {}]
  /\ done' = [done EXCEPT ![p] = 0]
  /\ known' = [known EXCEPT ![p] = {}]
  /\ learned' = [learned EXCEPT ![p] = NoEntries]
  /\ UNCHANGED handVars

ForgetHand(h) ==
  /\ decision' = [decision EXCEPT ![h] = "keep"]
  /\ targets' = [targets EXCEPT ![h] = {}]
  /\ text' = [text EXCEPT ![h] = {}]
  /\ tries' = [tries EXCEPT ![h] = 0]
  /\ UNCHANGED passVars

Finish(a) ==
  /\ Goto(a, "idle")
  /\ now' = [now EXCEPT ![a] = 1]
  /\ draft' = [draft EXCEPT ![a] = NoEntries]
  /\ IF a \in Pass THEN ForgetPass(a) ELSE ForgetHand(a)

Release(a) == lock' = IF lock = a THEN NoOne ELSE lock

\* load_status: every read brings old entries onto the current vocabulary.
load_status == [u \in Url |-> migrate(cache[u])]

\* What a read of the cache may return: one that fails is an empty cache.
Loads == {load_status} \cup IF "cacheRead" \in Faults THEN {NoEntries} ELSE {}

-------------------------------------------------------------------------------
(* update_status, step by step: take the lock and read, save, report.      *)

Acquire(a, from, to) ==
  /\ pc[a] = from
  /\ lock = NoOne
  /\ lock' = a
  /\ \E c \in Loads : draft' = [draft EXCEPT ![a] = c]
  /\ Goto(a, to)
  /\ UNCHANGED <<clock, files, now, passVars, handVars>>

\* Mutant: only what a person decides rewrites the worksheet.
Report_by_hands(a) ==
  /\ pc[a] \in {"report", "ckReport"}
  /\ worksheet' = IF a \in Hand THEN buckets(cache) ELSE worksheet
  /\ Release(a)
  /\ UNCHANGED <<clock, bookmarks, cache, backup>>
  /\ IF pc[a] = "report"
       THEN Finish(a)
       ELSE /\ Goto(a, "check")
            /\ draft' = [draft EXCEPT ![a] = NoEntries]
            /\ UNCHANGED <<now, passVars, handVars>>

\* write_report, whose own failure is ignored, and the unlock.
Report(a) ==
  /\ pc[a] \in {"report", "ckReport"}
  /\ \/ worksheet' = buckets(cache)
     \/ "worksheet" \in Faults /\ UNCHANGED worksheet
  /\ Release(a)
  /\ UNCHANGED <<clock, bookmarks, cache, backup>>
  /\ IF pc[a] = "report"
       THEN Finish(a)
       ELSE /\ Goto(a, "check")
            /\ draft' = [draft EXCEPT ![a] = NoEntries]
            /\ UNCHANGED <<now, passVars, handVars>>

-------------------------------------------------------------------------------
(* The link-check pass.                                                    *)

\* unix_now(), then list_bookmarks, which awaits the graph.
PassBegin(p) ==
  /\ pc[p] = "idle"
  /\ now' = [now EXCEPT ![p] = clock]
  /\ listed' = [listed EXCEPT ![p] = bookmarks]
  /\ Goto(p, "load")
  /\ UNCHANGED <<clock, files, lock, draft, start, todo, done, known, learned,
                 handVars>>

\* The starting copy, the ledger, and what to check: any part of what is not
\* fresh, `limit` being the caller's.
PassLoad(p) ==
  /\ pc[p] = "load"
  /\ \E c \in Loads :
       /\ start' = [start EXCEPT ![p] = c]
       /\ known' = [known EXCEPT ![p] = {u \in Url : c[u] # Absent}]
       /\ \E batch \in SUBSET {u \in listed[p] : ~ fresh(c[u], now[p])} :
            todo' = [todo EXCEPT ![p] = batch]
  /\ Goto(p, "check")
  /\ UNCHANGED <<clock, files, lock, now, draft, listed, done, learned, handVars>>

\* One answer, in whatever order the concurrent checks come back.
Check(p, u, outcome) ==
  /\ pc[p] = "check"
  /\ u \in todo[p]
  /\ learned' = [learned EXCEPT ![p][u] = merge(start[p][u], outcome, now[p])]
  /\ todo' = [todo EXCEPT ![p] = @ \ {u}]
  /\ done' = [done EXCEPT ![p] = (@ + 1) % CheckpointEvery]
  /\ Goto(p, IF (done[p] + 1) % CheckpointEvery = 0 THEN "ckLock" ELSE "check")
  /\ UNCHANGED <<clock, files, lock, now, draft, listed, start, known, handVars>>

CheckpointLock(p) == Acquire(p, "ckLock", "ckSave")

FinalLock(p) == todo[p] = {} /\ Acquire(p, "check", "save")

\* Mutant: everything learned is written.
Retained_all(p) == learned[p]

\* learned.retain: a known URL that has left the file was removed meanwhile.
Retained(p) ==
  [u \in Url |-> IF draft[p][u] # Absent \/ u \notin known[p]
                 THEN learned[p][u] ELSE Absent]

\* Mutant: the pass's own copy of the decision is written.
Merged_blindly(p, u) ==
  IF Retained(p)[u] = Absent THEN draft[p][u] ELSE Retained(p)[u]

\* What was learned of u, onto the entry on disk: the disk's keep wins.
Merged(p, u) ==
  IF Retained(p)[u] = Absent THEN draft[p][u]
  ELSE [Retained(p)[u] EXCEPT !.kept = @ \/ draft[p][u].kept]

\* Mutant: the final write prunes nothing.
Pruned_never(p, u) == FALSE

Pruned(p, u) == pc[p] = "save" /\ u \notin listed[p] /\ u \in known[p]

\* PassLedger::write, for a checkpoint and for the final write that prunes.
PassSave(p) ==
  /\ pc[p] \in {"save", "ckSave"}
  /\ cache' = [u \in Url |-> IF Pruned(p, u) THEN Absent ELSE Merged(p, u)]
  /\ learned' = [learned EXCEPT ![p] = Retained(p)]
  /\ known' = [known EXCEPT ![p] = @ \cup {u \in Url : Retained(p)[u] # Absent}]
  /\ Goto(p, IF pc[p] = "save" THEN "report" ELSE "ckReport")
  /\ UNCHANGED <<clock, bookmarks, worksheet, backup, lock, now, draft, listed,
                 start, todo, done, handVars>>

\* The lock cannot be taken: a checkpoint is skipped, the final write is an error.
PassLockFails(p) ==
  /\ "cacheWrite" \in Faults
  /\ UNCHANGED <<clock, files, lock>>
  /\ \/ /\ pc[p] = "check" /\ todo[p] = {}
        /\ Finish(p)
     \/ /\ pc[p] = "ckLock"
        /\ Goto(p, "check")
        /\ UNCHANGED <<now, draft, passVars, handVars>>

\* The save failed.  A checkpoint's failure is only logged, though its `retain`
\* has happened; the final write's ends the pass.
PassSaveFails(p) ==
  /\ "cacheWrite" \in Faults
  /\ pc[p] \in {"save", "ckSave"}
  /\ Release(p)
  /\ UNCHANGED <<clock, files>>
  /\ IF pc[p] = "save"
       THEN Finish(p)
       ELSE /\ learned' = [learned EXCEPT ![p] = Retained(p)]
            /\ draft' = [draft EXCEPT ![p] = NoEntries]
            /\ Goto(p, "check")
            /\ UNCHANGED <<now, listed, start, todo, done, known, handVars>>

-------------------------------------------------------------------------------
(* The human's requests.                                                   *)

HandBegin(h, d, urls, step) ==
  /\ pc[h] = "idle"
  /\ d \in Decisions
  /\ decision' = [decision EXCEPT ![h] = d]
  /\ targets' = [targets EXCEPT ![h] = urls]
  /\ now' = [now EXCEPT ![h] = clock]
  /\ Goto(h, step)
  /\ UNCHANGED <<clock, files, lock, draft, passVars, text, tries>>

\* PurgeView::execute: the set is computed from an unlocked read; an empty one
\* is answered at once.
PurgeBegin(h, set) ==
  /\ candidates(set, load_status, clock) # {}
  /\ HandBegin(h, set, candidates(set, load_status, clock), "read")

RemoveBegin(h, u) == HandBegin(h, "remove", {u}, "read")

KeepBegin(h, u) == HandBegin(h, "keep", {u}, "lock")

\* strike_bookmarks' first read; nothing to strike writes nothing.
StrikeRead(h) ==
  /\ pc[h] = "read"
  /\ text' = [text EXCEPT ![h] = bookmarks]
  /\ Goto(h, IF bookmarks \cap targets[h] = {} THEN "lock" ELSE "reread")
  /\ UNCHANGED <<clock, files, lock, now, draft, passVars, decision, targets, tries>>

\* Mutant: the second read is not compared with the first.
StrikeReread_blindly(h) ==
  /\ pc[h] = "reread"
  /\ Goto(h, "backup")
  /\ UNCHANGED <<clock, files, lock, now, draft, passVars, handVars>>

StrikeReread(h) ==
  /\ pc[h] = "reread"
  /\ bookmarks = text[h]
  /\ Goto(h, "backup")
  /\ UNCHANGED <<clock, files, lock, now, draft, passVars, handVars>>

\* Mutant: it tries for as long as the file changes.
StrikeAgain_forever(h) ==
  /\ pc[h] = "reread"
  /\ bookmarks # text[h]
  /\ Goto(h, "read")
  /\ UNCHANGED <<clock, files, lock, now, draft, passVars, handVars>>

\* The file was edited between the two reads: strike the newer text.
StrikeAgain(h) ==
  /\ pc[h] = "reread"
  /\ bookmarks # text[h]
  /\ tries[h] + 1 < StrikeAttempts
  /\ tries' = [tries EXCEPT ![h] = @ + 1]
  /\ Goto(h, "read")
  /\ UNCHANGED <<clock, files, lock, now, draft, passVars, decision, targets, text>>

\* It changed once too often: refuse, writing nothing.
StrikeRefuses(h) ==
  /\ pc[h] = "reread"
  /\ bookmarks # text[h]
  /\ tries[h] + 1 >= StrikeAttempts
  /\ Finish(h)
  /\ UNCHANGED <<clock, files, lock>>

StrikeBackup(h) ==
  /\ pc[h] = "backup"
  /\ backup' = [backup EXCEPT ![decision[h]] = text[h]]
  /\ Goto(h, "write")
  /\ UNCHANGED <<clock, bookmarks, cache, worksheet, lock, now, draft, passVars, handVars>>

StrikeWrite(h) ==
  /\ pc[h] = "write"
  /\ bookmarks' = text[h] \ targets[h]
  /\ Goto(h, "lock")
  /\ UNCHANGED <<clock, cache, worksheet, backup, lock, now, draft, passVars, handVars>>

\* A read or a write of the bookmarks failed: the request fails as it stands.
StrikeFails(h) ==
  /\ "bookmarks" \in Faults
  /\ pc[h] \in {"read", "reread", "backup", "write"}
  /\ Finish(h)
  /\ UNCHANGED <<clock, files, lock>>

HandLock(h) == Acquire(h, "lock", "save")

\* What the request does to one entry of the cache.
Decided(h, u) ==
  IF u \notin targets[h] THEN draft[h][u]
  ELSE IF decision[h] = "keep" /\ draft[h][u] # Absent
         THEN [draft[h][u] EXCEPT !.kept = TRUE]
         ELSE Absent

HandSave(h) ==
  /\ pc[h] = "save"
  /\ cache' = [u \in Url |-> Decided(h, u)]
  /\ Goto(h, "report")
  /\ UNCHANGED <<clock, bookmarks, worksheet, backup, lock, now, draft, passVars, handVars>>

HandSaveFails(h) ==
  /\ "cacheWrite" \in Faults
  /\ pc[h] \in {"lock", "save"}
  /\ Release(h)
  /\ Finish(h)
  /\ UNCHANGED <<clock, files>>

-------------------------------------------------------------------------------
(* The surroundings.                                                       *)

EditAdd(u) ==
  /\ u \in Editable \ bookmarks
  /\ bookmarks' = bookmarks \cup {u}
  /\ UNCHANGED <<clock, cache, worksheet, backup, lock, pc, now, draft, passVars, handVars>>

EditDelete(u) ==
  /\ u \in Editable \cap bookmarks
  /\ bookmarks' = bookmarks \ {u}
  /\ UNCHANGED <<clock, cache, worksheet, backup, lock, pc, now, draft, passVars, handVars>>

\* An actor dies: a panic, a killed server or bin.  The OS drops its flock.
Die(a) ==
  /\ a \in Mortal
  /\ pc[a] # "idle"
  /\ Release(a)
  /\ Finish(a)
  /\ UNCHANGED <<clock, files>>

Tick ==
  /\ clock < MaxTime
  /\ clock' = clock + 1
  /\ UNCHANGED <<files, lock, pc, now, draft, passVars, handVars>>

-------------------------------------------------------------------------------
Checking == \E p \in Pass, u \in Url, o \in Found : Check(p, u, o)

PassStep(p) ==
  \/ PassBegin(p) \/ PassLoad(p)
  \/ CheckpointLock(p) \/ FinalLock(p) \/ PassSave(p)
  \/ PassLockFails(p) \/ PassSaveFails(p)
  \/ Report(p) \/ Die(p)

HandStep(h) ==
  \/ \E set \in RemovalSet : PurgeBegin(h, set)
  \/ \E u \in Url : RemoveBegin(h, u) \/ KeepBegin(h, u)
  \/ StrikeRead(h) \/ StrikeReread(h) \/ StrikeAgain(h) \/ StrikeRefuses(h)
  \/ StrikeBackup(h) \/ StrikeWrite(h) \/ StrikeFails(h)
  \/ HandLock(h) \/ HandSave(h) \/ HandSaveFails(h)
  \/ Report(h) \/ Die(h)

\* A step of the program other than the answer to a check.
RoomStep == (\E p \in Pass : PassStep(p)) \/ (\E h \in Hand : HandStep(h))

Edit == \E u \in Url : EditAdd(u) \/ EditDelete(u)

Next == Checking \/ RoomStep \/ Edit \/ Tick

Spec == Init /\ [][Next]_vars

\* The scheduler starts every pass again and again, every check ends (at the
\* latest at its TOTAL_TIMEOUT), what runs goes on, and a flock's waiters are
\* served: one that is free again and again is eventually got.  What fails does not
\* fail every time: of the passes that come to their final write some get it through.
Fairness ==
  /\ \A p \in Pass :
       /\ WF_vars(PassBegin(p) \/ PassLoad(p) \/ PassSave(p) \/ Report(p))
       /\ WF_vars(\E u \in Url, o \in Found : Check(p, u, o))
       /\ SF_vars(CheckpointLock(p))
       /\ ([]<>(pc[p] = "check" /\ todo[p] = {})) => []<><<PassSave(p) /\ pc[p] = "save">>_vars
  /\ \A h \in Hand :
       /\ WF_vars(StrikeRead(h) \/ StrikeReread(h) \/ StrikeAgain(h)
                  \/ StrikeRefuses(h) \/ StrikeBackup(h) \/ StrikeWrite(h)
                  \/ HandSave(h) \/ Report(h))
       /\ SF_vars(HandLock(h))

FairSpec == Spec /\ Fairness

-------------------------------------------------------------------------------
(* Properties.                                                             *)

\* Whoever is about to save the cache holds its lock and is about to save a
\* change of what the file holds now: no two writers interleave their read and
\* their write (update_status under filelock::with_lock).
CurrentDraft ==
  \A a \in Actor :
    /\ pc[a] \in Held <=> lock = a
    /\ pc[a] \in {"save", "ckSave"} => draft[a] = load_status

\* u's entry is dropped by somebody who means to: a request that removes u, or
\* the final write of a pass that did not find u in the bookmarks.
DroppedOnPurpose(u) ==
  \/ \E h \in Hand : pc[h] = "save" /\ decision[h] # "keep" /\ u \in targets[h]
  \/ \E p \in Pass : pc[p] = "save" /\ u \notin listed[p]

\* A link the human kept stays kept, whatever passes, checkpoints and requests
\* about other links write meanwhile; only dropping its entry on purpose ends it
\* (PassLedger::write, merge, LinkAction::keep, update_status).
KeepSticks ==
  [][\A u \in Url : kept(cache[u]) => kept(cache'[u]) \/ DroppedOnPurpose(u)]_vars

\* dead-links.org comes to list what the cache beside it says, even if a request
\* died between the two (write_report inside update_status's lock).
WorksheetCatchesUp == []<>(worksheet = buckets(cache))

\* Every request is answered: editors that keep changing the bookmarks under it
\* cannot hold a strike for ever, nor other writers the lock (STRIKE_ATTEMPTS).
RequestsAnswered == \A h \in Hand : pc[h] # "idle" ~> pc[h] = "idle"

\* An entry whose link is no longer in the bookmarks, as when a purge struck it
\* and died before it updated the cache, does not stay under review for ever: a
\* later pass prunes it (LinkCheckPass::invoke's final write).
StaleEntriesGo ==
  \A u \in Url :
    cache[u] # Absent /\ u \notin bookmarks ~> cache[u] = Absent \/ u \in bookmarks
===============================================================================
