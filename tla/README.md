# A verification development for ikigai-cms-web

ikigai-cms-web is a reading room over one person's bookmarks, books and slide decks: a page server
(`src/src/bin/server.rs`) with an HTTP face and a WebTransport face, a kernel of resources behind it
(`native.rs`), and maintenance passes that run inside the server on a schedule, or from the command
line (`cms-linkcheck`, `cms-tag-suggest`, `cms-zotero-links`), over the same few files. The hard part
of the program is not any one function but what happens when those actors share those files: no
database, only sidecar `flock`s, atomic renames and careful orders of writing. These modules model
that part in TLA+, TLC checks it on small instances, and TLAPS proves the main invariants for every
value of the constants.

Paths below are relative to `src/src/` unless they start with `dist/`.

## 1. Inventory

| part | state | operations | interacts with | hard behaviour |
|---|---|---|---|---|
| **link review** `maintenance.rs` 1–1790, `filelock.rs` | `bookmarks.org`, `cms-linkstatus.json` (the status cache), `dead-links.org` (the worksheet), one `.bak` per removal | a pass: list, probe, checkpoint, final write; purge one of three sets; remove one link; keep one link; outside edits | passes, requests and editors share the files; the cache has a lock, the bookmarks file has none | an update between somebody's read and write; a stale removal set; a death between the strike and the cache update; two kinds of evidence accumulated over many passes |
| **tag overlays** `tagstore.rs`, `native.rs` | three overlays (suggested, approved, dismissed), the link overlay | approve, reject, suggest, rekey onto durable identities | deciders in the room, the tag-suggest pass, the link pass, a re-export by Zotero | a decision is two writes; a migration holds three locks; keys that change under a decision |
| **tag-suggest pass** `maintenance.rs` 1840–2300 | none of its own | list untagged books, ask OpenLibrary and the LLM, write suggestions | reads the graph, writes the suggestions overlay | minutes pass between its listing and its writes |
| **zotero link pass** `zotero.rs`, `isbn.rs` | the link overlay | sweep the paged API, match, rewrite the overlay | the owner's Zotero library, the HTTP cache, the tag overlays' identities | pages of different age; a wrong match opens the wrong book |
| **sign-in and sessions** `session.rs`, `bin/server.rs` | passkeys in memory and in the keystore, HTTP sessions, wire sessions, ceremony states | enrol, sign in, sign out, resume, on both faces | HTTP requests run concurrently over one locked table | a lookup repeated after the lock was released; a sign-out during verification; a failed save |
| **recency trail** `session.rs` 161–219 | a trail per principal, in memory | record a view that resolved, list | both faces | the principal is looked up before the view is resolved and used after; a repeat is taken out, then the trail is cut to its bound |
| **server start and accept loop** `bin/server.rs` 50–330, 777–895, `accept.rs` | the process, the page's task, the back-off | load, open the page, schedule the passes, open the wire; accept, wait, end; started again by its supervisor | configuration, the listener, the passes | out of descriptors neither spin nor end; an episode's wait; which failure ends which part |
| **configuration** `config.rs` | read once | the file, flags over it, what must be on the disk, the binds and origins refused, the certificate's names | everything | the bind, the origin, the certificate and the dialled host are derived apart and must agree |
| **HTTP face and wire face** `bin/server.rs` | requests and connections under way, the ceiling of a connection | Host and Origin, an action as root, a resolve under a session's capability, the anonymous door and its budget; the same calls over the wire under what a client carries | sign-in, kernel, trail | who is signed in is seen under a lock and acted on after it |
| **presentations and deck watch** `presentations.rs` | the kernel's cache of the listing, the cards and each file, per capability; notifications; threads to cut | list, make a card, make the graph; a file event → threads to cut | the author's edits, the kernel's cache | a change while the graph is being made from several files; a notification lost, or that names only a directory |
| **page's connection** `dist/wire.js`, `wire_client.rs` | the connection, whether it is ready, whether one is being made | connect over four awaits, drop, disconnect, a view over the wire or over HTTP | sign-in, the wire face, other tabs | events of an old connection heard late; a sign-out, and a sign-in as somebody else, between two awaits |
| graphs and views `native.rs`, `lib.rs` | – | queries and stylesheets | every file above | the order in which sources are read |

What makes each part correct:

* *link review*: a keep is permanent; what was removed stays out of the review and, unless somebody
  adds it again, out of the file; an outside edit is not lost outside the window the code declares; a
  link is offered for removal only on the evidence its heading names; the worksheet says what the
  cache says; a request ends, and a stale entry goes.
* *tag overlays*: a decision once on file stays, through any number of writers, migrations and
  failures; a chip leaves only when it is decided; a dismissed tag is not offered again; the migration
  takes no tag off a card; nobody waits for ever.
* *zotero link pass*: the sweep is complete and has no item twice; a book is linked to its own item or
  to none.
* *sign-in*: signed in means enrolled, with the ceiling raised; a ceremony is finished once; a sign-out
  is final; a success that was answered survives a restart.
* *recency trail*: the views each principal opened last, newest first, each once, whatever order the
  requests end in.
* *server start and accept loop*: every error short of a dead listener is survived; the wait starts at the
  floor in each episode; nobody waits for ever, and a dead listener is followed by a fresh one.
* *configuration*: the page dials the wire under a name that the certificate has.
* *faces*: nothing is done on more authority than somebody who was signed in had, or the owner's own
  machine; a caller who is not signed in stays within the anonymous door, on both faces.
* *presentations*: once the last notification has been applied no cached card is older than the tree; nothing
  cached names a deck its reader may not read.
* *page's connection*: views ride only the connection of the session signed in with now; none outlives the
  session it was made for; every view is answered and every attempt to connect ends.

## 2. Modules

| module | what it is | source |
|---|---|---|
| `LinkStatus` | the entry of a URL in the status cache, `merge`, `migrate`, `buckets`, the removal sets | `maintenance.rs` 263–441, 969–1071 |
| `LinkProbe` | one check: HEAD, GET, second try, and what each answer or transport error is taken for | `maintenance.rs` 131–226, 863–967 |
| `LinkReview` | the state machine of passes, requests and editors over the four files | `maintenance.rs` 418–1788, `filelock.rs` |
| `LinkIntent` | `LinkReview` with history: what people edited, removed, and what passes have held | – |
| `LinkEvidence` | `LinkReview` and `LinkProbe` with history: what the checks heard | – |
| `TagIdentities` | the link overlay as a map, `canonical`, `project`, `projected`, `rekeyed` | `tagstore.rs` 148–351, 602–608 |
| `TagOverlay` | deciders, tag-suggest passes and upkeep (link pass, migration) over the overlays | `tagstore.rs`, `native.rs` 705–1062, `maintenance.rs` 1849–2295 |
| `ZoteroLinks` | the sweep through pages and cache, and the match | `zotero.rs`, `isbn.rs` |
| `SignIn` | both faces' ceremonies, sessions and the keystore | `session.rs`, `bin/server.rs` 402–775, 1498–1894 |
| `Settings` | the configuration a start resolves to, if it does: file and flags, `check_reachable`, `cert_sans`, `wire_dial_host` | `config.rs` 1–782 |
| `Serving` | the process around `Settings`: main, the page's task, the accept loop and its back-off, the supervisor | `bin/server.rs` 50–330, 777–895, `accept.rs` |
| `Faces` | requests and wire calls under a configuration from `Settings`, sessions as they change, the trails | `bin/server.rs` 432–631, 895–1810, `session.rs` 161–219 |
| `RecentTrail` | what the trail promises: the abstract specification that `Faces` refines | – |
| `Decks` | the tree, the kernel's cache of what is made from it, the watch that cuts threads | `presentations.rs` 1–663 |
| `PageWire` | the page's connection from sign-in to sign-out, its views and their fallback | `dist/wire.js`, `wire_client.rs` |
| `LinkInstances`, `MC*` | values for the constants | – |
| `*Proofs` | the theorems | – |

**How state corresponds.** A file is a set or a function: `bookmarks` is the set of the URLs it carries
(one record per URL; records are abstract), `cache` maps a URL to its entry or `Absent`, an overlay is a
set of `<<key, tag>>`, the link overlay in `TagOverlay` a map from book to work and in `ZoteroLinks` the
row of each book. A lock is its holder or `NoOne`. A function that awaits or holds a lock is a program
counter (`pc`) with the function's locals (`draft`, `start`, `learned`, `targets`, `text`, `put`, …) as
variables of the actor (in `Faces` and `SignIn` the record `req[r]`; in `PageWire` `step`, `token`, `on` and `resume` are the
locals of `connect`); everything between two awaits, or under one lock between its read and its write,
is one action, named after the function or the place in it. What fails is an action of its own
(`PassSaveFails`, `StrikeFails`, `UpdateFails`, …), enabled by the constant `Faults`; `Die` lets an actor
(in `LinkReview` one of `Mortal`) stop anywhere and releases its locks, as the operating system does.

**Abstractions.** Time is a saturating clock; only differences to the thresholds matter. Counts saturate
at the threshold (`SaturatingInc`). Titles, ISBNs, tags, credentials and URLs are model values; titles
and ISBNs go through tables of spellings (`norm_title`, `isbn13`), as two spellings may mean one thing.
A WebAuthn ceremony is known by the start that created it and verifies or not, nondeterministically. The
LLM and OpenLibrary answer any tags. The kernel's cache is external: `Decks` takes it to keep what was
computed for a capability until a thread it hangs from is cut, and not to keep a result one of whose
threads was cut while it was computed, as comments and tests of the repository say of it. Turtle, Org and JSON syntax, logs, HTML and wording are left out.

## 3. Runs

| run | instance | what it shows |
|---|---|---|
| `link_faults` | 2 links, 1 pass, 2 requests (removals and keeps), an editor; two of the pass and the requests at work at once; locks and writes of the cache, the worksheet and the bookmarks may fail, each may die anywhere | `RemovedStaysOut` (what another strike removed outside a strike's declared window stays out), `NoResurrection` (a pass never brings back an entry it knew and somebody removed), `EditsSurvive` (outside the declared window), `KeepSticks` (no step writes a keep away) |
| `link_evidence` | 1 link, passes one after another, each check with any answers to HEAD, GET and the second try | `BrokenIsAttested`: a link was not seen alive after the date it is broken since, and failed as many checks since as its entry counts. `DeadDomainTwoRuns`: NXDOMAIN is confirmed by two runs at least the gap apart. `VerdictNotLowered`. `OfferedIsUnanswered`: a link whose server was reached is offered for removal only on a GET's 404/410 |
| `link_live` | 1 link, 1 pass, 1 request that may die anywhere, an editor that never stops; locks, saves and strikes may fail; fair | `RequestsAnswered`, `StaleEntriesGo`, `WorksheetCatchesUp`: again and again the worksheet says what the cache says, deaths between the two notwithstanding |
| `tag_decide` | 1 book, 2 tags, a decider, a tag-suggest pass, an upkeep; failing writes, deaths; fair | `ChipsLeaveDecided`, `DismissedStaysOut`, `DecisionsAnswered` (no deadlock between the decisions' locks and the migration's three) |
| `tag_rekey` | 2 books that are one work and may leave the export, a decider, an upkeep; the same faults | `DecisionsStay`: a decision is lost by no step, rekeyed or exported anew; `MigrationCovers`: what the room sees through a rewritten overlay covers what it saw before |
| `sign_in` | 2 concurrent requests, 1 connection, 2 sessions, 4 ceremonies, failing saves, restarts | `SignedInIsWhole`, `CeremonyOnce`, `SignedOutStaysOut`, `EnrolmentsPersist` |
| `zotero_links` | 3 items (two editions, a namesake), 2 books, pages of 2 | `SweepExact` (every item, once), `NoWrongLink`, both with nothing deleted between the pages used |
| `decks` | 2 decks, one inside the directory of the other, of which a visitor may read that one only and the owner both; 2 changes of the tree, moves and lost notifications among them | `CurrentWhenApplied`: once every notification is applied no cached card is behind what was told. `NamesWhatMayBeRead`, whoever asked before |
| `serving` | 46 starts (any bind with any origin, a scratch room, a broken file), 2 clients, 1 descriptor, 3 faults | `EpisodeWaits`, `OnlyDeadListenerEnds`, `NobodyWaitsForEver`, `DoorReopens`, `CertNamesDial` |
| `faces` | 1 request, 1 connection, 1 session, every combination of 2 binds, 4 origins and `dev_open`; a trail of 2 and 3 views opened | `OpenOnlyAtHome`, `AuthorityIsEarned`, `DoorHolds`, and the refinement `TrailIsLatest` |
| `page_wire` | 2 sessions, 3 connections, 1 view; sign-ins and sign-outs here, sign-outs in another tab, losses, late events; fair | `ReadyIsBridged`, `LeftIsClosed`, `ViewsAnswered`, `ConnectEnds` |
| `v_not_there` | as `sign_in` | violated: a browser whose session is of an earlier, answered start starts a ceremony, and a sign-out with the same cookie between its `ensure_session` and the second lock makes the `unwrap` panic with the table locked |

**Why the bounds are enough.** The lost-update hazards need two writers and one reader of each file;
every run over files has two or three actors of different kinds on one file. In `link_faults` these are any two
of a pass and two requests (`TwoAtOnce`), with an editor beside them; the requests are interchangeable, and
states that differ only in the `.bak` files and the worksheet, which nothing reads there, are one (`Unread`);
`link_live` has the worksheet. One record suffices where records are
independent (`merge`, the removal sets and the overlays treat each key by itself); two are used where one
action takes a set and leaves the rest (`link_faults`, `tag_rekey`). The thresholds are 1 or 2, so that
every comparison is seen below, at and above its boundary (`MaxTime` 4 against a gap of 2); a bound on
the clock is a guard of `Tick` and only stops time. `CheckpointEvery` is 1 or 2: a checkpoint before,
between and after the checks. `StrikeAttempts` is 2 for 3 in the code: one retry and one refusal. In
`SignIn` a browser sends only what an answer has brought it: `given` has the session ids whose `Set-Cookie` was
sent, and one that a request has made is in no cookie before that request is answered. Each session id and each ceremony is used up once; 4 ceremonies allow an enrolment and three
further starts over two faces. In `ZoteroLinks` an item is added once, so the library is deleted from
and extended at any point of two pages; a third item makes the first page full.
`StalePages` is FALSE in both tag runs, so a page decides on the keys it was served under now; the
theorems are for any value. In `decks` the inner deck's path, its tags and whether it is a deck at all
depend on the outer directory, so one change may concern both; two changes allow one while the graph is
made and one after. In `serving` the ceiling is 6 floors, so the wait doubles, is capped and stays; three
faults allow a death of the listener while the descriptors are used up and one more failure at the start
that follows. In `faces` three opened views and a bound of 2 show a repeat and a cut; the request and the
connection overlap with sign-ins and sign-outs, and with each other. In `page_wire` three connections
allow a present one, one whose end is yet to be heard, and one that is being made.

Deadlock is checked in every run but two: in `decks` the tree's changes are used up and everything may be
cached, and in `serving` a room whose page could not bind stays up with nothing left to do.

**Fairness.** `LinkReview!FairSpec` assumes that the scheduler starts passes again (`scheduled_passes`),
that a check ends (every request has `TOTAL_TIMEOUT`), that what runs goes on (an async runtime), and
that a waiter of a `flock` which becomes free again and again gets it (strong fairness on the lock
actions only). Locks and saves may fail, but of the passes that come to their final write again and again,
some get it through. Nothing obliges a human to decide, an editor to stop, or a fault to happen or not to.
`StaleEntriesGo` and `WorksheetCatchesUp` need this: passes that die or fail every time prune and write
nothing, so only requests are `Mortal` in `link_live`, and the worksheet's own write does not fail there.
`Serving!FairSpec`: the supervisor starts the room again, the runtime runs its tasks, sleeps end, descriptors
taken elsewhere are freed, and a connection is answered or given up. The last is an assumption about
clients: the code has no timeout on reading a head. Nothing obliges a client to come or a fault to happen.
`PageWire!FairSpec`: what the page awaits is settled, so a fetch and a dial succeed or fail, and a call is
answered or fails with its connection, as the browser and the transport promise.
`TagOverlay!FairSpec` assumes the same as `LinkReview!FairSpec` of the locks and of running updates; `DecisionsAnswered` says so
only of deciders that have not died.

## 4. Proofs

| module | theorems |
|---|---|
| `LinkProofs` | of `LinkStatus` and `LinkReview`: `KeptIsNoCandidate`, `TypeCorrect`, `DraftsAreCurrent`, `KeepsStick`; of `LinkIntent`: `NothingResurrects`, `EditsAreKept`, `RemovedStay`; of `LinkEvidence`: `DeadDomainsAreTwoRuns`, `VerdictsAreNotLowered`, `BrokenAreAttested`, `OffersAreUnanswered` |
| `TagOverlayProofs` | `RekeyingCovers`, `TypeCorrect`, `DraftsAreCurrent`, `DecisionsAreKept`, `ChipsAreDecided`, `MigrationsCover`, `DismissedAreNotOffered` |
| `ZoteroLinksProofs` | `TypeCorrect`, `SweepIsExact`, `NoLinkIsWrong` |
| `SignInProofs` | `TypeCorrect`, `SignedInAreEnrolled`, `CeremoniesAreOnce`, `SignOutsStick`, `EnrolmentsAreKept` |
| `DecksProofs` | `TypeCorrect`, `GraphsAreCurrent`, `ListsWhatMayBeRead` |
| `ServingProofs` | `TypeCorrect`, `WaitsDouble`, `OnlyDeadEnds`, `DialIsNamed` |
| `FacesProofs` | `TypeCorrect`, `OnlyAtHome`, `AllIsEarned`, `TheDoorHolds`, `TrailImplements` |
| `PageWireProofs` | `TypeCorrect`, `ReadyAreBridged`, `LeftAreClosed` |

The type invariants of `ZoteroLinks`, `Decks` and `Serving` are run as well; those of the other modules,
and `CurrentDraft` and `CurrentDrafts`, are proved and not run.

They hold for any sets of URLs, books, tags, sessions, items, decks, actors, and any thresholds, page sizes
and waits, under the named assumptions of the modules (`ReviewAssumption`, `SignInAssumption`, …): the
constants' types and actors of different kinds apart. `LinkPassAssumption` says besides that the owner's
items are finitely many, as deletions are counted, and that an attachment's key names one attachment, as
Zotero's keys do.

Where a theorem needs more, its statement says so:

* The cache and the overlays are taken for empty when they cannot be read (`load_status`, `entries`), and
  the next update then saves that. So the draft theorems and what follows from them, `NothingResurrects`
  among it, assume that reading does not fail; `EditsAreKept` does not. All other faults are in.
* `RemovedStay` needs nothing more: any number of requests, passes and editors and every fault. What the
  property leaves out is a strike that ends inside another's window, between that one's second read and its
  write, which the code declares it cannot close (section 5).
* `VerdictsAreNotLowered`, `BrokenAreAttested` and `OffersAreUnanswered` have passes one after another
  (`OnePass`): overlapping ones do lower what the other wrote (section 5). The last two also
  have a pass that began write what it saw (`PassesWrite`), since the history counts the checks
  and a check whose pass dies is heard and not written, and no broken entry in the initial cache
  (`NoPriorBroken`), since nothing attests that one.
* `MigrationsCover` has migrations one after another (`OneUpkeep`): of two with a link pass in between, one
  may write what was right about links that are gone (section 5).
* `DismissedAreNotOffered` has one decider and one pass (`OneWriterEach`), a decider that dismisses what
  the room offers then and no stale page (`~ StalePages`), and link passes that all find the same works,
  each under one book (`Settled`): section 5 says what happens without each. Decisions, migrations and the
  link pass still fall anywhere between the pass's steps, and writes fail and actors die.
* `DeadDomainsAreTwoRuns` needs none of it but an initial cache without NXDOMAIN, for the same reason.

The arguments:

* **Drafts are current** is the inductive core of both file stores: an actor is at a place under the lock
  exactly when it is the lock's holder, and its draft is then the file. A step of anybody else cannot
  write the file, since writing needs the lock. `TypeOK` is the only strengthening.
* **Keeps and decisions** follow by one step: a save writes a change of the current file, and no change
  any writer makes to a draft drops a keep (`MergedKeeps`: `merge` carries the keep of the entry it finds)
  or a decision (`WritesKeep`: rekeying moves an entry to its durable key, `HeldAs`).
* **Chips** need `Landed`: a decider that is at the second file has its decision in the first. It is
  stable because decisions stay.
* **Dead domains**: every copy of an entry anywhere (the cache, every draft, each pass's starting copy and
  what it has learned) is *backed* by the runs that saw NXDOMAIN: confirmed ones by two runs far enough
  apart, unconfirmed ones by the run they are dated by. `EvidenceInv` says this of all copies at once,
  which is what makes stale copies harmless; `MergeIsBacked` is the step.
* **Verdicts and what they are made of**, with passes one after another: what a pass has yet to check it has
  learned nothing of (`FreshOK`), and whatever is confirmed in the cache it has loaded or learned (`NxOK`),
  so that its save lowers nothing. `AttestInv` says of every copy (the cache, each
  draft, each pass's start and findings) that its date is not before the link was last seen alive and its
  count not above the failures heard since, unless a check of this pass is yet to be written.
* **Removals**: `RemovedOK` adds to the property that, inside the window of a strike, the text it read has of
  the removed links only its own targets. A strike enters its window by a second read that equals the first,
  so by the file as it is then, and whatever another has removed by then is not in it.
* **The migration's own check never refuses**: `RekeyingCovers` is about `canonical` and `project` alone,
  for any link overlay, two books to a work and books without one included.
* **The running migration**: with one migration at a time the links cannot change between its plan and its
  last write, as only a link pass writes them, and the files cannot, as it holds their locks; so each file
  is rewritten by the rekeying of what it and the links are (`PlansAreCurrent`).
* **Dismissed tags** are told by what the room sees through a file (`Seen`), since an entry's key changes.
  Rekeying changes nothing of it (`SeenRekeyed`), nor does it matter whether one looks before or after the
  first link pass (`SeenNow`), as no entry has a durable key before it (`KeysSettled`). What the pass may
  yet offer is seen neither among the suggestions nor among the dismissed (`PassFresh`), and a dismissal
  moves to the second only what is among the first (`DismissesSeen`).
* **The sweep**: between two deletions the library only grows. `Swept` names the list after each number
  of deletions (`lib[e]`) and how much of it there was when each cached page was fetched (`size[k]`), so a
  page that was cut from a list is that page of every longer one (`PageOfLonger`), an addition lengthens
  the current list and a deletion starts a new one. Pages of one stretch are then pages of one list in
  which nothing is twice, in whatever order and however long ago they were fetched. **The match**: what is
  `Sole` is one, so of a swept item's own record and another with its ISBN, pair or title there is
  either one, which is it, or no link. `isbn_keys`, a fold over a sequence, stays opaque: nothing is needed of it but
  that equal fields give equal keys.
* **Decks**: whatever is cached was computed from files as they were then, and what of them has changed
  since hangs from a thread that is still *open*: notified and not yet cut, being cut, or lost. A listing that is behind
  the tree hangs from the open thread of what changed, or from that of a cached answer that is itself behind
  (`SourceOK`, `ExistsOK`, `ListingOK`, `GraphOK`), and so does what a reader has in hand (`ListsOK`,
  `CardsOK`). Once nothing is open, nothing is behind.
* **The accept loop**: the wait is the floor times a power of two, cut at the ceiling. Powers are counted
  as numbers of subsets (`Power`), which gives their doubling without an induction of our own.
* **Sign-in**: `SignedInIsWhole` needs that every credential named anywhere (sessions, requests in flight,
  challenges, wire sessions) is enrolled, and that enrolled credentials stay enrolled over restarts, which
  is where the keystore comes in: `WholeInv` collects it. `CeremonyOnce` needs that a state is in the
  hands of one holder (`OnceInv`), `SignedOutStaysOut` that ids are minted once.

* **No resurrection** needs, of every pass under way, that what it had in hand when it began it still knows
  (`held` within `known`), that what it does not know is on the current vocabulary or absent (`Modern`, so
  that `migrate` brings nothing back), and that an entry which vanished meanwhile is out of the cache;
  `OwnStep` says what one step of a pass can do to that, and only a save writes.
* **Edits survive**: a strike inside its window holds, in the text it last read, every edit that counts, and
  strikes nothing that was added since it began (`EditsOK`). Outside the window nobody writes the file but
  the editor.
* **Faces**: `FacesInv` has four parts. `CfgOK`: the configuration is of a start that was not refused, from
  which `check_reachable` gives that `dev_open` implies a loopback bind and origin. `OpenedOK`: every trail
  is `Latest` and nothing was opened later than now. `HeldOK`: whatever a request in flight was let do when
  it was looked at, somebody was signed in for it, or it came from home; a sign-out after that changes
  nothing about it. `AnswerOK`: the same of what was answered. The refinement then has one lemma per
  operation on sequences (`retain`, `truncate`, `record`), none of which recurses, and one step per action:
  opening a view is `Open`, a restart is `Forget`, the rest stutters.
* **The page's connection**: the token of an attempt is of the page's session or of one it has left, a
  connection that is open is `wt`, or the one `connect` has in hand, or was dropped by somebody else's event
  (`late`), and what is ready is bridged to the cookie's session. `disconnect` can then close all there is.

**Model-checked only**: liveness and deadlock. Liveness under fairness and what a recursive definition
computes for every input are out of reach of the provers used here.

## 5. Observed

Beside the violated run, reading and checking the models showed the following; none of them is run.

* The NXDOMAIN gap is measured between the starts of runs, not between sightings; a long run's sighting
  may be much later than its start.
* Two passes that overlap may lower a `first_broken_at` or bring back a verdict the other has replaced:
  each merges onto the copy it started with. A keep is carried over, evidence is not. With two passes
  `VerdictNotLowered` and `OfferedIsUnanswered` are violated, so `link_evidence` has its passes one after
  another; only `DeadDomainTwoRuns` is proved for overlapping ones.
* `broken_count` counts refused and gone checks as well, so after two refusals one failed connection is
  enough for "durably unreachable", while the comments and texts about that set (`maintenance.rs` 302, 352–357,
  1131, 1494) speak of a failure to connect that repeats over three checks. `BrokenIsAttested` says of the count
  what its field is documented to be (279), consecutive checks that found the link broken in any way.
* After a death between the cache and the worksheet, or a failed write of it (which is not reported), the
  worksheet is stale until the next update.
* A cache or overlay that cannot be read counts as empty, and the next update is saved over it.
* A keep between a purge's choice of its set and its strike is struck all the same, although
  a kept link is to be out of every removal set (`maintenance.rs` 346).
* Of two removals that are both between their second read and their write, the later to write restores the
  link of the earlier: each writes the text it read, and the file has no lock (1686 names the window).
  `RemovedStaysOut` excludes just that; a removal that ends before the other's second read is seen by it.
* The confirm prompt of a purge names a number; the purge then takes the set as it is by then.
* An identity is looked up before the overlay's lock is taken, so a link overlay rewritten in between
  leaves an entry on the old key, although `tagstore.rs` 317–319 wants the next write to be on the new
  one. Every reader projects both.
* After a re-export the link overlay is the last export's until the next link pass.
* The graph reads approved before suggestions: a tag approved in between is seen as neither, and the
  tag-suggest pass may offer it again. Two overlapping suggest passes may re-offer a dismissed tag, and so may
  one when a page dismisses a chip the room no longer offers, or when a link pass moves a book to another
  work. Two records of the export that are one work are asked about one by one: a tag dismissed on the
  first during a pass may be offered again through the second. An
  approve and a reject of one chip at once leave both decisions on file.
* A promotion or rejection that could not be written is answered as made (`native.rs` 1010 and 1047), while
  `tagstore.rs` 291 has the decision reported as not made.
* Two migrations at once, with a link pass in between, may each be right about its own map and yet take a
  tag off a card between them.
* Two enrolments under way at once are both completed, as registration is asked to be open before the
  biometric gate only. A failed save leaves the passkey enrolled until the restart.
* An action that somebody's sign-in was looked up for runs to its end although he signs out meanwhile
  (`bin/server.rs` 1046); `AuthorityIsEarned` judges at the look.
* Signing out over HTTP does not lower a wire connection bridged to that session; the page closes its own.
* A connection's late event may drop a later one (`dist/wire.js` 102): that one is forgotten open, stays
  bridged, and a sign-out does not close it. `LeftIsClosed` excludes it by `late`.
* An `ikigai:authed` that falls while an earlier attempt to connect is under way is turned away and not
  repeated, so the page stays on HTTP until the next one. An HTTP view in flight at the sign-out may be
  swapped in after the room was emptied.
* A loopback bind or origin other than `localhost`, `127.0.0.1` and `::1` is accepted and dialled, but is not
  among the certificate's names; `CertNamesDial` excludes it. That the origin's port is the page's is not
  checked.
* A page that cannot bind leaves the process up with the wire alone, although the end of `serve_http` ends the
  process so that no room with a dead page looks alive. A refused maintenance setting, or a taken wire port,
  ends a process whose page may answer already.
* A deck directory that is swapped by a rename is notified by its name alone, which cuts none of the threads
  of the files in it: their cards stay until one of them is written. An error of the watcher, or an overflow,
  cuts nothing. `CurrentWhenApplied` is stated of what was notified.
* Two decks whose paths make one slug have one IRI.
* `sweep` says it returns every item; with an item deleted between two pages, or between the fetching of
  two cached ones, the later page starts one item late. Its namesake may then look like the only item of
  its title, and the match is wrong.
* The pair of title and surname is tested to be one item's, not one book's: `match_books` says unique on
  both sides, and two books of the export may claim one item.

## 6. Not modelled, and the plan

Left out for good: parsing and serialisation (Org, Turtle, JSON, HTTP heads, percent-encoding), markup
and stylesheets, static files and security headers, the LLM's prompt, deck scraping, WebAuthn's mathematics,
the wire codec. They are text or arithmetic with unit tests of their own, or another crate's. The heartbeat
file is left out as only a progress line reads it. **graphs and views** is the one component without a
module: its resources are queries and stylesheets over the graph, evaluated by other crates, and keep no
state of their own; the order in which the graph's sources are read is modelled where something depends on
it, in the tag-suggest pass.

In `PageWire` a call fails only with its connection, never while that stays open, and of another tab only the
sign-out is there: a sign-in there, which puts a new session into the cookie jar that the tabs share while this
page goes on, is not.

Six hazards have no property. A keep inside a purge's window, a decision whose write failed, evidence that
overlapping passes lower, an action that outlives the sign-in it was looked up for, and the late closing of an
earlier connection are how the code behaves, as section 5 says. A cache that cannot be read is taken for empty:
`"cacheRead"` among the `Faults` of `link_faults` violates `KeepSticks`.

What would come next, in order:

1. Abstract specifications: an atomic review ledger (keep, remove, observe as single steps) that
   `LinkReview` without deaths refines, and an atomic ledger of decisions for `TagOverlay`.
2. `SignIn` and `Faces` in one run: `Faces` has sessions that appear and go in one step each.
3. Proofs of the refinements of item 1.
4. `Views`: the paging of the room's lists (`native.rs`) against the whole list.
