-------------------------------- MODULE Decks --------------------------------
(***************************************************************************)
(* The presentations: a deck is a directory with a deck.toml, changed by   *)
(* its author outside the program.  The listing of the decks and the graph *)
(* of their cards are computed from the tree through the kernel, which     *)
(* caches them and every file they are made from, for each capability,     *)
(* until a thread they hang from is cut.  DeckWatch cuts the threads that  *)
(* a change of the tree names.                                             *)
(*                                                                         *)
(*   disk      what the tree holds.                                        *)
(*   file      the answers of the deck jail that are cached.               *)
(*   listing   urn:cms:decks as it is cached,                              *)
(*   graph     and urn:cms:graph:presentations.                            *)
(*   events    the notifications of the platform's watcher.                *)
(*   cutting   the threads of the one being applied that are still to cut. *)
(*   reader    the requests for the graph.                                 *)
(*                                                                         *)
(* A thread is named after a file, or is the listing's.                    *)
(***************************************************************************)
EXTENDS Naturals, Sequences, FiniteSets, SequencesExt

CONSTANTS
  Deck, Reader, Cap,
  may,        \* the decks each capability may read
  path,       \* the segments of each deck's path under the root
  Skipped,    \* directories that never hold decks
  Grouping,   \* segments that are no venue: the grouping directories and years
  lower,      \* the tag each segment makes
  base_url,   \* whether a card links to a served deck, and not to a file
  Text,       \* what an author may write: a title, a tag
  Absent,     \* no such file
  Plain,      \* a built deck without JSON-LD, a title slide without a heading
  Unset,      \* not cached
  DECKS_IRI,  \* the thread of the listing
  Trees,      \* the trees the room may start with
  MaxChanges, \* how often the tree changes
  Accidents   \* subset of {"move", "overflow"}

ASSUME DecksAssumption ==
  /\ may \in [Cap -> SUBSET Deck]
  /\ DOMAIN path = Deck /\ \A d \in Deck : Len(path[d]) > 0
  /\ {Absent, Plain} \cap Text = {} /\ Absent # Plain
  /\ base_url \in BOOLEAN /\ MaxChanges \in Nat

Kind   == {"toml", "index", "slide"}
File   == Deck \X Kind
Thread == File \cup {DECKS_IRI}
Held(k) == IF k = "toml" THEN {Absent, Plain} ELSE Text \cup {Absent, Plain}

ASSUME TreesAssumption ==
  \A tree \in Trees : /\ tree \in [File -> Text \cup {Absent, Plain}]
                      /\ \A f \in File : tree[f] \in Held(f[2])

VARIABLES disk, file, listing, graph, events, cutting, reader,
  \* history
  changes,   \* how often the tree has changed
  silent     \* threads of what changed with no notification that names it

caches == <<file, listing, graph>>
watch  == <<events, cutting>>
vars   == <<disk, caches, watch, reader, changes, silent>>

\* What a request of the jail may be cached for, and the thread it hangs from.
Answer == {"source", "exists"} \X File
Hangs(a) == a[2]

Idle == [at |-> "idle", cap |-> Unset, todo |-> {}, got |-> {}, deps |-> {},
         listCut |-> {}, graphCut |-> {}]

TypeOK ==
  /\ DOMAIN disk = File /\ \A f \in File : disk[f] \in Held(f[2])
  /\ DOMAIN file = Cap /\ \A c \in Cap : DOMAIN file[c] = Answer
  /\ DOMAIN listing = Cap /\ DOMAIN graph = Cap
  /\ \A c \in Cap : listing[c] # Unset => listing[c].deps \subseteq Thread
  /\ \A c \in Cap : graph[c] # Unset => graph[c].deps \subseteq Thread
  /\ Len(events) <= MaxChanges
  /\ \A i \in DOMAIN events : events[i] \in Seq(Thread)
  /\ cutting \in Seq(Thread)
  /\ \A r \in Reader : /\ reader[r].at \in {"idle", "walk", "list", "card"}
                       /\ reader[r].at # "idle" => reader[r].cap \in Cap
                       /\ reader[r].deps \cup reader[r].listCut \cup reader[r].graphCut \subseteq Thread
  /\ changes \in 0 .. MaxChanges
  /\ silent \subseteq Thread

Init ==
  /\ disk \in Trees
  /\ file = [c \in Cap |-> [a \in Answer |-> Unset]]
  /\ listing = [c \in Cap |-> Unset]
  /\ graph = [c \in Cap |-> Unset]
  /\ events = <<>> /\ cutting = <<>>
  /\ reader = [r \in Reader |-> Idle]
  /\ changes = 0 /\ silent = {}

-------------------------------------------------------------------------------
(* What the tree says.                                                     *)

\* collect_decks: no deck in a skipped directory, and none inside another.
decks(tree) ==
  {d \in Deck :
     /\ tree[d, "toml"] # Absent
     /\ Range(path[d]) \cap Skipped = {}
     /\ \A e \in Deck : IsStrictPrefix(path[e], path[d]) => tree[e, "toml"] = Absent}

\* A title and the tags beside it, as a set with one member or none.
jsonld_metadata(index) == IF index \in Text THEN {[title |-> index, tags |-> {index}]} ELSE {}

scraped_metadata(slide) == IF slide = Absent THEN {} ELSE {[title |-> slide, tags |-> {}]}

\* The authored JSON-LD of the built deck, else the heading of the title slide.
deck_metadata(index, slide) ==
  IF jsonld_metadata(index) # {} THEN jsonld_metadata(index) ELSE scraped_metadata(slide)

venue_tags(d) == {lower[path[d][i]] : i \in {j \in 1 .. Len(path[d]) - 1 : path[d][j] \notin Grouping}}

pretty_slug(d) == path[d][Len(path[d])]

\* A served link is the built deck's whether it is built yet or not; a file's is the
\* directory's until then.
deck_link(built) == IF base_url \/ built THEN "dist/index.html" ELSE "directory"

\* The card of d; none if the deck has no metadata at all.
deck_turtle(d, index, slide, built) ==
  {[deck |-> d,
    title |-> IF m.title = Plain THEN pretty_slug(d) ELSE m.title,
    tags |-> m.tags \cup venue_tags(d),
    link |-> deck_link(built)] : m \in deck_metadata(index, slide)}

-------------------------------------------------------------------------------
(* The kernel's cache.                                                     *)

\* What the jail answers c about f: a cached answer, else what the tree holds.  It
\* denies what c may not read, and a denied or failed request has no thread.
Sourced(c, f) ==
  IF f[1] \notin may[c] THEN Absent
  ELSE IF file[c][<<"source", f>>] # Unset THEN file[c][<<"source", f>>] ELSE disk[f]

\* Mutant: the tree is asked, whoever asks.
deck_exists_anyone(c, f) == disk[f] # Absent

deck_exists(c, f) ==
  /\ f[1] \in may[c]
  /\ IF file[c][<<"exists", f>>] # Unset THEN file[c][<<"exists", f>>] ELSE disk[f] # Absent

Caching(c, values) ==
  file' = [file EXCEPT ![c] = [a \in Answer |-> IF a \in DOMAIN values THEN values[a] ELSE @[a]]]

\* A representation is cached under every thread it hangs from, unless one of them
\* was cut since its computation began.
Stored(value, deps, cut) == IF deps \cap cut = {} THEN [value |-> value, deps |-> deps] ELSE Unset

Without(entry, t) == IF entry # Unset /\ t \in entry.deps THEN Unset ELSE entry

cut(t) ==
  /\ file' = [c \in Cap |-> [a \in Answer |-> IF Hangs(a) = t THEN Unset ELSE file[c][a]]]
  /\ listing' = [c \in Cap |-> Without(listing[c], t)]
  /\ graph' = [c \in Cap |-> Without(graph[c], t)]
  /\ reader' = [r \in Reader |->
                  IF reader[r].at = "idle" THEN Idle
                  ELSE [reader[r] EXCEPT !.listCut = @ \cup {t}, !.graphCut = @ \cup {t}]]

-------------------------------------------------------------------------------
(* A request for the graph.                                                *)

\* A cached graph is the answer, and nothing changes.
Ask(r, c) ==
  /\ reader[r].at = "idle" /\ graph[c] = Unset
  /\ reader' = [reader EXCEPT ![r] =
       IF listing[c] = Unset
         THEN [Idle EXCEPT !.at = "walk", !.cap = c]
         ELSE [Idle EXCEPT !.at = "card", !.cap = c, !.todo = listing[c].value,
                           !.deps = listing[c].deps]]
  /\ UNCHANGED <<disk, caches, watch, changes, silent>>

\* DeckListing walks the tree.
Walk(r) ==
  /\ reader[r].at = "walk"
  /\ reader' = [reader EXCEPT ![r].at = "list", ![r].todo = decks(disk)]
  /\ UNCHANGED <<disk, caches, watch, changes, silent>>

\* The next deck of the walk, the next line of the listing.
Upcoming(r) == CHOOSE d \in reader[r].todo : TRUE

\* Whether d has a title slide the caller may read.
TitleSlide(c, d) == deck_exists(c, <<d, "slide">>)

\* A deck the caller may read is listed, with its title slide if it has one.
List(r) ==
  LET c == reader[r].cap
      d == Upcoming(r)
      listed == deck_exists(c, <<d, "toml">>)
      slide == listed /\ TitleSlide(c, d)
      asked == IF d \notin may[c] THEN {}
               ELSE {<<d, k>> : k \in {"toml"} \cup (IF listed THEN {"slide"} ELSE {})}
  IN  /\ reader[r].at = "list" /\ reader[r].todo # {}
      /\ reader' = [reader EXCEPT ![r].todo = @ \ {d},
                                  ![r].got = IF listed THEN @ \cup {<<d, slide>>} ELSE @,
                                  ![r].deps = @ \cup asked]
      /\ Caching(c, [a \in {"exists"} \X asked |-> deck_exists(c, a[2])])
      /\ UNCHANGED <<disk, listing, graph, watch, changes, silent>>

\* Mutant: the listing does not hang from its own thread.
Listed_unhung(r) ==
  /\ reader[r].at = "list" /\ reader[r].todo = {}
  /\ listing' = [listing EXCEPT ![reader[r].cap] = Stored(reader[r].got, reader[r].deps, reader[r].listCut)]
  /\ reader' = [reader EXCEPT ![r].at = "card", ![r].todo = reader[r].got, ![r].got = {}, ![r].listCut = {}]
  /\ UNCHANGED <<disk, file, graph, watch, changes, silent>>

Listed(r) ==
  LET deps == reader[r].deps \cup {DECKS_IRI}
  IN  /\ reader[r].at = "list" /\ reader[r].todo = {}
      /\ listing' = [listing EXCEPT ![reader[r].cap] =
                       Stored(reader[r].got, deps, reader[r].listCut)]
      /\ reader' = [reader EXCEPT ![r].at = "card", ![r].todo = reader[r].got,
                                  ![r].got = {}, ![r].deps = deps, ![r].listCut = {}]
      /\ UNCHANGED <<disk, file, graph, watch, changes, silent>>

\* One line of the listing becomes a card.  The slide is read when the deck has no
\* JSON-LD, if the listing names one.
Card(r) ==
  LET c == reader[r].cap
      line == Upcoming(r)
      d == line[1]
      index == Sourced(c, <<d, "index">>)
      scrape == jsonld_metadata(index) = {} /\ line[2]
      slide == IF scrape THEN Sourced(c, <<d, "slide">>) ELSE Absent
      read == {f \in {<<d, "index">>} \cup (IF scrape THEN {<<d, "slide">>} ELSE {}) :
                 Sourced(c, f) # Absent}
      asked == IF base_url \/ deck_metadata(index, slide) = {} \/ d \notin may[c] THEN {}
               ELSE {<<d, "index">>}
      built == ~ base_url /\ deck_exists(c, <<d, "index">>)
  IN  /\ reader[r].at = "card" /\ reader[r].todo # {}
      /\ reader' = [reader EXCEPT ![r].todo = @ \ {line},
                                  ![r].got = @ \cup deck_turtle(d, index, slide, built),
                                  ![r].deps = @ \cup read \cup asked]
      /\ Caching(c, [a \in {"source"} \X read \cup {"exists"} \X asked |->
                       IF a[1] = "source" THEN Sourced(c, a[2]) ELSE built])
      /\ UNCHANGED <<disk, listing, graph, watch, changes, silent>>

\* Mutant: the graph is cached under its name alone, for whoever asks.
Answered_for_all(r) ==
  /\ reader[r].at = "card" /\ reader[r].todo = {}
  /\ graph' = [c \in Cap |-> Stored(reader[r].got, reader[r].deps, reader[r].graphCut)]
  /\ reader' = [reader EXCEPT ![r] = Idle]
  /\ UNCHANGED <<disk, file, listing, watch, changes, silent>>

\* The graph is answered, and cached for the capability it was asked under.
Answered(r) ==
  /\ reader[r].at = "card" /\ reader[r].todo = {}
  /\ graph' = [graph EXCEPT ![reader[r].cap] =
                 Stored(reader[r].got, reader[r].deps, reader[r].graphCut)]
  /\ reader' = [reader EXCEPT ![r] = Idle]
  /\ UNCHANGED <<disk, file, listing, watch, changes, silent>>

-------------------------------------------------------------------------------
(* DeckWatch.                                                              *)

\* The watch takes the next notification.
Take ==
  /\ cutting = <<>> /\ events # <<>>
  /\ cutting' = Head(events) /\ events' = Tail(events)
  /\ UNCHANGED <<disk, caches, reader, changes, silent>>

\* apply cuts its threads one after another.
Apply ==
  /\ cutting # <<>>
  /\ cut(Head(cutting))
  /\ cutting' = Tail(cutting)
  /\ UNCHANGED <<disk, events, changes, silent>>

\* Mutant: the threads are named after the directories.
deck_threads_for_dir(files) == <<DECKS_IRI>> \o SetToSeq({f[1] : f \in files})

\* Mutant: a changed file names its own thread alone.
deck_threads_for_own(files) == SetToSeq(files)

\* Any changed path cuts the listing, first.
deck_threads_for(files) == <<DECKS_IRI>> \o SetToSeq(files)

-------------------------------------------------------------------------------
(* The author.                                                             *)

Change == changes < MaxChanges /\ changes' = changes + 1

Notify(files) ==
  /\ events' = Append(events, deck_threads_for(files))
  /\ UNCHANGED <<caches, cutting, reader>>

\* A file is written, made or deleted.
Edit(f, text) ==
  /\ Change
  /\ disk[f] # text
  /\ disk' = [disk EXCEPT ![f] = text]
  /\ Notify({f})
  /\ silent' = silent \ {f, DECKS_IRI}

\* The directory of d is replaced by another, under its name: the notification names
\* the directory and none of the files in it.
Move(d, tree) ==
  /\ "move" \in Accidents
  /\ Change
  /\ disk' = [f \in File |-> IF f[1] = d THEN tree[f] ELSE disk[f]]
  /\ disk' # disk
  /\ Notify({})
  /\ silent' = (silent \cup {f \in File : f[1] = d}) \ {DECKS_IRI}

\* The platform's queue overflows: an error that names nothing comes instead.
Overflow ==
  /\ "overflow" \in Accidents
  /\ events # <<>>
  /\ silent' = silent \cup UNION {Range(events[i]) : i \in DOMAIN events}
  /\ events' = <<>>
  /\ UNCHANGED <<disk, caches, cutting, reader, changes>>

-------------------------------------------------------------------------------
Reading(r) == Walk(r) \/ List(r) \/ Listed(r) \/ Card(r) \/ Answered(r)

Next ==
  \/ \E r \in Reader, c \in Cap : Ask(r, c)
  \/ \E r \in Reader : Reading(r)
  \/ Take \/ Apply
  \/ \E f \in File : \E text \in Held(f[2]) : Edit(f, text)
  \/ \E d \in Deck, tree \in Trees : Move(d, tree)
  \/ Overflow

Spec == Init /\ [][Next]_vars

-------------------------------------------------------------------------------
(* Properties.                                                             *)

\* What c's graph says of d, and what the tree does.
Shown(c, d) == {card \in graph[c].value : card.deck = d}
True(c, d)  == IF d \in decks(disk) /\ d \in may[c]
                 THEN deck_turtle(d, disk[d, "index"], disk[d, "slide"], disk[d, "index"] # Absent)
                 ELSE {}

\* Whether each change of d's files, and one since of the tree at all, was notified.
Told(d) == \A t \in silent : t # DECKS_IRI /\ t[1] # d

Applied == events = <<>> /\ cutting = <<>>

\* Once every notification has been applied, no cached graph is behind the tree, be
\* a request under way or not (DeckWatch: the room recomputes on its next read).
CurrentWhenApplied ==
  Applied => \A c \in Cap, d \in Deck :
    graph[c] # Unset /\ Told(d) => Shown(c, d) = True(c, d)

\* Neither the listing nor the graph names a deck its caller may not read, whoever
\* else asked for either before (DeckListing: "names nothing the caller's grants do
\* not reach").
NamesWhatMayBeRead ==
  \A c \in Cap : /\ listing[c] # Unset => \A line \in listing[c].value : line[1] \in may[c]
                 /\ graph[c] # Unset => \A card \in graph[c].value : card.deck \in may[c]
===============================================================================
