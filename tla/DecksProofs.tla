------------------------------ MODULE DecksProofs ------------------------------
(***************************************************************************)
(* The presentations for any number of decks, capabilities and readers:    *)
(* once the watch has applied its notifications no cached graph is behind  *)
(* the tree, and none names a deck its caller may not read.                *)
(*                                                                         *)
(* What was computed from a tree that has changed since hangs from the     *)
(* listing's thread, which every change names; what was computed from a    *)
(* cached answer that is behind the tree hangs from that file's thread.    *)
(* Either thread is still to be cut, or nothing will cut it.               *)
(***************************************************************************)
EXTENDS Decks, FiniteSetTheorems, SequenceTheorems, TLAPS

\* The threads still to be cut, and with them those nothing will cut.
Open == (UNION {Range(events[i]) : i \in DOMAIN events}) \cup Range(cutting) \cup silent

\* What hangs from deps may be wrong about d: a thread of d is open, or has been cut since.
Doubt(d, deps, cuts) == \E k \in Kind : <<d, k>> \in deps \cap (Open \cup cuts)

Of(d, lines)      == {line \in lines : line[1] = d}
CardsOf(d, cards) == {card \in cards : card.deck = d}

\* What a listing says of d when it is right.
TrueLines(c, d) ==
  IF d \in decks(disk) /\ d \in may[c] THEN {<<d, disk[d, "slide"] # Absent>>} ELSE {}

-------------------------------------------------------------------------------
(* The values.                                                             *)

Content == Text \cup {Absent, Plain}
Line    == Deck \X BOOLEAN
AnyCard == UNION {deck_turtle(d, index, slide, built) :
                    d \in Deck, index \in Content, slide \in Content, built \in BOOLEAN}
Item    == Deck \cup Line \cup AnyCard

ReaderState ==
  [at : {"idle", "walk", "list", "card"}, cap : Cap \cup {Unset},
   todo : SUBSET Item, got : SUBSET Item,
   deps : SUBSET Thread, listCut : SUBSET Thread, graphCut : SUBSET Thread]

CachesType ==
  /\ file \in [Cap -> [Answer -> Content \cup BOOLEAN \cup {Unset}]]
  /\ listing \in [Cap -> {Unset} \cup [value : SUBSET Line, deps : SUBSET Thread]]
  /\ graph \in [Cap -> {Unset} \cup [value : SUBSET AnyCard, deps : SUBSET Thread]]

ReadersType ==
  /\ reader \in [Reader -> ReaderState]
  /\ \A r \in Reader : LET x == reader[r] IN
       /\ x.at # "idle" => x.cap \in Cap
       /\ x.at = "walk" => x.todo = {} /\ x.got = {} /\ x.deps = {}
       /\ x.at \in {"walk", "list"} => x.listCut = x.graphCut
       /\ x.at = "list" => x.todo \subseteq Deck /\ x.got \subseteq Line
       /\ x.at = "card" => x.todo \subseteq Line /\ x.got \subseteq AnyCard

TreeType ==
  /\ disk \in [File -> Content] /\ \A f \in File : disk[f] \in Held(f[2])
  /\ events \in Seq(Seq(Thread)) /\ cutting \in Seq(Thread) /\ silent \in SUBSET Thread
  /\ changes \in 0 .. MaxChanges /\ Len(events) <= changes

StateType == CachesType /\ ReadersType /\ TreeType

-------------------------------------------------------------------------------
(* The invariant.                                                          *)

\* A cached answer of the jail is right unless its file's thread is open.
SourceOK(c, f) ==
  LET e == file[c][<<"source", f>>]
  IN  e # Unset => f[1] \in may[c] /\ e \in Content \ {Absent} /\ (f \notin Open => e = disk[f])

ExistsOK(c, f) ==
  LET e == file[c][<<"exists", f>>]
  IN  e # Unset => f[1] \in may[c] /\ e \in BOOLEAN /\ (f \notin Open => e = (disk[f] # Absent))

FilesOK == \A c \in Cap, f \in File : SourceOK(c, f) /\ ExistsOK(c, f)

ListingOK(c) ==
  listing[c] # Unset =>
    /\ DECKS_IRI \in listing[c].deps
    /\ \A line \in listing[c].value : line[1] \in may[c]
    /\ \A d \in Deck : \/ DECKS_IRI \in Open \/ Doubt(d, listing[c].deps, {})
                       \/ Of(d, listing[c].value) = TrueLines(c, d)

GraphOK(c) ==
  graph[c] # Unset =>
    /\ DECKS_IRI \in graph[c].deps
    /\ \A card \in graph[c].value : card.deck \in may[c]
    /\ \A d \in Deck : \/ DECKS_IRI \in Open \/ Doubt(d, graph[c].deps, {})
                       \/ CardsOf(d, graph[c].value) = True(c, d)

\* A request that is listing: what it has listed is right, and the rest of its walk.
ListsOK(x) ==
  x.at = "list" =>
    /\ \A line \in x.got : line[1] \in may[x.cap]
    /\ \A d \in Deck :
         \/ DECKS_IRI \in Open \cup x.graphCut \/ Doubt(d, x.deps, x.graphCut)
         \/ d \in x.todo /\ d \in decks(disk) /\ Of(d, x.got) = {}
         \/ d \notin x.todo /\ Of(d, x.got) = TrueLines(x.cap, d)

\* A request that makes cards: those it has made are right, and the lines it has left.
CardsOK(x) ==
  x.at = "card" =>
    /\ DECKS_IRI \in x.deps
    /\ \A line \in x.todo : line[1] \in may[x.cap]
    /\ \A card \in x.got : card.deck \in may[x.cap]
    /\ \A d \in Deck :
         \/ DECKS_IRI \in Open \cup x.graphCut \/ Doubt(d, x.deps, x.graphCut)
         \/ Of(d, x.todo) = TrueLines(x.cap, d) /\ CardsOf(d, x.got) = {}
         \/ Of(d, x.todo) = {} /\ CardsOf(d, x.got) = True(x.cap, d)

CachesOK  == FilesOK /\ \A c \in Cap : ListingOK(c) /\ GraphOK(c)
ReadersOK == \A r \in Reader : ListsOK(reader[r]) /\ CardsOK(reader[r])
DecksInv  == CachesOK /\ ReadersOK

-------------------------------------------------------------------------------
(* The notifications.                                                      *)

LEMMA RangeOfCons ==
  ASSUME NEW S, NEW h \in S, NEW s \in Seq(S)
  PROVE  <<h>> \o s \in Seq(S) /\ Range(<<h>> \o s) = {h} \cup Range(s)
<1>1. <<h>> \in Seq(S) /\ <<h>> \o s \in Seq(S)
  OBVIOUS
<1>2. Range(<<h>> \o s) = Range(<<h>>) \cup Range(s)
  BY <1>1, RangeConcatenation
<1>3. Range(<<h>>) = {h}
  BY DEF Range
<1> QED BY <1>1, <1>2, <1>3

LEMMA RangeOfTail ==
  ASSUME NEW S, NEW s \in Seq(S), s # <<>>
  PROVE  Head(s) \in S /\ Tail(s) \in Seq(S) /\ Range(s) = {Head(s)} \cup Range(Tail(s))
<1>1. Head(s) \in S /\ Tail(s) \in Seq(S) /\ s = <<Head(s)>> \o Tail(s)
  OBVIOUS
<1>2. Range(<<Head(s)>> \o Tail(s)) = {Head(s)} \cup Range(Tail(s))
  BY <1>1, RangeOfCons
<1> QED BY <1>1, <1>2

\* The sequence of at most one thing.
LEMMA SequenceOfOne ==
  /\ SetToSeq({}) = <<>>
  /\ \A x : SetToSeq({x}) = <<x>>
<1>1. SetToSeq({}) = <<>>
  <2> DEFINE q == [i \in {} |-> i]
  <2>1. 1 .. Cardinality({}) = {}
    BY FS_EmptySet
  <2>2. q \in [{} -> {}] /\ IsInjective(q)
    BY DEF IsInjective
  <2>3. SetToSeq({}) = CHOOSE f \in [{} -> {}] : IsInjective(f)
    BY <2>1 DEF SetToSeq
  <2>4. SetToSeq({}) \in [{} -> {}]
    BY <2>2, <2>3
  <2> QED BY <2>4
<1>2. ASSUME NEW x PROVE SetToSeq({x}) = <<x>>
  <2> DEFINE q == [i \in {1} |-> x]
  <2>1. 1 .. Cardinality({x}) = {1}
    <3>1. Cardinality({x}) = 1
      BY FS_Singleton, Zenon
    <3> QED BY <3>1
  <2>2. q \in [{1} -> {x}] /\ IsInjective(q)
    BY DEF IsInjective
  <2>3. SetToSeq({x}) = CHOOSE f \in [{1} -> {x}] : IsInjective(f)
    BY <2>1 DEF SetToSeq
  <2>4. SetToSeq({x}) \in [{1} -> {x}]
    BY <2>2, <2>3
  <2> QED BY <2>4
<1> QED BY <1>1, <1>2

\* What a notification of at most one file names.
LEMMA ThreadsOf ==
  ASSUME NEW files \in SUBSET File, files = {} \/ \E f \in File : files = {f}
  PROVE  /\ deck_threads_for(files) \in Seq(Thread)
         /\ Range(deck_threads_for(files)) = {DECKS_IRI} \cup files
<1> DEFINE s == SetToSeq(files)
<1>1. s \in Seq(Thread) /\ Range(s) = files
  <2>1. CASE files = {}
    <3>1. s = <<>> /\ <<>> \in Seq(Thread)
      BY <2>1, SequenceOfOne
    <3>2. Range(<<>>) = {}
      BY DEF Range
    <3> QED BY <2>1, <3>1, <3>2
  <2>2. ASSUME NEW f \in File, files = {f} PROVE s \in Seq(Thread) /\ Range(s) = files
    <3>1. s = <<f>>
      BY <2>2, SequenceOfOne
    <3>2. <<f>> \in Seq(Thread) /\ Range(<<f>>) = {f}
      BY <2>2 DEF Range, Thread
    <3> QED BY <2>2, <3>1, <3>2
  <2> QED BY <2>1, <2>2
<1>2. DECKS_IRI \in Thread /\ deck_threads_for(files) = <<DECKS_IRI>> \o s
  BY DEF deck_threads_for, Thread
<1> HIDE DEF s
<1> QED BY <1>1, <1>2, RangeOfCons

LEMMA NotifyOpens ==
  ASSUME TreeType, NEW files \in SUBSET File, files = {} \/ \E f \in File : files = {f},
         Notify(files), silent \subseteq silent' \cup files \cup {DECKS_IRI}
  PROVE  /\ Open \cup files \cup {DECKS_IRI} \subseteq Open'
         /\ events' \in Seq(Seq(Thread)) /\ Len(events') = Len(events) + 1
<1> DEFINE n == deck_threads_for(files)
<1>1. n \in Seq(Thread) /\ Range(n) = {DECKS_IRI} \cup files
  BY ThreadsOf
<1>2. events' = Append(events, n) /\ cutting' = cutting
  BY DEF Notify, caches
<1> HIDE DEF n
<1>3. events \in Seq(Seq(Thread)) /\ Len(events) \in Nat
  BY DEF TreeType
<1>4. /\ events' \in Seq(Seq(Thread)) /\ Len(events') = Len(events) + 1
      /\ \A i \in DOMAIN events : i \in DOMAIN events' /\ events'[i] = events[i]
      /\ Len(events) + 1 \in DOMAIN events' /\ events'[Len(events) + 1] = n
  BY <1>1, <1>2, <1>3
<1>5. {DECKS_IRI} \cup files \subseteq Open'
  BY <1>1, <1>4 DEF Open
<1>6. \A i \in DOMAIN events : Range(events[i]) \subseteq Open'
  BY <1>4 DEF Open
<1>7. Range(cutting) \subseteq Open' /\ silent' \subseteq Open'
  BY <1>2 DEF Open
<1> QED BY <1>4, <1>5, <1>6, <1>7 DEF Open

LEMMA TakeOpens ==
  ASSUME TreeType, Take
  PROVE  /\ Open \subseteq Open'
         /\ events' \in Seq(Seq(Thread)) /\ Len(events') <= Len(events) /\ cutting' \in Seq(Thread)
<1>1. events \in Seq(Seq(Thread)) /\ events # <<>> /\ cutting = <<>>
      /\ events' = Tail(events) /\ cutting' = Head(events) /\ silent' = silent
  BY DEF TreeType, Take
<1>2. /\ events' \in Seq(Seq(Thread)) /\ Len(events') = Len(events) - 1 /\ cutting' \in Seq(Thread)
      /\ \A i \in DOMAIN events : i # 1 => i - 1 \in DOMAIN events' /\ events'[i - 1] = events[i]
      /\ events[1] = cutting' /\ Len(events) \in Nat
  <2>1. /\ events' \in Seq(Seq(Thread)) /\ Len(events') = Len(events) - 1 /\ cutting' \in Seq(Thread)
        /\ events[1] = cutting' /\ Len(events) \in Nat
    BY <1>1
  <2>2. \A j \in 1 .. Len(events') : events'[j] = events[j + 1]
    BY <1>1
  <2>3. DOMAIN events' = 1 .. Len(events')
    BY <2>1
  <2>4. ASSUME NEW i \in DOMAIN events, i # 1
        PROVE  i - 1 \in DOMAIN events' /\ events'[i - 1] = events[i]
    <3>1. i \in 1 .. Len(events) /\ i - 1 \in 1 .. Len(events')
      BY <1>1, <2>1, <2>4
    <3>2. (i - 1) + 1 = i
      BY <3>1
    <3> QED BY <2>2, <2>3, <3>1, <3>2
  <2>5. \A i \in DOMAIN events : i # 1 => i - 1 \in DOMAIN events' /\ events'[i - 1] = events[i]
    BY <2>4, Zenon
  <2> QED BY <2>1, <2>5
<1>3. \A i \in DOMAIN events : Range(events[i]) \subseteq Open'
  BY <1>2 DEF Open
<1>4. Range(cutting) = {} /\ silent \subseteq Open'
  BY <1>1 DEF Open, Range
<1> QED BY <1>2, <1>3, <1>4 DEF Open

LEMMA OverflowOpens ==
  ASSUME TreeType, Overflow
  PROVE  Open \subseteq Open' /\ silent' \in SUBSET Thread
<1>1. /\ silent' = silent \cup UNION {Range(events[i]) : i \in DOMAIN events} /\ cutting' = cutting
  BY DEF Overflow
<1>2. ASSUME NEW i \in DOMAIN events PROVE Range(events[i]) \subseteq Thread
  <2>1. events[i] \in Seq(Thread)
    BY DEF TreeType
  <2> QED BY <2>1, RangeEquality
<1> QED BY <1>1, <1>2 DEF Open, TreeType

LEMMA ApplyOpens ==
  ASSUME TreeType, Apply
  PROVE  /\ Head(cutting) \in Thread /\ cutting' \in Seq(Thread)
         /\ Open \subseteq Open' \cup {Head(cutting)}
<1>1. /\ cutting \in Seq(Thread) /\ cutting # <<>> /\ cutting' = Tail(cutting)
      /\ events' = events /\ silent' = silent
  BY DEF TreeType, Apply
<1>2. Range(cutting) = {Head(cutting)} \cup Range(cutting') /\ Head(cutting) \in Thread /\ cutting' \in Seq(Thread)
  BY <1>1, RangeOfTail
<1> QED BY <1>1, <1>2 DEF Open

-------------------------------------------------------------------------------
(* What the jail answers.                                                  *)

LEMMA SourcedRight ==
  ASSUME StateType, FilesOK, NEW c \in Cap, NEW f \in File
  PROVE  /\ Sourced(c, f) \in Content
         /\ f[1] \notin may[c] => Sourced(c, f) = Absent
         /\ f[1] \in may[c] /\ (f \notin Open \/ Sourced(c, f) = Absent) => Sourced(c, f) = disk[f]
<1>1. SourceOK(c, f) /\ disk[f] \in Content
  BY DEF FilesOK, StateType, TreeType
<1> QED BY <1>1 DEF SourceOK, Sourced, Content

LEMMA ExistsRight ==
  ASSUME StateType, FilesOK, NEW c \in Cap, NEW f \in File
  PROVE  /\ deck_exists(c, f) \in BOOLEAN
         /\ deck_exists(c, f) => f[1] \in may[c]
         /\ f[1] \in may[c] /\ f \notin Open => (deck_exists(c, f) <=> disk[f] # Absent)
<1>1. ExistsOK(c, f)
  BY DEF FilesOK
<1> QED BY <1>1 DEF ExistsOK, deck_exists

-------------------------------------------------------------------------------
(* The tree, the notifications and the cuts.                               *)

\* A doubt lasts until its thread is cut, and then for what was begun before.
LEMMA DoubtStays ==
  ASSUME NEW d, NEW deps, NEW more, NEW old, NEW new, deps \subseteq more,
         Open \cup old \subseteq Open' \cup new, Doubt(d, deps, old)
  PROVE  Doubt(d, more, new)'
BY DEF Doubt

\* Whatever changes the tree opens the listing's thread and those of the files, and
\* what opens a thread leaves the rest as it is.
LEMMA TreeSteps ==
  ASSUME DecksInv, UNCHANGED <<file, listing, graph, reader>>, Open \subseteq Open',
         \A f \in File : disk'[f] # disk[f] => f \in Open',
         disk' = disk \/ DECKS_IRI \in Open'
  PROVE  DecksInv'
<1> USE DEF DecksInv, CachesOK, ReadersOK
<1>1. \A d, deps, cuts : Doubt(d, deps, cuts) => Doubt(d, deps, cuts)'
  BY DEF Doubt
<1>2. disk' = disk => \A c, d : /\ TrueLines(c, d)' = TrueLines(c, d)
                                /\ True(c, d)' = True(c, d) /\ decks(disk)' = decks(disk)
  BY DEF TrueLines, True
<1>3. FilesOK'
  BY DEF FilesOK, SourceOK, ExistsOK
<1>4. ASSUME NEW c \in Cap PROVE ListingOK(c)'
  BY <1>1, <1>2 DEF ListingOK
<1>5. ASSUME NEW c \in Cap PROVE GraphOK(c)'
  BY <1>1, <1>2 DEF GraphOK
<1>6. ASSUME NEW r \in Reader PROVE ListsOK(reader[r])'
  BY <1>1, <1>2 DEF ListsOK
<1>7. ASSUME NEW r \in Reader PROVE CardsOK(reader[r])'
  BY <1>1, <1>2 DEF CardsOK
<1> QED BY <1>3, <1>4, <1>5, <1>6, <1>7

\* A cut empties what hangs from the thread, and whoever is computing will know.
LEMMA CutTypes ==
  ASSUME CachesType, ReadersType, NEW t \in Thread, cut(t)
  PROVE  CachesType' /\ ReadersType'
<1>1. /\ file' = [c \in Cap |-> [a \in Answer |-> IF Hangs(a) = t THEN Unset ELSE file[c][a]]]
      /\ listing' = [c \in Cap |-> Without(listing[c], t)]
      /\ graph' = [c \in Cap |-> Without(graph[c], t)]
      /\ reader' = [r \in Reader |->
                      IF reader[r].at = "idle" THEN Idle
                      ELSE [reader[r] EXCEPT !.listCut = @ \cup {t}, !.graphCut = @ \cup {t}]]
  BY DEF cut
<1>2. CachesType'
  BY <1>1 DEF CachesType, Without
<1>3. ASSUME NEW r \in Reader
      PROVE  /\ reader'[r] \in ReaderState
             /\ reader[r].at = "idle" => reader'[r] = Idle
             /\ reader[r].at # "idle" =>
                  /\ reader'[r].at = reader[r].at /\ reader'[r].cap = reader[r].cap
                  /\ reader'[r].todo = reader[r].todo /\ reader'[r].got = reader[r].got
                  /\ reader'[r].deps = reader[r].deps
                  /\ reader'[r].listCut = reader[r].listCut \cup {t}
                  /\ reader'[r].graphCut = reader[r].graphCut \cup {t}
  <2>1. reader[r] \in ReaderState
    BY DEF ReadersType
  <2>2. CASE reader[r].at = "idle"
    BY <1>1, <2>2 DEF Idle, ReaderState
  <2>3. CASE reader[r].at # "idle"
    BY <1>1, <2>1, <2>3 DEF ReaderState
  <2> QED BY <2>2, <2>3
<1>4. ReadersType'
  <2>1. reader' \in [Reader -> ReaderState]
    BY <1>1, <1>3
  <2>2. ASSUME NEW r \in Reader
        PROVE  LET x == reader'[r] IN
                 /\ x.at # "idle" => x.cap \in Cap
                 /\ x.at = "walk" => x.todo = {} /\ x.got = {} /\ x.deps = {}
                 /\ x.at \in {"walk", "list"} => x.listCut = x.graphCut
                 /\ x.at = "list" => x.todo \subseteq Deck /\ x.got \subseteq Line
                 /\ x.at = "card" => x.todo \subseteq Line /\ x.got \subseteq AnyCard
    <3>1. CASE reader[r].at = "idle"
      BY <1>3, <3>1 DEF Idle
    <3>2. CASE reader[r].at # "idle"
      BY <1>3, <3>2 DEF ReadersType
    <3> QED BY <3>1, <3>2
  <2> QED BY <2>1, <2>2 DEF ReadersType
<1> QED BY <1>2, <1>4

LEMMA CutKeeps ==
  ASSUME CachesType, ReadersType, DecksInv, NEW t \in Thread, cut(t), disk' = disk,
         Open \subseteq Open' \cup {t}
  PROVE  DecksInv'
<1> USE DEF DecksInv, CachesOK, ReadersOK
<1>1. /\ file' = [c \in Cap |-> [a \in Answer |-> IF Hangs(a) = t THEN Unset ELSE file[c][a]]]
      /\ listing' = [c \in Cap |-> Without(listing[c], t)]
      /\ graph' = [c \in Cap |-> Without(graph[c], t)]
      /\ reader' = [r \in Reader |->
                      IF reader[r].at = "idle" THEN Idle
                      ELSE [reader[r] EXCEPT !.listCut = @ \cup {t}, !.graphCut = @ \cup {t}]]
  BY DEF cut
<1>2. \A c, d : /\ TrueLines(c, d)' = TrueLines(c, d)
                /\ True(c, d)' = True(c, d) /\ decks(disk)' = decks(disk)
  BY DEF TrueLines, True
<1>3. \A d, deps : Doubt(d, deps, {}) /\ t \notin deps => Doubt(d, deps, {})'
  BY DEF Doubt
<1>4. \A d, deps, cuts : Doubt(d, deps, cuts) => Doubt(d, deps, cuts \cup {t})'
  BY DEF Doubt
<1>5. FilesOK'
  <2> SUFFICES ASSUME NEW c \in Cap, NEW f \in File PROVE SourceOK(c, f)' /\ ExistsOK(c, f)'
    BY DEF FilesOK
  <2>1. SourceOK(c, f) /\ ExistsOK(c, f)
    BY DEF FilesOK
  <2>2. <<"source", f>> \in Answer /\ <<"exists", f>> \in Answer
    BY DEF Answer
  <2>3. /\ file'[c][<<"source", f>>] = IF f = t THEN Unset ELSE file[c][<<"source", f>>]
        /\ file'[c][<<"exists", f>>] = IF f = t THEN Unset ELSE file[c][<<"exists", f>>]
    BY <1>1, <2>2 DEF Hangs
  <2>4. f # t => (f \notin Open' => f \notin Open)
    OBVIOUS
  <2> QED BY <2>1, <2>3, <2>4 DEF SourceOK, ExistsOK
<1>6. ASSUME NEW c \in Cap PROVE ListingOK(c)'
  <2>1. listing'[c] = Without(listing[c], t)
    BY <1>1
  <2> QED BY <1>2, <1>3, <2>1 DEF ListingOK, Without
<1>7. ASSUME NEW c \in Cap PROVE GraphOK(c)'
  <2>1. graph'[c] = Without(graph[c], t)
    BY <1>1
  <2> QED BY <1>2, <1>3, <2>1 DEF GraphOK, Without
<1>8. ASSUME NEW r \in Reader PROVE ListsOK(reader[r])' /\ CardsOK(reader[r])'
  <2>1. CASE reader[r].at = "idle"
    BY <1>1, <2>1 DEF ListsOK, CardsOK, Idle
  <2>2. CASE reader[r].at # "idle"
    <3>1. reader[r] \in ReaderState
      BY DEF ReadersType
    <3>2. /\ reader'[r].at = reader[r].at /\ reader'[r].cap = reader[r].cap
          /\ reader'[r].todo = reader[r].todo /\ reader'[r].got = reader[r].got
          /\ reader'[r].deps = reader[r].deps
          /\ reader'[r].graphCut = reader[r].graphCut \cup {t}
      BY <1>1, <2>2, <3>1 DEF ReaderState
    <3>3. \A d : Doubt(d, reader[r].deps, reader[r].graphCut)
                   => Doubt(d, reader[r].deps, reader[r].graphCut)'
      BY <1>4, <3>2
    <3>4. DECKS_IRI \in Open \cup reader[r].graphCut => DECKS_IRI \in Open' \cup reader'[r].graphCut
      BY <3>2
    <3>5. ListsOK(reader[r])'
      BY <1>2, <3>2, <3>3, <3>4 DEF ListsOK
    <3>6. CardsOK(reader[r])'
      BY <1>2, <3>2, <3>3, <3>4 DEF CardsOK
    <3> QED BY <3>5, <3>6
  <2> QED BY <2>1, <2>2
<1> QED BY <1>5, <1>6, <1>7, <1>8

-------------------------------------------------------------------------------
(* A request's step.                                                       *)

\* It changes neither the tree nor the notifications.
LEMMA SameTree ==
  ASSUME UNCHANGED <<disk, events, cutting, silent>>
  PROVE  /\ Open' = Open /\ decks(disk)' = decks(disk)
         /\ \A d, deps, cuts : Doubt(d, deps, cuts)' <=> Doubt(d, deps, cuts)
         /\ \A c, d : TrueLines(c, d)' = TrueLines(c, d) /\ True(c, d)' = True(c, d)
         /\ file' = file => \A c, f : (SourceOK(c, f) => SourceOK(c, f)') /\ (ExistsOK(c, f) => ExistsOK(c, f)')
<1>1. Open' = Open
  BY DEF Open
<1> QED BY <1>1 DEF Doubt, TrueLines, True, SourceOK, ExistsOK

\* And of the caches and the requests only what it names.
LEMMA OthersKeep ==
  ASSUME DecksInv, UNCHANGED <<disk, events, cutting, silent>>
  PROVE  /\ \A c \in Cap : listing'[c] = listing[c] => ListingOK(c)'
         /\ \A c \in Cap : graph'[c] = graph[c] => GraphOK(c)'
         /\ \A q \in Reader : reader'[q] = reader[q] => ListsOK(reader[q])' /\ CardsOK(reader[q])'
         /\ file' = file => FilesOK'
<1>1. ASSUME NEW c \in Cap, listing'[c] = listing[c] PROVE ListingOK(c)'
  BY <1>1, SameTree DEF DecksInv, CachesOK, ListingOK
<1>2. ASSUME NEW c \in Cap, graph'[c] = graph[c] PROVE GraphOK(c)'
  BY <1>2, SameTree DEF DecksInv, CachesOK, GraphOK
<1>3. ASSUME NEW q \in Reader, reader'[q] = reader[q] PROVE ListsOK(reader[q])' /\ CardsOK(reader[q])'
  <2>1. ListsOK(reader[q])'
    BY <1>3, SameTree DEF DecksInv, ReadersOK, ListsOK
  <2>2. CardsOK(reader[q])'
    BY <1>3, SameTree DEF DecksInv, ReadersOK, CardsOK
  <2> QED BY <2>1, <2>2
<1>4. file' = file => FilesOK'
  BY SameTree DEF DecksInv, CachesOK, FilesOK
<1> QED BY <1>1, <1>2, <1>3, <1>4

\* What the jail has just answered may be cached.
LEMMA CachingKeeps ==
  ASSUME StateType, DecksInv, UNCHANGED <<disk, events, cutting, silent>>,
         NEW c \in Cap, NEW values, Caching(c, values), DOMAIN values \subseteq Answer,
         \A f \in File : <<"source", f>> \in DOMAIN values
           => /\ values[<<"source", f>>] = Sourced(c, f)
              /\ f[1] \in may[c] /\ Sourced(c, f) # Absent,
         \A f \in File : <<"exists", f>> \in DOMAIN values
           => /\ values[<<"exists", f>>] \in BOOLEAN
              /\ values[<<"exists", f>>] <=> deck_exists(c, f)
              /\ f[1] \in may[c]
  PROVE  FilesOK' /\ file' \in [Cap -> [Answer -> Content \cup BOOLEAN \cup {Unset}]]
<1>1. /\ file \in [Cap -> [Answer -> Content \cup BOOLEAN \cup {Unset}]]
      /\ FilesOK /\ Open' = Open
  BY SameTree DEF StateType, CachesType, DecksInv, CachesOK
<1>2. /\ DOMAIN file' = Cap /\ \A b \in Cap \ {c} : file'[b] = file[b]
      /\ file' = [file EXCEPT ![c] = [a \in Answer |-> IF a \in DOMAIN values THEN values[a] ELSE @[a]]]
  BY <1>1 DEF Caching
<1>3. \A a \in Answer : file'[c][a] = IF a \in DOMAIN values THEN values[a] ELSE file[c][a]
  BY <1>1, <1>2
<1>4. ASSUME NEW f \in File PROVE SourceOK(c, f)' /\ ExistsOK(c, f)'
  <2>1. <<"source", f>> \in Answer /\ <<"exists", f>> \in Answer
    BY DEF Answer
  <2>2. SourceOK(c, f) /\ ExistsOK(c, f)
    BY <1>1 DEF FilesOK
  <2>3. SourceOK(c, f)'
    <3>1. CASE <<"source", f>> \in DOMAIN values
      BY <1>1, <1>3, <2>1, <3>1, SourcedRight DEF SourceOK
    <3>2. CASE <<"source", f>> \notin DOMAIN values
      BY <1>1, <1>3, <2>1, <2>2, <3>2 DEF SourceOK
    <3> QED BY <3>1, <3>2
  <2>4. ExistsOK(c, f)'
    <3>1. CASE <<"exists", f>> \in DOMAIN values
      <4>1. file'[c][<<"exists", f>>] \in BOOLEAN /\ (file'[c][<<"exists", f>>] <=> deck_exists(c, f))
        BY <1>3, <2>1, <3>1
      <4>2. f \notin Open => (deck_exists(c, f) <=> disk[f] # Absent)
        BY <1>1, <3>1, ExistsRight
      <4> QED BY <1>1, <3>1, <4>1, <4>2 DEF ExistsOK
    <3>2. CASE <<"exists", f>> \notin DOMAIN values
      BY <1>1, <1>3, <2>1, <2>2, <3>2 DEF ExistsOK
    <3> QED BY <3>1, <3>2
  <2> QED BY <2>3, <2>4
<1>5. ASSUME NEW b \in Cap \ {c}, NEW f \in File PROVE SourceOK(b, f)' /\ ExistsOK(b, f)'
  <2>1. SourceOK(b, f) /\ ExistsOK(b, f)
    BY <1>1 DEF FilesOK
  <2> QED BY <1>1, <1>2, <2>1 DEF SourceOK, ExistsOK
<1>6. ASSUME NEW a \in Answer PROVE file'[c][a] \in Content \cup BOOLEAN \cup {Unset}
  <2>1. PICK k \in {"source", "exists"}, f \in File : a = <<k, f>>
    BY DEF Answer
  <2>2. CASE a \notin DOMAIN values
    BY <1>1, <1>3, <2>2
  <2>3. CASE a \in DOMAIN values /\ k = "source"
    BY <1>1, <1>3, <2>1, <2>3, SourcedRight
  <2>4. CASE a \in DOMAIN values /\ k = "exists"
    BY <1>3, <2>1, <2>4
  <2> QED BY <2>1, <2>2, <2>3, <2>4
<1>7. file' \in [Cap -> [Answer -> Content \cup BOOLEAN \cup {Unset}]]
  BY <1>1, <1>2, <1>3, <1>6
<1> QED BY <1>4, <1>5, <1>7 DEF FilesOK

\* What a request may come to be.
StateOK(x) ==
  /\ x \in ReaderState
  /\ x.at # "idle" => x.cap \in Cap
  /\ x.at = "walk" => x.todo = {} /\ x.got = {} /\ x.deps = {}
  /\ x.at \in {"walk", "list"} => x.listCut = x.graphCut
  /\ x.at = "list" => x.todo \subseteq Deck /\ x.got \subseteq Line
  /\ x.at = "card" => x.todo \subseteq Line /\ x.got \subseteq AnyCard

LEMMA ReaderMoves ==
  ASSUME StateType, DecksInv, NEW r \in Reader, NEW x, reader' = [reader EXCEPT ![r] = x],
         StateOK(x), (ListsOK(x) /\ CardsOK(x))', UNCHANGED <<disk, events, cutting, silent>>
  PROVE  ReadersType' /\ ReadersOK'
<1>1. /\ reader' \in [Reader -> ReaderState] /\ reader'[r] = x
      /\ \A q \in Reader \ {r} : reader'[q] = reader[q]
  BY DEF StateType, ReadersType, StateOK
<1>2. ReadersType'
  BY <1>1 DEF StateType, ReadersType, StateOK
<1>3. ASSUME NEW q \in Reader PROVE ListsOK(reader[q])' /\ CardsOK(reader[q])'
  <2>1. CASE q = r
    BY <1>1, <2>1 DEF ListsOK, CardsOK
  <2>2. CASE q # r
    BY <1>1, <2>2, OthersKeep
  <2> QED BY <2>1, <2>2
<1> QED BY <1>2, <1>3 DEF ReadersOK

LEMMA AskKeeps ==
  ASSUME StateType, DecksInv, NEW r \in Reader, NEW c \in Cap, Ask(r, c)
  PROVE  CachesType' /\ ReadersType' /\ DecksInv'
<1>0. PICK x : x = IF listing[c] = Unset
                     THEN [Idle EXCEPT !.at = "walk", !.cap = c]
                     ELSE [Idle EXCEPT !.at = "card", !.cap = c, !.todo = listing[c].value,
                                       !.deps = listing[c].deps]
  OBVIOUS
<1>1. reader' = [reader EXCEPT ![r] = x] /\ UNCHANGED <<disk, file, listing, graph, events, cutting, silent>>
  BY <1>0 DEF Ask, caches, watch
<1>2. StateOK(x) /\ (ListsOK(x) /\ CardsOK(x))'
  <2>1. CASE listing[c] = Unset
    <3>1. x = [at |-> "walk", cap |-> c, todo |-> {}, got |-> {}, deps |-> {}, listCut |-> {}, graphCut |-> {}]
      BY <1>0, <2>1 DEF Idle
    <3>2. StateOK(x)
      BY <3>1 DEF StateOK, ReaderState
    <3> QED BY <3>1, <3>2 DEF ListsOK, CardsOK
  <2>2. CASE listing[c] # Unset
    <3>1. /\ x.at = "card" /\ x.cap = c /\ x.todo = listing[c].value /\ x.got = {}
          /\ x.deps = listing[c].deps /\ x.graphCut = {}
          /\ x = [at |-> "card", cap |-> c, todo |-> listing[c].value, got |-> {},
                  deps |-> listing[c].deps, listCut |-> {}, graphCut |-> {}]
      BY <1>0, <2>2 DEF Idle
    <3>2. listing[c].value \subseteq Line /\ listing[c].deps \subseteq Thread
      BY <2>2 DEF StateType, CachesType
    <3>3. StateOK(x)
      BY <3>1, <3>2 DEF StateOK, ReaderState, Item
    <3>4. ListingOK(c)
      BY DEF DecksInv, CachesOK
    <3>5. CardsOf({}, {}) = {} /\ \A d : CardsOf(d, {}) = {}
      BY DEF CardsOf
    <3>6. (ListsOK(x) /\ CardsOK(x))'
      BY <1>1, <2>2, <3>1, <3>4, <3>5, SameTree DEF ListsOK, CardsOK, ListingOK
    <3> QED BY <3>3, <3>6
  <2> QED BY <2>1, <2>2
<1> QED BY <1>1, <1>2, ReaderMoves, OthersKeep DEF StateType, CachesType, DecksInv, CachesOK

LEMMA WalkKeeps ==
  ASSUME StateType, DecksInv, NEW r \in Reader, Walk(r)
  PROVE  CachesType' /\ ReadersType' /\ DecksInv'
<1>0. PICK o : o = reader[r]
  OBVIOUS
<1>1. PICK x : x = [o EXCEPT !.at = "list", !.todo = decks(disk)]
  OBVIOUS
<1>2. o \in ReaderState /\ reader \in [Reader -> ReaderState] /\ o.at = "walk"
  BY <1>0 DEF Walk, StateType, ReadersType
<1>3. reader' = [reader EXCEPT ![r] = x] /\ UNCHANGED <<disk, file, listing, graph, events, cutting, silent>>
  BY <1>0, <1>1, <1>2 DEF Walk, caches, watch, ReaderState
<1>4. o.cap \in Cap /\ o.got = {} /\ o.deps = {} /\ o.listCut = o.graphCut
  BY <1>0, <1>2 DEF StateType, ReadersType
<1>5. /\ x.at = "list" /\ x.cap = o.cap /\ x.todo = decks(disk) /\ x.got = {} /\ x.deps = {}
      /\ x.listCut = o.listCut /\ x.graphCut = o.graphCut
      /\ decks(disk) \subseteq Deck /\ x \in ReaderState
  <2>1. decks(disk) \subseteq Deck
    BY DEF decks
  <2> QED BY <1>1, <1>2, <1>4, <2>1 DEF ReaderState, Item
<1>6. StateOK(x)
  BY <1>4, <1>5 DEF StateOK
<1>7. (ListsOK(x) /\ CardsOK(x))'
  <2>1. \A d : Of(d, {}) = {}
    BY DEF Of
  <2> QED BY <1>3, <1>5, <2>1, SameTree DEF ListsOK, CardsOK, TrueLines
<1> QED BY <1>3, <1>6, <1>7, ReaderMoves, OthersKeep DEF StateType, CachesType, DecksInv, CachesOK

\* A deck of the tree, as the jail's files have it.
LEMMA DeckIsListed ==
  ASSUME NEW d \in decks(disk)
  PROVE  d \in Deck /\ disk[<<d, "toml">>] # Absent
BY DEF decks

LEMMA SlideIsNamed ==
  ASSUME NEW c, NEW d \in decks(disk), NEW slide, slide = (disk[<<d, "slide">>] # Absent)
  PROVE  TrueLines(c, d) = IF d \in may[c] THEN {<<d, slide>>} ELSE {}
BY DEF TrueLines

LEMMA ListKeeps ==
  ASSUME StateType, DecksInv, NEW r \in Reader, List(r)
  PROVE  CachesType' /\ ReadersType' /\ DecksInv'
<1>0. PICK o : o = reader[r]
  OBVIOUS
<1>1. PICK c, d : c = o.cap /\ d = Upcoming(r)
  OBVIOUS
<1>2. PICK listed, slide : /\ listed = deck_exists(c, <<d, "toml">>)
                           /\ slide = (deck_exists(c, <<d, "toml">>) /\ TitleSlide(c, d))
  OBVIOUS
<1>3. PICK asked : asked = IF d \notin may[c] THEN {}
                           ELSE {<<d, k>> : k \in {"toml"} \cup (IF listed THEN {"slide"} ELSE {})}
  OBVIOUS
<1>4. PICK x : x = [o EXCEPT !.todo = @ \ {d}, !.got = IF listed THEN @ \cup {<<d, slide>>} ELSE @,
                             !.deps = @ \cup asked]
  OBVIOUS
<1>5. /\ o \in ReaderState /\ reader \in [Reader -> ReaderState] /\ o.at = "list" /\ o.todo # {}
      /\ UNCHANGED <<disk, listing, graph, events, cutting, silent>>
  BY <1>0 DEF List, StateType, ReadersType, watch
<1>6. /\ c \in Cap /\ o.todo \subseteq Deck /\ o.got \subseteq Line /\ o.listCut = o.graphCut
      /\ d \in o.todo /\ d \in Deck /\ o.cap = c
  BY <1>0, <1>1, <1>5 DEF StateType, ReadersType, Upcoming
<1>7. /\ reader' = [reader EXCEPT ![r].todo = @ \ {d},
                                  ![r].got = IF listed THEN @ \cup {<<d, slide>>} ELSE @,
                                  ![r].deps = @ \cup asked]
      /\ Caching(c, [a \in {"exists"} \X asked |-> deck_exists(c, a[2])])
  BY <1>0, <1>1, <1>2, <1>3 DEF List
<1>8. reader' = [reader EXCEPT ![r] = x]
  BY <1>0, <1>4, <1>5, <1>7 DEF ReaderState
<1>9. /\ x.at = "list" /\ x.cap = c /\ x.todo = o.todo \ {d} /\ x.deps = o.deps \cup asked
      /\ x.got = IF listed THEN o.got \cup {<<d, slide>>} ELSE o.got
      /\ x.listCut = x.graphCut /\ x.graphCut = o.graphCut
  BY <1>1, <1>4, <1>5, <1>6 DEF ReaderState
<1>10. /\ <<d, "toml">> \in File /\ <<d, "slide">> \in File /\ FilesOK
       /\ asked \subseteq File /\ (\A f \in asked : f[1] \in may[c])
       /\ d \in may[c] => <<d, "toml">> \in asked /\ (listed => <<d, "slide">> \in asked)
  BY <1>3, <1>6 DEF File, Kind, DecksInv, CachesOK
<1>11. /\ listed \in BOOLEAN /\ slide \in BOOLEAN /\ (listed => d \in may[c])
       /\ d \in may[c] /\ <<d, "toml">> \notin Open => (listed <=> disk[<<d, "toml">>] # Absent)
       /\ listed /\ <<d, "slide">> \notin Open => slide = (disk[<<d, "slide">>] # Absent)
  BY <1>2, <1>6, <1>10, ExistsRight DEF TitleSlide
<1>12. FilesOK' /\ file' \in [Cap -> [Answer -> Content \cup BOOLEAN \cup {Unset}]]
  <2>1. PICK values : values = [a \in {"exists"} \X asked |-> deck_exists(c, a[2])]
    OBVIOUS
  <2>2. DOMAIN values \subseteq Answer
    BY <1>10, <2>1 DEF Answer
  <2>3. \A f \in File : <<"source", f>> \notin DOMAIN values
    BY <2>1
  <2>4. ASSUME NEW f \in File, <<"exists", f>> \in DOMAIN values
        PROVE  /\ values[<<"exists", f>>] \in BOOLEAN
               /\ values[<<"exists", f>>] <=> deck_exists(c, f)
               /\ f[1] \in may[c]
    <3>1. f \in asked /\ values[<<"exists", f>>] = deck_exists(c, f)
      BY <2>1, <2>4
    <3>2. deck_exists(c, f) \in BOOLEAN
      BY <1>6, <1>10, ExistsRight
    <3> QED BY <1>10, <3>1, <3>2
  <2>5. Caching(c, values)
    BY <1>7, <2>1
  <2> QED BY <1>5, <1>6, <2>2, <2>3, <2>4, <2>5, CachingKeeps
<1>13. StateOK(x)
  <2>1. x.got \subseteq Line
    BY <1>6, <1>9, <1>11 DEF Line
  <2>2. x.todo \subseteq Deck /\ x.deps \subseteq Thread
    BY <1>5, <1>6, <1>9, <1>10 DEF ReaderState, Thread
  <2>3. x \in ReaderState
    <3>1. x = [at |-> x.at, cap |-> x.cap, todo |-> x.todo, got |-> x.got, deps |-> x.deps,
               listCut |-> x.listCut, graphCut |-> x.graphCut]
      BY <1>4, <1>5 DEF ReaderState
    <3>2. x.graphCut \subseteq Thread
      BY <1>5, <1>9 DEF ReaderState
    <3> QED BY <1>6, <1>9, <2>1, <2>2, <3>1, <3>2 DEF ReaderState, Item
  <2> QED BY <1>6, <1>9, <2>1, <2>2, <2>3 DEF StateOK
<1>14. (ListsOK(x) /\ CardsOK(x))'
  <2>1. ListsOK(o)
    BY <1>0 DEF DecksInv, ReadersOK
  <2>2. \A line \in x.got : line[1] \in may[c]
    BY <1>5, <1>6, <1>9, <1>11, <2>1 DEF ListsOK
  <2>3. \A e \in Deck : e # d => Of(e, x.got) = Of(e, o.got)
    BY <1>9 DEF Of
  <2>4. ASSUME NEW e \in Deck
        PROVE  \/ DECKS_IRI \in Open \cup x.graphCut \/ Doubt(e, x.deps, x.graphCut)
               \/ e \in x.todo /\ e \in decks(disk) /\ Of(e, x.got) = {}
               \/ e \notin x.todo /\ Of(e, x.got) = TrueLines(c, e)
    <3>1. CASE DECKS_IRI \in Open \cup o.graphCut
      BY <1>9, <3>1
    <3>2. CASE Doubt(e, o.deps, o.graphCut)
      BY <1>9, <3>2 DEF Doubt
    <3>3. CASE e # d /\ e \in o.todo /\ e \in decks(disk) /\ Of(e, o.got) = {}
      BY <1>9, <2>3, <3>3
    <3>4. CASE e \notin o.todo /\ Of(e, o.got) = TrueLines(c, e)
      BY <1>6, <1>9, <2>3, <3>4
    <3>5. CASE e = d /\ d \in decks(disk) /\ Of(d, o.got) = {}
      <4>1. d \notin x.todo /\ Of(d, x.got) = IF listed THEN {<<d, slide>>} ELSE {}
        BY <1>9, <3>5 DEF Of
      <4>2. CASE d \notin may[c]
        BY <1>11, <3>5, <4>1, <4>2 DEF TrueLines
      <4>3. CASE d \in may[c] /\ <<d, "toml">> \in Open
        BY <1>9, <1>10, <3>5, <4>3 DEF Doubt, Kind
      <4>4. CASE d \in may[c] /\ <<d, "toml">> \notin Open
        <5>1. listed
          BY <1>11, <3>5, <4>4, DeckIsListed
        <5>2. CASE <<d, "slide">> \in Open
          BY <1>9, <1>10, <3>5, <4>4, <5>1, <5>2 DEF Doubt, Kind
        <5>3. CASE <<d, "slide">> \notin Open
          <6>1. slide = (disk[<<d, "slide">>] # Absent)
            BY <1>11, <5>1, <5>3
          <6>2. TrueLines(c, d) = {<<d, slide>>}
            BY <3>5, <4>4, <6>1, SlideIsNamed
          <6> QED BY <3>5, <4>1, <5>1, <6>2
        <5> QED BY <5>2, <5>3
      <4> QED BY <4>2, <4>3, <4>4
    <3> QED BY <1>5, <1>6, <2>1, <3>1, <3>2, <3>3, <3>4, <3>5 DEF ListsOK
  <2> QED BY <1>5, <1>9, <2>2, <2>4, SameTree DEF ListsOK, CardsOK
<1> QED BY <1>5, <1>8, <1>12, <1>13, <1>14, ReaderMoves, OthersKeep
        DEF StateType, CachesType, DecksInv, CachesOK

\* What is stored was not cut since its computation began: its doubts are open threads.
LEMMA StoredDoubts ==
  ASSUME NEW value, NEW deps, NEW cuts, Stored(value, deps, cuts) # Unset
  PROVE  /\ Stored(value, deps, cuts) = [value |-> value, deps |-> deps]
         /\ \A d : Doubt(d, deps, cuts) => Doubt(d, deps, {})
         /\ DECKS_IRI \in deps /\ DECKS_IRI \in Open \cup cuts => DECKS_IRI \in Open
BY DEF Stored, Doubt

LEMMA ListedKeeps ==
  ASSUME StateType, DecksInv, NEW r \in Reader, Listed(r)
  PROVE  CachesType' /\ ReadersType' /\ DecksInv'
<1>0. PICK o : o = reader[r]
  OBVIOUS
<1>1. PICK c, deps : c = o.cap /\ deps = o.deps \cup {DECKS_IRI}
  OBVIOUS
<1>2. PICK x : x = [o EXCEPT !.at = "card", !.todo = o.got, !.got = {}, !.deps = deps, !.listCut = {}]
  OBVIOUS
<1>3. /\ o \in ReaderState /\ reader \in [Reader -> ReaderState] /\ o.at = "list" /\ o.todo = {}
      /\ UNCHANGED <<disk, file, graph, events, cutting, silent>>
      /\ listing' = [listing EXCEPT ![c] = Stored(o.got, deps, o.listCut)]
  BY <1>0, <1>1 DEF Listed, StateType, ReadersType, watch
<1>4. c \in Cap /\ o.got \subseteq Line /\ o.listCut = o.graphCut /\ deps \subseteq Thread
  BY <1>0, <1>1, <1>3 DEF StateType, ReadersType, ReaderState, Thread
<1>5. reader' = [reader EXCEPT ![r] = x]
  BY <1>0, <1>1, <1>2, <1>3 DEF Listed, ReaderState
<1>6. /\ x.at = "card" /\ x.cap = c /\ x.todo = o.got /\ x.got = {} /\ x.deps = deps
      /\ x.listCut = {} /\ x.graphCut = o.graphCut
      /\ x = [at |-> x.at, cap |-> x.cap, todo |-> x.todo, got |-> x.got, deps |-> x.deps,
              listCut |-> x.listCut, graphCut |-> x.graphCut]
  BY <1>1, <1>2, <1>3 DEF ReaderState
<1>7. StateOK(x)
  <2>1. x.graphCut \subseteq Thread
    BY <1>3, <1>6 DEF ReaderState
  <2> QED BY <1>4, <1>6, <2>1 DEF StateOK, ReaderState, Item
<1>8. /\ \A line \in o.got : line[1] \in may[c]
      /\ \A d \in Deck : \/ DECKS_IRI \in Open \cup o.graphCut
                         \/ Doubt(d, deps, o.graphCut)
                         \/ Of(d, o.got) = TrueLines(c, d)
  <2>1. ListsOK(o)
    BY <1>0 DEF DecksInv, ReadersOK
  <2>2. \A d : Doubt(d, o.deps, o.graphCut) => Doubt(d, deps, o.graphCut)
    BY <1>1 DEF Doubt
  <2> QED BY <1>1, <1>3, <2>1, <2>2 DEF ListsOK
<1>9. (ListsOK(x) /\ CardsOK(x))'
  <2>1. \A d : CardsOf(d, {}) = {}
    BY DEF CardsOf
  <2>2. /\ DECKS_IRI \in x.deps
        /\ \A d \in Deck : \/ DECKS_IRI \in Open \cup x.graphCut \/ Doubt(d, x.deps, x.graphCut)
                           \/ Of(d, x.todo) = TrueLines(c, d) /\ CardsOf(d, x.got) = {}
    BY <1>1, <1>6, <1>8, <2>1
  <2>3. CardsOK(x)'
    BY <1>3, <1>6, <1>8, <2>2, SameTree DEF CardsOK
  <2>4. ListsOK(x)'
    BY <1>6 DEF ListsOK
  <2> QED BY <2>3, <2>4
<1>10. /\ listing' \in [Cap -> {Unset} \cup [value : SUBSET Line, deps : SUBSET Thread]]
       /\ listing'[c] = Stored(o.got, deps, o.listCut)
       /\ \A b \in Cap \ {c} : listing'[b] = listing[b]
  <2>1. Stored(o.got, deps, o.listCut) \in {Unset} \cup [value : SUBSET Line, deps : SUBSET Thread]
    BY <1>4 DEF Stored
  <2>2. listing \in [Cap -> {Unset} \cup [value : SUBSET Line, deps : SUBSET Thread]]
    BY DEF StateType, CachesType
  <2> QED BY <1>3, <1>4, <2>1, <2>2
<1>11. ListingOK(c)'
  <2> SUFFICES ASSUME Stored(o.got, deps, o.listCut) # Unset PROVE ListingOK(c)'
    BY <1>10 DEF ListingOK
  <2>1. listing'[c].value = o.got /\ listing'[c].deps = deps
    BY <1>10, StoredDoubts
  <2>2. \A d \in Deck : \/ DECKS_IRI \in Open \/ Doubt(d, deps, {}) \/ Of(d, o.got) = TrueLines(c, d)
    <3>1. Stored(o.got, deps, o.graphCut) # Unset /\ DECKS_IRI \in deps
      BY <1>1, <1>4
    <3>2. /\ \A d : Doubt(d, deps, o.graphCut) => Doubt(d, deps, {})
          /\ DECKS_IRI \in Open \cup o.graphCut => DECKS_IRI \in Open
      BY <3>1, StoredDoubts
    <3> QED BY <1>8, <3>2
  <2> QED BY <1>1, <1>3, <1>8, <2>1, <2>2, SameTree DEF ListingOK
<1>12. \A b \in Cap : ListingOK(b)'
  BY <1>3, <1>10, <1>11, OthersKeep
<1> QED BY <1>3, <1>5, <1>7, <1>9, <1>10, <1>12, ReaderMoves, OthersKeep
        DEF StateType, CachesType, DecksInv, CachesOK

\* A card is its deck's.
LEMMA CardOfItsDeck ==
  ASSUME NEW d, NEW index, NEW slide, NEW built
  PROVE  /\ \A card \in deck_turtle(d, index, slide, built) : card.deck = d
         /\ d \in Deck /\ index \in Content /\ slide \in Content /\ built \in BOOLEAN
              => deck_turtle(d, index, slide, built) \subseteq AnyCard
<1>1. \A card \in deck_turtle(d, index, slide, built) : card.deck = d
  BY DEF deck_turtle
<1>2. ASSUME d \in Deck, index \in Content, slide \in Content, built \in BOOLEAN
      PROVE  deck_turtle(d, index, slide, built) \subseteq AnyCard
  BY <1>2 DEF AnyCard
<1> QED BY <1>1, <1>2

\* Cards of the same metadata and link are the same.
LEMMA SameCard ==
  ASSUME NEW d, NEW index, NEW slide, NEW built, NEW index2, NEW slide2, NEW built2,
         deck_metadata(index, slide) = deck_metadata(index2, slide2),
         \/ deck_metadata(index, slide) = {}
         \/ deck_link(built) = deck_link(built2)
  PROVE  deck_turtle(d, index, slide, built) = deck_turtle(d, index2, slide2, built2)
<1>1. CASE deck_metadata(index, slide) = {}
  BY <1>1 DEF deck_turtle
<1>2. CASE deck_link(built) = deck_link(built2)
  BY <1>2 DEF deck_turtle
<1> QED BY <1>1, <1>2

\* A card of d made from what the jail answers c, hanging from deps.
Made(c, d, index, scrape, slide, built, deps) ==
  /\ index = Sourced(c, <<d, "index">>)
  /\ scrape = (jsonld_metadata(index) = {} /\ disk[<<d, "slide">>] # Absent)
  /\ slide = IF scrape THEN Sourced(c, <<d, "slide">>) ELSE Absent
  /\ built = (~ base_url /\ deck_exists(c, <<d, "index">>))
  /\ index # Absent => <<d, "index">> \in deps
  /\ scrape /\ slide # Absent => <<d, "slide">> \in deps
  /\ base_url \/ deck_metadata(index, slide) = {} \/ <<d, "index">> \in deps

\* It is right, or one of the answers is behind the tree and the card hangs from its file.
LEMMA CardRight ==
  ASSUME StateType, FilesOK, NEW c \in Cap, NEW d \in Deck, d \in may[c],
         NEW index, NEW scrape, NEW slide, NEW built, NEW deps,
         Made(c, d, index, scrape, slide, built, deps),
         \A k \in Kind : <<d, k>> \notin deps \cap Open
  PROVE  deck_turtle(d, index, slide, built)
           = deck_turtle(d, disk[<<d, "index">>], disk[<<d, "slide">>], disk[<<d, "index">>] # Absent)
<1> USE DEF Made
<1>1. <<d, "index">> \in File /\ <<d, "slide">> \in File /\ "index" \in Kind /\ "slide" \in Kind
  BY DEF File, Kind
<1>2. index = disk[<<d, "index">>]
  <2>1. CASE index = Absent
    BY <1>1, <2>1, SourcedRight
  <2>2. CASE index # Absent
    BY <1>1, <2>2, SourcedRight
  <2> QED BY <2>1, <2>2
<1>3. deck_metadata(index, slide) = deck_metadata(index, disk[<<d, "slide">>])
  <2>1. CASE jsonld_metadata(index) # {}
    BY <2>1 DEF deck_metadata
  <2>2. CASE jsonld_metadata(index) = {} /\ disk[<<d, "slide">>] = Absent
    BY <2>2
  <2>3. CASE scrape /\ slide = Absent
    BY <1>1, <2>3, SourcedRight
  <2>4. CASE scrape /\ slide # Absent
    <3>1. <<d, "slide">> \notin Open
      BY <1>1, <2>4
    <3> QED BY <1>1, <2>4, <3>1, SourcedRight
  <2> QED BY <2>1, <2>2, <2>3, <2>4
<1>4. CASE deck_metadata(index, slide) = {}
  BY <1>2, <1>3, <1>4, SameCard
<1>5. CASE base_url
  BY <1>2, <1>3, <1>5, SameCard DEF deck_link
<1>6. CASE ~ base_url /\ deck_metadata(index, slide) # {}
  <2>1. <<d, "index">> \notin Open
    BY <1>1, <1>6
  <2>2. built = (disk[<<d, "index">>] # Absent)
    BY <1>1, <1>6, <2>1, ExistsRight
  <2> QED BY <1>2, <1>3, <2>2, SameCard
<1> QED BY <1>4, <1>5, <1>6, DecksAssumption

LEMMA CardKeeps ==
  ASSUME StateType, DecksInv, NEW r \in Reader, Card(r)
  PROVE  CachesType' /\ ReadersType' /\ DecksInv'
<1>0. PICK o : o = reader[r]
  OBVIOUS
<1>1. PICK c, line, d : c = o.cap /\ line = Upcoming(r) /\ d = line[1]
  OBVIOUS
<1>2. PICK index : index = Sourced(c, <<d, "index">>)
  OBVIOUS
<1>3. PICK scrape : scrape = (jsonld_metadata(index) = {} /\ line[2])
  OBVIOUS
<1>4. PICK slide : slide = IF scrape THEN Sourced(c, <<d, "slide">>) ELSE Absent
  OBVIOUS
<1>5. PICK read : read = {f \in {<<d, "index">>} \cup (IF scrape THEN {<<d, "slide">>} ELSE {}) :
                            Sourced(c, f) # Absent}
  OBVIOUS
<1>6. PICK asked : asked = IF base_url \/ deck_metadata(index, slide) = {} \/ d \notin may[c] THEN {}
                           ELSE {<<d, "index">>}
  OBVIOUS
<1>7. PICK built : built = (~ base_url /\ deck_exists(c, <<d, "index">>))
  OBVIOUS
<1>8. PICK cards : cards = deck_turtle(d, index, slide, built)
  OBVIOUS
<1>9. PICK x : x = [o EXCEPT !.todo = @ \ {line}, !.got = @ \cup cards, !.deps = @ \cup read \cup asked]
  OBVIOUS
<1>10. /\ o \in ReaderState /\ reader \in [Reader -> ReaderState] /\ o.at = "card" /\ o.todo # {}
       /\ UNCHANGED <<disk, listing, graph, events, cutting, silent>>
  BY <1>0 DEF Card, StateType, ReadersType, watch
<1>11. /\ c \in Cap /\ o.cap = c /\ o.todo \subseteq Line /\ o.got \subseteq AnyCard
       /\ line \in o.todo
  BY <1>0, <1>1, <1>10 DEF StateType, ReadersType, Upcoming
<1>12. CardsOK(o) /\ FilesOK
  BY <1>0 DEF DecksInv, ReadersOK, CachesOK
<1>13. /\ line = <<d, line[2]>> /\ d \in Deck /\ line[2] \in BOOLEAN /\ d \in may[c]
  BY <1>1, <1>10, <1>11, <1>12 DEF Line, CardsOK
<1>14. /\ reader' = [reader EXCEPT ![r].todo = @ \ {line}, ![r].got = @ \cup cards,
                                   ![r].deps = @ \cup read \cup asked]
       /\ Caching(c, [a \in {"source"} \X read \cup {"exists"} \X asked |->
                        IF a[1] = "source" THEN Sourced(c, a[2]) ELSE built])
  BY <1>0, <1>1, <1>2, <1>3, <1>4, <1>5, <1>6, <1>7, <1>8 DEF Card
<1>15. reader' = [reader EXCEPT ![r] = x]
  BY <1>0, <1>9, <1>10, <1>14 DEF ReaderState
<1>16. /\ x.at = "card" /\ x.cap = c /\ x.todo = o.todo \ {line} /\ x.got = o.got \cup cards
       /\ x.deps = o.deps \cup read \cup asked /\ x.listCut = o.listCut /\ x.graphCut = o.graphCut
       /\ x = [at |-> x.at, cap |-> x.cap, todo |-> x.todo, got |-> x.got, deps |-> x.deps,
               listCut |-> x.listCut, graphCut |-> x.graphCut]
  BY <1>9, <1>10, <1>11 DEF ReaderState
<1>17. /\ <<d, "index">> \in File /\ <<d, "slide">> \in File
       /\ read \subseteq File /\ asked \subseteq File
       /\ asked # {} => asked = {<<d, "index">>} /\ ~ base_url
       /\ \A f \in read \cup asked : f[1] \in may[c]
  <2>1. <<d, "index">> \in File /\ <<d, "slide">> \in File
    BY <1>13 DEF File, Kind
  <2>2. \A f \in read \cup asked : f = <<d, "index">> \/ f = <<d, "slide">>
    BY <1>5, <1>6
  <2>3. asked # {} => asked = {<<d, "index">>} /\ ~ base_url
    BY <1>6
  <2> QED BY <1>13, <2>1, <2>2, <2>3
<1>18. index \in Content /\ slide \in Content /\ built \in BOOLEAN
  <2>1. Sourced(c, <<d, "index">>) \in Content /\ Sourced(c, <<d, "slide">>) \in Content
    BY <1>11, <1>12, <1>17, SourcedRight
  <2>2. deck_exists(c, <<d, "index">>) \in BOOLEAN
    BY <1>11, <1>12, <1>17, ExistsRight
  <2> QED BY <1>2, <1>4, <1>7, <2>1, <2>2 DEF Content
<1>19. cards \subseteq AnyCard /\ \A card \in cards : card.deck = d
  BY <1>8, <1>13, <1>18, CardOfItsDeck
<1>20. FilesOK' /\ file' \in [Cap -> [Answer -> Content \cup BOOLEAN \cup {Unset}]]
  <2>1. PICK values : values = [a \in {"source"} \X read \cup {"exists"} \X asked |->
                                  IF a[1] = "source" THEN Sourced(c, a[2]) ELSE built]
    OBVIOUS
  <2>2. DOMAIN values \subseteq Answer
    BY <1>17, <2>1 DEF Answer
  <2>3. ASSUME NEW f \in File, <<"source", f>> \in DOMAIN values
        PROVE  /\ values[<<"source", f>>] = Sourced(c, f)
               /\ f[1] \in may[c] /\ Sourced(c, f) # Absent
    <3>1. f \in read /\ values[<<"source", f>>] = Sourced(c, f)
      BY <2>1, <2>3
    <3> QED BY <1>5, <1>17, <3>1
  <2>4. ASSUME NEW f \in File, <<"exists", f>> \in DOMAIN values
        PROVE  /\ values[<<"exists", f>>] \in BOOLEAN
               /\ values[<<"exists", f>>] <=> deck_exists(c, f)
               /\ f[1] \in may[c]
    <3>1. f \in asked /\ values[<<"exists", f>>] = built
      BY <2>1, <2>4
    <3>2. f = <<d, "index">> /\ ~ base_url
      BY <1>17, <3>1
    <3> QED BY <1>7, <1>13, <1>18, <3>1, <3>2
  <2>5. Caching(c, values)
    BY <1>14, <2>1
  <2> QED BY <1>10, <1>11, <2>2, <2>3, <2>4, <2>5, CachingKeeps
<1>21. StateOK(x)
  <2>1. x.todo \subseteq Line /\ x.got \subseteq AnyCard
    BY <1>11, <1>16, <1>19
  <2>2. x.deps \subseteq Thread
    BY <1>10, <1>16, <1>17 DEF ReaderState, Thread
  <2>3. x.listCut \subseteq Thread /\ x.graphCut \subseteq Thread
    BY <1>10, <1>16 DEF ReaderState
  <2>4. x \in ReaderState
    BY <1>11, <1>16, <2>1, <2>2, <2>3 DEF ReaderState, Item
  <2> QED BY <1>11, <1>16, <2>1, <2>4 DEF StateOK
<1>22. ASSUME NEW e \in Deck
       PROVE  \/ DECKS_IRI \in Open \cup x.graphCut \/ Doubt(e, x.deps, x.graphCut)
              \/ Of(e, x.todo) = TrueLines(c, e) /\ CardsOf(e, x.got) = {}
              \/ Of(e, x.todo) = {} /\ CardsOf(e, x.got) = True(c, e)
  <2>1. \/ DECKS_IRI \in Open \cup o.graphCut \/ Doubt(e, o.deps, o.graphCut)
        \/ Of(e, o.todo) = TrueLines(c, e) /\ CardsOf(e, o.got) = {}
        \/ Of(e, o.todo) = {} /\ CardsOf(e, o.got) = True(c, e)
    BY <1>10, <1>11, <1>12 DEF CardsOK
  <2>2. CASE DECKS_IRI \in Open \cup o.graphCut
    BY <1>16, <2>2
  <2>3. CASE Doubt(e, o.deps, o.graphCut)
    BY <1>16, <2>3 DEF Doubt
  <2>4. CASE e # d
    <3>1. Of(e, x.todo) = Of(e, o.todo)
      BY <1>1, <1>16, <2>4 DEF Of
    <3>2. CardsOf(e, x.got) = CardsOf(e, o.got)
      BY <1>16, <1>19, <2>4 DEF CardsOf
    <3> QED BY <2>1, <2>2, <2>3, <3>1, <3>2
  <2>5. CASE e = d /\ Of(d, o.todo) = TrueLines(c, d) /\ CardsOf(d, o.got) = {}
    <3>1. line \in Of(d, o.todo)
      BY <1>1, <1>11 DEF Of
    <3>2. /\ d \in decks(disk) /\ Of(d, o.todo) = {<<d, disk[<<d, "slide">>] # Absent>>}
      BY <2>5, <3>1 DEF TrueLines
    <3>3. line[2] = (disk[<<d, "slide">>] # Absent)
      BY <1>13, <3>1, <3>2
    <3>4. Of(d, x.todo) = {}
      <4>1. Of(d, x.todo) = Of(d, o.todo) \ {line}
        BY <1>16 DEF Of
      <4>2. Of(d, o.todo) = {line}
        BY <3>1, <3>2
      <4> QED BY <4>1, <4>2
    <3>5. CardsOf(d, x.got) = cards
      <4>1. CardsOf(d, x.got) = CardsOf(d, o.got) \cup cards
        BY <1>16, <1>19 DEF CardsOf
      <4> QED BY <2>5, <4>1
    <3>6. CASE \E k \in Kind : <<d, k>> \in (read \cup asked) \cap Open
      BY <1>16, <2>5, <3>6 DEF Doubt
    <3>7. CASE \A k \in Kind : <<d, k>> \notin (read \cup asked) \cap Open
      <4>1. scrape = (jsonld_metadata(index) = {} /\ disk[<<d, "slide">>] # Absent)
        BY <1>3, <3>3
      <4>2. PICK deps : deps = read \cup asked
        OBVIOUS
      <4>3. /\ index # Absent => <<d, "index">> \in deps
            /\ scrape /\ slide # Absent => <<d, "slide">> \in deps
            /\ base_url \/ deck_metadata(index, slide) = {} \/ <<d, "index">> \in deps
            /\ \A k \in Kind : <<d, k>> \notin deps \cap Open
        BY <1>2, <1>4, <1>5, <1>6, <1>13, <3>7, <4>2
      <4>4. Made(c, d, index, scrape, slide, built, deps)
        BY <1>2, <1>4, <1>7, <4>1, <4>3 DEF Made
      <4>5. deck_turtle(d, index, slide, built)
              = deck_turtle(d, disk[<<d, "index">>], disk[<<d, "slide">>], disk[<<d, "index">>] # Absent)
        BY <1>11, <1>12, <1>13, <4>3, <4>4, CardRight
      <4>6. True(c, d) = cards
        BY <1>8, <1>13, <3>2, <4>5 DEF True
      <4> QED BY <2>5, <3>4, <3>5, <4>6
    <3> QED BY <3>6, <3>7
  <2>6. CASE e = d /\ Of(d, o.todo) = {}
    BY <1>1, <1>11, <2>6 DEF Of
  <2> QED BY <2>1, <2>2, <2>3, <2>4, <2>5, <2>6
<1>23. (ListsOK(x) /\ CardsOK(x))'
  <2>1. DECKS_IRI \in x.deps /\ (\A l \in x.todo : l[1] \in may[c])
    BY <1>10, <1>11, <1>12, <1>16 DEF CardsOK
  <2>2. \A card \in x.got : card.deck \in may[c]
    BY <1>10, <1>11, <1>12, <1>13, <1>16, <1>19 DEF CardsOK
  <2>3. CardsOK(x)'
    BY <1>10, <1>16, <1>22, <2>1, <2>2, SameTree DEF CardsOK
  <2>4. ListsOK(x)'
    BY <1>16 DEF ListsOK
  <2> QED BY <2>3, <2>4
<1> QED BY <1>10, <1>15, <1>20, <1>21, <1>23, ReaderMoves, OthersKeep
        DEF StateType, CachesType, DecksInv, CachesOK

LEMMA AnsweredKeeps ==
  ASSUME StateType, DecksInv, NEW r \in Reader, Answered(r)
  PROVE  CachesType' /\ ReadersType' /\ DecksInv'
<1>0. PICK o : o = reader[r]
  OBVIOUS
<1>1. PICK c : c = o.cap
  OBVIOUS
<1>2. /\ o \in ReaderState /\ o.at = "card" /\ o.todo = {}
      /\ UNCHANGED <<disk, file, listing, events, cutting, silent>>
      /\ graph' = [graph EXCEPT ![c] = Stored(o.got, o.deps, o.graphCut)]
      /\ reader' = [reader EXCEPT ![r] = Idle]
  BY <1>0, <1>1 DEF Answered, StateType, ReadersType, watch
<1>3. c \in Cap /\ o.got \subseteq AnyCard /\ o.deps \subseteq Thread
  BY <1>0, <1>1, <1>2 DEF StateType, ReadersType, ReaderState
<1>4. StateOK(Idle) /\ (ListsOK(Idle) /\ CardsOK(Idle))'
  BY DEF StateOK, ReaderState, Idle, ListsOK, CardsOK
<1>5. /\ DECKS_IRI \in o.deps
      /\ \A card \in o.got : card.deck \in may[c]
      /\ \A d \in Deck : \/ DECKS_IRI \in Open \cup o.graphCut
                         \/ Doubt(d, o.deps, o.graphCut)
                         \/ CardsOf(d, o.got) = True(c, d)
  <2>1. CardsOK(o)
    BY <1>0 DEF DecksInv, ReadersOK
  <2>2. \A d \in Deck : TrueLines(c, d) = {} => True(c, d) = {}
    BY DEF TrueLines, True
  <2>3. \A d : Of(d, {}) = {}
    BY DEF Of
  <2> QED BY <1>1, <1>2, <2>1, <2>2, <2>3 DEF CardsOK
<1>6. /\ graph' \in [Cap -> {Unset} \cup [value : SUBSET AnyCard, deps : SUBSET Thread]]
      /\ graph'[c] = Stored(o.got, o.deps, o.graphCut)
      /\ \A b \in Cap \ {c} : graph'[b] = graph[b]
  <2>1. Stored(o.got, o.deps, o.graphCut) \in {Unset} \cup [value : SUBSET AnyCard, deps : SUBSET Thread]
    BY <1>3 DEF Stored
  <2>2. graph \in [Cap -> {Unset} \cup [value : SUBSET AnyCard, deps : SUBSET Thread]]
    BY DEF StateType, CachesType
  <2> QED BY <1>2, <1>3, <2>1, <2>2
<1>7. GraphOK(c)'
  <2> SUFFICES ASSUME Stored(o.got, o.deps, o.graphCut) # Unset PROVE GraphOK(c)'
    BY <1>6 DEF GraphOK
  <2>1. graph'[c].value = o.got /\ graph'[c].deps = o.deps
    BY <1>6, StoredDoubts
  <2>2. \A d \in Deck : \/ DECKS_IRI \in Open \/ Doubt(d, o.deps, {}) \/ CardsOf(d, o.got) = True(c, d)
    BY <1>5, StoredDoubts
  <2> QED BY <1>2, <1>5, <2>1, <2>2, SameTree DEF GraphOK
<1>8. \A b \in Cap : GraphOK(b)'
  BY <1>2, <1>6, <1>7, OthersKeep
<1> QED BY <1>2, <1>4, <1>6, <1>8, ReaderMoves, OthersKeep
        DEF StateType, CachesType, DecksInv, CachesOK

-------------------------------------------------------------------------------
(* The author's steps, and the watch's.                                    *)

LEMMA HeldIsContent ==
  ASSUME NEW k \in Kind
  PROVE  Held(k) \subseteq Content
BY DEF Held, Content, Kind

\* A change that names its files, or leaves them silent.
LEMMA ChangeKeeps ==
  ASSUME StateType, DecksInv, Change, NEW files \in SUBSET File,
         files = {} \/ \E f \in File : files = {f},
         Notify(files), silent \subseteq silent' \cup files \cup {DECKS_IRI}, silent' \subseteq Thread,
         disk' \in [File -> Content], \A f \in File : disk'[f] \in Held(f[2]),
         \A f \in File : disk'[f] # disk[f] => f \in files \cup silent' \cup {DECKS_IRI}
  PROVE  StateType' /\ DecksInv'
<1>1. /\ Open \cup files \cup {DECKS_IRI} \subseteq Open'
      /\ events' \in Seq(Seq(Thread)) /\ Len(events') = Len(events) + 1
  BY NotifyOpens DEF StateType
<1>2. UNCHANGED <<file, listing, graph, reader>> /\ cutting' = cutting
  BY DEF Notify, caches
<1>3. silent' \subseteq Open'
  BY DEF Open
<1>4. DecksInv'
  BY <1>1, <1>2, <1>3, TreeSteps
<1>5. TreeType'
  BY <1>1, <1>2, DecksAssumption DEF StateType, TreeType, Change
<1>6. CachesType' /\ ReadersType'
  BY <1>2 DEF StateType, CachesType, ReadersType
<1> QED BY <1>4, <1>5, <1>6 DEF StateType

LEMMA EditKeeps ==
  ASSUME StateType, DecksInv, NEW f \in File, NEW text \in Held(f[2]), Edit(f, text)
  PROVE  StateType' /\ DecksInv'
<1>1. /\ Change /\ disk' = [disk EXCEPT ![f] = text] /\ Notify({f})
      /\ silent' = silent \ {f, DECKS_IRI}
  BY DEF Edit
<1>2. f[2] \in Kind /\ disk \in [File -> Content] /\ (\A g \in File : disk[g] \in Held(g[2]))
      /\ silent \subseteq Thread
  BY DEF File, StateType, TreeType
<1>3. text \in Content
  BY <1>2, HeldIsContent
<1>4. /\ disk' \in [File -> Content] /\ (\A g \in File : disk'[g] \in Held(g[2]))
      /\ \A g \in File : disk'[g] # disk[g] => g \in {f}
  BY <1>1, <1>2, <1>3
<1> QED BY <1>1, <1>2, <1>4, ChangeKeeps

LEMMA MoveKeeps ==
  ASSUME StateType, DecksInv, NEW d \in Deck, NEW tree \in Trees, Move(d, tree)
  PROVE  StateType' /\ DecksInv'
<1>1. /\ Change /\ disk' = [f \in File |-> IF f[1] = d THEN tree[f] ELSE disk[f]] /\ Notify({})
      /\ silent' = (silent \cup {f \in File : f[1] = d}) \ {DECKS_IRI}
  BY DEF Move
<1>2. disk \in [File -> Content] /\ (\A g \in File : disk[g] \in Held(g[2])) /\ silent \subseteq Thread
  BY DEF StateType, TreeType
<1>3. ASSUME NEW g \in File PROVE tree[g] \in Held(g[2]) /\ tree[g] \in Content
  <2>1. g[2] \in Kind /\ tree[g] \in Held(g[2])
    BY TreesAssumption DEF File
  <2> QED BY <2>1, HeldIsContent
<1>4. /\ disk' \in [File -> Content] /\ (\A g \in File : disk'[g] \in Held(g[2]))
      /\ \A g \in File : disk'[g] # disk[g] => g[1] = d
  BY <1>1, <1>2, <1>3
<1>5. /\ \A g \in File : disk'[g] # disk[g] => g \in silent' \cup {DECKS_IRI}
      /\ silent' \subseteq Thread /\ silent \subseteq silent' \cup {DECKS_IRI}
  BY <1>1, <1>2, <1>4 DEF Thread
<1> QED BY <1>1, <1>4, <1>5, ChangeKeeps

LEMMA OverflowKeeps ==
  ASSUME StateType, DecksInv, Overflow
  PROVE  StateType' /\ DecksInv'
<1>1. UNCHANGED <<disk, file, listing, graph, reader, cutting, changes>> /\ events' = <<>>
  BY DEF Overflow, caches
<1>2. Open \subseteq Open' /\ silent' \in SUBSET Thread
  BY OverflowOpens DEF StateType
<1>3. DecksInv'
  BY <1>1, <1>2, TreeSteps
<1>4. TreeType'
  BY <1>1, <1>2, DecksAssumption DEF StateType, TreeType
<1>5. CachesType' /\ ReadersType'
  BY <1>1 DEF StateType, CachesType, ReadersType
<1> QED BY <1>3, <1>4, <1>5 DEF StateType

LEMMA TakeKeeps ==
  ASSUME StateType, DecksInv, Take
  PROVE  StateType' /\ DecksInv'
<1>1. UNCHANGED <<disk, file, listing, graph, reader, changes, silent>>
  BY DEF Take, caches
<1>2. /\ Open \subseteq Open'
      /\ events' \in Seq(Seq(Thread)) /\ Len(events') <= Len(events) /\ cutting' \in Seq(Thread)
  BY TakeOpens DEF StateType
<1>3. DecksInv'
  BY <1>1, <1>2, TreeSteps
<1>4. TreeType'
  BY <1>1, <1>2, DecksAssumption DEF StateType, TreeType
<1>5. CachesType' /\ ReadersType'
  BY <1>1 DEF StateType, CachesType, ReadersType
<1> QED BY <1>3, <1>4, <1>5 DEF StateType

LEMMA ApplyKeeps ==
  ASSUME StateType, DecksInv, Apply
  PROVE  StateType' /\ DecksInv'
<1>1. PICK t : t = Head(cutting)
  OBVIOUS
<1>2. cut(t) /\ UNCHANGED <<disk, events, changes, silent>>
  BY <1>1 DEF Apply
<1>3. t \in Thread /\ cutting' \in Seq(Thread) /\ Open \subseteq Open' \cup {t}
  BY <1>1, ApplyOpens DEF StateType
<1>4. CachesType' /\ ReadersType'
  BY <1>2, <1>3, CutTypes DEF StateType
<1>5. DecksInv'
  BY <1>2, <1>3, CutKeeps DEF StateType
<1>6. TreeType'
  BY <1>2, <1>3 DEF StateType, TreeType
<1> QED BY <1>4, <1>5, <1>6 DEF StateType

-------------------------------------------------------------------------------
(* The invariant holds.                                                    *)

LEMMA InitHolds ==
  ASSUME Init
  PROVE  StateType /\ DecksInv
<1>1. disk \in [File -> Content] /\ \A f \in File : disk[f] \in Held(f[2])
  BY TreesAssumption DEF Init, Content
<1>2. TreeType
  BY <1>1, DecksAssumption DEF Init, TreeType
<1>3. CachesType
  BY DEF Init, CachesType
<1>4. ReadersType
  BY DEF Init, ReadersType, ReaderState, Idle
<1>5. ASSUME NEW c \in Cap PROVE ListingOK(c) /\ GraphOK(c)
  BY DEF Init, ListingOK, GraphOK
<1>6. FilesOK
  <2> SUFFICES ASSUME NEW c \in Cap, NEW f \in File PROVE SourceOK(c, f) /\ ExistsOK(c, f)
    BY DEF FilesOK
  <2>1. <<"source", f>> \in Answer /\ <<"exists", f>> \in Answer
    BY DEF Answer
  <2> QED BY <2>1 DEF Init, SourceOK, ExistsOK
<1>7. ASSUME NEW r \in Reader PROVE ListsOK(reader[r]) /\ CardsOK(reader[r])
  BY DEF Init, ListsOK, CardsOK, Idle
<1> QED BY <1>2, <1>3, <1>4, <1>5, <1>6, <1>7 DEF StateType, DecksInv, CachesOK, ReadersOK

LEMMA StepKeeps ==
  ASSUME StateType, DecksInv, [Next]_vars
  PROVE  StateType' /\ DecksInv'
<1>1. ASSUME UNCHANGED <<disk, watch, changes, silent>> PROVE TreeType'
  BY <1>1 DEF StateType, TreeType, watch
<1>2. ASSUME NEW r \in Reader, NEW c \in Cap, Ask(r, c) PROVE StateType' /\ DecksInv'
  BY <1>1, <1>2, AskKeeps DEF StateType, Ask
<1>3. ASSUME NEW r \in Reader, Walk(r) PROVE StateType' /\ DecksInv'
  BY <1>1, <1>3, WalkKeeps DEF StateType, Walk
<1>4. ASSUME NEW r \in Reader, List(r) PROVE StateType' /\ DecksInv'
  <2>1. TreeType'
    BY <1>1, <1>4 DEF List
  <2> QED BY <1>4, <2>1, ListKeeps DEF StateType
<1>5. ASSUME NEW r \in Reader, Listed(r) PROVE StateType' /\ DecksInv'
  BY <1>1, <1>5, ListedKeeps DEF StateType, Listed
<1>6. ASSUME NEW r \in Reader, Card(r) PROVE StateType' /\ DecksInv'
  <2>1. TreeType'
    BY <1>1, <1>6 DEF Card
  <2> QED BY <1>6, <2>1, CardKeeps DEF StateType
<1>7. ASSUME NEW r \in Reader, Answered(r) PROVE StateType' /\ DecksInv'
  BY <1>1, <1>7, AnsweredKeeps DEF StateType, Answered
<1>8. CASE UNCHANGED vars
  <2>1. UNCHANGED <<disk, file, listing, graph, events, cutting, reader, changes, silent>>
    BY <1>8 DEF vars, caches, watch
  <2>2. StateType'
    BY <2>1 DEF StateType, CachesType, ReadersType, TreeType
  <2>3. DecksInv'
    BY <2>1, OthersKeep DEF DecksInv, CachesOK, ReadersOK
  <2> QED BY <2>2, <2>3
<1> QED BY <1>2, <1>3, <1>4, <1>5, <1>6, <1>7, <1>8,
           TakeKeeps, ApplyKeeps, EditKeeps, MoveKeeps, OverflowKeeps DEF Next, Reading

LEMMA Invariant == Spec => [](StateType /\ DecksInv)
<1>1. Init => StateType /\ DecksInv
  BY InitHolds
<1>2. StateType /\ DecksInv /\ [Next]_vars => (StateType /\ DecksInv)'
  BY StepKeeps
<1> QED BY <1>1, <1>2, PTL DEF Spec

\* Every variable holds what its comment says, for any decks, capabilities, readers and
\* number of changes: the watch never has more notifications than there were changes,
\* and what is cached or being computed hangs from threads of the room.
THEOREM TypeCorrect == Spec => []TypeOK
<1>1. StateType => TypeOK
  <2> SUFFICES ASSUME StateType PROVE TypeOK
    OBVIOUS
  <2> USE DEF StateType
  <2>1. DOMAIN disk = File /\ \A f \in File : disk[f] \in Held(f[2])
    BY DEF TreeType
  <2>2. /\ DOMAIN file = Cap /\ \A c \in Cap : DOMAIN file[c] = Answer
        /\ DOMAIN listing = Cap /\ DOMAIN graph = Cap
        /\ \A c \in Cap : listing[c] # Unset => listing[c].deps \subseteq Thread
        /\ \A c \in Cap : graph[c] # Unset => graph[c].deps \subseteq Thread
    BY DEF CachesType
  <2>3. /\ Len(events) <= MaxChanges /\ (\A i \in DOMAIN events : events[i] \in Seq(Thread))
        /\ cutting \in Seq(Thread) /\ changes \in 0 .. MaxChanges /\ silent \subseteq Thread
    BY DecksAssumption DEF TreeType
  <2>4. ASSUME NEW r \in Reader
        PROVE  /\ reader[r].at \in {"idle", "walk", "list", "card"}
               /\ reader[r].at # "idle" => reader[r].cap \in Cap
               /\ reader[r].deps \cup reader[r].listCut \cup reader[r].graphCut \subseteq Thread
    BY DEF ReadersType, ReaderState
  <2> QED BY <2>1, <2>2, <2>3, <2>4 DEF TypeOK
<1> QED BY <1>1, Invariant, PTL

\* Once the watch has applied its notifications no cached graph is behind the tree, for
\* any decks, capabilities and requests under way, and whatever was moved or lost that
\* does not concern the deck (DeckWatch: the room recomputes on its next read).
THEOREM GraphsAreCurrent == Spec => []CurrentWhenApplied
<1>1. StateType /\ DecksInv => CurrentWhenApplied
  <2> SUFFICES ASSUME DecksInv, Applied, NEW c \in Cap, NEW d \in Deck, graph[c] # Unset, Told(d)
               PROVE  Shown(c, d) = True(c, d)
    BY DEF CurrentWhenApplied
  <2>1. Open = silent
    BY DEF Applied, Open, Range
  <2>2. DECKS_IRI \notin Open /\ \A k : <<d, k>> \notin Open
    BY <2>1 DEF Told
  <2>3. ~ Doubt(d, graph[c].deps, {})
    BY <2>2 DEF Doubt
  <2>4. GraphOK(c)
    BY DEF DecksInv, CachesOK
  <2>5. CardsOf(d, graph[c].value) = True(c, d)
    BY <2>2, <2>3, <2>4 DEF GraphOK
  <2> QED BY <2>5 DEF Shown, CardsOf
<1> QED BY <1>1, Invariant, PTL

\* Neither the listing nor the graph that is cached for a capability names a deck it may
\* not read, whatever was cached when, and for whom.
THEOREM ListsWhatMayBeRead == Spec => []NamesWhatMayBeRead
<1>1. DecksInv => NamesWhatMayBeRead
  BY DEF DecksInv, CachesOK, ListingOK, GraphOK, NamesWhatMayBeRead
<1> QED BY <1>1, Invariant, PTL
===============================================================================
