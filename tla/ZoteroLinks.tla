----------------------------- MODULE ZoteroLinks -----------------------------
(***************************************************************************)
(* The link pass: how cms-zotero-links sweeps the owner's Zotero library   *)
(* through a paged and cached API, while the owner goes on using it, and   *)
(* which item it takes each book of the export for.                        *)
(*                                                                         *)
(*   library   the items, in the order in which they were added; the API   *)
(*             sorts by dateAdded.                                         *)
(*   cached    the pages the kernel's HTTP cache holds, for a day each.    *)
(*   links     the link overlay: the row of each book that has one.        *)
(*                                                                         *)
(* The sweep of the attachments, for the reader URLs, pages alike; here it *)
(* is one step and may miss any of them.  The identities that the overlay  *)
(* gives the tags are in TagOverlay.                                       *)
(***************************************************************************)
EXTENDS Naturals, Sequences, FiniteSets, SequencesExt

CONSTANTS
  Item,        \* the books the owner's library may ever hold
  Book,        \* the books of the export
  Blank,       \* a title, surname, ISBN or attachment that is missing
  norm_title,  \* the comparison key of each title: different titles may have one
  isbn13,      \* what each spelling of an ISBN means, Blank if it is none
  Catalogues,  \* what the items may be: title, surname, ISBNs and attachments
  Exports,     \* what the export may be: the item of each book, and whether its
               \* record is bare of creator and ISBNs
  PAGE,        \* the items of a full page
  MAX_PAGES    \* the pages of the longest sweep

\* A key names one attachment.
Attachments(fs) ==
  /\ \A a \in fs : a.imported \in BOOLEAN /\ a.rank \in Nat /\ a.key \in Nat
  /\ \A a, c \in fs : a.key = c.key => a = c

ASSUME LinkPassAssumption ==
  /\ PAGE \in Nat \ {0} /\ MAX_PAGES \in Nat \ {0}
  /\ IsFiniteSet(Item)
  /\ \A c \in Catalogues :
       /\ DOMAIN c = Item
       /\ \A x \in Item : /\ DOMAIN c[x] = {"title", "surname", "isbns", "files"}
                         /\ Attachments(c[x].files)
  /\ Exports \subseteq [Book -> [item : Item, bare : BOOLEAN]]

Page == 0 .. MAX_PAGES - 1

VARIABLES
  catalogue, export,   \* fixed: what items and books are
  library, cached,
  links, readers,      \* the overlay: the item of each book, and its attachment
  pc,
  page,     \* the page the sweep is at
  out,      \* what it has so far
  \* history
  added,    \* the items there have been: none comes back
  losses,   \* how many items were deleted
  stock,    \* the library when each cached page was fetched
  at        \* how many items had been deleted by then

files   == <<catalogue, export>>
overlay == <<links, readers>>
history == <<added, losses, stock, at>>
vars    == <<files, library, cached, overlay, pc, page, out, history>>

NoPage == <<Blank>>

ItemSeq(s) == DOMAIN s = 1 .. Len(s) /\ \A i \in DOMAIN s : s[i] \in Item

TypeOK ==
  /\ catalogue \in Catalogues /\ export \in Exports
  /\ ItemSeq(library)
  /\ \A k \in Page : cached[k] # NoPage => ItemSeq(cached[k]) /\ Len(cached[k]) <= PAGE
  /\ \A b \in Book : links[b] \subseteq Item /\ Cardinality(links[b]) <= 1
  /\ \A b \in Book : Cardinality(readers[b]) <= Cardinality(links[b])
  /\ pc \in {"idle", "sweep", "match"}
  /\ page \in Page
  /\ ItemSeq(out)
  /\ added \subseteq Item /\ losses \in 0 .. Cardinality(Item)
  /\ stock \in [Page -> SUBSET Item] /\ at \in [Page -> 0 .. Cardinality(Item)]

Init ==
  /\ catalogue \in Catalogues /\ export \in Exports
  /\ library = <<>>
  /\ cached = [k \in Page |-> NoPage]
  /\ links = [b \in Book |-> {}] /\ readers = [b \in Book |-> {}]
  /\ pc = "idle" /\ page = 0 /\ out = <<>>
  /\ added = {} /\ losses = 0
  /\ stock = [k \in Page |-> {}]
  /\ at = [k \in Page |-> 0]

-------------------------------------------------------------------------------
(* The sweep.                                                              *)

Finish == pc' = "idle" /\ page' = 0 /\ out' = <<>>

\* The key is read and the library it opens looked up; what fails there is Fail.
Begin ==
  /\ pc = "idle"
  /\ pc' = "sweep"
  /\ UNCHANGED <<files, library, cached, overlay, page, out, history>>

Smaller(m, n) == IF m < n THEN m ELSE n

\* Mutant: the newest items come first.
Served_newest_first(k) ==
  LET n == Len(library)
      newest == [i \in 1 .. n |-> library[n + 1 - i]]
  IN  SubSeq(newest, k * PAGE + 1, Smaller((k + 1) * PAGE, n))

\* Mutant: each page starts at the last item of the one before.
Served_overlapping(k) == SubSeq(library, k * (PAGE - 1) + 1, Smaller(k * (PAGE - 1) + PAGE, Len(library)))

\* What the API answers for start = k * PAGE.
Served(k) == SubSeq(library, k * PAGE + 1, Smaller((k + 1) * PAGE, Len(library)))

\* get_json: a page that is cached is not asked for.
Fetch ==
  /\ pc = "sweep" /\ cached[page] = NoPage
  /\ cached' = [cached EXCEPT ![page] = Served(page)]
  /\ stock' = [stock EXCEPT ![page] = {library[i] : i \in DOMAIN library}]
  /\ at' = [at EXCEPT ![page] = losses]
  /\ UNCHANGED <<files, library, overlay, pc, page, out, added, losses>>

\* Mutant: a full page may be the last one.
Turn_early ==
  /\ pc = "sweep" /\ cached[page] # NoPage
  /\ out' = out \o cached[page]
  /\ IF Len(cached[page]) <= PAGE
       THEN pc' = "match" /\ UNCHANGED page
       ELSE page + 1 < MAX_PAGES /\ page' = page + 1 /\ UNCHANGED pc
  /\ UNCHANGED <<files, library, cached, overlay, history>>

\* A page shorter than PAGE is the last one.
Turn ==
  /\ pc = "sweep" /\ cached[page] # NoPage
  /\ out' = out \o cached[page]
  /\ IF Len(cached[page]) < PAGE
       THEN pc' = "match" /\ UNCHANGED page
       ELSE page + 1 < MAX_PAGES /\ page' = page + 1 /\ UNCHANGED pc
  /\ UNCHANGED <<files, library, cached, overlay, history>>

\* A request failed, or there are more than MAX_PAGES pages: nothing is written.
Fail ==
  /\ pc = "sweep"
  /\ Finish
  /\ UNCHANGED <<files, library, cached, overlay, history>>

-------------------------------------------------------------------------------
(* The match.                                                              *)

\* The ISBNs of a raw field, in one form each and none of them twice.
isbn_keys(field) ==
  LET known == SelectSeq([j \in DOMAIN field |-> isbn13[field[j]]], LAMBDA i : i # Blank)
  IN  FoldLeft(LAMBDA keys, i : IF Contains(keys, i) THEN keys ELSE Append(keys, i), <<>>, known)

\* The books of the sweep; an item without a title is not one.
api == {n \in DOMAIN out : catalogue[out[n]].title # Blank}

Of(n) ==
  LET data == catalogue[out[n]]
  IN  [title_key |-> norm_title[data.title], surname |-> data.surname, isbns |-> isbn_keys(data.isbns)]

by_isbn(i)    == {n \in api : Contains(Of(n).isbns, i)}
by_pair(t, s) == {n \in api : Of(n).title_key = t /\ Of(n).surname = s}
by_title(t)   == {n \in api : Of(n).title_key = t}

\* What the export's record of a book says.
Record(b)  == catalogue[export[b].item]
Surname(b) == IF export[b].bare THEN Blank ELSE Record(b).surname
Isbns(b)   == IF export[b].bare THEN <<>> ELSE isbn_keys(Record(b).isbns)

\* list_graph_books: those with a title.
GraphBooks == {b \in Book : Record(b).title # Blank}

Title(b) == norm_title[Record(b).title]

graph_titles(t) == {b \in GraphBooks : Title(b) = t}

\* Mutant: of several, all.
Sole_all(ns) == ns

\* Those of ns if they are one, so that the identity is certain.
Sole(ns) == IF Cardinality(ns) = 1 THEN ns ELSE {}

\* The first of its ISBNs that is one item's alone.
HitByIsbn(b) ==
  LET sole == {j \in 1 .. Len(Isbns(b)) : Sole(by_isbn(Isbns(b)[j])) # {}}
  IN  UNION {by_isbn(Isbns(b)[j]) : j \in {x \in sole : \A y \in sole : x <= y}}

HitByPair(b) == IF Surname(b) = Blank THEN {} ELSE Sole(by_pair(Title(b), Surname(b)))

\* Mutant: any item of that title will do.
HitByTitle_any(b) ==
  IF Cardinality(graph_titles(Title(b))) = 1
    THEN {n \in by_title(Title(b)) : \A m \in by_title(Title(b)) : n <= m} ELSE {}

HitByTitle(b) ==
  IF Cardinality(graph_titles(Title(b))) = 1 THEN Sole(by_title(Title(b))) ELSE {}

match(b) ==
  CASE b \notin GraphBooks -> {}
    [] b \in GraphBooks /\ HitByIsbn(b) # {} -> HitByIsbn(b)
    [] b \in GraphBooks /\ HitByIsbn(b) = {} /\ HitByPair(b) # {} -> HitByPair(b)
    [] OTHER -> HitByTitle(b)

\* A file in Zotero's storage, an EPUB before a PDF and of several the lowest key.
readable(attachments) ==
  LET Readable == {a \in attachments : a.imported /\ a.rank < 2}
      Before(a, c) == a.rank < c.rank \/ (a.rank = c.rank /\ a.key <= c.key)
  IN  {a \in Readable : \A c \in Readable : Before(a, c)}

\* match_books, the attachments, and write_overlay, whose failure is ignored.
Match ==
  /\ pc = "match"
  /\ \/ LET matches == [b \in Book |-> {out[n] : n \in match(b)}]
        IN  /\ links' = matches
            /\ \E missed \in SUBSET UNION {catalogue[x].files : x \in Item} :
                 readers' = [b \in Book |->
                               UNION {readable(catalogue[x].files \ missed) : x \in matches[b]}]
     \/ UNCHANGED overlay
  /\ Finish
  /\ UNCHANGED <<files, library, cached, history>>

-------------------------------------------------------------------------------
(* The surroundings.                                                       *)

Add(x) ==
  /\ x \notin added
  /\ library' = Append(library, x)
  /\ added' = added \cup {x}
  /\ UNCHANGED <<files, cached, overlay, pc, page, out, losses, stock, at>>

Delete(i) ==
  /\ i \in DOMAIN library
  /\ library' = RemoveAt(library, i)
  /\ losses' = losses + 1
  /\ UNCHANGED <<files, cached, overlay, pc, page, out, added, stock, at>>

\* A cached page's day is over.
Expire(k) ==
  /\ cached[k] # NoPage
  /\ cached' = [cached EXCEPT ![k] = NoPage]
  /\ UNCHANGED <<files, library, overlay, pc, page, out, history>>

Pass == Begin \/ Fetch \/ Turn \/ Fail \/ Match

Next ==
  \/ Pass
  \/ \E x \in Item : Add(x)
  \/ \E i \in 1 .. Len(library) : Delete(i)
  \/ \E k \in Page : Expire(k)

Spec == Init /\ [][Next]_vars

-------------------------------------------------------------------------------
(* What the pass promises.                                                 *)

Used == 0 .. page

\* The pages the sweep has used were served with nothing deleted between them.
Steady == \A k \in Used : at[k] = at[0]

\* What was in the library whenever one of these pages was served.
Throughout == {x \in Item : \A k \in Used : x \in stock[k]}

\* The sweep returns every item (zotero.rs:260), however old each page is and
\* whatever was added between them, as long as nothing was deleted; and no item
\* twice, which by_isbn, by_pair and by_title would take for two.
SweepExact == pc = "match" /\ Steady => Throughout \subseteq Range(out) /\ IsInjective(out)

\* A wrong link is worse than no link at all (zotero.rs:452): a book whose item was
\* swept is linked to that item or to none, with a bare record too, and with other
\* items of its title or ISBN in the library.
NoWrongLink ==
  [][pc = "match" /\ Steady =>
       \A b \in Book :
         links'[b] # links[b] /\ export[b].item \in Throughout
           => links'[b] \subseteq {export[b].item}]_vars

===============================================================================
