--------------------------- MODULE ZoteroLinksProofs ---------------------------
(***************************************************************************)
(* The link pass for any library, export, page size and number of pages:   *)
(* a sweep with nothing deleted between its pages has every item once, and *)
(* then no book is linked to another's item.                               *)
(*                                                                         *)
(* Between two deletions the library only grows.  Each page was cut from   *)
(* the library as it was in some such stretch, so two pages of one stretch *)
(* are pages of one list, in whatever order and however long ago they were *)
(* fetched.                                                                *)
(***************************************************************************)
EXTENDS ZoteroLinks, FiniteSetTheorems, SequenceTheorems, TLAPS

\* How many items the pages before k have, if each is full.
Before(k) == k * PAGE

\* What page k has of a library of n items.
PageLen(n, k) == IF n > Before(k) THEN Smaller(Before(k + 1), n) - Before(k) ELSE 0

\* No item of l is there twice.
Once(l) == \A i, j \in 1 .. Len(l) : l[i] = l[j] => i = j

\* l is how m begins.
Begins(l, m) == Len(l) <= Len(m) /\ \A i \in 1 .. Len(l) : m[i] = l[i]

AtMostOne(S) == S = {} \/ \E x : S = {x}

-------------------------------------------------------------------------------
(* The values.                                                             *)

Here == {library[i] : i \in DOMAIN library}

SweepType ==
  /\ catalogue \in Catalogues /\ export \in Exports
  /\ library \in Seq(Item) /\ out \in Seq(Item)
  /\ cached \in [Page -> Seq(Item) \cup {NoPage}]
  /\ \A k \in Page : cached[k] # NoPage => Len(cached[k]) <= PAGE
  /\ pc \in {"idle", "sweep", "match"} /\ page \in Page
  /\ pc = "idle" => page = 0 /\ out = <<>>

HistoryType ==
  /\ added \in SUBSET Item /\ Here \subseteq added
  /\ losses \in Nat /\ Cardinality(added) = losses + Len(library)
  /\ stock \in [Page -> SUBSET Item]
  /\ at \in [Page -> Nat] /\ \A k \in Page : at[k] <= losses

OverlayType ==
  \A b \in Book : /\ links[b] \subseteq Item /\ AtMostOne(links[b])
                  /\ AtMostOne(readers[b]) /\ (links[b] = {} => readers[b] = {})

StateType == SweepType /\ HistoryType /\ OverlayType

-------------------------------------------------------------------------------
(* The invariant.                                                          *)

\* Page k was fetched when the library was the first n of l.
PageOK(l, n, k) ==
  /\ n <= Len(l)
  /\ stock[k] = {l[i] : i \in 1 .. n}
  /\ cached[k] # NoPage =>
       /\ Len(cached[k]) = PageLen(n, k)
       /\ \A i \in 1 .. Len(cached[k]) : cached[k][i] = l[Before(k) + i]

\* What the sweep has, at its place in one of the pages used.
Taken(lib, pages) ==
  \A i \in 1 .. Len(out) : \E k \in pages : i <= Len(lib[at[k]]) /\ out[i] = lib[at[k]][i]

\* lib[e] is what the library was after e deletions, before the next; size[k] is how
\* much of it there was when page k was fetched.
Swept(lib, size) ==
  /\ lib \in [Nat -> Seq(Item)] /\ size \in [Page -> Nat]
  /\ lib[losses] = library
  /\ \A e \in Nat : Once(lib[e])
  /\ \A k \in Page : PageOK(lib[at[k]], size[k], k)
  /\ pc = "sweep" => Len(out) = Before(page) /\ Taken(lib, 0 .. page - 1)
  /\ pc = "match" => size[page] <= Len(out) /\ Taken(lib, 0 .. page)

SweepInv == StateType /\ \E lib, size : Swept(lib, size)

-------------------------------------------------------------------------------
(* Pages and sequences.                                                    *)

LEMMA PagesFollow ==
  ASSUME NEW k \in Nat
  PROVE  /\ Before(k) \in Nat /\ Before(k + 1) = Before(k) + PAGE
         /\ Before(0) = 0 /\ PAGE \in Nat \ {0}
<1>1. PAGE \in Nat \ {0}
  BY LinkPassAssumption
<1> QED BY <1>1 DEF Before

LEMMA PagesBefore ==
  ASSUME NEW k \in Page
  PROVE  /\ k \in Nat /\ 0 .. k - 1 \subseteq Page /\ 0 .. k \subseteq Page
         /\ k + 1 < MAX_PAGES => k + 1 \in Page
<1>1. MAX_PAGES \in Nat \ {0}
  BY LinkPassAssumption
<1> QED BY <1>1 DEF Page

LEMMA PageIsShort ==
  ASSUME NEW n \in Nat, NEW k \in Nat
  PROVE  /\ PageLen(n, k) \in Nat /\ PageLen(n, k) <= PAGE
         /\ Before(k) + PageLen(n, k) <= n \/ PageLen(n, k) = 0
         /\ PageLen(n, k) = PAGE \/ n <= Before(k) + PageLen(n, k)
BY PagesFollow DEF PageLen, Smaller

\* The page that the API serves of the library.
LEMMA ServedPage ==
  ASSUME library \in Seq(Item), NEW k \in Nat
  PROVE  /\ Served(k) \in Seq(Item)
         /\ Len(Served(k)) = PageLen(Len(library), k)
         /\ \A i \in 1 .. Len(Served(k)) : Served(k)[i] = library[Before(k) + i]
<1> DEFINE n == Len(library)
           a == Before(k) + 1
           b == Smaller(Before(k + 1), n)
<1>0. /\ Before(k) \in Nat /\ Before(k + 1) = Before(k) + PAGE /\ PAGE \in Nat \ {0}
  BY PagesFollow
<1>1. n \in Nat /\ a \in Int /\ b \in Int /\ a \in Nat \ {0} /\ b <= n
  BY <1>0 DEF Smaller
<1>2. Served(k) = SubSeq(library, a, b)
  BY DEF Served, Before
<1> HIDE DEF a, b, n
<1>3. \A i \in a .. b : library[i] \in Item
  BY <1>1 DEF n
<1>4. /\ SubSeq(library, a, b) \in Seq(Item)
      /\ Len(SubSeq(library, a, b)) = IF a <= b THEN b - a + 1 ELSE 0
      /\ \A i \in 1 .. b - a + 1 : SubSeq(library, a, b)[i] = library[a + i - 1]
  BY <1>1, <1>3, SubSeqProperties
<1>5. Len(Served(k)) = PageLen(n, k)
  BY <1>0, <1>1, <1>2, <1>4 DEF a, b, PageLen, Smaller
<1>6. ASSUME NEW i \in 1 .. Len(Served(k)) PROVE Served(k)[i] = library[Before(k) + i]
  <2>1. i \in 1 .. b - a + 1 /\ a + i - 1 = Before(k) + i
    BY <1>0, <1>1, <1>2, <1>4 DEF a
  <2> QED BY <1>2, <1>4, <2>1
<1> QED BY <1>2, <1>4, <1>5, <1>6 DEF n

\* A library that loses an item keeps the others, none of them twice.
LEMMA RemovedOnce ==
  ASSUME NEW l \in Seq(Item), NEW d \in 1 .. Len(l),
         Once(l)
  PROVE  /\ RemoveAt(l, d) \in Seq(Item) /\ Len(RemoveAt(l, d)) = Len(l) - 1
         /\ \A i \in 1 .. Len(l) - 1 : \E j \in 1 .. Len(l) : RemoveAt(l, d)[i] = l[j]
         /\ Once(RemoveAt(l, d))
<1> DEFINE p == SubSeq(l, 1, d - 1)
           q == SubSeq(l, d + 1, Len(l))
           m == RemoveAt(l, d)
<1>1. Len(l) \in Nat /\ d \in Nat /\ 1 <= d /\ d <= Len(l)
  OBVIOUS
<1>2. /\ p \in Seq(Item) /\ Len(p) = d - 1 /\ \A i \in 1 .. d - 1 : p[i] = l[i]
  <2>1. \A i \in 1 .. d - 1 : l[i] \in Item
    BY <1>1
  <2>2. /\ p \in Seq(Item) /\ Len(p) = IF 1 <= d - 1 THEN d - 1 - 1 + 1 ELSE 0
        /\ \A i \in 1 .. d - 1 - 1 + 1 : p[i] = l[1 + i - 1]
    BY <1>1, <2>1, SubSeqProperties
  <2> QED BY <1>1, <2>2
<1>3. /\ q \in Seq(Item) /\ Len(q) = Len(l) - d /\ \A i \in 1 .. Len(l) - d : q[i] = l[d + i]
  <2>1. \A i \in d + 1 .. Len(l) : l[i] \in Item
    BY <1>1
  <2>2. /\ q \in Seq(Item) /\ Len(q) = IF d + 1 <= Len(l) THEN Len(l) - (d + 1) + 1 ELSE 0
        /\ \A i \in 1 .. Len(l) - (d + 1) + 1 : q[i] = l[(d + 1) + i - 1]
    BY <1>1, <2>1, SubSeqProperties
  <2> QED BY <1>1, <2>2
<1>4. m = p \o q
  BY DEF RemoveAt
<1> HIDE DEF p, q, m
<1>5. /\ m \in Seq(Item) /\ Len(m) = Len(l) - 1
      /\ \A i \in 1 .. Len(m) : m[i] = IF i < d THEN l[i] ELSE l[i + 1]
  <2>1. /\ m \in Seq(Item) /\ Len(m) = Len(l) - 1
        /\ \A i \in 1 .. Len(m) : m[i] = IF i <= d - 1 THEN p[i] ELSE q[i - (d - 1)]
    BY <1>1, <1>2, <1>3, <1>4
  <2>2. ASSUME NEW i \in 1 .. Len(m) PROVE m[i] = IF i < d THEN l[i] ELSE l[i + 1]
    <3>1. CASE i < d
      BY <1>1, <1>2, <2>1, <3>1
    <3>2. CASE ~ (i < d)
      <4>1. PICK j : j = i - (d - 1)
        OBVIOUS
      <4>2. j \in 1 .. Len(l) - d /\ d + j = i + 1 /\ ~ (i <= d - 1)
        BY <1>1, <2>1, <3>2, <4>1
      <4>3. m[i] = q[j]
        BY <2>1, <4>1, <4>2
      <4>4. q[j] = l[d + j]
        BY <1>3, <4>2
      <4> QED BY <3>2, <4>2, <4>3, <4>4
    <3> QED BY <3>1, <3>2
  <2> QED BY <2>1, <2>2
<1>6. \A i \in 1 .. Len(l) - 1 : \E j \in 1 .. Len(l) : m[i] = l[j]
  <2> SUFFICES ASSUME NEW i \in 1 .. Len(l) - 1 PROVE \E j \in 1 .. Len(l) : m[i] = l[j]
    OBVIOUS
  <2>1. CASE i < d
    BY <1>1, <1>5, <2>1
  <2>2. CASE ~ (i < d)
    BY <1>1, <1>5, <2>2
  <2> QED BY <2>1, <2>2
<1>7. Once(m)
  BY <1>1, <1>5 DEF Once
<1> QED BY <1>5, <1>6, <1>7 DEF m

-------------------------------------------------------------------------------
(* The library changes.                                                    *)

LEMMA BeginsAt ==
  ASSUME NEW l \in Seq(Item), NEW m \in Seq(Item), Begins(l, m), NEW i \in Nat, 1 <= i, i <= Len(l)
  PROVE  i <= Len(m) /\ m[i] = l[i]
BY DEF Begins

\* A page of a list is a page of a longer one.
LEMMA PageOfLonger ==
  ASSUME NEW l \in Seq(Item), NEW m \in Seq(Item), NEW n \in Nat, NEW k \in Page,
         Begins(l, m), PageOK(l, n, k)
  PROVE  PageOK(m, n, k)
<1> USE DEF Begins
<1>1. n <= Len(l) /\ Len(l) \in Nat /\ Len(m) \in Nat /\ k \in Nat
  BY DEF PageOK, Page
<1>2. \A i \in 1 .. n : i \in 1 .. Len(l) /\ m[i] = l[i]
  BY <1>1
<1>3. stock[k] = {m[i] : i \in 1 .. n}
  <2>1. stock[k] = {l[i] : i \in 1 .. n}
    BY DEF PageOK
  <2> QED BY <1>2, <2>1
<1>4. ASSUME cached[k] # NoPage
      PROVE  /\ Len(cached[k]) = PageLen(n, k)
             /\ \A i \in 1 .. Len(cached[k]) : cached[k][i] = m[Before(k) + i]
  <2>1. Len(cached[k]) = PageLen(n, k) /\ \A i \in 1 .. Len(cached[k]) : cached[k][i] = l[Before(k) + i]
    BY <1>4 DEF PageOK
  <2>2. /\ PageLen(n, k) \in Nat /\ Before(k) \in Nat
        /\ Before(k) + PageLen(n, k) <= n \/ PageLen(n, k) = 0
    BY <1>1, PageIsShort, PagesFollow
  <2>3. \A i \in 1 .. Len(cached[k]) : Before(k) + i \in 1 .. n
    BY <2>1, <2>2
  <2> QED BY <1>2, <2>1, <2>3
<1>5. n <= Len(m)
  BY <1>1
<1> QED BY <1>3, <1>4, <1>5 DEF PageOK

\* What was served of the library is served of one that grew.
LEMMA LongerKeeps ==
  ASSUME StateType, NEW lib, NEW size, Swept(lib, size), NEW lib2 \in [Nat -> Seq(Item)],
         UNCHANGED <<cached, stock, at, pc, page, out>>,
         losses' \in Nat, lib2[losses'] = library',
         \A e \in Nat : Once(lib2[e]),
         \A e \in 0 .. losses : Begins(lib[e], lib2[e])
  PROVE  Swept(lib2, size)'
<1>1. /\ lib \in [Nat -> Seq(Item)] /\ size \in [Page -> Nat]
      /\ \A k \in Page : PageOK(lib[at[k]], size[k], k)
      /\ \A k \in Page : at[k] \in 0 .. losses /\ at[k] \in Nat
  <2>1. \A k \in Page : at[k] \in 0 .. losses /\ at[k] \in Nat
    BY DEF StateType, HistoryType
  <2> QED BY <2>1 DEF Swept
<1>2. ASSUME NEW k \in Page PROVE PageOK(lib2[at[k]], size[k], k)'
  <2>1. PICK e : e = at[k]
    OBVIOUS
  <2>2. PageOK(lib[e], size[k], k) /\ e \in 0 .. losses /\ e \in Nat /\ size[k] \in Nat
    BY <1>1, <2>1
  <2>3. lib[e] \in Seq(Item) /\ lib2[e] \in Seq(Item)
    BY <1>1, <2>2
  <2>4. PageOK(lib2[e], size[k], k)
    BY <2>2, <2>3, PageOfLonger
  <2> QED BY <2>1, <2>4 DEF PageOK
<1>3. ASSUME NEW pages \in SUBSET Page, Taken(lib, pages)
      PROVE  Taken(lib2, pages)
  <2> SUFFICES ASSUME NEW i \in 1 .. Len(out)
               PROVE  \E k \in pages : i <= Len(lib2[at[k]]) /\ out[i] = lib2[at[k]][i]
    BY DEF Taken
  <2>1. PICK k \in pages : i <= Len(lib[at[k]]) /\ out[i] = lib[at[k]][i]
    BY <1>3 DEF Taken
  <2>2. PICK e : e = at[k]
    OBVIOUS
  <2>3. e \in 0 .. losses /\ e \in Nat
    BY <1>1, <2>2
  <2>4. lib[e] \in Seq(Item) /\ lib2[e] \in Seq(Item) /\ i \in Nat /\ 1 <= i
    BY <1>1, <2>3 DEF StateType, SweepType
  <2>5. Begins(lib[e], lib2[e]) /\ i <= Len(lib[e])
    BY <2>1, <2>2, <2>3
  <2>6. lib2[e][i] = lib[e][i] /\ i <= Len(lib2[e])
    BY <2>4, <2>5, BeginsAt
  <2> QED BY <2>1, <2>2, <2>6
<1>4. 0 .. page - 1 \subseteq Page /\ 0 .. page \subseteq Page
  BY PagesBefore DEF StateType, SweepType
<1>5. ASSUME pc = "sweep" PROVE Len(out) = Before(page) /\ Taken(lib2, 0 .. page - 1)
  <2>1. Len(out) = Before(page) /\ Taken(lib, 0 .. page - 1)
    BY <1>5 DEF Swept
  <2> QED BY <1>3, <1>4, <2>1
<1>6. ASSUME pc = "match" PROVE size[page] <= Len(out) /\ Taken(lib2, 0 .. page)
  <2>1. size[page] <= Len(out) /\ Taken(lib, 0 .. page)
    BY <1>6 DEF Swept
  <2> QED BY <1>3, <1>4, <2>1
<1>7. /\ (pc = "sweep" => Len(out) = Before(page) /\ Taken(lib2, 0 .. page - 1))'
      /\ (pc = "match" => size[page] <= Len(out) /\ Taken(lib2, 0 .. page))'
  BY <1>5, <1>6 DEF Taken, Before
<1> QED BY <1>1, <1>2, <1>7 DEF Swept

\* Nothing of the sweep changes.
LEMMA SweepWaits ==
  ASSUME SweepType, UNCHANGED <<files, cached, pc, page, out>>, library' \in Seq(Item)
  PROVE  SweepType'
BY DEF SweepType, files

LEMMA OverlayWaits ==
  ASSUME OverlayType, UNCHANGED overlay
  PROVE  OverlayType'
BY DEF OverlayType, overlay

LEMMA AddKeeps ==
  ASSUME SweepInv, NEW x \in Item, Add(x)
  PROVE  SweepInv'
<1>1. /\ x \notin added /\ library' = Append(library, x) /\ added' = added \cup {x}
      /\ UNCHANGED <<files, cached, overlay, pc, page, out, losses, stock, at>>
  BY DEF Add
<1>2. PICK lib, size : Swept(lib, size)
  BY DEF SweepInv
<1>3. StateType /\ library \in Seq(Item) /\ losses \in Nat
  BY DEF SweepInv, StateType, SweepType, HistoryType
<1>4. /\ library' \in Seq(Item) /\ Len(library') = Len(library) + 1
      /\ \A i \in 1 .. Len(library) : library'[i] = library[i]
      /\ library'[Len(library) + 1] = x
  BY <1>1, <1>3
<1>5. Len(library) \in Nat /\ \A i \in 1 .. Len(library) : library[i] # x
  <2>1. \A i \in DOMAIN library : library[i] \in added
    BY <1>3 DEF StateType, HistoryType, Here
  <2> QED BY <1>1, <1>3, <2>1
<1>6. /\ lib \in [Nat -> Seq(Item)] /\ lib[losses] = library
      /\ \A e \in Nat : Once(lib[e])
  BY <1>2 DEF Swept
<1>7. PICK lib2 : lib2 = [lib EXCEPT ![losses] = Append(library, x)]
  OBVIOUS
<1>8. /\ lib2 \in [Nat -> Seq(Item)] /\ lib2[losses] = library'
      /\ \A e \in Nat : e # losses => lib2[e] = lib[e]
  BY <1>1, <1>3, <1>4, <1>6, <1>7
<1>9. Once(library')
  <2> SUFFICES ASSUME NEW i \in 1 .. Len(library'), NEW j \in 1 .. Len(library'), library'[i] = library'[j]
               PROVE  i = j
    BY DEF Once
  <2>1. \A a \in 1 .. Len(library') : a \in 1 .. Len(library) \/ a = Len(library) + 1
    BY <1>4, <1>5
  <2>2. CASE i \in 1 .. Len(library) /\ j \in 1 .. Len(library)
    BY <1>3, <1>4, <1>6, <2>2 DEF Once
  <2>3. CASE i \in 1 .. Len(library) /\ j = Len(library) + 1
    BY <1>4, <1>5, <2>3
  <2>4. CASE j \in 1 .. Len(library) /\ i = Len(library) + 1
    BY <1>4, <1>5, <2>4
  <2> QED BY <2>1, <2>2, <2>3, <2>4
<1>10. \A e \in Nat : Once(lib2[e])
  BY <1>6, <1>8, <1>9
<1>11. \A e \in 0 .. losses : Begins(lib[e], lib2[e])
  <2>1. Begins(library, library')
    BY <1>4, <1>5 DEF Begins
  <2>2. \A e \in 0 .. losses : e \in Nat
    BY <1>3
  <2>3. \A e \in Nat : Begins(lib[e], lib[e])
    BY <1>6 DEF Begins
  <2> QED BY <1>6, <1>8, <2>1, <2>2, <2>3
<1>12. Swept(lib2, size)'
  BY <1>1, <1>2, <1>3, <1>8, <1>10, <1>11, LongerKeeps
<1>13. HistoryType'
  <2>1. /\ added \in SUBSET Item /\ Here \subseteq added /\ Cardinality(added) = losses + Len(library)
        /\ stock \in [Page -> SUBSET Item] /\ at \in [Page -> Nat] /\ \A k \in Page : at[k] <= losses
    BY <1>3 DEF StateType, HistoryType
  <2>2. IsFiniteSet(added)
    BY <2>1, LinkPassAssumption, FS_Subset
  <2>3. Cardinality(added') = Cardinality(added) + 1
    BY <1>1, <2>2, FS_AddElement
  <2>4. Cardinality(added') = losses' + Len(library')
    BY <1>1, <1>3, <1>4, <1>5, <2>1, <2>3
  <2>5. Here' \subseteq added'
    <3>1. \A i \in DOMAIN library' : library'[i] = x \/ \E j \in DOMAIN library : library'[i] = library[j]
      BY <1>3, <1>4, <1>5
    <3> QED BY <1>1, <2>1, <3>1 DEF Here
  <2> QED BY <1>1, <1>3, <2>1, <2>4, <2>5 DEF HistoryType
<1>14. SweepType' /\ OverlayType'
  BY <1>1, <1>3, <1>4, SweepWaits, OverlayWaits DEF StateType
<1> QED BY <1>12, <1>13, <1>14 DEF SweepInv, StateType

LEMMA DeleteKeeps ==
  ASSUME SweepInv, NEW d \in 1 .. Len(library), Delete(d)
  PROVE  SweepInv'
<1>1. /\ library' = RemoveAt(library, d) /\ losses' = losses + 1
      /\ UNCHANGED <<files, cached, overlay, pc, page, out, added, stock, at>>
  BY DEF Delete
<1>2. PICK lib, size : Swept(lib, size)
  BY DEF SweepInv
<1>3. StateType /\ library \in Seq(Item) /\ losses \in Nat
  BY DEF SweepInv, StateType, SweepType, HistoryType
<1>4. /\ lib \in [Nat -> Seq(Item)] /\ lib[losses] = library
      /\ \A e \in Nat : Once(lib[e])
  BY <1>2 DEF Swept
<1>5. Once(library)
  BY <1>3, <1>4
<1>6. /\ library' \in Seq(Item) /\ Len(library') = Len(library) - 1 /\ Len(library) \in Nat
      /\ \A i \in 1 .. Len(library') : \E j \in 1 .. Len(library) : library'[i] = library[j]
      /\ Once(library')
  <2>1. PICK m : m = RemoveAt(library, d)
    OBVIOUS
  <2>2. /\ m \in Seq(Item) /\ Len(m) = Len(library) - 1
        /\ \A i \in 1 .. Len(library) - 1 : \E j \in 1 .. Len(library) : m[i] = library[j]
        /\ Once(m)
    BY <1>3, <1>5, <2>1, RemovedOnce
  <2>3. library' = m
    BY <1>1, <2>1
  <2> QED BY <1>3, <2>2, <2>3
<1>7. PICK lib2 : lib2 = [lib EXCEPT ![losses + 1] = RemoveAt(library, d)]
  OBVIOUS
<1>8. /\ lib2 \in [Nat -> Seq(Item)] /\ lib2[losses'] = library' /\ losses' \in Nat
      /\ \A e \in Nat : e # losses + 1 => lib2[e] = lib[e]
  BY <1>1, <1>3, <1>4, <1>6, <1>7
<1>9. \A e \in Nat : Once(lib2[e])
  <2> SUFFICES ASSUME NEW e \in Nat PROVE Once(lib2[e])
    OBVIOUS
  <2>1. CASE e = losses + 1
    <3>1. lib2[e] = library'
      BY <1>1, <1>8, <2>1
    <3> QED BY <1>6, <3>1
  <2>2. CASE e # losses + 1
    <3>1. lib2[e] = lib[e]
      BY <1>8, <2>2
    <3> QED BY <1>4, <3>1
  <2> QED BY <2>1, <2>2
<1>10. \A e \in 0 .. losses : Begins(lib[e], lib2[e])
  <2>1. \A e \in 0 .. losses : e \in Nat /\ e # losses + 1
    BY <1>3
  <2>2. \A e \in Nat : Begins(lib[e], lib[e])
    BY <1>4 DEF Begins
  <2> QED BY <1>8, <2>1, <2>2
<1>11. Swept(lib2, size)'
  BY <1>1, <1>2, <1>3, <1>8, <1>9, <1>10, LongerKeeps
<1>12. HistoryType'
  <2>1. /\ added \in SUBSET Item /\ Here \subseteq added /\ Cardinality(added) = losses + Len(library)
        /\ stock \in [Page -> SUBSET Item] /\ at \in [Page -> Nat] /\ \A k \in Page : at[k] <= losses
    BY <1>3 DEF StateType, HistoryType
  <2>2. Here' \subseteq added'
    <3>1. DOMAIN library' = 1 .. Len(library') /\ DOMAIN library = 1 .. Len(library)
      BY <1>3, <1>6
    <3>2. \A i \in DOMAIN library' : \E j \in DOMAIN library : library'[i] = library[j]
      BY <1>6, <3>1
    <3> QED BY <1>1, <2>1, <3>2 DEF Here
  <2>3. Cardinality(added') = losses' + Len(library')
    BY <1>1, <1>3, <1>6, <2>1
  <2>4. \A k \in Page : at'[k] <= losses'
    BY <1>1, <1>3, <2>1
  <2> QED BY <1>1, <1>8, <2>1, <2>2, <2>3, <2>4 DEF HistoryType
<1>13. SweepType' /\ OverlayType'
  BY <1>1, <1>3, <1>6, SweepWaits, OverlayWaits DEF StateType
<1> QED BY <1>11, <1>12, <1>13 DEF SweepInv, StateType

-------------------------------------------------------------------------------
(* The sweep's steps.                                                      *)

LEMMA HistoryWaits ==
  ASSUME HistoryType, UNCHANGED <<library, history>>
  PROVE  HistoryType'
BY DEF HistoryType, history, Here

\* Only the sweep itself moves.
LEMMA PagesWait ==
  ASSUME NEW lib, NEW size, Swept(lib, size), UNCHANGED <<library, cached, losses, stock, at>>,
         (pc = "sweep" => Len(out) = Before(page) /\ Taken(lib, 0 .. page - 1))',
         (pc = "match" => size[page] <= Len(out) /\ Taken(lib, 0 .. page))'
  PROVE  Swept(lib, size)'
<1>1. /\ lib \in [Nat -> Seq(Item)] /\ size \in [Page -> Nat] /\ lib[losses'] = library'
      /\ (\A e \in Nat : Once(lib[e])) /\ (\A k \in Page : PageOK(lib[at[k]], size[k], k))
  BY DEF Swept
<1>2. \A k \in Page : PageOK(lib[at[k]], size[k], k)'
  BY <1>1 DEF PageOK
<1> QED BY <1>1, <1>2 DEF Swept

LEMMA BeginKeeps ==
  ASSUME SweepInv, Begin
  PROVE  SweepInv'
<1>1. /\ pc = "idle" /\ pc' = "sweep"
      /\ UNCHANGED <<files, library, cached, overlay, page, out, history>>
      /\ UNCHANGED <<added, losses, stock, at>>
  BY DEF Begin, history
<1>2. PICK lib, size : Swept(lib, size)
  BY DEF SweepInv
<1>3. StateType /\ page = 0 /\ out = <<>>
  BY <1>1 DEF SweepInv, StateType, SweepType
<1>4. StateType'
  BY <1>1, <1>3, HistoryWaits, OverlayWaits DEF StateType, SweepType, files
<1>5. (Len(out) = Before(page) /\ Taken(lib, 0 .. page - 1))'
  <2>1. page' = 0 /\ out' = <<>> /\ Len(out') = 0 /\ 1 .. 0 = {}
    BY <1>1, <1>3
  <2>2. Before(0) = 0
    BY PagesFollow
  <2> QED BY <2>1, <2>2 DEF Before, Taken
<1>6. Swept(lib, size)'
  BY <1>1, <1>2, <1>5, PagesWait
<1> QED BY <1>4, <1>6 DEF SweepInv

LEMMA FetchKeeps ==
  ASSUME SweepInv, Fetch
  PROVE  SweepInv'
<1>1. /\ pc = "sweep" /\ cached' = [cached EXCEPT ![page] = Served(page)]
      /\ stock' = [stock EXCEPT ![page] = Here] /\ at' = [at EXCEPT ![page] = losses]
      /\ UNCHANGED <<files, library, overlay, pc, page, out, added, losses>>
  BY DEF Fetch, Here
<1>2. PICK lib, size : Swept(lib, size)
  BY DEF SweepInv
<1>3. /\ StateType /\ library \in Seq(Item) /\ losses \in Nat /\ page \in Page /\ page \in Nat
      /\ cached \in [Page -> Seq(Item) \cup {NoPage}] /\ at \in [Page -> Nat]
      /\ stock \in [Page -> SUBSET Item]
  BY PagesBefore DEF SweepInv, StateType, SweepType, HistoryType
<1>4. /\ Served(page) \in Seq(Item) /\ Len(Served(page)) = PageLen(Len(library), page)
      /\ \A i \in 1 .. Len(Served(page)) : Served(page)[i] = library[Before(page) + i]
  BY <1>3, ServedPage
<1>5. /\ cached'[page] = Served(page) /\ stock'[page] = Here /\ at'[page] = losses
      /\ \A k \in Page : k # page => /\ cached'[k] = cached[k] /\ stock'[k] = stock[k]
                                     /\ at'[k] = at[k]
  BY <1>1, <1>3
<1>6. PICK size2 : size2 = [size EXCEPT ![page] = Len(library)]
  OBVIOUS
<1>7. /\ lib \in [Nat -> Seq(Item)] /\ size \in [Page -> Nat] /\ lib[losses] = library
      /\ (\A e \in Nat : Once(lib[e])) /\ (\A k \in Page : PageOK(lib[at[k]], size[k], k))
      /\ Len(out) = Before(page) /\ Taken(lib, 0 .. page - 1)
  BY <1>1, <1>2 DEF Swept
<1>8. /\ size2 \in [Page -> Nat] /\ size2[page] = Len(library)
      /\ \A k \in Page : k # page => size2[k] = size[k]
  BY <1>3, <1>6, <1>7
<1>9. ASSUME NEW k \in Page PROVE PageOK(lib[at[k]], size2[k], k)'
  <2>1. CASE k = page
    <3>1. Here = {library[i] : i \in 1 .. Len(library)}
      BY <1>3 DEF Here
    <3>2. /\ Len(library) <= Len(library) /\ stock'[k] = {library[i] : i \in 1 .. Len(library)}
          /\ Len(cached'[k]) = PageLen(Len(library), k)
          /\ \A i \in 1 .. Len(cached'[k]) : cached'[k][i] = library[Before(k) + i]
      BY <1>3, <1>4, <1>5, <2>1, <3>1
    <3>3. lib[at'[k]] = library /\ size2[k] = Len(library)
      BY <1>5, <1>7, <1>8, <2>1
    <3> QED BY <3>2, <3>3 DEF PageOK
  <2>2. CASE k # page
    <3>1. PageOK(lib[at[k]], size[k], k)
      BY <1>7
    <3> QED BY <1>5, <1>8, <2>2, <3>1 DEF PageOK
  <2> QED BY <2>1, <2>2
<1>10. (Len(out) = Before(page) /\ Taken(lib, 0 .. page - 1))'
  <2>1. \A k \in 0 .. page - 1 : at'[k] = at[k]
    BY <1>3, <1>5, PagesBefore
  <2> QED BY <1>1, <1>7, <2>1 DEF Taken, Before
<1>11. Swept(lib, size2)'
  BY <1>1, <1>7, <1>8, <1>9, <1>10 DEF Swept
<1>12. SweepType'
  <2>1. cached' \in [Page -> Seq(Item) \cup {NoPage}]
    BY <1>1, <1>3, <1>4
  <2>2. \A k \in Page : cached'[k] # NoPage => Len(cached'[k]) <= PAGE
    <3>1. Len(Served(page)) <= PAGE
      BY <1>3, <1>4, PageIsShort
    <3> QED BY <1>3, <1>5, <3>1 DEF StateType, SweepType
  <2> QED BY <1>1, <1>3, <2>1, <2>2 DEF StateType, SweepType, files
<1>13. HistoryType'
  <2>1. Here \subseteq Item /\ Here' = Here
    BY <1>1, <1>3 DEF Here
  <2>2. stock' \in [Page -> SUBSET Item] /\ at' \in [Page -> Nat]
    BY <1>1, <1>3, <2>1
  <2>3. \A k \in Page : at'[k] <= losses'
    BY <1>1, <1>3, <1>5 DEF StateType, HistoryType
  <2> QED BY <1>1, <1>3, <2>1, <2>2, <2>3 DEF StateType, HistoryType
<1> QED BY <1>1, <1>3, <1>11, <1>12, <1>13, OverlayWaits DEF SweepInv, StateType

LEMMA TurnKeeps ==
  ASSUME SweepInv, Turn
  PROVE  SweepInv'
<1>1. /\ pc = "sweep" /\ cached[page] # NoPage /\ out' = out \o cached[page]
      /\ IF Len(cached[page]) < PAGE
           THEN pc' = "match" /\ UNCHANGED page
           ELSE page + 1 < MAX_PAGES /\ page' = page + 1 /\ UNCHANGED pc
      /\ UNCHANGED <<files, library, cached, overlay, history>>
      /\ UNCHANGED <<added, losses, stock, at>>
  BY DEF Turn, history
<1>2. PICK lib, size : Swept(lib, size)
  BY DEF SweepInv
<1>3. PICK c, l, n, p : c = cached[page] /\ l = lib[at[page]] /\ n = size[page] /\ p = page
  OBVIOUS
<1>4. /\ StateType /\ page \in Page /\ p \in Nat /\ out \in Seq(Item) /\ c \in Seq(Item)
      /\ at[page] \in Nat /\ Len(c) <= PAGE
  BY <1>1, <1>3, PagesBefore DEF SweepInv, StateType, SweepType, HistoryType
<1>5. /\ lib \in [Nat -> Seq(Item)] /\ size \in [Page -> Nat]
      /\ PageOK(lib[at[page]], size[page], page)
      /\ Len(out) = Before(page) /\ Taken(lib, 0 .. page - 1)
  BY <1>1, <1>2, <1>4 DEF Swept
<1>6. l \in Seq(Item) /\ n \in Nat /\ n <= Len(l) /\ Len(c) = PageLen(n, p)
      /\ \A i \in 1 .. Len(c) : c[i] = l[Before(p) + i]
  BY <1>1, <1>3, <1>4, <1>5 DEF PageOK
<1>7. /\ Before(p) \in Nat /\ Before(p + 1) = Before(p) + PAGE /\ PAGE \in Nat \ {0}
      /\ Len(c) \in Nat
      /\ Before(p) + Len(c) <= n \/ Len(c) = 0
      /\ Len(c) = PAGE \/ n <= Before(p) + Len(c)
  BY <1>4, <1>6, PagesFollow, PageIsShort
<1>8. /\ out' \in Seq(Item) /\ Len(out') = Before(p) + Len(c)
      /\ \A i \in 1 .. Len(out) : out'[i] = out[i]
      /\ \A i \in 1 .. Len(c) : out'[Before(p) + i] = c[i]
  <2>1. PICK o, m : o = out /\ m = o \o c
    OBVIOUS
  <2>2. /\ o \in Seq(Item) /\ c \in Seq(Item) /\ out' = m /\ Len(o) = Before(p)
        /\ Len(o) \in Nat /\ Len(c) \in Nat
    BY <1>1, <1>3, <1>4, <1>5, <1>7, <2>1
  <2>3. /\ m \in Seq(Item) /\ Len(m) = Len(o) + Len(c)
        /\ \A i \in 1 .. Len(o) + Len(c) : m[i] = IF i <= Len(o) THEN o[i] ELSE c[i - Len(o)]
    BY <2>1, <2>2
  <2>4. \A i \in 1 .. Len(o) : m[i] = o[i]
    BY <2>2, <2>3
  <2>5. \A i \in 1 .. Len(c) : m[Len(o) + i] = c[i]
    BY <2>2, <2>3
  <2> QED BY <2>1, <2>2, <2>3, <2>4, <2>5
<1>9. \A i \in 1 .. Len(out') : \E k \in 0 .. p : i <= Len(lib[at[k]]) /\ out'[i] = lib[at[k]][i]
  <2> SUFFICES ASSUME NEW i \in 1 .. Len(out')
               PROVE  \E k \in 0 .. p : i <= Len(lib[at[k]]) /\ out'[i] = lib[at[k]][i]
    OBVIOUS
  <2>1. CASE i <= Before(p)
    <3>1. i \in 1 .. Len(out)
      BY <1>3, <1>5, <1>7, <1>8, <2>1
    <3>2. PICK k \in 0 .. page - 1 : i <= Len(lib[at[k]]) /\ out[i] = lib[at[k]][i]
      BY <1>5, <3>1 DEF Taken
    <3>3. k \in 0 .. p
      BY <1>3, <1>4, <3>2
    <3> QED BY <1>8, <3>1, <3>2, <3>3
  <2>2. CASE ~ (i <= Before(p))
    <3>1. PICK j : j = i - Before(p)
      OBVIOUS
    <3>2. j \in 1 .. Len(c) /\ i = Before(p) + j
      BY <1>7, <1>8, <2>2, <3>1
    <3>3. i <= n /\ n <= Len(l) /\ i <= Len(l)
      BY <1>6, <1>7, <3>2
    <3>4. out'[i] = l[i]
      BY <1>6, <1>8, <3>2
    <3>5. p \in 0 .. p /\ l = lib[at[p]]
      BY <1>3, <1>4
    <3> QED BY <3>3, <3>4, <3>5
  <2> QED BY <2>1, <2>2
<1>10. CASE Len(c) < PAGE
  <2>1. pc' = "match" /\ page' = page
    BY <1>1, <1>3, <1>10
  <2>2. size[page] <= Len(out')
    BY <1>3, <1>7, <1>8, <1>10
  <2>3. Taken(lib, 0 .. page)'
    BY <1>1, <1>3, <1>9, <2>1 DEF Taken
  <2>4. Swept(lib, size)'
    BY <1>1, <1>2, <2>1, <2>2, <2>3, PagesWait
  <2>5. StateType'
    BY <1>1, <1>4, <1>8, <2>1, HistoryWaits, OverlayWaits DEF StateType, SweepType, files
  <2> QED BY <2>4, <2>5 DEF SweepInv
<1>11. CASE ~ (Len(c) < PAGE)
  <2>1. page + 1 < MAX_PAGES /\ page' = page + 1 /\ pc' = "sweep" /\ page' \in Page
    BY <1>1, <1>3, <1>4, <1>11, PagesBefore
  <2>2. Len(out') = Before(p + 1) /\ page' = p + 1
    BY <1>3, <1>4, <1>7, <1>8, <1>11, <2>1
  <2>3. (Len(out) = Before(page) /\ Taken(lib, 0 .. page - 1))'
    <3>1. page' - 1 = p
      BY <1>4, <2>2
    <3> QED BY <1>1, <1>9, <2>2, <3>1 DEF Taken, Before
  <2>4. Swept(lib, size)'
    BY <1>1, <1>2, <2>1, <2>3, PagesWait
  <2>5. StateType'
    BY <1>1, <1>4, <1>8, <2>1, HistoryWaits, OverlayWaits DEF StateType, SweepType, files
  <2> QED BY <2>4, <2>5 DEF SweepInv
<1> QED BY <1>10, <1>11

\* A sweep that ends leaves nothing but the overlay.
LEMMA FinishKeeps ==
  ASSUME SweepInv, Finish, UNCHANGED <<files, library, cached, history>>, OverlayType'
  PROVE  SweepInv'
<1>1. /\ pc' = "idle" /\ page' = 0 /\ out' = <<>> /\ UNCHANGED <<added, losses, stock, at>>
  BY DEF Finish, history
<1>2. PICK lib, size : Swept(lib, size)
  BY DEF SweepInv
<1>3. 0 \in Page
  BY LinkPassAssumption DEF Page
<1>4. SweepType' /\ HistoryType'
  BY <1>1, <1>3, HistoryWaits DEF SweepInv, StateType, SweepType, files
<1>5. Swept(lib, size)'
  BY <1>1, <1>2, PagesWait
<1> QED BY <1>4, <1>5 DEF SweepInv, StateType

LEMMA ExpireKeeps ==
  ASSUME SweepInv, NEW q \in Page, Expire(q)
  PROVE  SweepInv'
<1>1. /\ cached' = [cached EXCEPT ![q] = NoPage]
      /\ UNCHANGED <<files, library, overlay, pc, page, out, history>>
      /\ UNCHANGED <<added, losses, stock, at>>
  BY DEF Expire, history
<1>2. PICK lib, size : Swept(lib, size)
  BY DEF SweepInv
<1>3. StateType /\ cached \in [Page -> Seq(Item) \cup {NoPage}]
  BY DEF SweepInv, StateType, SweepType
<1>4. /\ cached' \in [Page -> Seq(Item) \cup {NoPage}]
      /\ \A k \in Page : cached'[k] = cached[k] \/ cached'[k] = NoPage
  BY <1>1, <1>3
<1>5. StateType'
  <2>1. \A k \in Page : cached'[k] # NoPage => Len(cached'[k]) <= PAGE
    BY <1>3, <1>4 DEF StateType, SweepType
  <2> QED BY <1>1, <1>3, <1>4, <2>1, HistoryWaits, OverlayWaits DEF StateType, SweepType, files
<1>6. ASSUME NEW k \in Page PROVE PageOK(lib[at[k]], size[k], k)'
  <2>1. PageOK(lib[at[k]], size[k], k)
    BY <1>2 DEF Swept
  <2> QED BY <1>1, <1>4, <2>1 DEF PageOK
<1>7. Swept(lib, size)'
  BY <1>1, <1>2, <1>6 DEF Swept, Taken
<1> QED BY <1>5, <1>7 DEF SweepInv

-------------------------------------------------------------------------------
(* The match.                                                              *)

LEMMA OneAtMost ==
  ASSUME NEW S, \A x, y \in S : x = y
  PROVE  AtMostOne(S)
<1>1. CASE S = {}
  BY <1>1 DEF AtMostOne
<1>2. CASE S # {}
  <2>1. PICK x \in S : TRUE
    BY <1>2
  <2>2. S = {x}
    BY <2>1
  <2> QED BY <2>2 DEF AtMostOne
<1> QED BY <1>1, <1>2

\* What is one's alone is one, and all that there is.
LEMMA SoleIsOne ==
  ASSUME NEW ns, IsFiniteSet(ns), Sole(ns) # {}
  PROVE  \E n : ns = {n} /\ Sole(ns) = {n}
<1>1. Cardinality(ns) = 1 /\ Sole(ns) = ns
  BY DEF Sole
<1>2. \E n : ns = {n}
  BY <1>1, FS_Singleton
<1> QED BY <1>1, <1>2

LEMMA SweptBooks ==
  ASSUME StateType, NEW ns \in SUBSET api
  PROVE  IsFiniteSet(ns) /\ ns \subseteq DOMAIN out /\ DOMAIN out = 1 .. Len(out)
<1>1. out \in Seq(Item) /\ Len(out) \in Nat /\ DOMAIN out = 1 .. Len(out)
  BY DEF StateType, SweepType
<1>2. ns \subseteq DOMAIN out
  BY DEF api
<1>3. IsFiniteSet(1 .. Len(out))
  BY <1>1, FS_Interval
<1> QED BY <1>1, <1>2, <1>3, FS_Subset

\* The item that an ISBN is alone with.
LEMMA ByIsbn ==
  ASSUME StateType, NEW b \in Book, NEW n \in HitByIsbn(b)
  PROVE  \E j \in 1 .. Len(Isbns(b)) : by_isbn(Isbns(b)[j]) = {n} /\ HitByIsbn(b) = {n}
<1> DEFINE sole == {j \in 1 .. Len(Isbns(b)) : Sole(by_isbn(Isbns(b)[j])) # {}}
           first == {x \in sole : \A y \in sole : x <= y}
<1>1. HitByIsbn(b) = UNION {by_isbn(Isbns(b)[j]) : j \in first}
  BY DEF HitByIsbn
<1>2. PICK j \in first : n \in by_isbn(Isbns(b)[j])
  BY <1>1
<1>3. \A x \in first : x = j
  <2>1. \A x \in first : x <= j /\ j <= x /\ x \in Int /\ j \in Int
    BY <1>2
  <2> HIDE DEF first
  <2>2. \A x \in Int : x <= j /\ j <= x /\ j \in Int => x = j
    OBVIOUS
  <2> QED BY <2>1, <2>2
<1>4. by_isbn(Isbns(b)[j]) = {n}
  <2>1. by_isbn(Isbns(b)[j]) \in SUBSET api /\ Sole(by_isbn(Isbns(b)[j])) # {}
    BY <1>2 DEF by_isbn
  <2> QED BY <1>2, <2>1, SweptBooks, SoleIsOne
<1>5. HitByIsbn(b) = {n}
  <2>1. first = {j}
    BY <1>2, <1>3
  <2> QED BY <1>1, <1>4, <2>1
<1> QED BY <1>2, <1>4, <1>5

LEMMA ByPair ==
  ASSUME StateType, NEW b \in Book, NEW n \in HitByPair(b)
  PROVE  Surname(b) # Blank /\ by_pair(Title(b), Surname(b)) = {n} /\ HitByPair(b) = {n}
<1>1. Surname(b) # Blank /\ HitByPair(b) = Sole(by_pair(Title(b), Surname(b)))
  BY DEF HitByPair
<1>2. by_pair(Title(b), Surname(b)) \in SUBSET api
  BY DEF by_pair
<1> QED BY <1>1, <1>2, SweptBooks, SoleIsOne

LEMMA ByTitle ==
  ASSUME StateType, NEW b \in Book, NEW n \in HitByTitle(b)
  PROVE  by_title(Title(b)) = {n} /\ HitByTitle(b) = {n}
<1>1. HitByTitle(b) = Sole(by_title(Title(b)))
  BY DEF HitByTitle
<1>2. by_title(Title(b)) \in SUBSET api
  BY DEF by_title
<1> QED BY <1>1, <1>2, SweptBooks, SoleIsOne

LEMMA MatchIsOne ==
  ASSUME StateType, NEW b \in Book
  PROVE  match(b) \subseteq DOMAIN out /\ AtMostOne(match(b))
<1> SUFFICES ASSUME NEW n \in match(b) PROVE n \in DOMAIN out /\ match(b) = {n}
  BY OneAtMost
<1>1. PICK ns \in SUBSET api : n \in ns /\ match(b) = {n}
  <2>1. CASE match(b) = HitByIsbn(b)
    <3>1. \E j \in 1 .. Len(Isbns(b)) : by_isbn(Isbns(b)[j]) = {n} /\ HitByIsbn(b) = {n}
      BY <2>1, ByIsbn
    <3> QED BY <2>1, <3>1 DEF by_isbn
  <2>2. CASE match(b) = HitByPair(b)
    BY <2>2, ByPair DEF by_pair
  <2>3. CASE match(b) = HitByTitle(b)
    BY <2>3, ByTitle DEF by_title
  <2>4. match(b) \in {HitByIsbn(b), HitByPair(b), HitByTitle(b)}
    BY DEF match
  <2> QED BY <2>1, <2>2, <2>3, <2>4
<1> QED BY <1>1, SweptBooks

\* A book whose item was swept is matched to it or to none.
LEMMA MatchIsOwn ==
  ASSUME StateType, NEW b \in Book, NEW n \in DOMAIN out, out[n] = export[b].item
  PROVE  match(b) \subseteq {n}
<1>1. CASE b \notin GraphBooks
  BY <1>1 DEF match
<1>2. CASE b \in GraphBooks
  <2>1. catalogue[out[n]] = Record(b) /\ n \in api
    BY <1>2 DEF GraphBooks, Record, api
  <2>2. /\ Of(n).title_key = Title(b)
        /\ ~ export[b].bare => Of(n).surname = Surname(b) /\ Of(n).isbns = Isbns(b)
    BY <2>1 DEF Of, Title, Surname, Isbns
  <2>3. ASSUME NEW m \in HitByIsbn(b) PROVE m = n
    <3>1. PICK j \in 1 .. Len(Isbns(b)) : by_isbn(Isbns(b)[j]) = {m}
      BY ByIsbn
    <3>2. ~ export[b].bare
      <4>1. export[b].bare => Isbns(b) = <<>>
        BY DEF Isbns
      <4> QED BY <3>1, <4>1
    <3>3. Contains(Of(n).isbns, Isbns(b)[j])
      BY <2>2, <3>1, <3>2 DEF Contains
    <3>4. n \in by_isbn(Isbns(b)[j])
      BY <2>1, <3>3 DEF by_isbn
    <3> QED BY <3>1, <3>4
  <2>4. ASSUME NEW m \in HitByPair(b) PROVE m = n
    <3>1. Surname(b) # Blank /\ by_pair(Title(b), Surname(b)) = {m}
      BY ByPair
    <3>2. ~ export[b].bare
      BY <3>1 DEF Surname
    <3>3. n \in by_pair(Title(b), Surname(b))
      BY <2>1, <2>2, <3>2 DEF by_pair
    <3> QED BY <3>1, <3>3
  <2>5. ASSUME NEW m \in HitByTitle(b) PROVE m = n
    <3>1. by_title(Title(b)) = {m}
      BY ByTitle
    <3>2. n \in by_title(Title(b))
      BY <2>1, <2>2 DEF by_title
    <3> QED BY <3>1, <3>2
  <2>6. match(b) \in {HitByIsbn(b), HitByPair(b), HitByTitle(b)}
    BY <1>2 DEF match
  <2> QED BY <2>3, <2>4, <2>5, <2>6
<1> QED BY <1>1, <1>2

\* Of an item's attachments one is read.
LEMMA ReadsOne ==
  ASSUME StateType, NEW x \in Item, NEW missed
  PROVE  AtMostOne(readable(catalogue[x].files \ missed))
<1>1. Attachments(catalogue[x].files)
  BY LinkPassAssumption DEF StateType, SweepType
<1> SUFFICES ASSUME NEW a \in readable(catalogue[x].files \ missed),
                    NEW c \in readable(catalogue[x].files \ missed)
             PROVE  a = c
  BY OneAtMost
<1>2. /\ a \in catalogue[x].files /\ c \in catalogue[x].files
      /\ a.rank < c.rank \/ (a.rank = c.rank /\ a.key <= c.key)
      /\ c.rank < a.rank \/ (c.rank = a.rank /\ c.key <= a.key)
  BY DEF readable
<1>3. a.key \in Nat /\ c.key \in Nat /\ a.rank \in Nat /\ c.rank \in Nat
  BY <1>1, <1>2 DEF Attachments
<1>4. a.key = c.key
  BY <1>2, <1>3
<1> QED BY <1>1, <1>2, <1>4 DEF Attachments

LEMMA MatchKeeps ==
  ASSUME SweepInv, Match
  PROVE  SweepInv'
<1>1. StateType /\ Finish /\ UNCHANGED <<files, library, cached, history>>
  BY DEF SweepInv, Match
<1>2. CASE UNCHANGED overlay
  BY <1>1, <1>2, FinishKeeps, OverlayWaits DEF StateType
<1>3. CASE ~ UNCHANGED overlay
  <2> DEFINE matches == [b \in Book |-> {out[n] : n \in match(b)}]
  <2>1. PICK missed \in SUBSET UNION {catalogue[x].files : x \in Item} :
           /\ links' = matches
           /\ readers' = [b \in Book |->
                            UNION {readable(catalogue[x].files \ missed) : x \in matches[b]}]
    BY <1>3 DEF Match
  <2>2. ASSUME NEW b \in Book
        PROVE  /\ links'[b] \subseteq Item /\ AtMostOne(links'[b])
               /\ AtMostOne(readers'[b]) /\ (links'[b] = {} => readers'[b] = {})
    <3>1. links'[b] = {out[n] : n \in match(b)}
      BY <2>1
    <3>2. readers'[b] = UNION {readable(catalogue[x].files \ missed) : x \in links'[b]}
      BY <2>1
    <3>3. match(b) \subseteq DOMAIN out /\ AtMostOne(match(b)) /\ out \in Seq(Item)
      BY <1>1, MatchIsOne DEF StateType, SweepType
    <3> HIDE DEF matches
    <3> DEFINE ms == match(b)
    <3> HIDE DEF ms
    <3>4. links'[b] = {out[n] : n \in ms} /\ ms \subseteq DOMAIN out /\ AtMostOne(ms)
      BY <3>1, <3>3 DEF ms
    <3>5. links'[b] \subseteq Item /\ AtMostOne(links'[b])
      <4>1. \A n \in ms : out[n] \in Item
        BY <3>3, <3>4
      <4>2. CASE ms = {}
        <5>1. links'[b] = {}
          BY <3>4, <4>2
        <5> QED BY <5>1 DEF AtMostOne
      <4>3. CASE ms # {}
        <5>1. PICK n : ms = {n}
          BY <3>4, <4>3 DEF AtMostOne
        <5>2. links'[b] = {out[n]}
          BY <3>4, <5>1
        <5> QED BY <4>1, <5>1, <5>2 DEF AtMostOne
      <4> QED BY <4>2, <4>3
    <3>6. CASE links'[b] = {}
      BY <3>2, <3>5, <3>6 DEF AtMostOne
    <3>7. CASE links'[b] # {}
      <4>1. PICK x \in Item : links'[b] = {x}
        BY <3>5, <3>7 DEF AtMostOne
      <4>2. readers'[b] = readable(catalogue[x].files \ missed)
        BY <3>2, <4>1
      <4> QED BY <1>1, <3>5, <3>7, <4>2, ReadsOne
    <3> QED BY <3>6, <3>7
  <2>3. OverlayType'
    BY <2>2 DEF OverlayType
  <2> QED BY <1>1, <2>3, FinishKeeps
<1> QED BY <1>2, <1>3

LEMMA FailKeeps ==
  ASSUME SweepInv, Fail
  PROVE  SweepInv'
BY FinishKeeps, OverlayWaits DEF SweepInv, StateType, Fail

-------------------------------------------------------------------------------
(* Every step.                                                             *)

LEMMA InitIsSwept ==
  ASSUME Init
  PROVE  SweepInv
<1>1. 0 \in Page /\ <<>> \in Seq(Item) /\ Len(<<>>) = 0 /\ 1 .. 0 = {}
  BY LinkPassAssumption DEF Page
<1>2. SweepType
  BY <1>1 DEF Init, SweepType
<1>3. HistoryType
  <2>1. Here = {} /\ Cardinality({}) = 0
    BY FS_EmptySet DEF Init, Here
  <2>2. /\ added = {} /\ losses = 0 /\ Len(library) = 0
        /\ stock = [k \in Page |-> {}] /\ at = [k \in Page |-> 0]
    BY <1>1 DEF Init
  <2>3. stock \in [Page -> SUBSET Item] /\ at \in [Page -> Nat] /\ \A k \in Page : at[k] <= losses
    BY <2>2
  <2> QED BY <2>1, <2>2, <2>3 DEF HistoryType
<1>4. OverlayType
  BY DEF Init, OverlayType, AtMostOne
<1>5. PICK lib, size : lib = [e \in Nat |-> <<>>] /\ size = [k \in Page |-> 0]
  OBVIOUS
<1>6. \A k \in Page : PageOK(lib[at[k]], size[k], k)
  <2> SUFFICES ASSUME NEW k \in Page PROVE PageOK(lib[at[k]], size[k], k)
    OBVIOUS
  <2>1. lib[at[k]] = <<>> /\ size[k] = 0 /\ cached[k] = NoPage /\ stock[k] = {}
    BY <1>5 DEF Init
  <2> QED BY <1>1, <2>1 DEF PageOK
<1>7. /\ lib \in [Nat -> Seq(Item)] /\ size \in [Page -> Nat] /\ lib[losses] = library
      /\ \A e \in Nat : Once(lib[e])
  BY <1>1, <1>5 DEF Init, Once
<1>8. Swept(lib, size)
  BY <1>6, <1>7 DEF Init, Swept
<1> QED BY <1>2, <1>3, <1>4, <1>8 DEF SweepInv, StateType

LEMMA StutterKeeps ==
  ASSUME SweepInv, UNCHANGED vars
  PROVE  SweepInv'
<1>1. /\ UNCHANGED <<files, library, cached, overlay, pc, page, out, history>>
      /\ UNCHANGED <<added, losses, stock, at>>
  BY DEF vars, history
<1>2. PICK lib, size : Swept(lib, size)
  BY DEF SweepInv
<1>3. StateType'
  BY <1>1, SweepWaits, HistoryWaits, OverlayWaits DEF SweepInv, StateType, SweepType
<1>4. Swept(lib, size)'
  BY <1>1, <1>2, PagesWait DEF Swept, Taken, Before
<1> QED BY <1>3, <1>4 DEF SweepInv

LEMMA StepKeeps ==
  ASSUME SweepInv, [Next]_vars
  PROVE  SweepInv'
<1>1. CASE Pass
  BY <1>1, BeginKeeps, FetchKeeps, TurnKeeps, FailKeeps, MatchKeeps DEF Pass
<1>2. CASE \E x \in Item : Add(x)
  BY <1>2, AddKeeps
<1>3. CASE \E i \in 1 .. Len(library) : Delete(i)
  BY <1>3, DeleteKeeps
<1>4. CASE \E k \in Page : Expire(k)
  BY <1>4, ExpireKeeps
<1>5. CASE UNCHANGED vars
  BY <1>5, StutterKeeps
<1> QED BY <1>1, <1>2, <1>3, <1>4, <1>5 DEF Next

LEMMA Invariant == Spec => []SweepInv
BY InitIsSwept, StepKeeps, PTL DEF Spec

-------------------------------------------------------------------------------
(* The theorems.                                                           *)

\* A list of items, as the type invariant says it.
LEMMA SeqIsItems ==
  ASSUME NEW s \in Seq(Item)
  PROVE  ItemSeq(s)
BY DEF ItemSeq

LEMMA OneIsCounted ==
  ASSUME NEW S, AtMostOne(S)
  PROVE  /\ Cardinality(S) \in Nat /\ Cardinality(S) <= 1
         /\ S # {} => Cardinality(S) = 1
<1>1. CASE S = {}
  <2>1. Cardinality(S) = 0
    BY <1>1, FS_EmptySet
  <2> QED BY <1>1, <2>1
<1>2. CASE S # {}
  <2>1. PICK x : S = {x}
    BY <1>2 DEF AtMostOne
  <2>2. Cardinality(S) = 1
    BY <2>1, FS_Singleton
  <2> QED BY <2>2
<1> QED BY <1>1, <1>2

LEMMA TypesFollow ==
  ASSUME SweepInv
  PROVE  TypeOK
<1>1. SweepType /\ HistoryType /\ OverlayType
  BY DEF SweepInv, StateType
<1>2. /\ catalogue \in Catalogues /\ export \in Exports
      /\ library \in Seq(Item) /\ out \in Seq(Item)
      /\ pc \in {"idle", "sweep", "match"} /\ page \in Page
      /\ \A k \in Page : cached[k] # NoPage => cached[k] \in Seq(Item) /\ Len(cached[k]) <= PAGE
  BY <1>1 DEF SweepType
<1>3. \A b \in Book : /\ links[b] \subseteq Item /\ Cardinality(links[b]) <= 1
                      /\ Cardinality(readers[b]) <= Cardinality(links[b])
  <2> SUFFICES ASSUME NEW b \in Book
               PROVE  /\ links[b] \subseteq Item /\ Cardinality(links[b]) <= 1
                      /\ Cardinality(readers[b]) <= Cardinality(links[b])
    OBVIOUS
  <2>1. /\ links[b] \subseteq Item /\ AtMostOne(links[b])
        /\ AtMostOne(readers[b]) /\ (links[b] = {} => readers[b] = {})
    BY <1>1 DEF OverlayType
  <2>2. /\ Cardinality(links[b]) <= 1 /\ Cardinality(readers[b]) <= 1
        /\ Cardinality(links[b]) \in Nat /\ Cardinality(readers[b]) \in Nat
        /\ links[b] # {} => Cardinality(links[b]) = 1
    BY <2>1, OneIsCounted
  <2>3. CASE links[b] = {}
    BY <2>1, <2>2, <2>3
  <2>4. CASE links[b] # {}
    BY <2>1, <2>2, <2>4
  <2> QED BY <2>3, <2>4
<1>4. /\ added \subseteq Item /\ losses \in 0 .. Cardinality(Item)
      /\ stock \in [Page -> SUBSET Item] /\ at \in [Page -> 0 .. Cardinality(Item)]
  <2>1. /\ added \in SUBSET Item /\ losses \in Nat /\ Cardinality(added) = losses + Len(library)
        /\ stock \in [Page -> SUBSET Item] /\ at \in [Page -> Nat] /\ \A k \in Page : at[k] <= losses
    BY <1>1 DEF HistoryType
  <2>2. Cardinality(added) <= Cardinality(Item) /\ Cardinality(Item) \in Nat
    BY <2>1, LinkPassAssumption, FS_Subset, FS_CardinalityType
  <2>3. Len(library) \in Nat
    BY <1>2
  <2>4. losses <= Cardinality(Item)
    BY <2>1, <2>2, <2>3
  <2>5. \A k \in Page : at[k] \in 0 .. Cardinality(Item)
    BY <2>1, <2>2, <2>4
  <2> QED BY <2>1, <2>2, <2>4, <2>5
<1> QED BY <1>2, <1>3, <1>4, SeqIsItems DEF TypeOK

\* The sweep, the cached pages, the overlay and their history have the types the
\* code gives them, whatever is added, deleted and fetched again: a page is never
\* longer than it was asked for, and a book has one link at most and a reader
\* only with a link.
THEOREM TypeCorrect == Spec => []TypeOK
BY Invariant, TypesFollow, PTL

\* Each item of a steady sweep is where the library had it.
LEMMA SteadySweep ==
  ASSUME SweepInv, pc = "match", Steady
  PROVE  \E l \in Seq(Item), n \in Nat :
            /\ Once(l) /\ stock[page] = {l[i] : i \in 1 .. n} /\ n <= Len(out)
            /\ \A i \in 1 .. Len(out) : i <= Len(l) /\ out[i] = l[i]
<1>1. PICK lib, size : Swept(lib, size)
  BY DEF SweepInv
<1>2. page \in Page /\ page \in Nat /\ at \in [Page -> Nat]
  BY PagesBefore DEF SweepInv, StateType, SweepType, HistoryType
<1>3. /\ lib \in [Nat -> Seq(Item)] /\ size \in [Page -> Nat]
      /\ (\A e \in Nat : Once(lib[e])) /\ (\A k \in Page : PageOK(lib[at[k]], size[k], k))
      /\ size[page] <= Len(out) /\ Taken(lib, 0 .. page)
  BY <1>1 DEF Swept
<1>4. PICK l, n : l = lib[at[page]] /\ n = size[page]
  OBVIOUS
<1>5. l \in Seq(Item) /\ n \in Nat /\ Once(l) /\ n <= Len(out)
  BY <1>2, <1>3, <1>4
<1>6. PageOK(l, n, page)
  BY <1>2, <1>3, <1>4
<1>7. \A k \in 0 .. page : at[k] = at[page]
  <2>1. \A k \in 0 .. page : at[k] = at[0]
    BY DEF Steady, Used
  <2>2. page \in 0 .. page
    BY <1>2
  <2> QED BY <2>1, <2>2
<1>8. \A i \in 1 .. Len(out) : i <= Len(l) /\ out[i] = l[i]
  BY <1>3, <1>4, <1>7 DEF Taken
<1> QED BY <1>5, <1>6, <1>8 DEF PageOK

LEMMA SteadyIsExact ==
  ASSUME SweepInv
  PROVE  SweepExact
<1> SUFFICES ASSUME pc = "match", Steady
             PROVE  Throughout \subseteq Range(out) /\ IsInjective(out)
  BY DEF SweepExact
<1>1. PICK l \in Seq(Item), n \in Nat :
         /\ Once(l) /\ stock[page] = {l[i] : i \in 1 .. n} /\ n <= Len(out)
         /\ \A i \in 1 .. Len(out) : i <= Len(l) /\ out[i] = l[i]
  BY SteadySweep
<1>2. /\ out \in Seq(Item) /\ DOMAIN out = 1 .. Len(out) /\ Len(out) \in Nat
      /\ page \in Page /\ page \in Nat
  BY PagesBefore DEF SweepInv, StateType, SweepType
<1>3. IsInjective(out)
  <2> SUFFICES ASSUME NEW i \in DOMAIN out, NEW j \in DOMAIN out, out[i] = out[j]
               PROVE  i = j
    BY DEF IsInjective
  <2>1. i \in 1 .. Len(l) /\ j \in 1 .. Len(l) /\ l[i] = l[j]
    BY <1>1, <1>2
  <2> QED BY <1>1, <2>1 DEF Once
<1>4. ASSUME NEW x \in Throughout PROVE x \in Range(out)
  <2>1. x \in stock[page]
    BY <1>2 DEF Throughout, Used
  <2>2. PICK i \in 1 .. n : x = l[i]
    BY <1>1, <2>1
  <2>3. i \in DOMAIN out /\ out[i] = x
    BY <1>1, <1>2, <2>2
  <2> QED BY <2>3 DEF Range
<1> QED BY <1>3, <1>4

\* A sweep between whose pages nothing was deleted returns every item that was in
\* the library all along, and none twice, whatever was added and however old each
\* cached page is.
THEOREM SweepIsExact == Spec => []SweepExact
BY Invariant, SteadyIsExact, PTL

LEMMA OnlyMatchLinks ==
  ASSUME [Next]_vars, NEW b \in Book, links'[b] # links[b]
  PROVE  Match /\ links'[b] = {out[n] : n \in match(b)}
<1>1. Match
  BY DEF Next, Pass, Begin, Fetch, Turn, Fail, Add, Delete, Expire, vars, overlay
<1>2. links' = [c \in Book |-> {out[n] : n \in match(c)}]
  BY <1>1 DEF Match, overlay
<1> QED BY <1>1, <1>2

LEMMA MatchLinksRight ==
  ASSUME SweepInv, [Next]_vars, pc = "match", Steady, NEW b \in Book,
         links'[b] # links[b], export[b].item \in Throughout
  PROVE  links'[b] \subseteq {export[b].item}
<1>1. PICK n \in DOMAIN out : out[n] = export[b].item
  BY SteadyIsExact DEF SweepExact, Range
<1>2. match(b) \subseteq {n}
  BY <1>1, MatchIsOwn DEF SweepInv
<1>3. links'[b] = {out[m] : m \in match(b)}
  BY OnlyMatchLinks
<1> QED BY <1>1, <1>2, <1>3

\* No book whose item was swept is ever linked to another's, with a bare record
\* or a full one, whatever items of its title or ISBN there are besides.
THEOREM NoLinkIsWrong == Spec => NoWrongLink
<1>1. SweepInv /\ [Next]_vars =>
        [pc = "match" /\ Steady =>
           \A b \in Book :
             links'[b] # links[b] /\ export[b].item \in Throughout
               => links'[b] \subseteq {export[b].item}]_vars
  BY MatchLinksRight
<1> QED BY <1>1, Invariant, PTL DEF Spec, NoWrongLink
===============================================================================
