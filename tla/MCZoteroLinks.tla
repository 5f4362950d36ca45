---------------------------- MODULE MCZoteroLinks ----------------------------
(* Values the instances of the link pass give their constants.               *)
EXTENDS ZoteroLinks

CONSTANTS x1, x2, x3, b1, b2, Lem, Eco, Solaris, SolarisPunct, Katar, i1, i2, i1short, na

\* A title in two spellings, and an ISBN in two forms and a field that holds none.
Titles == Solaris :> "solaris" @@ SolarisPunct :> "solaris" @@ Katar :> "katar"
Isbn13 == i1 :> i1 @@ i2 :> i2 @@ i1short :> i1 @@ na :> Blank

Entry(t, s, is, fs) == [title |-> t, surname |-> s, isbns |-> is, files |-> fs]

Epub   == [imported |-> TRUE, rank |-> 0, key |-> 2]
Linked == [imported |-> FALSE, rank |-> 0, key |-> 0]

\* Two editions of one novel, one of them with two ISBNs and perhaps retitled, and a
\* namesake by another author.
Novels(retitled) ==
  x1 :> Entry(Solaris, Lem, <<i1short, i1>>, {Epub, Linked})
  @@ x2 :> Entry(retitled, Lem, <<na, i1, i2>>, {})
  @@ x3 :> Entry(Solaris, Eco, <<>>, {})

Shelf == {Novels(SolarisPunct), Novels(Katar)}

TwoRecords(x, y, bare) ==
  [b \in {b1, b2} |-> IF b = b1 THEN [item |-> x, bare |-> FALSE] ELSE [item |-> y, bare |-> bare]]

\* The two editions, or one of them and the namesake, whose record may be bare.
TwoBooks == {TwoRecords(x1, x2, FALSE), TwoRecords(x2, x3, TRUE), TwoRecords(x1, x3, TRUE)}
===============================================================================
