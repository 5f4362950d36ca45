----------------------------- MODULE MCTagOverlay -----------------------------
(* Values the instances of the tag overlays give their constants.            *)
EXTENDS TagOverlay

CONSTANTS b1, b2, w1, w2, t1

\* One book, which stays where it is.
OneWork == {[b \in {b1} |-> w1]}

\* Two records of the export are one work; one of them may leave it.
Duplicates == {[b \in {b1, b2} |-> w1], [b \in {b1, b2} |-> IF b = b1 THEN w1 ELSE NoWork]}

NothingYet == {NoEntries}
OneChip    == {[NoEntries EXCEPT !["suggestions"] = {<<b1, t1>>}]}

MatchOne  == SUBSET {w1}
MatchNone == {{}}
===============================================================================
