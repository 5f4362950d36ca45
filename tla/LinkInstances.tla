---------------------------- MODULE LinkInstances ----------------------------
(* Values the instances of the link review give their constants.            *)
EXTENDS LinkStatus

CONSTANTS u1, u2

\* An entry after one failed check at the first instant.
Failed(s) == [status |-> s, nx |-> FALSE, checked |-> 1, first |-> 1,
              count |-> 1, kept |-> FALSE]

\* What an old version of the program wrote for a confirmed NXDOMAIN.
Legacy == [Failed("gone") EXCEPT !.nx = TRUE]

Unchecked == {[u \in {u1} |-> Absent]}

OneGone == {[u \in {u1} |-> Failed("gone")]}

OneLegacy == {[u \in {u1, u2} |-> IF u = u1 THEN Legacy ELSE Absent]}

JustOne   == {{u1}}
OneOrNone == {{u1}, {}}
===============================================================================
