----------------------------- MODULE MCLinkIntent ---------------------------
(* Most values in the configurations come from LinkInstances.                *)
EXTENDS LinkIntent, LinkInstances, TLC

\* Requests are interchangeable.
Interchangeable == Permutations(Hand)

\* Bound: of the passes and requests two are at work at once.
TwoAtOnce == Cardinality({a \in Actor : pc[a] # "idle"}) <= 2

\* The .bak files and the worksheet are written and never read, by a step or by a
\* property of the run: states that differ in nothing else are one.
Unread == <<clock, bookmarks, cache, lock, pc, now, draft, passVars, handVars, intentVars>>
===============================================================================
