----------------------------- MODULE RecentTrail -----------------------------
(***************************************************************************)
(* What the recency trail promises: of the views a principal has opened,   *)
(* the RECENT_CAP that were opened last, the last one first.               *)
(***************************************************************************)
EXTENDS Naturals, Sequences

CONSTANTS Principal, Entry, RECENT_CAP

VARIABLES
  clock,  \* how many views have been opened
  last,   \* when each principal opened each view last, 0 for never
  shown   \* the trail of each

vars == <<clock, last, shown>>

Shows(s, e) == \E i \in DOMAIN s : s[i] = e

\* s is the trail of somebody who opened each view at[e] last.
Latest(at, s) ==
  /\ s \in Seq(Entry) /\ Len(s) <= RECENT_CAP
  /\ \A i \in DOMAIN s : at[s[i]] > 0
  /\ \A i, j \in DOMAIN s : i < j => at[s[i]] > at[s[j]]
  /\ \A e \in Entry : at[e] > 0 /\ ~ Shows(s, e) =>
       Len(s) = RECENT_CAP /\ \A i \in DOMAIN s : at[s[i]] > at[e]

Never == [p \in Principal |-> [e \in Entry |-> 0]]

Init ==
  /\ clock = 0 /\ last = Never
  /\ shown = [p \in Principal |-> <<>>]

Open(p, e) ==
  /\ clock' = clock + 1
  /\ last' = [last EXCEPT ![p][e] = clock']
  /\ \A q \in Principal : IF q = p THEN Latest(last'[p], shown'[p]) ELSE shown'[q] = shown[q]
  /\ DOMAIN shown' = Principal

\* The room is started again: nothing is kept.
Forget == clock' = 0 /\ last' = Never /\ shown' = [p \in Principal |-> <<>>]

Next == Forget \/ \E p \in Principal, e \in Entry : Open(p, e)

Spec == Init /\ [][Next]_vars
===============================================================================
