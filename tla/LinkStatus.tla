------------------------------ MODULE LinkStatus ------------------------------
(***************************************************************************)
(* The link checker's verdicts: what the room records about one bookmarked *)
(* URL, how one check changes that record, and which records the reviewed  *)
(* purges may act on.  Pure operators; src/maintenance.rs "the persisted   *)
(* status + its policy".                                                   *)
(*                                                                         *)
(* A record drops the fields nothing decides on (url, subject, title), and *)
(* keeps of the free-text reason the one fact `merge` reads back from it:  *)
(* whether it names NXDOMAIN.  Only kept_at > 0 is ever asked of kept_at,  *)
(* and the only arithmetic on it is max, so it is a Boolean here.          *)
(***************************************************************************)
EXTENDS Naturals

CONSTANTS
  WeekSecs,      \* WEEK_SECS: how long an ok (or kept) verdict stays fresh
  ConfirmGap,    \* NXDOMAIN_CONFIRM_GAP_SECS
  DurableRuns,   \* DURABLE_RUNS
  DurableSecs,   \* DURABLE_SECS
  MaxTime        \* bound: the last instant of the modelled clock

ASSUME PolicyAssumption ==
  /\ WeekSecs \in Nat /\ ConfirmGap \in Nat /\ DurableSecs \in Nat
  /\ DurableRuns \in Nat \ {0}
  /\ MaxTime \in Nat \ {0}

Time      == 1 .. MaxTime
Timestamp == 0 .. MaxTime

Broken == {"gone", "nxdomain", "unreachable", "refused"}

\* An entry of the status cache.  broken_count saturates at DurableRuns, the
\* only number it is compared with.
Status == [status  : {"ok"} \cup Broken,
           nx      : BOOLEAN,
           checked : Timestamp,
           first   : Timestamp,
           count   : 0 .. DurableRuns,
           kept    : BOOLEAN]

\* No entry for the URL; its fields are what `merge` defaults to without one.
Absent == [status |-> "absent", nx |-> FALSE, checked |-> 0, first |-> 0,
           count |-> 0, kept |-> FALSE]

Entry == Status \cup {Absent}

Outcome == {"alive", "gone", "unreachable", "refused", "nxdomain"}

RemovalSet == {"nxdomain", "gone", "unreachable"}

-------------------------------------------------------------------------------
\* u64::saturating_sub
Elapsed(now, since) == IF now >= since THEN now - since ELSE 0

kept(s) == s.kept

removable(s) == s.status = "gone"

dead_domain(s) == s.status = "nxdomain"

durably_unreachable(s, now) ==
  /\ s.status = "unreachable"
  /\ s.count >= DurableRuns
  /\ Elapsed(now, s.first) >= DurableSecs

\* Whether a reviewed removal set may act on an entry.
Candidate(set, s, now) ==
  /\ ~ kept(s)
  /\ \/ set = "nxdomain"    /\ dead_domain(s)
     \/ set = "gone"        /\ removable(s)
     \/ set = "unreachable" /\ durably_unreachable(s, now)

candidates(set, cache, now) ==
  {u \in DOMAIN cache : Candidate(set, cache[u], now)}

\* What the review page and the dead-links.org worksheet list.
buckets(cache) ==
  {u \in DOMAIN cache : cache[u].status \in Broken /\ ~ kept(cache[u])}

\* An old file's confirmed NXDOMAIN was written as "gone".
migrate(s) ==
  IF s.status = "gone" /\ s.nx THEN [s EXCEPT !.status = "nxdomain"] ELSE s

\* A URL this run does not check again.
fresh(s, now) ==
  /\ s.status = "ok" \/ kept(s)
  /\ Elapsed(now, s.checked) < WeekSecs

-------------------------------------------------------------------------------
\* Mutant: any second NXDOMAIN confirms.
Confirmed_at_once(prev, now) == prev.status = "nxdomain" \/ prev.nx

\* Mutant: a confirmed domain has to pass the gap test again.
Confirmed_anew(prev, now) == prev.nx /\ Elapsed(now, prev.checked) >= ConfirmGap

\* Whether an NXDOMAIN answer confirms a dead domain.
Confirmed(prev, now) ==
  \/ prev.status = "nxdomain"
  \/ prev.nx /\ Elapsed(now, prev.checked) >= ConfirmGap

Verdict(prev, outcome, now) ==
  CASE outcome = "alive"    -> "ok"
    [] outcome = "nxdomain" -> IF Confirmed(prev, now) THEN "nxdomain"
                                                       ELSE "unreachable"
    [] OTHER                -> outcome

\* Mutant: a link that recovered counts as broken all along.
StillBroken_if_seen(prev) == prev # Absent

StillBroken(prev) == prev.status \in Broken /\ prev.first > 0

SaturatingInc(n) == IF n < DurableRuns THEN n + 1 ELSE n

\* Fold one check into the entry the pass started from.
merge(prev, outcome, now) ==
  [status  |-> Verdict(prev, outcome, now),
   nx      |-> outcome = "nxdomain",
   checked |-> now,
   first   |-> IF outcome = "alive" THEN 0
               ELSE IF StillBroken(prev) THEN prev.first ELSE now,
   count   |-> IF outcome = "alive" THEN 0
               ELSE IF StillBroken(prev) THEN SaturatingInc(prev.count) ELSE 1,
   kept    |-> prev.kept]
===============================================================================
