----------------------------- MODULE LinkEvidence -----------------------------
(***************************************************************************)
(* The link review with what the checks actually saw: history variables    *)
(* beside LinkReview, against which the recorded verdicts are judged.      *)
(***************************************************************************)
EXTENDS LinkReview, LinkProbe

VARIABLES
  nxRuns,     \* per URL, the start times of the passes that saw NXDOMAIN
  failed,     \* per URL, the checks failed since it was last seen alive
  alive,      \* per URL, when it was last seen alive (0: never)
  heard       \* per URL, what its last check finally heard

sightVars == <<nxRuns, failed, alive, heard>>
sightedVars == <<vars, sightVars>>

SightInit ==
  /\ Init
  /\ nxRuns = [u \in Url |-> {}]
  /\ failed = [u \in Url |-> 0]
  /\ alive = [u \in Url |-> 0]
  /\ heard = [u \in Url |-> "nothing"]

Sight(p, u, probe) ==
  /\ heard' = [heard EXCEPT ![u] = Heard(probe)]
  /\ nxRuns' = [nxRuns EXCEPT ![u] = IF Heard(probe) = "noSuchHost" THEN @ \cup {now[p]} ELSE @]
  /\ failed' = [failed EXCEPT ![u] = IF check(probe) = "alive" THEN 0 ELSE SaturatingInc(@)]
  /\ alive' = [alive EXCEPT ![u] = IF check(probe) = "alive" THEN clock ELSE @]

\* A check whose outcome is among the ones to be found.
Sighting(p, u, probe) ==
  /\ check(probe) \in Found
  /\ Check(p, u, check(probe))
  /\ Sight(p, u, probe)

SightNext ==
  \/ \E p \in Pass, u \in Url, probe \in Probes : Sighting(p, u, probe)
  \/ (RoomStep \/ Edit \/ Tick) /\ UNCHANGED sightVars

SightSpec == SightInit /\ [][SightNext]_sightedVars

-------------------------------------------------------------------------------
(* Properties.                                                             *)

Apart(times, gap) == \E s, t \in times : t - s >= gap

\* A dead domain rests on NXDOMAIN seen by two passes that began at least
\* ConfirmGap apart (merge's confirmation, whatever checkpoints, concurrent
\* passes and stale starting copies come between).
DeadDomainTwoRuns ==
  \A u \in Url : dead_domain(cache[u]) => Apart(nxRuns[u], ConfirmGap)

\* A confirmed dead domain stays confirmed when it is seen NXDOMAIN once more,
\* however soon (merge: more evidence never lowers a verdict).
VerdictNotLowered ==
  [][\A u \in Url : dead_domain(cache[u]) /\ cache'[u].nx => dead_domain(cache'[u])]_vars

\* Every pass has written what it saw.
Settled == \A p \in Pass : pc[p] = "idle"

\* What an entry says of its own past is what was seen: a link recorded as broken
\* since some time was not seen alive after it (first_broken_at, "first went (and has
\* since stayed) broken"), and as many checks of it failed since as it counts
\* (broken_count, "how many consecutive runs it has checked broken").
BrokenIsAttested ==
  Settled => \A u \in Url :
    cache[u].status \in Broken => alive[u] <= cache[u].first /\ cache[u].count <= failed[u]

\* What says that a page is not there, or that nothing answers its address.  A
\* 502 counts with the latter, as the code has it.
NobodyThere == {"notFound", "noSuchHost", "resolverBusy", "noConnection", "unavailable", "odd"}

\* A link is offered for removal only if its last check heard a GET's 404 or
\* nobody at all: what a server that was reached turns away, or says to a HEAD
\* alone, is never evidence of death, at any age (Outcome::Refused, check_once).
OfferedIsUnanswered ==
  Settled => \A u \in Url :
    (\E set \in RemovalSet : Candidate(set, cache[u], clock)) => heard[u] \in NobodyThere
===============================================================================
