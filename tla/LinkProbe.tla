------------------------------ MODULE LinkProbe ------------------------------
(***************************************************************************)
(* One reachability check, from what the network answered to the outcome   *)
(* that `merge` folds in: a HEAD, a GET that confirms a 404, and a second  *)
(* try when nothing answered.  Pure operators; src/maintenance.rs "the     *)
(* outbound transport" and `check`.                                        *)
(***************************************************************************)
EXTENDS Sequences, Naturals

\* Why a request got no answer: the name does not exist, the resolver did not
\* say, no connection was made, the handshake failed, or it failed after that.
Failure == {"noSuchHost", "resolverBusy", "noConnection", "tls", "pastDoor"}

\* A 502, or a 503 without Retry-After, is as transient as a failure.
Transient == Failure \cup {"unavailable"}

\* Any other answer with a status, or an endpoint's refusal, is permanent.
HeadAnswer == {"true", "false", "odd", "answered"} \cup Transient
GetAnswer  == {"ok", "notFound", "answered"} \cup Transient

\* What one try heard: the GET is sent when the HEAD says the page is not there.
Try == [head : HeadAnswer \ {"false"}, get : {"unsent"}] \cup [head : {"false"}, get : GetAnswer]

-------------------------------------------------------------------------------
reached_a_server(f) == f \in {"tls", "pastDoor"}

\* The tag the transport leaves on a failure.
send_error_string(f) ==
  CASE f = "noSuchHost"    -> "nxdomain"
    [] reached_a_server(f) -> "refused"
    [] OTHER               -> "none"

\* Mutant: a failure behind the door counts as no answer.
transport_outcome_lumped(a) == IF send_error_string(a) = "nxdomain" THEN "nxdomain" ELSE "unreachable"

transport_outcome(a) ==
  IF send_error_string(a) = "none" THEN "unreachable" ELSE send_error_string(a)

confirm_gone_with_get(get) ==
  CASE get = "notFound"   -> "gone"
    [] get \in Transient  -> transport_outcome(get)
    [] OTHER              -> "alive"

check_once(try) ==
  CASE try.head = "false"      -> confirm_gone_with_get(try.get)
    [] try.head = "odd"        -> "unreachable"
    [] try.head \in Transient  -> transport_outcome(try.head)
    [] OTHER                   -> "alive"

\* The tries of one check: a second one when nothing answered the first.
Probes ==
  {<<a>> : a \in {x \in Try : check_once(x) # "unreachable"}}
    \cup {x \in Try : check_once(x) = "unreachable"} \X Try

check(probe) == check_once(probe[Len(probe)])

-------------------------------------------------------------------------------
\* What the check finally heard.
Heard(probe) ==
  LET last == probe[Len(probe)]
  IN  IF last.head = "false" THEN last.get ELSE last.head
===============================================================================
