-------------------------------- MODULE Faces --------------------------------
(***************************************************************************)
(* What the two faces of a room do for whom: requests over HTTP, calls     *)
(* over the wire, and the trail of the views each principal has opened.    *)
(*                                                                         *)
(*   session  who each HTTP session is signed in as (SignIn has the        *)
(*            ceremonies).                                                 *)
(*   wire     and each wire connection.                                    *)
(*   req      the HTTP requests; the sessions are locked for a look only,  *)
(*            and what was seen is acted on after.                         *)
(*   trail    RecentLog.                                                   *)
(*   answer   what the last answered request or call was let do.           *)
(*                                                                         *)
(* The kernel is external: a request under a capability succeeds or fails. *)
(***************************************************************************)
EXTENDS Settings, Sequences, FiniteSets

CONSTANTS
  Start,      \* what the room may be started with
  Request, Conn, Sid, Principal, None,
  Tag, Kind,  \* what a tag view is of, and the kinds it can be narrowed to
  Target,     \* what is asked of the kernel
  Carried,    \* the capabilities a wire client may carry
  HostHeader, OriginHeader,
  RECENT_CAP,
  MaxOpens    \* how many views are opened

ASSUME FacesAssumption ==
  /\ RECENT_CAP \in Nat \ {0} /\ MaxOpens \in Nat
  /\ None \notin Principal \cup Sid \cup Kind
  /\ \A t \in Target :
       /\ t.kind = "view" => t.tag \in Tag
       /\ t.kind = "sparql" => t \in [kind : {"sparql"}, budget : Nat \cup {Unstated}, by_reference : BOOLEAN]

VARIABLES
  cfg, session, wire, req, trail, answer,
  \* history
  clock, last   \* how many views have been opened, and when each was last

opened == <<trail, clock, last>>
vars == <<cfg, session, wire, req, opened, answer>>

Idle == [at |-> "idle"]
Action == [kind |-> "act"]

\* What a request was let do when the sessions were looked at: history are vouched,
\* whether its caller has been signed in since it came, and home, whether it came to
\* a loopback address and names a loopback host.
Ticket ==
  [at : {"act", "resolve"}, sid : Sid \cup {None}, principal : Principal \cup {None},
   cap : SUBSET entitlement(cfg), target : Target \cup {Action},
   home : BOOLEAN, vouched : BOOLEAN]

\* An entry of the trail: a tag view, perhaps within a kind.
Entry == Tag \X (Kind \cup {None})

PrincipalOrNone == Principal \cup {None}
Root == "root"

Nothing == [authority |-> {}, principal |-> None, ms |-> 0, sheet |-> "none", recent |-> <<>>,
            vouched |-> FALSE, home |-> FALSE]

TypeOK ==
  /\ cfg.anonymous_sparql_budget \in 1 .. SPARQL_SPACE_CEILING
  /\ session \in [Sid -> PrincipalOrNone] /\ wire \in [Conn -> PrincipalOrNone]
  /\ req \in [Request -> {Idle} \cup Ticket]
  /\ trail \in [Principal -> Seq(Entry)]
  /\ \A p \in Principal : Len(trail[p]) <= RECENT_CAP
  /\ clock \in 0 .. MaxOpens /\ last \in [Principal -> [Entry -> 0 .. MaxOpens]]
  /\ answer.ms \in 0 .. SPARQL_SPACE_CEILING /\ answer.principal \in PrincipalOrNone

Never == [p \in Principal |-> [e \in Entry |-> 0]]

Init ==
  /\ \E start \in Start : cfg \in load(start)
  /\ session = [s \in Sid |-> None]
  /\ wire = [c \in Conn |-> None]
  /\ req = [r \in Request |-> Idle]
  /\ trail = [p \in Principal |-> <<>>]
  /\ clock = 0 /\ last = Never
  /\ answer = Nothing

-------------------------------------------------------------------------------
(* The trail.                                                              *)

Position(s, e) == {i \in DOMAIN s : s[i] = e}

\* s without e, which is in it once at most.
retain(s, e) ==
  IF Position(s, e) = {} THEN s
  ELSE LET k == CHOOSE i \in Position(s, e) : TRUE
       IN  SubSeq(s, 1, k - 1) \o SubSeq(s, k + 1, Len(s))

truncate(s) == IF Len(s) <= RECENT_CAP THEN s ELSE SubSeq(s, 1, RECENT_CAP)

\* Mutant: the oldest goes before the repeat does.
record_truncated(s, e) == <<e>> \o retain(IF Len(s) < RECENT_CAP THEN s ELSE SubSeq(s, 1, RECENT_CAP - 1), e)

record(s, e) == truncate(<<e>> \o retain(s, e))

\* Only a view that its IRI re-opens is recorded, within a kind there is or none.
recordable(target) ==
  IF target.kind # "view" THEN {}
  ELSE {<<target.tag, IF target.type \in Kind THEN target.type ELSE None>>}

note_recent(p, target) ==
  IF p = None THEN UNCHANGED opened
  ELSE \/ recordable(target) = {} /\ UNCHANGED opened
       \/ \E e \in recordable(target) :
            /\ clock < MaxOpens /\ clock' = clock + 1
            /\ trail' = [trail EXCEPT ![p] = record(@, e)]
            /\ last' = [last EXCEPT ![p][e] = clock']

-------------------------------------------------------------------------------
(* The anonymous door, and what comes of a request behind it.              *)

NotANumber == 0   \* a budget that is zero, or no number

\* Only the room's own stylesheets; a transform with none is refused by the endpoint.
refuse_anonymous_stylesheet(target) == target.kind = "style" /\ target.sheet \notin {"room", "none"}

\* Mutant: any number is kept.
stamp_anonymous_budget_any(target, budget) ==
  IF target.kind # "sparql" \/ (target.budget # Unstated /\ ~ target.by_reference) THEN target
  ELSE [target EXCEPT !.budget = budget, !.by_reference = FALSE]

\* The caller's own budget is kept when it is an inline number no larger.
stamp_anonymous_budget(target, budget) ==
  IF target.kind # "sparql" \/ (target.budget \in 1 .. budget /\ ~ target.by_reference) THEN target
  ELSE [target EXCEPT !.budget = budget, !.by_reference = FALSE]

\* What passes the door: the request, changed or not, or nothing.
door(principal, target) ==
  IF principal # None THEN {target}
  ELSE IF refuse_anonymous_stylesheet(target) THEN {}
  ELSE {stamp_anonymous_budget(target, cfg.anonymous_sparql_budget)}

\* The time an evaluation gets, 0 if there is none: a budget that means nothing is
\* refused, and one that is missing or a reference is the space's ceiling.
evaluated(target) ==
  IF target.kind # "sparql" THEN 0
  ELSE IF target.budget = Unstated \/ target.by_reference THEN SPARQL_SPACE_CEILING
  ELSE IF target.budget < SPARQL_SPACE_CEILING THEN target.budget ELSE SPARQL_SPACE_CEILING

\* The trail is the caller's own; the views are the kernel's.
rendered(principal, target) ==
  IF target.kind = "recent" /\ principal # None THEN trail[principal] ELSE <<>>

Answered(authority, principal, target, vouched, home) ==
  answer' = [authority |-> authority, principal |-> principal, ms |-> evaluated(target),
             sheet |-> IF target.kind = "style" THEN target.sheet ELSE "none",
             recent |-> rendered(principal, target),
             vouched |-> vouched, home |-> home]

\* The kernel is asked under cap, and a view that came of it is noted.
Resolves(principal, cap, target, vouched, home) ==
  \/ /\ door(principal, target) = {}
     /\ answer' = Nothing /\ UNCHANGED opened
  \/ \E t \in door(principal, target) :
       /\ Answered(cap, principal, t, vouched, home)
       /\ note_recent(principal, target) \/ UNCHANGED opened

-------------------------------------------------------------------------------
(* HTTP.                                                                   *)

Port(scheme, a) == IF a.port # Unstated THEN a.port ELSE IF scheme = "https" THEN 443 ELSE 80

authority(scheme, a) == <<a.host, Port(scheme, a)>>

\* A request is answered at the room's own origin, or at a loopback name if that is
\* one; an Origin must be the one that Host names.
admits(host, origin) ==
  /\ host # Unstated
  /\ \/ authority(cfg.rp_origin.scheme, host) = authority(cfg.rp_origin.scheme, cfg.rp_origin)
     \/ is_loopback_host(cfg.rp_origin.host) /\ is_loopback_host(host.host)
  /\ origin # Unstated =>
       /\ origin.scheme \in {"http", "https"}
       /\ authority(origin.scheme, host) = authority(origin.scheme, origin)

SignedInAs(s) == IF s = None THEN None ELSE session[s]

authed(s) == cfg.dev_open \/ SignedInAs(s) # None

session_cap(s) ==
  IF SignedInAs(s) # None \/ cfg.dev_open THEN entitlement(cfg) ELSE {}

AtHome(host) == is_loopback_host(cfg.bind) /\ is_loopback_host(host.host)

Held(r, at, s, target, host) ==
  req' = [req EXCEPT ![r] =
            [at |-> at, sid |-> s, principal |-> SignedInAs(s), cap |-> session_cap(s),
             target |-> target, home |-> AtHome(host), vouched |-> SignedInAs(s) # None]]

\* POST /purge, /link/keep and the rest: whoever is signed in may, and the sessions
\* are not looked at again.
HttpAct(r, host, origin, s) ==
  /\ req[r].at = "idle"
  /\ admits(host, origin)
  /\ authed(s)
  /\ Held(r, "act", s, Action, host)
  /\ answer' = Nothing
  /\ UNCHANGED <<cfg, session, wire, opened>>

\* GET /r/{iri}: the arguments ride in the query.
HttpResolve(r, host, origin, s, target) ==
  /\ req[r].at = "idle"
  /\ target.kind = "sparql" => ~ target.by_reference
  /\ admits(host, origin)
  /\ Held(r, "resolve", s, target, host)
  /\ answer' = Nothing
  /\ UNCHANGED <<cfg, session, wire, opened>>

\* The action runs as root.
Act(r) ==
  /\ req[r].at = "act"
  /\ Answered({Root}, req[r].principal, req[r].target, req[r].vouched, req[r].home)
  /\ req' = [req EXCEPT ![r] = Idle]
  /\ UNCHANGED <<cfg, session, wire, opened>>

Resolve(r) ==
  /\ req[r].at = "resolve"
  /\ Resolves(req[r].principal, req[r].cap, req[r].target, req[r].vouched, req[r].home)
  /\ req' = [req EXCEPT ![r] = Idle]
  /\ UNCHANGED <<cfg, session, wire>>

-------------------------------------------------------------------------------
(* The wire.                                                               *)

ceiling(c) == IF wire[c] = None THEN {} ELSE entitlement(cfg)

\* Mutant: the capability that is carried replaces the ceiling.
clamp_replaced(c, carried) == carried

clamp(c, carried) == ceiling(c) \cap carried

\* Issue under the ceiling.
Issue(c, target) ==
  /\ Resolves(wire[c], ceiling(c), target, wire[c] # None, FALSE)
  /\ UNCHANGED <<cfg, session, wire, req>>

\* IssueAs, and IssueWith unless its caller is recording: the carried capability can
\* only lower the ceiling.
IssueAs(c, target, carried) ==
  /\ Resolves(wire[c], clamp(c, carried), target, wire[c] # None, FALSE)
  /\ UNCHANGED <<cfg, session, wire, req>>

-------------------------------------------------------------------------------
(* Who is signed in.                                                       *)

Quiet == answer' = Nothing /\ UNCHANGED <<cfg, opened>>

HttpLogin(s, p) ==
  /\ session' = [session EXCEPT ![s] = p]
  /\ req' = [r \in Request |-> IF req[r].at # "idle" /\ req[r].sid = s
                                 THEN [req[r] EXCEPT !.vouched = TRUE] ELSE req[r]]
  /\ Quiet /\ UNCHANGED wire

HttpLogout(s) ==
  /\ session[s] # None /\ session' = [session EXCEPT ![s] = None]
  /\ Quiet /\ UNCHANGED <<wire, req>>

WireLogin(c, p) ==
  /\ wire' = [wire EXCEPT ![c] = p]
  /\ Quiet /\ UNCHANGED <<session, req>>

WireResume(c, s) ==
  /\ session[s] # None /\ wire' = [wire EXCEPT ![c] = session[s]]
  /\ Quiet /\ UNCHANGED <<session, req>>

\* urn:auth:logout, or the connection is closed.
WireLogout(c) ==
  /\ wire[c] # None /\ wire' = [wire EXCEPT ![c] = None]
  /\ Quiet /\ UNCHANGED <<session, req>>

Restart ==
  /\ session' = [s \in Sid |-> None] /\ wire' = [c \in Conn |-> None]
  /\ req' = [r \in Request |-> Idle]
  /\ trail' = [p \in Principal |-> <<>>] /\ clock' = 0 /\ last' = Never
  /\ answer' = Nothing /\ UNCHANGED cfg

-------------------------------------------------------------------------------
Cookie == Sid \cup {None}

HttpStep(r) ==
  \/ \E host \in HostHeader, origin \in OriginHeader, s \in Cookie :
       \/ HttpAct(r, host, origin, s)
       \/ \E target \in Target : HttpResolve(r, host, origin, s, target)
  \/ Act(r) \/ Resolve(r)

WireStep(c) ==
  \/ \E target \in Target : \/ Issue(c, target)
                            \/ \E carried \in Carried : IssueAs(c, target, carried)
  \/ \E p \in Principal : WireLogin(c, p)
  \/ \E s \in Sid : WireResume(c, s)
  \/ WireLogout(c)

Next ==
  \/ \E r \in Request : HttpStep(r)
  \/ \E c \in Conn : WireStep(c)
  \/ \E s \in Sid : HttpLogout(s) \/ \E p \in Principal : HttpLogin(s, p)
  \/ Restart

Spec == Init /\ [][Next]_vars

-------------------------------------------------------------------------------
(* Properties.                                                             *)

\* Without a sign-in nobody gets more than the public sees, unless the room is open to
\* its own machine; and then only requests that came to a loopback address and name a
\* loopback host do, whatever the file and the flags say (check_reachable, admits).
OpenOnlyAtHome == answer.authority # {} /\ ~ answer.vouched => cfg.dev_open /\ answer.home

\* What is done as root, or under the entitlement, is done for somebody signed in since
\* the request came, under no more than a passkey is granted, whatever the caller
\* carries and whoever signs out meanwhile.
AuthorityIsEarned ==
  ~ cfg.dev_open => /\ answer.authority # {} => answer.vouched
                    /\ answer.authority \subseteq entitlement(cfg) \cup {Root}

\* A caller who is not signed in never gets more time than the operator's budget, nor a
\* stylesheet that is not the room's, nor anybody's trail, on either face.
DoorHolds ==
  answer.principal = None => /\ answer.ms <= cfg.anonymous_sparql_budget
                             /\ answer.sheet \in {"room", "none"}
                             /\ answer.recent = <<>>

\* The trail of each is the RECENT_CAP views it opened last, newest first, in whatever
\* order its requests and calls end.
Trail == INSTANCE RecentTrail WITH shown <- trail
TrailIsLatest == Trail!Spec
===============================================================================
