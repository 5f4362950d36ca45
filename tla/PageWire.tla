------------------------------- MODULE PageWire -------------------------------
(***************************************************************************)
(* The page's own connection: wire.js brings it up for the session that    *)
(* auth.js signs in, sends the room's views over it while it is ready, and *)
(* lets htmx send them over HTTP when it is not.                           *)
(*                                                                         *)
(*   page      what auth.js shows, and cookie the session it is for.       *)
(*   session   the sessions at the server; one the page has left is free   *)
(*             to stand for the next.                                      *)
(*   wt,ready  wire.js's own; step, token, on and resume are the locals of *)
(*             connect, each of whose awaits may be overtaken.             *)
(*   link      the connections, and bridged what the server took each for. *)
(*   hears     those whose closing has yet to run its drop.                *)
(*   call      the views that are asked for, on the connection they ride.  *)
(***************************************************************************)
EXTENDS FiniteSets

CONSTANTS Sid, Conn, Call, None

ASSUME PageAssumption == None \notin Sid \cup Conn

VARIABLES
  page, cookie, session,
  wt, ready, step, token, on, resume,
  link, bridged, hears, call,
  late   \* history: an event of an earlier connection has dropped a later one

shown   == <<page, cookie, session>>
connVars == <<step, token, on, resume>>
vars == <<shown, wt, ready, connVars, link, bridged, hears, call, late>>

connecting == step # "idle"

Local  == [at |-> "idle", on |-> None]
TypeOK ==
  /\ page \in {"out", "in", "leaving"} /\ cookie \in Sid \cup {None}
  /\ session \in [Sid -> {"in", "over", "left"}]
  /\ wt \in Conn \cup {None} /\ ready \in BOOLEAN /\ (ready => wt # None)
  /\ step \in {"idle", "status", "told", "dialling", "resuming"}
  /\ token \in Sid \cup {None} /\ on \in Conn \cup {None}
  /\ resume \in {"none", "sent", "ok", "refused"}
  /\ link \in [Conn -> {"closed", "dialled", "open"}] /\ bridged \in [Conn -> Sid \cup {None}]
  /\ hears \subseteq Conn /\ late \in BOOLEAN
  /\ call \in [Call -> [at : {"idle", "http", "wire"}, on : Conn \cup {None}]]

\* The page is loaded: auth.js asks who is signed in and wire.js connects.
Init ==
  /\ cookie \in Sid \cup {None}
  /\ session = [s \in Sid |-> IF s = cookie THEN "in" ELSE "left"]
  /\ page = IF cookie = None THEN "out" ELSE "in"
  /\ wt = None /\ ready = FALSE
  /\ step = "status" /\ token = None /\ on = None /\ resume = "none"
  /\ link = [c \in Conn |-> "closed"] /\ bridged = [c \in Conn |-> None]
  /\ hears = {} /\ call = [k \in Call |-> Local] /\ late = FALSE

drop == wt' = None /\ ready' = FALSE

\* An event of c drops whatever connection there is.
DroppedBy(c) == drop /\ late' = (late \/ wt \notin {None, c})

Close(cs) ==
  /\ link' = [c \in Conn |-> IF c \in cs THEN "closed" ELSE link[c]]
  /\ bridged' = [c \in Conn |-> IF c \in cs THEN None ELSE bridged[c]]

\* Mutant: no finally.
Over_unsaid == UNCHANGED connVars

\* finally: whatever came of it, connect may be called again.
Over == step' = "idle" /\ token' = None /\ on' = None /\ resume' = "none"

Free(c) ==
  /\ link[c] = "closed" /\ c \notin hears \cup {wt, on}
  /\ \A k \in Call : call[k].on # c

-------------------------------------------------------------------------------
(* auth.js.                                                                *)

\* connect is no more than a return while there is a connection, or one under way.
connect ==
  IF ready \/ connecting THEN UNCHANGED connVars
  ELSE step' = "status" /\ UNCHANGED <<token, on, resume>>

\* The passkey is verified: the session is there before the page knows.
SignIn(s) ==
  /\ page = "out" /\ cookie = None
  /\ session[s] = "left" /\ token # s /\ \A c \in Conn : bridged[c] # s
  /\ session' = [session EXCEPT ![s] = "in"] /\ cookie' = s
  /\ UNCHANGED <<page, wt, ready, connVars, link, bridged, hears, call, late>>

\* The room is shown, then ikigai:authed.
Authed ==
  /\ page = "out" /\ cookie # None
  /\ page' = "in"
  /\ connect
  /\ UNCHANGED <<cookie, session, wt, ready, link, bridged, hears, call, late>>

SignOut ==
  /\ page = "in"
  /\ page' = "leaving" /\ session' = [session EXCEPT ![cookie] = "over"]
  /\ UNCHANGED <<cookie, wt, ready, connVars, link, bridged, hears, call, late>>

\* The answer is lost, and nothing comes of the click.
SignOutLost ==
  /\ page = "leaving" /\ page' = "in"
  /\ UNCHANGED <<cookie, session, wt, ready, connVars, link, bridged, hears, call, late>>

\* Mutant: the connection is dropped before it is closed.
Deauthed_dropped ==
  /\ page = "leaving" /\ page' = "out" /\ cookie' = None
  /\ session' = [session EXCEPT ![cookie] = "left"]
  /\ drop
  /\ UNCHANGED <<connVars, link, bridged, hears, call, late>>

\* ikigai:deauthed is disconnect, and then the room is emptied.
Deauthed ==
  /\ page = "leaving" /\ page' = "out" /\ cookie' = None
  /\ session' = [session EXCEPT ![cookie] = "left"]
  /\ drop /\ Close({wt} \ {None})
  /\ UNCHANGED <<connVars, hears, call, late>>

\* Another tab signs out, or the room is restarted.
EndedElsewhere ==
  /\ page = "in" /\ session[cookie] = "in"
  /\ session' = [session EXCEPT ![cookie] = "over"]
  /\ UNCHANGED <<page, cookie, wt, ready, connVars, link, bridged, hears, call, late>>

-------------------------------------------------------------------------------
(* connect, from one await to the next.                                    *)

\* /auth/status tells the session's token; what it tells is acted on later.
Status ==
  /\ step = "status" /\ step' = "told"
  /\ token' = IF cookie # None /\ session[cookie] = "in" THEN cookie ELSE None
  /\ UNCHANGED <<shown, wt, ready, on, resume, link, bridged, hears, call, late>>

Unauthenticated ==
  /\ step = "told" /\ token = None
  /\ Over
  /\ UNCHANGED <<shown, wt, ready, link, bridged, hears, call, late>>

Dial(c) ==
  /\ step = "told" /\ token # None
  /\ Free(c)
  /\ link' = [link EXCEPT ![c] = "dialled"]
  /\ wt' = c /\ on' = c /\ step' = "dialling"
  /\ UNCHANGED <<shown, ready, token, resume, bridged, hears, call, late>>

\* Mutant: the connection is taken for ready before it is bridged.
Opened_ready ==
  /\ step = "dialling" /\ link[on] = "open"
  /\ IF wt = None THEN drop /\ Over
     ELSE /\ step' = "resuming" /\ resume' = "sent" /\ ready' = TRUE
          /\ UNCHANGED <<wt, token, on>>
  /\ UNCHANGED <<shown, link, bridged, hears, call, late>>

\* wireCall reads wt again: it is gone if the page signed out meanwhile, and the catch
\* drops what is left.
Opened ==
  /\ step = "dialling" /\ link[on] = "open"
  /\ IF wt = None THEN drop /\ Over
     ELSE step' = "resuming" /\ resume' = "sent" /\ UNCHANGED <<wt, ready, token, on>>
  /\ UNCHANGED <<shown, link, bridged, hears, call, late>>

\* urn:auth:resume at the server.
Bridge ==
  /\ resume = "sent" /\ link[on] = "open"
  /\ IF session[token] = "in"
       THEN bridged' = [bridged EXCEPT ![on] = token] /\ resume' = "ok"
       ELSE resume' = "refused" /\ UNCHANGED bridged
  /\ UNCHANGED <<shown, wt, ready, step, token, on, link, hears, call, late>>

\* Its answer is read.  With wt gone wt.closed is a TypeError, and the catch drops.
Resumed ==
  /\ step = "resuming" /\ resume = "ok"
  /\ IF wt = None THEN drop /\ UNCHANGED hears
     ELSE ready' = TRUE /\ hears' = hears \cup {wt} /\ UNCHANGED wt
  /\ Over
  /\ UNCHANGED <<shown, link, bridged, call, late>>

Refused ==
  /\ step = "resuming" /\ resume = "refused"
  /\ Close({wt} \ {None}) /\ drop
  /\ Over
  /\ UNCHANGED <<shown, hears, call, late>>

\* The catch: a fetch fails, or the connection closes before it is ready.
ConnectFails ==
  /\ \/ step \in {"status", "told"}
     \/ step \in {"dialling", "resuming"} /\ link[on] = "closed"
  /\ drop /\ Over
  /\ UNCHANGED <<shown, link, bridged, hears, call, late>>

-------------------------------------------------------------------------------
(* The connections.                                                        *)

Accepted(c) ==
  /\ link[c] = "dialled"
  /\ link' = [link EXCEPT ![c] = "open"]
  /\ UNCHANGED <<shown, wt, ready, connVars, bridged, hears, call, late>>

\* By the network or the server.
Lost(c) ==
  /\ link[c] # "closed"
  /\ Close({c})
  /\ UNCHANGED <<shown, wt, ready, connVars, hears, call, late>>

\* wt.closed.then(drop, drop).
Heard(c) ==
  /\ c \in hears /\ link[c] = "closed"
  /\ hears' = hears \ {c}
  /\ DroppedBy(c)
  /\ UNCHANGED <<shown, connVars, link, bridged, call>>

-------------------------------------------------------------------------------
(* The views.                                                              *)

\* htmx:beforeRequest: over the wire if it is ready, else let htmx.
Ask(k) ==
  /\ page # "out" /\ call[k] = Local
  /\ call' = [call EXCEPT ![k] = IF ready THEN [at |-> "wire", on |-> wt]
                                          ELSE [at |-> "http", on |-> None]]
  /\ UNCHANGED <<shown, wt, ready, connVars, link, bridged, hears, late>>

Swapped(k) ==
  /\ \/ call[k].at = "wire" /\ link[call[k].on] = "open"
     \/ call[k].at = "http"
  /\ call' = [call EXCEPT ![k] = Local]
  /\ UNCHANGED <<shown, wt, ready, connVars, link, bridged, hears, late>>

\* Mutant: the wire is dropped and the view is not asked for again.
WireFailed_dropped(k) ==
  /\ call[k].at = "wire" /\ link[call[k].on] = "closed"
  /\ DroppedBy(call[k].on)
  /\ UNCHANGED <<shown, connVars, link, bridged, hears, call>>

\* A call fails with its connection: the server ends one on any error of a stream.
WireFailed(k) ==
  /\ call[k].at = "wire" /\ link[call[k].on] = "closed"
  /\ DroppedBy(call[k].on)
  /\ call' = [call EXCEPT ![k] = [at |-> "http", on |-> None]]
  /\ UNCHANGED <<shown, connVars, link, bridged, hears>>

-------------------------------------------------------------------------------
Connecting ==
  \/ Status \/ Unauthenticated \/ (\E c \in Conn : Dial(c))
  \/ Opened \/ Bridge \/ Resumed \/ Refused \/ ConnectFails

Signing == (\E s \in Sid : SignIn(s)) \/ Authed \/ SignOut \/ SignOutLost \/ Deauthed \/ EndedElsewhere

Network == \E c \in Conn : Accepted(c) \/ Lost(c) \/ Heard(c)

Viewing == \E k \in Call : Ask(k) \/ Swapped(k) \/ WireFailed(k)

Next == Connecting \/ Signing \/ Network \/ Viewing

Spec == Init /\ [][Next]_vars

\* What the page awaits is settled: a fetch, a dial and a call are answered or fail.
Fairness ==
  /\ WF_vars(Connecting)
  /\ \A c \in Conn : WF_vars(Accepted(c) \/ Lost(c))
  /\ \A k \in Call : WF_vars(Swapped(k) \/ WireFailed(k))

FairSpec == Spec /\ Fairness

-------------------------------------------------------------------------------
(* Properties.                                                             *)

\* Views ride only a connection that the server has taken for the session the page is
\* signed in with now, whichever of connect's awaits a sign-out and a new sign-in
\* overtake (connect, disconnect).
ReadyIsBridged == ready /\ link[wt] = "open" => bridged[wt] = cookie

\* No connection outlives the session it was taken for once the page has signed out of
\* it, as long as no event of an earlier connection has dropped it (disconnect, drop).
LeftIsClosed ==
  late \/ \A c \in Conn : link[c] = "open" /\ bridged[c] # None => session[bridged[c]] # "left"

\* Every view asked for is answered, over the wire or over HTTP, though the connection
\* fails under it (htmx:beforeRequest, wireCall).
ViewsAnswered == \A k \in Call : call[k] # Local ~> call[k] = Local

\* An attempt to connect ends, so that the next sign-in's is not turned away for good
\* (connect, its finally).
ConnectEnds == connecting ~> ~ connecting
===============================================================================
