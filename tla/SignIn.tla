------------------------------- MODULE SignIn -------------------------------
(***************************************************************************)
(* Enrolling a passkey and signing in with it, over both of the room's     *)
(* faces.                                                                  *)
(*                                                                         *)
(*   enrolled   the relying party's credentials, kept in the keystore.     *)
(*   session    the HTTP sessions by cookie.  A ceremony's state waits in  *)
(*              its session between the start and the finish request.      *)
(*   wire       the sessions of the WebTransport connections, each with    *)
(*              the states of its own ceremonies.                          *)
(*                                                                         *)
(* HTTP requests run side by side and lock the table of sessions and the   *)
(* credentials for one lookup or update at a time.  The calls of a         *)
(* connection run one after another.  A credential is named after the      *)
(* ceremony that enrolled it, a wire token after its session.              *)
(***************************************************************************)
CONSTANTS
  Ceremony,    \* the ceremonies there may be: each start makes one
  Sid,         \* the session ids there may be: each is minted once
  Request,     \* the HTTP requests that may run at once
  Conn,        \* the wire connections that may be open at once
  None         \* no ceremony, no credential, no session

ASSUME SignInAssumption == None \notin Ceremony \cup Sid

VARIABLES
  enrolled,    \* the credentials in memory
  keystore,    \* those in the keystore
  kind,        \* what each ceremony is for, "none" before it is started
  keys,        \* the credentials each login challenge asks for
  session,     \* cookie -> HttpSession
  minted,      \* the session ids made
  given,       \* those whose Set-Cookie was sent
  poisoned,    \* a request has panicked with the table of sessions locked
  req,         \* the HTTP requests
  wire,        \* the wire sessions
  \* history
  ended,       \* the sessions that were signed out
  spent,       \* the ceremonies that were finished
  told         \* the credentials whose enrolment was answered with success

history == <<ended, spent, told>>
vars == <<enrolled, keystore, kind, keys, session, minted, given, poisoned, req, wire, history>>

CeremonyOrNone == Ceremony \cup {None}

HttpSession == [scopes : BOOLEAN, principal : CeremonyOrNone, pending : CeremonyOrNone,
                wire_token : BOOLEAN]
Session     == [ceiling : BOOLEAN, principal : CeremonyOrNone, auth_state : CeremonyOrNone,
                reg_state : CeremonyOrNone, enrolling : CeremonyOrNone]

NoHttpSession == [scopes |-> FALSE, principal |-> None, pending |-> None, wire_token |-> FALSE]

\* Public until a verified passkey raises the ceiling.
NoSession == [ceiling |-> FALSE, principal |-> None, auth_state |-> None, reg_state |-> None,
              enrolling |-> None]

\* A request: where it is, the cookie it came with and the ceremony in its hands.
RequestState ==
  [at : {"idle", "ensure", "pend", "verify", "grant", "take", "enrol"},
   sid : Sid \cup {None}, ceremony : CeremonyOrNone, principal : CeremonyOrNone]

NoRequest == [at |-> "idle", sid |-> None, ceremony |-> None, principal |-> None]

Sessions == DOMAIN session

TypeOK ==
  /\ enrolled \subseteq Ceremony /\ keystore \subseteq Ceremony
  /\ kind \in [Ceremony -> {"none", "login", "register"}]
  /\ keys \in [Ceremony -> SUBSET Ceremony]
  /\ Sessions \subseteq Sid /\ session \in [Sessions -> HttpSession]
  /\ minted \subseteq Sid /\ given \subseteq Sid
  /\ poisoned \in BOOLEAN
  /\ req \in [Request -> RequestState]
  /\ wire \in [Conn -> Session]
  /\ ended \subseteq Sid /\ spent \subseteq Ceremony /\ told \subseteq Ceremony

Init ==
  /\ enrolled = {} /\ keystore = {}
  /\ kind = [k \in Ceremony |-> "none"]
  /\ keys = [k \in Ceremony |-> {}]
  /\ session = [s \in {} |-> NoHttpSession]
  /\ minted = {} /\ given = {}
  /\ poisoned = FALSE
  /\ req = [r \in Request |-> NoRequest]
  /\ wire = [c \in Conn |-> NoSession]
  /\ ended = {} /\ spent = {} /\ told = {}

-------------------------------------------------------------------------------
(* The relying party.                                                      *)

\* login_start and register_start: a challenge nobody has seen.
Start(k, what) ==
  /\ kind[k] = "none"
  /\ kind' = [kind EXCEPT ![k] = what]
  /\ keys' = [keys EXCEPT ![k] = enrolled]

LoginStart(k)    == enrolled # {} /\ Start(k, "login")
RegisterStart(k) == enrolled = {} /\ Start(k, "register")

\* Mutant: the keystore is given the new credential alone.
RegisterFinish_alone(k, ok) ==
  /\ enrolled' = enrolled \cup {k}
  /\ keystore' = IF ok THEN {k} ELSE keystore
  /\ told' = IF ok THEN told \cup {k} ELSE told
  /\ spent' = spent \cup {k}

\* register_finish behind its biometric gate: the credential is pushed before the
\* store is saved, and stays if saving fails.
RegisterFinish(k, ok) ==
  /\ enrolled' = enrolled \cup {k}
  /\ keystore' = IF ok THEN enrolled' ELSE keystore
  /\ told' = IF ok THEN told \cup {k} ELSE told
  /\ spent' = spent \cup {k}

-------------------------------------------------------------------------------
(* The ceremonies over HTTP.                                               *)

\* A browser sends a cookie that came with an answer once, or none.
Cookie == given \cup {None}

InTable(s) == s \in Sessions

Goto(r, at, s, k, p) ==
  req' = [req EXCEPT ![r] = [at |-> at, sid |-> s, ceremony |-> k, principal |-> p]]

Answer(r) == req' = [req EXCEPT ![r] = NoRequest]

\* login/start and register/start up to ensure_session.
HttpLoginStart(r, s, k) ==
  /\ req[r].at = "idle"
  /\ LoginStart(k)
  /\ Goto(r, "ensure", s, k, None)
  /\ UNCHANGED <<enrolled, keystore, session, minted, given, poisoned, wire, history>>

HttpRegisterStart(r, s, k) ==
  /\ req[r].at = "idle"
  /\ RegisterStart(k)
  /\ Goto(r, "ensure", s, k, None)
  /\ UNCHANGED <<enrolled, keystore, session, minted, given, poisoned, wire, history>>

ensure_session(r) ==
  /\ req[r].at = "ensure" /\ ~ poisoned
  /\ \/ /\ InTable(req[r].sid)
        /\ Goto(r, "pend", req[r].sid, req[r].ceremony, None)
        /\ UNCHANGED <<session, minted>>
     \/ /\ ~ InTable(req[r].sid)
        /\ \E s \in Sid \ minted :
             /\ minted' = minted \cup {s}
             /\ session' = [x \in Sessions \cup {s} |->
                              IF x = s THEN NoHttpSession ELSE session[x]]
             /\ Goto(r, "pend", s, req[r].ceremony, None)
  /\ UNCHANGED <<enrolled, keystore, kind, keys, given, poisoned, wire, history>>

\* The table is locked anew and the session expected to be there, and the answer
\* brings the cookie of a new one; if it is not, the request panics and poisons the
\* lock.
Pend(r) ==
  /\ req[r].at = "pend" /\ ~ poisoned
  /\ \/ /\ InTable(req[r].sid)
        /\ session' = [session EXCEPT ![req[r].sid].pending = req[r].ceremony]
        /\ given' = given \cup {req[r].sid}
        /\ UNCHANGED poisoned
     \/ /\ ~ InTable(req[r].sid)
        /\ poisoned' = TRUE
        /\ UNCHANGED <<session, given>>
  /\ Answer(r)
  /\ UNCHANGED <<enrolled, keystore, kind, keys, minted, wire, history>>

\* The session's state of a ceremony of this kind is there to be taken; one of the
\* other kind is put back.
Pending(s, what) ==
  /\ ~ poisoned
  /\ InTable(s) /\ session[s].pending # None
  /\ kind[session[s].pending] = what

\* Mutant: the state is read and stays in the session.
TakePending_peek(s, what) == Pending(s, what) /\ UNCHANGED session

TakePending(s, what) ==
  /\ Pending(s, what)
  /\ session' = [session EXCEPT ![s].pending = None]

HttpLoginFinish(r, s) ==
  /\ req[r].at = "idle"
  /\ TakePending(s, "login")
  /\ Goto(r, "verify", s, session[s].pending, None)
  /\ UNCHANGED <<enrolled, keystore, kind, keys, minted, given, poisoned, wire, history>>

\* login_finish: the assertion answers this challenge with one of its keys.
Verify(r, p) ==
  /\ req[r].at = "verify"
  /\ p \in keys[req[r].ceremony]
  /\ Goto(r, "grant", req[r].sid, None, p)
  /\ spent' = spent \cup {req[r].ceremony}
  /\ UNCHANGED <<enrolled, keystore, kind, keys, session, minted, given, poisoned, wire, ended, told>>

\* Mutant: a session that is gone is made anew.
Grant_anew(r) ==
  /\ req[r].at = "grant" /\ ~ poisoned
  /\ session' = [x \in Sessions \cup {req[r].sid} |->
                   IF x = req[r].sid
                     THEN [NoHttpSession EXCEPT !.scopes = TRUE, !.principal = req[r].principal]
                     ELSE session[x]]
  /\ Answer(r)
  /\ UNCHANGED <<enrolled, keystore, kind, keys, minted, given, poisoned, wire, history>>

\* The session, if it is still there, is signed in.
Grant(r) ==
  /\ req[r].at = "grant" /\ ~ poisoned
  /\ session' = [x \in Sessions |->
                   IF x = req[r].sid
                     THEN [session[x] EXCEPT !.scopes = TRUE, !.principal = req[r].principal]
                     ELSE session[x]]
  /\ Answer(r)
  /\ UNCHANGED <<enrolled, keystore, kind, keys, minted, given, poisoned, wire, history>>

\* register/finish looks first whether registration is still open.
HttpRegisterFinish(r, s) ==
  /\ req[r].at = "idle"
  /\ enrolled = {}
  /\ Goto(r, "take", s, None, None)
  /\ UNCHANGED <<enrolled, keystore, kind, keys, session, minted, given, poisoned, wire, history>>

TakeRegistration(r) ==
  /\ req[r].at = "take"
  /\ TakePending(req[r].sid, "register")
  /\ Goto(r, "enrol", req[r].sid, session[req[r].sid].pending, None)
  /\ UNCHANGED <<enrolled, keystore, kind, keys, minted, given, poisoned, wire, history>>

\* Someone at the machine has approved and the response is good.
Enrol(r, ok) ==
  /\ req[r].at = "enrol"
  /\ RegisterFinish(req[r].ceremony, ok)
  /\ Answer(r)
  /\ UNCHANGED <<kind, keys, session, minted, given, poisoned, wire, ended>>

\* No registration to finish, a bad response, nobody at the machine.
Refused(r) ==
  /\ \/ req[r].at = "take" /\ ~ poisoned /\ ~ Pending(req[r].sid, "register")
     \/ req[r].at \in {"verify", "enrol"}
  /\ Answer(r)
  /\ UNCHANGED <<enrolled, keystore, kind, keys, session, minted, given, poisoned, wire, history>>

\* Whoever locks a poisoned table panics.
Panic(r) ==
  /\ poisoned
  /\ req[r].at \in {"ensure", "pend", "grant", "take"}
  /\ Answer(r)
  /\ UNCHANGED <<enrolled, keystore, kind, keys, session, minted, given, poisoned, wire, history>>

\* The first status of a signed-in session makes its wire token.
HttpStatus(s) ==
  /\ s \in given /\ ~ poisoned
  /\ InTable(s) /\ session[s].scopes
  /\ session' = [session EXCEPT ![s].wire_token = TRUE]
  /\ UNCHANGED <<enrolled, keystore, kind, keys, minted, given, poisoned, req, wire, history>>

HttpLogout(s) ==
  /\ s \in given /\ ~ poisoned
  /\ InTable(s)
  /\ session' = [x \in Sessions \ {s} |-> session[x]]
  /\ ended' = ended \cup {s}
  /\ UNCHANGED <<enrolled, keystore, kind, keys, minted, given, poisoned, req, wire, spent, told>>

-------------------------------------------------------------------------------
(* The ceremonies over the wire.                                           *)

\* Enrolling, at the biometric gate, is the one call others may overtake.
Free(c) == wire[c].enrolling = None

WireLoginStart(c, k) ==
  /\ Free(c)
  /\ LoginStart(k)
  /\ wire' = [wire EXCEPT ![c].auth_state = k]
  /\ UNCHANGED <<enrolled, keystore, session, minted, given, poisoned, req, history>>

WireLoginFinish(c) ==
  /\ Free(c)
  /\ wire[c].auth_state # None
  /\ \/ \E p \in keys[wire[c].auth_state] :
          /\ wire' = [wire EXCEPT ![c].auth_state = None, ![c].ceiling = TRUE, ![c].principal = p]
          /\ spent' = spent \cup {wire[c].auth_state}
     \/ /\ wire' = [wire EXCEPT ![c].auth_state = None]
        /\ UNCHANGED spent
  /\ UNCHANGED <<enrolled, keystore, kind, keys, session, minted, given, poisoned, req, ended, told>>

WireRegisterStart(c, k) ==
  /\ Free(c)
  /\ RegisterStart(k)
  /\ wire' = [wire EXCEPT ![c].reg_state = k]
  /\ UNCHANGED <<enrolled, keystore, session, minted, given, poisoned, req, history>>

WireRegisterFinish(c) ==
  /\ Free(c)
  /\ enrolled = {}
  /\ wire[c].reg_state # None
  /\ wire' = [wire EXCEPT ![c].reg_state = None, ![c].enrolling = wire[c].reg_state]
  /\ UNCHANGED <<enrolled, keystore, kind, keys, session, minted, given, poisoned, req, history>>

WireEnrol(c, ok) ==
  /\ ~ Free(c)
  /\ RegisterFinish(wire[c].enrolling, ok)
  /\ wire' = [wire EXCEPT ![c].enrolling = None]
  /\ UNCHANGED <<kind, keys, session, minted, given, poisoned, req, ended>>

WireRefused(c) ==
  /\ ~ Free(c)
  /\ wire' = [wire EXCEPT ![c].enrolling = None]
  /\ UNCHANGED <<enrolled, keystore, kind, keys, session, minted, given, poisoned, req, history>>

\* urn:auth:resume: the connection adopts the session its token names.
WireResume(c, s) ==
  /\ Free(c) /\ ~ poisoned
  /\ InTable(s) /\ session[s].scopes /\ session[s].wire_token
  /\ wire' = [wire EXCEPT ![c].ceiling = TRUE, ![c].principal = session[s].principal]
  /\ UNCHANGED <<enrolled, keystore, kind, keys, session, minted, given, poisoned, req, history>>

\* Mutant: the principal is kept.
WireLogout_keeps(c) ==
  /\ Free(c)
  /\ wire' = [wire EXCEPT ![c].ceiling = FALSE, ![c].auth_state = None, ![c].reg_state = None]
  /\ UNCHANGED <<enrolled, keystore, kind, keys, session, minted, given, poisoned, req, history>>

WireLogout(c) ==
  /\ Free(c)
  /\ wire' = [wire EXCEPT ![c] = NoSession]
  /\ UNCHANGED <<enrolled, keystore, kind, keys, session, minted, given, poisoned, req, history>>

\* The connection is closed, or its task panics; the next one starts afresh.
WireClose(c) ==
  /\ Free(c) /\ wire[c] # NoSession
  /\ wire' = [wire EXCEPT ![c] = NoSession]
  /\ UNCHANGED <<enrolled, keystore, kind, keys, session, minted, given, poisoned, req, history>>

-------------------------------------------------------------------------------
\* The server stops, at any step, and starts again from its keystore.
Restart ==
  /\ enrolled' = keystore
  /\ session' = [s \in {} |-> NoHttpSession]
  /\ poisoned' = FALSE
  /\ req' = [r \in Request |-> NoRequest]
  /\ wire' = [c \in Conn |-> NoSession]
  /\ UNCHANGED <<keystore, kind, keys, minted, given, history>>

HttpStep(r) ==
  \/ \E s \in Cookie, k \in Ceremony : HttpLoginStart(r, s, k) \/ HttpRegisterStart(r, s, k)
  \/ ensure_session(r) \/ Pend(r)
  \/ \E s \in Cookie : HttpLoginFinish(r, s) \/ HttpRegisterFinish(r, s)
  \/ (\E p \in Ceremony : Verify(r, p)) \/ Grant(r)
  \/ TakeRegistration(r) \/ (\E ok \in BOOLEAN : Enrol(r, ok))
  \/ Refused(r) \/ Panic(r)

WireStep(c) ==
  \/ \E k \in Ceremony : WireLoginStart(c, k) \/ WireRegisterStart(c, k)
  \/ WireLoginFinish(c) \/ WireRegisterFinish(c)
  \/ (\E ok \in BOOLEAN : WireEnrol(c, ok)) \/ WireRefused(c)
  \/ \E s \in Sid : WireResume(c, s)
  \/ WireLogout(c) \/ WireClose(c)

Next ==
  \/ \E r \in Request : HttpStep(r)
  \/ \E s \in Sid : HttpStatus(s) \/ HttpLogout(s)
  \/ \E c \in Conn : WireStep(c)
  \/ Restart

Spec == Init /\ [][Next]_vars

-------------------------------------------------------------------------------
(* Properties.                                                             *)

\* Who is signed in is an enrolled credential, on either face, and a ceiling is
\* never raised without a principal nor left behind by one (handle: "Signed in
\* <=> a principal"), also where a session is bridged to the wire, a sign-out
\* falls between, or saving the enrolment failed.
SignedInIsWhole ==
  /\ \A s \in Sessions : /\ session[s].scopes <=> session[s].principal # None
                         /\ session[s].principal \in enrolled \cup {None}
  /\ \A c \in Conn : /\ wire[c].ceiling <=> wire[c].principal # None
                     /\ wire[c].principal \in enrolled \cup {None}

\* Where the state of ceremony k is held.
Holders(k) ==
  ({"session"} \X {s \in Sessions : session[s].pending = k})
    \cup ({"request"} \X {r \in Request : req[r].ceremony = k})
    \cup ({"login"} \X {c \in Conn : wire[c].auth_state = k})
    \cup ({"register"} \X {c \in Conn : wire[c].reg_state = k})
    \cup ({"enrolling"} \X {c \in Conn : wire[c].enrolling = k})

\* A ceremony is finished once: its state is in one place, and nowhere when it has
\* signed somebody in or enrolled a credential, however its requests are repeated
\* and overtake each other (Pending: take).
CeremonyOnce ==
  \A k \in Ceremony : /\ \A x, y \in Holders(k) : x = y
                      /\ k \in spent => Holders(k) = {}

\* A session that was signed out does not come back, be its cookie sent again or a
\* sign-in with it under way (login/finish, ensure_session).
SignedOutStaysOut == ended \cap Sessions = {}

\* An enrolment that was answered with success is in the keystore, from which a
\* restart loads it, whatever other enrolments do or fail to do meanwhile
\* (register_finish).
EnrolmentsPersist == told \subseteq keystore /\ keystore \subseteq enrolled

\* A session that ensure_session has returned is in the table when the ceremony's
\* state is put into it (login/start, register/start: get_mut(&id).unwrap()).
EnsuredIsThere == \A r \in Request : req[r].at = "pend" => InTable(req[r].sid)
===============================================================================
