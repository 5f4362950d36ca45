---------------------------- MODULE SignInProofs ----------------------------
(***************************************************************************)
(* SignIn for any number of ceremonies, sessions, requests and             *)
(* connections: its variables keep their types, a session that was signed  *)
(* out stays out, an enrolment that was answered with success is on file,  *)
(* and who is signed in is an enrolled credential.                         *)
(***************************************************************************)
EXTENDS SignIn, TLAPS

LEMMA RecordTypes ==
  /\ NoHttpSession \in HttpSession
  /\ NoSession \in Session
  /\ NoRequest \in RequestState
BY DEF NoHttpSession, HttpSession, NoSession, Session, NoRequest, RequestState, CeremonyOrNone

LEMMA InitTypeOK == Init => TypeOK
BY RecordTypes DEF Init, TypeOK, Sessions

LEMMA GotoType ==
  ASSUME TypeOK, NEW r \in Request, NEW s \in Sid \cup {None}, NEW k \in CeremonyOrNone,
         NEW p \in CeremonyOrNone,
         NEW at \in {"idle", "ensure", "pend", "verify", "grant", "take", "enrol"},
         Goto(r, at, s, k, p)
  PROVE  req' \in [Request -> RequestState]
BY DEF Goto, TypeOK, RequestState

LEMMA AnswerType ==
  ASSUME TypeOK, NEW r \in Request, Answer(r)
  PROVE  req' \in [Request -> RequestState]
BY RecordTypes DEF Answer, TypeOK

\* Putting a ceremony's state into a session, or taking it out.
LEMMA PendingType ==
  ASSUME TypeOK, NEW s, NEW k \in CeremonyOrNone, session' = [session EXCEPT ![s].pending = k]
  PROVE  Sessions' \subseteq Sid /\ session' \in [Sessions' -> HttpSession]
<1>1. Sessions' = Sessions
  BY DEF Sessions
<1>2. ASSUME NEW x \in Sessions
      PROVE  session'[x] \in HttpSession
  BY <1>2 DEF TypeOK, Sessions, HttpSession
<1> QED BY <1>1, <1>2 DEF TypeOK, Sessions

LEMMA StartType ==
  ASSUME TypeOK, NEW k \in Ceremony, NEW what \in {"login", "register"}, Start(k, what)
  PROVE  /\ kind' \in [Ceremony -> {"none", "login", "register"}]
         /\ keys' \in [Ceremony -> SUBSET Ceremony]
BY DEF Start, TypeOK

LEMMA FinishType ==
  ASSUME TypeOK, NEW k \in Ceremony, NEW ok \in BOOLEAN, RegisterFinish(k, ok)
  PROVE  /\ enrolled' \subseteq Ceremony /\ keystore' \subseteq Ceremony
         /\ told' \subseteq Ceremony /\ spent' \subseteq Ceremony
BY DEF RegisterFinish, TypeOK

\* Who is at a ceremony's step has it in hand, and who grants knows to whom.
HandsOK ==
  \A r \in Request :
    /\ req[r].at \in {"ensure", "pend", "verify", "enrol"} => req[r].ceremony # None
    /\ req[r].at = "grant" => req[r].principal # None

Typed == TypeOK /\ HandsOK

LEMMA GotoHands ==
  ASSUME Typed, NEW r \in Request, NEW s, NEW k, NEW p, NEW at, Goto(r, at, s, k, p),
         at \in {"ensure", "pend", "verify", "enrol"} => k # None,
         at = "grant" => p # None
  PROVE  HandsOK'
BY DEF Goto, Typed, TypeOK, HandsOK, RequestState

LEMMA AnswerHands ==
  ASSUME Typed, NEW r \in Request, Answer(r)
  PROVE  HandsOK'
BY DEF Answer, Typed, TypeOK, HandsOK, NoRequest, RequestState

LEMMA HttpTyped ==
  ASSUME Typed, NEW r \in Request, HttpStep(r)
  PROVE  Typed'
<1>1. ASSUME NEW s \in Cookie, NEW k \in Ceremony, HttpLoginStart(r, s, k) \/ HttpRegisterStart(r, s, k)
      PROVE  Typed'
  <2>1. k \in CeremonyOrNone /\ None \in CeremonyOrNone /\ s \in Sid \cup {None} /\ k # None
    BY SignInAssumption DEF CeremonyOrNone, Cookie, Typed, TypeOK
  <2>2. Goto(r, "ensure", s, k, None)
    BY <1>1 DEF HttpLoginStart, HttpRegisterStart
  <2>3. req' \in [Request -> RequestState] /\ HandsOK'
    BY <2>1, <2>2, GotoType, GotoHands DEF Typed
  <2>4. /\ kind' \in [Ceremony -> {"none", "login", "register"}]
        /\ keys' \in [Ceremony -> SUBSET Ceremony]
    BY <1>1, StartType DEF HttpLoginStart, HttpRegisterStart, LoginStart, RegisterStart, Typed
  <2> QED
    BY <1>1, <2>3, <2>4
    DEF HttpLoginStart, HttpRegisterStart, Typed, TypeOK, Sessions, history
<1>2. CASE ensure_session(r)
  <2>1. req' \in [Request -> RequestState] /\ HandsOK'
    <3> DEFINE k == req[r].ceremony
    <3>1. /\ k \in CeremonyOrNone /\ k # None /\ None \in CeremonyOrNone
          /\ req[r].sid \in Sid \cup {None}
      BY <1>2 DEF ensure_session, Typed, TypeOK, HandsOK, RequestState, CeremonyOrNone
    <3>2. \/ Goto(r, "pend", req[r].sid, k, None)
          \/ \E s \in Sid : Goto(r, "pend", s, k, None)
      BY <1>2 DEF ensure_session
    <3> HIDE DEF k
    <3> QED BY <3>1, <3>2, GotoType, GotoHands DEF Typed
  <2>2. Sessions' \subseteq Sid /\ session' \in [Sessions' -> HttpSession] /\ minted' \subseteq Sid
    BY <1>2, RecordTypes DEF ensure_session, Typed, TypeOK, Sessions
  <2> QED BY <1>2, <2>1, <2>2 DEF ensure_session, Typed, TypeOK, history
<1>3. CASE Pend(r)
  <2>1. req' \in [Request -> RequestState] /\ HandsOK'
    BY <1>3, AnswerType, AnswerHands DEF Pend, Typed
  <2>2. Sessions' \subseteq Sid /\ session' \in [Sessions' -> HttpSession] /\ poisoned' \in BOOLEAN
    <3>1. CASE session' = session
      BY <1>3, <3>1 DEF Pend, Typed, TypeOK, Sessions
    <3>2. CASE session' = [session EXCEPT ![req[r].sid].pending = req[r].ceremony]
      <4>1. req[r].ceremony \in CeremonyOrNone
        BY DEF Typed, TypeOK, RequestState
      <4> QED BY <1>3, <3>2, <4>1, PendingType DEF Pend, Typed, TypeOK
    <3> QED BY <1>3, <3>1, <3>2 DEF Pend
  <2>3. given' \subseteq Sid
    BY <1>3 DEF Pend, InTable, Typed, TypeOK
  <2> QED BY <1>3, <2>1, <2>2, <2>3 DEF Pend, Typed, TypeOK, history
<1>4. ASSUME NEW s \in Cookie, HttpLoginFinish(r, s)
      PROVE  Typed'
  <2>1. /\ s \in Sid /\ session[s] \in HttpSession /\ session[s].pending # None
        /\ session[s].pending \in CeremonyOrNone /\ None \in CeremonyOrNone
    BY <1>4
    DEF HttpLoginFinish, TakePending, Pending, InTable, Typed, TypeOK, CeremonyOrNone, HttpSession
  <2>2. req' \in [Request -> RequestState] /\ HandsOK'
    BY <1>4, <2>1, GotoType, GotoHands DEF HttpLoginFinish, Typed
  <2>3. Sessions' \subseteq Sid /\ session' \in [Sessions' -> HttpSession]
    BY <1>4, <2>1 DEF HttpLoginFinish, TakePending, Typed, TypeOK, Sessions, HttpSession
  <2> QED BY <1>4, <2>2, <2>3 DEF HttpLoginFinish, Typed, TypeOK, history
<1>5. ASSUME NEW s \in Cookie, HttpRegisterFinish(r, s)
      PROVE  Typed'
  <2>1. s \in Sid \cup {None} /\ None \in CeremonyOrNone
    BY DEF Cookie, Typed, TypeOK, CeremonyOrNone
  <2>2. req' \in [Request -> RequestState] /\ HandsOK'
    BY <1>5, <2>1, GotoType, GotoHands DEF HttpRegisterFinish, Typed
  <2> QED BY <1>5, <2>2 DEF HttpRegisterFinish, Typed, TypeOK, Sessions, history
<1>6. ASSUME NEW p \in Ceremony, Verify(r, p)
      PROVE  Typed'
  <2>1. /\ req[r].sid \in Sid \cup {None} /\ None \in CeremonyOrNone /\ p \in CeremonyOrNone
        /\ p # None /\ req[r].ceremony \in Ceremony
    BY <1>6, SignInAssumption DEF Verify, Typed, TypeOK, HandsOK, RequestState, CeremonyOrNone
  <2>2. req' \in [Request -> RequestState] /\ HandsOK'
    BY <1>6, <2>1, GotoType, GotoHands DEF Verify, Typed
  <2> QED BY <1>6, <2>1, <2>2 DEF Verify, Typed, TypeOK, Sessions
<1>7. CASE Grant(r)
  <2>1. req' \in [Request -> RequestState] /\ HandsOK'
    BY <1>7, AnswerType, AnswerHands DEF Grant, Typed
  <2>2. Sessions' = Sessions /\ session' \in [Sessions -> HttpSession]
    BY <1>7 DEF Grant, Typed, TypeOK, Sessions, HttpSession, RequestState
  <2> QED BY <1>7, <2>1, <2>2 DEF Grant, Typed, TypeOK, history
<1>8. CASE TakeRegistration(r)
  <2> DEFINE s == req[r].sid
  <2>1. /\ s \in Sid /\ session[s] \in HttpSession /\ session[s].pending # None
        /\ session[s].pending \in CeremonyOrNone /\ None \in CeremonyOrNone
    BY <1>8
    DEF TakeRegistration, TakePending, Pending, InTable, Typed, TypeOK, CeremonyOrNone, HttpSession
  <2>2. req' \in [Request -> RequestState] /\ HandsOK'
    BY <1>8, <2>1, GotoType, GotoHands DEF TakeRegistration, Typed
  <2>3. Sessions' \subseteq Sid /\ session' \in [Sessions' -> HttpSession]
    BY <1>8, <2>1 DEF TakeRegistration, TakePending, Typed, TypeOK, Sessions, HttpSession
  <2> QED BY <1>8, <2>2, <2>3 DEF TakeRegistration, Typed, TypeOK, history
<1>9. ASSUME NEW ok \in BOOLEAN, Enrol(r, ok)
      PROVE  Typed'
  <2>1. req[r].ceremony \in Ceremony
    BY <1>9 DEF Enrol, Typed, TypeOK, HandsOK, RequestState, CeremonyOrNone
  <2>2. req' \in [Request -> RequestState] /\ HandsOK'
    BY <1>9, AnswerType, AnswerHands DEF Enrol, Typed
  <2> QED BY <1>9, <2>1, <2>2, FinishType DEF Enrol, Typed, TypeOK, Sessions
<1>10. CASE Refused(r) \/ Panic(r)
  <2>1. req' \in [Request -> RequestState] /\ HandsOK'
    BY <1>10, AnswerType, AnswerHands DEF Refused, Panic, Typed
  <2> QED BY <1>10, <2>1 DEF Refused, Panic, Typed, TypeOK, Sessions, history
<1> QED
  BY <1>1, <1>2, <1>3, <1>4, <1>5, <1>6, <1>7, <1>8, <1>9, <1>10 DEF HttpStep

LEMMA WireTyped ==
  ASSUME Typed, NEW c \in Conn, WireStep(c)
  PROVE  Typed'
<1>1. ASSUME NEW k \in Ceremony, WireLoginStart(c, k) \/ WireRegisterStart(c, k)
      PROVE  Typed'
  <2>1. /\ kind' \in [Ceremony -> {"none", "login", "register"}]
        /\ keys' \in [Ceremony -> SUBSET Ceremony]
    BY <1>1, StartType DEF WireLoginStart, WireRegisterStart, LoginStart, RegisterStart, Typed
  <2>2. wire' \in [Conn -> Session]
    <3>1. wire \in [Conn -> Session] /\ k \in CeremonyOrNone
      BY DEF Typed, TypeOK, CeremonyOrNone
    <3> QED BY <1>1, <3>1 DEF WireLoginStart, WireRegisterStart, Session
  <2> QED
    BY <1>1, <2>1, <2>2
    DEF WireLoginStart, WireRegisterStart, Typed, TypeOK, HandsOK, Sessions, history
<1>2. CASE WireLoginFinish(c)
  <2>1. wire[c].auth_state \in Ceremony /\ wire[c] \in Session
    BY <1>2 DEF WireLoginFinish, Typed, TypeOK, Session, CeremonyOrNone
  <2>2. keys[wire[c].auth_state] \subseteq Ceremony
    BY <2>1 DEF Typed, TypeOK
  <2>3. wire' \in [Conn -> Session] /\ spent' \subseteq Ceremony
    BY <1>2, <2>1, <2>2 DEF WireLoginFinish, Typed, TypeOK, Session, CeremonyOrNone
  <2> QED BY <1>2, <2>3 DEF WireLoginFinish, Typed, TypeOK, HandsOK, Sessions
<1>3. CASE WireRegisterFinish(c) \/ WireRefused(c) \/ WireLogout(c) \/ WireClose(c)
  <2>1. wire' \in [Conn -> Session]
    BY <1>3, RecordTypes
    DEF WireRegisterFinish, WireRefused, WireLogout, WireClose, Typed, TypeOK, Session, CeremonyOrNone
  <2> QED
    BY <1>3, <2>1
    DEF WireRegisterFinish, WireRefused, WireLogout, WireClose, Typed, TypeOK, HandsOK, Sessions,
        history
<1>4. ASSUME NEW ok \in BOOLEAN, WireEnrol(c, ok)
      PROVE  Typed'
  <2>1. wire[c].enrolling \in Ceremony
    BY <1>4 DEF WireEnrol, Free, Typed, TypeOK, Session, CeremonyOrNone
  <2>2. wire' \in [Conn -> Session]
    BY <1>4 DEF WireEnrol, Typed, TypeOK, Session, CeremonyOrNone
  <2> QED BY <1>4, <2>1, <2>2, FinishType DEF WireEnrol, Typed, TypeOK, HandsOK, Sessions
<1>5. ASSUME NEW s \in Sid, WireResume(c, s)
      PROVE  Typed'
  <2>1. session[s] \in HttpSession
    BY <1>5 DEF WireResume, InTable, Typed, TypeOK
  <2>2. wire' \in [Conn -> Session]
    <3>1. wire \in [Conn -> Session] /\ session[s].principal \in CeremonyOrNone
      BY <2>1 DEF Typed, TypeOK, HttpSession
    <3> QED BY <1>5, <3>1 DEF WireResume, Session
  <2> QED BY <1>5, <2>2 DEF WireResume, Typed, TypeOK, HandsOK, Sessions, history
<1> QED BY <1>1, <1>2, <1>3, <1>4, <1>5 DEF WireStep

LEMMA NextTyped ==
  ASSUME Typed, [Next]_vars
  PROVE  Typed'
<1>1. ASSUME NEW s \in Sid, HttpStatus(s) \/ HttpLogout(s)
      PROVE  Typed'
  <2>1. Sessions' \subseteq Sid /\ session' \in [Sessions' -> HttpSession]
    <3>1. CASE HttpStatus(s)
      BY <1>1, <3>1 DEF HttpStatus, Typed, TypeOK, Sessions, HttpSession
    <3>2. CASE HttpLogout(s)
      BY <1>1, <3>2 DEF HttpLogout, Typed, TypeOK, Sessions
    <3> QED BY <1>1, <3>1, <3>2
  <2> QED BY <1>1, <2>1 DEF HttpStatus, HttpLogout, Typed, TypeOK, HandsOK, history
<1>2. CASE Restart
  BY <1>2, RecordTypes
  DEF Restart, Typed, TypeOK, HandsOK, Sessions, NoRequest, history
<1>3. CASE UNCHANGED vars
  BY <1>3 DEF vars, history, Typed, TypeOK, HandsOK, Sessions
<1> QED BY <1>1, <1>2, <1>3, HttpTyped, WireTyped DEF Next

LEMMA AlwaysTyped == Spec => []Typed
<1>1. Init => Typed
  BY InitTypeOK DEF Init, Typed, HandsOK, NoRequest
<1>2. Typed /\ [Next]_vars => Typed'
  BY NextTyped
<1> QED BY <1>1, <1>2, PTL DEF Spec

\* The variables of the ceremonies keep their types (TypeOK).
THEOREM TypeCorrect == Spec => []TypeOK
<1>1. Typed => TypeOK
  BY DEF Typed
<1> QED BY <1>1, AlwaysTyped, PTL

-------------------------------------------------------------------------------
(* Enrolments.                                                             *)

LEMMA FinishPersists ==
  ASSUME EnrolmentsPersist, NEW k, NEW ok \in BOOLEAN, RegisterFinish(k, ok)
  PROVE  EnrolmentsPersist'
BY DEF RegisterFinish, EnrolmentsPersist

LEMMA NextPersists ==
  ASSUME EnrolmentsPersist, [Next]_vars
  PROVE  EnrolmentsPersist'
<1>1. ASSUME NEW r \in Request, HttpStep(r)
      PROVE  EnrolmentsPersist'
  <2>1. CASE \E ok \in BOOLEAN : Enrol(r, ok)
    BY <2>1, FinishPersists DEF Enrol
  <2>2. CASE UNCHANGED <<enrolled, keystore, told>>
    BY <2>2 DEF EnrolmentsPersist
  <2>3. UNCHANGED <<enrolled, keystore, told>> \/ \E ok \in BOOLEAN : Enrol(r, ok)
    BY <1>1
    DEF HttpStep, HttpLoginStart, HttpRegisterStart, ensure_session, Pend, HttpLoginFinish,
        HttpRegisterFinish, Verify, Grant, TakeRegistration, Refused, Panic, history
  <2> QED BY <2>1, <2>2, <2>3
<1>2. ASSUME NEW c \in Conn, WireStep(c)
      PROVE  EnrolmentsPersist'
  <2>1. CASE \E ok \in BOOLEAN : WireEnrol(c, ok)
    BY <2>1, FinishPersists DEF WireEnrol
  <2>2. CASE UNCHANGED <<enrolled, keystore, told>>
    BY <2>2 DEF EnrolmentsPersist
  <2>3. UNCHANGED <<enrolled, keystore, told>> \/ \E ok \in BOOLEAN : WireEnrol(c, ok)
    BY <1>2
    DEF WireStep, WireLoginStart, WireRegisterStart, WireLoginFinish, WireRegisterFinish,
        WireRefused, WireResume, WireLogout, WireClose, history
  <2> QED BY <2>1, <2>2, <2>3
<1>3. CASE Restart
  BY <1>3 DEF Restart, EnrolmentsPersist, history
<1>4. CASE (\E s \in Sid : HttpStatus(s) \/ HttpLogout(s)) \/ UNCHANGED vars
  BY <1>4 DEF HttpStatus, HttpLogout, EnrolmentsPersist, vars, history
<1> QED BY <1>1, <1>2, <1>3, <1>4 DEF Next

\* An enrolment that was answered with success is in the keystore, for any number of
\* enrolments side by side, of which any may fail to be saved, and restarts
\* (EnrolmentsPersist).
THEOREM EnrolmentsAreKept == Spec => []EnrolmentsPersist
<1>1. Init => EnrolmentsPersist
  BY DEF Init, EnrolmentsPersist
<1>2. EnrolmentsPersist /\ [Next]_vars => EnrolmentsPersist'
  BY NextPersists
<1> QED BY <1>1, <1>2, PTL DEF Spec

-------------------------------------------------------------------------------
(* Sign-outs.                                                              *)

\* A session id is minted before it is in the table, and once.
MintedOnce ==
  /\ Sessions \subseteq minted
  /\ ended \subseteq minted
  /\ SignedOutStaysOut

LEMMA NextMinted ==
  ASSUME MintedOnce, [Next]_vars
  PROVE  MintedOnce'
<1>1. ASSUME UNCHANGED <<minted, ended>>, Sessions' \subseteq Sessions
      PROVE  MintedOnce'
  BY <1>1 DEF MintedOnce, SignedOutStaysOut
<1>2. ASSUME NEW r \in Request, ensure_session(r)
      PROVE  MintedOnce'
  BY <1>2 DEF ensure_session, history, MintedOnce, SignedOutStaysOut, Sessions
<1>3. ASSUME NEW r \in Request, HttpStep(r), ~ ensure_session(r)
      PROVE  UNCHANGED <<minted, ended>> /\ Sessions' \subseteq Sessions
  BY <1>3
  DEF HttpStep, HttpLoginStart, HttpRegisterStart, Pend, HttpLoginFinish, TakePending,
      HttpRegisterFinish, Verify, Grant, TakeRegistration, Enrol, Refused, Panic, history,
      Sessions
<1>4. ASSUME NEW c \in Conn, WireStep(c)
      PROVE  UNCHANGED <<minted, ended>> /\ Sessions' \subseteq Sessions
  BY <1>4
  DEF WireStep, WireLoginStart, WireRegisterStart, WireLoginFinish, WireRegisterFinish,
      WireEnrol, WireRefused, WireResume, WireLogout, WireClose, history, Sessions
<1>5. ASSUME NEW s \in Sid, HttpLogout(s)
      PROVE  MintedOnce'
  BY <1>5 DEF HttpLogout, InTable, MintedOnce, SignedOutStaysOut, Sessions
<1>6. CASE (\E s \in Sid : HttpStatus(s)) \/ Restart \/ UNCHANGED vars
  BY <1>1, <1>6 DEF HttpStatus, Restart, vars, history, Sessions
<1> QED BY <1>1, <1>2, <1>3, <1>4, <1>5, <1>6 DEF Next

\* A session that was signed out does not come back, for any number of requests with
\* its cookie under way (SignedOutStaysOut).
THEOREM SignOutsStick == Spec => []SignedOutStaysOut
<1>1. Init => MintedOnce
  BY DEF Init, MintedOnce, SignedOutStaysOut, Sessions
<1>2. MintedOnce /\ [Next]_vars => MintedOnce'
  BY NextMinted
<1>3. MintedOnce => SignedOutStaysOut
  BY DEF MintedOnce
<1> QED BY <1>1, <1>2, <1>3, PTL DEF Spec

-------------------------------------------------------------------------------
(* Sign-ins.                                                               *)

\* A ceremony that is held was started, with keys that are enrolled.
Known(k) == k # None => kind[k] # "none" /\ keys[k] \subseteq enrolled

\* The sessions, the requests (whoever is about to be signed in is enrolled) and
\* the connections.
SessionsFine ==
  \A s \in Sessions :
    /\ Known(session[s].pending)
    /\ session[s].scopes <=> session[s].principal # None
    /\ session[s].principal \in enrolled \cup {None}

RequestsFine ==
  \A r \in Request :
    /\ Known(req[r].ceremony)
    /\ req[r].at = "grant" => req[r].principal \in enrolled

WiresFine ==
  \A c \in Conn :
    /\ Known(wire[c].auth_state) /\ Known(wire[c].reg_state) /\ Known(wire[c].enrolling)
    /\ wire[c].ceiling <=> wire[c].principal # None
    /\ wire[c].principal \in enrolled \cup {None}

WholeInv == SessionsFine /\ RequestsFine /\ WiresFine

\* What is known stays so, unless the server stops.
LEMMA KnownStays ==
  ASSUME Typed, Next, ~ Restart, NEW k \in CeremonyOrNone, Known(k)
  PROVE  Known(k)' /\ enrolled \subseteq enrolled'
<1>1. CASE UNCHANGED <<kind, keys>> /\ enrolled \subseteq enrolled'
  BY <1>1 DEF Known
<1>2. CASE UNCHANGED enrolled /\ \E x \in Ceremony, what \in {"login", "register"} : Start(x, what)
  BY <1>2 DEF Start, Known, Typed, TypeOK, CeremonyOrNone
<1>3. ASSUME NEW r \in Request, HttpStep(r)
      PROVE  \/ UNCHANGED <<kind, keys>> /\ enrolled \subseteq enrolled'
             \/ UNCHANGED enrolled /\ \E x \in Ceremony, what \in {"login", "register"} : Start(x, what)
  BY <1>3
  DEF HttpStep, HttpLoginStart, HttpRegisterStart, LoginStart, RegisterStart, ensure_session,
      Pend, HttpLoginFinish, HttpRegisterFinish, Verify, Grant, TakeRegistration, Enrol,
      RegisterFinish, Refused, Panic
<1>4. ASSUME NEW c \in Conn, WireStep(c)
      PROVE  \/ UNCHANGED <<kind, keys>> /\ enrolled \subseteq enrolled'
             \/ UNCHANGED enrolled /\ \E x \in Ceremony, what \in {"login", "register"} : Start(x, what)
  BY <1>4
  DEF WireStep, WireLoginStart, WireRegisterStart, LoginStart, RegisterStart, WireLoginFinish,
      WireRegisterFinish, WireEnrol, RegisterFinish, WireRefused, WireResume, WireLogout, WireClose
<1>5. CASE \E s \in Sid : HttpStatus(s) \/ HttpLogout(s)
  BY <1>1, <1>5 DEF HttpStatus, HttpLogout
<1> QED BY <1>1, <1>2, <1>3, <1>4, <1>5 DEF Next

\* A ceremony that is started is known at once.
LEMMA StartKnown ==
  ASSUME Typed, NEW k \in Ceremony, NEW what \in {"login", "register"}, Start(k, what),
         UNCHANGED enrolled
  PROVE  Known(k)'
BY DEF Start, Known, Typed, TypeOK

\* What was known and enrolled still is.
Stays == /\ \A k \in CeremonyOrNone : Known(k) => Known(k)'
         /\ enrolled \subseteq enrolled'

LEMMA NextStays ==
  ASSUME Typed, Next, ~ Restart
  PROVE  Stays
<1>1. None \in CeremonyOrNone /\ Known(None)
  BY DEF CeremonyOrNone, Known
<1> QED BY <1>1, KnownStays DEF Stays

LEMMA SessionsStay ==
  ASSUME Typed, SessionsFine, Stays,
         \A s \in Sessions' : \/ s \in Sessions /\ session'[s].principal = session[s].principal
                                 /\ session'[s].scopes = session[s].scopes
                                 /\ session'[s].pending \in {session[s].pending, None}
                              \/ session'[s] = NoHttpSession
  PROVE  SessionsFine'
<1> SUFFICES ASSUME NEW s \in Sessions'
             PROVE  /\ Known(session[s].pending)'
                    /\ session'[s].scopes <=> session'[s].principal # None
                    /\ session'[s].principal \in enrolled' \cup {None}
  BY DEF SessionsFine
<1>1. CASE session'[s] = NoHttpSession
  BY <1>1 DEF NoHttpSession, Known
<1>2. CASE s \in Sessions /\ session'[s] # NoHttpSession
  <2>1. session[s].pending \in CeremonyOrNone
    BY <1>2 DEF Typed, TypeOK, HttpSession
  <2> QED BY <1>2, <2>1 DEF SessionsFine, Stays, Known
<1> QED BY <1>1, <1>2

LEMMA RequestsStay ==
  ASSUME Typed, RequestsFine, Stays, NEW q \in Request, req'[q] = req[q] \/ req'[q] = NoRequest
  PROVE  /\ Known(req[q].ceremony)'
         /\ req'[q].at = "grant" => req'[q].principal \in enrolled'
<1>1. req[q].ceremony \in CeremonyOrNone
  BY DEF Typed, TypeOK, RequestState
<1> QED BY <1>1 DEF RequestsFine, Stays, Known, NoRequest

LEMMA GotoFine ==
  ASSUME Typed, RequestsFine, Stays, NEW r \in Request, NEW at, NEW s, NEW k, NEW p,
         Goto(r, at, s, k, p), k # None => kind'[k] # "none" /\ keys'[k] \subseteq enrolled',
         at = "grant" => p \in enrolled'
  PROVE  RequestsFine'
<1>1. /\ \A q \in Request : q # r => req'[q] = req[q]
      /\ req'[r].at = at /\ req'[r].ceremony = k /\ req'[r].principal = p
  BY DEF Goto, Typed, TypeOK
<1> QED BY <1>1, RequestsStay DEF RequestsFine, Known

LEMMA AnswerFine ==
  ASSUME Typed, RequestsFine, Stays, NEW r \in Request, Answer(r)
  PROVE  RequestsFine'
<1>1. \A q \in Request : req'[q] = req[q] \/ req'[q] = NoRequest
  BY DEF Answer, Typed, TypeOK
<1> QED BY <1>1, RequestsStay DEF RequestsFine

LEMMA WiresStay ==
  ASSUME Typed, WiresFine, Stays, NEW c \in Conn, wire'[c] = wire[c]
  PROVE  /\ Known(wire[c].auth_state)' /\ Known(wire[c].reg_state)' /\ Known(wire[c].enrolling)'
         /\ wire'[c].ceiling <=> wire'[c].principal # None
         /\ wire'[c].principal \in enrolled' \cup {None}
<1>1. wire[c].auth_state \in CeremonyOrNone /\ wire[c].reg_state \in CeremonyOrNone
      /\ wire[c].enrolling \in CeremonyOrNone
  BY DEF Typed, TypeOK, Session
<1> QED BY <1>1 DEF WiresFine, Stays, Known

LEMMA HttpWhole ==
  ASSUME Typed, WholeInv, Stays, NEW r \in Request, HttpStep(r)
  PROVE  WholeInv'
<1>1. WiresFine'
  <2>1. wire' = wire
    BY DEF HttpStep, HttpLoginStart, HttpRegisterStart, ensure_session, Pend, HttpLoginFinish,
           HttpRegisterFinish, Verify, Grant, TakeRegistration, Enrol, Refused, Panic
  <2> QED BY <2>1, WiresStay DEF WholeInv, WiresFine
<1> DEFINE k == req[r].ceremony
<1>2. /\ k \in CeremonyOrNone /\ Known(k)
      /\ k # None => kind'[k] # "none" /\ keys'[k] \subseteq enrolled'
  BY DEF Typed, TypeOK, RequestState, WholeInv, RequestsFine, Stays, Known
<1> HIDE DEF k
<1> USE DEF WholeInv
<1> SUFFICES SessionsFine' /\ RequestsFine'
  BY <1>1
<1>3. ASSUME NEW s \in Cookie, NEW x \in Ceremony, HttpLoginStart(r, s, x) \/ HttpRegisterStart(r, s, x)
      PROVE  SessionsFine' /\ RequestsFine'
  <2>1. kind'[x] # "none" /\ keys'[x] \subseteq enrolled'
    BY <1>3
    DEF HttpLoginStart, HttpRegisterStart, LoginStart, RegisterStart, Start, Typed, TypeOK
  <2>2. Goto(r, "ensure", s, x, None) /\ session' = session
    BY <1>3 DEF HttpLoginStart, HttpRegisterStart
  <2> QED BY <2>1, <2>2, GotoFine, SessionsStay DEF Sessions
<1>4. CASE ensure_session(r)
  <2>1. RequestsFine'
    BY <1>2, <1>4, GotoFine DEF ensure_session, k
  <2>2. SessionsFine'
    BY <1>4, SessionsStay DEF ensure_session, Sessions
  <2> QED BY <2>1, <2>2
<1>5. CASE Pend(r)
  <2>1. RequestsFine'
    BY <1>5, AnswerFine DEF Pend
  <2>2. CASE session' = session
    BY <2>1, <2>2, SessionsStay DEF Sessions
  <2>3. CASE session' = [session EXCEPT ![req[r].sid].pending = k]
    <3>1. Sessions' = Sessions
      BY <2>3 DEF Sessions
    <3>2. ASSUME NEW s \in Sessions
          PROVE  /\ Known(session[s].pending)'
                 /\ session'[s].scopes <=> session'[s].principal # None
                 /\ session'[s].principal \in enrolled' \cup {None}
      <4>1. /\ session'[s].principal = session[s].principal /\ session'[s].scopes = session[s].scopes
            /\ session'[s].pending = session[s].pending \/ session'[s].pending = k
        BY <2>3, <3>2 DEF Sessions, Typed, TypeOK, HttpSession
      <4>2. session[s].pending \in CeremonyOrNone
        BY DEF Typed, TypeOK, HttpSession
      <4> QED BY <1>2, <4>1, <4>2 DEF SessionsFine, Stays, Known
    <3> QED BY <2>1, <3>1, <3>2 DEF SessionsFine
  <2> QED BY <1>5, <2>2, <2>3 DEF Pend, k
<1>6. ASSUME NEW s \in Sid \cup {None}, NEW what, TakePending(s, what)
      PROVE  /\ SessionsFine'
             /\ session[s].pending # None =>
                  /\ kind'[session[s].pending] # "none"
                  /\ keys'[session[s].pending] \subseteq enrolled'
  <2>1. SessionsFine'
    BY <1>6, SessionsStay DEF TakePending, Typed, TypeOK, Sessions, HttpSession
  <2>2. s \in Sessions /\ session[s].pending \in CeremonyOrNone
    BY <1>6 DEF TakePending, Pending, InTable, Typed, TypeOK, HttpSession
  <2> QED BY <2>1, <2>2 DEF SessionsFine, Stays, Known
<1>7. ASSUME NEW s \in Cookie, HttpLoginFinish(r, s)
      PROVE  SessionsFine' /\ RequestsFine'
  <2>1. s \in Sid \cup {None}
    BY DEF Cookie, Typed, TypeOK
  <2> QED BY <1>6, <1>7, <2>1, GotoFine DEF HttpLoginFinish
<1>8. ASSUME NEW s \in Cookie, HttpRegisterFinish(r, s)
      PROVE  SessionsFine' /\ RequestsFine'
  BY <1>8, GotoFine, SessionsStay DEF HttpRegisterFinish, Sessions
<1>9. ASSUME NEW p \in Ceremony, Verify(r, p)
      PROVE  SessionsFine' /\ RequestsFine'
  <2>1. k # None
    BY <1>9 DEF Verify, Typed, HandsOK, k
  <2>2. p \in enrolled'
    BY <1>2, <1>9, <2>1 DEF Verify, k
  <2> QED BY <1>9, <2>2, GotoFine, SessionsStay DEF Verify, Sessions
<1>10. CASE Grant(r)
  <2>1. req[r].principal \in enrolled' /\ req[r].principal # None
    BY <1>10 DEF Grant, RequestsFine, Stays, Typed, HandsOK
  <2>2. Sessions' = Sessions
    BY <1>10 DEF Grant, Sessions
  <2>3. ASSUME NEW s \in Sessions
        PROVE  /\ Known(session[s].pending)'
               /\ session'[s].scopes <=> session'[s].principal # None
               /\ session'[s].principal \in enrolled' \cup {None}
    <3>1. session[s].pending \in CeremonyOrNone /\ session[s] \in HttpSession
      BY DEF Typed, TypeOK, HttpSession
    <3>2. /\ session'[s].pending = session[s].pending
          /\ \/ session'[s].scopes = TRUE /\ session'[s].principal = req[r].principal
             \/ session'[s] = session[s]
      BY <1>10, <3>1 DEF Grant, HttpSession
    <3> QED BY <2>1, <3>1, <3>2 DEF SessionsFine, Stays, Known
  <2> QED BY <1>10, <2>2, <2>3, AnswerFine DEF Grant, SessionsFine
<1>11. CASE TakeRegistration(r)
  <2>1. req[r].sid \in Sid \cup {None}
    BY DEF Typed, TypeOK, RequestState
  <2> QED BY <1>6, <1>11, <2>1, GotoFine DEF TakeRegistration
<1>12. CASE Refused(r) \/ Panic(r) \/ \E ok \in BOOLEAN : Enrol(r, ok)
  BY <1>12, AnswerFine, SessionsStay DEF Refused, Panic, Enrol, Sessions
<1> QED
  BY <1>3, <1>4, <1>5, <1>7, <1>8, <1>9, <1>10, <1>11, <1>12 DEF HttpStep

LEMMA WireWhole ==
  ASSUME Typed, WholeInv, Stays, NEW c \in Conn, WireStep(c)
  PROVE  WholeInv'
<1>1. UNCHANGED <<session, req>>
  BY DEF WireStep, WireLoginStart, WireRegisterStart, WireLoginFinish, WireRegisterFinish,
         WireEnrol, WireRefused, WireResume, WireLogout, WireClose
<1>2. SessionsFine' /\ RequestsFine'
  BY <1>1, SessionsStay, RequestsStay DEF WholeInv, RequestsFine, Sessions
<1>3. \A b \in Conn \ {c} : wire'[b] = wire[b]
  BY DEF WireStep, WireLoginStart, WireRegisterStart, WireLoginFinish, WireRegisterFinish,
         WireEnrol, WireRefused, WireResume, WireLogout, WireClose, Typed, TypeOK
<1> DEFINE was == wire[c]
           new == wire'[c]
           Live(k) == k # None => kind'[k] # "none" /\ keys'[k] \subseteq enrolled'
<1>4. /\ was \in Session
      /\ Live(was.auth_state) /\ Live(was.reg_state) /\ Live(was.enrolling) /\ Live(None)
      /\ was.ceiling <=> was.principal # None
      /\ was.principal \in enrolled' \cup {None}
  BY DEF Typed, TypeOK, Session, WholeInv, WiresFine, Stays, Known
<1>5. SUFFICES /\ Live(new.auth_state) /\ Live(new.reg_state) /\ Live(new.enrolling)
               /\ new.ceiling <=> new.principal # None
               /\ new.principal \in enrolled' \cup {None}
  BY <1>2, <1>3, WiresStay DEF WholeInv, WiresFine, Known
<1>6. ASSUME NEW k \in Ceremony, WireLoginStart(c, k) \/ WireRegisterStart(c, k)
      PROVE  /\ Live(new.auth_state) /\ Live(new.reg_state) /\ Live(new.enrolling)
             /\ new.ceiling = was.ceiling /\ new.principal = was.principal
  <2>1. Live(k)
    BY <1>6
    DEF WireLoginStart, WireRegisterStart, LoginStart, RegisterStart, Start, Typed, TypeOK
  <2>2. \/ new = [was EXCEPT !.auth_state = k]
        \/ new = [was EXCEPT !.reg_state = k]
    BY <1>6 DEF WireLoginStart, WireRegisterStart, Typed, TypeOK
  <2> QED BY <1>4, <2>1, <2>2 DEF Session
<1>7. CASE WireLoginFinish(c)
  <2>1. CASE new = [was EXCEPT !.auth_state = None]
    BY <1>4, <2>1 DEF Session
  <2>2. ASSUME NEW p \in keys[was.auth_state], was.auth_state # None,
               new = [was EXCEPT !.auth_state = None, !.ceiling = TRUE, !.principal = p]
        PROVE  /\ Live(new.auth_state) /\ Live(new.reg_state) /\ Live(new.enrolling)
               /\ new.ceiling <=> new.principal # None
               /\ new.principal \in enrolled' \cup {None}
    <3>1. p \in enrolled /\ p # None /\ enrolled \subseteq enrolled'
      BY <2>2, SignInAssumption
      DEF WholeInv, WiresFine, Known, Stays, Typed, TypeOK, Session, CeremonyOrNone
    <3> QED BY <1>4, <2>2, <3>1 DEF Session
  <2> QED BY <1>7, <2>1, <2>2 DEF WireLoginFinish, Typed, TypeOK
<1>8. CASE WireRegisterFinish(c) \/ WireRefused(c) \/ \E ok \in BOOLEAN : WireEnrol(c, ok)
  <2>1. \/ new = [was EXCEPT !.reg_state = None, !.enrolling = was.reg_state]
        \/ new = [was EXCEPT !.enrolling = None]
    BY <1>8 DEF WireRegisterFinish, WireRefused, WireEnrol, Typed, TypeOK
  <2> QED BY <1>4, <2>1 DEF Session
<1>9. CASE WireLogout(c) \/ WireClose(c)
  BY <1>4, <1>9 DEF WireLogout, WireClose, NoSession, Typed, TypeOK
<1>10. ASSUME NEW s \in Sid, WireResume(c, s)
       PROVE  /\ Live(new.auth_state) /\ Live(new.reg_state) /\ Live(new.enrolling)
              /\ new.ceiling <=> new.principal # None
              /\ new.principal \in enrolled' \cup {None}
  <2>1. /\ session[s].principal # None
        /\ session[s].principal \in enrolled'
    BY <1>10 DEF WireResume, InTable, WholeInv, SessionsFine, Stays
  <2>2. new = [was EXCEPT !.ceiling = TRUE, !.principal = session[s].principal]
    BY <1>10 DEF WireResume, Typed, TypeOK
  <2> QED BY <1>4, <2>1, <2>2 DEF Session
<1> QED BY <1>4, <1>6, <1>7, <1>8, <1>9, <1>10 DEF WireStep

LEMMA NextWhole ==
  ASSUME Typed, WholeInv, [Next]_vars
  PROVE  WholeInv'
<1>1. CASE Restart
  BY <1>1
  DEF Restart, WholeInv, SessionsFine, RequestsFine, WiresFine, Known, Sessions, NoRequest, NoSession
<1>2. CASE UNCHANGED vars
  BY <1>2 DEF vars, WholeInv, SessionsFine, RequestsFine, WiresFine, Known, Sessions
<1>3. ASSUME Next, ~ Restart, NEW s \in Sid, HttpStatus(s) \/ HttpLogout(s)
      PROVE  WholeInv'
  <2>1. Stays
    BY <1>3, NextStays
  <2>2. UNCHANGED <<req, wire>>
    BY <1>3 DEF HttpStatus, HttpLogout
  <2>3. RequestsFine' /\ WiresFine'
    BY <2>1, <2>2, RequestsStay, WiresStay DEF WholeInv, RequestsFine, WiresFine
  <2>4. SessionsFine'
    <3>1. CASE HttpStatus(s)
      BY <2>1, <3>1, SessionsStay DEF HttpStatus, WholeInv, Sessions, Typed, TypeOK, HttpSession
    <3>2. CASE HttpLogout(s)
      BY <2>1, <3>2, SessionsStay DEF HttpLogout, WholeInv, Sessions
    <3> QED BY <1>3, <3>1, <3>2
  <2> QED BY <2>3, <2>4 DEF WholeInv
<1>4. CASE Next /\ ~ Restart
  <2>1. Stays
    BY <1>4, NextStays
  <2> QED BY <1>3, <1>4, <2>1, HttpWhole, WireWhole DEF Next
<1> QED BY <1>1, <1>2, <1>4

\* Who is signed in, on either face, is an enrolled credential, for any number of
\* requests and connections, sign-outs, failing saves and restarts (SignedInIsWhole).
THEOREM SignedInAreEnrolled == Spec => []SignedInIsWhole
<1>1. Init => WholeInv
  BY DEF Init, WholeInv, SessionsFine, RequestsFine, WiresFine, Known, Sessions, NoRequest, NoSession
<1>2. Typed /\ WholeInv /\ [Next]_vars => WholeInv'
  BY NextWhole
<1>3. WholeInv => SignedInIsWhole
  BY DEF WholeInv, SessionsFine, WiresFine, SignedInIsWhole
<1> QED BY <1>1, <1>2, <1>3, AlwaysTyped, PTL DEF Spec

-------------------------------------------------------------------------------
(* Ceremonies.                                                             *)

\* What was not started is held by nobody.
OnceInv ==
  /\ CeremonyOnce
  /\ \A k \in Ceremony : kind[k] = "none" => Holders(k) = {} /\ k \notin spent

\* Nothing is held that was not held before.
LEMMA DropOnce ==
  ASSUME OnceInv, UNCHANGED <<kind, spent>>, \A k \in Ceremony : Holders(k)' \subseteq Holders(k)
  PROVE  OnceInv'
BY DEF OnceInv, CeremonyOnce

\* The state of k goes from x to y, is made at y, or is used up.
LEMMA MoveOnce ==
  ASSUME OnceInv, NEW k \in Ceremony, NEW y, Holders(k)' \subseteq {y},
         k \in spent' => Holders(k)' = {}, kind'[k] # "none",
         \A h \in Ceremony \ {k} : /\ Holders(h)' \subseteq Holders(h)
                                   /\ h \in spent' => h \in spent
                                   /\ kind'[h] = kind[h]
  PROVE  OnceInv'
BY DEF OnceInv, CeremonyOnce

\* An action that leaves the sessions and the connections alone and puts k, or
\* nothing, into a request's hands.
LEMMA HandsHold ==
  ASSUME TypeOK, NEW r \in Request, NEW k, req' \in [Request -> RequestState],
         \A q \in Request \ {r} : req'[q] = req[q], req'[r].ceremony = k,
         wire' = wire, Sessions' \subseteq Sessions,
         \A s \in Sessions' : session'[s].pending \in {session[s].pending, None},
         NEW h \in Ceremony
  PROVE  Holders(h)' \subseteq Holders(h) \cup IF h = k THEN {<<"request", r>>} ELSE {}
BY SignInAssumption DEF Holders

\* Where an actor has left a request's hands.
LEMMA GotoHolds ==
  ASSUME TypeOK, NEW r \in Request, NEW at, NEW s, NEW k, NEW p, Goto(r, at, s, k, p)
  PROVE  /\ \A q \in Request \ {r} : req'[q] = req[q]
         /\ req'[r].ceremony = k
BY DEF Goto, TypeOK

LEMMA AnswerHolds ==
  ASSUME TypeOK, NEW r \in Request, Answer(r)
  PROVE  /\ \A q \in Request \ {r} : req'[q] = req[q]
         /\ req'[r].ceremony = None
BY DEF Answer, NoRequest, TypeOK

\* A ceremony's state is taken out of its session.
LEMMA TakeOnce ==
  ASSUME Typed, Typed', OnceInv, NEW r \in Request, NEW s, NEW what, NEW at, TakePending(s, what),
         Goto(r, at, s, session[s].pending, None), UNCHANGED <<kind, spent, wire>>
  PROVE  OnceInv'
<1>1. s \in Sessions /\ session[s].pending \in Ceremony
  BY DEF TakePending, Pending, InTable, Typed, TypeOK, HttpSession, CeremonyOrNone
<1>2. PICK k \in Ceremony : k = session[s].pending
  BY <1>1
<1>3. /\ Sessions' = Sessions /\ session'[s].pending = None
      /\ \A x \in Sessions : session'[x].pending \in {session[x].pending, None}
  BY <1>1 DEF TakePending, Typed, TypeOK, Sessions, HttpSession
<1>4. /\ \A q \in Request \ {r} : req'[q] = req[q]
      /\ req'[r].ceremony = k
  BY <1>2, GotoHolds DEF Typed
<1>5. \A h \in Ceremony : Holders(h)' \subseteq Holders(h) \cup IF h = k THEN {<<"request", r>>} ELSE {}
  BY <1>3, <1>4, HandsHold DEF Typed, TypeOK
<1>6. <<"session", s>> \in Holders(k)
  BY <1>1, <1>2 DEF Holders
<1>7. <<"session", s>> \notin Holders(k)'
  BY <1>3, SignInAssumption DEF Holders
<1>8. Holders(k) = {<<"session", s>>} /\ k \notin spent /\ kind[k] # "none"
  BY <1>6 DEF OnceInv, CeremonyOnce
<1>9. Holders(k)' \subseteq {<<"request", r>>}
  BY <1>5, <1>7, <1>8
<1>10. k \notin spent' /\ kind'[k] # "none"
  BY <1>8
<1>11. \A h \in Ceremony \ {k} : /\ Holders(h)' \subseteq Holders(h)
                                 /\ h \in spent' => h \in spent
                                 /\ kind'[h] = kind[h]
  BY <1>5
<1> QED BY <1>9, <1>10, <1>11, MoveOnce

\* What a request has in its hands is nowhere else.
LEMMA InHands ==
  ASSUME Typed, OnceInv, NEW r \in Request, NEW k \in Ceremony, req[r].ceremony = k
  PROVE  Holders(k) = {<<"request", r>>} /\ k \notin spent /\ kind[k] # "none"
<1>1. <<"request", r>> \in Holders(k)
  BY DEF Holders
<1> QED BY <1>1 DEF OnceInv, CeremonyOnce

\* A request starts a ceremony, goes on with it, or is done with it.
LEMMA HttpOnce ==
  ASSUME Typed, Typed', OnceInv, NEW r \in Request, HttpStep(r)
  PROVE  OnceInv'
<1>1. ASSUME NEW s \in Cookie, NEW k \in Ceremony, HttpLoginStart(r, s, k) \/ HttpRegisterStart(r, s, k)
      PROVE  OnceInv'
  <2>1. Goto(r, "ensure", s, k, None) /\ UNCHANGED <<session, wire, spent>>
    BY <1>1 DEF HttpLoginStart, HttpRegisterStart, history
  <2>2. /\ kind[k] = "none"
        /\ \/ kind' = [kind EXCEPT ![k] = "login"]
           \/ kind' = [kind EXCEPT ![k] = "register"]
    BY <1>1 DEF HttpLoginStart, HttpRegisterStart, LoginStart, RegisterStart, Start
  <2>3. /\ \A q \in Request \ {r} : req'[q] = req[q]
        /\ req'[r].ceremony = k
    BY <2>1, GotoHolds DEF Typed
  <2>4. \A h \in Ceremony : Holders(h)' \subseteq Holders(h) \cup IF h = k THEN {<<"request", r>>} ELSE {}
    BY <2>1, <2>3, HandsHold DEF Typed, TypeOK, Sessions
  <2>5. Holders(k) = {} /\ k \notin spent
    BY <2>2 DEF OnceInv
  <2>6. kind'[k] # "none" /\ \A h \in Ceremony \ {k} : kind'[h] = kind[h]
    BY <2>2 DEF Typed, TypeOK
  <2>7. Holders(k)' \subseteq {<<"request", r>>} /\ k \notin spent'
    BY <2>1, <2>4, <2>5
  <2> QED BY <2>1, <2>4, <2>6, <2>7, MoveOnce
<1>2. CASE ensure_session(r)
  <2>1. \A q \in Request : req'[q].ceremony = req[q].ceremony
    BY <1>2, GotoHolds DEF ensure_session, Typed
  <2>2. UNCHANGED <<kind, spent, wire>>
    BY <1>2 DEF ensure_session, history
  <2>3. \A s \in Sessions' : \/ s \in Sessions /\ session'[s] = session[s]
                             \/ session'[s].pending = None
    <3>1. CASE UNCHANGED session
      BY <3>1 DEF Sessions
    <3>2. ASSUME NEW s \in Sid,
                 session' = [x \in Sessions \cup {s} |-> IF x = s THEN NoHttpSession ELSE session[x]]
          PROVE  \A x \in Sessions' : \/ x \in Sessions /\ session'[x] = session[x]
                                      \/ session'[x].pending = None
      BY <3>2 DEF NoHttpSession, Sessions
    <3> QED BY <1>2, <3>1, <3>2 DEF ensure_session
  <2>4. \A h \in Ceremony : Holders(h)' \subseteq Holders(h)
    BY <2>1, <2>2, <2>3, SignInAssumption DEF Holders
  <2> QED BY <2>2, <2>4, DropOnce
<1>3. CASE Pend(r)
  <2>1. /\ \A q \in Request \ {r} : req'[q] = req[q]
        /\ req'[r].ceremony = None
    BY <1>3, AnswerHolds DEF Pend, Typed
  <2>2. UNCHANGED <<kind, spent, wire>>
    BY <1>3 DEF Pend, history
  <2>3. CASE session' = session
    <3>1. \A h \in Ceremony : Holders(h)' \subseteq Holders(h)
      BY <2>1, <2>2, <2>3, SignInAssumption DEF Holders, Sessions
    <3> QED BY <2>2, <3>1, DropOnce
  <2>4. CASE session' = [session EXCEPT ![req[r].sid].pending = req[r].ceremony]
    <3>1. PICK k \in Ceremony : k = req[r].ceremony
      BY <1>3 DEF Pend, Typed, HandsOK, TypeOK, RequestState, CeremonyOrNone
    <3>2. PICK s : s = req[r].sid
      OBVIOUS
    <3>3. Sessions' = Sessions /\ \A x \in Sessions : \/ session'[x].pending = session[x].pending
                                                      \/ x = s /\ session'[x].pending = k
      BY <2>4, <3>1, <3>2 DEF Sessions, Typed, TypeOK, HttpSession
    <3>4. \A h \in Ceremony : Holders(h)' \subseteq Holders(h) \cup IF h = k THEN {<<"session", s>>} ELSE {}
      BY <2>1, <2>2, <3>3, SignInAssumption DEF Holders
    <3>5. <<"request", r>> \notin Holders(k)'
      BY <2>1, SignInAssumption DEF Holders
    <3>6. Holders(k) = {<<"request", r>>} /\ k \notin spent /\ kind[k] # "none"
      BY <3>1, InHands
    <3>7. Holders(k)' \subseteq {<<"session", s>>}
      BY <3>4, <3>5, <3>6
    <3> QED BY <2>2, <3>4, <3>6, <3>7, MoveOnce
  <2> QED BY <1>3, <2>3, <2>4 DEF Pend
<1>4. ASSUME NEW s \in Cookie, HttpLoginFinish(r, s)
      PROVE  OnceInv'
  BY <1>4, TakeOnce DEF HttpLoginFinish, history
<1>5. CASE TakeRegistration(r)
  BY <1>5, TakeOnce DEF TakeRegistration, history
<1>6. ASSUME UNCHANGED <<kind, session, wire, spent>>,
             \A q \in Request \ {r} : req'[q] = req[q], req'[r].ceremony = None
      PROVE  OnceInv'
  <2>1. \A h \in Ceremony : Holders(h)' \subseteq Holders(h)
    BY <1>6, SignInAssumption DEF Holders, Sessions
  <2> QED BY <1>6, <2>1, DropOnce
<1>7. ASSUME UNCHANGED <<kind, session, wire>>, req[r].ceremony # None,
             spent' = spent \cup {req[r].ceremony},
             \A q \in Request \ {r} : req'[q] = req[q], req'[r].ceremony = None
      PROVE  OnceInv'
  <2>1. PICK k \in Ceremony : k = req[r].ceremony
    BY <1>7 DEF Typed, TypeOK, RequestState, CeremonyOrNone
  <2>2. \A h \in Ceremony : Holders(h)' \subseteq Holders(h) /\ <<"request", r>> \notin Holders(h)'
    BY <1>7, SignInAssumption DEF Holders, Sessions
  <2>3. Holders(k) = {<<"request", r>>} /\ kind[k] # "none"
    BY <2>1, InHands
  <2>4. Holders(k)' = {}
    BY <2>2, <2>3
  <2> QED BY <1>7, <2>1, <2>2, <2>3, <2>4, MoveOnce
<1>8. ASSUME NEW s \in Cookie, HttpRegisterFinish(r, s)
      PROVE  OnceInv'
  BY <1>6, <1>8, GotoHolds DEF HttpRegisterFinish, history, Typed
<1>9. ASSUME NEW p \in Ceremony, Verify(r, p)
      PROVE  OnceInv'
  <2>1. req[r].ceremony # None
    BY <1>9 DEF Verify, Typed, HandsOK
  <2>2. /\ \A q \in Request \ {r} : req'[q] = req[q]
        /\ req'[r].ceremony = None
    BY <1>9, GotoHolds DEF Verify, Typed
  <2> QED BY <1>7, <1>9, <2>1, <2>2 DEF Verify
<1>10. CASE Grant(r)
  <2>1. /\ \A q \in Request \ {r} : req'[q] = req[q]
        /\ req'[r].ceremony = None
    BY <1>10, AnswerHolds DEF Grant, Typed
  <2>2. Sessions' = Sessions /\ \A s \in Sessions : session'[s].pending = session[s].pending
    BY <1>10 DEF Grant, Sessions, Typed, TypeOK, HttpSession
  <2>3. UNCHANGED <<kind, wire, spent>>
    BY <1>10 DEF Grant, history
  <2>4. \A h \in Ceremony : Holders(h)' \subseteq Holders(h)
    BY <2>1, <2>2, <2>3, SignInAssumption DEF Holders
  <2> QED BY <2>3, <2>4, DropOnce
<1>11. ASSUME NEW ok \in BOOLEAN, Enrol(r, ok)
       PROVE  OnceInv'
  <2>1. req[r].ceremony # None
    BY <1>11 DEF Enrol, Typed, HandsOK
  <2>2. /\ \A q \in Request \ {r} : req'[q] = req[q]
        /\ req'[r].ceremony = None
    BY <1>11, AnswerHolds DEF Enrol, Typed
  <2> QED BY <1>7, <1>11, <2>1, <2>2 DEF Enrol, RegisterFinish
<1>12. CASE Refused(r) \/ Panic(r)
  BY <1>6, <1>12, AnswerHolds DEF Refused, Panic, history, Typed
<1> QED
  BY <1>1, <1>2, <1>3, <1>4, <1>5, <1>8, <1>9, <1>10, <1>11, <1>12 DEF HttpStep

\* A connection starts a ceremony, goes on with it, or is done with it.
LEMMA WireOnce ==
  ASSUME Typed, OnceInv, NEW c \in Conn, WireStep(c)
  PROVE  OnceInv'
<1>1. ASSUME NEW k \in Ceremony, WireLoginStart(c, k) \/ WireRegisterStart(c, k)
      PROVE  OnceInv'
  <2>1. /\ kind[k] = "none"
        /\ \/ kind' = [kind EXCEPT ![k] = "login"]
           \/ kind' = [kind EXCEPT ![k] = "register"]
        /\ UNCHANGED <<session, req, spent>>
    BY <1>1 DEF WireLoginStart, WireRegisterStart, LoginStart, RegisterStart, Start, history
  <2>2. kind'[k] # "none" /\ \A h \in Ceremony \ {k} : kind'[h] = kind[h]
    BY <2>1 DEF Typed, TypeOK
  <2>3. Holders(k) = {} /\ k \notin spent
    BY <2>1 DEF OnceInv
  <2>4. CASE WireLoginStart(c, k)
    <3>1. \A d \in Conn : /\ wire'[d].auth_state \in {wire[d].auth_state} \cup IF d = c THEN {k} ELSE {}
                          /\ wire'[d].reg_state = wire[d].reg_state
                          /\ wire'[d].enrolling = wire[d].enrolling
      BY <2>4 DEF WireLoginStart, Typed, TypeOK, Session
    <3>2. \A h \in Ceremony : Holders(h)' \subseteq Holders(h) \cup IF h = k THEN {<<"login", c>>} ELSE {}
      BY <2>1, <3>1 DEF Holders, Sessions
    <3>3. Holders(k)' \subseteq {<<"login", c>>}
      BY <2>3, <3>2
    <3> QED BY <2>1, <2>2, <2>3, <3>2, <3>3, MoveOnce
  <2>5. CASE WireRegisterStart(c, k)
    <3>1. \A d \in Conn : /\ wire'[d].reg_state \in {wire[d].reg_state} \cup IF d = c THEN {k} ELSE {}
                          /\ wire'[d].auth_state = wire[d].auth_state
                          /\ wire'[d].enrolling = wire[d].enrolling
      BY <2>5 DEF WireRegisterStart, Typed, TypeOK, Session
    <3>2. \A h \in Ceremony : Holders(h)' \subseteq Holders(h) \cup IF h = k THEN {<<"register", c>>} ELSE {}
      BY <2>1, <3>1 DEF Holders, Sessions
    <3>3. Holders(k)' \subseteq {<<"register", c>>}
      BY <2>3, <3>2
    <3> QED BY <2>1, <2>2, <2>3, <3>2, <3>3, MoveOnce
  <2> QED BY <1>1, <2>4, <2>5
<1>2. ASSUME UNCHANGED <<kind, session, req, spent>>,
             \A d \in Conn : /\ wire'[d].auth_state \in {wire[d].auth_state, None}
                             /\ wire'[d].reg_state \in {wire[d].reg_state, None}
                             /\ wire'[d].enrolling \in {wire[d].enrolling, None}
      PROVE  OnceInv'
  <2>1. \A h \in Ceremony : Holders(h)' \subseteq Holders(h)
    BY <1>2, SignInAssumption DEF Holders, Sessions
  <2> QED BY <1>2, <2>1, DropOnce
<1>3. CASE WireLoginFinish(c)
  <2>1. PICK k \in Ceremony : k = wire[c].auth_state
    BY <1>3 DEF WireLoginFinish, Typed, TypeOK, Session, CeremonyOrNone
  <2>2. /\ UNCHANGED <<kind, session, req>>
        /\ spent' \in {spent, spent \cup {k}}
    BY <1>3, <2>1 DEF WireLoginFinish
  <2>3. /\ wire'[c].auth_state = None
        /\ \A d \in Conn : /\ wire'[d].auth_state \in {wire[d].auth_state, None}
                           /\ wire'[d].reg_state = wire[d].reg_state
                           /\ wire'[d].enrolling = wire[d].enrolling
    BY <1>3 DEF WireLoginFinish, Typed, TypeOK, Session
  <2>4. <<"login", c>> \in Holders(k)
    BY <2>1 DEF Holders
  <2>5. Holders(k) = {<<"login", c>>} /\ kind[k] # "none"
    BY <2>4 DEF OnceInv, CeremonyOnce
  <2>6. \A h \in Ceremony : Holders(h)' \subseteq Holders(h) /\ <<"login", c>> \notin Holders(h)'
    BY <2>2, <2>3, SignInAssumption DEF Holders, Sessions
  <2>7. Holders(k)' = {}
    BY <2>5, <2>6
  <2> QED BY <2>2, <2>5, <2>6, <2>7, MoveOnce
<1>4. CASE WireRegisterFinish(c)
  <2>1. PICK k \in Ceremony : k = wire[c].reg_state
    BY <1>4 DEF WireRegisterFinish, Typed, TypeOK, Session, CeremonyOrNone
  <2>2. UNCHANGED <<kind, session, req, spent>>
    BY <1>4 DEF WireRegisterFinish, history
  <2>3. /\ wire'[c].reg_state = None
        /\ \A d \in Conn : /\ wire'[d].auth_state = wire[d].auth_state
                           /\ wire'[d].reg_state \in {wire[d].reg_state, None}
                           /\ wire'[d].enrolling \in {wire[d].enrolling} \cup IF d = c THEN {k} ELSE {}
    BY <1>4, <2>1 DEF WireRegisterFinish, Typed, TypeOK, Session
  <2>4. <<"register", c>> \in Holders(k)
    BY <2>1 DEF Holders
  <2>5. Holders(k) = {<<"register", c>>} /\ kind[k] # "none" /\ k \notin spent
    BY <2>4 DEF OnceInv, CeremonyOnce
  <2>6. \A h \in Ceremony : /\ Holders(h)' \subseteq Holders(h) \cup IF h = k THEN {<<"enrolling", c>>} ELSE {}
                            /\ <<"register", c>> \notin Holders(h)'
    BY <2>2, <2>3, SignInAssumption DEF Holders, Sessions
  <2>7. Holders(k)' \subseteq {<<"enrolling", c>>}
    BY <2>5, <2>6
  <2> QED BY <2>2, <2>5, <2>6, <2>7, MoveOnce
<1>5. ASSUME NEW ok \in BOOLEAN, WireEnrol(c, ok)
      PROVE  OnceInv'
  <2>1. PICK k \in Ceremony : k = wire[c].enrolling
    BY <1>5 DEF WireEnrol, Free, Typed, TypeOK, Session, CeremonyOrNone
  <2>2. UNCHANGED <<kind, session, req>> /\ spent' = spent \cup {k}
    BY <1>5, <2>1 DEF WireEnrol, RegisterFinish
  <2>3. /\ wire'[c].enrolling = None
        /\ \A d \in Conn : /\ wire'[d].auth_state = wire[d].auth_state
                           /\ wire'[d].reg_state = wire[d].reg_state
                           /\ wire'[d].enrolling \in {wire[d].enrolling, None}
    BY <1>5 DEF WireEnrol, Typed, TypeOK, Session
  <2>4. <<"enrolling", c>> \in Holders(k)
    BY <2>1 DEF Holders
  <2>5. Holders(k) = {<<"enrolling", c>>} /\ kind[k] # "none"
    BY <2>4 DEF OnceInv, CeremonyOnce
  <2>6. \A h \in Ceremony : Holders(h)' \subseteq Holders(h) /\ <<"enrolling", c>> \notin Holders(h)'
    BY <2>2, <2>3, SignInAssumption DEF Holders, Sessions
  <2>7. Holders(k)' = {}
    BY <2>5, <2>6
  <2> QED BY <2>2, <2>5, <2>6, <2>7, MoveOnce
<1>6. CASE WireRefused(c)
  BY <1>2, <1>6 DEF WireRefused, history, Typed, TypeOK, Session
<1>7. ASSUME NEW s \in Sid, WireResume(c, s)
      PROVE  OnceInv'
  BY <1>2, <1>7 DEF WireResume, history, Typed, TypeOK, Session
<1>8. CASE WireLogout(c) \/ WireClose(c)
  BY <1>2, <1>8 DEF WireLogout, WireClose, NoSession, history, Typed, TypeOK
<1> QED
  BY <1>1, <1>3, <1>4, <1>5, <1>6, <1>7, <1>8 DEF WireStep

LEMMA NextOnce ==
  ASSUME Typed, Typed', OnceInv, [Next]_vars
  PROVE  OnceInv'
<1>1. ASSUME NEW r \in Request, HttpStep(r)
      PROVE  OnceInv'
  BY <1>1, HttpOnce
<1>2. ASSUME NEW c \in Conn, WireStep(c)
      PROVE  OnceInv'
  BY <1>2, WireOnce
<1>3. ASSUME NEW s \in Sid, HttpStatus(s)
      PROVE  OnceInv'
  <2>1. Sessions' = Sessions /\ \A x \in Sessions : session'[x].pending = session[x].pending
    BY <1>3 DEF HttpStatus, Sessions, Typed, TypeOK, HttpSession
  <2>2. UNCHANGED <<kind, wire, req, spent>>
    BY <1>3 DEF HttpStatus, history
  <2>3. \A h \in Ceremony : Holders(h)' \subseteq Holders(h)
    BY <2>1, <2>2 DEF Holders
  <2> QED BY <2>2, <2>3, DropOnce
<1>4. ASSUME NEW s \in Sid, HttpLogout(s)
      PROVE  OnceInv'
  <2>1. Sessions' \subseteq Sessions /\ \A x \in Sessions' : session'[x] = session[x]
    BY <1>4 DEF HttpLogout, Sessions
  <2>2. UNCHANGED <<kind, wire, req, spent>>
    BY <1>4 DEF HttpLogout
  <2>3. \A h \in Ceremony : Holders(h)' \subseteq Holders(h)
    BY <2>1, <2>2 DEF Holders
  <2> QED BY <2>2, <2>3, DropOnce
<1>5. CASE Restart
  <2>1. UNCHANGED <<kind, spent>>
    BY <1>5 DEF Restart, history
  <2>2. /\ Sessions' = {}
        /\ \A r \in Request : req'[r].ceremony = None
        /\ \A c \in Conn : /\ wire'[c].auth_state = None
                           /\ wire'[c].reg_state = None
                           /\ wire'[c].enrolling = None
    BY <1>5 DEF Restart, Sessions, NoRequest, NoSession
  <2>3. \A h \in Ceremony : Holders(h)' = {}
    BY <2>2, SignInAssumption DEF Holders
  <2> QED BY <2>1, <2>3, DropOnce
<1>6. CASE UNCHANGED vars
  <2>1. UNCHANGED <<kind, spent, session, req, wire>>
    BY <1>6 DEF vars, history
  <2>2. \A h \in Ceremony : Holders(h)' \subseteq Holders(h)
    BY <2>1 DEF Holders, Sessions
  <2> QED BY <2>1, <2>2, DropOnce
<1> QED
  BY <1>1, <1>2, <1>3, <1>4, <1>5, <1>6 DEF Next

\* However the requests of a ceremony are repeated, overtake each other and race
\* sign-outs and restarts, its state is held in one place at most, and nowhere
\* once it has signed somebody in or enrolled a credential: no challenge is
\* answered twice (the take of http_auth and handle_auth).
THEOREM CeremoniesAreOnce == Spec => []CeremonyOnce
<1>1. Init => OnceInv
  BY SignInAssumption DEF Init, OnceInv, CeremonyOnce, Holders, Sessions, NoRequest, NoSession
<1>2. Typed /\ Typed' /\ OnceInv /\ [Next]_vars => OnceInv'
  BY NextOnce
<1>3. OnceInv => CeremonyOnce
  BY DEF OnceInv
<1> QED
  BY <1>1, <1>2, <1>3, AlwaysTyped, PTL DEF Spec
===============================================================================
