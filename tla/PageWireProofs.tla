---------------------------- MODULE PageWireProofs ----------------------------
(***************************************************************************)
(* That views ride only the connection of the session the page is signed   *)
(* in with, and that none outlives the session it was taken for, for any   *)
(* number of sessions, connections and views.                              *)
(***************************************************************************)
EXTENDS PageWire, TLAPS

Awaited == step \in {"dialling", "resuming"}

\* A page that is shown, or about to be left, has its session.
SessionInv ==
  /\ page # "out" => cookie # None
  /\ cookie # None => session[cookie] # "left"

\* The token connect goes by is of the page's session, or of one it has left.
TokenInv ==
  /\ token # None => token = cookie \/ session[token] = "left"
  /\ Awaited => token # None
  /\ step \in {"idle", "status"} => token = None

\* What connect awaits, and what of it wire.js still has.
ConnectInv ==
  /\ Awaited => on # None /\ wt \in {None, on} /\ ~ ready
  /\ step \in {"status", "told"} => wt = None /\ ~ ready
  /\ step = "idle" /\ ~ ready => wt = None
  /\ resume # "none" <=> step = "resuming"
  /\ resume # "none" => link[on] # "dialled"

\* A connection that is ready, or about to be, is the present session's.
ReadyInv ==
  /\ \A c \in Conn : link[c] # "open" => bridged[c] = None
  /\ ready => cookie # None /\ link[wt] # "dialled" /\ (link[wt] = "open" => bridged[wt] = cookie)
  /\ resume = "ok" /\ wt # None => token = cookie /\ (link[on] = "open" => bridged[on] = cookie)

\* Unless an earlier connection's event has dropped a later one, wire.js has hold of
\* all there is to close.
HeldInv ==
  ~ late => /\ \A c \in Conn : bridged[c] # None => c = wt /\ bridged[c] = cookie
            /\ Awaited /\ link[on] # "closed" => wt = on

IInv == TypeOK /\ SessionInv /\ TokenInv /\ ConnectInv /\ ReadyInv /\ HeldInv

-------------------------------------------------------------------------------
LEMMA InitInv == Init => IInv
<1> SUFFICES ASSUME Init PROVE IInv
  OBVIOUS
<1> USE PageAssumption DEF Init
<1>1. session \in [Sid -> {"in", "over", "left"}] /\ link \in [Conn -> {"closed", "dialled", "open"}]
  OBVIOUS
<1>2. bridged \in [Conn -> Sid \cup {None}] /\ call \in [Call -> [at : {"idle", "http", "wire"}, on : Conn \cup {None}]]
  BY DEF Local
<1>3. TypeOK
  BY <1>1, <1>2 DEF TypeOK
<1>4. SessionInv /\ TokenInv
  BY DEF SessionInv, TokenInv, Awaited
<1>5. ConnectInv /\ ReadyInv /\ HeldInv
  BY DEF ConnectInv, ReadyInv, HeldInv, Awaited
<1> QED BY <1>3, <1>4, <1>5 DEF IInv

\* A step keeps the types.
LEMMA NextType ==
  ASSUME TypeOK, [Next]_vars
  PROVE  TypeOK'
<1> USE PageAssumption DEF TypeOK, connecting, Local, drop, DroppedBy, Close, Over, Free, connect, shown, connVars
<1>1. ASSUME Status PROVE TypeOK'
  BY <1>1 DEF Status
<1>2. ASSUME Unauthenticated PROVE TypeOK'
  BY <1>2 DEF Unauthenticated
<1>3. ASSUME NEW c \in Conn, Dial(c) PROVE TypeOK'
  BY <1>3 DEF Dial
<1>4. ASSUME Opened PROVE TypeOK'
  BY <1>4 DEF Opened
<1>5. ASSUME Bridge PROVE TypeOK'
  BY <1>5 DEF Bridge
<1>6. ASSUME Resumed PROVE TypeOK'
  BY <1>6 DEF Resumed
<1>7. ASSUME Refused PROVE TypeOK'
  BY <1>7 DEF Refused
<1>8. ASSUME ConnectFails PROVE TypeOK'
  BY <1>8 DEF ConnectFails
<1>9. ASSUME NEW s \in Sid, SignIn(s) PROVE TypeOK'
  BY <1>9 DEF SignIn
<1>10. ASSUME Authed PROVE TypeOK'
  BY <1>10 DEF Authed
<1>11. ASSUME SignOut PROVE TypeOK'
  BY <1>11 DEF SignOut
<1>12. ASSUME SignOutLost PROVE TypeOK'
  BY <1>12 DEF SignOutLost
<1>13. ASSUME Deauthed PROVE TypeOK'
  BY <1>13 DEF Deauthed
<1>14. ASSUME EndedElsewhere PROVE TypeOK'
  BY <1>14 DEF EndedElsewhere
<1>15. ASSUME NEW c \in Conn, Accepted(c) PROVE TypeOK'
  BY <1>15 DEF Accepted
<1>16. ASSUME NEW c \in Conn, Lost(c) PROVE TypeOK'
  BY <1>16 DEF Lost
<1>17. ASSUME NEW c \in Conn, Heard(c) PROVE TypeOK'
  BY <1>17 DEF Heard
<1>18. ASSUME NEW k \in Call, Ask(k) PROVE TypeOK'
  BY <1>18 DEF Ask
<1>19. ASSUME NEW k \in Call, Swapped(k) PROVE TypeOK'
  BY <1>19 DEF Swapped
<1>20. ASSUME NEW k \in Call, WireFailed(k) PROVE TypeOK'
  BY <1>20 DEF WireFailed
<1>21. CASE UNCHANGED vars
  BY <1>21 DEF vars
<1>22. QED
  BY <1>1, <1>2, <1>3, <1>4, <1>5, <1>6, <1>7, <1>8, <1>9, <1>10, <1>11, <1>12, <1>13, <1>14, <1>15, <1>16, <1>17, <1>18, <1>19, <1>20, <1>21 DEF Next, Connecting, Signing, Network, Viewing

\* A step keeps the page's session, and the token of it.
LEMMA NextSession ==
  ASSUME IInv, [Next]_vars
  PROVE  SessionInv' /\ TokenInv'
<1> USE PageAssumption DEF IInv, TypeOK, SessionInv, TokenInv, ConnectInv, Awaited, connecting, Local, drop, DroppedBy, Close, Over, Free, connect, shown, connVars
<1>1. ASSUME Status PROVE SessionInv' /\ TokenInv'
  BY <1>1 DEF Status
<1>2. ASSUME Unauthenticated PROVE SessionInv' /\ TokenInv'
  BY <1>2 DEF Unauthenticated
<1>3. ASSUME NEW c \in Conn, Dial(c) PROVE SessionInv' /\ TokenInv'
  BY <1>3 DEF Dial
<1>4. ASSUME Opened PROVE SessionInv' /\ TokenInv'
  BY <1>4 DEF Opened
<1>5. ASSUME Bridge PROVE SessionInv' /\ TokenInv'
  BY <1>5 DEF Bridge
<1>6. ASSUME Resumed PROVE SessionInv' /\ TokenInv'
  BY <1>6 DEF Resumed
<1>7. ASSUME Refused PROVE SessionInv' /\ TokenInv'
  BY <1>7 DEF Refused
<1>8. ASSUME ConnectFails PROVE SessionInv' /\ TokenInv'
  BY <1>8 DEF ConnectFails
<1>9. ASSUME NEW s \in Sid, SignIn(s) PROVE SessionInv' /\ TokenInv'
  BY <1>9 DEF SignIn
<1>10. ASSUME Authed PROVE SessionInv' /\ TokenInv'
  BY <1>10 DEF Authed
<1>11. ASSUME SignOut PROVE SessionInv' /\ TokenInv'
  BY <1>11 DEF SignOut
<1>12. ASSUME SignOutLost PROVE SessionInv' /\ TokenInv'
  BY <1>12 DEF SignOutLost
<1>13. ASSUME Deauthed PROVE SessionInv' /\ TokenInv'
  BY <1>13 DEF Deauthed
<1>14. ASSUME EndedElsewhere PROVE SessionInv' /\ TokenInv'
  BY <1>14 DEF EndedElsewhere
<1>15. ASSUME NEW c \in Conn, Accepted(c) PROVE SessionInv' /\ TokenInv'
  BY <1>15 DEF Accepted
<1>16. ASSUME NEW c \in Conn, Lost(c) PROVE SessionInv' /\ TokenInv'
  BY <1>16 DEF Lost
<1>17. ASSUME NEW c \in Conn, Heard(c) PROVE SessionInv' /\ TokenInv'
  BY <1>17 DEF Heard
<1>18. ASSUME NEW k \in Call, Ask(k) PROVE SessionInv' /\ TokenInv'
  BY <1>18 DEF Ask
<1>19. ASSUME NEW k \in Call, Swapped(k) PROVE SessionInv' /\ TokenInv'
  BY <1>19 DEF Swapped
<1>20. ASSUME NEW k \in Call, WireFailed(k) PROVE SessionInv' /\ TokenInv'
  BY <1>20 DEF WireFailed
<1>21. CASE UNCHANGED vars
  BY <1>21 DEF vars
<1>22. QED
  BY <1>1, <1>2, <1>3, <1>4, <1>5, <1>6, <1>7, <1>8, <1>9, <1>10, <1>11, <1>12, <1>13, <1>14, <1>15, <1>16, <1>17, <1>18, <1>19, <1>20, <1>21 DEF Next, Connecting, Signing, Network, Viewing

\* A step keeps what connect awaits.
LEMMA NextConnect ==
  ASSUME IInv, [Next]_vars
  PROVE  ConnectInv'
<1> USE PageAssumption DEF IInv, TypeOK, SessionInv, TokenInv, ConnectInv, ReadyInv, Awaited, connecting, Local, drop, DroppedBy, Close, Over, Free, connect, shown, connVars
<1>1. ASSUME Status PROVE ConnectInv'
  BY <1>1 DEF Status
<1>2. ASSUME Unauthenticated PROVE ConnectInv'
  BY <1>2 DEF Unauthenticated
<1>3. ASSUME NEW c \in Conn, Dial(c) PROVE ConnectInv'
  BY <1>3 DEF Dial
<1>4. ASSUME Opened PROVE ConnectInv'
  BY <1>4 DEF Opened
<1>5. ASSUME Bridge PROVE ConnectInv'
  BY <1>5 DEF Bridge
<1>6. ASSUME Resumed PROVE ConnectInv'
  BY <1>6 DEF Resumed
<1>7. ASSUME Refused PROVE ConnectInv'
  BY <1>7 DEF Refused
<1>8. ASSUME ConnectFails PROVE ConnectInv'
  BY <1>8 DEF ConnectFails
<1>9. ASSUME NEW s \in Sid, SignIn(s) PROVE ConnectInv'
  BY <1>9 DEF SignIn
<1>10. ASSUME Authed PROVE ConnectInv'
  BY <1>10 DEF Authed
<1>11. ASSUME SignOut PROVE ConnectInv'
  BY <1>11 DEF SignOut
<1>12. ASSUME SignOutLost PROVE ConnectInv'
  BY <1>12 DEF SignOutLost
<1>13. ASSUME Deauthed PROVE ConnectInv'
  BY <1>13 DEF Deauthed
<1>14. ASSUME EndedElsewhere PROVE ConnectInv'
  BY <1>14 DEF EndedElsewhere
<1>15. ASSUME NEW c \in Conn, Accepted(c) PROVE ConnectInv'
  BY <1>15 DEF Accepted
<1>16. ASSUME NEW c \in Conn, Lost(c) PROVE ConnectInv'
  BY <1>16 DEF Lost
<1>17. ASSUME NEW c \in Conn, Heard(c) PROVE ConnectInv'
  BY <1>17 DEF Heard
<1>18. ASSUME NEW k \in Call, Ask(k) PROVE ConnectInv'
  BY <1>18 DEF Ask
<1>19. ASSUME NEW k \in Call, Swapped(k) PROVE ConnectInv'
  BY <1>19 DEF Swapped
<1>20. ASSUME NEW k \in Call, WireFailed(k) PROVE ConnectInv'
  BY <1>20 DEF WireFailed
<1>21. CASE UNCHANGED vars
  BY <1>21 DEF vars
<1>22. QED
  BY <1>1, <1>2, <1>3, <1>4, <1>5, <1>6, <1>7, <1>8, <1>9, <1>10, <1>11, <1>12, <1>13, <1>14, <1>15, <1>16, <1>17, <1>18, <1>19, <1>20, <1>21 DEF Next, Connecting, Signing, Network, Viewing

\* A step keeps what the ready connection is.
LEMMA NextReady ==
  ASSUME IInv, [Next]_vars
  PROVE  ReadyInv'
<1> USE PageAssumption DEF IInv, TypeOK, SessionInv, TokenInv, ConnectInv, ReadyInv, Awaited, connecting, Local, drop, DroppedBy, Close, Over, Free, connect, shown, connVars
<1>1. ASSUME Status PROVE ReadyInv'
  BY <1>1 DEF Status
<1>2. ASSUME Unauthenticated PROVE ReadyInv'
  BY <1>2 DEF Unauthenticated
<1>3. ASSUME NEW c \in Conn, Dial(c) PROVE ReadyInv'
  BY <1>3 DEF Dial
<1>4. ASSUME Opened PROVE ReadyInv'
  BY <1>4 DEF Opened
<1>5. ASSUME Bridge PROVE ReadyInv'
  BY <1>5 DEF Bridge
<1>6. ASSUME Resumed PROVE ReadyInv'
  BY <1>6 DEF Resumed
<1>7. ASSUME Refused PROVE ReadyInv'
  BY <1>7 DEF Refused
<1>8. ASSUME ConnectFails PROVE ReadyInv'
  BY <1>8 DEF ConnectFails
<1>9. ASSUME NEW s \in Sid, SignIn(s) PROVE ReadyInv'
  BY <1>9 DEF SignIn
<1>10. ASSUME Authed PROVE ReadyInv'
  BY <1>10 DEF Authed
<1>11. ASSUME SignOut PROVE ReadyInv'
  BY <1>11 DEF SignOut
<1>12. ASSUME SignOutLost PROVE ReadyInv'
  BY <1>12 DEF SignOutLost
<1>13. ASSUME Deauthed PROVE ReadyInv'
  BY <1>13 DEF Deauthed
<1>14. ASSUME EndedElsewhere PROVE ReadyInv'
  BY <1>14 DEF EndedElsewhere
<1>15. ASSUME NEW c \in Conn, Accepted(c) PROVE ReadyInv'
  BY <1>15 DEF Accepted
<1>16. ASSUME NEW c \in Conn, Lost(c) PROVE ReadyInv'
  BY <1>16 DEF Lost
<1>17. ASSUME NEW c \in Conn, Heard(c) PROVE ReadyInv'
  BY <1>17 DEF Heard
<1>18. ASSUME NEW k \in Call, Ask(k) PROVE ReadyInv'
  BY <1>18 DEF Ask
<1>19. ASSUME NEW k \in Call, Swapped(k) PROVE ReadyInv'
  BY <1>19 DEF Swapped
<1>20. ASSUME NEW k \in Call, WireFailed(k) PROVE ReadyInv'
  BY <1>20 DEF WireFailed
<1>21. CASE UNCHANGED vars
  BY <1>21 DEF vars
<1>22. QED
  BY <1>1, <1>2, <1>3, <1>4, <1>5, <1>6, <1>7, <1>8, <1>9, <1>10, <1>11, <1>12, <1>13, <1>14, <1>15, <1>16, <1>17, <1>18, <1>19, <1>20, <1>21 DEF Next, Connecting, Signing, Network, Viewing

\* A step keeps hold of the connections.
LEMMA NextHeld ==
  ASSUME IInv, [Next]_vars
  PROVE  HeldInv'
<1> USE PageAssumption DEF IInv, TypeOK, SessionInv, TokenInv, ConnectInv, ReadyInv, HeldInv, Awaited, connecting, Local, drop, DroppedBy, Close, Over, Free, connect, shown, connVars
<1>1. ASSUME Status PROVE HeldInv'
  BY <1>1 DEF Status
<1>2. ASSUME Unauthenticated PROVE HeldInv'
  BY <1>2 DEF Unauthenticated
<1>3. ASSUME NEW c \in Conn, Dial(c) PROVE HeldInv'
  BY <1>3 DEF Dial
<1>4. ASSUME Opened PROVE HeldInv'
  BY <1>4 DEF Opened
<1>5. ASSUME Bridge PROVE HeldInv'
  BY <1>5 DEF Bridge
<1>6. ASSUME Resumed PROVE HeldInv'
  BY <1>6 DEF Resumed
<1>7. ASSUME Refused PROVE HeldInv'
  BY <1>7 DEF Refused
<1>8. ASSUME ConnectFails PROVE HeldInv'
  BY <1>8 DEF ConnectFails
<1>9. ASSUME NEW s \in Sid, SignIn(s) PROVE HeldInv'
  BY <1>9 DEF SignIn
<1>10. ASSUME Authed PROVE HeldInv'
  BY <1>10 DEF Authed
<1>11. ASSUME SignOut PROVE HeldInv'
  BY <1>11 DEF SignOut
<1>12. ASSUME SignOutLost PROVE HeldInv'
  BY <1>12 DEF SignOutLost
<1>13. ASSUME Deauthed PROVE HeldInv'
  BY <1>13 DEF Deauthed
<1>14. ASSUME EndedElsewhere PROVE HeldInv'
  BY <1>14 DEF EndedElsewhere
<1>15. ASSUME NEW c \in Conn, Accepted(c) PROVE HeldInv'
  BY <1>15 DEF Accepted
<1>16. ASSUME NEW c \in Conn, Lost(c) PROVE HeldInv'
  BY <1>16 DEF Lost
<1>17. ASSUME NEW c \in Conn, Heard(c) PROVE HeldInv'
  BY <1>17 DEF Heard
<1>18. ASSUME NEW k \in Call, Ask(k) PROVE HeldInv'
  BY <1>18 DEF Ask
<1>19. ASSUME NEW k \in Call, Swapped(k) PROVE HeldInv'
  BY <1>19 DEF Swapped
<1>20. ASSUME NEW k \in Call, WireFailed(k) PROVE HeldInv'
  BY <1>20 DEF WireFailed
<1>21. CASE UNCHANGED vars
  BY <1>21 DEF vars
<1>22. QED
  BY <1>1, <1>2, <1>3, <1>4, <1>5, <1>6, <1>7, <1>8, <1>9, <1>10, <1>11, <1>12, <1>13, <1>14, <1>15, <1>16, <1>17, <1>18, <1>19, <1>20, <1>21 DEF Next, Connecting, Signing, Network, Viewing

LEMMA Inductive == Spec => []IInv
<1>1. IInv /\ [Next]_vars => IInv'
  <2> SUFFICES ASSUME IInv, [Next]_vars PROVE IInv'
    OBVIOUS
  <2>1. TypeOK
    BY DEF IInv
  <2> QED BY <2>1, NextType, NextSession, NextConnect, NextReady, NextHeld DEF IInv
<1> QED BY <1>1, InitInv, PTL DEF Spec

\* The variables keep their types, and what is ready is there.
THEOREM TypeCorrect == Spec => []TypeOK
<1>1. IInv => TypeOK
  BY DEF IInv
<1> QED BY <1>1, Inductive, PTL

\* Views ride only a connection taken for the session the page is signed in with now
\* (connect, disconnect).
THEOREM ReadyAreBridged == Spec => []ReadyIsBridged
<1>1. IInv => ReadyIsBridged
  BY DEF IInv, ReadyInv, ReadyIsBridged
<1> QED BY <1>1, Inductive, PTL

\* No connection outlives the session it was taken for once the page has left it, as
\* long as no event of an earlier connection has dropped it (disconnect, drop).
THEOREM LeftAreClosed == Spec => []LeftIsClosed
<1>1. IInv => LeftIsClosed
  BY PageAssumption DEF IInv, TypeOK, SessionInv, HeldInv, LeftIsClosed
<1> QED BY <1>1, Inductive, PTL
===============================================================================
