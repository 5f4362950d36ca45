---------------------------- MODULE ServingProofs ----------------------------
(***************************************************************************)
(* That the accept loop waits as its backoff promises and that only a dead *)
(* listener ends it, for any clients, waits, faults and configurations.    *)
(***************************************************************************)
EXTENDS Serving, FiniteSetTheorems, FunctionTheorems, SequenceTheorems, TLAPS

USE DEF None

-------------------------------------------------------------------------------
(* Powers of two, as the numbers of subsets.                               *)

Power(n) == Cardinality(SUBSET (1 .. n))

LEMMA PowerIsPower ==
  ASSUME NEW n \in Nat
  PROVE  /\ IsFiniteSet(1 .. n) /\ IsFiniteSet(SUBSET (1 .. n))
         /\ 2 ^ n = Power(n) /\ Power(n) \in Nat
<1>1. IsFiniteSet(1 .. n) /\ Cardinality(1 .. n) = n
  BY FS_Interval
<1>2. IsFiniteSet(SUBSET (1 .. n)) /\ Cardinality(SUBSET (1 .. n)) = 2 ^ n
  BY <1>1, FS_SUBSET
<1>3. Cardinality(SUBSET (1 .. n)) \in Nat
  BY <1>2, FS_CardinalityType
<1> QED BY <1>1, <1>2, <1>3 DEF Power

\* Half the subsets of 1 .. n + 1 have n + 1 in them.
LEMMA PowerStep ==
  ASSUME NEW n \in Nat
  PROVE  Power(n + 1) = 2 * Power(n)
<1> DEFINE S == SUBSET (1 .. n)
           T == {s \in SUBSET (1 .. n + 1) : n + 1 \in s}
           f == [s \in S |-> s \cup {n + 1}]
<1>1. SUBSET (1 .. n + 1) = S \cup T
  <2>1. ASSUME NEW s \in SUBSET (1 .. n + 1), n + 1 \notin s PROVE s \in S
    BY <2>1
  <2>2. S \subseteq SUBSET (1 .. n + 1)
    OBVIOUS
  <2> QED BY <2>1, <2>2
<1>2. S \cap T = {}
  OBVIOUS
<1>3. f \in Bijection(S, T)
  <2>1. f \in [S -> T]
    <3>1. ASSUME NEW s \in S PROVE s \cup {n + 1} \in T
      OBVIOUS
    <3> QED BY <3>1
  <2>2. ASSUME NEW s \in S, NEW t \in S, f[s] = f[t] PROVE s = t
    <3>1. n + 1 \notin s /\ n + 1 \notin t
      OBVIOUS
    <3>2. s \cup {n + 1} = t \cup {n + 1}
      BY <2>2
    <3> QED BY <3>1, <3>2
  <2>3. ASSUME NEW t \in T PROVE \E s \in S : f[s] = t
    <3>1. t \ {n + 1} \in S
      OBVIOUS
    <3>2. f[t \ {n + 1}] = t
      BY <3>1
    <3> QED BY <3>1, <3>2
  <2> QED BY <2>1, <2>2, <2>3, Fun_IsBij
<1>4. IsFiniteSet(S) /\ Cardinality(S) = Power(n) /\ Power(n) \in Nat
  BY PowerIsPower DEF Power
<1>5. IsFiniteSet(T) /\ Cardinality(T) = Power(n)
  BY <1>3, <1>4, FS_Bijection DEF ExistsBijection
<1>6. Cardinality(S \cup T) = Cardinality(S) + Cardinality(T) - Cardinality(S \cap T)
  BY <1>4, <1>5, FS_Union
<1>7. Cardinality(S \cap T) = 0
  BY <1>2, FS_EmptySet
<1>8. Cardinality(S \cup T) = Power(n + 1)
  BY <1>1 DEF Power
<1> HIDE DEF S, T
<1> QED BY <1>4, <1>5, <1>6, <1>7, <1>8

\* Each number has its own subset, and there is the empty one.
LEMMA PowerExceeds ==
  ASSUME NEW n \in Nat
  PROVE  n < Power(n)
<1> DEFINE f == [i \in 0 .. n |-> IF i = 0 THEN {} ELSE {i}]
<1>1. f \in [0 .. n -> SUBSET (1 .. n)]
  OBVIOUS
<1>2. \A i, j \in 0 .. n : f[i] = f[j] => i = j
  OBVIOUS
<1>3. f \in Injection(0 .. n, SUBSET (1 .. n))
  BY <1>1, <1>2, Fun_IsInj
<1>4. Cardinality(0 .. n) <= Power(n)
  BY <1>3, PowerIsPower, FS_Injection DEF Power
<1>5. Cardinality(0 .. n) = n + 1
  BY FS_Interval
<1>6. Power(n) \in Nat
  BY PowerIsPower
<1> QED BY <1>4, <1>5, <1>6

LEMMA PowerOfNone == Power(0) = 1
<1>1. 2 ^ 0 = 1
  OBVIOUS
<1> QED BY <1>1, PowerIsPower

-------------------------------------------------------------------------------
(* What one failed accept does to the wait.                                *)

\* The wait after n errors.
Wait(n) ==
  IF n = 0 THEN None
  ELSE IF BACKOFF_FLOOR * Power(n) < BACKOFF_CEILING THEN BACKOFF_FLOOR * Power(n)
  ELSE BACKOFF_CEILING

LEMMA WaitsArePowers ==
  ASSUME streak \in Nat
  PROVE  EpisodeWaits <=> next = Wait(streak)
<1>1. 2 ^ streak = Power(streak)
  BY PowerIsPower
<1> QED BY <1>1 DEF EpisodeWaits, Wait

\* n * m for a fixed n, where the provers know no more of a product.
LEMMA Products ==
  ASSUME NEW n \in Nat \ {0}, NEW m \in Nat
  PROVE  n * m \in Nat /\ n * (2 * m) = 2 * (n * m) /\ n * m >= m
OBVIOUS

LEMMA WaitType ==
  ASSUME NEW n \in Nat
  PROVE  Wait(n) \in {None} \cup BACKOFF_FLOOR .. BACKOFF_CEILING /\ (Wait(n) = None <=> n = 0)
<1> DEFINE x == BACKOFF_FLOOR * Power(n)
<1>1. Power(n) \in Nat /\ n < Power(n)
  BY PowerIsPower, PowerExceeds
<1>2. x \in Nat /\ x >= BACKOFF_FLOOR
  <2>1. x \in Nat /\ Power(n) * BACKOFF_FLOOR >= BACKOFF_FLOOR
    BY <1>1, ServingAssumption, Products, Power(n) # 0
  <2>2. Power(n) * BACKOFF_FLOOR = x
    BY <1>1, ServingAssumption
  <2> QED BY <2>1, <2>2
<1> HIDE DEF x
<1>3. Wait(n) = IF n = 0 THEN None ELSE IF x < BACKOFF_CEILING THEN x ELSE BACKOFF_CEILING
  BY DEF x, Wait
<1> QED BY <1>2, <1>3, ServingAssumption

\* An episode that has failed as often as is counted waits for the ceiling.
LEMMA WaitAtCeiling == Wait(BACKOFF_CEILING) = BACKOFF_CEILING
<1>1. Power(BACKOFF_CEILING) \in Nat /\ BACKOFF_CEILING < Power(BACKOFF_CEILING)
  BY ServingAssumption, PowerIsPower, PowerExceeds
<1>2. BACKOFF_FLOOR * Power(BACKOFF_CEILING) >= Power(BACKOFF_CEILING)
       /\ BACKOFF_FLOOR * Power(BACKOFF_CEILING) \in Nat
  BY <1>1, ServingAssumption, Products
<1> QED BY <1>1, <1>2, ServingAssumption DEF Wait

\* The wait doubles with each error, from the floor and up to the ceiling.
LEMMA WaitDoubles ==
  ASSUME NEW n \in Nat
  PROVE  Wait(n + 1) = IF n = 0 THEN Doubled(BACKOFF_FLOOR) ELSE Doubled(Wait(n))
<1> DEFINE x == BACKOFF_FLOOR * Power(n)
<1>1. Power(n) \in Nat /\ Power(n + 1) = 2 * Power(n)
  BY PowerIsPower, PowerStep
<1>2. x \in Nat /\ BACKOFF_FLOOR * Power(n + 1) = 2 * x
  BY <1>1, ServingAssumption, Products
<1>3. n = 0 => x = BACKOFF_FLOOR
  BY PowerOfNone, ServingAssumption
<1> HIDE DEF x
<1>4. Wait(n + 1) = IF 2 * x < BACKOFF_CEILING THEN 2 * x ELSE BACKOFF_CEILING
  BY <1>2 DEF Wait
<1>5. n # 0 => Wait(n) = IF x < BACKOFF_CEILING THEN x ELSE BACKOFF_CEILING
  BY DEF Wait, x
<1> QED BY <1>2, <1>3, <1>4, <1>5, ServingAssumption DEF Doubled

-------------------------------------------------------------------------------
(* The inductive invariant.                                                *)

\* A process that has not come to its page has none.
PageLater == process \in {"down", "opening"} => page = "none"

\* The configuration is one that a start was not refused.
CfgOK == \E start \in Start : cfg \in load(start)

ServingInv == TypeOK /\ CfgOK /\ PageLater /\ next = Wait(streak)

LEMMA PassesType ==
  ASSUME CfgOK
  PROVE  scheduled_passes \subseteq {"linkcheck", "tagsuggest"}
<1>1. PICK start \in Start : cfg \in load(start)
  BY DEF CfgOK
<1>2. PICK raw : cfg \in resolve(raw, start.there)
  BY <1>1 DEF load
<1>3. cfg.passes \in {{s \in {"linkcheck", "tagsuggest"} : StatedOr(raw, s, FALSE)}}
  BY <1>2 DEF resolve
<1> QED BY <1>3 DEF scheduled_passes

\* What an accept meets is one of the kinds the table tells apart.
LEMMA Kinds ==
  /\ \A e \in Errors : classify(e) = "Fatal" => dead
  /\ \A e \in Errors : classify(e) = "Skip" => backlog # <<>>
  /\ classify("other") = "BackOff"
BY DEF Errors, classify, Fatal, Exhausts, Passing

LEMMA FailedInv ==
  ASSUME ServingInv, failed
  PROVE  /\ next' \in {None} \cup BACKOFF_FLOOR .. BACKOFF_CEILING
         /\ asleep' \in {None} \cup BACKOFF_FLOOR .. BACKOFF_CEILING
         /\ streak' \in 0 .. BACKOFF_CEILING
         /\ next' = Wait(streak')
<1>1. streak \in Nat /\ streak <= BACKOFF_CEILING /\ next = Wait(streak)
  BY ServingAssumption DEF ServingInv, TypeOK
<1>2. next = None <=> streak = 0
  BY <1>1, WaitType
<1>3. asleep' \in {None} \cup BACKOFF_FLOOR .. BACKOFF_CEILING
  BY ServingAssumption DEF failed, ServingInv, TypeOK
<1>4. next' = Wait(streak + 1)
  BY <1>1, <1>2, WaitDoubles DEF failed
<1>5. CASE streak < BACKOFF_CEILING
  <2>1. streak' = streak + 1
    BY <1>5 DEF failed
  <2> QED BY <1>1, <1>3, <1>4, <1>5, <2>1, WaitType, ServingAssumption
<1>6. CASE ~ streak < BACKOFF_CEILING
  <2>1. streak' = streak /\ streak = BACKOFF_CEILING
    BY <1>1, <1>6, ServingAssumption DEF failed
  <2>2. next = BACKOFF_CEILING /\ streak # 0
    BY <1>1, <2>1, WaitAtCeiling, ServingAssumption
  <2>3. next' = BACKOFF_CEILING
    BY <2>2, ServingAssumption DEF failed, Doubled
  <2> QED BY <1>1, <1>3, <2>1, <2>2, <2>3, ServingAssumption
<1> QED BY <1>5, <1>6

LEMMA GoneInv ==
  ASSUME ServingInv, Gone, UNCHANGED <<cfg, pressure>>, faults' \in 0 .. MaxFaults
  PROVE  ServingInv'
<1>0. <<>> \in Seq(Client)
  BY EmptySeq
<1>1. TypeOK'
  <2>1. dead' \in BOOLEAN /\ pressure' \in BOOLEAN
    BY DEF Gone, TypeOK, ServingInv
  <2>2. streak' \in 0 .. BACKOFF_CEILING
    BY ServingAssumption DEF Gone
  <2> QED BY <1>0, <2>1, <2>2 DEF Gone, TypeOK
<1>2. next' = Wait(streak')
  BY DEF Gone, Wait
<1> QED BY <1>1, <1>2 DEF ServingInv, PageLater, CfgOK, Gone

LEMMA InitInv == Init => ServingInv
<1> SUFFICES ASSUME Init PROVE ServingInv
  OBVIOUS
<1>0. <<>> \in Seq(Client)
  BY EmptySeq
<1>1. TypeOK
  <2>1. dead \in BOOLEAN /\ pressure \in BOOLEAN
    BY DEF Init
  <2>2. streak \in 0 .. BACKOFF_CEILING /\ faults \in 0 .. MaxFaults
    BY ServingAssumption DEF Init
  <2> QED BY <1>0, <2>1, <2>2 DEF Init, TypeOK
<1>2. next = Wait(streak)
  BY DEF Init, Wait
<1> QED BY <1>1, <1>2 DEF ServingInv, PageLater, CfgOK, Init

LEMMA GoesType ==
  ASSUME ServingInv, NEW wrong, Goes(wrong)
  PROVE  faults' \in 0 .. MaxFaults
BY ServingAssumption DEF Goes, ServingInv, TypeOK

LEMMA TailOfBacklog ==
  ASSUME TypeOK, backlog # <<>>
  PROVE  Head(backlog) \in Client /\ Tail(backlog) \in Seq(Client)
BY HeadTailProperties DEF TypeOK

LEMMA NextInv ==
  ASSUME ServingInv, Next
  PROVE  ServingInv'
<1> USE DEF ServingInv
<1>u. cfg' = cfg => CfgOK'
  BY DEF CfgOK
<1>1. CASE Launch \/ SpawnPage \/ OpenWire
  BY <1>1, <1>u DEF Launch, SpawnPage, OpenWire, TypeOK, PageLater, loop
<1>2. CASE SchedulePasses
  BY <1>2, <1>u, PassesType DEF SchedulePasses, TypeOK, PageLater, loop
<1>3. CASE MaintenanceRefused
  BY <1>3, GoneInv, GoesType DEF MaintenanceRefused
<1>4. CASE WireTaken
  BY <1>4, GoneInv, GoesType DEF WireTaken
<1>5. CASE BindPage
  BY <1>5, <1>u DEF BindPage, TypeOK, PageLater, loop, main
<1>6. CASE PageTaken
  BY <1>6, <1>u, GoesType DEF PageTaken, TypeOK, PageLater, loop, main
<1>7. CASE Accept
  <2>1. open' \subseteq Client /\ backlog' \in Seq(Client)
    BY <1>7, TailOfBacklog DEF Accept, TypeOK
  <2>2. next' \in {None} \cup BACKOFF_FLOOR .. BACKOFF_CEILING /\ streak' \in 0 .. BACKOFF_CEILING
    BY <1>7, ServingAssumption DEF Accept, succeeded
  <2>3. next' = Wait(streak')
    BY <1>7 DEF Accept, succeeded, Wait
  <2> QED BY <1>7, <2>1, <2>2, <2>3, <1>u DEF Accept, TypeOK, PageLater, main
<1>8. CASE Skip
  <2>1. backlog' \in Seq(Client) /\ faults' \in 0 .. MaxFaults
    BY <1>8, TailOfBacklog, Kinds, GoesType DEF Skip
  <2> QED BY <1>8, <2>1, <1>u DEF Skip, TypeOK, PageLater, main, loop
<1>9. CASE BackOff
  BY <1>9, FailedInv, <1>u DEF BackOff, TypeOK, PageLater, main
<1>10. CASE Unrecognized
  <2>1. failed /\ UNCHANGED <<main, page, dead, backlog, open, cfg, pressure>>
    BY <1>10, Kinds DEF Unrecognized
  <2>2. faults' \in 0 .. MaxFaults
    BY <1>10, GoesType DEF Unrecognized
  <2> QED BY <2>1, <2>2, FailedInv, <1>u DEF TypeOK, PageLater, main
<1>11. CASE Wake
  BY <1>11, <1>u DEF Wake, TypeOK, PageLater, main
<1>12. CASE Ended
  <2>1. faults' \in 0 .. MaxFaults
    BY <1>12 DEF Ended, TypeOK
  <2> QED BY <1>12, <2>1, GoneInv DEF Ended
<1>13. ASSUME NEW c \in Client, Done(c) PROVE ServingInv'
  BY <1>13, <1>u DEF Done, TypeOK, PageLater, main, loop
<1>14. ASSUME NEW c \in Client, Connect(c) PROVE ServingInv'
  <2>1. backlog' \in Seq(Client)
    BY <1>14, AppendProperties DEF Connect, TypeOK
  <2> QED BY <1>14, <2>1, <1>u DEF Connect, TypeOK, PageLater, main, loop
<1>15. CASE ListenerDies
  BY <1>15, <1>u, GoesType DEF ListenerDies, TypeOK, PageLater, main, loop
<1>16. CASE Pressure
  BY <1>16, <1>u, GoesType DEF Pressure, TypeOK, PageLater, main, loop
<1>17. CASE Relief
  BY <1>17, <1>u DEF Relief, TypeOK, PageLater, main, loop
<1> QED BY <1>1, <1>2, <1>3, <1>4, <1>5, <1>6, <1>7, <1>8, <1>9, <1>10, <1>11, <1>12,
           <1>13, <1>14, <1>15, <1>16, <1>17 DEF Next, Main, Bind, Loop

LEMMA Inductive == Spec => []ServingInv
<1>1. ServingInv /\ UNCHANGED vars => ServingInv'
  BY DEF ServingInv, TypeOK, CfgOK, PageLater, vars, main, loop
<1> QED BY <1>1, InitInv, NextInv, PTL DEF Spec

-------------------------------------------------------------------------------
(* The theorems.                                                           *)

\* The variables keep their types, for any clients, bounds and faults.
THEOREM TypeCorrect == Spec => []TypeOK
<1>1. ServingInv => TypeOK
  BY DEF ServingInv
<1> QED BY <1>1, Inductive, PTL

\* For any floor and ceiling, the wait doubles from the one to the other within an
\* episode of errors, and each episode starts at the floor again (Backoff).
THEOREM WaitsDouble == Spec => []EpisodeWaits
<1>1. ServingInv => EpisodeWaits
  BY ServingAssumption, WaitsArePowers DEF ServingInv, TypeOK
<1> QED BY <1>1, Inductive, PTL

\* Whatever accept fails with, and whatever becomes of the wire and the passes, the
\* page stops listening only over a dead listener or with main (serve_until_error).
THEOREM OnlyDeadEnds == Spec => OnlyDeadListenerEnds
<1>1. ASSUME ServingInv, [Next]_vars, page = "listening", page' # "listening"
      PROVE  dead \/ process \in {"passes", "wire"}
  <2>1. Next /\ process \notin {"down", "opening"}
    BY <1>1 DEF ServingInv, PageLater, vars
  <2>2. CASE Main
    BY <1>1, <2>1, <2>2 DEF Main, Launch, SpawnPage, SchedulePasses, MaintenanceRefused, OpenWire,
         WireTaken
  <2>3. CASE Bind
    BY <1>1, <2>3 DEF Bind, BindPage, PageTaken
  <2>4. CASE Loop
    BY <1>1, <2>4, Kinds DEF Loop, Accept, Skip, BackOff, Unrecognized, Wake, Ended
  <2>5. CASE ~ (Main \/ Bind \/ Loop)
    BY <1>1, <2>1, <2>5 DEF Next, Done, Connect, ListenerDies, Pressure, Relief
  <2> QED BY <2>2, <2>3, <2>4, <2>5
<1>2. ServingInv /\ [Next]_vars
        => [page = "listening" /\ page' # "listening" => dead \/ process \in {"passes", "wire"}]_vars
  BY <1>1
<1> QED BY <1>2, Inductive, PTL DEF Spec, OnlyDeadListenerEnds

\* Whatever the bind and the origin, the page dials the wire at a host the certificate
\* names, unless the room is on a loopback name of its own (cert_sans, wire_dial_host).
THEOREM DialIsNamed == Spec => []CertNamesDial
<1>1. CertNamesDial
  BY DEF CertNamesDial, wire_dial_host, cert_sans, is_loopback_host, LoopbackSans
<1> QED BY <1>1, PTL
===============================================================================
