----------------------------- MODULE FacesProofs -----------------------------
(***************************************************************************)
(* The faces for any principals, sessions, connections, requests, views    *)
(* and configurations that are not refused: what is done is done on        *)
(* somebody's authority, the anonymous door holds, and the trail is the    *)
(* one that RecentTrail promises.                                          *)
(***************************************************************************)
EXTENDS Faces, SequenceTheorems, TLAPS

-------------------------------------------------------------------------------
(* The trail.                                                              *)

\* Leaving out e leaves the rest in its order.
LEMMA RetainShifts ==
  ASSUME NEW s \in Seq(Entry), NEW e \in Entry
  PROVE  \/ /\ retain(s, e) = s
            /\ \A i \in 1 .. Len(s) : s[i] # e
         \/ \E k \in 1 .. Len(s) :
              /\ s[k] = e
              /\ retain(s, e) \in Seq(Entry) /\ Len(retain(s, e)) = Len(s) - 1
              /\ \A i \in 1 .. Len(s) - 1 : i < k => retain(s, e)[i] = s[i]
              /\ \A i \in 1 .. Len(s) - 1 : i >= k => retain(s, e)[i] = s[i + 1]
<1>0. Len(s) \in Nat /\ DOMAIN s = 1 .. Len(s) /\ \A i \in 1 .. Len(s) : s[i] \in Entry
  BY LenProperties, ElementOfSeq
<1>1. CASE Position(s, e) = {}
  BY <1>0, <1>1 DEF retain, Position
<1>2. CASE Position(s, e) # {}
  <2> DEFINE k == CHOOSE i \in Position(s, e) : TRUE
             a == SubSeq(s, 1, k - 1)
             b == SubSeq(s, k + 1, Len(s))
  <2>1. k \in Position(s, e)
    BY <1>2
  <2>2. k \in 1 .. Len(s) /\ s[k] = e
    BY <1>0, <2>1 DEF Position
  <2>3. retain(s, e) = a \o b
    BY <1>2 DEF retain
  <2> HIDE DEF k
  <2>4. a \in Seq(Entry) /\ Len(a) = k - 1 /\ \A i \in 1 .. k - 1 : a[i] = s[i]
    <3>1. 1 \in Int /\ k - 1 \in Int /\ \A i \in 1 .. k - 1 : s[i] \in Entry
      BY <1>0, <2>2
    <3>2. /\ a \in Seq(Entry) /\ Len(a) = IF 1 <= k - 1 THEN k - 1 - 1 + 1 ELSE 0
          /\ \A i \in 1 .. k - 1 - 1 + 1 : a[i] = s[1 + i - 1]
      BY <3>1, SubSeqProperties
    <3> QED BY <2>2, <3>2
  <2>5. b \in Seq(Entry) /\ Len(b) = Len(s) - k /\ \A i \in 1 .. Len(s) - k : b[i] = s[k + i]
    <3>1. k + 1 \in Int /\ Len(s) \in Int /\ \A i \in k + 1 .. Len(s) : s[i] \in Entry
      BY <1>0, <2>2
    <3>2. /\ b \in Seq(Entry) /\ Len(b) = IF k + 1 <= Len(s) THEN Len(s) - (k + 1) + 1 ELSE 0
          /\ \A i \in 1 .. Len(s) - (k + 1) + 1 : b[i] = s[k + 1 + i - 1]
      BY <3>1, SubSeqProperties
    <3> QED BY <1>0, <2>2, <3>2
  <2> HIDE DEF a, b
  <2>6. /\ a \o b \in Seq(Entry) /\ Len(a \o b) = Len(a) + Len(b)
        /\ \A i \in 1 .. Len(a) + Len(b) :
             (a \o b)[i] = IF i <= Len(a) THEN a[i] ELSE b[i - Len(a)]
    BY <2>4, <2>5, ConcatProperties
  <2> DEFINE c == a \o b
  <2>7. /\ c \in Seq(Entry) /\ Len(c) = Len(s) - 1
        /\ \A i \in 1 .. Len(s) - 1 : c[i] = IF i <= k - 1 THEN a[i] ELSE b[i - (k - 1)]
    BY <1>0, <2>2, <2>4, <2>5, <2>6
  <2>8. retain(s, e) = c
    BY <2>3
  <2> HIDE DEF c
  <2>9. ASSUME NEW i \in 1 .. Len(s) - 1, i < k
        PROVE  c[i] = s[i]
    BY <1>0, <2>2, <2>4, <2>7, <2>9
  <2>10. ASSUME NEW i \in 1 .. Len(s) - 1, i >= k
         PROVE  c[i] = s[i + 1]
    <3>1. c[i] = b[i - (k - 1)]
      BY <1>0, <2>2, <2>7, <2>10
    <3>2. i - (k - 1) \in 1 .. Len(s) - k /\ k + (i - (k - 1)) = i + 1
      BY <1>0, <2>2, <2>10
    <3>3. b[i - (k - 1)] = s[k + (i - (k - 1))]
      BY <2>5, <3>2
    <3> QED BY <3>1, <3>2, <3>3
  <2> QED BY <2>2, <2>7, <2>8, <2>9, <2>10
<1> QED BY <1>1, <1>2

\* s is of views that were opened, newest first, none of them twice.
Newest(at, s) ==
  /\ s \in Seq(Entry) /\ Len(s) \in Nat
  /\ \A i \in 1 .. Len(s) : s[i] \in Entry /\ at[s[i]] > 0
  /\ \A i, j \in 1 .. Len(s) : i < j => at[s[i]] > at[s[j]]

Absent(s, x) == \A i \in 1 .. Len(s) : s[i] # x

\* Every view in s was opened after x.
After(at, s, x) == \A i \in 1 .. Len(s) : at[s[i]] > at[x]

LEMMA LatestMeans ==
  ASSUME NEW at, NEW s
  PROVE  Trail!Latest(at, s) <=>
           /\ Newest(at, s) /\ Len(s) <= RECENT_CAP
           /\ \A x \in Entry : at[x] > 0 /\ Absent(s, x) => Len(s) = RECENT_CAP /\ After(at, s, x)
<1>1. CASE s \notin Seq(Entry)
  BY <1>1 DEF Trail!Latest, Newest
<1>2. CASE s \in Seq(Entry)
  <2>1. Len(s) \in Nat /\ DOMAIN s = 1 .. Len(s) /\ \A i \in 1 .. Len(s) : s[i] \in Entry
    BY <1>2, LenProperties, ElementOfSeq
  <2>2. \A x : Trail!Shows(s, x) <=> ~ Absent(s, x)
    BY <2>1 DEF Trail!Shows, Absent
  <2>3. Newest(at, s) <=> /\ \A i \in DOMAIN s : at[s[i]] > 0
                          /\ \A i, j \in DOMAIN s : i < j => at[s[i]] > at[s[j]]
    <3> QED BY <1>2, <2>1, Zenon DEF Newest
  <2>4. \A x : After(at, s, x) <=> \A i \in DOMAIN s : at[s[i]] > at[x]
    BY <2>1, Zenon DEF After
  <2> QED BY <1>2, <2>2, <2>3, <2>4, Zenon DEF Trail!Latest
<1> QED BY <1>1, <1>2

\* What is retained is newest first, is without e, and is all the rest.
LEMMA RetainNewest ==
  ASSUME NEW at \in [Entry -> Nat], NEW s, Newest(at, s), NEW e \in Entry
  PROVE  LET r == retain(s, e) IN
         /\ Newest(at, r) /\ Absent(r, e)
         /\ Len(r) = Len(s) \/ (Len(r) = Len(s) - 1 /\ Len(s) > 0)
         /\ \A i \in 1 .. Len(r) : \E j \in 1 .. Len(s) : r[i] = s[j]
         /\ \A x : x # e /\ Absent(r, x) => Absent(s, x)
<1> DEFINE r == retain(s, e)
<1>0. /\ s \in Seq(Entry) /\ Len(s) \in Nat
      /\ \A i \in 1 .. Len(s) : s[i] \in Entry /\ at[s[i]] > 0
      /\ \A i, j \in 1 .. Len(s) : i < j => at[s[i]] > at[s[j]]
  BY DEF Newest
<1>1. CASE r = s /\ \A i \in 1 .. Len(s) : s[i] # e
  BY <1>0, <1>1 DEF Newest, Absent
<1>2. CASE \E k \in 1 .. Len(s) :
             /\ s[k] = e
             /\ r \in Seq(Entry) /\ Len(r) = Len(s) - 1
             /\ \A i \in 1 .. Len(s) - 1 : i < k => r[i] = s[i]
             /\ \A i \in 1 .. Len(s) - 1 : i >= k => r[i] = s[i + 1]
  <2>1. PICK k \in 1 .. Len(s) :
             /\ s[k] = e
             /\ r \in Seq(Entry) /\ Len(r) = Len(s) - 1
             /\ \A i \in 1 .. Len(s) - 1 : i < k => r[i] = s[i]
             /\ \A i \in 1 .. Len(s) - 1 : i >= k => r[i] = s[i + 1]
    BY <1>2
  <2> HIDE DEF r
  <2> DEFINE from(i) == IF i < k THEN i ELSE i + 1
  <2>2. \A i \in 1 .. Len(r) : from(i) \in 1 .. Len(s) /\ from(i) # k /\ r[i] = s[from(i)]
    BY <1>0, <2>1
  <2>3. \A i, j \in 1 .. Len(r) : i < j => from(i) < from(j)
    BY <1>0, <2>1
  <2>4. \A j \in 1 .. Len(s) : j # k => \E i \in 1 .. Len(r) : from(i) = j
    <3> SUFFICES ASSUME NEW j \in 1 .. Len(s), j # k
                 PROVE  \E i \in 1 .. Len(r) : from(i) = j
      OBVIOUS
    <3>1. CASE j < k
      <4>1. j \in 1 .. Len(r) /\ from(j) = j
        BY <1>0, <2>1, <3>1
      <4> QED BY <4>1
    <3>2. CASE j > k
      <4>1. j - 1 \in 1 .. Len(r) /\ from(j - 1) = j
        BY <1>0, <2>1, <3>2
      <4> QED BY <4>1
    <3>3. j < k \/ j > k
      BY <2>1
    <3> QED BY <3>1, <3>2, <3>3, Zenon
  <2> HIDE DEF from
  <2>5. ASSUME NEW i \in 1 .. Len(s), i # k
        PROVE  s[i] # e
    <3>1. at[s[i]] \in Nat /\ at[s[k]] \in Nat
      BY <1>0, <2>1
    <3>2. at[s[i]] > at[s[k]] \/ at[s[k]] > at[s[i]]
      BY <1>0, <2>1, <2>5
    <3>3. at[s[i]] # at[s[k]]
      BY <3>1, <3>2
    <3> QED BY <2>1, <3>3
  <2>6. \A i \in 1 .. Len(r) : r[i] \in Entry /\ at[r[i]] > 0 /\ r[i] # e
    BY <1>0, <2>2, <2>5
  <2>7. \A i, j \in 1 .. Len(r) : i < j => at[r[i]] > at[r[j]]
    BY <1>0, <2>2, <2>3
  <2>8. Newest(at, r) /\ Absent(r, e)
    BY <1>0, <2>1, <2>6, <2>7 DEF Newest, Absent
  <2>9. \A i \in 1 .. Len(r) : \E j \in 1 .. Len(s) : r[i] = s[j]
    BY <2>2
  <2>10. ASSUME NEW x, x # e, Absent(r, x), NEW j \in 1 .. Len(s), s[j] = x
         PROVE  FALSE
    <3>1. PICK i \in 1 .. Len(r) : from(i) = j
      BY <2>1, <2>4, <2>10
    <3> QED BY <2>2, <2>10, <3>1 DEF Absent
  <2>11. \A x : x # e /\ Absent(r, x) => Absent(s, x)
    BY <2>10 DEF Absent
  <2>12. Len(r) = Len(s) - 1 /\ Len(s) > 0
    BY <1>0, <2>1
  <2> QED BY <2>8, <2>9, <2>11, <2>12 DEF r
<1> QED BY <1>1, <1>2, RetainShifts, <1>0

\* Putting the view that is opened last in front of what is without it.
LEMMA PushNewest ==
  ASSUME NEW at \in [Entry -> Nat], NEW r, Newest(at, r), NEW e \in Entry, Absent(r, e),
         NEW now \in Nat, \A x \in Entry : at[x] < now
  PROVE  LET q == <<e>> \o r
             new == [at EXCEPT ![e] = now] IN
         /\ Newest(new, q) /\ Len(q) = Len(r) + 1 /\ q[1] = e
         /\ \A i \in 1 .. Len(r) : q[i + 1] = r[i]
         /\ \A i \in 2 .. Len(q) : q[i] = r[i - 1]
<1> DEFINE q == <<e>> \o r
           new == [at EXCEPT ![e] = now]
<1>1. /\ r \in Seq(Entry) /\ Len(r) \in Nat
      /\ \A i \in 1 .. Len(r) : r[i] \in Entry /\ at[r[i]] > 0 /\ r[i] # e
      /\ \A i, j \in 1 .. Len(r) : i < j => at[r[i]] > at[r[j]]
  BY DEF Newest, Absent
<1>2. <<e>> \in Seq(Entry) /\ Len(<<e>>) = 1 /\ <<e>>[1] = e
  OBVIOUS
<1>3. /\ q \in Seq(Entry) /\ Len(q) = 1 + Len(r)
      /\ \A i \in 1 .. 1 + Len(r) : q[i] = IF i <= 1 THEN <<e>>[i] ELSE r[i - 1]
  BY <1>1, <1>2, ConcatProperties
<1> HIDE DEF q
<1>4. q[1] = e /\ \A i \in 2 .. Len(q) : i - 1 \in 1 .. Len(r) /\ q[i] = r[i - 1]
  BY <1>1, <1>2, <1>3
<1>5. ASSUME NEW i \in 1 .. Len(r)
      PROVE  q[i + 1] = r[i]
  <2>1. i + 1 \in 2 .. Len(q) /\ i + 1 - 1 = i
    BY <1>1, <1>3
  <2> QED BY <1>4, <2>1
<1>6. new[e] = now /\ now > 0 /\ \A x \in Entry : x # e => new[x] = at[x]
  BY DEF new
<1> HIDE DEF new
<1>7. \A i \in 2 .. Len(q) : q[i] \in Entry /\ new[q[i]] = at[r[i - 1]] /\ at[r[i - 1]] > 0 /\ at[r[i - 1]] < now
  BY <1>1, <1>4, <1>6
<1>8. ASSUME NEW i \in 1 .. Len(q)
      PROVE  q[i] \in Entry /\ new[q[i]] > 0
  <2>1. CASE i = 1
    BY <1>4, <1>6, <2>1
  <2>2. CASE i # 1
    <3>1. i \in 2 .. Len(q)
      BY <1>1, <1>3, <2>2
    <3> QED BY <1>7, <3>1
  <2> QED BY <2>1, <2>2
<1>9. ASSUME NEW i \in 1 .. Len(q), NEW j \in 1 .. Len(q), i < j
      PROVE  new[q[i]] > new[q[j]]
  <2>1. j \in 2 .. Len(q) /\ j - 1 \in 1 .. Len(r)
    BY <1>1, <1>3, <1>9
  <2>2. new[q[j]] = at[r[j - 1]] /\ at[r[j - 1]] < now /\ at[r[j - 1]] \in Nat
    BY <1>1, <1>7, <2>1
  <2>3. CASE i = 1
    BY <1>4, <1>6, <2>2, <2>3
  <2>4. CASE i # 1
    <3>1. i \in 2 .. Len(q) /\ i - 1 \in 1 .. Len(r) /\ i - 1 < j - 1
      BY <1>1, <1>3, <1>9, <2>4
    <3>2. at[r[i - 1]] > at[r[j - 1]]
      BY <1>1, <2>1, <3>1
    <3>3. new[q[i]] = at[r[i - 1]]
      BY <1>7, <3>1
    <3> QED BY <2>2, <3>2, <3>3
  <2> QED BY <2>3, <2>4
<1>10. Newest(new, q)
  BY <1>1, <1>3, <1>8, <1>9 DEF Newest
<1> QED BY <1>1, <1>3, <1>4, <1>5, <1>10 DEF q, new

\* The bound keeps the first.
LEMMA TruncateKeeps ==
  ASSUME NEW s \in Seq(Entry)
  PROVE  /\ truncate(s) \in Seq(Entry) /\ Len(truncate(s)) \in Nat
         /\ Len(truncate(s)) = IF Len(s) <= RECENT_CAP THEN Len(s) ELSE RECENT_CAP
         /\ \A i \in 1 .. Len(truncate(s)) : truncate(s)[i] = s[i]
<1>0. Len(s) \in Nat /\ RECENT_CAP \in Nat \ {0} /\ \A i \in 1 .. Len(s) : s[i] \in Entry
  BY LenProperties, ElementOfSeq, FacesAssumption
<1>1. CASE Len(s) <= RECENT_CAP
  BY <1>0, <1>1 DEF truncate
<1>2. CASE ~ Len(s) <= RECENT_CAP
  <2>1. truncate(s) = SubSeq(s, 1, RECENT_CAP)
    BY <1>2 DEF truncate
  <2>2. 1 \in Int /\ RECENT_CAP \in Int /\ \A i \in 1 .. RECENT_CAP : s[i] \in Entry
    BY <1>0, <1>2
  <2>3. /\ truncate(s) \in Seq(Entry)
        /\ Len(truncate(s)) = IF 1 <= RECENT_CAP THEN RECENT_CAP - 1 + 1 ELSE 0
        /\ \A i \in 1 .. RECENT_CAP - 1 + 1 : truncate(s)[i] = s[1 + i - 1]
    BY <2>1, <2>2, SubSeqProperties
  <2> QED BY <1>0, <1>2, <2>3
<1> QED BY <1>1, <1>2

\* Recording the view that was opened last keeps the trail the latest.
LEMMA RecordIsLatest ==
  ASSUME NEW at \in [Entry -> Nat], NEW s, Trail!Latest(at, s), NEW e \in Entry,
         NEW now \in Nat, \A x \in Entry : at[x] < now
  PROVE  Trail!Latest([at EXCEPT ![e] = now], record(s, e))
<1> DEFINE r == retain(s, e)
           q == <<e>> \o r
           t == truncate(q)
           new == [at EXCEPT ![e] = now]
<1>1. /\ Newest(at, s) /\ Len(s) <= RECENT_CAP
      /\ \A x \in Entry : at[x] > 0 /\ Absent(s, x) => Len(s) = RECENT_CAP /\ After(at, s, x)
  BY LatestMeans
<1>2. /\ Newest(at, r) /\ Absent(r, e)
      /\ Len(r) = Len(s) \/ (Len(r) = Len(s) - 1 /\ Len(s) > 0)
      /\ \A i \in 1 .. Len(r) : \E j \in 1 .. Len(s) : r[i] = s[j]
      /\ \A x : x # e /\ Absent(r, x) => Absent(s, x)
  BY <1>1, RetainNewest
<1> HIDE DEF r
<1>3. /\ Newest(new, q) /\ Len(q) = Len(r) + 1 /\ q[1] = e
      /\ \A i \in 1 .. Len(r) : q[i + 1] = r[i]
      /\ \A i \in 2 .. Len(q) : q[i] = r[i - 1]
  <2>1. Newest(at, r) /\ Absent(r, e) /\ \A x \in Entry : at[x] < now
    BY <1>2
  <2>2. /\ Newest([at EXCEPT ![e] = now], <<e>> \o r) /\ Len(<<e>> \o r) = Len(r) + 1
        /\ (<<e>> \o r)[1] = e
        /\ \A i \in 1 .. Len(r) : (<<e>> \o r)[i + 1] = r[i]
        /\ \A i \in 2 .. Len(<<e>> \o r) : (<<e>> \o r)[i] = r[i - 1]
    <3> HIDE DEF t, q, new
    <3>1. Newest([at EXCEPT ![e] = now], <<e>> \o r)
      BY <2>1, PushNewest
    <3>2. Len(<<e>> \o r) = Len(r) + 1
      BY <2>1, PushNewest
    <3>3. (<<e>> \o r)[1] = e
      BY <2>1, PushNewest
    <3>4. \A i \in 1 .. Len(r) : (<<e>> \o r)[i + 1] = r[i]
      BY <2>1, PushNewest
    <3>5. \A i \in 2 .. Len(<<e>> \o r) : (<<e>> \o r)[i] = r[i - 1]
      BY <2>1, PushNewest
    <3> QED BY <3>1, <3>2, <3>3, <3>4, <3>5, Zenon
  <2> QED BY <2>2
<1> HIDE DEF q
<1>4. /\ t \in Seq(Entry) /\ Len(t) \in Nat
      /\ Len(t) = IF Len(q) <= RECENT_CAP THEN Len(q) ELSE RECENT_CAP
      /\ \A i \in 1 .. Len(t) : t[i] = q[i]
  BY <1>3, TruncateKeeps DEF Newest
<1> HIDE DEF t
<1>5. RECENT_CAP \in Nat \ {0} /\ Len(q) \in Nat /\ Len(r) \in Nat /\ Len(s) \in Nat
  BY <1>1, <1>2, <1>3, FacesAssumption DEF Newest
<1>6. new[e] = now /\ (\A x \in Entry : x # e => new[x] = at[x]) /\ new \in [Entry -> Nat]
  BY DEF new
<1> HIDE DEF new
<1>7. Newest(new, t) /\ Len(t) <= RECENT_CAP
  <2>1. Len(t) <= RECENT_CAP /\ \A i \in 1 .. Len(t) : i \in 1 .. Len(q)
    BY <1>4, <1>5
  <2>2. \A i \in 1 .. Len(t) : t[i] \in Entry /\ new[t[i]] > 0
    BY <1>3, <1>4, <2>1, Zenon DEF Newest
  <2>3. \A i, j \in 1 .. Len(t) : i < j => new[t[i]] > new[t[j]]
    BY <1>3, <1>4, <2>1, Zenon DEF Newest
  <2> QED BY <1>4, <2>1, <2>2, <2>3 DEF Newest
\* What is not shown was pushed out by this view, or had been before.
<1>8. ASSUME NEW x \in Entry, new[x] > 0, Absent(t, x)
      PROVE  Len(t) = RECENT_CAP /\ After(new, t, x)
  <2>1. x # e
    BY <1>3, <1>4, <1>5, <1>8 DEF Absent
  <2>2. CASE \E i \in 1 .. Len(q) : q[i] = x
    <3>1. PICK i \in 1 .. Len(q) : q[i] = x
      BY <2>2
    <3>2. i > Len(t)
      BY <1>4, <1>8, <3>1 DEF Absent
    <3>3. Len(t) = RECENT_CAP
      BY <1>4, <1>5, <3>2
    <3>4. \A j \in 1 .. Len(t) : j \in 1 .. Len(q) /\ j < i
      BY <1>4, <1>5, <3>2
    <3>5. \A j \in 1 .. Len(t) : new[t[j]] > new[x]
      BY <1>3, <1>4, <3>1, <3>4 DEF Newest
    <3> QED BY <3>3, <3>5 DEF After
  <2>3. CASE \A i \in 1 .. Len(q) : q[i] # x
    <3>1. Absent(r, x)
      BY <1>3, <1>5, <2>3 DEF Absent
    <3>2. Len(s) = RECENT_CAP /\ After(at, s, x)
      BY <1>1, <1>2, <1>6, <1>8, <2>1, <3>1
    <3>3. Len(t) = RECENT_CAP
      BY <1>2, <1>3, <1>4, <1>5, <3>2
    <3>4. \A i \in 1 .. Len(r) : new[r[i]] > new[x]
      <4> SUFFICES ASSUME NEW i \in 1 .. Len(r) PROVE new[r[i]] > new[x]
        OBVIOUS
      <4>1. PICK j \in 1 .. Len(s) : r[i] = s[j]
        BY <1>2
      <4>2. r[i] \in Entry /\ r[i] # e /\ at[s[j]] > at[x]
        BY <1>2, <3>2, <4>1 DEF Newest, Absent, After
      <4> QED BY <1>6, <2>1, <4>1, <4>2
    <3>5. new[q[1]] > new[x]
      BY <1>3, <1>6, <2>1
    <3>6. ASSUME NEW i \in 1 .. Len(t) PROVE new[t[i]] > new[x]
      <4>1. i \in 1 .. Len(q) /\ t[i] = q[i]
        BY <1>4, <1>5
      <4>2. CASE i = 1
        BY <3>5, <4>1, <4>2
      <4>3. CASE i # 1
        <5>1. i \in 2 .. Len(q) /\ i - 1 \in 1 .. Len(r)
          BY <1>3, <1>5, <4>1, <4>3
        <5> QED BY <1>3, <3>4, <4>1, <5>1
      <4> QED BY <4>2, <4>3
    <3> QED BY <3>3, <3>6 DEF After
  <2> QED BY <2>2, <2>3
<1>9. Trail!Latest(new, t)
  BY <1>7, <1>8, LatestMeans
<1> QED BY <1>9 DEF record, t, q, r, new

-------------------------------------------------------------------------------
(* The inductive invariant, in four parts.                                 *)

\* The configuration is one that a start was not refused.
CfgOK == \E start \in Start : cfg \in load(start)

\* The trails are typed and are the latest, and nothing was opened after the last view.
OpenedOK ==
  /\ trail \in [Principal -> Seq(Entry)] /\ last \in [Principal -> [Entry -> 0 .. MaxOpens]]
  /\ clock \in 0 .. MaxOpens
  /\ \A p \in Principal : /\ Trail!Latest(last[p], trail[p])
                          /\ \A e \in Entry : last[p][e] <= clock

\* Authority, held or used, is somebody's, or that of the open room's own machine.
Earned(authorized, vouched, home) == authorized => vouched \/ (cfg.dev_open /\ home)

\* What a request was let do when the sessions were looked at was earned.
WellHeld(k) ==
  /\ Earned(k.at = "act" \/ k.cap # {}, k.vouched, k.home)
  /\ k.at = "act" => k.target = Action

HeldOK ==
  /\ session \in [Sid -> PrincipalOrNone] /\ wire \in [Conn -> PrincipalOrNone]
  /\ req \in [Request -> {Idle} \cup Ticket]
  /\ \A r \in Request : req[r] \in Ticket => WellHeld(req[r])

AnswerOK ==
  /\ answer.ms \in 0 .. SPARQL_SPACE_CEILING /\ answer.principal \in PrincipalOrNone
  /\ Earned(answer.authority # {}, answer.vouched, answer.home)
  /\ answer.authority \subseteq entitlement(cfg) \cup {Root}
  /\ DoorHolds

FacesInv == CfgOK /\ OpenedOK /\ HeldOK /\ AnswerOK

-------------------------------------------------------------------------------
(* What a configuration is worth.                                          *)

LEMMA CfgMeans ==
  ASSUME CfgOK
  PROVE  /\ cfg.anonymous_sparql_budget \in 1 .. SPARQL_SPACE_CEILING
         /\ cfg.dev_open => is_loopback_host(cfg.bind) /\ is_loopback_host(cfg.rp_origin.host)
<1>1. PICK start \in Start : cfg \in load(start)
  BY DEF CfgOK
<1>2. PICK raw : cfg \in resolve(raw, start.there)
  BY <1>1 DEF load
<1>3. cfg.anonymous_sparql_budget \in check_anonymous_budget(raw)
  BY <1>2 DEF resolve
<1>4. check_reachable(cfg.bind, cfg.rp_origin, cfg.dev_open)
  BY <1>2 DEF resolve
<1> QED BY <1>3, <1>4 DEF check_anonymous_budget, check_reachable

\* Who has not signed in is let in only where the room is open to its own machine, and
\* then from a loopback host.
LEMMA OpenMeansHome ==
  ASSUME CfgOK, NEW host, NEW origin, admits(host, origin), cfg.dev_open
  PROVE  AtHome(host)
<1>1. is_loopback_host(cfg.bind) /\ is_loopback_host(cfg.rp_origin.host)
  BY CfgMeans
<1>2. host.host = cfg.rp_origin.host \/ is_loopback_host(host.host)
  BY DEF admits, authority
<1> QED BY <1>1, <1>2 DEF AtHome

-------------------------------------------------------------------------------
(* What an opened view does to the trails.                                 *)

LEMMA NoteRecent ==
  ASSUME OpenedOK, NEW p \in PrincipalOrNone, NEW target \in Target \cup {Action},
         note_recent(p, target)
  PROVE  OpenedOK' /\ [Trail!Next]_(Trail!vars)
<1>1. CASE UNCHANGED opened
  BY <1>1 DEF opened, OpenedOK, Trail!vars
<1>2. CASE p # None /\ \E e \in recordable(target) :
             /\ clock < MaxOpens /\ clock' = clock + 1
             /\ trail' = [trail EXCEPT ![p] = record(@, e)]
             /\ last' = [last EXCEPT ![p][e] = clock']
  <2>1. PICK e \in recordable(target) :
             /\ clock < MaxOpens /\ clock' = clock + 1
             /\ trail' = [trail EXCEPT ![p] = record(@, e)]
             /\ last' = [last EXCEPT ![p][e] = clock']
    BY <1>2
  <2>2. p \in Principal /\ e \in Entry
    BY <1>2, FacesAssumption DEF PrincipalOrNone, recordable, Entry, Action
  <2>3. clock \in Nat /\ clock' \in 0 .. MaxOpens /\ MaxOpens \in Nat
    BY <2>1, FacesAssumption DEF OpenedOK
  <2>4. last[p] \in [Entry -> Nat] /\ \A x \in Entry : last[p][x] < clock'
    BY <2>1, <2>2, <2>3 DEF OpenedOK
  <2>5. Trail!Latest([last[p] EXCEPT ![e] = clock'], record(trail[p], e))
    <3>1. Trail!Latest(last[p], trail[p]) /\ clock' \in Nat
      BY <2>2, <2>3 DEF OpenedOK
    <3> QED BY <2>2, <2>4, <3>1, RecordIsLatest
  <2>6. last'[p] = [last[p] EXCEPT ![e] = clock'] /\ trail'[p] = record(trail[p], e)
    BY <2>1, <2>2 DEF OpenedOK
  <2>7. \A q \in Principal : q # p => last'[q] = last[q] /\ trail'[q] = trail[q]
    BY <2>1, <2>2 DEF OpenedOK
  <2>8. record(trail[p], e) \in Seq(Entry)
    BY <2>5 DEF Trail!Latest
  <2>9. trail' \in [Principal -> Seq(Entry)]
    BY <2>1, <2>2, <2>8 DEF OpenedOK
  <2>10. last' \in [Principal -> [Entry -> 0 .. MaxOpens]]
    BY <2>1, <2>2, <2>3 DEF OpenedOK
  <2>11. ASSUME NEW q \in Principal
         PROVE  Trail!Latest(last'[q], trail'[q]) /\ \A x \in Entry : last'[q][x] <= clock'
    <3>1. CASE q = p
      BY <2>2, <2>3, <2>4, <2>5, <2>6, <3>1
    <3>2. CASE q # p
      BY <2>1, <2>3, <2>7, <3>2 DEF OpenedOK
    <3> QED BY <3>1, <3>2
  <2>12. OpenedOK'
    BY <2>3, <2>9, <2>10, <2>11 DEF OpenedOK
  <2>13. Trail!Open(p, e)
    <3>1. DOMAIN trail' = Principal
      BY <2>9
    <3> QED BY <2>1, <2>2, <2>7, <2>11, <3>1 DEF Trail!Open
  <2> QED BY <2>2, <2>12, <2>13 DEF Trail!Next
<1> QED BY <1>1, <1>2 DEF note_recent

-------------------------------------------------------------------------------
(* What the door lets through.                                             *)

LEMMA Evaluated ==
  ASSUME CfgOK, NEW p \in PrincipalOrNone, NEW target \in Target \cup {Action},
         NEW t \in door(p, target)
  PROVE  /\ evaluated(t) \in 0 .. SPARQL_SPACE_CEILING
         /\ p = None => /\ evaluated(t) <= cfg.anonymous_sparql_budget
                        /\ t.kind = "style" => t.sheet \in {"room", "none"}
<1>1. cfg.anonymous_sparql_budget \in 1 .. SPARQL_SPACE_CEILING
  BY CfgMeans
<1>2. SPARQL_SPACE_CEILING \in Nat /\ Unstated \notin Nat
  BY SettingsAssumption
<1>3. CASE target.kind # "sparql"
  <2>1. t = target
    BY <1>3 DEF door, stamp_anonymous_budget
  <2> QED BY <1>1, <1>2, <1>3, <2>1 DEF evaluated, door, refuse_anonymous_stylesheet
<1>4. CASE target.kind = "sparql"
  <2>1. target \in [kind : {"sparql"}, budget : Nat \cup {Unstated}, by_reference : BOOLEAN]
    BY <1>4, FacesAssumption DEF Action
  <2>2. CASE p # None
    BY <1>2, <2>1, <2>2 DEF door, evaluated
  <2>3. CASE p = None
    <3>1. t = stamp_anonymous_budget(target, cfg.anonymous_sparql_budget)
      BY <2>3 DEF door
    <3>2. CASE target.budget \in 1 .. cfg.anonymous_sparql_budget /\ ~ target.by_reference
      BY <1>1, <1>2, <2>1, <3>1, <3>2 DEF stamp_anonymous_budget, evaluated
    <3>3. CASE ~ (target.budget \in 1 .. cfg.anonymous_sparql_budget /\ ~ target.by_reference)
      <4>1. t = [target EXCEPT !.budget = cfg.anonymous_sparql_budget, !.by_reference = FALSE]
        BY <1>4, <3>1, <3>3 DEF stamp_anonymous_budget
      <4>2. t.kind = "sparql" /\ t.budget = cfg.anonymous_sparql_budget /\ t.by_reference = FALSE
        BY <2>1, <4>1
      <4> QED BY <1>1, <1>2, <4>2 DEF evaluated
    <3> QED BY <3>2, <3>3
  <2> QED BY <2>2, <2>3
<1> QED BY <1>3, <1>4

\* What is resolved under an authority that was earned is answered as it should be.
LEMMA ResolvesHolds ==
  ASSUME CfgOK, OpenedOK, cfg' = cfg,
         NEW p \in PrincipalOrNone, NEW cap \in SUBSET entitlement(cfg),
         NEW target \in Target \cup {Action}, NEW vouched, NEW home,
         Earned(cap # {}, vouched, home), Resolves(p, cap, target, vouched, home)
  PROVE  OpenedOK' /\ AnswerOK' /\ [Trail!Next]_(Trail!vars)
<1>1. OpenedOK' /\ [Trail!Next]_(Trail!vars)
  <2>1. CASE UNCHANGED opened
    BY <2>1 DEF opened, OpenedOK, Trail!vars
  <2>2. CASE note_recent(p, target)
    BY <2>2, NoteRecent
  <2> QED BY <2>1, <2>2 DEF Resolves
<1>2. ASSUME answer' = Nothing
      PROVE  AnswerOK'
  <2>1. cfg.anonymous_sparql_budget \in Nat /\ SPARQL_SPACE_CEILING \in Nat
    BY CfgMeans, SettingsAssumption
  <2> QED BY <1>2, <2>1 DEF Nothing, AnswerOK, Earned, DoorHolds, PrincipalOrNone
<1>3. ASSUME NEW t \in door(p, target), Answered(cap, p, t, vouched, home)
      PROVE  AnswerOK'
  <2>2. /\ answer'.authority = cap /\ answer'.principal = p /\ answer'.ms = evaluated(t)
        /\ answer'.sheet = (IF t.kind = "style" THEN t.sheet ELSE "none")
        /\ answer'.recent = rendered(p, t)
        /\ answer'.vouched = vouched /\ answer'.home = home
    BY <1>3 DEF Answered
  <2>3. answer'.ms \in 0 .. SPARQL_SPACE_CEILING /\ answer'.principal \in PrincipalOrNone
    BY <2>2, Evaluated
  <2>4. DoorHolds'
    <3> SUFFICES ASSUME p = None
                 PROVE  /\ evaluated(t) <= cfg.anonymous_sparql_budget
                        /\ answer'.sheet \in {"room", "none"}
                        /\ rendered(p, t) = <<>>
      BY <2>2 DEF DoorHolds
    <3> QED BY <2>2, Evaluated DEF rendered
  <2>5. Earned(answer.authority # {}, answer.vouched, answer.home)'
    BY <2>2 DEF Earned
  <2>6. (answer.authority \subseteq entitlement(cfg) \cup {Root})'
    BY <2>2 DEF entitlement
  <2> QED BY <2>3, <2>4, <2>5, <2>6 DEF AnswerOK
<1> QED BY <1>1, <1>2, <1>3 DEF Resolves

-------------------------------------------------------------------------------
(* The steps.                                                              *)

LEMMA AnswersNothing ==
  ASSUME CfgOK, cfg' = cfg, answer' = Nothing
  PROVE  AnswerOK'
<1>1. cfg.anonymous_sparql_budget \in Nat /\ SPARQL_SPACE_CEILING \in Nat
  BY CfgMeans, SettingsAssumption
<1> QED BY <1>1 DEF Nothing, AnswerOK, Earned, DoorHolds, PrincipalOrNone

LEMMA OpenedKept ==
  ASSUME OpenedOK, UNCHANGED opened
  PROVE  OpenedOK' /\ UNCHANGED Trail!vars
BY DEF opened, OpenedOK, Trail!vars

\* A request that is let do something, and what it holds was earned.
LEMMA TicketHeld ==
  ASSUME FacesInv, cfg' = cfg, UNCHANGED <<session, wire>>, NEW r \in Request,
         NEW k \in Ticket, req' = [req EXCEPT ![r] = k],
         WellHeld(k)
  PROVE  HeldOK'
<1>1. HeldOK /\ Ticket' = Ticket
  BY DEF FacesInv, Ticket, entitlement
<1>2. req' \in [Request -> {Idle} \cup Ticket]
  BY <1>1 DEF HeldOK
<1>3. ASSUME NEW q \in Request, req'[q] \in Ticket
      PROVE  WellHeld(req[q])'
  <2>1. CASE q = r
    <3>1. req'[q] = k
      BY <1>1, <2>1 DEF HeldOK
    <3> QED BY <3>1 DEF WellHeld, Earned
  <2>2. CASE q # r
    <3>1. req'[q] = req[q]
      BY <1>1, <2>2 DEF HeldOK
    <3> QED BY <1>1, <1>3, <3>1 DEF WellHeld, Earned, HeldOK
  <2> QED BY <2>1, <2>2
<1> QED BY <1>1, <1>2, <1>3 DEF HeldOK

LEMMA TicketGone ==
  ASSUME FacesInv, cfg' = cfg, UNCHANGED <<session, wire>>, NEW r \in Request,
         req' = [req EXCEPT ![r] = Idle]
  PROVE  HeldOK'
<1>1. HeldOK /\ Ticket' = Ticket
  BY DEF FacesInv, Ticket, entitlement
<1>2. Idle \notin Ticket
  BY DEF Idle, Ticket
<1>3. req' \in [Request -> {Idle} \cup Ticket]
  BY <1>1 DEF HeldOK
<1>4. ASSUME NEW q \in Request, req'[q] \in Ticket
      PROVE  WellHeld(req[q])'
  <2>1. req'[q] = req[q]
    BY <1>1, <1>2, <1>4 DEF HeldOK
  <2> QED BY <1>1, <1>4, <2>1 DEF WellHeld, Earned, HeldOK
<1> QED BY <1>1, <1>3, <1>4 DEF HeldOK

\* Only the sessions change; what requests hold is as it was.
LEMMA RequestsKept ==
  ASSUME FacesInv, cfg' = cfg, req' = req,
         session' \in [Sid -> PrincipalOrNone], wire' \in [Conn -> PrincipalOrNone]
  PROVE  HeldOK'
<1>1. HeldOK /\ Ticket' = Ticket
  BY DEF FacesInv, Ticket, entitlement
<1> QED BY <1>1 DEF HeldOK, WellHeld, Earned

\* What is seen of the sessions by a request that was let in.
LEMMA SeenOK ==
  ASSUME FacesInv, NEW s \in Cookie, NEW host, NEW origin, admits(host, origin)
  PROVE  /\ SignedInAs(s) \in PrincipalOrNone
         /\ session_cap(s) \in SUBSET entitlement(cfg)
         /\ Earned(authed(s) \/ session_cap(s) # {}, SignedInAs(s) # None, AtHome(host))
<1>1. SignedInAs(s) \in PrincipalOrNone
  BY DEF FacesInv, HeldOK, SignedInAs, Cookie, PrincipalOrNone
<1>2. session_cap(s) \in SUBSET entitlement(cfg)
  BY DEF session_cap
<1>3. Earned(authed(s) \/ session_cap(s) # {}, SignedInAs(s) # None, AtHome(host))
  BY OpenMeansHome DEF FacesInv, Earned, authed, session_cap
<1> QED BY <1>1, <1>2, <1>3

LEMMA HttpActStep ==
  ASSUME FacesInv, NEW r \in Request, NEW host, NEW origin, NEW s \in Cookie,
         HttpAct(r, host, origin, s)
  PROVE  FacesInv' /\ UNCHANGED Trail!vars
<1> DEFINE k == [at |-> "act", sid |-> s, principal |-> SignedInAs(s), cap |-> session_cap(s),
                 target |-> Action, home |-> AtHome(host), vouched |-> SignedInAs(s) # None]
<1>1. /\ admits(host, origin) /\ authed(s) /\ req' = [req EXCEPT ![r] = k]
      /\ answer' = Nothing /\ UNCHANGED <<cfg, session, wire, opened>>
  BY DEF HttpAct, Held
<1>2. k \in Ticket
  BY <1>1, SeenOK DEF Ticket, Cookie, PrincipalOrNone, AtHome, is_loopback_host
<1>3. WellHeld(k)
  BY <1>1, SeenOK DEF WellHeld, Earned
<1> HIDE DEF k
<1> QED BY <1>1, <1>2, <1>3, TicketHeld, OpenedKept, AnswersNothing DEF FacesInv, CfgOK

LEMMA HttpResolveStep ==
  ASSUME FacesInv, NEW r \in Request, NEW host, NEW origin, NEW s \in Cookie,
         NEW target \in Target, HttpResolve(r, host, origin, s, target)
  PROVE  FacesInv' /\ UNCHANGED Trail!vars
<1> DEFINE k == [at |-> "resolve", sid |-> s, principal |-> SignedInAs(s), cap |-> session_cap(s),
                 target |-> target, home |-> AtHome(host), vouched |-> SignedInAs(s) # None]
<1>1. /\ admits(host, origin) /\ req' = [req EXCEPT ![r] = k]
      /\ answer' = Nothing /\ UNCHANGED <<cfg, session, wire, opened>>
  BY DEF HttpResolve, Held
<1>2. k \in Ticket
  BY <1>1, SeenOK DEF Ticket, Cookie, PrincipalOrNone, AtHome, is_loopback_host
<1>3. WellHeld(k)
  BY <1>1, SeenOK DEF WellHeld, Earned
<1> HIDE DEF k
<1> QED BY <1>1, <1>2, <1>3, TicketHeld, OpenedKept, AnswersNothing DEF FacesInv, CfgOK

\* A request that holds something holds what a ticket may.
LEMMA HeldTicket ==
  ASSUME FacesInv, NEW r \in Request, req[r].at # "idle"
  PROVE  req[r] \in Ticket /\ WellHeld(req[r])
BY DEF FacesInv, HeldOK, Idle

LEMMA ActStep ==
  ASSUME FacesInv, NEW r \in Request, Act(r)
  PROVE  FacesInv' /\ UNCHANGED Trail!vars
<1> DEFINE k == req[r]
<1>1. /\ k.at = "act" /\ req' = [req EXCEPT ![r] = Idle] /\ UNCHANGED <<cfg, session, wire, opened>>
      /\ Answered({Root}, k.principal, k.target, k.vouched, k.home)
  BY DEF Act
<1>2. k \in Ticket /\ k.target = Action /\ Earned(TRUE, k.vouched, k.home)
  BY <1>1, HeldTicket DEF WellHeld, Earned
<1>3. k.principal \in PrincipalOrNone
  BY <1>2 DEF Ticket, PrincipalOrNone
<1> HIDE DEF k
<1>4. /\ answer'.authority = {Root} /\ answer'.principal = k.principal /\ answer'.ms = 0
      /\ answer'.sheet = "none" /\ answer'.recent = <<>>
      /\ answer'.vouched = k.vouched /\ answer'.home = k.home
  BY <1>1, <1>2 DEF Answered, Action, evaluated, rendered
<1>5. cfg.anonymous_sparql_budget \in Nat /\ SPARQL_SPACE_CEILING \in Nat
  BY CfgMeans, SettingsAssumption DEF FacesInv
<1>6. AnswerOK'
  BY <1>1, <1>2, <1>3, <1>4, <1>5 DEF AnswerOK, Earned, DoorHolds
<1> QED BY <1>1, <1>6, TicketGone, OpenedKept DEF FacesInv, CfgOK

LEMMA ResolveStep ==
  ASSUME FacesInv, NEW r \in Request, Resolve(r)
  PROVE  FacesInv' /\ [Trail!Next]_(Trail!vars)
<1> DEFINE k == req[r]
<1>1. /\ k.at = "resolve" /\ req' = [req EXCEPT ![r] = Idle] /\ UNCHANGED <<cfg, session, wire>>
      /\ Resolves(k.principal, k.cap, k.target, k.vouched, k.home)
  BY DEF Resolve
<1>2. k \in Ticket /\ Earned(k.cap # {}, k.vouched, k.home)
  BY <1>1, HeldTicket DEF WellHeld, Earned
<1>3. /\ k.principal \in PrincipalOrNone /\ k.cap \in SUBSET entitlement(cfg)
      /\ k.target \in Target \cup {Action}
  BY <1>2 DEF Ticket, PrincipalOrNone
<1>4. HeldOK' /\ CfgOK'
  BY <1>1, TicketGone DEF FacesInv, CfgOK
<1> HIDE DEF k
<1> QED BY <1>1, <1>2, <1>3, <1>4, ResolvesHolds DEF FacesInv

\* Over the wire whoever is not signed in has no authority to lower.
LEMMA WireResolves ==
  ASSUME FacesInv, NEW c \in Conn, NEW target \in Target, NEW cap \in SUBSET ceiling(c),
         Resolves(wire[c], cap, target, wire[c] # None, FALSE),
         UNCHANGED <<cfg, session, wire, req>>
  PROVE  FacesInv' /\ [Trail!Next]_(Trail!vars)
<1>1. wire[c] \in PrincipalOrNone /\ cap \in SUBSET entitlement(cfg)
  BY DEF FacesInv, HeldOK, ceiling
<1>2. Earned(cap # {}, wire[c] # None, FALSE)
  BY DEF Earned, ceiling
<1>3. OpenedOK' /\ AnswerOK' /\ [Trail!Next]_(Trail!vars)
  BY <1>1, <1>2, ResolvesHolds DEF FacesInv
<1>4. HeldOK' /\ CfgOK'
  BY RequestsKept DEF FacesInv, HeldOK, CfgOK
<1> QED BY <1>3, <1>4 DEF FacesInv

\* A sign-in, a sign-out or a lost connection changes the sessions alone.
LEMMA QuietHolds ==
  ASSUME FacesInv, Quiet, HeldOK'
  PROVE  FacesInv' /\ UNCHANGED Trail!vars
BY OpenedKept, AnswersNothing DEF Quiet, FacesInv, CfgOK

LEMMA HttpLoginStep ==
  ASSUME FacesInv, NEW s \in Sid, NEW p \in Principal, HttpLogin(s, p)
  PROVE  FacesInv' /\ UNCHANGED Trail!vars
<1>1. /\ HeldOK /\ Ticket' = Ticket /\ cfg' = cfg /\ UNCHANGED wire /\ Quiet
      /\ session' = [session EXCEPT ![s] = p]
      /\ req' = [r \in Request |-> IF req[r].at # "idle" /\ req[r].sid = s
                                    THEN [req[r] EXCEPT !.vouched = TRUE] ELSE req[r]]
  BY DEF HttpLogin, Quiet, FacesInv, Ticket, entitlement
<1>2. session' \in [Sid -> PrincipalOrNone] /\ wire' \in [Conn -> PrincipalOrNone]
  BY <1>1 DEF HeldOK, PrincipalOrNone
<1>3. ASSUME NEW r \in Request
      PROVE  req'[r] \in {Idle} \cup Ticket /\ (req'[r] \in Ticket => WellHeld(req[r])')
  <2>1. CASE req'[r] = req[r]
    BY <1>1, <2>1 DEF HeldOK, WellHeld, Earned
  <2>2. CASE req[r].at # "idle" /\ req'[r] = [req[r] EXCEPT !.vouched = TRUE]
    <3> DEFINE k == req[r]
               j == [k EXCEPT !.vouched = TRUE]
    <3>1. k \in Ticket /\ WellHeld(k)
      BY <2>2, HeldTicket
    <3>2. req'[r] = j
      BY <2>2
    <3> HIDE DEF k
    <3>3. j \in Ticket /\ j.at = k.at /\ j.target = k.target /\ j.vouched = TRUE
      BY <3>1 DEF Ticket
    <3> HIDE DEF j
    <3> QED BY <1>1, <3>1, <3>2, <3>3 DEF WellHeld, Earned
  <2> QED BY <1>1, <2>1, <2>2
<1>4. req' \in [Request -> {Idle} \cup Ticket]
  BY <1>1, <1>3
<1>5. HeldOK'
  BY <1>1, <1>2, <1>3, <1>4 DEF HeldOK
<1> QED BY <1>1, <1>5, QuietHolds

LEMMA SessionSteps ==
  ASSUME FacesInv,
         \/ \E s \in Sid : HttpLogout(s)
         \/ \E c \in Conn, p \in Principal : WireLogin(c, p)
         \/ \E c \in Conn, s \in Sid : WireResume(c, s)
         \/ \E c \in Conn : WireLogout(c)
  PROVE  FacesInv' /\ UNCHANGED Trail!vars
<1>1. Quiet /\ req' = req /\ session' \in [Sid -> PrincipalOrNone] /\ wire' \in [Conn -> PrincipalOrNone]
  BY DEF HttpLogout, WireLogin, WireResume, WireLogout, FacesInv, HeldOK, PrincipalOrNone
<1>2. HeldOK'
  BY <1>1, RequestsKept DEF Quiet
<1> QED BY <1>1, <1>2, QuietHolds

\* Nothing has been opened and nothing is held.
Fresh ==
  /\ trail = [p \in Principal |-> <<>>] /\ clock = 0 /\ last = Never
  /\ session = [s \in Sid |-> None] /\ wire = [c \in Conn |-> None]
  /\ req = [r \in Request |-> Idle]

LEMMA FreshHolds == Fresh => OpenedOK /\ HeldOK
<1> SUFFICES ASSUME Fresh PROVE OpenedOK /\ HeldOK
  OBVIOUS
<1>1. MaxOpens \in Nat /\ RECENT_CAP \in Nat /\ <<>> \in Seq(Entry) /\ Len(<<>>) = 0
  BY FacesAssumption
<1>2. ASSUME NEW p \in Principal
      PROVE  Trail!Latest(last[p], trail[p]) /\ \A e \in Entry : last[p][e] <= clock
  <2>1. trail[p] = <<>> /\ last[p] = [e \in Entry |-> 0]
    BY DEF Fresh, Never
  <2>2. Newest(last[p], trail[p]) /\ Len(trail[p]) <= RECENT_CAP
    BY <1>1, <2>1 DEF Newest
  <2>3. \A e \in Entry : ~ last[p][e] > 0 /\ last[p][e] <= clock
    BY <2>1 DEF Fresh
  <2> QED BY <2>2, <2>3, LatestMeans
<1>3. OpenedOK
  BY <1>1, <1>2 DEF Fresh, OpenedOK, Never
<1>4. Idle \notin Ticket
  BY DEF Idle, Ticket
<1> QED BY <1>3, <1>4 DEF Fresh, HeldOK, PrincipalOrNone

LEMMA RestartStep ==
  ASSUME FacesInv, Restart
  PROVE  FacesInv' /\ Trail!Next
<1>1. (OpenedOK /\ HeldOK)'
  <2>1. Fresh'
    BY DEF Restart, Fresh, Never
  <2> QED BY <2>1, FreshHolds, PTL
<1>2. CfgOK' /\ AnswerOK'
  BY AnswersNothing DEF Restart, FacesInv, CfgOK
<1>3. Trail!Next
  BY DEF Restart, Trail!Next, Trail!Forget, Never, Trail!Never
<1> QED BY <1>1, <1>2, <1>3 DEF FacesInv

LEMMA InitHolds == Init => FacesInv /\ Trail!Init
<1> SUFFICES ASSUME Init PROVE FacesInv /\ Trail!Init
  OBVIOUS
<1>1. CfgOK /\ OpenedOK /\ HeldOK
  BY FreshHolds DEF Init, Fresh, CfgOK
<1>2. AnswerOK
  <2>1. cfg.anonymous_sparql_budget \in Nat /\ SPARQL_SPACE_CEILING \in Nat
    BY <1>1, CfgMeans, SettingsAssumption
  <2> QED BY <2>1 DEF Init, Nothing, AnswerOK, Earned, DoorHolds, PrincipalOrNone
<1>3. Trail!Init
  BY DEF Init, Trail!Init, Never, Trail!Never
<1> QED BY <1>1, <1>2, <1>3 DEF FacesInv

\* Every step keeps the invariant, and opens at most one view.
LEMMA StepHolds == FacesInv /\ [Next]_vars => FacesInv' /\ [Trail!Next]_(Trail!vars)
<1> SUFFICES ASSUME FacesInv, [Next]_vars PROVE FacesInv' /\ [Trail!Next]_(Trail!vars)
  OBVIOUS
<1>1. CASE UNCHANGED vars
  <2>1. HeldOK' /\ OpenedOK' /\ UNCHANGED Trail!vars
    BY <1>1, RequestsKept, OpenedKept DEF vars, FacesInv, HeldOK
  <2>2. CfgOK' /\ AnswerOK'
    BY <1>1 DEF vars, FacesInv, CfgOK, AnswerOK, Earned, DoorHolds, entitlement
  <2> QED BY <2>1, <2>2 DEF FacesInv
<1>2. ASSUME NEW r \in Request, HttpStep(r)
      PROVE  FacesInv' /\ [Trail!Next]_(Trail!vars)
  <2>1. ASSUME NEW host \in HostHeader, NEW origin \in OriginHeader, NEW s \in Cookie,
               \/ HttpAct(r, host, origin, s)
               \/ \E target \in Target : HttpResolve(r, host, origin, s, target)
        PROVE  FacesInv' /\ UNCHANGED Trail!vars
    BY <2>1, HttpActStep, HttpResolveStep
  <2>2. CASE Act(r)
    BY <2>2, ActStep
  <2>3. CASE Resolve(r)
    BY <2>3, ResolveStep
  <2> QED BY <1>2, <2>1, <2>2, <2>3 DEF HttpStep
<1>3. ASSUME NEW c \in Conn, WireStep(c)
      PROVE  FacesInv' /\ [Trail!Next]_(Trail!vars)
  <2>1. ASSUME NEW target \in Target, Issue(c, target)
        PROVE  FacesInv' /\ [Trail!Next]_(Trail!vars)
    BY <2>1, WireResolves DEF Issue
  <2>2. ASSUME NEW target \in Target, NEW carried \in Carried, IssueAs(c, target, carried)
        PROVE  FacesInv' /\ [Trail!Next]_(Trail!vars)
    <3>1. clamp(c, carried) \in SUBSET ceiling(c)
      BY DEF clamp
    <3> QED BY <2>2, <3>1, WireResolves DEF IssueAs
  <2> QED BY <1>3, <2>1, <2>2, SessionSteps DEF WireStep
<1>4. CASE \E s \in Sid : HttpLogout(s) \/ \E p \in Principal : HttpLogin(s, p)
  BY <1>4, SessionSteps, HttpLoginStep
<1>5. CASE Restart
  BY <1>5, RestartStep
<1> QED BY <1>1, <1>2, <1>3, <1>4, <1>5 DEF Next

LEMMA Invariance == Spec => []FacesInv
BY InitHolds, StepHolds, PTL DEF Spec

-------------------------------------------------------------------------------
(* Theorems.                                                               *)

\* The sessions, the requests, the trails and what is answered are typed, and no trail
\* is longer than its bound.
THEOREM TypeCorrect == Spec => []TypeOK
<1>1. FacesInv => TypeOK
  <2> SUFFICES ASSUME FacesInv PROVE TypeOK
    OBVIOUS
  <2>1. cfg.anonymous_sparql_budget \in 1 .. SPARQL_SPACE_CEILING
    BY CfgMeans DEF FacesInv
  <2>2. \A p \in Principal : Len(trail[p]) <= RECENT_CAP
    BY LatestMeans DEF FacesInv, OpenedOK
  <2> QED BY <2>1, <2>2 DEF FacesInv, OpenedOK, HeldOK, AnswerOK, TypeOK
<1> QED BY <1>1, Invariance, PTL

\* Without a sign-in more than the public's view is given only by a room that is open to
\* its own machine, to a request that came to a loopback address and names a loopback
\* host, for every configuration that is not refused (check_reachable, admits).
THEOREM OnlyAtHome == Spec => []OpenOnlyAtHome
<1>1. FacesInv => OpenOnlyAtHome
  BY DEF FacesInv, AnswerOK, Earned, OpenOnlyAtHome
<1> QED BY <1>1, Invariance, PTL

\* In a room that is not open everything done as root or under the entitlement is done
\* for somebody who signed in, under no more than a passkey is granted.
THEOREM AllIsEarned == Spec => []AuthorityIsEarned
<1>1. FacesInv => AuthorityIsEarned
  BY DEF FacesInv, AnswerOK, Earned, AuthorityIsEarned
<1> QED BY <1>1, Invariance, PTL

\* Whoever is not signed in gets no more time than the budget, no stylesheet but the
\* room's and nobody's trail.
THEOREM TheDoorHolds == Spec => []DoorHolds
<1>1. FacesInv => DoorHolds
  BY DEF FacesInv, AnswerOK
<1> QED BY <1>1, Invariance, PTL

\* The trail implements RecentTrail: each principal's is the RECENT_CAP views it opened
\* last, newest first.
THEOREM TrailImplements == Spec => TrailIsLatest
BY InitHolds, StepHolds, Invariance, PTL DEF Spec, TrailIsLatest, Trail!Spec
===============================================================================
