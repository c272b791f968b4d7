---------------------------- MODULE AsyncProofs ----------------------------
(***************************************************************************)
(* Proofs about AsyncHTTPGETClient, for any set of requests.               *)
(***************************************************************************)
EXTENDS AsyncHTTPGETClient, OrderLemmas, TLAPS

-----------------------------------------------------------------------------
(* What is left of a sequence without some of its members. *)

\* The first m values of a function that computes Without.
Keeps(f, q, R, m) ==
  /\ f[0] = <<>>
  /\ \A n \in 1..m : f[n] = IF q[n] \in R THEN f[n - 1] ELSE Append(f[n - 1], q[n])

KeepsAll(f, q, R) ==
  f = [n \in 0..Len(q) |-> IF n = 0 THEN <<>>
                           ELSE IF q[n] \in R THEN f[n - 1] ELSE Append(f[n - 1], q[n])]

\* Such a function exists.
LEMMA KeepsExists ==
  ASSUME NEW E, NEW q \in Seq(E), NEW R
  PROVE  \E f : KeepsAll(f, q, R)
<1> DEFINE L == Len(q)
           Step(f, n) == IF n = 0 THEN <<>>
                         ELSE IF q[n] \in R THEN f[n - 1] ELSE Append(f[n - 1], q[n])
           S == {m \in 0..L : \E f : f = [n \in 0..m |-> Step(f, n)]}
<1>1. L \in Nat
  OBVIOUS
<1>2. 0 \in S
  <2> DEFINE f == [n \in 0..0 |-> <<>>]
  <2>1. f = [n \in 0..0 |-> Step(f, n)]
    OBVIOUS
  <2>2. 0 \in 0..L
    BY <1>1
  <2> HIDE DEF Step, L, f
  <2>3. QED
    BY <2>1, <2>2, Zenon
<1>3. ASSUME NEW m \in 1..L, m - 1 \in S
      PROVE  m \in S
  <2>1. PICK f : f = [n \in 0..(m - 1) |-> Step(f, n)]
    <3> HIDE DEF Step, L
    <3> QED
      BY <1>3, Zenon
  <2> DEFINE g == [n \in 0..m |-> IF n = m THEN Step(f, m) ELSE f[n]]
  <2>2. \A n \in 0..(m - 1) : g[n] = f[n] /\ f[n] = Step(f, n)
    <3>1. \A n \in 0..(m - 1) : g[n] = f[n]
      OBVIOUS
    <3> HIDE DEF g, Step
    <3>2. \A n \in 0..(m - 1) : f[n] = Step(f, n)
      BY <2>1, Zenon
    <3>3. QED
      BY <3>1, <3>2, Zenon
  <2>3. \A n \in 0..m : g[n] = Step(g, n)
    <3>1. ASSUME NEW n \in 0..m
          PROVE  g[n] = Step(g, n)
      <4>1. n # 0 => n - 1 \in 0..(m - 1) /\ g[n - 1] = f[n - 1]
        BY <2>2
      <4>2. g[n] = Step(f, n)
        <5>1. CASE n = m
          BY <5>1
        <5>2. CASE n # m
          <6>1. n \in 0..(m - 1)
            BY <5>2
          <6>2. QED
            BY <2>2, <6>1, Zenon
        <5>3. QED
          BY <5>1, <5>2
      <4>3. Step(f, n) = Step(g, n)
        BY <4>1
      <4>4. QED
        BY <4>2, <4>3, Zenon
    <3>2. QED
      BY <3>1, Zenon
  <2>4. g = [n \in 0..m |-> Step(g, n)]
    <3>1. g = [n \in 0..m |-> g[n]]
      OBVIOUS
    <3> HIDE DEF g, Step
    <3>2. QED
      BY <2>3, <3>1, Zenon
  <2>5. m \in 0..L
    BY <1>1
  <2> HIDE DEF Step, L, g
  <2>6. QED
    BY <2>4, <2>5, Zenon
<1>4. 0..L \subseteq S
  <2> HIDE DEF S, L
  <2> QED
    BY <1>1, <1>2, <1>3, UpTo
<1>5. L \in S
  <2> HIDE DEF S, L
  <2> QED
    BY <1>1, <1>4
<1>6. \E f : f = [n \in 0..L |-> Step(f, n)]
  <2> HIDE DEF Step, L
  <2> QED
    BY <1>5, Zenon
<1>7. QED
  BY <1>6, Zenon DEF KeepsAll

LEMMA WithoutKeeps ==
  ASSUME NEW E, NEW q \in Seq(E), NEW R
  PROVE  \E f : Keeps(f, q, R, Len(q)) /\ Without(q, R) = f[Len(q)]
<1> DEFINE kept[n \in 0..Len(q)] ==
             IF n = 0 THEN <<>>
             ELSE IF q[n] \in R THEN kept[n - 1] ELSE Append(kept[n - 1], q[n])
<1>1. kept = [n \in 0..Len(q) |->
                IF n = 0 THEN <<>>
                ELSE IF q[n] \in R THEN kept[n - 1] ELSE Append(kept[n - 1], q[n])]
  <2>1. \E f : KeepsAll(f, q, R)
    BY KeepsExists
  <2>2. QED
    BY <2>1, Zenon DEF KeepsAll
<1>2. Without(q, R) = kept[Len(q)]
  BY DEF Without
<1> HIDE DEF kept
<1>3. Keeps(kept, q, R, Len(q))
  <2>1. Len(q) \in Nat
    OBVIOUS
  <2>2. \A n \in 0..Len(q) :
          kept[n] = IF n = 0 THEN <<>>
                    ELSE IF q[n] \in R THEN kept[n - 1] ELSE Append(kept[n - 1], q[n])
    BY <1>1
  <2>3. QED
    BY <2>1, <2>2 DEF Keeps
<1>4. QED
  BY <1>2, <1>3

\* Two such functions agree as far as their sequences do.
LEMMA KeepsAgree ==
  ASSUME NEW m \in Nat, NEW p, NEW q, NEW R, NEW f, NEW g,
         Keeps(f, p, R, m), Keeps(g, q, R, m), \A n \in 1..m : p[n] = q[n]
  PROVE  f[m] = g[m]
<1> DEFINE S == {n \in 0..m : f[n] = g[n]}
<1>1. 0 \in S
  BY DEF Keeps
<1>2. ASSUME NEW n \in 1..m, n - 1 \in S
      PROVE  n \in S
  BY <1>2 DEF Keeps
<1>3. 0..m \subseteq S
  <2> HIDE DEF S
  <2> QED
    BY <1>1, <1>2, UpTo
<1>4. QED
  BY <1>3

LEMMA WithoutEmpty ==
  ASSUME NEW R
  PROVE  Without(<<>>, R) = <<>>
<1>1. <<>> \in Seq({}) /\ Len(<<>>) = 0
  OBVIOUS
<1>2. PICK f : Keeps(f, <<>>, R, 0) /\ Without(<<>>, R) = f[0]
  BY <1>1, WithoutKeeps
<1>3. QED
  BY <1>2 DEF Keeps

LEMMA WithoutAppend ==
  ASSUME NEW E, NEW q \in Seq(E), NEW x \in E, NEW R
  PROVE  Without(Append(q, x), R) =
           IF x \in R THEN Without(q, R) ELSE Append(Without(q, R), x)
<1> DEFINE L == Len(q)
           qx == Append(q, x)
<1>1. L \in Nat /\ qx \in Seq(E) /\ Len(qx) = L + 1 /\ qx[L + 1] = x
  OBVIOUS
<1>2. \A n \in 1..L : q[n] = qx[n]
  OBVIOUS
<1>3. PICK f : Keeps(f, q, R, L) /\ Without(q, R) = f[L]
  BY WithoutKeeps
<1> HIDE DEF qx, L
<1>4. PICK g : Keeps(g, qx, R, L + 1) /\ Without(qx, R) = g[L + 1]
  BY <1>1, WithoutKeeps
<1>5. Keeps(g, qx, R, L)
  BY <1>1, <1>4 DEF Keeps
<1>6. f[L] = g[L]
  BY <1>1, <1>2, <1>3, <1>5, KeepsAgree
<1>7. g[L + 1] = IF x \in R THEN g[L] ELSE Append(g[L], x)
  BY <1>1, <1>4 DEF Keeps
<1>8. QED
  BY <1>3, <1>4, <1>6, <1>7 DEF qx
LEMMA ToSetEmpty == ToSet(<<>>) = {}
BY DEF ToSet

LEMMA ToSetAppend ==
  ASSUME NEW E, NEW q \in Seq(E), NEW x \in E
  PROVE  ToSet(Append(q, x)) = ToSet(q) \cup {x}
<1>1. Len(q) \in Nat /\ DOMAIN q = 1..Len(q) /\ DOMAIN Append(q, x) = 1..(Len(q) + 1)
  OBVIOUS
<1>2. \A i \in 1..Len(q) : Append(q, x)[i] = q[i]
  OBVIOUS
<1>3. Append(q, x)[Len(q) + 1] = x
  OBVIOUS
<1>4. QED
  BY <1>1, <1>2, <1>3 DEF ToSet

\* What is left is a sequence, of the members that are not left out.
LEMMA WithoutType ==
  ASSUME NEW E, NEW q \in Seq(E), NEW R
  PROVE  Without(q, R) \in Seq(E) /\ ToSet(Without(q, R)) = ToSet(q) \ R
<1> DEFINE S == {p \in Seq(E) : Without(p, R) \in Seq(E)
                                 /\ ToSet(Without(p, R)) = ToSet(p) \ R}
<1>1. <<>> \in S
  <2>1. Without(<<>>, R) = <<>>
    BY WithoutEmpty
  <2>2. <<>> \in Seq(E)
    OBVIOUS
  <2>3. {} = {} \ R
    OBVIOUS
  <2>4. ToSet(Without(<<>>, R)) = ToSet(<<>>) \ R
    BY <2>1, <2>3, ToSetEmpty, Zenon
  <2>5. Without(<<>>, R) \in Seq(E)
    BY <2>1, <2>2, Zenon
  <2>6. QED
    BY <2>2, <2>4, <2>5, Zenon
<1>2. ASSUME NEW p \in Seq(E), NEW x \in E, p \in S
      PROVE  Append(p, x) \in S
  <2>1. Append(p, x) \in Seq(E) /\ ToSet(Append(p, x)) = ToSet(p) \cup {x}
    BY ToSetAppend
  <2>2. Without(Append(p, x), R) =
          IF x \in R THEN Without(p, R) ELSE Append(Without(p, R), x)
    BY WithoutAppend
  <2>3. Without(p, R) \in Seq(E) /\ ToSet(Without(p, R)) = ToSet(p) \ R
    BY <1>2
  <2>4. CASE x \in R
    BY <2>1, <2>2, <2>3, <2>4
  <2>5. CASE x \notin R
    <3>1. Append(Without(p, R), x) \in Seq(E)
      BY <2>3
    <3>2. ToSet(Append(Without(p, R), x)) = ToSet(Without(p, R)) \cup {x}
      BY <2>3, ToSetAppend
    <3>3. QED
      BY <2>1, <2>2, <2>3, <2>5, <3>1, <3>2
  <2>6. QED
    BY <2>4, <2>5
<1>3. q \in S
  <2> HIDE DEF S
  <2> QED
    BY <1>1, <1>2, SeqSetInduction
<1>4. QED
  BY <1>3

\* Leaving out is done part by part.
LEMMA WithoutConcat ==
  ASSUME NEW E, NEW p \in Seq(E), NEW q \in Seq(E), NEW R
  PROVE  Without(p \o q, R) = Without(p, R) \o Without(q, R)
<1> DEFINE S == {r \in Seq(E) : Without(p \o r, R) = Without(p, R) \o Without(r, R)}
<1>1. Without(p, R) \in Seq(E)
  BY WithoutType
<1>2. <<>> \in S
  <2>1. p \o <<>> = p /\ Without(p, R) \o <<>> = Without(p, R)
    BY <1>1
  <2>2. Without(p \o <<>>, R) = Without(p, R) \o Without(<<>>, R)
    BY <2>1, WithoutEmpty, Zenon
  <2>3. QED
    BY <2>2
<1>3. ASSUME NEW r \in Seq(E), NEW x \in E, r \in S
      PROVE  Append(r, x) \in S
  <2>1. p \o r \in Seq(E) /\ p \o Append(r, x) = Append(p \o r, x)
    OBVIOUS
  <2>2. Without(Append(r, x), R) =
          IF x \in R THEN Without(r, R) ELSE Append(Without(r, R), x)
    BY WithoutAppend
  <2>3. Without(Append(p \o r, x), R) =
          IF x \in R THEN Without(p \o r, R) ELSE Append(Without(p \o r, R), x)
    <3>1. PICK z \in Seq(E) : z = p \o r
      BY <2>1
    <3>2. Without(Append(z, x), R) = IF x \in R THEN Without(z, R) ELSE Append(Without(z, R), x)
      BY WithoutAppend
    <3>3. QED
      BY <3>1, <3>2, Zenon
  <2>4. Without(r, R) \in Seq(E)
    BY WithoutType
  <2>5. Without(p, R) \o Append(Without(r, R), x) = Append(Without(p, R) \o Without(r, R), x)
    BY <1>1, <2>4
  <2>6. Without(p \o r, R) = Without(p, R) \o Without(r, R)
    BY <1>3
  <2>7. Without(p \o Append(r, x), R) = Without(p, R) \o Without(Append(r, x), R)
    BY <2>1, <2>2, <2>3, <2>5, <2>6, Zenon
  <2>8. QED
    BY <2>7
<1>4. q \in S
  <2> HIDE DEF S
  <2> QED
    BY <1>2, <1>3, SeqSetInduction
<1>5. QED
  BY <1>4

\* Leaving out twice is leaving out both.
LEMMA WithoutTwice ==
  ASSUME NEW E, NEW q \in Seq(E), NEW R, NEW Q
  PROVE  Without(Without(q, R), Q) = Without(q, R \cup Q)
<1> DEFINE S == {r \in Seq(E) : Without(Without(r, R), Q) = Without(r, R \cup Q)}
<1>1. <<>> \in S
  BY WithoutEmpty
<1>2. ASSUME NEW r \in Seq(E), NEW x \in E, r \in S
      PROVE  Append(r, x) \in S
  <2>1. Without(Append(r, x), R) =
          IF x \in R THEN Without(r, R) ELSE Append(Without(r, R), x)
    BY WithoutAppend
  <2>2. Without(Append(r, x), R \cup Q) =
          IF x \in R \cup Q THEN Without(r, R \cup Q) ELSE Append(Without(r, R \cup Q), x)
    BY WithoutAppend
  <2>3. Without(r, R) \in Seq(E)
    BY WithoutType
  <2>4. Without(Append(Without(r, R), x), Q) =
          IF x \in Q THEN Without(Without(r, R), Q) ELSE Append(Without(Without(r, R), Q), x)
    BY <2>3, WithoutAppend
  <2>5. Without(Without(r, R), Q) = Without(r, R \cup Q)
    BY <1>2
  <2>6. Without(Without(Append(r, x), R), Q) = Without(Append(r, x), R \cup Q)
    BY <2>1, <2>2, <2>4, <2>5
  <2>7. QED
    BY <2>6
<1>3. q \in S
  <2> HIDE DEF S
  <2> QED
    BY <1>1, <1>2, SeqSetInduction
<1>4. QED
  BY <1>3

\* Only members of the sequence matter.
LEMMA WithoutSame ==
  ASSUME NEW E, NEW q \in Seq(E), NEW R, NEW Q, ToSet(q) \cap R = ToSet(q) \cap Q
  PROVE  Without(q, R) = Without(q, Q)
<1> DEFINE S == {r \in Seq(E) : ToSet(r) \cap R = ToSet(r) \cap Q
                                 => Without(r, R) = Without(r, Q)}
<1>1. <<>> \in S
  BY WithoutEmpty
<1>2. ASSUME NEW r \in Seq(E), NEW x \in E, r \in S
      PROVE  Append(r, x) \in S
  <2>1. SUFFICES ASSUME ToSet(Append(r, x)) \cap R = ToSet(Append(r, x)) \cap Q
                 PROVE  Without(Append(r, x), R) = Without(Append(r, x), Q)
    OBVIOUS
  <2>2. ToSet(Append(r, x)) = ToSet(r) \cup {x}
    BY ToSetAppend
  <2>3. ToSet(r) \subseteq ToSet(Append(r, x)) /\ x \in ToSet(Append(r, x))
    BY <2>2
  <2>4. ToSet(r) \cap R = ToSet(r) \cap Q /\ (x \in R <=> x \in Q)
    BY <2>1, <2>3
  <2>5. Without(r, R) = Without(r, Q)
    BY <1>2, <2>4
  <2>6. Without(Append(r, x), R) =
          IF x \in R THEN Without(r, R) ELSE Append(Without(r, R), x)
    BY WithoutAppend
  <2>7. Without(Append(r, x), Q) =
          IF x \in Q THEN Without(r, Q) ELSE Append(Without(r, Q), x)
    BY WithoutAppend
  <2>8. QED
    BY <2>4, <2>5, <2>6, <2>7
<1>3. q \in S
  <2> HIDE DEF S
  <2> QED
    BY <1>1, <1>2, SeqSetInduction
<1>4. QED
  BY <1>3

LEMMA WithoutNothing ==
  ASSUME NEW E, NEW q \in Seq(E)
  PROVE  Without(q, {}) = q
<1> DEFINE S == {r \in Seq(E) : Without(r, {}) = r}
<1>1. <<>> \in S
  BY WithoutEmpty
<1>2. ASSUME NEW r \in Seq(E), NEW x \in E, r \in S
      PROVE  Append(r, x) \in S
  BY <1>2, WithoutAppend
<1>3. q \in S
  <2> HIDE DEF S
  <2> QED
    BY <1>1, <1>2, SeqSetInduction
<1>4. QED
  BY <1>3
\* No member comes twice.
Distinct(q) == \A i, j \in 1..Len(q) : q[i] = q[j] => i = j

LEMMA DistinctAppend ==
  ASSUME NEW E, NEW q \in Seq(E), NEW x \in E
  PROVE  Distinct(Append(q, x)) <=> Distinct(q) /\ x \notin ToSet(q)
<1> DEFINE L == Len(q)
<1>1. L \in Nat /\ Len(Append(q, x)) = L + 1 /\ Append(q, x)[L + 1] = x
      /\ DOMAIN q = 1..L
  OBVIOUS
<1>2. \A i \in 1..L : Append(q, x)[i] = q[i]
  OBVIOUS
<1>3. x \in ToSet(q) <=> \E i \in 1..L : q[i] = x
  BY <1>1 DEF ToSet
<1> HIDE DEF L
<1>4. ASSUME Distinct(Append(q, x))
      PROVE  Distinct(q) /\ x \notin ToSet(q)
  BY <1>1, <1>2, <1>3, <1>4 DEF Distinct, L
<1>5. ASSUME Distinct(q), x \notin ToSet(q)
      PROVE  Distinct(Append(q, x))
  BY <1>1, <1>2, <1>3, <1>5 DEF Distinct, L
<1>6. QED
  BY <1>4, <1>5

LEMMA DistinctWithout ==
  ASSUME NEW E, NEW q \in Seq(E), NEW R, Distinct(q)
  PROVE  Distinct(Without(q, R))
<1> DEFINE S == {r \in Seq(E) : Distinct(r) => Distinct(Without(r, R))}
<1>1. <<>> \in S
  <2>1. Distinct(Without(<<>>, R))
    BY WithoutEmpty DEF Distinct
  <2>2. QED
    BY <2>1
<1>2. ASSUME NEW r \in Seq(E), NEW x \in E, r \in S
      PROVE  Append(r, x) \in S
  <2>1. SUFFICES ASSUME Distinct(Append(r, x))
                 PROVE  Distinct(Without(Append(r, x), R))
    OBVIOUS
  <2>2. Distinct(r) /\ x \notin ToSet(r)
    BY <2>1, DistinctAppend
  <2>3. Distinct(Without(r, R))
    BY <1>2, <2>2
  <2>4. Without(r, R) \in Seq(E) /\ x \notin ToSet(Without(r, R))
    BY <2>2, WithoutType
  <2>5. Distinct(Append(Without(r, R), x))
    BY <2>3, <2>4, DistinctAppend
  <2>6. Without(Append(r, x), R) =
          IF x \in R THEN Without(r, R) ELSE Append(Without(r, R), x)
    BY WithoutAppend
  <2>7. QED
    BY <2>3, <2>5, <2>6
<1>3. q \in S
  <2> HIDE DEF S
  <2> QED
    BY <1>1, <1>2, SeqSetInduction
<1>4. QED
  BY <1>3

\* The parts of a sequence without repetition have no member in common.
LEMMA DistinctApart ==
  ASSUME NEW E, NEW p \in Seq(E), NEW q \in Seq(E), Distinct(p \o q)
  PROVE  ToSet(p) \cap ToSet(q) = {}
<1> SUFFICES ASSUME NEW i \in DOMAIN p, NEW j \in DOMAIN q, p[i] = q[j]
             PROVE  FALSE
  BY DEF ToSet
<1>1. i \in 1..Len(p) /\ j \in 1..Len(q) /\ Len(p) \in Nat /\ Len(q) \in Nat
  OBVIOUS
<1>2. Len(p \o q) = Len(p) + Len(q)
      /\ (p \o q)[i] = p[i] /\ (p \o q)[Len(p) + j] = q[j]
  BY <1>1
<1>3. i \in 1..Len(p \o q) /\ Len(p) + j \in 1..Len(p \o q) /\ i # Len(p) + j
  BY <1>1, <1>2
<1>4. QED
  BY <1>2, <1>3 DEF Distinct

-----------------------------------------------------------------------------
(* Type correctness. *)

LEMMA NextTypeOK == TypeOK /\ [Next]_vars => TypeOK'
<1> SUFFICES ASSUME TypeOK, [Next]_vars
             PROVE  TypeOK'
  OBVIOUS
<1> USE DEF TypeOK
<1>1. CASE LockToQueue
  BY <1>1 DEF LockToQueue
<1>2. ASSUME NEW r \in Req, Push(r)
      PROVE  TypeOK'
  BY <1>2 DEF Push
<1>3. CASE NotifyQueued
  BY <1>3 DEF NotifyQueued, notify_all
<1>4. CASE UnlockQueued
  BY <1>4 DEF UnlockQueued
<1>5. CASE removeRequests
  <2>1. requestQueue' \in Seq(Req)
    <3>1. Kept(requestQueue) \in Seq(Req)
      BY WithoutType DEF Kept
    <3>2. QED
      BY <1>5, <3>1 DEF removeRequests
  <2>2. removed' \subseteq Proxy
    BY <1>5 DEF removeRequests, Dropped
  <2>3. QED
    BY <1>5, <2>1, <2>2 DEF removeRequests
<1>6. CASE Terminate
  BY <1>6 DEF Terminate
<1>7. CASE NotifyTerminated
  BY <1>7 DEF NotifyTerminated, notify_all
<1>8. CASE Join
  BY <1>8 DEF Join
<1>9. CASE Test
  BY <1>9 DEF Test
<1>10. CASE Lock
  BY <1>10 DEF Lock
<1>11. CASE Take
  <2>1. CASE requestQueue = <<>>
    BY <1>11, <2>1 DEF Take
  <2>2. CASE requestQueue # <<>>
    <3>1. Head(requestQueue) \in Req /\ Tail(requestQueue) \in Seq(Req)
      BY <2>2
    <3>2. <<Head(requestQueue)>> \in Seq(Req)
      BY <3>1
    <3>3. job' \in Seq(Req) /\ requestQueue' \in Seq(Req) /\ worker' = "performing"
      BY <1>11, <2>2, <3>1, <3>2 DEF Take
    <3>4. UNCHANGED <<made, performed, removed, terminateThread, waitLock, loop>>
      BY <1>11 DEF Take
    <3>5. QED
      BY <3>3, <3>4
  <2>3. QED
    BY <2>1, <2>2
<1>12. CASE Perform
  BY <1>12 DEF Perform
<1>13. CASE Wait
  BY <1>13 DEF Wait
<1>14. CASE Wake
  BY <1>14 DEF Wake
<1>15. CASE WakeSpuriously
  BY <1>15 DEF WakeSpuriously
<1>16. CASE UNCHANGED vars
  BY <1>16 DEF vars
<1>17. QED
  BY <1>1, <1>2, <1>3, <1>4, <1>5, <1>6, <1>7, <1>8, <1>9, <1>10, <1>11, <1>12,
     <1>13, <1>14, <1>15, <1>16 DEF Next, LoopStep, LoopCall, WorkerStep

\* The variables keep their types, and only requests that removeRequests is
\* called for are removed (removeRequests).
THEOREM TypeCorrect == Spec => []TypeOK
<1>1. Init => TypeOK
  <2>1. <<>> \in Seq(Req)
    OBVIOUS
  <2>2. QED
    BY <2>1 DEF Init, TypeOK
<1>2. QED
  BY <1>1, NextTypeOK, PTL DEF Spec
-----------------------------------------------------------------------------
(* Mutual exclusion. *)

LEMMA NextLockIsHeld == TypeOK /\ LockIsHeld /\ [Next]_vars => LockIsHeld'
<1> SUFFICES ASSUME TypeOK, LockIsHeld, [Next]_vars
             PROVE  LockIsHeld'
  OBVIOUS
<1>0. waitLock \in {"free", "worker", "loop"}
  BY DEF TypeOK
<1> USE DEF LockIsHeld
<1>1. CASE LoopStep
  <2>1. ASSUME NEW r \in Req, Push(r)
        PROVE  LockIsHeld'
    BY <2>1 DEF Push
  <2>2. CASE NotifyQueued \/ UnlockQueued
    BY <1>0, <2>2 DEF NotifyQueued, UnlockQueued, notify_all
  <2>3. CASE NotifyTerminated \/ Join
    BY <2>3 DEF NotifyTerminated, Join, notify_all
  <2>4. QED
    BY <1>1, <2>1, <2>2, <2>3 DEF LoopStep
<1>2. CASE LoopCall
  BY <1>0, <1>2 DEF LoopCall, LockToQueue, removeRequests, Terminate
<1>3. CASE WorkerStep
  BY <1>0, <1>3 DEF WorkerStep, Test, Lock, Take, Perform, Wait, Wake
<1>4. CASE WakeSpuriously
  BY <1>4 DEF WakeSpuriously
<1>5. CASE UNCHANGED vars
  BY <1>5 DEF vars
<1>6. QED
  BY <1>1, <1>2, <1>3, <1>4, <1>5 DEF Next

\* The lock is held exactly by the thread between its lock and its unlock, so
\* the two threads are never both there (waitLock).
THEOREM LockHeld == Spec => []LockIsHeld
<1>1. Init => LockIsHeld
  BY DEF Init, LockIsHeld
<1>2. QED
  BY <1>1, TypeCorrect, NextLockIsHeld, PTL DEF Spec

-----------------------------------------------------------------------------
(* No request is slept over. *)

LEMMA NextSleepsOnlyWhenIdle ==
  LockIsHeld /\ SleepsOnlyWhenIdle /\ [Next]_vars => SleepsOnlyWhenIdle'
<1> SUFFICES ASSUME LockIsHeld, SleepsOnlyWhenIdle, [Next]_vars
             PROVE  SleepsOnlyWhenIdle'
  OBVIOUS
<1> USE DEF SleepsOnlyWhenIdle
<1>1. CASE LoopStep
  \* Push finds the lock with the loop, so the request thread is not at "empty".
  <2>1. ASSUME NEW r \in Req, Push(r)
        PROVE  SleepsOnlyWhenIdle'
    BY <2>1 DEF Push, LockIsHeld
  <2>2. CASE NotifyQueued \/ UnlockQueued
    BY <2>2 DEF NotifyQueued, UnlockQueued, notify_all
  <2>3. CASE NotifyTerminated \/ Join
    BY <2>3 DEF NotifyTerminated, Join, notify_all
  <2>4. QED
    BY <1>1, <2>1, <2>2, <2>3 DEF LoopStep
<1>2. CASE LoopCall
  <2>1. Kept(<<>>) = <<>>
    BY WithoutEmpty DEF Kept
  <2>2. CASE removeRequests
    BY <2>1, <2>2 DEF removeRequests
  <2>3. CASE LockToQueue \/ Terminate
    BY <2>3 DEF LockToQueue, Terminate
  <2>4. QED
    BY <1>2, <2>2, <2>3 DEF LoopCall
<1>3. CASE WorkerStep
  BY <1>3 DEF WorkerStep, Test, Lock, Take, Perform, Wait, Wake
<1>4. CASE WakeSpuriously
  BY <1>4 DEF WakeSpuriously
<1>5. CASE UNCHANGED vars
  BY <1>5 DEF vars
<1>6. QED
  BY <1>1, <1>2, <1>3, <1>4, <1>5 DEF Next

\* The request thread never sleeps over a request whose notification is not
\* still to come (queueRequest, processRequests).
THEOREM NoLostWakeup == Spec => []SleepsOnlyWhenIdle
<1>1. Init => SleepsOnlyWhenIdle
  BY DEF Init, SleepsOnlyWhenIdle
<1>2. QED
  BY <1>1, LockHeld, NextSleepsOnlyWhenIdle, PTL DEF Spec

-----------------------------------------------------------------------------
(* The order of the requests. *)

\* Requests are made once, so what was performed is not removed afterwards.
MadeOnce ==
  /\ Distinct(made)
  /\ removed \subseteq ToSet(made)
  /\ worker # "performing" => job = <<>>

LEMMA RemoveInOrder ==
  ASSUME TypeOK, MadeOnce, ServedInOrder, removeRequests
  PROVE  MadeOnce' /\ ServedInOrder'
<1> DEFINE done == performed \o job
           gone == Dropped(requestQueue)
<1>1. made \in Seq(Req) /\ done \in Seq(Req) /\ requestQueue \in Seq(Req)
  BY DEF TypeOK
<1>2. Without(made, removed) = done \o requestQueue
  <2>1. performed \o job \o requestQueue = done \o requestQueue
    OBVIOUS
  <2>2. QED
    BY <2>1 DEF ServedInOrder
<1>3. gone = ToSet(requestQueue) \cap Proxy
  BY DEF Dropped
<1>4. ToSet(done) \cap ToSet(requestQueue) = {}
  <2>1. Distinct(done \o requestQueue)
    BY <1>1, <1>2, DistinctWithout DEF MadeOnce
  <2> HIDE DEF done
  <2>2. QED
    BY <1>1, <2>1, DistinctApart
<1> HIDE DEF done, gone
<1>5. Without(done, gone) = done
  <2>1. ToSet(done) \cap gone = ToSet(done) \cap {}
    BY <1>3, <1>4
  <2>2. Without(done, gone) = Without(done, {})
    BY <1>1, <2>1, WithoutSame
  <2>3. QED
    BY <1>1, <2>2, WithoutNothing
<1>6. Without(requestQueue, gone) = Without(requestQueue, Proxy)
  <2>1. ToSet(requestQueue) \cap gone = ToSet(requestQueue) \cap Proxy
    BY <1>3
  <2>2. QED
    BY <1>1, <2>1, WithoutSame
<1>7. Without(made, removed \cup gone) = done \o Kept(requestQueue)
  <2>1. Without(made, removed \cup gone) = Without(done \o requestQueue, gone)
    <3>1. Without(Without(made, removed), gone) = Without(made, removed \cup gone)
      BY <1>1, WithoutTwice
    <3>2. QED
      BY <1>2, <3>1, Zenon
  <2>2. Without(done \o requestQueue, gone)
          = Without(done, gone) \o Without(requestQueue, gone)
    BY <1>1, WithoutConcat
  <2>3. QED
    BY <1>5, <1>6, <2>1, <2>2 DEF Kept
<1>8. /\ requestQueue' = Kept(requestQueue) /\ removed' = removed \cup gone
      /\ UNCHANGED <<made, performed, job, worker>>
  BY DEF removeRequests, gone
<1>9. ServedInOrder'
  BY <1>7, <1>8 DEF ServedInOrder, done
<1>10. gone \subseteq ToSet(made)
  <2>1. ToSet(done \o requestQueue) = ToSet(made) \ removed
    BY <1>1, <1>2, WithoutType
  <2>2. ToSet(requestQueue) \subseteq ToSet(done \o requestQueue)
    <3>1. SUFFICES ASSUME NEW i \in DOMAIN requestQueue
                   PROVE  requestQueue[i] \in ToSet(done \o requestQueue)
      BY DEF ToSet
    <3>2. Len(done) + i \in DOMAIN (done \o requestQueue)
          /\ (done \o requestQueue)[Len(done) + i] = requestQueue[i]
      BY <1>1
    <3>3. QED
      BY <3>2 DEF ToSet
  <2>3. QED
    BY <1>3, <2>1, <2>2
<1>11. MadeOnce'
  BY <1>8, <1>10 DEF MadeOnce
<1>12. QED
  BY <1>9, <1>11

LEMMA PushInOrder ==
  ASSUME TypeOK, MadeOnce, ServedInOrder, NEW r \in Req, Push(r)
  PROVE  MadeOnce' /\ ServedInOrder'
<1>1. /\ made \in Seq(Req) /\ requestQueue \in Seq(Req)
      /\ performed \in Seq(Req) /\ job \in Seq(Req)
  BY DEF TypeOK
<1>2. /\ r \notin ToSet(made)
      /\ made' = Append(made, r) /\ requestQueue' = Append(requestQueue, r)
      /\ UNCHANGED <<performed, removed, job, worker>>
  BY DEF Push
<1>3. r \notin removed
  BY <1>2 DEF MadeOnce
<1>4. Without(Append(made, r), removed) = Append(Without(made, removed), r)
  BY <1>1, <1>3, WithoutAppend
<1>5. Append(performed \o job \o requestQueue, r) = performed \o job \o Append(requestQueue, r)
  <2> DEFINE done == performed \o job
  <2>1. done \in Seq(Req)
    BY <1>1
  <2> HIDE DEF done
  <2>2. Append(done \o requestQueue, r) = done \o Append(requestQueue, r)
    <3>1. \A p, q \in Seq(Req) : Append(p \o q, r) = p \o Append(q, r)
      OBVIOUS
    <3>2. QED
      BY <1>1, <2>1, <3>1, Zenon
  <2>3. QED
    BY <2>2 DEF done
<1>6. ServedInOrder'
  BY <1>2, <1>4, <1>5 DEF ServedInOrder
<1>7. Distinct(Append(made, r)) /\ ToSet(Append(made, r)) = ToSet(made) \cup {r}
  BY <1>1, <1>2, DistinctAppend, ToSetAppend DEF MadeOnce
<1>8. MadeOnce'
  BY <1>2, <1>7 DEF MadeOnce
<1>9. QED
  BY <1>6, <1>8

LEMMA TakeInOrder ==
  ASSUME TypeOK, MadeOnce, ServedInOrder, Take
  PROVE  MadeOnce' /\ ServedInOrder'
<1>1. requestQueue \in Seq(Req) /\ performed \in Seq(Req) /\ job = <<>>
  BY DEF TypeOK, MadeOnce, Take
<1>2. CASE requestQueue = <<>>
  BY <1>1, <1>2 DEF Take, MadeOnce, ServedInOrder
<1>3. CASE requestQueue # <<>>
  <2>1. /\ job' = <<Head(requestQueue)>> /\ requestQueue' = Tail(requestQueue)
        /\ worker' = "performing"
        /\ UNCHANGED <<made, performed, removed>>
    BY <1>3 DEF Take
  <2>2. performed \o <<>> \o requestQueue
          = performed \o <<Head(requestQueue)>> \o Tail(requestQueue)
    BY <1>1, <1>3
  <2>3. ServedInOrder'
    BY <1>1, <2>1, <2>2 DEF ServedInOrder
  <2>4. MadeOnce'
    BY <2>1 DEF MadeOnce
  <2>5. QED
    BY <2>3, <2>4
<1>4. QED
  BY <1>2, <1>3

LEMMA PerformInOrder ==
  ASSUME TypeOK, MadeOnce, ServedInOrder, Perform
  PROVE  MadeOnce' /\ ServedInOrder'
<1>1. performed \o job \o requestQueue = (performed \o job) \o <<>> \o requestQueue
  BY DEF TypeOK
<1>2. QED
  BY <1>1 DEF Perform, MadeOnce, ServedInOrder

LEMMA NextInOrder ==
  TypeOK /\ LockIsHeld /\ MadeOnce /\ ServedInOrder /\ [Next]_vars
    => MadeOnce' /\ ServedInOrder'
<1> SUFFICES ASSUME TypeOK, LockIsHeld, MadeOnce, ServedInOrder, [Next]_vars
             PROVE  MadeOnce' /\ ServedInOrder'
  OBVIOUS
<1>1. ASSUME UNCHANGED <<made, requestQueue, performed, removed, job>>,
             worker # "performing", worker' # "performing" \/ UNCHANGED worker
      PROVE  MadeOnce' /\ ServedInOrder'
  BY <1>1 DEF MadeOnce, ServedInOrder
<1>2. ASSUME UNCHANGED <<made, requestQueue, performed, removed, job>>,
             worker' = worker
      PROVE  MadeOnce' /\ ServedInOrder'
  BY <1>2 DEF MadeOnce, ServedInOrder
<1>3. CASE NotifyQueued \/ NotifyTerminated
  BY <1>1, <1>2, <1>3 DEF NotifyQueued, NotifyTerminated, notify_all
<1>4. CASE UnlockQueued \/ Join \/ LockToQueue \/ Terminate
  BY <1>2, <1>4 DEF UnlockQueued, Join, LockToQueue, Terminate
<1>5. CASE Test \/ Lock \/ Wait \/ Wake \/ WakeSpuriously
  BY <1>1, <1>5 DEF Test, Lock, Wait, Wake, WakeSpuriously
<1>6. CASE UNCHANGED vars
  BY <1>2, <1>6 DEF vars
<1>7. QED
  BY <1>3, <1>4, <1>5, <1>6, RemoveInOrder, PushInOrder, TakeInOrder, PerformInOrder
     DEF Next, LoopStep, LoopCall, WorkerStep

\* Requests are performed in the order in which they were made, each once, but
\* for those removed before their turn (queueRequest, removeRequests, Take).
THEOREM InOrder == Spec => []ServedInOrder
<1>1. Init => MadeOnce /\ ServedInOrder
  <2>1. Without(<<>>, {}) = <<>> /\ Distinct(<<>>)
    BY WithoutEmpty DEF Distinct
  <2>2. <<>> \o <<>> \o <<>> = <<>>
    OBVIOUS
  <2>3. QED
    BY <2>1, <2>2 DEF Init, MadeOnce, ServedInOrder
<1>2. Spec => [](MadeOnce /\ ServedInOrder)
  BY <1>1, TypeCorrect, LockHeld, NextInOrder, PTL DEF Spec
<1>3. QED
  BY <1>2, PTL
=============================================================================
