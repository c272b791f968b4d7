---------------------------- MODULE OrderLemmas ----------------------------
(***************************************************************************)
(* Least and greatest members, and induction on numbers and sequences in   *)
(* the form of statements about sets, which the provers can instantiate.   *)
(***************************************************************************)
EXTENDS Integers, Sequences, FiniteSets, WellFoundedInduction, FiniteSetTheorems, TLAPS

\* Some member of a nonempty family of subsets of a finite set has no other
\* member inside it.
LEMMA SmallestMember ==
  ASSUME NEW D, IsFiniteSet(D), NEW F, F \subseteq SUBSET D, F # {}
  PROVE  \E X \in F : \A Y \in F : Y \subseteq X => Y = X
<1> DEFINE R == StrictSubsetOrdering(D)
<1>1. IsWellFoundedOn(R, SUBSET D)
  BY FS_FiniteSubsetsOfFinite, FS_StrictSubsetOrderingWellFounded
<1> HIDE DEF R
<1>2. PICK X \in F : \A Y \in F : ~(<<Y, X>> \in R)
  BY <1>1, WFMin
<1>3. ASSUME NEW Y \in F, Y \subseteq X, Y # X
      PROVE  FALSE
  <2>1. <<Y, X>> \in R
    BY <1>3 DEF R, StrictSubsetOrdering
  <2>2. QED
    BY <1>2, <2>1
<1>4. \A Y \in F : Y \subseteq X => Y = X
  BY <1>3, Zenon
<1>5. QED
  BY <1>4, Zenon

\* A nonempty finite set has a maximal element of any strict order R.
LEMMA MaximalExists ==
  ASSUME NEW S, IsFiniteSet(S), S # {}, NEW R,
         \A x \in S : <<x, x>> \notin R,
         \A x, y, z \in S : <<x, y>> \in R /\ <<y, z>> \in R => <<x, z>> \in R
  PROVE  \E k \in S : \A j \in S : <<k, j>> \notin R
<1> DEFINE Above(k) == {j \in S : j = k \/ <<k, j>> \in R}
           F == {U \in SUBSET S : \E k \in S : U = Above(k)}
<1>1. F # {}
  <2>1. PICK k \in S : TRUE
    OBVIOUS
  <2>2. Above(k) \in F
    OBVIOUS
  <2>3. QED
    BY <2>2
<1>2. F \subseteq SUBSET S
  OBVIOUS
<1>3. PICK U \in F : \A V \in F : V \subseteq U => V = U
  <2> HIDE DEF F
  <2> QED
    BY <1>1, <1>2, SmallestMember
<1>4. PICK k \in S : U = Above(k)
  OBVIOUS
<1>5. ASSUME NEW j \in S, <<k, j>> \in R
      PROVE  FALSE
  <2>1. Above(j) \subseteq Above(k)
    BY <1>5
  <2>2. k \in Above(k) /\ k \notin Above(j)
    BY <1>5
  <2>3. Above(j) \subseteq U /\ Above(j) # U
    BY <1>4, <2>1, <2>2
  <2>4. Above(j) \in F
    OBVIOUS
  <2>5. QED
    BY <1>3, <2>3, <2>4
<1>6. QED
  BY <1>5

\* A nonempty set of numbers has a least one.
LEMMA LeastNat ==
  ASSUME NEW S \in SUBSET Nat, S # {}
  PROVE  \E k \in S : \A j \in S : k <= j
<1>1. PICK m \in S : TRUE
  OBVIOUS
<1> DEFINE T == {j \in S : j <= m}
           R == {e \in Nat \X Nat : e[2] < e[1]}
<1>2. m \in Nat /\ T \subseteq 0..m /\ m \in T
  <2>1. m \in Nat
    OBVIOUS
  <2>2. \A j \in T : j \in Nat /\ j <= m
    OBVIOUS
  <2>3. m <= m
    BY <2>1
  <2>4. m \in T
    BY <2>3
  <2>5. T \subseteq 0..m
    <3>1. \A j \in T : j \in 0..m
      BY <2>1, <2>2
    <3>2. QED
      BY <3>1, Zenon
  <2>6. QED
    BY <2>1, <2>4, <2>5
<1>3. IsFiniteSet(T)
  <2>1. IsFiniteSet(0..m)
    BY <1>2, FS_Interval
  <2>2. QED
    BY <1>2, <2>1, FS_Subset, Zenon
<1>4. \A x \in T : <<x, x>> \notin R
  OBVIOUS
<1>5. \A x, y, z \in T : <<x, y>> \in R /\ <<y, z>> \in R => <<x, z>> \in R
  OBVIOUS
<1>6. \E k \in T : \A j \in T : <<k, j>> \notin R
  <2> HIDE DEF R, T
  <2> QED
    BY <1>2, <1>3, <1>4, <1>5, MaximalExists, Zenon
<1>7. PICK k \in T : \A j \in T : <<k, j>> \notin R
  BY <1>6
<1>8. \A j \in S : k <= j
  <2> SUFFICES ASSUME NEW j \in S, j < k
               PROVE  FALSE
    OBVIOUS
  <2>1. j \in T /\ <<k, j>> \in R
    OBVIOUS
  <2>2. QED
    BY <1>7, <2>1
<1>9. QED
  BY <1>8

\* Numbers up to L that include 0 and every successor up to L are all of them.
LEMMA UpTo ==
  ASSUME NEW L \in Nat, NEW S, 0 \in S,
         \A n \in 1..L : n - 1 \in S => n \in S
  PROVE  0..L \subseteq S
<1> SUFFICES ASSUME ~(0..L \subseteq S)
             PROVE  FALSE
  OBVIOUS
<1> DEFINE Out == {n \in 0..L : n \notin S}
<1>1. Out \in SUBSET Nat /\ Out # {}
  OBVIOUS
<1>2. PICK k \in Out : \A j \in Out : k <= j
  <2> HIDE DEF Out
  <2> QED
    BY <1>1, LeastNat
<1>3. k \in 1..L /\ k - 1 \in 0..L
  OBVIOUS
<1>4. k - 1 \notin Out
  BY <1>2, <1>3
<1>5. QED
  BY <1>3, <1>4

\* Sequences that include the empty one and every extension are all of them.
LEMMA SeqSetInduction ==
  ASSUME NEW E, NEW S, <<>> \in S,
         \A q \in Seq(E) : \A x \in E : q \in S => Append(q, x) \in S
  PROVE  Seq(E) \subseteq S
<1> SUFFICES ASSUME NEW q \in Seq(E)
             PROVE  q \in S
  OBVIOUS
<1> DEFINE L == Len(q)
           T == {n \in 0..L : SubSeq(q, 1, n) \in S}
<1>1. L \in Nat
  OBVIOUS
<1>2. 0 \in T
  <2>1. SubSeq(q, 1, 0) = <<>>
    OBVIOUS
  <2>2. 0 \in 0..L
    BY <1>1
  <2>3. SubSeq(q, 1, 0) \in S
    BY <2>1, Zenon
  <2>4. QED
    BY <2>2, <2>3
<1>3. ASSUME NEW n \in 1..L, n - 1 \in T
      PROVE  n \in T
  <2>1. SubSeq(q, 1, n) = Append(SubSeq(q, 1, n - 1), q[n])
    OBVIOUS
  <2>2. SubSeq(q, 1, n - 1) \in Seq(E) /\ q[n] \in E
    OBVIOUS
  <2>3. SubSeq(q, 1, n - 1) \in S
    BY <1>3
  <2>4. SubSeq(q, 1, n) \in S
    BY <2>1, <2>2, <2>3, Zenon
  <2>5. n \in 0..L
    BY <1>1
  <2>6. QED
    BY <2>4, <2>5
<1>4. 0..L \subseteq T
  <2> HIDE DEF T, L
  <2> QED
    BY <1>1, <1>2, <1>3, UpTo
<1>5. SubSeq(q, 1, L) = q
  OBVIOUS
<1>6. L \in T
  BY <1>1, <1>4
<1>7. QED
  BY <1>5, <1>6

\* What a function on 0..n that is defined by recursion needs, and is.
RecursionIs(n, V, first, step) == n \in Nat /\ first \in V /\ step \in [(1..n) \X V -> V]
Recurs(f, n, V, first, step) ==
  f \in [0..n -> V] /\ f[0] = first /\ \A i \in 1..n : f[i] = step[<<i, f[i - 1]>>]

LEMMA RecursionExists ==
  ASSUME NEW n, NEW V, NEW first, NEW step, RecursionIs(n, V, first, step)
  PROVE  \E f : Recurs(f, n, V, first, step)
<1> DEFINE Good(f, m) == f[0] = first /\ \A i \in 1..m : f[i] = step[<<i, f[i - 1]>>]
           S == {m \in 0..n : \E f \in [0..m -> V] : Good(f, m)}
<1>0. n \in Nat /\ first \in V /\ step \in [(1..n) \X V -> V]
  BY DEF RecursionIs
<1>1. 0 \in S
  <2> DEFINE f == [i \in 0..0 |-> first]
  <2>1. f \in [0..0 -> V] /\ f[0] = first
    BY <1>0
  <2> HIDE DEF f
  <2>2. Good(f, 0)
    BY <2>1
  <2>3. 0 \in 0..n
    BY <1>0
  <2> HIDE DEF Good
  <2>4. QED
    BY <2>1, <2>2, <2>3
<1>2. ASSUME NEW m \in 1..n, m - 1 \in S
      PROVE  m \in S
  <2>1. PICK f \in [0..(m - 1) -> V] : Good(f, m - 1)
    BY <1>2
  <2>2. m - 1 \in 0..(m - 1) /\ f[m - 1] \in V
    BY <1>0
  <2>3. PICK v \in V : v = step[<<m, f[m - 1]>>]
    BY <1>0, <2>2
  <2> DEFINE g == [i \in 0..m |-> IF i = m THEN v ELSE f[i]]
  <2>4. g \in [0..m -> V] /\ g[m] = v /\ \A i \in 0..(m - 1) : g[i] = f[i]
    BY <1>0
  <2> HIDE DEF g
  <2>5. ASSUME NEW i \in 1..m
        PROVE  g[i] = step[<<i, g[i - 1]>>]
    <3>1. i - 1 \in 0..(m - 1) /\ g[i - 1] = f[i - 1]
      BY <2>4
    <3>2. CASE i = m
      BY <2>3, <2>4, <3>1, <3>2
    <3>3. CASE i # m
      <4>1. i \in 1..(m - 1) /\ i \in 0..(m - 1)
        BY <3>3
      <4>2. QED
        BY <2>1, <2>4, <3>1, <4>1
    <3>4. QED
      BY <3>2, <3>3
  <2>6. Good(g, m)
    BY <2>1, <2>4, <2>5
  <2>7. QED
    BY <2>4, <2>6
<1>3. n \in S
  <2> HIDE DEF S
  <2> QED
    BY <1>0, <1>1, <1>2, UpTo
<1>4. QED
  BY <1>3 DEF Recurs
=============================================================================
