-------------------------- MODULE TransportProofs --------------------------
(***************************************************************************)
(* Proofs about Transport, for any sockets, messages and scripts.          *)
(***************************************************************************)
EXTENDS Transport, OrderLemmas, FiniteSetTheorems, SequenceTheorems, TLAPS

-----------------------------------------------------------------------------
(* Sequences whose elements are of no particular kind. *)

IsSeq(q) == \E S : q \in Seq(S)

LEMMA SeqFacts ==
  ASSUME NEW q, IsSeq(q)
  PROVE  Len(q) \in Nat /\ DOMAIN q = 1..Len(q) /\ (q = <<>> <=> Len(q) = 0)
BY DEF IsSeq

LEMMA EmptyIsSeq == IsSeq(<<>>)
<1>1. <<>> \in Seq({})
  OBVIOUS
<1>2. QED
  BY <1>1, Zenon DEF IsSeq

\* Seq is monotone.
LEMMA SeqIn ==
  ASSUME NEW S, NEW T, S \subseteq T, NEW q \in Seq(S)
  PROVE  q \in Seq(T)
OBVIOUS

\* a is q and, at its end, m.
Appended(a, q, m) == a = Append(q, m)

LEMMA AppendFacts ==
  ASSUME NEW q, IsSeq(q), NEW m, NEW a, Appended(a, q, m)
  PROVE  /\ IsSeq(a) /\ Len(a) = Len(q) + 1
         /\ a[Len(q) + 1] = m
         /\ \A i \in 1..Len(q) : a[i] = q[i]
<1>1. PICK S : q \in Seq(S)
  BY DEF IsSeq
<1>2. q \in Seq(S \cup {m}) /\ m \in S \cup {m}
  BY <1>1, SeqIn
<1>3. a \in Seq(S \cup {m}) /\ Len(a) = Len(q) + 1 /\ a[Len(q) + 1] = m
      /\ \A i \in 1..Len(q) : a[i] = q[i]
  BY <1>2 DEF Appended
<1>4. IsSeq(a)
  BY <1>3, Zenon DEF IsSeq
<1>5. QED
  BY <1>1, <1>3, <1>4

Joined(a, q, r) == a = q \o r

LEMMA ConcatFacts ==
  ASSUME NEW q, IsSeq(q), NEW r, IsSeq(r), NEW a, Joined(a, q, r)
  PROVE  /\ IsSeq(a) /\ Len(a) = Len(q) + Len(r)
         /\ \A i \in 1..Len(q) : a[i] = q[i]
         /\ \A i \in 1..Len(r) : a[Len(q) + i] = r[i]
<1>1. PICK S : q \in Seq(S)
  BY DEF IsSeq
<1>2. PICK T : r \in Seq(T)
  BY DEF IsSeq
<1>3. q \in Seq(S \cup T) /\ r \in Seq(S \cup T)
  BY <1>1, <1>2, SeqIn
<1>4. a \in Seq(S \cup T) /\ Len(a) = Len(q) + Len(r)
      /\ (\A i \in 1..Len(q) : a[i] = q[i])
      /\ \A i \in 1..Len(r) : a[Len(q) + i] = r[i]
  BY <1>3 DEF Joined
<1>5. IsSeq(a)
  BY <1>4, Zenon DEF IsSeq
<1>6. QED
  BY <1>4, <1>5

\* t is q without its first.
IsTail(t, q) == t = Tail(q)

LEMMA TailFacts ==
  ASSUME NEW q, IsSeq(q), q # <<>>, NEW t, IsTail(t, q)
  PROVE  /\ IsSeq(t) /\ Len(t) = Len(q) - 1 /\ Len(q) >= 1
         /\ \A i \in 1..Len(t) : t[i] = q[i + 1]
<1>1. PICK S : q \in Seq(S)
  BY DEF IsSeq
<1>2. t \in Seq(S) /\ Len(t) = Len(q) - 1 /\ Len(q) >= 1
      /\ \A i \in 1..Len(t) : t[i] = q[i + 1]
  BY <1>1 DEF IsTail
<1>3. IsSeq(t)
  BY <1>2, Zenon DEF IsSeq
<1>4. QED
  BY <1>2, <1>3

LEMMA SingleFacts ==
  ASSUME NEW x
  PROVE  IsSeq(<<x>>) /\ Len(<<x>>) = 1 /\ <<x>>[1] = x /\ <<x>> = Append(<<>>, x)
<1>1. <<x>> \in Seq({x})
  OBVIOUS
<1>2. IsSeq(<<x>>)
  BY <1>1, Zenon DEF IsSeq
<1>3. QED
  BY <1>2

\* A sequence of which another is the beginning.
LEMMA PrefixFacts ==
  ASSUME NEW q, IsSeq(q), NEW a, IsSeq(a), Len(q) <= Len(a),
         \A i \in 1..Len(q) : a[i] = q[i]
  PROVE  IsPrefix(q, a)
<1>1. Len(q) \in Nat /\ Len(a) \in Nat /\ DOMAIN q = 1..Len(q) /\ DOMAIN a = 1..Len(a)
  BY SeqFacts
<1>2. SubSeq(q, 1, Len(q)) = SubSeq(a, 1, Len(q))
  <2>1. PICK S : q \in Seq(S)
    BY DEF IsSeq
  <2>2. PICK T : a \in Seq(T)
    BY DEF IsSeq
  <2>3. q \in Seq(S \cup T) /\ a \in Seq(S \cup T)
    BY <2>1, <2>2, SeqIn
  <2>4. QED
    BY <1>1, <2>3
<1>3. QED
  BY <1>2 DEF IsPrefix

LEMMA PartFacts ==
  ASSUME NEW m, NEW from \in Int, NEW k \in Nat, NEW p, p = Part(m, from, k)
  PROVE  IsSeq(p) /\ Len(p) = k /\ \A i \in 1..k : p[i] = <<m, from + i - 1>>
<1>1. p = [i \in 1..k |-> <<m, from + i - 1>>]
  BY DEF Part
<1> DEFINE S == {<<m, from + i - 1>> : i \in 1..k}
<1>2. p \in [1..k -> S]
  BY <1>1
<1>3. p \in Seq(S) /\ Len(p) = k
  <2> HIDE DEF S
  <2> QED
    BY <1>2, SeqDef
<1>4. IsSeq(p)
  BY <1>3, Zenon DEF IsSeq
<1>5. QED
  BY <1>1, <1>3, <1>4

-----------------------------------------------------------------------------
(* What goes out. *)

\* W is the beginning of the halves of the messages T.
Goes(T, W) ==
  /\ Len(W) <= 2 * Len(T)
  /\ \A i \in 1..Len(W) : W[i] = <<T[(i + 1) \div 2], 2 - (i % 2)>>

LEMMA HalfFacts ==
  ASSUME NEW n \in Nat
  PROVE  /\ (2 * n + 2) \div 2 = n + 1 /\ (2 * n + 3) \div 2 = n + 1
         /\ (2 * n + 1) % 2 = 1 /\ (2 * n + 2) % 2 = 0
OBVIOUS

LEMMA HalfBound ==
  ASSUME NEW n \in Nat, NEW i \in 1..(2 * n)
  PROVE  (i + 1) \div 2 \in 1..n
OBVIOUS

\* One more message is taken.
LEMMA GoesOn ==
  ASSUME NEW T, IsSeq(T), NEW W, IsSeq(W), Goes(T, W), NEW m, NEW U, Appended(U, T, m)
  PROVE  Goes(U, W)
<1>1. /\ Len(T) \in Nat /\ Len(W) \in Nat /\ Len(U) = Len(T) + 1
      /\ \A i \in 1..Len(T) : U[i] = T[i]
  BY SeqFacts, AppendFacts
<1>2. ASSUME NEW i \in 1..Len(W)
      PROVE  W[i] = <<U[(i + 1) \div 2], 2 - (i % 2)>>
  <2>1. i \in 1..(2 * Len(T))
    BY <1>1 DEF Goes
  <2>2. (i + 1) \div 2 \in 1..Len(T)
    BY <1>1, <2>1, HalfBound
  <2>3. U[(i + 1) \div 2] = T[(i + 1) \div 2]
    BY <1>1, <2>2
  <2>4. QED
    BY <2>3 DEF Goes
<1>3. QED
  BY <1>1, <1>2 DEF Goes

\* V is W and k halves of m.
AddsHalves(V, W, m, from, k) ==
  /\ IsSeq(V) /\ Len(V) = Len(W) + k
  /\ \A i \in 1..Len(W) : V[i] = W[i]
  /\ \A i \in 1..k : V[Len(W) + i] = <<m, from + i - 1>>

LEMMA ConcatPart ==
  ASSUME NEW W, IsSeq(W), NEW m, NEW from \in Int, NEW k \in Nat,
         NEW V, Joined(V, W, Part(m, from, k))
  PROVE  AddsHalves(V, W, m, from, k)
<1>1. PICK p : p = Part(m, from, k)
  OBVIOUS
<1>2. IsSeq(p) /\ Len(p) = k /\ \A i \in 1..k : p[i] = <<m, from + i - 1>>
  BY <1>1, PartFacts
<1>3. Joined(V, W, p)
  BY <1>1
<1>4. IsSeq(V) /\ Len(V) = Len(W) + Len(p)
  BY <1>2, <1>3, ConcatFacts
<1>5. \A i \in 1..Len(W) : V[i] = W[i]
  BY <1>2, <1>3, ConcatFacts
<1>6. \A i \in 1..Len(p) : V[Len(W) + i] = p[i]
  <2>1. Len(W) \in Nat /\ Len(p) \in Nat /\ IsSeq(p)
    BY <1>2, SeqFacts
  <2>2. QED
    BY <1>3, <2>1, ConcatFacts
<1>7. QED
  BY <1>2, <1>4, <1>5, <1>6 DEF AddsHalves

CloseIsOut(W) == <<CloseFrame, 2>> \in ToSet(W)

\* After W half number from of m, which is message n + 1 of T, comes next.
ComesNext(T, W, n, m, from) ==
  n \in Nat /\ n + 1 <= Len(T) /\ m = T[n + 1] /\ from \in 1..2 /\ Len(W) = 2 * n + from - 1

\* k halves of the message that comes next go out.
LEMMA WireGrows ==
  ASSUME NEW T, IsSeq(T), NEW W, IsSeq(W), Goes(T, W), NEW n, NEW m, NEW from,
         ComesNext(T, W, n, m, from), NEW k \in 0..2, from + k <= 3,
         NEW V, Joined(V, W, Part(m, from, k))
  PROVE  /\ IsSeq(V) /\ Len(V) = Len(W) + k /\ Goes(T, V)
         /\ IsPrefix(W, V)
         /\ k = 0 => V = W
         /\ (m # CloseFrame \/ from + k < 3) /\ ~CloseIsOut(W) => ~CloseIsOut(V)
<1>a. n \in Nat /\ n + 1 <= Len(T) /\ m = T[n + 1] /\ from \in 1..2 /\ Len(W) = 2 * n + from - 1
  BY DEF ComesNext
<1>0. Len(T) \in Nat /\ Len(W) \in Nat /\ DOMAIN W = 1..Len(W)
  BY SeqFacts
<1>2. /\ IsSeq(V) /\ Len(V) = Len(W) + k
      /\ \A i \in 1..Len(W) : V[i] = W[i]
      /\ \A i \in 1..k : V[Len(W) + i] = <<m, from + i - 1>>
  <2>1. k \in Nat /\ from \in Int
    BY <1>a
  <2>2. AddsHalves(V, W, m, from, k)
    BY <2>1, ConcatPart
  <2>3. QED
    BY <2>2 DEF AddsHalves
<1>3. IsPrefix(W, V)
  <2>1. Len(W) <= Len(V)
    BY <1>0, <1>2
  <2>2. QED
    BY <1>2, <2>1, PrefixFacts
<1>4. ASSUME NEW i \in (Len(W) + 1)..(Len(W) + k)
      PROVE  V[i] = <<T[(i + 1) \div 2], 2 - (i % 2)>> /\ V[i] = <<m, i - 2 * n>>
             /\ i - 2 * n \in from..(from + k - 1)
  <2>0. i \in Int /\ Len(W) \in Int /\ from \in Int /\ k \in Int /\ n \in Int
    BY <1>0, <1>a
  <2>1. i - Len(W) \in 1..k /\ i = Len(W) + (i - Len(W))
    BY <1>0
  <2>2. V[i] = <<m, i - 2 * n>> /\ i - 2 * n \in from..(from + k - 1)
    <3>1. V[Len(W) + (i - Len(W))] = <<m, from + (i - Len(W)) - 1>>
      BY <1>2, <2>1
    <3>2. from + (i - Len(W)) - 1 = i - 2 * n
      BY <1>a, <2>0
    <3>3. i - 2 * n \in from..(from + k - 1)
      BY <1>a, <2>0, <2>1
    <3>4. QED
      BY <2>1, <3>1, <3>2, <3>3
  <2>3. i - 2 * n \in 1..2
    BY <1>a, <2>0, <2>2
  <2>4. i = 2 * n + 1 \/ i = 2 * n + 2
    BY <2>0, <2>3
  <2>5. (i + 1) \div 2 = n + 1 /\ 2 - (i % 2) = i - 2 * n
    BY <1>a, <2>4, HalfFacts
  <2>6. QED
    BY <1>a, <2>2, <2>5
<1>5. ASSUME NEW i \in 1..Len(V)
      PROVE  V[i] = <<T[(i + 1) \div 2], 2 - (i % 2)>>
  <2>0. i \in Int /\ Len(W) \in Nat /\ k \in Int /\ 1 <= i /\ i <= Len(W) + k
    BY <1>0, <1>2
  <2>1. CASE i <= Len(W)
    <3>1. i \in 1..Len(W)
      BY <2>0, <2>1
    <3>2. QED
      BY <1>2, <3>1 DEF Goes
  <2>2. CASE i > Len(W)
    <3>1. i \in (Len(W) + 1)..(Len(W) + k)
      BY <2>0, <2>2
    <3>2. QED
      BY <1>4, <3>1
  <2>3. QED
    BY <2>0, <2>1, <2>2
<1>6. Goes(T, V)
  <2>1. Len(V) <= 2 * Len(T)
    BY <1>a, <1>0, <1>2
  <2>2. QED
    BY <1>5, <2>1 DEF Goes
<1>7. k = 0 => V = W
  <2> SUFFICES ASSUME k = 0
               PROVE  V = W
    OBVIOUS
  <2>1. Len(V) = Len(W) /\ \A i \in 1..Len(W) : V[i] = W[i]
    BY <1>0, <1>2
  <2>2. PICK S : W \in Seq(S)
    BY DEF IsSeq
  <2>3. PICK R : V \in Seq(R)
    BY <1>2 DEF IsSeq
  <2>4. QED
    BY <2>1, <2>2, <2>3
<1>8. ASSUME m # CloseFrame \/ from + k < 3, ~CloseIsOut(W)
      PROVE  ~CloseIsOut(V)
  <2> SUFFICES ASSUME NEW i \in DOMAIN V, V[i] = <<CloseFrame, 2>>
               PROVE  FALSE
    BY DEF CloseIsOut, ToSet
  <2>1. i \in 1..Len(V)
    BY <1>2, SeqFacts
  <2>2. i > Len(W)
    <3>1. \A j \in 1..Len(W) : W[j] # <<CloseFrame, 2>>
      BY <1>0, <1>8 DEF CloseIsOut, ToSet
    <3>2. QED
      BY <1>0, <1>2, <2>1, <3>1
  <2>3. V[i] = <<m, i - 2 * n>> /\ i - 2 * n \in from..(from + k - 1)
    <3>1. i \in Int /\ Len(W) \in Nat /\ k \in Int /\ i <= Len(W) + k
      BY <1>0, <1>2, <2>1
    <3>2. i \in (Len(W) + 1)..(Len(W) + k)
      BY <2>2, <3>1
    <3>3. QED
      BY <1>4, <3>2
  <2>4. m = CloseFrame /\ i - 2 * n = 2
    BY <2>3
  <2>5. QED
    BY <1>a, <1>8, <2>3, <2>4
<1>9. QED
  BY <1>2, <1>3, <1>6, <1>7, <1>8

-----------------------------------------------------------------------------
(* The sending side of one socket. *)

Record(q, p, v, o, T, W, x) ==
  [queue |-> q, poll |-> p, watched |-> v, out |-> o, taken |-> T, wire |-> W, state |-> x]
IsLink(l) == l = Record(l.queue, l.poll, l.watched, l.out, l.taken, l.wire, l.state)

\* What waits is the end of what was taken, and all but its first is whole.
Queued(q, T) ==
  /\ Len(q) <= Len(T)
  /\ \A i \in 1..Len(q) : /\ q[i] = [msg |-> T[Len(T) - Len(q) + i], left |-> q[i].left]
                          /\ q[i].left \in 1..2
                          /\ i > 1 => q[i].left = 2
Owed(q) == IF q = <<>> THEN 0 ELSE 2 * Len(q) - 2 + q[1].left

\* What went out and what waits are what was taken, and who waits is watched.
Fits(q, p, v, o, T, W) ==
  /\ IsSeq(q) /\ IsSeq(T) /\ IsSeq(W)
  /\ p \in BOOLEAN /\ v \in BOOLEAN /\ o \in {"up", "shut", "failed"}
  /\ Queued(q, T)
  /\ Goes(T, W) /\ Len(W) = 2 * Len(T) - Owed(q)
  /\ q # <<>> => v
  /\ p => v
LinkFits(l) == Fits(l.queue, l.poll, l.watched, l.out, l.taken, l.wire)
CloseIsLast(l) == l.out = "up" => ~CloseIsOut(l.wire)

\* What a step may do to a sending side.
Moves(l, w) ==
  /\ w.taken = l.taken \/ IsPrefix(l.taken, w.taken)
  /\ \/ w.wire = l.wire
     \/ l.out = "up" /\ ~CloseIsOut(l.wire) /\ IsPrefix(l.wire, w.wire)
  /\ l.out # "up" => w.out # "up"

\* How m was written.
Written(l, m, w) ==
  \/ /\ w.state = "queued" /\ w.taken = Append(l.taken, m)
     /\ \E e \in 1..2 : w.queue = Append(l.queue, [msg |-> m, left |-> e])
  \/ w.state = "sent" /\ w.taken = Append(l.taken, m) /\ w.queue = l.queue
  \/ w.state = "lost" /\ w.taken = l.taken /\ w.queue = l.queue /\ w.out = "failed"

LEMMA OwedType ==
  ASSUME NEW q, IsSeq(q), NEW T, IsSeq(T), Queued(q, T)
  PROVE  Owed(q) \in Nat /\ Owed(q) <= 2 * Len(q) /\ (q # <<>> => Owed(q) >= 2 * Len(q) - 1)
<1>1. Len(q) \in Nat /\ (q = <<>> <=> Len(q) = 0)
  BY SeqFacts
<1>2. CASE q = <<>>
  BY <1>1, <1>2 DEF Owed
<1>3. CASE q # <<>>
  <2>1. 1 \in 1..Len(q)
    BY <1>1, <1>3
  <2>2. q[1].left \in 1..2
    BY <2>1 DEF Queued
  <2>3. QED
    BY <1>1, <1>3, <2>2 DEF Owed
<1>4. QED
  BY <1>2, <1>3

LEMMA QueuedMore ==
  ASSUME NEW q, IsSeq(q), NEW T, IsSeq(T), Queued(q, T), NEW m, NEW e \in 1..2,
         q # <<>> => e = 2, NEW r, Appended(r, q, [msg |-> m, left |-> e]),
         NEW U, Appended(U, T, m)
  PROVE  /\ IsSeq(r) /\ IsSeq(U) /\ Queued(r, U) /\ r # <<>>
         /\ Owed(r) = IF q = <<>> THEN e ELSE Owed(q) + 2
         /\ Len(U) = Len(T) + 1
<1> DEFINE x == [msg |-> m, left |-> e]
<1>1. Len(q) \in Nat /\ Len(T) \in Nat /\ (q = <<>> <=> Len(q) = 0)
  BY SeqFacts
<1>2. /\ IsSeq(r) /\ Len(r) = Len(q) + 1 /\ r[Len(q) + 1] = x
      /\ \A i \in 1..Len(q) : r[i] = q[i]
  <2>1. Appended(r, q, x)
    OBVIOUS
  <2> HIDE DEF x
  <2>2. QED
    BY <2>1, AppendFacts
<1>3. /\ IsSeq(U) /\ Len(U) = Len(T) + 1 /\ U[Len(T) + 1] = m
      /\ \A i \in 1..Len(T) : U[i] = T[i]
  BY AppendFacts
<1> HIDE DEF x
<1>4. ASSUME NEW i \in 1..Len(r)
      PROVE  /\ r[i] = [msg |-> U[Len(U) - Len(r) + i], left |-> r[i].left]
             /\ r[i].left \in 1..2
             /\ i > 1 => r[i].left = 2
  <2>1. Len(U) - Len(r) = Len(T) - Len(q) /\ Len(q) <= Len(T)
    BY <1>1, <1>2, <1>3 DEF Queued
  <2>2. CASE i \in 1..Len(q)
    <3>1. Len(T) - Len(q) + i \in 1..Len(T)
      BY <1>1, <2>1, <2>2
    <3>2. U[Len(U) - Len(r) + i] = T[Len(T) - Len(q) + i] /\ r[i] = q[i]
      BY <1>2, <1>3, <2>1, <2>2, <3>1
    <3>3. QED
      BY <2>2, <3>2 DEF Queued
  <2>3. CASE i = Len(q) + 1
    <3>1. Len(U) - Len(r) + i = Len(T) + 1
      BY <1>1, <1>2, <1>3, <2>3
    <3>2. r[i] = [msg |-> U[Len(U) - Len(r) + i], left |-> e]
      BY <1>2, <1>3, <2>3, <3>1 DEF x
    <3>3. i > 1 => q # <<>>
      BY <1>1, <2>3
    <3>4. QED
      BY <3>2, <3>3
  <2>4. QED
    BY <1>1, <1>2, <2>2, <2>3
<1>5. Queued(r, U)
  BY <1>1, <1>2, <1>3, <1>4 DEF Queued
<1>6. r # <<>>
  BY <1>1, <1>2, SeqFacts
<1>7. Owed(r) = IF q = <<>> THEN e ELSE Owed(q) + 2
  <2>1. CASE q = <<>>
    BY <1>1, <1>2, <1>6, <2>1 DEF Owed, x
  <2>2. CASE q # <<>>
    <3>1. 1 \in 1..Len(q)
      BY <1>1, <2>2
    <3>2. r[1] = q[1] /\ q[1].left \in 1..2
      BY <1>2, <3>1 DEF Queued
    <3>3. Owed(r) = 2 * (Len(q) + 1) - 2 + q[1].left
      BY <1>2, <1>6, <3>2 DEF Owed
    <3>4. QED
      BY <1>1, <2>2, <3>2, <3>3 DEF Owed
  <2>3. QED
    BY <2>1, <2>2
<1>8. QED
  BY <1>2, <1>3, <1>5, <1>6, <1>7

\* m is the first message of a queue that was empty.
WaitsFirst(q, T, m, e, r, U) ==
  /\ IsSeq(q) /\ q = <<>> /\ IsSeq(T) /\ Queued(q, T) /\ e \in 1..2
  /\ Appended(r, q, [msg |-> m, left |-> e]) /\ Appended(U, T, m)

LEMMA QueuedFirst ==
  ASSUME NEW q, NEW T, NEW m, NEW e, NEW r, NEW U, WaitsFirst(q, T, m, e, r, U)
  PROVE  IsSeq(r) /\ Queued(r, U) /\ r # <<>> /\ Owed(r) = e
<1>1. /\ IsSeq(q) /\ q = <<>> /\ IsSeq(T) /\ Queued(q, T) /\ e \in 1..2
      /\ Appended(r, q, [msg |-> m, left |-> e]) /\ Appended(U, T, m)
  BY DEF WaitsFirst
<1>2. Owed(r) = IF q = <<>> THEN e ELSE Owed(q) + 2
  BY <1>1, QueuedMore
<1>3. IsSeq(r) /\ Queued(r, U) /\ r # <<>>
  BY <1>1, QueuedMore
<1>4. QED
  BY <1>1, <1>2, <1>3

\* The four ways a message is written.
WrittenBehind(l, m, w) ==
  /\ l.queue # <<>>
  /\ w = Record(Append(l.queue, [msg |-> m, left |-> 2]), l.poll, l.watched, l.out,
                Append(l.taken, m), l.wire, "queued")
WrittenWhole(l, m, k, w) ==
  /\ l.queue = <<>> /\ k = 2
  /\ w = Record(l.queue, l.poll, l.watched, l.out,
                Append(l.taken, m), Given(l.wire, m, 1, 2), "sent")
WrittenInPart(l, m, k, w) ==
  /\ l.queue = <<>> /\ k \in 0..1
  /\ w = Record(<<[msg |-> m, left |-> 2 - k]>>, TRUE, IF l.poll THEN l.watched ELSE TRUE,
                l.out, Append(l.taken, m), Given(l.wire, m, 1, k), "queued")
NotWritten(l, k, w) ==
  /\ l.queue = <<>> /\ k = 3
  /\ w = Record(l.queue, l.poll, l.watched, "failed", l.taken, l.wire, "lost")

LEMMA WriteCases ==
  ASSUME NEW l, IsLink(l), NEW m, NEW k \in 0..3, NEW w, w = write(l, m, k)
  PROVE  WrittenBehind(l, m, w) \/ WrittenWhole(l, m, k, w) \/ WrittenInPart(l, m, k, w)
         \/ NotWritten(l, k, w)
<1> DEFINE q == l.queue
           U == Append(l.taken, m)
           asked == [l EXCEPT !.poll = TRUE, !.watched = IF l.poll THEN @ ELSE TRUE]
<1>1. l = [queue |-> q, poll |-> l.poll, watched |-> l.watched, out |-> l.out,
           taken |-> l.taken, wire |-> l.wire, state |-> l.state]
  BY DEF IsLink, Record
<1>2. CASE q # <<>>
  <2>1. w = [l EXCEPT !.queue = Append(q, [msg |-> m, left |-> 2]), !.taken = U, !.state = "queued"]
    BY <1>2 DEF write
  <2> DEFINE r == Append(q, [msg |-> m, left |-> 2])
  <2>2. w = [l EXCEPT !.queue = r, !.taken = U, !.state = "queued"]
    BY <2>1
  <2> HIDE DEF U, r
  <2>3. w = Record(r, l.poll, l.watched, l.out, U, l.wire, "queued")
    BY <1>1, <2>2 DEF Record
  <2>4. QED
    BY <1>2, <2>3 DEF U, r, WrittenBehind
<1>3. CASE q = <<>> /\ k = 2
  <2> DEFINE V == Given(l.wire, m, 1, 2)
  <2>2. w = [l EXCEPT !.taken = U, !.wire = V, !.state = "sent"]
    BY <1>3 DEF write, Failed
  <2> HIDE DEF U, V
  <2>3. w = Record(q, l.poll, l.watched, l.out, U, V, "sent")
    BY <1>1, <2>2 DEF Record
  <2>4. QED
    BY <1>3, <2>3 DEF U, V, WrittenWhole
<1>4. CASE q = <<>> /\ k \in 0..1
  <2> DEFINE V == Given(l.wire, m, 1, k)
             r == <<[msg |-> m, left |-> 2 - k]>>
             b == IF l.poll THEN l.watched ELSE TRUE
  <2>1. write(l, m, k) =
          [asked EXCEPT !.queue = r, !.state = "queued",
                        !.taken = Append(@, m), !.wire = Given(@, m, 1, k)]
    BY <1>4 DEF write, Failed
  <2>2. asked = [queue |-> q, poll |-> TRUE, watched |-> b, out |-> l.out,
                 taken |-> l.taken, wire |-> l.wire, state |-> l.state]
    <3>1. asked = [l EXCEPT !.poll = TRUE, !.watched = b]
      OBVIOUS
    <3> HIDE DEF b, asked
    <3>2. QED
      BY <1>1, <3>1
  <2>3. asked.taken = l.taken /\ asked.wire = l.wire
    BY <2>2
  <2> HIDE DEF r, b, asked
  <2>4. w = [asked EXCEPT !.queue = r, !.state = "queued", !.taken = U, !.wire = V]
    BY <2>1, <2>3
  <2> HIDE DEF U, V
  <2>5. w = Record(r, TRUE, b, l.out, U, V, "queued")
    BY <2>2, <2>4 DEF Record
  <2>6. QED
    BY <1>4, <2>5 DEF U, V, r, b, WrittenInPart
<1>5. CASE q = <<>> /\ k = 3
  <2>1. w = [l EXCEPT !.out = "failed", !.state = "lost"]
    BY <1>5 DEF write, Failed
  <2>2. QED
    BY <1>1, <1>5, <2>1 DEF Record, NotWritten
<1>6. k = 2 \/ k \in 0..1 \/ k = 3
  OBVIOUS
<1>7. QED
  BY <1>2, <1>3, <1>4, <1>5, <1>6

RecordFacts(l, q, p, v, o, T, W, x) ==
  /\ IsLink(l)
  /\ l.queue = q /\ l.poll = p /\ l.watched = v /\ l.out = o /\ l.taken = T /\ l.wire = W /\ l.state = x

LEMMA RecordHas ==
  ASSUME NEW q, NEW p, NEW v, NEW o, NEW T, NEW W, NEW x, NEW l, l = Record(q, p, v, o, T, W, x)
  PROVE  RecordFacts(l, q, p, v, o, T, W, x)
BY DEF Record, RecordFacts, IsLink

\* A message is written, at once or after what waits, or the connection fails.
LEMMA WriteFacts ==
  ASSUME NEW l, IsLink(l), LinkFits(l), CloseIsLast(l), NEW m, NEW k \in Sent(l.out),
         NEW w, w = write(l, m, k)
  PROVE  /\ IsLink(w) /\ LinkFits(w) /\ Moves(l, w) /\ Written(l, m, w)
         /\ m # CloseFrame \/ w.state # "sent" => CloseIsLast(w)
         /\ l.queue = <<>> => w.queue = <<>> \/ w.poll
<1> DEFINE q == l.queue
           T == l.taken
           W == l.wire
           U == Append(T, m)
<1>1. /\ IsSeq(q) /\ IsSeq(T) /\ IsSeq(W) /\ Queued(q, T) /\ Goes(T, W)
      /\ Len(W) = 2 * Len(T) - Owed(q)
      /\ l.poll \in BOOLEAN /\ l.watched \in BOOLEAN /\ l.out \in {"up", "shut", "failed"}
      /\ (q # <<>> => l.watched) /\ (l.poll => l.watched)
  BY DEF LinkFits, Fits
<1>2. k \in 0..3 /\ (k < 3 => l.out = "up")
  BY DEF Sent, Failed
<1>3. Len(q) \in Nat /\ Len(T) \in Nat /\ Len(W) \in Nat
  BY <1>1, SeqFacts
<1>4. Appended(U, T, m)
  BY DEF Appended
<1>5. /\ IsSeq(U) /\ Len(U) = Len(T) + 1 /\ U[Len(T) + 1] = m
      /\ \A i \in 1..Len(T) : U[i] = T[i]
  <2> HIDE DEF U, T
  <2> QED
    BY <1>1, <1>4, AppendFacts
<1>6. IsPrefix(T, U)
  <2>1. Len(T) <= Len(U)
    BY <1>3, <1>5
  <2> HIDE DEF U, T
  <2>2. QED
    BY <1>1, <1>5, <2>1, PrefixFacts, Zenon
<1>7. Goes(U, W)
  <2> HIDE DEF U, T, W
  <2> QED
    BY <1>1, <1>4, GoesOn
<1>8. ASSUME NEW j \in 0..2, k = j, q = <<>>, NEW V, Joined(V, W, Part(m, 1, j))
      PROVE  /\ IsSeq(V) /\ Len(V) = 2 * Len(T) + j /\ Goes(U, V)
             /\ V = W \/ (l.out = "up" /\ ~CloseIsOut(W) /\ IsPrefix(W, V))
             /\ (m # CloseFrame \/ j < 2) /\ l.out = "up" => ~CloseIsOut(V)
  <2>1. Len(W) = 2 * Len(T) + 1 - 1
    BY <1>1, <1>3, <1>8 DEF Owed
  <2>2. l.out = "up" /\ ~CloseIsOut(W)
    BY <1>2, <1>8 DEF CloseIsLast
  <2> HIDE DEF U, T, W, q
  <2>3. ComesNext(U, W, Len(T), m, 1)
    BY <1>3, <1>5, <2>1 DEF ComesNext
  <2>4. 1 + j <= 3 /\ j \in 0..2
    OBVIOUS
  <2>5. /\ IsSeq(V) /\ Len(V) = Len(W) + j /\ Goes(U, V) /\ IsPrefix(W, V)
        /\ (m # CloseFrame \/ 1 + j < 3) /\ ~CloseIsOut(W) => ~CloseIsOut(V)
    BY <1>1, <1>5, <1>7, <1>8, <2>3, <2>4, WireGrows
  <2>6. QED
    BY <1>3, <2>1, <2>2, <2>5
<1> HIDE DEF U
<1>9. CASE WrittenBehind(l, m, w)
  <2> DEFINE r == Append(q, [msg |-> m, left |-> 2])
  <2>1. RecordFacts(w, r, l.poll, l.watched, l.out, U, W, "queued") /\ q # <<>>
    BY <1>9, RecordHas DEF WrittenBehind, U
  <2>2. Appended(r, q, [msg |-> m, left |-> 2]) /\ 2 \in 1..2
    BY DEF Appended
  <2> HIDE DEF r
  <2>3. /\ IsSeq(r) /\ Queued(r, U) /\ Owed(r) = Owed(q) + 2
    <3> HIDE DEF q, T
    <3> QED
      BY <1>1, <1>4, <2>1, <2>2, QueuedMore
  <2>4. Len(W) = 2 * Len(U) - Owed(r)
    <3>1. Owed(q) \in Nat
      <4> HIDE DEF q, T
      <4> QED
        BY <1>1, OwedType
    <3>2. QED
      BY <1>1, <1>3, <1>5, <2>3, <3>1
  <2>5. LinkFits(w)
    BY <1>1, <1>5, <1>7, <2>1, <2>3, <2>4 DEF LinkFits, Fits, RecordFacts
  <2>6. Moves(l, w)
    BY <1>6, <2>1 DEF Moves, RecordFacts
  <2>7. Written(l, m, w)
    BY <2>1 DEF Written, RecordFacts, r, U
  <2>8. CloseIsLast(w)
    BY <2>1 DEF CloseIsLast, RecordFacts
  <2>9. QED
    BY <2>1, <2>5, <2>6, <2>7, <2>8 DEF RecordFacts
<1>10. CASE WrittenWhole(l, m, k, w)
  <2> DEFINE V == Given(W, m, 1, 2)
  <2>1. RecordFacts(w, q, l.poll, l.watched, l.out, U, V, "sent") /\ q = <<>> /\ k = 2
    BY <1>10, RecordHas DEF WrittenWhole, U
  <2>2. Joined(V, W, Part(m, 1, 2))
    BY DEF Joined, Given
  <2> HIDE DEF V
  <2>3. /\ IsSeq(V) /\ Len(V) = 2 * Len(T) + 2 /\ Goes(U, V)
        /\ V = W \/ (l.out = "up" /\ ~CloseIsOut(W) /\ IsPrefix(W, V))
        /\ m # CloseFrame /\ l.out = "up" => ~CloseIsOut(V)
    <3>1. 2 \in 0..2
      OBVIOUS
    <3>2. QED
      BY <1>8, <2>1, <2>2, <3>1
  <2>4. Len(V) = 2 * Len(U) - Owed(q) /\ Queued(q, U)
    BY <1>3, <1>5, <2>1, <2>3 DEF Owed, Queued
  <2>5. LinkFits(w)
    BY <1>1, <1>5, <2>1, <2>3, <2>4 DEF LinkFits, Fits, RecordFacts
  <2>6. Moves(l, w)
    BY <1>6, <2>1, <2>3 DEF Moves, RecordFacts
  <2>7. Written(l, m, w)
    BY <2>1 DEF Written, RecordFacts, U
  <2>8. m # CloseFrame => CloseIsLast(w)
    BY <2>1, <2>3 DEF CloseIsLast, RecordFacts
  <2>9. QED
    BY <2>1, <2>5, <2>6, <2>7, <2>8 DEF RecordFacts
<1>11. CASE WrittenInPart(l, m, k, w)
  <2> DEFINE V == Given(W, m, 1, k)
             r == <<[msg |-> m, left |-> 2 - k]>>
  <2>1. RecordFacts(w, r, TRUE, IF l.poll THEN l.watched ELSE TRUE, l.out, U, V, "queued")
        /\ q = <<>> /\ k \in 0..1
    BY <1>11, RecordHas DEF WrittenInPart, U
  <2>2. Joined(V, W, Part(m, 1, k))
    BY DEF Joined, Given
  <2>3. r = Append(q, [msg |-> m, left |-> 2 - k]) /\ 2 - k \in 1..2
    BY <2>1
  <2>4. Appended(r, q, [msg |-> m, left |-> 2 - k])
    BY <2>3 DEF Appended
  <2> HIDE DEF V, r
  <2>5. /\ IsSeq(V) /\ Len(V) = 2 * Len(T) + k /\ Goes(U, V)
        /\ V = W \/ (l.out = "up" /\ ~CloseIsOut(W) /\ IsPrefix(W, V))
        /\ l.out = "up" => ~CloseIsOut(V)
    BY <1>8, <2>1, <2>2
  <2>6. /\ IsSeq(r) /\ Queued(r, U) /\ Owed(r) = 2 - k
    <3>1. IsSeq(q) /\ IsSeq(T) /\ Queued(q, T)
      BY <1>1
    <3>2. PICK e : e = 2 - k
      OBVIOUS
    <3>3. q = <<>> /\ e \in 1..2 /\ Appended(r, q, [msg |-> m, left |-> e])
      BY <2>1, <2>3, <2>4, <3>2
    <3>4. Appended(U, T, m)
      BY <1>4
    <3> HIDE DEF q, T
    <3>5. WaitsFirst(q, T, m, e, r, U)
      BY <3>1, <3>3, <3>4 DEF WaitsFirst
    <3>6. IsSeq(r) /\ Queued(r, U) /\ Owed(r) = e
      BY <3>5, QueuedFirst
    <3>7. QED
      BY <3>2, <3>6
  <2>7. Len(V) = 2 * Len(U) - Owed(r)
    BY <1>3, <1>5, <2>1, <2>5, <2>6
  <2>8. (IF l.poll THEN l.watched ELSE TRUE) = TRUE
    BY <1>1
  <2>9. LinkFits(w)
    BY <1>1, <1>5, <2>1, <2>5, <2>6, <2>7, <2>8 DEF LinkFits, Fits, RecordFacts
  <2>10. Moves(l, w)
    BY <1>6, <2>1, <2>5 DEF Moves, RecordFacts
  <2>11. Written(l, m, w)
    BY <2>1, <2>3 DEF Written, RecordFacts, U
  <2>12. CloseIsLast(w)
    BY <2>1, <2>5 DEF CloseIsLast, RecordFacts
  <2>13. w.poll
    BY <2>1 DEF RecordFacts
  <2>14. QED
    BY <2>1, <2>9, <2>10, <2>11, <2>12, <2>13 DEF RecordFacts
<1>12. CASE NotWritten(l, k, w)
  <2>1. RecordFacts(w, q, l.poll, l.watched, "failed", T, W, "lost") /\ q = <<>>
    BY <1>12, RecordHas DEF NotWritten
  <2>2. LinkFits(w)
    BY <1>1, <2>1 DEF LinkFits, Fits, RecordFacts
  <2>3. QED
    BY <2>1, <2>2 DEF RecordFacts, Moves, Written, CloseIsLast
<1>13. QED
  <2>1. WrittenBehind(l, m, w) \/ WrittenWhole(l, m, k, w) \/ WrittenInPart(l, m, k, w)
        \/ NotWritten(l, k, w)
    BY <1>2, WriteCases
  <2>2. QED
    BY <1>9, <1>10, <1>11, <1>12, <2>1

\* m came after what waits, or nothing was added.
Gets(l, m, w) ==
  /\ w.taken = l.taken \/ Appended(w.taken, l.taken, m)
  /\ \/ w.queue = l.queue
     \/ \E e \in 1..2 : Appended(w.queue, l.queue, [msg |-> m, left |-> e])

LEMMA WrittenGets ==
  ASSUME NEW l, NEW m, NEW w, Written(l, m, w)
  PROVE  Gets(l, m, w)
BY DEF Written, Gets, Appended

\* Shut keeps everything but what is up.
LEMMA ShutFacts ==
  ASSUME NEW l, IsLink(l), LinkFits(l), NEW w, w = Shut(l)
  PROVE  /\ IsLink(w) /\ LinkFits(w) /\ w.out # "up"
         /\ w.queue = l.queue /\ w.taken = l.taken /\ w.wire = l.wire
<1>1. PICK o : o = IF l.out = "up" THEN "shut" ELSE l.out
  OBVIOUS
<1>2. l.out \in {"up", "shut", "failed"}
  BY DEF LinkFits, Fits
<1>3. w = Record(l.queue, l.poll, l.watched, o, l.taken, l.wire, l.state)
  BY <1>1 DEF Shut, IsLink, Record
<1>4. RecordFacts(w, l.queue, l.poll, l.watched, o, l.taken, l.wire, l.state)
  BY <1>3, RecordHas
<1>5. o \in {"shut", "failed"}
  BY <1>1, <1>2
<1>6. LinkFits(w)
  BY <1>4, <1>5 DEF LinkFits, Fits, RecordFacts
<1>7. QED
  BY <1>4, <1>5, <1>6 DEF RecordFacts

LEMMA SentCloseFacts ==
  ASSUME NEW l, IsLink(l), LinkFits(l), CloseIsLast(l), NEW k \in Sent(l.out),
         NEW w, w = SentClose(l, k)
  PROVE  LinkFits(w) /\ CloseIsLast(w) /\ Moves(l, w) /\ Gets(l, CloseFrame, w)
<1>1. PICK v : v = write(l, CloseFrame, k)
  OBVIOUS
<1>2. /\ IsLink(v) /\ LinkFits(v) /\ Moves(l, v) /\ Written(l, CloseFrame, v)
      /\ v.state # "sent" => CloseIsLast(v)
  BY <1>1, WriteFacts
<1>3. Gets(l, CloseFrame, v)
  BY <1>2, WrittenGets
<1>4. w = IF v.state = "sent" THEN Shut(v) ELSE v
  BY <1>1 DEF SentClose
<1>5. CASE v.state = "sent"
  <2>1. /\ LinkFits(w) /\ w.out # "up"
        /\ w.queue = v.queue /\ w.taken = v.taken /\ w.wire = v.wire
    BY <1>2, <1>4, <1>5, ShutFacts
  <2>2. QED
    BY <1>2, <1>3, <2>1 DEF CloseIsLast, Moves, Gets
<1>6. CASE v.state # "sent"
  BY <1>2, <1>3, <1>4, <1>6
<1>7. QED
  BY <1>5, <1>6

LEMMA EnteredFacts ==
  ASSUME NEW l, IsLink(l), LinkFits(l), CloseIsLast(l), l.queue # <<>> => l.poll,
         NEW w, w = Entered(l)
  PROVE  /\ LinkFits(w) /\ CloseIsLast(w) /\ w.taken = l.taken /\ w.wire = l.wire
         /\ w.queue = l.queue /\ w.out = l.out
<1>1. w = Record(l.queue, FALSE, l.poll, l.out, l.taken, l.wire, l.state)
  BY DEF Entered, IsLink, Record
<1>2. RecordFacts(w, l.queue, FALSE, l.poll, l.out, l.taken, l.wire, l.state)
  BY <1>1, RecordHas
<1>3. LinkFits(w)
  BY <1>2 DEF LinkFits, Fits, RecordFacts
<1>4. QED
  BY <1>2, <1>3 DEF CloseIsLast, RecordFacts

\* The queue without its first message.
LEMMA QueuedLess ==
  ASSUME NEW q, IsSeq(q), q # <<>>, NEW T, IsSeq(T), Queued(q, T), NEW t, IsTail(t, q)
  PROVE  /\ IsSeq(t) /\ Queued(t, T) /\ Owed(t) = 2 * Len(q) - 2 /\ Len(t) = Len(q) - 1
         /\ \A i \in 1..Len(t) : t[i] = q[i + 1]
<1>1. /\ IsSeq(t) /\ Len(t) = Len(q) - 1 /\ Len(q) >= 1
      /\ \A i \in 1..Len(t) : t[i] = q[i + 1]
  BY TailFacts
<1>2. Len(q) \in Nat /\ Len(T) \in Nat /\ (t = <<>> <=> Len(t) = 0) /\ Len(q) <= Len(T)
  BY <1>1, SeqFacts DEF Queued
<1>3. ASSUME NEW i \in 1..Len(t)
      PROVE  t[i] = [msg |-> T[Len(T) - Len(t) + i], left |-> t[i].left] /\ t[i].left = 2
  <2>1. i + 1 \in 1..Len(q) /\ i + 1 > 1
    BY <1>1, <1>2
  <2>2. Len(T) - Len(q) + (i + 1) = Len(T) - Len(t) + i
    BY <1>1, <1>2
  <2>3. q[i + 1] = [msg |-> T[Len(T) - Len(q) + (i + 1)], left |-> q[i + 1].left]
        /\ q[i + 1].left = 2
    BY <2>1 DEF Queued
  <2>4. QED
    BY <1>1, <2>2, <2>3
<1>4. Queued(t, T)
  BY <1>1, <1>2, <1>3 DEF Queued
<1>5. Owed(t) = 2 * Len(q) - 2
  <2>1. CASE t = <<>>
    <3>1. Len(q) = 1
      BY <1>1, <1>2, <2>1
    <3>2. Owed(t) = 0
      BY <2>1, Zenon DEF Owed
    <3>3. QED
      BY <3>1, <3>2
  <2>2. CASE t # <<>>
    <3>0. Len(t) \in Nat /\ Len(t) # 0
      BY <1>1, <1>2, <2>2
    <3>1. t[1].left = 2
      <4>1. 1 \in 1..Len(t)
        BY <3>0
      <4>2. QED
        BY <1>3, <4>1
    <3>2. QED
      BY <1>1, <1>2, <2>2, <3>1 DEF Owed
  <2>3. QED
    BY <2>1, <2>2
<1>6. QED
  BY <1>1, <1>4, <1>5

SameMessages(r, q) == IsSeq(r) /\ Len(r) = Len(q) /\ \A i \in 1..Len(q) : r[i].msg = q[i].msg

\* r is q with e halves left of its first.
Lessened(r, q, e) ==
  e \in 1..2 /\ Joined(r, <<[msg |-> q[1].msg, left |-> e]>>, Tail(q))

\* The queue with less of its first message.
LEMMA QueuedPart ==
  ASSUME NEW q, IsSeq(q), q # <<>>, NEW T, IsSeq(T), Queued(q, T),
         NEW r, NEW e, Lessened(r, q, e)
  PROVE  /\ IsSeq(r) /\ Queued(r, T) /\ Owed(r) = 2 * Len(q) - 2 + e
         /\ SameMessages(r, q)
<1> DEFINE x == [msg |-> q[1].msg, left |-> e]
           y == <<x>>
           t == Tail(q)
<1>0. /\ IsTail(t, q) /\ e \in 1..2 /\ y = <<x>> /\ Joined(r, y, t)
      /\ x = [msg |-> q[1].msg, left |-> e]
  BY DEF IsTail, Lessened
<1> HIDE DEF t, y, x
<1>1. /\ IsSeq(t) /\ Len(t) = Len(q) - 1 /\ Len(q) >= 1
      /\ \A i \in 1..Len(t) : t[i] = q[i + 1]
  BY <1>0, TailFacts
<1>2. Len(q) \in Nat /\ Len(T) \in Nat /\ Len(q) <= Len(T)
  BY SeqFacts DEF Queued
<1>4. IsSeq(y) /\ Len(y) = 1 /\ y[1] = x
  BY <1>0, SingleFacts
<1>5. /\ IsSeq(r) /\ Len(r) = Len(y) + Len(t)
      /\ \A i \in 1..Len(y) : r[i] = y[i]
      /\ \A i \in 1..Len(t) : r[Len(y) + i] = t[i]
  <2>1. Joined(r, y, t) /\ IsSeq(y) /\ IsSeq(t)
    BY <1>0, <1>1, <1>4
  <2>2. IsSeq(r) /\ Len(r) = Len(y) + Len(t)
    BY <2>1, ConcatFacts
  <2>3. \A i \in 1..Len(y) : r[i] = y[i]
    BY <2>1, ConcatFacts
  <2>4. \A i \in 1..Len(t) : r[Len(y) + i] = t[i]
    <3>1. Len(y) \in Nat /\ Len(t) \in Nat
      BY <2>1, SeqFacts
    <3>2. QED
      BY <2>1, <3>1, ConcatFacts
  <2>5. QED
    BY <2>2, <2>3, <2>4
<1>3. e \in 1..2
  BY <1>0
<1>6. r[1] = x /\ Len(r) = Len(q)
  BY <1>1, <1>2, <1>4, <1>5
<1>7. ASSUME NEW i \in 2..Len(q)
      PROVE  r[i] = q[i]
  <2>1. i - 1 \in 1..Len(t) /\ 1 + (i - 1) = i /\ (i - 1) + 1 = i
    BY <1>1, <1>2
  <2>2. r[1 + (i - 1)] = t[i - 1] /\ t[i - 1] = q[(i - 1) + 1]
    BY <1>1, <1>4, <1>5, <2>1
  <2>3. QED
    BY <2>1, <2>2
<1>8. ASSUME NEW i \in 1..Len(q)
      PROVE  /\ r[i] = [msg |-> T[Len(T) - Len(r) + i], left |-> r[i].left]
             /\ r[i].left \in 1..2 /\ (i > 1 => r[i].left = 2) /\ r[i].msg = q[i].msg
  <2>1. /\ q[i] = [msg |-> T[Len(T) - Len(q) + i], left |-> q[i].left]
        /\ q[i].left \in 1..2 /\ (i > 1 => q[i].left = 2)
    BY DEF Queued
  <2>2. CASE i = 1
    <3>1. q[i].msg = T[Len(T) - Len(q) + i]
      BY <2>1
    <3>2. r[i] = [msg |-> q[i].msg, left |-> e]
      BY <1>0, <1>6, <2>2
    <3>3. QED
      BY <1>3, <1>6, <2>2, <3>1, <3>2
  <2>3. CASE i # 1
    <3>1. i \in 2..Len(q)
      BY <1>2, <2>3
    <3>2. QED
      BY <1>6, <1>7, <2>1, <3>1
  <2>4. QED
    BY <2>2, <2>3
<1>9. Queued(r, T)
  BY <1>2, <1>6, <1>8 DEF Queued
<1>10. r # <<>> /\ r[1].left = e
  <2>1. Len(r) # 0
    BY <1>1, <1>2, <1>6
  <2>2. r # <<>>
    BY <1>5, <2>1, SeqFacts
  <2>3. QED
    BY <1>0, <1>6, <2>2
<1>11. Owed(r) = 2 * Len(q) - 2 + e
  BY <1>3, <1>6, <1>10 DEF Owed
<1>12. SameMessages(r, q)
  BY <1>5, <1>6, <1>8 DEF SameMessages
<1>13. QED
  BY <1>5, <1>9, <1>11, <1>12

\* What io_cb leaves of the queue q when k halves of its first message went out.
Remains(q, k, r) ==
  \/ k = q[1].left /\ IsTail(r, q)
  \/ /\ k # q[1].left
     /\ \E x : /\ x = [msg |-> q[1].msg, left |-> q[1].left - k]
               /\ Joined(r, <<x>>, Tail(q))

LEMMA WroteIs ==
  ASSUME NEW s \in Sock, NEW k, NEW w, w = Wrote(s, k),
         queue[s][1] = [msg |-> queue[s][1].msg, left |-> queue[s][1].left]
  PROVE  \E r, V, o :
           /\ Remains(queue[s], k, r)
           /\ Joined(V, wire[s], Part(queue[s][1].msg, 3 - queue[s][1].left, k))
           /\ o = IF k = queue[s][1].left /\ queue[s][1].msg = CloseFrame /\ out[s] = "up"
                  THEN "shut" ELSE out[s]
           /\ w = Record(r, r # <<>> /\ poll[s], r # <<>>, o, taken[s], V, "kept")
<1> DEFINE first == queue[s][1]
           rest == IF k = first.left THEN Tail(queue[s])
                   ELSE <<[first EXCEPT !.left = @ - k]>> \o Tail(queue[s])
           link == [Link(s) EXCEPT !.queue = rest,
                                   !.wire = Given(@, first.msg, 3 - first.left, k)]
           asks == [link EXCEPT !.poll = rest # <<>> /\ @, !.watched = rest # <<>>]
           V == Given(wire[s], first.msg, 3 - first.left, k)
           o == IF k = first.left /\ first.msg = CloseFrame /\ out[s] = "up"
                THEN "shut" ELSE out[s]
<1>1. w = IF k = first.left /\ first.msg = CloseFrame THEN Shut(asks) ELSE asks
  BY DEF Wrote
<1>2. Remains(queue[s], k, rest)
  <2>1. CASE k = first.left
    BY <2>1 DEF Remains, IsTail
  <2>2. CASE k # first.left
    <3>1. [first EXCEPT !.left = @ - k] = [msg |-> first.msg, left |-> first.left - k]
      OBVIOUS
    <3>2. Joined(rest, <<[msg |-> first.msg, left |-> first.left - k]>>, Tail(queue[s]))
      BY <2>2, <3>1, Zenon DEF Joined
    <3> HIDE DEF rest
    <3>3. QED
      BY <2>2, <3>2, Zenon DEF Remains
  <2>3. QED
    BY <2>1, <2>2
<1>3. Joined(V, wire[s], Part(first.msg, 3 - first.left, k))
  BY DEF Joined, Given
<1>4. Link(s).wire = wire[s] /\ Link(s).poll = poll[s]
  BY DEF Link
<1>5. link = [Link(s) EXCEPT !.queue = rest, !.wire = V]
  BY <1>4
<1> HIDE DEF rest, V, first, link
<1>6. link = Record(rest, poll[s], watched[s], out[s], taken[s], V, "kept")
  BY <1>5 DEF Link, Record
<1>7. asks = Record(rest, rest # <<>> /\ poll[s], rest # <<>>, out[s], taken[s], V, "kept")
  <2>1. PICK b : b = (rest # <<>>)
    OBVIOUS
  <2>2. PICK p : p = (rest # <<>> /\ poll[s])
    OBVIOUS
  <2>3. link.poll = poll[s]
    BY <1>6 DEF Record
  <2>4. asks = [link EXCEPT !.poll = p, !.watched = b]
    BY <2>1, <2>2, <2>3
  <2> HIDE DEF asks
  <2>5. asks = Record(rest, p, b, out[s], taken[s], V, "kept")
    BY <1>6, <2>4 DEF Record
  <2>6. QED
    BY <2>1, <2>2, <2>5
<1> HIDE DEF asks
<1>8. w = Record(rest, rest # <<>> /\ poll[s], rest # <<>>, o, taken[s], V, "kept")
  <2>1. CASE k = first.left /\ first.msg = CloseFrame
    <3>1. PICK b : b = (rest # <<>>)
      OBVIOUS
    <3>2. PICK p : p = (rest # <<>> /\ poll[s])
      OBVIOUS
    <3>3. asks = Record(rest, p, b, out[s], taken[s], V, "kept")
      BY <1>7, <3>1, <3>2
    <3>4. w = Record(rest, p, b, o, taken[s], V, "kept")
      <4>1. w = [asks EXCEPT !.out = IF @ = "up" THEN "shut" ELSE @]
        BY <1>1, <2>1 DEF Shut
      <4>2. asks.out = out[s]
        BY <3>3 DEF Record
      <4>3. w = [asks EXCEPT !.out = o]
        BY <2>1, <4>1, <4>2
      <4> HIDE DEF o
      <4>4. QED
        BY <3>3, <4>3 DEF Record
    <3>5. QED
      BY <3>1, <3>2, <3>4
  <2>2. CASE ~(k = first.left /\ first.msg = CloseFrame)
    <3>1. o = out[s]
      BY <2>2
    <3>2. w = asks
      BY <1>1, <2>2
    <3>3. QED
      BY <1>7, <3>1, <3>2
  <2>3. QED
    BY <2>1, <2>2
<1>9. QED
  <2> USE DEF first
  <2> HIDE DEF rest, V
  <2>1. Remains(queue[s], k, rest)
    BY <1>2
  <2>2. QED
    BY <1>3, <1>8, <2>1, Zenon

\* The first message of the queue goes on.
LEMMA WroteFacts ==
  ASSUME NEW s \in Sock, LinkFits(Link(s)), CloseIsLast(Link(s)), queue[s] # <<>>,
         NEW k \in Sent(out[s]) \cap 0..queue[s][1].left, NEW w, w = Wrote(s, k)
  PROVE  /\ LinkFits(w) /\ CloseIsLast(w) /\ Moves(Link(s), w) /\ w.taken = taken[s]
         /\ k = queue[s][1].left => IsTail(w.queue, queue[s])
         /\ k # queue[s][1].left => SameMessages(w.queue, queue[s])
<1> DEFINE q == queue[s]
           T == taken[s]
           W == wire[s]
           m == q[1].msg
           d == q[1].left
           n == Len(T) - Len(q)
<1>1. /\ IsSeq(q) /\ IsSeq(T) /\ IsSeq(W) /\ Queued(q, T) /\ Goes(T, W)
      /\ Len(W) = 2 * Len(T) - Owed(q)
      /\ poll[s] \in BOOLEAN /\ watched[s] \in BOOLEAN /\ out[s] \in {"up", "shut", "failed"}
  BY DEF LinkFits, Fits, Link
<1>2. Len(q) \in Nat \ {0} /\ Len(T) \in Nat /\ Len(W) \in Nat
  BY <1>1, SeqFacts
<1>3. /\ q[1] = [msg |-> T[Len(T) - Len(q) + 1], left |-> d] /\ d \in 1..2 /\ Len(q) <= Len(T)
  <2>1. 1 \in 1..Len(q)
    BY <1>2
  <2>2. QED
    BY <1>1, <2>1 DEF Queued
<1>4. m = T[n + 1] /\ q[1] = [msg |-> m, left |-> d] /\ n \in Nat /\ n + 1 <= Len(T)
  <2>1. n \in Nat /\ n + 1 <= Len(T)
    <3> HIDE DEF q, T
    <3> QED
      BY <1>2, <1>3
  <2>2. m = T[n + 1]
    <3>1. PICK y : y = q[1]
      OBVIOUS
    <3>2. y = [msg |-> T[Len(T) - Len(q) + 1], left |-> y.left]
      BY <1>3, <3>1
    <3>3. y.msg = T[Len(T) - Len(q) + 1]
      <4> HIDE DEF q, T
      <4>1. PICK c, b : y = [msg |-> c, left |-> b] /\ c = T[Len(T) - Len(q) + 1]
        BY <3>2
      <4>2. y.msg = c
        BY <4>1
      <4>3. QED
        BY <4>1, <4>2
    <3>4. m = y.msg
      BY <3>1
    <3>5. QED
      BY <3>3, <3>4
  <2>3. q[1] = [msg |-> m, left |-> d]
    BY <1>3
  <2>4. QED
    BY <2>1, <2>2, <2>3
<1>5. Owed(q) = 2 * Len(q) - 2 + d
  BY DEF Owed
<1>6. k \in 0..d /\ out[s] = "up" /\ ~CloseIsOut(W)
  <2>1. k \in 0..d
    OBVIOUS
  <2>2. k # 3
    BY <1>3, <2>1
  <2>3. out[s] = "up"
    BY <2>2 DEF Sent, Failed
  <2>4. QED
    BY <2>1, <2>3 DEF CloseIsLast, Link
<1>7. PICK r, V, o :
        /\ Remains(q, k, r)
        /\ Joined(V, W, Part(m, 3 - d, k))
        /\ o = IF k = d /\ m = CloseFrame /\ out[s] = "up" THEN "shut" ELSE out[s]
        /\ w = Record(r, r # <<>> /\ poll[s], r # <<>>, o, T, V, "kept")
  <2>1. q[1] = [msg |-> m, left |-> d]
    BY <1>4
  <2>2. QED
    BY <2>1, WroteIs
<1>8. RecordFacts(w, r, r # <<>> /\ poll[s], r # <<>>, o, T, V, "kept")
  BY <1>7, RecordHas
<1> HIDE DEF q, T, W, m, d, n
<1>9. /\ IsSeq(V) /\ Len(V) = Len(W) + k /\ Goes(T, V) /\ IsPrefix(W, V)
      /\ m # CloseFrame \/ k # d => ~CloseIsOut(V)
  <2>1. PICK from : from = 3 - d
    OBVIOUS
  <2>2. d \in Int /\ 1 <= d /\ d <= 2 /\ k \in Int /\ 0 <= k /\ k <= d
    BY <1>3, <1>6
  <2>3. from \in 1..2 /\ k \in 0..2 /\ from + k <= 3 /\ (k # d => from + k < 3)
    BY <2>1, <2>2
  <2>4. Len(W) = 2 * n + from - 1
    BY <1>1, <1>2, <1>5, <2>1, <2>2 DEF n
  <2>5. Joined(V, W, Part(m, from, k))
    BY <1>7, <2>1
  <2>6. /\ IsSeq(V) /\ Len(V) = Len(W) + k /\ Goes(T, V) /\ IsPrefix(W, V)
        /\ (m # CloseFrame \/ from + k < 3) /\ ~CloseIsOut(W) => ~CloseIsOut(V)
    <3>1. ComesNext(T, W, n, m, from)
      BY <1>4, <2>3, <2>4 DEF ComesNext
    <3>2. QED
      BY <1>1, <2>3, <2>5, <3>1, WireGrows
  <2>7. QED
    BY <1>4, <1>6, <2>3, <2>6
<1>11. q # <<>>
  BY DEF q
<1>12. /\ IsSeq(r) /\ Queued(r, T) /\ Owed(r) = Owed(q) - k
       /\ k = d => IsTail(r, q)
       /\ k # d => SameMessages(r, q)
  <2>1. CASE k = d
    <3>1. IsTail(r, q)
      BY <1>7, <2>1 DEF Remains, d
    <3>2. IsSeq(r) /\ Queued(r, T) /\ Owed(r) = 2 * Len(q) - 2
      BY <1>1, <1>11, <3>1, QueuedLess
    <3>3. Owed(q) - k = 2 * Len(q) - 2
      BY <1>2, <1>3, <1>5, <2>1
    <3>4. QED
      BY <2>1, <3>1, <3>2, <3>3
  <2>2. CASE k # d
    <3>1. PICK e : e = d - k
      OBVIOUS
    <3>3. e \in 1..2 /\ Owed(q) - k = 2 * Len(q) - 2 + e
      <4>1. d \in Int /\ 1 <= d /\ d <= 2 /\ k \in Int /\ 0 <= k /\ k <= d
        BY <1>3, <1>6
      <4>2. QED
        BY <1>2, <1>5, <2>2, <3>1, <4>1
    <3>4. Lessened(r, q, e)
      BY <1>7, <2>2, <3>1, <3>3 DEF Remains, d, m, Lessened
    <3>5. IsSeq(r) /\ Queued(r, T) /\ Owed(r) = 2 * Len(q) - 2 + e /\ SameMessages(r, q)
      BY <1>1, <1>11, <3>4, QueuedPart
    <3>6. QED
      BY <2>2, <3>3, <3>5
  <2>3. QED
    BY <2>1, <2>2
<1>13. Len(V) = 2 * Len(T) - Owed(r)
  <2>1. Owed(q) \in Int /\ k \in Int
    BY <1>2, <1>3, <1>5, <1>6
  <2>2. QED
    BY <1>1, <1>2, <1>9, <1>12, <2>1
<1>14. o \in {"up", "shut"}
  BY <1>6, <1>7
<1>15. LinkFits(w)
  <2>1. IsSeq(r) /\ IsSeq(T) /\ IsSeq(V) /\ Queued(r, T) /\ Goes(T, V)
    BY <1>1, <1>9, <1>12
  <2>2. (r # <<>> /\ poll[s]) \in BOOLEAN /\ (r # <<>>) \in BOOLEAN
    OBVIOUS
  <2>3. Fits(r, r # <<>> /\ poll[s], r # <<>>, o, T, V)
    BY <1>13, <1>14, <2>1, <2>2 DEF Fits
  <2>4. QED
    BY <1>8, <2>3 DEF LinkFits, RecordFacts
<1>16. CloseIsLast(w)
  BY <1>6, <1>7, <1>8, <1>9 DEF CloseIsLast, RecordFacts
<1>17. Moves(Link(s), w)
  <2>1. Link(s).taken = T /\ Link(s).wire = W /\ Link(s).out = "up"
    BY <1>6 DEF Link, T, W
  <2>2. w.taken = T /\ w.wire = V
    BY <1>8 DEF RecordFacts
  <2>3. QED
    BY <1>6, <1>9, <2>1, <2>2 DEF Moves
<1>18. w.taken = T /\ w.queue = r
  BY <1>8 DEF RecordFacts
<1>19. QED
  BY <1>12, <1>15, <1>16, <1>17, <1>18 DEF T, q, d

-----------------------------------------------------------------------------
(* The sending sides of all sockets. *)

IsMap(f) == f = [s \in Sock |-> f[s]]
Sides == /\ IsMap(queue) /\ IsMap(poll) /\ IsMap(watched)
         /\ IsMap(out) /\ IsMap(taken) /\ IsMap(wire)

\* The sending side of s after the step is l; it is as it was.
SideIs(s, l) ==
  /\ queue'[s] = l.queue /\ poll'[s] = l.poll /\ watched'[s] = l.watched
  /\ out'[s] = l.out /\ taken'[s] = l.taken /\ wire'[s] = l.wire
SideKept(s) == SideIs(s, Link(s))
Sided(s) == LinkFits(Link(s)) /\ CloseIsLast(Link(s))

SetTo(g, f, s, v) == g = [f EXCEPT ![s] = v]

LEMMA MapSet ==
  ASSUME NEW f, IsMap(f), NEW s \in Sock, NEW v, NEW g, SetTo(g, f, s, v)
  PROVE  IsMap(g) /\ g[s] = v /\ \A t \in Sock : t # s => g[t] = f[t]
<1>1. PICK d : d = DOMAIN f
  OBVIOUS
<1>2. d = Sock
  BY <1>1 DEF IsMap
<1>3. g = [t \in Sock |-> g[t]]
  BY <1>1, <1>2 DEF SetTo
<1>4. QED
  BY <1>1, <1>2, <1>3 DEF IsMap, SetTo

LEMMA SetLinkFacts ==
  ASSUME Sides, NEW s \in Sock, NEW l, SetLink(s, l)
  PROVE  Sides' /\ SideIs(s, l) /\ \A t \in Sock : t # s => SideKept(t)
<1>1. /\ IsMap(queue) /\ IsMap(poll) /\ IsMap(watched)
      /\ IsMap(out) /\ IsMap(taken) /\ IsMap(wire)
  BY DEF Sides
<1>a. /\ SetTo(queue', queue, s, l.queue) /\ SetTo(poll', poll, s, l.poll)
      /\ SetTo(watched', watched, s, l.watched) /\ SetTo(out', out, s, l.out)
      /\ SetTo(taken', taken, s, l.taken) /\ SetTo(wire', wire, s, l.wire)
  BY DEF SetLink, SetTo
<1>2. IsMap(queue') /\ queue'[s] = l.queue /\ \A t \in Sock : t # s => queue'[t] = queue[t]
  BY <1>1, <1>a, MapSet
<1>3. IsMap(poll') /\ poll'[s] = l.poll /\ \A t \in Sock : t # s => poll'[t] = poll[t]
  BY <1>1, <1>a, MapSet
<1>4. IsMap(watched') /\ watched'[s] = l.watched /\ \A t \in Sock : t # s => watched'[t] = watched[t]
  BY <1>1, <1>a, MapSet
<1>5. IsMap(out') /\ out'[s] = l.out /\ \A t \in Sock : t # s => out'[t] = out[t]
  BY <1>1, <1>a, MapSet
<1>6. IsMap(taken') /\ taken'[s] = l.taken /\ \A t \in Sock : t # s => taken'[t] = taken[t]
  BY <1>1, <1>a, MapSet
<1>7. IsMap(wire') /\ wire'[s] = l.wire /\ \A t \in Sock : t # s => wire'[t] = wire[t]
  BY <1>1, <1>a, MapSet
<1>8. Sides'
  BY <1>2, <1>3, <1>4, <1>5, <1>6, <1>7 DEF Sides
<1>9. \A t \in Sock : t # s => SideKept(t)
  BY <1>2, <1>3, <1>4, <1>5, <1>6, <1>7 DEF SideKept, SideIs, Link
<1>10. QED
  BY <1>2, <1>3, <1>4, <1>5, <1>6, <1>7, <1>8, <1>9 DEF SideIs

LEMMA LinkIs ==
  ASSUME NEW s \in Sock
  PROVE  /\ IsLink(Link(s)) /\ Link(s).queue = queue[s] /\ Link(s).out = out[s]
         /\ Link(s).poll = poll[s] /\ Link(s).taken = taken[s] /\ Link(s).wire = wire[s]
         /\ Link(s).watched = watched[s]
BY DEF IsLink, Record, Link

\* What is right stays right.
LEMMA BecomesSided ==
  ASSUME NEW s \in Sock, NEW w, SideIs(s, w), LinkFits(w), CloseIsLast(w)
  PROVE  Sided(s)'
<1>1. Fits(queue'[s], poll'[s], watched'[s], out'[s], taken'[s], wire'[s])
  BY DEF SideIs, LinkFits
<1>2. out'[s] = "up" => ~CloseIsOut(wire'[s])
  BY DEF SideIs, CloseIsLast
<1>3. QED
  BY <1>1, <1>2 DEF Sided, LinkFits, CloseIsLast, Link

EndedLink == [NewLink EXCEPT !.out = "failed"]

LEMMA EndedFacts ==
  /\ LinkFits(EndedLink) /\ CloseIsLast(EndedLink)
  /\ EndedLink.queue = <<>> /\ EndedLink.taken = <<>> /\ EndedLink.wire = <<>>
  /\ EndedLink.out = "failed"
<1>1. EndedLink = Record(<<>>, FALSE, FALSE, "failed", <<>>, <<>>, "kept")
  <2>1. PICK e : e = <<>>
    OBVIOUS
  <2>2. PICK f : f = FALSE
    OBVIOUS
  <2>3. NewLink = [queue |-> e, poll |-> f, watched |-> f, out |-> "up",
                   taken |-> e, wire |-> e, state |-> "kept"]
    BY <2>1, <2>2 DEF NewLink
  <2>4. EndedLink = Record(e, f, f, "failed", e, e, "kept")
    BY <2>3 DEF EndedLink, Record
  <2>5. QED
    BY <2>1, <2>2, <2>4
<1>2. RecordFacts(EndedLink, <<>>, FALSE, FALSE, "failed", <<>>, <<>>, "kept")
  BY <1>1, RecordHas
<1>3. Fits(<<>>, FALSE, FALSE, "failed", <<>>, <<>>)
  <2>1. IsSeq(<<>>) /\ Len(<<>>) = 0
    BY EmptyIsSeq
  <2>2. QED
    BY <2>1 DEF Fits, Queued, Goes, Owed
<1>4. QED
  BY <1>2, <1>3 DEF LinkFits, CloseIsLast, RecordFacts

-----------------------------------------------------------------------------
(* What is invariant. *)

Shape ==
  /\ mode \in Modes
  /\ phase \in [Sock -> {"none", "http", "open", "closing", "gone"}]
  /\ session \in [Sock -> {"new", "on", "off", "refused"}]
  /\ timer \subseteq Sock
  /\ head \in Sock \cup {None}
  /\ next \in [Sock -> Sock \cup {None}] /\ prev \in [Sock -> Sock \cup {None}]
  /\ sends \in Nat
  /\ Sides /\ IsMap(heard) /\ \A s \in Sock : IsSeq(heard[s])

\* The session of a socket is on as long as it is open, and the loop reads
\* only from one that is.
Phases ==
  /\ mode.is = "reading" => phase[mode.sock] = "open"
  /\ \A s \in Sock : session[s] = "on" <=> phase[s] = "open"
  /\ \A s \in Sock : phase[s] \in {"none", "http"} =>
                       session[s] = "new" /\ next[s] = None /\ prev[s] = None

LinksAreGood == \A s \in Sock : Sided(s)
Waits == \A s \in Sock : queue[s] # <<>> => phase[s] \in {"open", "closing"}

\* webSocketHead and the links go through the open sockets, each once.
IsList(n, order) ==
  /\ order \in [1..n -> Sock]
  /\ \A i, j \in 1..n : order[i] = order[j] => i = j
  /\ \A s \in Sock : phase[s] = "open" <=> \E i \in 1..n : order[i] = s
  /\ head = IF n = 0 THEN None ELSE order[1]
  /\ \A i \in 1..n : /\ next[order[i]] = IF i = n THEN None ELSE order[i + 1]
                     /\ prev[order[i]] = IF i = 1 THEN None ELSE order[i - 1]
ListIsRight == \E n \in Nat : \E order : IsList(n, order)

Inv == Shape /\ Phases /\ LinksAreGood /\ Waits /\ DeadlinesAreRight /\ ListIsRight

-----------------------------------------------------------------------------
(* The kinds of steps. *)

Others(s) == \A t \in Sock : t # s => SideKept(t)
Becomes(s, w) == SideIs(s, w) /\ LinkFits(w) /\ CloseIsLast(w)

\* The sending side of s: m is written, the queue is flushed, the socket ends.
Writes(s, m) ==
  Others(s) /\ \E w : Becomes(s, w) /\ Moves(Link(s), w) /\ Gets(Link(s), m, w)
Flushes(s, k) ==
  /\ Others(s)
  /\ \E w : /\ Becomes(s, w) /\ Moves(Link(s), w) /\ w.taken = taken[s]
            /\ k = queue[s][1].left => IsTail(w.queue, queue[s])
            /\ k # queue[s][1].left => SameMessages(w.queue, queue[s])
Stops(s) == Others(s) /\ SideIs(s, EndedLink)
SidesKept == \A t \in Sock : SideKept(t)

\* Its life.
Life == <<phase, timer, links, session>>
Leaves(s) ==
  /\ phase[s] = "open" /\ removeWebSocket(s)
  /\ session' = [session EXCEPT ![s] = "off"]
  /\ phase' = [phase EXCEPT ![s] = "closing"]
  /\ timer' = timer \cup {s}
Joins(s) ==
  /\ phase[s] = "http" /\ addWebSocket(s)
  /\ session' = [session EXCEPT ![s] = "on"]
  /\ phase' = [phase EXCEPT ![s] = "open"]
  /\ timer' = timer \ {s}
Dies(s) ==
  /\ phase[s] \in {"http", "open", "closing"}
  /\ IF phase[s] = "open"
     THEN removeWebSocket(s) /\ \E r \in {"off", "refused"} : session' = [session EXCEPT ![s] = r]
     ELSE UNCHANGED <<links, session>>
  /\ timer' = timer \ {s}
  /\ phase' = [phase EXCEPT ![s] = "gone"]
Starts(s) ==
  /\ phase[s] = "none" /\ phase' = [phase EXCEPT ![s] = "http"]
  /\ timer' = timer \cup {s}
  /\ UNCHANGED <<links, session>>

\* A message that is not one of a broadcast.
Unshared(m) == m.kind # "prepared"
Writing(s) ==
  /\ phase[s] \in {"open", "closing"} /\ UNCHANGED Life /\ UNCHANGED <<refs, heard>>
  /\ \E m : Unshared(m) /\ Writes(s, m)
Leaving(s) == Leaves(s) /\ Writes(s, CloseFrame) /\ UNCHANGED <<refs, heard>>
Joining(s) == Joins(s) /\ Writes(s, Upgrade) /\ UNCHANGED <<refs, heard>>
Flushing(s) ==
  /\ queue[s] # <<>> /\ UNCHANGED Life /\ UNCHANGED heard
  /\ \E k : /\ Flushes(s, k)
            /\ refs' = IF k = queue[s][1].left THEN Released(<<queue[s][1]>>) ELSE refs
Ending(s) ==
  /\ Dies(s) /\ Stops(s) /\ refs' = Released(queue[s])
  /\ heard' = [heard EXCEPT ![s] = <<>>]
Starting(s) ==
  Starts(s) /\ UNCHANGED <<refs, heard>> /\ SidesKept
Hearing ==
  /\ UNCHANGED Life /\ UNCHANGED refs /\ SidesKept
  /\ \/ UNCHANGED heard
     \/ \E s \in Sock : \E m : phase[s] = "open" /\ heard' = [heard EXCEPT ![s] = Append(@, m)]
\* One socket of a broadcast.
Reached(s, m) ==
  \E w : Becomes(s, w) /\ Moves(Link(s), w) /\ Written(Link(s), m, w)
Spreading(n) ==
  /\ UNCHANGED Life /\ UNCHANGED heard
  /\ \A s \in Sock : IF phase[s] = "open" THEN Reached(s, Prepared(n)) ELSE SideKept(s)
  /\ refs' = [refs EXCEPT ![n] = Cardinality({s \in Sock : queue'[s] # queue[s]})]

Kinds ==
  \/ \E s \in Sock : \/ Writing(s) \/ Leaving(s) \/ Joining(s) \/ Flushing(s)
                     \/ Ending(s) \/ Starting(s)
  \/ Hearing
  \/ Spreading(sends + 1) /\ sends' = sends + 1 /\ sends < MaxSends

\* What every step does besides.
Besides ==
  /\ mode' \in Modes
  /\ mode'.is = "reading" => phase'[mode'.sock] = "open"
  /\ sends' \in {sends, sends + 1}
  /\ Sides'

-----------------------------------------------------------------------------
(* Every step is of one of these kinds. *)

LEMMA WriteSide ==
  ASSUME Sides, NEW s \in Sock, Sided(s), NEW m, m # CloseFrame, NEW k \in Sent(out[s]),
         SetLink(s, write(Link(s), m, k))
  PROVE  Sides' /\ Writes(s, m)
<1>1. PICK w : w = write(Link(s), m, k)
  OBVIOUS
<1>2. IsLink(Link(s)) /\ LinkFits(Link(s)) /\ CloseIsLast(Link(s)) /\ k \in Sent(Link(s).out)
  BY LinkIs DEF Sided
<1>3. LinkFits(w) /\ Moves(Link(s), w) /\ Written(Link(s), m, w) /\ CloseIsLast(w)
  BY <1>1, <1>2, WriteFacts
<1>4. Gets(Link(s), m, w)
  BY <1>3, WrittenGets
<1>5. Sides' /\ SideIs(s, w) /\ Others(s)
  BY <1>1, SetLinkFacts DEF Others
<1>6. QED
  BY <1>3, <1>4, <1>5 DEF Writes, Becomes

LEMMA CloseSide ==
  ASSUME Sides, NEW s \in Sock, Sided(s), NEW k \in Sent(out[s]),
         SetLink(s, SentClose(Link(s), k))
  PROVE  Sides' /\ Writes(s, CloseFrame)
<1>1. PICK w : w = SentClose(Link(s), k)
  OBVIOUS
<1>2. IsLink(Link(s)) /\ LinkFits(Link(s)) /\ CloseIsLast(Link(s)) /\ k \in Sent(Link(s).out)
  BY LinkIs DEF Sided
<1>3. LinkFits(w) /\ CloseIsLast(w) /\ Moves(Link(s), w) /\ Gets(Link(s), CloseFrame, w)
  BY <1>1, <1>2, SentCloseFacts
<1>4. Sides' /\ SideIs(s, w) /\ Others(s)
  BY <1>1, SetLinkFacts DEF Others
<1>5. QED
  BY <1>3, <1>4 DEF Writes, Becomes

\* The kinds of messages differ.
LEMMA MessageKinds ==
  ASSUME NEW n, NEW d
  PROVE  /\ Unshared(Own(n)) /\ Unshared(Upgrade) /\ Unshared(CloseFrame) /\ Unshared(Pong(d))
         /\ Own(n) # CloseFrame /\ Upgrade # CloseFrame /\ Pong(d) # CloseFrame
         /\ Prepared(n) # CloseFrame /\ ~Unshared(Prepared(n))
BY DEF Unshared, Own, Upgrade, CloseFrame, Pong, Prepared

LEMMA IdleFacts == Idle \in Modes /\ Idle.is = "idle"
BY DEF Modes, Idle

LEMMA ModeSock ==
  ASSUME NEW m \in Modes, m.is # "idle"
  PROVE  m.sock \in Sock
<1>1. m # Idle
  BY IdleFacts
<1>2. PICK w \in {"greeting", "reading", "handling"}, s \in Sock : m = Doing(w, s)
  BY <1>1 DEF Modes
<1>3. QED
  BY <1>2 DEF Doing

LEMMA ModeFacts ==
  /\ Idle \in Modes /\ Idle.is = "idle"
  /\ \A m \in Modes : m = Idle \/ (m.sock \in Sock /\ m.is \in {"greeting", "reading", "handling"}
                                   /\ m = Doing(m.is, m.sock))
  /\ \A w, s : Doing(w, s).is = w /\ Doing(w, s).sock = s
  /\ \A s \in Sock : Doing("greeting", s) \in Modes /\ Doing("reading", s) \in Modes
                     /\ Doing("handling", s) \in Modes
<1>1. Idle \in Modes /\ Idle.is = "idle"
  BY DEF Modes, Idle
<1>2. \A w, s : Doing(w, s).is = w /\ Doing(w, s).sock = s
  BY DEF Doing
<1>3. \A s \in Sock : Doing("greeting", s) \in Modes /\ Doing("reading", s) \in Modes
                       /\ Doing("handling", s) \in Modes
  BY DEF Modes
<1>4. ASSUME NEW m \in Modes, m # Idle
      PROVE  m.sock \in Sock /\ m.is \in {"greeting", "reading", "handling"}
             /\ m = Doing(m.is, m.sock)
  <2>1. PICK w \in {"greeting", "reading", "handling"}, s \in Sock : m = Doing(w, s)
    BY <1>4 DEF Modes
  <2>2. m.is = w /\ m.sock = s
    BY <1>2, <2>1
  <2>3. QED
    BY <2>1, <2>2
<1>5. QED
  BY <1>1, <1>2, <1>3, <1>4

LEMMA SendStep ==
  ASSUME Inv, NEW s \in Sock, Send(s)
  PROVE  Writing(s) /\ Besides
<1>1. /\ mode \in Modes /\ mode.is # "reading" /\ sends \in Nat /\ Sides /\ Sided(s)
  BY DEF Inv, Shape, LinksAreGood, Send, ServerRuns
<1>2. PICK k \in Sent(out[s]) : SetLink(s, write(Link(s), Own(sends + 1), k))
  BY DEF Send
<1>3. Sides' /\ Writes(s, Own(sends + 1))
  BY <1>1, <1>2, MessageKinds, WriteSide
<1>4. QED
  BY <1>1, <1>3, MessageKinds DEF Send, Writing, Besides, Life, links, input

LEMMA ClosesStep ==
  ASSUME Inv, NEW s \in Sock, phase[s] = "open", NEW k \in Sent(out[s]), Closes(s, k),
         UNCHANGED heard
  PROVE  Leaving(s) /\ Sides'
<1>1. Sides /\ Sided(s) /\ SetLink(s, SentClose(Link(s), k))
  BY DEF Inv, Shape, LinksAreGood, Closes
<1>2. Sides' /\ Writes(s, CloseFrame)
  BY <1>1, CloseSide
<1>3. QED
  BY <1>2 DEF Closes, Leaving, Leaves

LEMMA EndsStep ==
  ASSUME Inv, NEW s \in Sock, phase[s] \in {"http", "open", "closing"},
         NEW r \in {"off", "refused"}, Ends(s, r)
  PROVE  Ending(s) /\ Sides'
<1>1. SetLink(s, EndedLink)
  BY DEF Ends, Forgets, EndedLink
<1>2. Sides' /\ Stops(s)
  BY <1>1, SetLinkFacts DEF Inv, Shape, Stops, Others
<1>3. Dies(s)
  BY DEF Ends, Dies
<1>4. heard' = [heard EXCEPT ![s] = <<>>] /\ refs' = Released(queue[s])
  BY DEF Ends, Forgets, Cancelled
<1>5. QED
  BY <1>2, <1>3, <1>4 DEF Ending

LEMMA QuietStep ==
  ASSUME Sides, UNCHANGED output
  PROVE  Sides' /\ SidesKept /\ UNCHANGED refs
BY DEF Sides, SidesKept, SideKept, SideIs, Link, output

LEMMA UpgradedStep ==
  ASSUME Inv, NEW s \in Sock, Upgraded(s)
  PROVE  Joining(s) /\ Besides
<1>1. Sides /\ Sided(s) /\ queue[s] = <<>> /\ phase \in [Sock -> {"none", "http", "open", "closing", "gone"}]
  BY DEF Inv, Shape, LinksAreGood, Waits, Upgraded
<1>2. PICK k \in Sent(out[s]) \ {Failed} :
        SetLink(s, Entered(write(Link(s), Upgrade, k)))
  BY DEF Upgraded
<1>3. PICK v, w : v = write(Link(s), Upgrade, k) /\ w = Entered(v)
  OBVIOUS
<1>4. IsLink(Link(s)) /\ LinkFits(Link(s)) /\ CloseIsLast(Link(s)) /\ k \in Sent(Link(s).out)
      /\ Link(s).queue = <<>>
  BY <1>1, LinkIs DEF Sided
<1>5. /\ IsLink(v) /\ LinkFits(v) /\ Moves(Link(s), v) /\ Written(Link(s), Upgrade, v)
      /\ CloseIsLast(v) /\ (v.queue = <<>> \/ v.poll)
  BY <1>3, <1>4, WriteFacts, MessageKinds
<1>6. Gets(Link(s), Upgrade, v)
  BY <1>5, WrittenGets
<1>7. /\ LinkFits(w) /\ CloseIsLast(w) /\ w.taken = v.taken /\ w.wire = v.wire
      /\ w.queue = v.queue /\ w.out = v.out
  BY <1>3, <1>5, EnteredFacts
<1>8. Moves(Link(s), w) /\ Gets(Link(s), Upgrade, w)
  BY <1>5, <1>6, <1>7 DEF Moves, Gets
<1>9. Sides' /\ SideIs(s, w) /\ Others(s)
  BY <1>1, <1>2, <1>3, SetLinkFacts DEF Others
<1>10. Writes(s, Upgrade)
  BY <1>7, <1>8, <1>9 DEF Writes, Becomes
<1>11. Joining(s)
  BY <1>10 DEF Upgraded, Joining, Joins, input
<1>12. mode' \in Modes /\ mode'.is # "reading" /\ sends' = sends
  BY ModeFacts DEF Upgraded
<1>13. QED
  BY <1>9, <1>11, <1>12 DEF Besides

LEMMA WritableStep ==
  ASSUME Inv, NEW s \in Sock, Writable(s)
  PROVE  (Flushing(s) \/ Ending(s)) /\ Besides
<1>1. Sides /\ Sided(s) /\ queue[s] # <<>> /\ phase[s] \in {"open", "closing"}
  BY DEF Inv, Shape, LinksAreGood, Waits, Writable
<1>2. mode' \in Modes /\ mode'.is # "reading" /\ sends' = sends
  BY ModeFacts DEF Writable
<1>3. CASE Ends(s, "off")
  BY <1>1, <1>2, <1>3, EndsStep DEF Besides
<1>4. CASE ~Ends(s, "off")
  <2>1. PICK k \in Sent(out[s]) \cap 0..queue[s][1].left :
          /\ SetLink(s, Wrote(s, k))
          /\ refs' = IF k = queue[s][1].left THEN Released(<<queue[s][1]>>) ELSE refs
          /\ UNCHANGED <<phase, timer, links, input, session>>
    BY <1>4 DEF Writable
  <2>2. PICK w : w = Wrote(s, k)
    OBVIOUS
  <2>3. /\ LinkFits(w) /\ CloseIsLast(w) /\ Moves(Link(s), w) /\ w.taken = taken[s]
        /\ k = queue[s][1].left => IsTail(w.queue, queue[s])
        /\ k # queue[s][1].left => SameMessages(w.queue, queue[s])
    BY <1>1, <2>2, WroteFacts DEF Sided
  <2>4. Sides' /\ SideIs(s, w) /\ Others(s)
    BY <1>1, <2>1, <2>2, SetLinkFacts DEF Others
  <2>5. Flushes(s, k)
    BY <2>3, <2>4 DEF Flushes, Becomes
  <2>6. Flushing(s)
    BY <1>1, <2>1, <2>5 DEF Flushing, Life, links, input
  <2>7. QED
    BY <1>2, <2>4, <2>6 DEF Besides
<1>5. QED
  BY <1>3, <1>4

-----------------------------------------------------------------------------
(* forEach visits the open sockets. *)

\* The first k sockets of the list, and its end.
SeenBy(order, n, k) ==
  {x \in Sock \cup {None} : (\E i \in 1..n : i <= k /\ x = order[i]) \/ (k > n /\ x = None)}
Visits(f, k) == IF k = 1 THEN {head} ELSE f[k - 1] \cup {next[s] : s \in f[k - 1] \ {None}}

LEMMA SeenFacts ==
  ASSUME NEW n \in Nat \ {0}, NEW order, IsList(n, order)
  PROVE  /\ SeenBy(order, n, 1) = {head} /\ head # None
         /\ \A k \in Nat : k >= 2 =>
              SeenBy(order, n, k) = SeenBy(order, n, k - 1)
                                      \cup {next[s] : s \in SeenBy(order, n, k - 1) \ {None}}
<1>1. /\ order \in [1..n -> Sock] /\ head = order[1]
      /\ \A i \in 1..n : next[order[i]] = IF i = n THEN None ELSE order[i + 1]
  BY DEF IsList
<1>2. None \notin Sock /\ \A i \in 1..n : order[i] \in Sock /\ order[i] # None
  BY <1>1, TransportAssumption
<1>3. SeenBy(order, n, 1) = {head} /\ head # None
  BY <1>1, <1>2 DEF SeenBy
<1>4. ASSUME NEW k \in Nat, k >= 2
      PROVE  SeenBy(order, n, k) = SeenBy(order, n, k - 1)
                                      \cup {next[s] : s \in SeenBy(order, n, k - 1) \ {None}}
  <2>1. ASSUME NEW x \in SeenBy(order, n, k), x \notin SeenBy(order, n, k - 1)
        PROVE  \E s \in SeenBy(order, n, k - 1) \ {None} : x = next[s]
    <3>1. CASE \E i \in 1..n : i <= k /\ x = order[i]
      <4>1. PICK i \in 1..n : i <= k /\ x = order[i]
        BY <3>1
      <4>2. i = k
        BY <1>4, <2>1, <4>1 DEF SeenBy
      <4>3. k - 1 \in 1..n /\ k - 1 # n
        BY <1>4, <4>2
      <4>4. next[order[k - 1]] = order[(k - 1) + 1] /\ (k - 1) + 1 = k
        BY <1>1, <1>4, <4>3
      <4>5. order[k - 1] \in SeenBy(order, n, k - 1) \ {None}
        BY <1>2, <4>3 DEF SeenBy
      <4>6. QED
        BY <4>1, <4>2, <4>4, <4>5
    <3>2. CASE k > n /\ x = None
      <4>1. k - 1 = n
        BY <1>4, <2>1, <3>2 DEF SeenBy
      <4>2. n \in 1..n /\ next[order[n]] = None
        BY <1>1
      <4>3. order[n] \in SeenBy(order, n, k - 1) \ {None}
        BY <1>2, <4>1, <4>2 DEF SeenBy
      <4>4. QED
        BY <3>2, <4>2, <4>3
    <3>3. QED
      BY <2>1, <3>1, <3>2 DEF SeenBy
  <2>2. SeenBy(order, n, k - 1) \subseteq SeenBy(order, n, k)
    BY <1>4 DEF SeenBy
  <2>3. ASSUME NEW s \in SeenBy(order, n, k - 1) \ {None}
        PROVE  next[s] \in SeenBy(order, n, k)
    <3>1. PICK i \in 1..n : i <= k - 1 /\ s = order[i]
      BY DEF SeenBy
    <3>2. CASE i = n
      <4>1. next[s] = None /\ k > n
        BY <1>1, <1>4, <3>1, <3>2
      <4>2. QED
        BY <4>1 DEF SeenBy
    <3>3. CASE i # n
      <4>1. next[s] = order[i + 1] /\ i + 1 \in 1..n /\ i + 1 <= k
        BY <1>1, <1>4, <3>1, <3>3
      <4>2. order[i + 1] \in Sock
        BY <1>2, <4>1
      <4>3. QED
        BY <4>1, <4>2 DEF SeenBy
    <3>4. QED
      BY <3>2, <3>3
  <2>4. QED
    BY <2>1, <2>2, <2>3
<1>5. QED
  BY <1>3, <1>4

LEMMA ListIsShort ==
  ASSUME NEW n \in Nat, NEW order, IsList(n, order)
  PROVE  Cardinality(Sock) \in Nat /\ n <= Cardinality(Sock)
<1>1. order \in Injection(1..n, Sock)
  BY DEF IsList, Injection, IsInjective
<1>2. IsFiniteSet(Sock)
  BY TransportAssumption
<1>3. Cardinality(1..n) <= Cardinality(Sock)
  BY <1>1, <1>2, FS_Injection
<1>4. Cardinality(1..n) = n
  BY FS_Interval
<1>5. QED
  BY <1>2, <1>3, <1>4, FS_CardinalityType

LEMMA ListedIsOpen ==
  ASSUME ListIsRight
  PROVE  Listed = {s \in Sock : phase[s] = "open"}
<1>1. PICK n, order : n \in Nat /\ IsList(n, order)
  BY DEF ListIsRight
<1>2. CASE n = 0
  <2>1. head = None /\ {s \in Sock : phase[s] = "open"} = {}
    BY <1>1, <1>2 DEF IsList
  <2>2. QED
    BY <2>1 DEF Listed
<1>3. CASE n # 0
  <2> DEFINE N == Cardinality(Sock)
             G == [k \in 1..N |-> SeenBy(order, n, k)]
             within[k \in 1..N] ==
               IF k = 1 THEN {head} ELSE within[k - 1] \cup {next[s] : s \in within[k - 1] \ {None}}
  <2>1. N \in Nat /\ n <= N /\ n \in Nat \ {0}
    BY <1>1, <1>3, ListIsShort
  <2>2. /\ SeenBy(order, n, 1) = {head} /\ head # None
        /\ \A k \in Nat : k >= 2 =>
             SeenBy(order, n, k) = SeenBy(order, n, k - 1)
                                     \cup {next[s] : s \in SeenBy(order, n, k - 1) \ {None}}
    BY <1>1, <2>1, SeenFacts
  <2>3. Listed = within[N] \ {None}
    BY <2>2 DEF Listed
  <2> HIDE DEF N
  <2>4. G = [k \in 1..N |-> Visits(G, k)]
    <3>1. ASSUME NEW k \in 1..N
          PROVE  SeenBy(order, n, k) = Visits(G, k)
      <4>1. CASE k = 1
        BY <2>2, <4>1 DEF Visits
      <4>2. CASE k # 1
        <5>1. k \in Nat /\ k >= 2 /\ k - 1 \in 1..N
          BY <2>1, <4>2
        <5>2. G[k - 1] = SeenBy(order, n, k - 1)
          BY <5>1
        <5> HIDE DEF G
        <5>3. QED
          BY <2>2, <4>2, <5>1, <5>2 DEF Visits
      <4>3. QED
        BY <4>1, <4>2
    <3>2. QED
      BY <3>1
  <2>5. within = CHOOSE f : f = [k \in 1..N |->
               IF k = 1 THEN {head} ELSE f[k - 1] \cup {next[s] : s \in f[k - 1] \ {None}}]
    OBVIOUS
  <2> HIDE DEF within, G
  <2>6. within = [k \in 1..N |-> Visits(within, k)]
    <3>1. within = CHOOSE f : f = [k \in 1..N |-> Visits(f, k)]
      BY <2>5, Zenon DEF Visits
    <3>2. QED
      BY <2>4, <3>1, Zenon
  <2>7. 0..N \subseteq {k \in 0..N : k = 0 \/ within[k] = SeenBy(order, n, k)}
    <3> DEFINE S == {k \in 0..N : k = 0 \/ within[k] = SeenBy(order, n, k)}
    <3>1. 0 \in S
      BY <2>1
    <3>2. ASSUME NEW k \in 1..N, k - 1 \in S
          PROVE  k \in S
      <4>1. within[k] = Visits(within, k)
        BY <2>6
      <4>2. CASE k = 1
        BY <2>2, <4>1, <4>2 DEF Visits
      <4>3. CASE k # 1
        <5>1. k \in Nat /\ k >= 2 /\ within[k - 1] = SeenBy(order, n, k - 1)
          BY <2>1, <3>2, <4>3
        <5>2. within[k] = SeenBy(order, n, k)
          BY <2>2, <4>1, <4>3, <5>1 DEF Visits
        <5>3. QED
          BY <5>2
      <4>4. QED
        BY <4>2, <4>3
    <3> HIDE DEF S
    <3>3. 0..N \subseteq S
      BY <2>1, <3>1, <3>2, UpTo
    <3>4. QED
      BY <3>3 DEF S
  <2>8. within[N] = SeenBy(order, n, N)
    BY <2>1, <2>7
  <2>9. SeenBy(order, n, N) \ {None} = {s \in Sock : phase[s] = "open"}
    <3>1. \A s \in Sock : phase[s] = "open" <=> \E i \in 1..n : order[i] = s
      BY <1>1 DEF IsList
    <3>2. \A i \in 1..n : i <= N
      BY <2>1
    <3>3. None \notin Sock
      BY TransportAssumption
    <3>4. QED
      BY <3>1, <3>2, <3>3 DEF SeenBy
  <2>10. QED
    BY <2>3, <2>8, <2>9
<1>4. QED
  BY <1>2, <1>3

-----------------------------------------------------------------------------
(* The other actions. *)

OneSocket == \E s \in Sock : \/ Writing(s) \/ Leaving(s) \/ Joining(s) \/ Flushing(s)
                       \/ Ending(s) \/ Starting(s)

LEMMA CloseStep ==
  ASSUME Inv, NEW s \in Sock, Close(s)
  PROVE  Leaving(s) /\ Besides
<1>1. PICK k \in Sent(out[s]) : Closes(s, k)
  BY DEF Close
<1>2. Leaving(s) /\ Sides'
  BY <1>1, ClosesStep DEF Close, input
<1>3. mode' \in Modes /\ mode'.is # "reading" /\ sends' = sends
  BY DEF Close, ServerRuns, Inv, Shape
<1>4. QED
  BY <1>2, <1>3 DEF Besides

LEMMA AcceptStep ==
  ASSUME Inv, NEW s \in Sock, Accept(s)
  PROVE  Starting(s) /\ Besides
<1>1. Sides' /\ SidesKept /\ UNCHANGED refs
  BY QuietStep DEF Inv, Shape, Accept
<1>2. mode' \in Modes /\ mode'.is # "reading" /\ sends' = sends
  BY ModeFacts DEF Accept
<1>3. QED
  BY <1>1, <1>2 DEF Accept, Starting, Starts, Besides, input

LEMMA EndedStep ==
  ASSUME Inv, NEW s \in Sock, Ended(s) \/ Timeout(s)
  PROVE  Ending(s) /\ Besides
<1>1. phase[s] \in {"http", "open", "closing"} /\ Ends(s, "off")
  BY DEF Ended, Timeout, Inv, DeadlinesAreRight
<1>2. Ending(s) /\ Sides'
  BY <1>1, EndsStep
<1>3. mode' \in Modes /\ mode'.is # "reading" /\ sends' = sends
  BY ModeFacts DEF Ended, Timeout
<1>4. QED
  BY <1>2, <1>3 DEF Besides

LEMMA ReadableStep ==
  ASSUME Inv, NEW s \in Sock, Readable(s)
  PROVE  Hearing /\ Besides
<1>1. Sides' /\ SidesKept /\ UNCHANGED refs
  BY QuietStep DEF Inv, Shape, Readable
<1>2. UNCHANGED <<phase, timer, links, heard, session, sends>>
  BY DEF Readable
<1>3. mode' = mode \/ (phase[s] = "open" /\ mode' = Doing("reading", s))
  BY DEF Readable
<1>4. mode' \in Modes /\ (mode'.is = "reading" => phase'[mode'.sock] = "open")
  BY <1>2, <1>3, ModeFacts DEF Readable
<1>5. QED
  BY <1>1, <1>2, <1>4 DEF Hearing, Besides, Life

LEMMA ReturnStep ==
  ASSUME Inv, Return
  PROVE  Hearing /\ Besides
<1>1. Sides' /\ SidesKept /\ UNCHANGED refs
  BY QuietStep DEF Inv, Shape, Return
<1>2. UNCHANGED <<phase, timer, links, heard, session, sends>>
  BY DEF Return
<1>3. mode \in Modes /\ mode # Idle
  BY ModeFacts DEF Return, Inv, Shape
<1>4. mode' = Idle \/ (phase[mode.sock] = "open" /\ mode' = Doing("reading", mode.sock))
  BY DEF Return
<1>5. mode' \in Modes /\ (mode'.is = "reading" => phase'[mode'.sock] = "open")
  BY <1>2, <1>3, <1>4, ModeFacts
<1>6. QED
  BY <1>1, <1>2, <1>5 DEF Hearing, Besides, Life

LEMMA ConsumeStep ==
  ASSUME Inv, Consume
  PROVE  (OneSocket \/ Hearing) /\ Besides
<1> DEFINE s == mode.sock
           turn == consume(script[s], parser[s], src[s])
           event == turn.event
           goesOn == IF turn.src = <<>> THEN Idle ELSE mode
<1>1. s \in Sock /\ phase[s] = "open" /\ Sides /\ Sided(s)
  <2>1. mode \in Modes /\ mode.is = "reading"
    BY Zenon DEF Consume, Inv, Shape
  <2>2. s \in Sock
    <3>1. mode.is # "idle"
      BY <2>1, Zenon
    <3>2. QED
      BY <2>1, <3>1, ModeSock, Zenon
  <2>3. QED
    BY <2>1, <2>2 DEF Inv, Shape, Phases, LinksAreGood
<1>2. sends' = sends /\ mode \in Modes
  BY DEF Consume, Inv, Shape
<1>3. goesOn \in Modes /\ (goesOn.is = "reading" => goesOn.sock = s)
  <2>1. goesOn = Idle \/ goesOn = mode
    BY Zenon
  <2>2. Idle \in Modes /\ Idle.is # "reading"
    BY IdleFacts
  <2> HIDE DEF goesOn
  <2>3. QED
    BY <1>2, <2>1, <2>2
<1>4. \/ /\ mode' = goesOn /\ UNCHANGED <<phase, timer, output, links, heard, session>>
      \/ /\ mode' = Doing("handling", s) /\ UNCHANGED <<phase, timer, output, links, session>>
         /\ heard' = [heard EXCEPT ![s] = Append(@, [op |-> event.op, data |-> event.data])]
      \/ /\ mode' = goesOn /\ UNCHANGED <<phase, timer, refs, links, heard, session>>
         /\ \E k \in Sent(out[s]) : SetLink(s, write(Link(s), Pong(event.data), k))
      \/ /\ mode' = Idle /\ UNCHANGED heard /\ \E k \in Sent(out[s]) : Closes(s, k)
      \/ mode' = Idle /\ Ends(s, "refused")
  BY Zenon DEF Consume
<1> HIDE DEF goesOn, turn, event, s
<1>5. CASE /\ mode' = goesOn /\ UNCHANGED <<phase, timer, output, links, heard, session>>
  <2>1. Sides' /\ SidesKept /\ UNCHANGED refs
    BY <1>1, <1>5, QuietStep
  <2>2. QED
    BY <1>1, <1>2, <1>3, <1>5, <2>1 DEF Hearing, Besides, Life
<1>6. CASE /\ mode' = Doing("handling", s) /\ UNCHANGED <<phase, timer, output, links, session>>
           /\ heard' = [heard EXCEPT ![s] = Append(@, [op |-> event.op, data |-> event.data])]
  <2>1. Sides' /\ SidesKept /\ UNCHANGED refs
    BY <1>1, <1>6, QuietStep
  <2>2. mode' \in Modes /\ mode'.is # "reading"
    BY <1>1, <1>6, ModeFacts
  <2>3. Hearing
    BY <1>1, <1>6, <2>1 DEF Hearing, Life
  <2>4. QED
    BY <1>2, <2>1, <2>2, <2>3 DEF Besides
<1>7. CASE /\ mode' = goesOn /\ UNCHANGED <<phase, timer, refs, links, heard, session>>
           /\ \E k \in Sent(out[s]) : SetLink(s, write(Link(s), Pong(event.data), k))
  <2>1. Sides' /\ Writes(s, Pong(event.data))
    BY <1>1, <1>7, MessageKinds, WriteSide
  <2>2. Writing(s)
    BY <1>1, <1>7, <2>1, MessageKinds DEF Writing, Life
  <2>3. QED
    BY <1>1, <1>2, <1>3, <1>7, <2>1, <2>2 DEF OneSocket, Besides
<1>8. CASE mode' = Idle /\ UNCHANGED heard /\ \E k \in Sent(out[s]) : Closes(s, k)
  <2>1. Leaving(s) /\ Sides'
    BY <1>1, <1>8, ClosesStep
  <2>2. QED
    BY <1>1, <1>2, <1>8, <2>1, ModeFacts DEF OneSocket, Besides
<1>9. CASE mode' = Idle /\ Ends(s, "refused")
  <2>1. Ending(s) /\ Sides'
    BY <1>1, <1>9, EndsStep
  <2>2. QED
    BY <1>1, <1>2, <1>9, <2>1, ModeFacts DEF OneSocket, Besides
<1>10. QED
  BY <1>4, <1>5, <1>6, <1>7, <1>8, <1>9

LEMMA BroadcastStep ==
  ASSUME Inv, Broadcast
  PROVE  Spreading(sends + 1) /\ sends' = sends + 1 /\ sends < MaxSends /\ Besides
<1> DEFINE n == sends + 1
           to == {s \in Sock : phase[s] = "open"}
<1>1. Listed = to
  BY ListedIsOpen DEF Inv
<1>2. sends' = sends + 1 /\ sends < MaxSends /\ UNCHANGED <<mode, phase, timer, links, heard, session>>
  BY DEF Broadcast, input
<1> DEFINE Reach(D) ==
      \E taking \in {f \in [D -> 0..Failed] : \A s \in D : f[s] \in Sent(out[s])} :
        LET after == [s \in Sock |-> IF s \in D THEN write(Link(s), Prepared(n), taking[s])
                                                ELSE Link(s)] IN
        /\ queue' = [s \in Sock |-> after[s].queue]
        /\ poll' = [s \in Sock |-> after[s].poll]
        /\ watched' = [s \in Sock |-> after[s].watched]
        /\ out' = [s \in Sock |-> after[s].out]
        /\ taken' = [s \in Sock |-> after[s].taken]
        /\ wire' = [s \in Sock |-> after[s].wire]
        /\ refs' = [refs EXCEPT ![n] = Cardinality({s \in D : after[s].state = "queued"})]
<1>a. Reach(Listed)
  BY Zenon DEF Broadcast
<1>b. Reach(to)
  <2> HIDE DEF Reach, to
  <2> QED
    BY <1>1, <1>a
<1>3. PICK taking \in {f \in [to -> 0..Failed] : \A s \in to : f[s] \in Sent(out[s])} :
        LET after == [s \in Sock |-> IF s \in to THEN write(Link(s), Prepared(n), taking[s])
                                                 ELSE Link(s)] IN
        /\ queue' = [s \in Sock |-> after[s].queue]
        /\ poll' = [s \in Sock |-> after[s].poll]
        /\ watched' = [s \in Sock |-> after[s].watched]
        /\ out' = [s \in Sock |-> after[s].out]
        /\ taken' = [s \in Sock |-> after[s].taken]
        /\ wire' = [s \in Sock |-> after[s].wire]
        /\ refs' = [refs EXCEPT ![n] = Cardinality({s \in to : after[s].state = "queued"})]
  <2> HIDE DEF to, n
  <2> QED
    BY <1>b, Zenon
<1> HIDE DEF n, to
<1> DEFINE after == [s \in Sock |-> IF s \in to THEN write(Link(s), Prepared(n), taking[s])
                                                ELSE Link(s)]
<1>4. \A s \in Sock : after[s] = IF s \in to THEN write(Link(s), Prepared(n), taking[s]) ELSE Link(s)
  OBVIOUS
<1>5. /\ queue' = [s \in Sock |-> after[s].queue]
      /\ poll' = [s \in Sock |-> after[s].poll]
      /\ watched' = [s \in Sock |-> after[s].watched]
      /\ out' = [s \in Sock |-> after[s].out]
      /\ taken' = [s \in Sock |-> after[s].taken]
      /\ wire' = [s \in Sock |-> after[s].wire]
      /\ refs' = [refs EXCEPT ![n] = Cardinality({s \in to : after[s].state = "queued"})]
  BY <1>3, Zenon
<1> HIDE DEF after
<1>6. Sides'
  BY <1>5 DEF Sides, IsMap
<1>7. \A s \in Sock : SideIs(s, after[s])
  BY <1>5 DEF SideIs
<1>8. ASSUME NEW s \in Sock, s \in to
      PROVE  /\ Reached(s, Prepared(n))
             /\ after[s].state = "queued" <=> queue'[s] # queue[s]
  <2>1. PICK w, k : w = write(Link(s), Prepared(n), k) /\ k = taking[s] /\ w = after[s]
    BY <1>4, <1>8
  <2>2. /\ IsLink(Link(s)) /\ LinkFits(Link(s)) /\ CloseIsLast(Link(s)) /\ k \in Sent(Link(s).out)
        /\ IsSeq(queue[s])
    <3>1. taking[s] \in Sent(out[s])
      BY <1>3, <1>8
    <3>2. QED
      BY <1>8, <2>1, <3>1, LinkIs DEF Sided, Inv, LinksAreGood, LinkFits, Fits
  <2>3. /\ LinkFits(w) /\ CloseIsLast(w) /\ Moves(Link(s), w) /\ Written(Link(s), Prepared(n), w)
    BY <2>1, <2>2, WriteFacts, MessageKinds
  <2>4. SideIs(s, w)
    BY <1>7, <2>1
  <2>5. Reached(s, Prepared(n))
    BY <2>3, <2>4 DEF Reached, Becomes
  <2>6. w.state = "queued" <=> queue'[s] # queue[s]
    <3>1. queue'[s] = w.queue /\ Link(s).queue = queue[s]
      BY <2>4, LinkIs DEF SideIs
    <3>2. CASE w.state = "queued"
      <4>1. PICK e : w.queue = Append(queue[s], [msg |-> Prepared(n), left |-> e])
        BY <2>3, <3>1, <3>2 DEF Written
      <4>2. Appended(queue'[s], queue[s], [msg |-> Prepared(n), left |-> e])
        BY <3>1, <4>1 DEF Appended
      <4>3. Len(queue'[s]) = Len(queue[s]) + 1 /\ Len(queue[s]) \in Nat
        BY <2>2, <4>2, AppendFacts, SeqFacts
      <4>4. QED
        BY <3>2, <4>3
    <3>3. CASE w.state # "queued"
      BY <2>3, <3>1, <3>3 DEF Written
    <3>4. QED
      BY <3>2, <3>3
  <2>7. QED
    BY <2>1, <2>5, <2>6
<1>9. ASSUME NEW s \in Sock, s \notin to
      PROVE  SideKept(s) /\ queue'[s] = queue[s]
  <2>1. SideIs(s, Link(s))
    BY <1>4, <1>7, <1>9
  <2>2. QED
    BY <2>1, LinkIs DEF SideKept, SideIs
<1>10. {s \in to : after[s].state = "queued"} = {s \in Sock : queue'[s] # queue[s]}
  <2>1. to \subseteq Sock
    BY DEF to
  <2>2. QED
    BY <1>8, <1>9, <2>1
<1>11. Spreading(n)
  <2>1. \A s \in Sock : IF phase[s] = "open" THEN Reached(s, Prepared(n)) ELSE SideKept(s)
    BY <1>8, <1>9 DEF to
  <2>2. QED
    BY <1>2, <1>5, <1>10, <2>1 DEF Spreading, Life
<1>12. mode' \in Modes /\ mode'.is # "reading"
  BY <1>2 DEF Broadcast, ServerRuns, Inv, Shape
<1>13. QED
  BY <1>2, <1>6, <1>11, <1>12 DEF Besides, n

\* Every step is of a kind.
LEMMA StepKinds ==
  ASSUME Inv, [Next]_vars
  PROVE  Kinds /\ Besides
<1>1. CASE Broadcast
  BY <1>1, BroadcastStep DEF Kinds
<1>2. CASE Return
  BY <1>2, ReturnStep DEF Kinds
<1>3. CASE Consume
  BY <1>3, ConsumeStep DEF Kinds, OneSocket
<1>4. CASE UNCHANGED vars
  <2>1. Sides' /\ SidesKept /\ UNCHANGED refs
    BY <1>4, QuietStep DEF Inv, Shape, vars
  <2>2. UNCHANGED <<mode, phase, timer, links, heard, session, sends>>
    BY <1>4 DEF vars, input
  <2>3. mode \in Modes /\ (mode.is = "reading" => phase[mode.sock] = "open")
    BY DEF Inv, Shape, Phases
  <2>4. QED
    BY <2>1, <2>2, <2>3 DEF Kinds, Hearing, Besides, Life
<1>5. ASSUME NEW s \in Sock, SocketStep(s)
      PROVE  Kinds /\ Besides
  <2>1. CASE Send(s)
    BY <2>1, SendStep DEF Kinds
  <2>2. CASE Close(s)
    BY <2>2, CloseStep DEF Kinds
  <2>3. CASE Accept(s)
    BY <2>3, AcceptStep DEF Kinds
  <2>4. CASE Upgraded(s)
    BY <2>4, UpgradedStep DEF Kinds
  <2>5. CASE Ended(s) \/ Timeout(s)
    BY <2>5, EndedStep DEF Kinds
  <2>6. CASE Writable(s)
    BY <2>6, WritableStep DEF Kinds
  <2>7. CASE Readable(s)
    BY <2>7, ReadableStep DEF Kinds
  <2>8. QED
    BY <1>5, <2>1, <2>2, <2>3, <2>4, <2>5, <2>6, <2>7 DEF SocketStep
<1>6. QED
  BY <1>1, <1>2, <1>3, <1>4, <1>5 DEF Next

-----------------------------------------------------------------------------
(* The life of the sockets. *)

LifeGoes ==
  \/ UNCHANGED Life
  \/ \E s \in Sock : Leaves(s) \/ Joins(s) \/ Dies(s) \/ Starts(s)

LEMMA KindsLive ==
  ASSUME Kinds
  PROVE  LifeGoes
BY DEF Kinds, LifeGoes, Writing, Leaving, Joining, Flushing, Ending, Starting, Hearing, Spreading

LifeShape ==
  /\ phase \in [Sock -> {"none", "http", "open", "closing", "gone"}]
  /\ session \in [Sock -> {"new", "on", "off", "refused"}]
  /\ timer \subseteq Sock
  /\ head \in Sock \cup {None}
  /\ next \in [Sock -> Sock \cup {None}] /\ prev \in [Sock -> Sock \cup {None}]

LEMMA LifeShapeKept ==
  ASSUME LifeShape, LifeGoes
  PROVE  LifeShape'
<1>1. CASE UNCHANGED Life
  BY <1>1 DEF Life, LifeShape, links
<1>2. ASSUME NEW s \in Sock, removeWebSocket(s)
      PROVE  head' \in Sock \cup {None} /\ next' \in [Sock -> Sock \cup {None}]
             /\ prev' \in [Sock -> Sock \cup {None}]
  BY <1>2 DEF LifeShape, removeWebSocket
<1>3. ASSUME NEW s \in Sock, Leaves(s)
      PROVE  LifeShape'
  BY <1>2, <1>3 DEF LifeShape, Leaves
<1>4. ASSUME NEW s \in Sock, Joins(s)
      PROVE  LifeShape'
  BY <1>4 DEF LifeShape, Joins, addWebSocket
<1>5. ASSUME NEW s \in Sock, Dies(s)
      PROVE  LifeShape'
  BY <1>2, <1>5 DEF LifeShape, Dies, links
<1>6. ASSUME NEW s \in Sock, Starts(s)
      PROVE  LifeShape'
  BY <1>6 DEF LifeShape, Starts, links
<1>7. QED
  BY <1>1, <1>3, <1>4, <1>5, <1>6 DEF LifeGoes

LEMMA DeadlinesKept ==
  ASSUME LifeShape, DeadlinesAreRight, LifeGoes
  PROVE  DeadlinesAreRight'
<1> USE DEF LifeShape, DeadlinesAreRight
<1>1. CASE UNCHANGED Life
  BY <1>1 DEF Life
<1>2. ASSUME NEW s \in Sock, Leaves(s)
      PROVE  DeadlinesAreRight'
  BY <1>2 DEF Leaves
<1>3. ASSUME NEW s \in Sock, Joins(s)
      PROVE  DeadlinesAreRight'
  BY <1>3 DEF Joins
<1>4. ASSUME NEW s \in Sock, Dies(s)
      PROVE  DeadlinesAreRight'
  BY <1>4 DEF Dies
<1>5. ASSUME NEW s \in Sock, Starts(s)
      PROVE  DeadlinesAreRight'
  BY <1>5 DEF Starts
<1>6. QED
  BY <1>1, <1>2, <1>3, <1>4, <1>5 DEF LifeGoes

\* Who is linked is open.
LEMMA Neighbours ==
  ASSUME ListIsRight
  PROVE  /\ head \in Sock => phase[head] = "open"
         /\ \A s \in Sock : phase[s] = "open" =>
              /\ next[s] \in Sock => phase[next[s]] = "open"
              /\ prev[s] \in Sock => phase[prev[s]] = "open"
<1>1. PICK n, order : n \in Nat /\ IsList(n, order)
  BY DEF ListIsRight
<1>2. None \notin Sock
  BY TransportAssumption
<1>3. head \in Sock => phase[head] = "open"
  <2> SUFFICES ASSUME head \in Sock
               PROVE  phase[head] = "open"
    OBVIOUS
  <2>1. n # 0 /\ head = order[1] /\ 1 \in 1..n
    BY <1>1, <1>2 DEF IsList
  <2>2. QED
    BY <1>1, <2>1 DEF IsList
<1>4. ASSUME NEW s \in Sock, phase[s] = "open"
      PROVE  /\ next[s] \in Sock => phase[next[s]] = "open"
             /\ prev[s] \in Sock => phase[prev[s]] = "open"
  <2>1. PICK i \in 1..n : order[i] = s
    BY <1>1, <1>4 DEF IsList
  <2>2. next[s] \in Sock => i # n /\ next[s] = order[i + 1]
    BY <1>1, <1>2, <2>1 DEF IsList
  <2>3. prev[s] \in Sock => i # 1 /\ prev[s] = order[i - 1]
    BY <1>1, <1>2, <2>1 DEF IsList
  <2>4. (i # n => i + 1 \in 1..n) /\ (i # 1 => i - 1 \in 1..n)
    BY <1>1
  <2>5. QED
    BY <1>1, <2>2, <2>3, <2>4 DEF IsList
<1>5. QED
  BY <1>3, <1>4

SessionsFit ==
  /\ \A s \in Sock : session[s] = "on" <=> phase[s] = "open"
  /\ \A s \in Sock : phase[s] \in {"none", "http"} =>
                       session[s] = "new" /\ next[s] = None /\ prev[s] = None

LEMMA SessionsKept ==
  ASSUME LifeShape, SessionsFit, ListIsRight, LifeGoes
  PROVE  SessionsFit'
<1>0. None \notin Sock
  BY TransportAssumption
<1> USE DEF LifeShape
<1>1. CASE UNCHANGED Life
  BY <1>1 DEF Life, links, SessionsFit
<1>2. ASSUME NEW s \in Sock, phase[s] = "open", removeWebSocket(s),
             NEW t \in Sock, phase[t] \in {"none", "http"}
      PROVE  next'[t] = None /\ prev'[t] = None
  <2>1. t # next[s] /\ t # prev[s]
    BY <1>2, Neighbours
  <2>2. next'[t] = next[t] /\ prev'[t] = prev[t]
    BY <1>2, <2>1 DEF removeWebSocket
  <2>3. QED
    BY <1>2, <2>2 DEF SessionsFit
<1>3. ASSUME NEW s \in Sock, Leaves(s)
      PROVE  SessionsFit'
  <2>1. \A t \in Sock : t # s => phase'[t] = phase[t] /\ session'[t] = session[t]
    BY <1>3 DEF Leaves
  <2>2. phase'[s] = "closing" /\ session'[s] = "off" /\ phase[s] = "open" /\ removeWebSocket(s)
    BY <1>3 DEF Leaves
  <2>3. QED
    BY <1>2, <2>1, <2>2 DEF SessionsFit
<1>4. ASSUME NEW s \in Sock, Joins(s)
      PROVE  SessionsFit'
  <2>1. \A t \in Sock : t # s => phase'[t] = phase[t] /\ session'[t] = session[t]
    BY <1>4 DEF Joins
  <2>2. phase'[s] = "open" /\ session'[s] = "on"
    BY <1>4 DEF Joins
  <2>3. ASSUME NEW t \in Sock, t # s, phase[t] \in {"none", "http"}
        PROVE  next'[t] = None /\ prev'[t] = None
    <3>1. t # head
      BY <2>3, Neighbours
    <3>2. next'[t] = next[t] /\ prev'[t] = prev[t]
      BY <1>4, <2>3, <3>1 DEF Joins, addWebSocket
    <3>3. QED
      BY <2>3, <3>2 DEF SessionsFit
  <2>4. QED
    BY <2>1, <2>2, <2>3 DEF SessionsFit
<1>5. ASSUME NEW s \in Sock, Dies(s)
      PROVE  SessionsFit'
  <2>1. (\A t \in Sock : t # s => phase'[t] = phase[t]) /\ phase'[s] = "gone"
    BY <1>5 DEF Dies
  <2>2. CASE phase[s] = "open"
    <3>1. removeWebSocket(s) /\ \E r \in {"off", "refused"} : session' = [session EXCEPT ![s] = r]
      BY <1>5, <2>2 DEF Dies
    <3>2. (\A t \in Sock : t # s => session'[t] = session[t]) /\ session'[s] # "on"
      BY <3>1
    <3>3. QED
      BY <1>2, <2>1, <2>2, <3>1, <3>2 DEF SessionsFit
  <2>3. CASE phase[s] # "open"
    <3>1. UNCHANGED <<links, session>>
      BY <1>5, <2>3 DEF Dies
    <3>2. QED
      BY <2>1, <2>3, <3>1 DEF SessionsFit, links
  <2>4. QED
    BY <2>2, <2>3
<1>6. ASSUME NEW s \in Sock, Starts(s)
      PROVE  SessionsFit'
  BY <1>6 DEF Starts, SessionsFit, links
<1>7. QED
  BY <1>1, <1>3, <1>4, <1>5, <1>6 DEF LifeGoes

\* A socket is put before the list.
LEMMA ListGrows ==
  ASSUME LifeShape, SessionsFit, NEW n \in Nat, NEW order, IsList(n, order),
         NEW s \in Sock, Joins(s)
  PROVE  ListIsRight'
<1> DEFINE more == [i \in 1..(n + 1) |-> IF i = 1 THEN s ELSE order[i - 1]]
<1>0. None \notin Sock /\ next[s] = None /\ prev[s] = None /\ phase[s] = "http"
  BY TransportAssumption DEF SessionsFit, Joins
<1>1. /\ order \in [1..n -> Sock]
      /\ \A i, j \in 1..n : order[i] = order[j] => i = j
      /\ \A t \in Sock : phase[t] = "open" <=> \E i \in 1..n : order[i] = t
      /\ head = IF n = 0 THEN None ELSE order[1]
      /\ \A i \in 1..n : /\ next[order[i]] = IF i = n THEN None ELSE order[i + 1]
                         /\ prev[order[i]] = IF i = 1 THEN None ELSE order[i - 1]
  BY DEF IsList
<1>2. /\ more \in [1..(n + 1) -> Sock] /\ more[1] = s
      /\ \A i \in 2..(n + 1) : i - 1 \in 1..n /\ more[i] = order[i - 1] /\ more[i] # s
      /\ \A i \in 1..n : i + 1 \in 2..(n + 1) /\ more[i + 1] = order[i]
  <2>1. \A i \in 2..(n + 1) : i - 1 \in 1..n /\ i # 1
    OBVIOUS
  <2>2. \A i \in 1..n : i + 1 \in 2..(n + 1) /\ (i + 1) - 1 = i /\ i + 1 # 1
    OBVIOUS
  <2>3. \A i \in 1..n : order[i] \in Sock /\ order[i] # s
    BY <1>0, <1>1
  <2>4. \A i \in 1..(n + 1) : i = 1 \/ i \in 2..(n + 1)
    OBVIOUS
  <2>5. more \in [1..(n + 1) -> Sock]
    BY <2>1, <2>3, <2>4
  <2>6. more[1] = s
    OBVIOUS
  <2>7. \A i \in 2..(n + 1) : more[i] = order[i - 1]
    OBVIOUS
  <2> HIDE DEF more
  <2>8. \A i \in 1..n : more[i + 1] = order[i]
    <3> SUFFICES ASSUME NEW i \in 1..n
                 PROVE  more[i + 1] = order[i]
      OBVIOUS
    <3>1. more[i + 1] = order[(i + 1) - 1]
      BY <2>2, <2>7
    <3>2. QED
      BY <2>2, <3>1
  <2>9. QED
    BY <2>1, <2>2, <2>3, <2>5, <2>6, <2>7, <2>8
<1> HIDE DEF more
<1>3. \A i, j \in 1..(n + 1) : more[i] = more[j] => i = j
  <2> SUFFICES ASSUME NEW i \in 1..(n + 1), NEW j \in 1..(n + 1), more[i] = more[j]
               PROVE  i = j
    OBVIOUS
  <2>1. (i = 1 \/ i \in 2..(n + 1)) /\ (j = 1 \/ j \in 2..(n + 1))
    OBVIOUS
  <2>2. CASE i = 1 \/ j = 1
    BY <1>2, <2>1, <2>2
  <2>3. CASE i \in 2..(n + 1) /\ j \in 2..(n + 1)
    <3>1. order[i - 1] = order[j - 1] /\ i - 1 \in 1..n /\ j - 1 \in 1..n
      BY <1>2, <2>3
    <3>2. i - 1 = j - 1
      BY <1>1, <3>1
    <3>3. QED
      BY <3>2
  <2>4. QED
    BY <2>1, <2>2, <2>3
<1>4. \A t \in Sock : phase'[t] = "open" <=> \E i \in 1..(n + 1) : more[i] = t
  <2> SUFFICES ASSUME NEW t \in Sock
               PROVE  phase'[t] = "open" <=> \E i \in 1..(n + 1) : more[i] = t
    OBVIOUS
  <2>1. phase'[t] = "open" <=> t = s \/ phase[t] = "open"
    BY DEF LifeShape, Joins
  <2>2. (\E i \in 1..(n + 1) : more[i] = t) <=> t = s \/ \E i \in 1..n : order[i] = t
    <3>1. \A i \in 1..(n + 1) : i = 1 \/ i \in 2..(n + 1)
      OBVIOUS
    <3>2. 1 \in 1..(n + 1) /\ \A i \in 2..(n + 1) : i \in 1..(n + 1)
      OBVIOUS
    <3>3. QED
      BY <1>2, <3>1, <3>2
  <2>3. QED
    BY <1>1, <2>1, <2>2
<1>5. head' = more[1] /\ n + 1 # 0
  BY <1>2 DEF Joins, addWebSocket
<1>6. next'[s] = (IF n = 0 THEN None ELSE order[1]) /\ prev'[s] = None
  <2>1. head # s
    BY <1>0, <1>1
  <2>2. QED
    BY <1>0, <1>1, <2>1 DEF Joins, addWebSocket, LifeShape
<1>7. ASSUME NEW i \in 1..n
      PROVE  /\ next'[order[i]] = IF i = n THEN None ELSE order[i + 1]
             /\ prev'[order[i]] = IF i = 1 THEN s ELSE order[i - 1]
  <2>1. order[i] \in Sock /\ order[i] # s /\ n # 0 /\ head = order[1] /\ head # None
    BY <1>0, <1>1
  <2>2. next'[order[i]] = next[order[i]]
    BY <2>1 DEF Joins, addWebSocket, LifeShape
  <2>3. order[i] = head <=> i = 1
    BY <1>1, <2>1
  <2>4. prev'[order[i]] = IF i = 1 THEN s ELSE prev[order[i]]
    BY <2>1, <2>3 DEF Joins, addWebSocket, LifeShape
  <2>5. QED
    BY <1>1, <2>2, <2>4
<1>8. ASSUME NEW i \in 1..(n + 1)
      PROVE  /\ next'[more[i]] = IF i = n + 1 THEN None ELSE more[i + 1]
             /\ prev'[more[i]] = IF i = 1 THEN None ELSE more[i - 1]
  <2>1. CASE i = 1
    <3>1. n # 0 => more[i + 1] = order[1]
      BY <1>2, <2>1
    <3>2. QED
      BY <1>2, <1>6, <2>1, <3>1
  <2>2. CASE i \in 2..(n + 1)
    <3>1. i - 1 \in 1..n /\ more[i] = order[i - 1]
      BY <1>2, <2>2
    <3>2. i - 1 # n => more[i + 1] = order[(i - 1) + 1]
      <4>1. i - 1 # n => i \in 1..n /\ (i - 1) + 1 = i
        BY <2>2
      <4>2. QED
        BY <1>2, <4>1
    <3>3. i - 1 # 1 => more[i - 1] = order[(i - 1) - 1]
      <4>1. i - 1 # 1 => i - 1 \in 2..(n + 1)
        BY <2>2
      <4>2. QED
        BY <1>2, <4>1
    <3>4. i - 1 = 1 => more[i - 1] = s
      BY <1>2
    <3>5. (i - 1 = n <=> i = n + 1) /\ i # 1
      BY <2>2
    <3>6. QED
      BY <1>7, <3>1, <3>2, <3>3, <3>4, <3>5
  <2>3. QED
    BY <2>1, <2>2
<1>9. IsList(n + 1, more)'
  BY <1>2, <1>3, <1>4, <1>5, <1>8 DEF IsList
<1>10. QED
  BY <1>9 DEF ListIsRight

\* A socket that was open is taken out of the list.
LEMMA ListShrinks ==
  ASSUME LifeShape, NEW n \in Nat, NEW order, IsList(n, order), NEW s \in Sock,
         phase[s] = "open", removeWebSocket(s), NEW x, x # "open",
         phase' = [phase EXCEPT ![s] = x]
  PROVE  ListIsRight'
<1>0. None \notin Sock
  BY TransportAssumption
<1>1. /\ order \in [1..n -> Sock]
      /\ \A i, j \in 1..n : order[i] = order[j] => i = j
      /\ \A t \in Sock : phase[t] = "open" <=> \E i \in 1..n : order[i] = t
      /\ head = IF n = 0 THEN None ELSE order[1]
      /\ \A i \in 1..n : /\ next[order[i]] = IF i = n THEN None ELSE order[i + 1]
                         /\ prev[order[i]] = IF i = 1 THEN None ELSE order[i - 1]
  BY DEF IsList
<1>2. PICK p \in 1..n : order[p] = s
  BY <1>1
<1>3. /\ p \in Int /\ 1 <= p /\ p <= n /\ n - 1 \in Nat
      /\ next[s] = IF p = n THEN None ELSE order[p + 1]
      /\ prev[s] = IF p = 1 THEN None ELSE order[p - 1]
  BY <1>1, <1>2
<1>4. (p # n => p + 1 \in 1..n) /\ (p # 1 => p - 1 \in 1..n)
  BY <1>3
<1> DEFINE from(i) == IF i < p THEN i ELSE i + 1
           less == [i \in 1..(n - 1) |-> order[from(i)]]
<1>5. \A i \in 1..(n - 1) : less[i] = order[from(i)]
  OBVIOUS
<1>6. \A i \in 1..(n - 1) : from(i) \in 1..n /\ from(i) # p
  BY <1>3
<1>7. less \in [1..(n - 1) -> Sock]
  <2> HIDE DEF from
  <2> QED
    BY <1>1, <1>6
<1> HIDE DEF less
<1>8. \A i, j \in 1..(n - 1) : less[i] = less[j] => i = j
  <2> SUFFICES ASSUME NEW i \in 1..(n - 1), NEW j \in 1..(n - 1), less[i] = less[j]
               PROVE  i = j
    OBVIOUS
  <2>1. from(i) = from(j)
    <3> HIDE DEF from
    <3> QED
      BY <1>1, <1>5, <1>6
  <2>2. QED
    BY <1>3, <2>1
<1>9. \A t \in Sock : phase'[t] = "open" <=> \E i \in 1..(n - 1) : less[i] = t
  <2> SUFFICES ASSUME NEW t \in Sock
               PROVE  phase'[t] = "open" <=> \E i \in 1..(n - 1) : less[i] = t
    OBVIOUS
  <2>1. phase'[t] = "open" <=> t # s /\ phase[t] = "open"
    BY DEF LifeShape
  <2>2. ASSUME t # s, phase[t] = "open"
        PROVE  \E i \in 1..(n - 1) : less[i] = t
    <3>1. PICK j \in 1..n : order[j] = t
      BY <1>1, <2>2
    <3>2. j # p
      BY <1>2, <2>2, <3>1
    <3> DEFINE i == IF j < p THEN j ELSE j - 1
    <3>3. i \in 1..(n - 1) /\ from(i) = j
      BY <1>3, <3>2
    <3> HIDE DEF i, from
    <3>4. QED
      BY <1>5, <3>1, <3>3
  <2>3. ASSUME NEW i \in 1..(n - 1), less[i] = t
        PROVE  t # s /\ phase[t] = "open"
    <3> HIDE DEF from
    <3> QED
      BY <1>1, <1>2, <1>5, <1>6, <2>3
  <2>4. QED
    BY <2>1, <2>2, <2>3
<1>10. CASE n = 1
  <2>1. next[s] = None /\ prev[s] = None
    BY <1>3, <1>10
  <2>2. head' = None
    BY <2>1 DEF removeWebSocket
  <2>3. IsList(0, less)'
    BY <1>7, <1>8, <1>9, <1>10, <2>2 DEF IsList
  <2>4. QED
    BY <2>3 DEF ListIsRight
<1>11. CASE n # 1
  <2>1. prev[s] # next[s]
    <3>1. \A j \in 1..n : order[j] # None
      BY <1>0, <1>1
    <3>2. CASE p = 1
      BY <1>3, <1>4, <1>11, <3>1, <3>2
    <3>3. CASE p = n
      BY <1>3, <1>4, <1>11, <3>1, <3>3
    <3>4. CASE p # 1 /\ p # n
      <4>1. order[p - 1] = order[p + 1] => p - 1 = p + 1
        BY <1>1, <1>4, <3>4
      <4>2. p - 1 # p + 1
        BY <1>3
      <4>3. QED
        BY <1>3, <3>4, <4>1, <4>2
    <3>5. QED
      BY <3>2, <3>3, <3>4
  <2>2. /\ head' = IF prev[s] = None THEN next[s] ELSE head
        /\ \A t \in Sock : /\ next'[t] = IF t = prev[s] THEN next[s] ELSE next[t]
                           /\ prev'[t] = IF t = next[s] THEN prev[s] ELSE prev[t]
    BY <2>1 DEF removeWebSocket
  <2>3. ASSUME NEW j \in 1..n, j # p
        PROVE  /\ next'[order[j]] = IF j = p - 1 THEN next[s] ELSE next[order[j]]
               /\ prev'[order[j]] = IF j = p + 1 THEN prev[s] ELSE prev[order[j]]
    <3>1. order[j] \in Sock /\ order[j] # None
      BY <1>0, <1>1
    <3>2. order[j] = prev[s] <=> j = p - 1
      <4>1. CASE p = 1
        BY <1>3, <3>1, <4>1
      <4>2. CASE p # 1
        BY <1>1, <1>3, <1>4, <4>2
      <4>3. QED
        BY <4>1, <4>2
    <3>3. order[j] = next[s] <=> j = p + 1
      <4>1. CASE p = n
        BY <1>3, <3>1, <4>1
      <4>2. CASE p # n
        BY <1>1, <1>3, <1>4, <4>2
      <4>3. QED
        BY <4>1, <4>2
    <3>4. QED
      BY <2>2, <3>1, <3>2, <3>3
  <2>4. head' = less[1] /\ n - 1 # 0
    <3>1. 1 \in 1..(n - 1) /\ n - 1 # 0
      BY <1>3, <1>11
    <3>2. CASE p = 1
      <4>1. prev[s] = None /\ next[s] = order[2]
        BY <1>3, <1>11, <3>2
      <4>2. less[1] = order[2]
        BY <1>5, <3>1, <3>2
      <4>3. QED
        BY <2>2, <3>1, <4>1, <4>2
    <3>3. CASE p # 1
      <4>1. prev[s] # None
        BY <1>0, <1>1, <1>3, <1>4, <3>3
      <4>2. from(1) = 1
        BY <1>3, <3>3
      <4>3. less[1] = order[1] /\ head = order[1]
        BY <1>1, <1>3, <1>5, <3>1, <4>2
      <4>4. QED
        BY <2>2, <3>1, <4>1, <4>3
    <3>4. QED
      BY <3>2, <3>3
  <2>5. ASSUME NEW i \in 1..(n - 1)
        PROVE  /\ next'[less[i]] = IF i = n - 1 THEN None ELSE less[i + 1]
               /\ prev'[less[i]] = IF i = 1 THEN None ELSE less[i - 1]
    <3>0. i \in Int /\ 1 <= i /\ i <= n - 1
      BY <1>3
    <3>1. PICK j \in 1..n : j = from(i) /\ j # p /\ less[i] = order[j]
      BY <1>5, <1>6
    <3>2. next'[less[i]] = (IF j = p - 1 THEN next[s] ELSE IF j = n THEN None ELSE order[j + 1])
          /\ prev'[less[i]] = (IF j = p + 1 THEN prev[s] ELSE IF j = 1 THEN None ELSE order[j - 1])
      BY <1>1, <2>3, <3>1
    <3>3. i # n - 1 => i + 1 \in 1..(n - 1) /\ less[i + 1] = order[from(i + 1)]
      <4>1. i # n - 1 => i + 1 \in 1..(n - 1)
        BY <1>3, <3>0
      <4> HIDE DEF from
      <4>2. QED
        BY <1>5, <4>1
    <3>4. i # 1 => i - 1 \in 1..(n - 1) /\ less[i - 1] = order[from(i - 1)]
      <4>1. i # 1 => i - 1 \in 1..(n - 1)
        BY <1>3, <3>0
      <4> HIDE DEF from
      <4>2. QED
        BY <1>5, <4>1
    <3>5. CASE i < p
      <4>1. j = i /\ j # p + 1
        BY <1>3, <3>0, <3>1, <3>5
      <4>2. CASE i = p - 1
        <5>1. (i = n - 1 <=> p = n) /\ (i # n - 1 => from(i + 1) = p + 1)
          BY <1>3, <3>0, <4>2
        <5>2. next'[less[i]] = IF i = n - 1 THEN None ELSE less[i + 1]
          <6> HIDE DEF from
          <6> QED
            BY <1>3, <3>2, <3>3, <4>1, <4>2, <5>1
        <5>3. i # 1 => from(i - 1) = j - 1
          BY <1>3, <3>0, <4>1, <4>2
        <5>4. QED
          BY <3>2, <3>4, <4>1, <5>2, <5>3
      <4>3. CASE i # p - 1
        <5>1. i # n - 1 /\ j # n /\ j # p - 1 /\ from(i + 1) = j + 1
          BY <1>3, <3>0, <3>5, <4>1, <4>3
        <5>2. i # 1 => from(i - 1) = j - 1
          BY <1>3, <3>0, <3>5, <4>1
        <5> HIDE DEF from
        <5>3. QED
          BY <3>2, <3>3, <3>4, <4>1, <5>1, <5>2
      <4>4. QED
        BY <4>2, <4>3
    <3>6. CASE i >= p
      <4>1. j = i + 1 /\ j # p - 1 /\ j # 1
        BY <1>3, <3>0, <3>1, <3>6
      <4>2. (j = n <=> i = n - 1) /\ (i # n - 1 => from(i + 1) = j + 1)
        BY <1>3, <3>0, <3>6, <4>1
      <4>3. CASE i = p
        <5>1. (i = 1 <=> p = 1) /\ j = p + 1 /\ (i # 1 => from(i - 1) = p - 1)
          BY <1>3, <3>0, <4>1, <4>3
        <5> HIDE DEF from
        <5>2. QED
          BY <1>3, <3>2, <3>3, <3>4, <4>1, <4>2, <5>1
      <4>4. CASE i # p
        <5>1. i # 1 /\ j # p + 1 /\ from(i - 1) = j - 1
          BY <1>3, <3>0, <3>6, <4>1, <4>4
        <5> HIDE DEF from
        <5>2. QED
          BY <3>2, <3>3, <3>4, <4>1, <4>2, <5>1
      <4>5. QED
        BY <4>3, <4>4
    <3>7. QED
      BY <1>3, <3>0, <3>5, <3>6
  <2>6. IsList(n - 1, less)'
    BY <1>7, <1>8, <1>9, <2>4, <2>5 DEF IsList
  <2>7. QED
    BY <1>3, <2>6 DEF ListIsRight
<1>12. QED
  BY <1>10, <1>11

LEMMA ListKept ==
  ASSUME LifeShape, SessionsFit, ListIsRight, LifeGoes
  PROVE  ListIsRight'
<1>1. PICK n, order : n \in Nat /\ IsList(n, order)
  BY DEF ListIsRight
<1>2. ASSUME UNCHANGED links, \A s \in Sock : phase'[s] = "open" <=> phase[s] = "open"
      PROVE  ListIsRight'
  <2>1. IsList(n, order)'
    BY <1>1, <1>2 DEF IsList, links
  <2>2. QED
    BY <1>1, <2>1 DEF ListIsRight
<1>3. CASE UNCHANGED Life
  BY <1>2, <1>3 DEF Life
<1>4. ASSUME NEW s \in Sock, Leaves(s)
      PROVE  ListIsRight'
  <2>1. phase[s] = "open" /\ removeWebSocket(s) /\ phase' = [phase EXCEPT ![s] = "closing"]
    BY <1>4 DEF Leaves
  <2>2. QED
    BY <1>1, <2>1, ListShrinks
<1>5. ASSUME NEW s \in Sock, Joins(s)
      PROVE  ListIsRight'
  BY <1>1, <1>5, ListGrows
<1>6. ASSUME NEW s \in Sock, Dies(s)
      PROVE  ListIsRight'
  <2>1. phase' = [phase EXCEPT ![s] = "gone"]
    BY <1>6 DEF Dies
  <2>2. CASE phase[s] = "open"
    <3>1. removeWebSocket(s)
      BY <1>6, <2>2 DEF Dies
    <3>2. QED
      BY <1>1, <2>1, <2>2, <3>1, ListShrinks
  <2>3. CASE phase[s] # "open"
    <3>1. UNCHANGED links
      BY <1>6, <2>3 DEF Dies
    <3>2. \A t \in Sock : phase'[t] = "open" <=> phase[t] = "open"
      BY <2>1, <2>3 DEF LifeShape
    <3>3. QED
      BY <1>2, <3>1, <3>2
  <2>4. QED
    BY <2>2, <2>3
<1>7. ASSUME NEW s \in Sock, Starts(s)
      PROVE  ListIsRight'
  <2>1. UNCHANGED links /\ \A t \in Sock : phase'[t] = "open" <=> phase[t] = "open"
    BY <1>7 DEF Starts, LifeShape
  <2>2. QED
    BY <1>2, <2>1
<1>8. QED
  BY <1>3, <1>4, <1>5, <1>6, <1>7 DEF LifeGoes

-----------------------------------------------------------------------------
(* The sending sides of the sockets after a step. *)

\* What a step does to the side of t: nothing, it goes on, or it ends.
SideGoes(t) ==
  \/ SideKept(t)
  \/ \E w : Becomes(t, w) /\ Moves(Link(t), w)
  \/ Ending(t)

LEMMA KindsGo ==
  ASSUME LifeShape, Kinds, NEW t \in Sock
  PROVE  SideGoes(t)
<1>1. ASSUME NEW s \in Sock, NEW m, Writes(s, m)
      PROVE  SideGoes(t)
  BY <1>1 DEF Writes, Others, SideGoes
<1>2. ASSUME NEW s \in Sock, Writing(s)
      PROVE  SideGoes(t)
  BY <1>1, <1>2 DEF Writing
<1>3. ASSUME NEW s \in Sock, Leaving(s)
      PROVE  SideGoes(t)
  BY <1>1, <1>3 DEF Leaving
<1>4. ASSUME NEW s \in Sock, Joining(s)
      PROVE  SideGoes(t)
  BY <1>1, <1>4 DEF Joining
<1>5. ASSUME NEW s \in Sock, Flushing(s)
      PROVE  SideGoes(t)
  BY <1>5 DEF Flushing, Flushes, Others, SideGoes
<1>6. ASSUME NEW s \in Sock, Ending(s)
      PROVE  SideGoes(t)
  BY <1>6 DEF Ending, Stops, Others, SideGoes
<1>7. ASSUME NEW s \in Sock, Starting(s)
      PROVE  SideGoes(t)
  BY <1>7 DEF Starting, SidesKept, SideGoes
<1>8. CASE Hearing
  BY <1>8 DEF Hearing, SidesKept, SideGoes
<1>9. CASE Spreading(sends + 1)
  BY <1>9 DEF Spreading, Reached, SideGoes
<1>10. QED
  BY <1>2, <1>3, <1>4, <1>5, <1>6, <1>7, <1>8, <1>9 DEF Kinds

LEMMA LinksKept ==
  ASSUME LinksAreGood, LifeShape, Kinds
  PROVE  LinksAreGood'
<1> SUFFICES ASSUME NEW t \in Sock
             PROVE  Sided(t)'
  BY DEF LinksAreGood
<1>1. CASE SideKept(t)
  BY <1>1, BecomesSided DEF SideKept, LinksAreGood, Sided
<1>2. CASE \E w : Becomes(t, w) /\ Moves(Link(t), w)
  BY <1>2, BecomesSided DEF Becomes
<1>3. CASE Ending(t)
  BY <1>3, BecomesSided, EndedFacts DEF Ending, Stops
<1>4. QED
  BY <1>1, <1>2, <1>3, KindsGo DEF SideGoes

LEMMA WaitsKept ==
  ASSUME LifeShape, Waits, Kinds
  PROVE  Waits'
<1>0. ASSUME NEW t \in Sock, SideKept(t)
      PROVE  queue'[t] = queue[t]
  BY <1>0, LinkIs DEF SideKept, SideIs
<1>1. ASSUME SidesKept, UNCHANGED phase
      PROVE  Waits'
  BY <1>0, <1>1 DEF SidesKept, Waits
<1>2. ASSUME NEW s \in Sock, Others(s), \A t \in Sock : t # s => phase'[t] = phase[t],
             phase'[s] \in {"open", "closing"}
      PROVE  Waits'
  BY <1>0, <1>2 DEF Others, Waits
<1>3. ASSUME NEW s \in Sock, Writing(s)
      PROVE  Waits'
  <2>1. Others(s) /\ UNCHANGED phase /\ phase[s] \in {"open", "closing"}
    BY <1>3 DEF Writing, Writes, Life
  <2>2. QED
    BY <1>2, <2>1
<1>4. ASSUME NEW s \in Sock, Leaving(s)
      PROVE  Waits'
  <2>1. Others(s) /\ phase' = [phase EXCEPT ![s] = "closing"]
    BY <1>4 DEF Leaving, Leaves, Writes
  <2>2. QED
    BY <1>2, <2>1 DEF LifeShape
<1>5. ASSUME NEW s \in Sock, Joining(s)
      PROVE  Waits'
  <2>1. Others(s) /\ phase' = [phase EXCEPT ![s] = "open"]
    BY <1>5 DEF Joining, Joins, Writes
  <2>2. QED
    BY <1>2, <2>1 DEF LifeShape
<1>6. ASSUME NEW s \in Sock, Flushing(s)
      PROVE  Waits'
  <2>1. Others(s) /\ UNCHANGED phase /\ phase[s] \in {"open", "closing"}
    BY <1>6 DEF Flushing, Flushes, Life, Waits
  <2>2. QED
    BY <1>2, <2>1
<1>7. ASSUME NEW s \in Sock, Ending(s)
      PROVE  Waits'
  <2>1. Others(s) /\ queue'[s] = <<>> /\ \A t \in Sock : t # s => phase'[t] = phase[t]
    BY <1>7, EndedFacts DEF Ending, Dies, Stops, SideIs, LifeShape
  <2>2. QED
    BY <1>0, <2>1 DEF Others, Waits
<1>8. ASSUME NEW s \in Sock, Starting(s)
      PROVE  Waits'
  <2>1. SidesKept /\ phase[s] = "none" /\ phase' = [phase EXCEPT ![s] = "http"]
    BY <1>8 DEF Starting, Starts
  <2>2. \A t \in Sock : queue'[t] = queue[t] /\ (t # s => phase'[t] = phase[t])
    BY <1>0, <2>1 DEF SidesKept
  <2>3. queue[s] = <<>>
    BY <2>1 DEF Waits
  <2>4. QED
    BY <2>2, <2>3 DEF Waits
<1>9. CASE Hearing
  BY <1>1, <1>9 DEF Hearing, Life
<1>10. CASE Spreading(sends + 1)
  <2>1. UNCHANGED phase /\ \A s \in Sock : phase[s] # "open" => SideKept(s)
    BY <1>10 DEF Spreading, Life
  <2>2. QED
    BY <1>0, <2>1 DEF Waits
<1>11. QED
  BY <1>3, <1>4, <1>5, <1>6, <1>7, <1>8, <1>9, <1>10 DEF Kinds

HeardShape == IsMap(heard) /\ \A s \in Sock : IsSeq(heard[s])

LEMMA HeardKept ==
  ASSUME HeardShape, Kinds
  PROVE  HeardShape'
<1>1. CASE UNCHANGED heard
  BY <1>1 DEF HeardShape, IsMap
<1>2. ASSUME NEW s \in Sock, NEW v, IsSeq(v), SetTo(heard', heard, s, v)
      PROVE  HeardShape'
  BY <1>2, MapSet DEF HeardShape
<1>3. ASSUME NEW s \in Sock, Ending(s)
      PROVE  HeardShape'
  <2>1. SetTo(heard', heard, s, <<>>)
    BY <1>3 DEF Ending, SetTo
  <2>2. QED
    BY <1>2, <2>1, EmptyIsSeq
<1>4. CASE Hearing
  <2>1. ASSUME NEW s \in Sock, NEW m, heard' = [heard EXCEPT ![s] = Append(@, m)]
        PROVE  HeardShape'
    <3>1. PICK v : v = Append(heard[s], m)
      OBVIOUS
    <3>2. IsSeq(v)
      BY <3>1, AppendFacts DEF HeardShape, Appended
    <3>3. SetTo(heard', heard, s, v)
      BY <2>1, <3>1 DEF SetTo
    <3>4. QED
      BY <1>2, <3>2, <3>3
  <2>2. QED
    BY <1>1, <1>4, <2>1 DEF Hearing
<1>5. QED
  BY <1>1, <1>3, <1>4 DEF Kinds, Writing, Leaving, Joining, Flushing, Starting, Spreading

LEMMA InvStep ==
  ASSUME Inv, [Next]_vars
  PROVE  Inv'
<1>1. Kinds /\ Besides
  BY StepKinds
<1>2. LifeGoes /\ LifeShape /\ SessionsFit /\ HeardShape
  BY <1>1, KindsLive DEF Inv, Shape, Phases, LifeShape, SessionsFit, HeardShape
<1>3. LifeShape' /\ SessionsFit' /\ ListIsRight' /\ DeadlinesAreRight'
  BY <1>2, LifeShapeKept, SessionsKept, ListKept, DeadlinesKept DEF Inv
<1>4. HeardShape' /\ LinksAreGood' /\ Waits'
  BY <1>1, <1>2, HeardKept, LinksKept, WaitsKept DEF Inv
<1>5. mode' \in Modes /\ (mode'.is = "reading" => phase'[mode'.sock] = "open") /\ Sides'
      /\ sends' \in Nat
  BY <1>1 DEF Besides, Inv, Shape
<1>6. Shape' /\ Phases'
  BY <1>3, <1>4, <1>5 DEF Shape, Phases, LifeShape, SessionsFit, HeardShape
<1>7. QED
  BY <1>3, <1>4, <1>6 DEF Inv

LEMMA InvInit ==
  ASSUME Init
  PROVE  Inv
<1>1. Shape
  <2>1. Sides /\ IsMap(heard)
    BY DEF Init, Sides, IsMap
  <2>2. \A s \in Sock : IsSeq(heard[s])
    BY EmptyIsSeq DEF Init
  <2>3. mode \in Modes
    BY ModeFacts DEF Init
  <2>4. QED
    BY <2>1, <2>2, <2>3 DEF Init, Shape
<1>2. Phases
  BY ModeFacts DEF Init, Phases
<1>3. LinksAreGood
  <2> SUFFICES ASSUME NEW s \in Sock
               PROVE  Sided(s)
    BY DEF LinksAreGood
  <2>1. Fits(<<>>, FALSE, FALSE, "up", <<>>, <<>>) /\ ~CloseIsOut(<<>>)
    <3>1. IsSeq(<<>>) /\ Len(<<>>) = 0
      BY EmptyIsSeq
    <3>2. QED
      BY <3>1 DEF Fits, Queued, Goes, Owed, CloseIsOut, ToSet
  <2>2. /\ Link(s).queue = <<>> /\ Link(s).poll = FALSE /\ Link(s).watched = FALSE
        /\ Link(s).out = "up" /\ Link(s).taken = <<>> /\ Link(s).wire = <<>>
    BY LinkIs DEF Init
  <2>3. QED
    BY <2>1, <2>2 DEF Sided, LinkFits, CloseIsLast
<1>4. Waits /\ DeadlinesAreRight
  BY DEF Init, Waits, DeadlinesAreRight
<1>5. ListIsRight
  <2> DEFINE order == [i \in 1..0 |-> None]
  <2>1. IsList(0, order)
    BY DEF Init, IsList
  <2>2. QED
    BY <2>1 DEF ListIsRight
<1>6. QED
  BY <1>1, <1>2, <1>3, <1>4, <1>5 DEF Inv

LEMMA Always == Spec => []Inv
<1>1. Init => Inv
  BY InvInit
<1>2. Inv /\ [Next]_vars => Inv'
  BY InvStep
<1>3. QED
  BY <1>1, <1>2, PTL DEF Spec

\* A socket that waits for its request or for the answer to its close frame has
\* a timer pending, and no other has (startTimeout, cancelTimeout).
THEOREM Deadlines == Spec => []DeadlinesAreRight
<1>1. Inv => DeadlinesAreRight
  BY DEF Inv
<1>2. QED
  BY <1>1, Always, PTL

\* Whatever the kernel takes of what is written, a queue that has something is
\* waited for, and who thinks that it waits does (Socket::write, enterState,
\* io_cb).
THEOREM QueuesAreWatched == Spec => []QueueIsWatched
<1>1. Inv => QueueIsWatched
  <2> SUFFICES ASSUME Inv, NEW s \in Sock
               PROVE  /\ queue[s] # <<>> => watched[s] /\ phase[s] \in {"open", "closing"}
                      /\ poll[s] => watched[s]
    BY DEF QueueIsWatched
  <2>1. (queue[s] # <<>> => watched[s]) /\ (poll[s] => watched[s])
    BY LinkIs DEF Inv, LinksAreGood, Sided, LinkFits, Fits
  <2>2. QED
    BY <2>1 DEF Inv, Waits
<1>2. QED
  BY <1>1, Always, PTL

-----------------------------------------------------------------------------
(* The messages of broadcasts. *)

\* A message that was prepared is one of those that were sent.
PreparedBelow ==
  \A s \in Sock, n \in Nat : Prepared(n) \in ToSet(taken[s]) => n <= sends

LEMMA ToSetAppend ==
  ASSUME NEW q, IsSeq(q), NEW m, NEW a, Appended(a, q, m), NEW x
  PROVE  x \in ToSet(a) <=> x \in ToSet(q) \/ x = m
<1>1. /\ Len(q) \in Nat /\ Len(a) = Len(q) + 1 /\ a[Len(q) + 1] = m
      /\ DOMAIN q = 1..Len(q) /\ DOMAIN a = 1..Len(a)
      /\ \A i \in 1..Len(q) : a[i] = q[i]
  BY AppendFacts, SeqFacts
<1>2. ToSet(q) = {q[i] : i \in 1..Len(q)} /\ ToSet(a) = {a[i] : i \in 1..Len(a)}
  BY <1>1 DEF ToSet
<1>3. ASSUME x \in ToSet(a)
      PROVE  x \in ToSet(q) \/ x = m
  <2>1. PICK i \in 1..Len(a) : x = a[i]
    BY <1>2, <1>3
  <2>2. i \in 1..Len(q) \/ i = Len(q) + 1
    BY <1>1
  <2>3. QED
    BY <1>1, <1>2, <2>1, <2>2
<1>4. ASSUME x \in ToSet(q)
      PROVE  x \in ToSet(a)
  <2>1. PICK i \in 1..Len(q) : x = q[i]
    BY <1>2, <1>4
  <2>2. i \in 1..Len(a) /\ a[i] = x
    BY <1>1, <2>1
  <2>3. QED
    BY <1>2, <2>2
<1>5. ASSUME x = m
      PROVE  x \in ToSet(a)
  <2>1. Len(q) + 1 \in 1..Len(a)
    BY <1>1
  <2>2. QED
    BY <1>1, <1>2, <1>5, <2>1
<1>6. QED
  BY <1>3, <1>4, <1>5

\* Taken(t, m): m is taken by t.
Taken(t, m) == Appended(taken'[t], taken[t], m)

\* What a step takes for t.
TakesAtMost(t) ==
  \/ taken'[t] = taken[t]
  \/ \E m : Unshared(m) /\ Taken(t, m)
  \/ taken'[t] = <<>>
  \/ Spreading(sends + 1) /\ sends' = sends + 1 /\ Taken(t, Prepared(sends + 1))

LEMMA KindsTake ==
  ASSUME Kinds, NEW t \in Sock
  PROVE  TakesAtMost(t)
<1>0. SideKept(t) => taken'[t] = taken[t]
  BY LinkIs DEF SideKept, SideIs
<1>1. ASSUME NEW s \in Sock, NEW m, Unshared(m), Writes(s, m)
      PROVE  TakesAtMost(t)
  <2>1. CASE t # s
    BY <1>0, <1>1, <2>1 DEF Writes, Others, TakesAtMost
  <2>2. CASE t = s
    <3>1. PICK w : SideIs(t, w) /\ Gets(Link(t), m, w)
      BY <1>1, <2>2 DEF Writes, Becomes
    <3>2. taken'[t] = w.taken /\ (w.taken = taken[t] \/ Appended(w.taken, taken[t], m))
      BY <3>1, LinkIs DEF SideIs, Gets
    <3>3. QED
      BY <1>1, <3>2 DEF TakesAtMost, Taken
  <2>3. QED
    BY <2>1, <2>2
<1>2. ASSUME NEW s \in Sock, Writing(s) \/ Leaving(s) \/ Joining(s)
      PROVE  TakesAtMost(t)
  BY <1>1, <1>2, MessageKinds DEF Writing, Leaving, Joining
<1>3. ASSUME NEW s \in Sock, Flushing(s)
      PROVE  TakesAtMost(t)
  <2>1. t # s => SideKept(t)
    BY <1>3 DEF Flushing, Flushes, Others
  <2>2. t = s => taken'[t] = taken[t]
    BY <1>3 DEF Flushing, Flushes, Becomes, SideIs
  <2>3. QED
    BY <1>0, <2>1, <2>2 DEF TakesAtMost
<1>4. ASSUME NEW s \in Sock, Ending(s)
      PROVE  TakesAtMost(t)
  <2>1. t # s => SideKept(t)
    BY <1>4 DEF Ending, Stops, Others
  <2>2. t = s => taken'[t] = <<>>
    BY <1>4, EndedFacts DEF Ending, Stops, SideIs
  <2>3. QED
    BY <1>0, <2>1, <2>2 DEF TakesAtMost
<1>5. ASSUME SidesKept
      PROVE  TakesAtMost(t)
  BY <1>0, <1>5 DEF SidesKept, TakesAtMost
<1>6. CASE Spreading(sends + 1) /\ sends' = sends + 1
  <2>1. CASE phase[t] # "open"
    BY <1>0, <1>6, <2>1 DEF Spreading, TakesAtMost
  <2>2. CASE phase[t] = "open"
    <3>1. PICK w : SideIs(t, w) /\ Written(Link(t), Prepared(sends + 1), w)
      BY <1>6, <2>2 DEF Spreading, Reached, Becomes
    <3>2. Gets(Link(t), Prepared(sends + 1), w)
      BY <3>1, WrittenGets
    <3>3. taken'[t] = taken[t] \/ Taken(t, Prepared(sends + 1))
      BY <3>1, <3>2, LinkIs DEF SideIs, Gets, Taken
    <3>4. QED
      BY <1>6, <3>3 DEF TakesAtMost
  <2>3. QED
    BY <2>1, <2>2
<1>7. QED
  BY <1>2, <1>3, <1>4, <1>5, <1>6 DEF Kinds, Starting, Hearing

LEMMA TakenIsSeq ==
  ASSUME Inv, NEW t \in Sock
  PROVE  IsSeq(taken[t])
BY LinkIs DEF Inv, LinksAreGood, Sided, LinkFits, Fits

LEMMA PreparedIs ==
  ASSUME NEW m, NEW n, Unshared(m) \/ \E k : k # n /\ m = Prepared(k)
  PROVE  Prepared(n) # m
BY DEF Unshared, Prepared

LEMMA PreparedBelowKept ==
  ASSUME Inv, PreparedBelow, Kinds, Besides
  PROVE  PreparedBelow'
<1> SUFFICES ASSUME NEW t \in Sock, NEW n \in Nat, Prepared(n) \in ToSet(taken'[t])
             PROVE  n <= sends'
  BY DEF PreparedBelow
<1>1. IsSeq(taken[t]) /\ sends \in Nat /\ sends' \in {sends, sends + 1}
  BY TakenIsSeq DEF Inv, Shape, Besides
<1>2. Prepared(n) \in ToSet(taken[t]) => n <= sends'
  BY <1>1 DEF PreparedBelow
<1>3. CASE taken'[t] = taken[t]
  BY <1>2, <1>3
<1>4. ASSUME NEW m, Unshared(m), Taken(t, m)
      PROVE  n <= sends'
  BY <1>1, <1>2, <1>4, ToSetAppend, PreparedIs DEF Taken
<1>5. CASE taken'[t] = <<>>
  BY <1>5 DEF ToSet
<1>6. CASE sends' = sends + 1 /\ Taken(t, Prepared(sends + 1))
  <2>1. Prepared(n) \in ToSet(taken[t]) \/ Prepared(n) = Prepared(sends + 1)
    BY <1>1, <1>6, ToSetAppend DEF Taken
  <2>2. Prepared(n) = Prepared(sends + 1) => n = sends + 1
    BY DEF Prepared
  <2>3. QED
    BY <1>1, <1>2, <1>6, <2>1, <2>2
<1>7. QED
  BY <1>3, <1>4, <1>5, <1>6, KindsTake DEF TakesAtMost

LEMMA AlwaysBelow == Spec => []PreparedBelow
<1>1. Init => PreparedBelow
  BY DEF Init, PreparedBelow, ToSet
<1>2. Inv /\ PreparedBelow /\ [Next]_vars => PreparedBelow'
  BY StepKinds, PreparedBelowKept
<1>3. QED
  BY <1>1, <1>2, Always, PTL DEF Spec

-----------------------------------------------------------------------------
(* The transport is a channel. *)

\* The members that the channel knows are the sessions that are on.
MembersRight == Listed = {s \in Sock : session[s] = "on"}

LEMMA Members == Inv => MembersRight
<1> SUFFICES ASSUME Inv
             PROVE  MembersRight
  OBVIOUS
<1>1. Listed = {s \in Sock : phase[s] = "open"}
  BY ListedIsOpen DEF Inv
<1>2. QED
  BY <1>1 DEF Inv, Phases, MembersRight

\* The words of Channel.
LEMMA ChannelWords ==
  (\A a, b : C!IsPrefix(a, b) <=> IsPrefix(a, b)) /\ (\A q : C!ToSet(q) = ToSet(q))
BY DEF IsPrefix, C!IsPrefix, ToSet, C!ToSet

LEMMA ChannelStart ==
  ASSUME Init
  PROVE  C!ChannelInit
<1>1. Listed = {}
  BY DEF Init, Listed
<1>2. {s \in Sock : out[s] # "up"} = {}
  BY DEF Init
<1>3. QED
  BY <1>1, <1>2 DEF Init, C!ChannelInit

LEMMA SessionsLive ==
  ASSUME LifeShape, SessionsFit, LifeGoes, NEW t \in Sock
  PROVE  C!Lives(t)
<1> USE DEF LifeShape, C!Lives
<1>1. CASE UNCHANGED Life
  BY <1>1 DEF Life
<1>2. ASSUME NEW s \in Sock, Leaves(s)
      PROVE  C!Lives(t)
  BY <1>2 DEF Leaves, SessionsFit
<1>3. ASSUME NEW s \in Sock, Joins(s)
      PROVE  C!Lives(t)
  BY <1>3 DEF Joins, SessionsFit
<1>4. ASSUME NEW s \in Sock, Dies(s)
      PROVE  C!Lives(t)
  BY <1>4 DEF Dies, SessionsFit
<1>5. ASSUME NEW s \in Sock, Starts(s)
      PROVE  C!Lives(t)
  BY <1>5 DEF Starts
<1>6. QED
  BY <1>1, <1>2, <1>3, <1>4, <1>5 DEF LifeGoes

LEMMA SideOfChannel ==
  ASSUME Inv, LinksAreGood', NEW t \in Sock, NEW w, Becomes(t, w), Moves(Link(t), w)
  PROVE  C!Takes(t) /\ C!Carries(t) /\ (out[t] # "up" => out'[t] # "up")
<1>1. /\ taken'[t] = w.taken /\ wire'[t] = w.wire /\ out'[t] = w.out
      /\ Fits(w.queue, w.poll, w.watched, w.out, w.taken, w.wire)
  BY DEF Becomes, SideIs, LinkFits
<1>2. Goes(taken'[t], wire'[t]) /\ DOMAIN wire'[t] = 1..Len(wire'[t])
  BY <1>1, SeqFacts DEF Fits
<1>3. C!GoesOut(t)'
  BY <1>2 DEF C!GoesOut, Goes
<1>4. /\ w.taken = taken[t] \/ IsPrefix(taken[t], w.taken)
      /\ \/ w.wire = wire[t]
         \/ out[t] = "up" /\ ~CloseIsOut(wire[t]) /\ IsPrefix(wire[t], w.wire)
      /\ out[t] # "up" => w.out # "up"
  BY LinkIs DEF Moves
<1>5. C!Takes(t)
  BY <1>1, <1>4, ChannelWords DEF C!Takes
<1>6. C!Carries(t)
  BY <1>1, <1>3, <1>4, ChannelWords DEF C!Carries, CloseIsOut
<1>7. QED
  BY <1>1, <1>4, <1>5, <1>6

LEMMA KeptInChannel ==
  ASSUME NEW t \in Sock, SideKept(t)
  PROVE  C!Takes(t) /\ C!Carries(t) /\ (out[t] # "up" => out'[t] # "up")
BY LinkIs DEF SideKept, SideIs, C!Takes, C!Carries

\* What the server hears.
LEMMA HearsInChannel ==
  ASSUME HeardShape, SessionsFit, Kinds, NEW t \in Sock, ~Ending(t)
  PROVE  C!Hears(t)
<1>1. CASE UNCHANGED heard
  BY <1>1 DEF C!Hears
<1>2. ASSUME NEW s \in Sock, Ending(s)
      PROVE  C!Hears(t)
  <2>1. SetTo(heard', heard, s, <<>>) /\ t # s
    BY <1>2 DEF Ending, SetTo
  <2>2. heard'[t] = heard[t]
    BY <2>1, MapSet DEF HeardShape
  <2>3. QED
    BY <2>2 DEF C!Hears
<1>3. ASSUME NEW s \in Sock, NEW m, phase[s] = "open",
             heard' = [heard EXCEPT ![s] = Append(@, m)]
      PROVE  C!Hears(t)
  <2>1. PICK v : v = Append(heard[s], m)
    OBVIOUS
  <2>2. SetTo(heard', heard, s, v)
    BY <1>3, <2>1 DEF SetTo
  <2>3. (t # s => heard'[t] = heard[t]) /\ heard'[s] = v
    BY <2>2, MapSet DEF HeardShape
  <2>4. CASE t # s
    BY <2>3, <2>4 DEF C!Hears
  <2>5. CASE t = s
    <3>1. Appended(v, heard[s], m) /\ IsSeq(heard[s])
      BY <2>1 DEF Appended, HeardShape
    <3>2. /\ IsSeq(v) /\ Len(v) = Len(heard[s]) + 1 /\ Len(heard[s]) \in Nat
          /\ \A i \in 1..Len(heard[s]) : v[i] = heard[s][i]
      BY <3>1, AppendFacts, SeqFacts
    <3>3. IsPrefix(heard[s], v)
      <4>1. Len(heard[s]) <= Len(v)
        BY <3>2
      <4>2. QED
        BY <3>1, <3>2, <4>1, PrefixFacts
    <3>4. session[s] = "on"
      BY <1>3 DEF SessionsFit
    <3>5. QED
      BY <2>3, <2>5, <3>2, <3>3, <3>4, ChannelWords DEF C!Hears
  <2>6. QED
    BY <2>4, <2>5
<1>4. QED
  BY <1>1, <1>2, <1>3 DEF Kinds, Writing, Leaving, Joining, Flushing, Starting, Hearing, Spreading

LEMMA EndsInChannel ==
  ASSUME HeardShape, LifeShape, SessionsFit', NEW t \in Sock, Ending(t)
  PROVE  C!Forgets(t)
<1>1. taken'[t] = <<>> /\ wire'[t] = <<>> /\ out'[t] = "failed"
  BY EndedFacts DEF Ending, Stops, SideIs
<1>2. heard'[t] = <<>>
  <2>1. SetTo(heard', heard, t, <<>>)
    BY DEF Ending, SetTo
  <2>2. QED
    BY <2>1, MapSet DEF HeardShape
<1>3. session'[t] # "on"
  <2>1. phase'[t] = "gone"
    BY DEF Ending, Dies, LifeShape
  <2>2. QED
    BY <2>1 DEF SessionsFit
<1>4. QED
  BY <1>1, <1>2, <1>3 DEF C!Forgets

\* Who is open when a message is broadcast takes it.
LEMMA ChannelShares ==
  ASSUME Inv, PreparedBelow, Kinds
  PROVE  C!Shares
<1> SUFFICES ASSUME NEW n \in 1..MaxSends, NEW s \in Sock, C!New(Prepared(n), s),
                    NEW t \in Sock, session[t] = "on", out'[t] = "up"
             PROVE  C!New(Prepared(n), t)
  BY DEF C!Shares
<1>0. IsSeq(taken[s]) /\ IsSeq(taken[t]) /\ sends \in Nat /\ MaxSends \in Nat
  BY TakenIsSeq, TransportAssumption DEF Inv, Shape
<1>1. Prepared(n) \in ToSet(taken'[s]) /\ Prepared(n) \notin ToSet(taken[s])
  BY ChannelWords DEF C!New
<1>2. Spreading(sends + 1) /\ n = sends + 1
  <2>1. taken'[s] # taken[s] /\ taken'[s] # <<>>
    BY <1>1 DEF ToSet
  <2>2. ASSUME NEW m, Unshared(m), Taken(s, m)
        PROVE  FALSE
    BY <1>0, <1>1, <2>2, ToSetAppend, PreparedIs DEF Taken
  <2>3. Spreading(sends + 1) /\ Taken(s, Prepared(sends + 1))
    BY <2>1, <2>2, KindsTake DEF TakesAtMost
  <2>4. Prepared(n) = Prepared(sends + 1)
    BY <1>0, <1>1, <2>3, ToSetAppend DEF Taken
  <2>5. QED
    BY <2>3, <2>4 DEF Prepared
<1>3. phase[t] = "open"
  BY DEF Inv, Phases
<1>4. PICK w : SideIs(t, w) /\ Written(Link(t), Prepared(n), w)
  BY <1>2, <1>3 DEF Spreading, Reached, Becomes
<1>5. w.out = "up" /\ taken'[t] = w.taken
  BY <1>4 DEF SideIs
<1>6. Appended(taken'[t], taken[t], Prepared(n))
  BY <1>4, <1>5, LinkIs DEF Written, Appended
<1>7. Prepared(n) \in ToSet(taken'[t])
  BY <1>0, <1>6, ToSetAppend
<1>8. Prepared(n) \notin ToSet(taken[t])
  <2>1. n \in Nat /\ ~(n <= sends)
    BY <1>0, <1>2
  <2>2. QED
    BY <2>1 DEF PreparedBelow
<1>9. QED
  BY <1>7, <1>8, ChannelWords DEF C!New

LEMMA ChannelSteps ==
  ASSUME Inv, PreparedBelow, [Next]_vars
  PROVE  C!Step
<1>1. Kinds /\ LifeGoes /\ LifeShape /\ SessionsFit /\ HeardShape
  BY StepKinds, KindsLive DEF Inv, Shape, Phases, LifeShape, SessionsFit, HeardShape
<1>2. Inv'
  BY InvStep
<1>3. SessionsFit' /\ LinksAreGood'
  BY <1>2 DEF Inv, Phases, SessionsFit
<1>4. Listed' = {s \in Sock : session'[s] = "on"}
  <2>1. MembersRight'
    BY <1>2, Members, PTL
  <2>2. QED
    BY <2>1 DEF MembersRight
<1>5. ASSUME NEW t \in Sock
      PROVE  /\ out[t] # "up" => out'[t] # "up"
             /\ C!Lives(t)
             /\ C!Forgets(t) \/ (C!Takes(t) /\ C!Carries(t) /\ C!Hears(t))
  <2>1. C!Lives(t)
    BY <1>1, SessionsLive
  <2>2. CASE Ending(t)
    <3>1. C!Forgets(t)
      BY <1>1, <1>3, <2>2, EndsInChannel
    <3>2. out'[t] # "up"
      BY <2>2, EndedFacts DEF Ending, Stops, SideIs
    <3>3. QED
      BY <2>1, <3>1, <3>2
  <2>3. CASE ~Ending(t)
    <3>1. C!Hears(t)
      BY <1>1, <2>3, HearsInChannel
    <3>2. SideKept(t) \/ \E w : Becomes(t, w) /\ Moves(Link(t), w)
      BY <1>1, <2>3, KindsGo DEF SideGoes
    <3>3. C!Takes(t) /\ C!Carries(t) /\ (out[t] # "up" => out'[t] # "up")
      BY <1>3, <3>2, SideOfChannel, KeptInChannel
    <3>4. QED
      BY <2>1, <3>1, <3>3
  <2>4. QED
    BY <2>2, <2>3
<1>6. {s \in Sock : out[s] # "up"} \subseteq {s \in Sock : out'[s] # "up"}
  BY <1>5
<1>7. C!Shares
  BY <1>1, ChannelShares
<1>8. QED
  BY <1>4, <1>5, <1>6, <1>7 DEF C!Step

\* Partial writes, queues and closings keep what is sent whole and in order,
\* nothing follows a close frame, a session begins and ends once, and the group
\* reaches every open socket (Socket::write, io_cb, WebSocket::close,
\* Group::broadcast): the transport implements Channel.
THEOREM TransportIsAChannel == Spec => IsAChannel
<1>1. Init => C!ChannelInit
  BY ChannelStart
<1>2. Inv /\ PreparedBelow /\ [Next]_vars => [C!Step]_C!channel
  BY ChannelSteps
<1>3. QED
  BY <1>1, <1>2, Always, AlwaysBelow, PTL DEF Spec, IsAChannel, C!ChannelSpec

-----------------------------------------------------------------------------
(* The places of a prepared message in the queues. *)

Spot(q, n) == {i \in DOMAIN q : q[i].msg = Prepared(n)}

LEMMA SpotFacts ==
  ASSUME NEW q, IsSeq(q), NEW n
  PROVE  /\ Spot(q, n) = {i \in 1..Len(q) : q[i].msg = Prepared(n)}
         /\ IsFiniteSet(Spot(q, n)) /\ Uses(q, n) = Cardinality(Spot(q, n)) /\ Uses(q, n) \in Nat
<1>1. Len(q) \in Nat /\ DOMAIN q = 1..Len(q)
  BY SeqFacts
<1>2. IsFiniteSet(1..Len(q))
  BY <1>1, FS_Interval
<1>3. Spot(q, n) \in SUBSET (1..Len(q))
  BY <1>1 DEF Spot
<1>4. IsFiniteSet(Spot(q, n))
  BY <1>2, <1>3, FS_Subset
<1>5. QED
  BY <1>1, <1>4, FS_CardinalityType DEF Spot, Uses

LEMMA UsesEmpty ==
  ASSUME NEW n
  PROVE  Uses(<<>>, n) = 0
<1>1. Spot(<<>>, n) = {}
  BY DEF Spot
<1>2. QED
  BY <1>1, FS_EmptySet DEF Uses, Spot

LEMMA UsesAppend ==
  ASSUME NEW q, IsSeq(q), NEW m, NEW e, NEW r, Appended(r, q, [msg |-> m, left |-> e]), NEW n
  PROVE  /\ IsSeq(r)
         /\ m # Prepared(n) => Spot(r, n) = Spot(q, n)
         /\ m = Prepared(n) => Spot(r, n) = Spot(q, n) \cup {Len(q) + 1}
<1>1. PICK x : x = [msg |-> m, left |-> e]
  OBVIOUS
<1>2. Appended(r, q, x) /\ x.msg = m
  BY <1>1
<1>3. /\ Len(q) \in Nat /\ IsSeq(r) /\ Len(r) = Len(q) + 1 /\ r[Len(q) + 1] = x
      /\ \A i \in 1..Len(q) : r[i] = q[i]
  BY <1>2, AppendFacts, SeqFacts
<1>4. /\ Spot(q, n) = {i \in 1..Len(q) : q[i].msg = Prepared(n)}
      /\ Spot(r, n) = {i \in 1..Len(r) : r[i].msg = Prepared(n)}
  BY <1>3, SpotFacts
<1>5. 1..Len(r) = 1..Len(q) \cup {Len(q) + 1}
  BY <1>3
<1>6. m # Prepared(n) => Spot(r, n) = Spot(q, n)
  BY <1>2, <1>3, <1>4, <1>5
<1>7. m = Prepared(n) => Spot(r, n) = Spot(q, n) \cup {Len(q) + 1}
  BY <1>2, <1>3, <1>4, <1>5
<1>8. QED
  BY <1>3, <1>6, <1>7

LEMMA UsesTail ==
  ASSUME NEW q, IsSeq(q), q # <<>>, NEW t, IsTail(t, q), NEW n
  PROVE  IsSeq(t) /\ Uses(q, n) = Uses(<<q[1]>>, n) + Uses(t, n)
<1>1. /\ IsSeq(t) /\ Len(t) = Len(q) - 1 /\ Len(q) >= 1 /\ Len(q) \in Nat
      /\ \A i \in 1..Len(t) : t[i] = q[i + 1]
  BY TailFacts, SeqFacts
<1>2. /\ Spot(q, n) = {i \in 1..Len(q) : q[i].msg = Prepared(n)} /\ IsFiniteSet(Spot(q, n))
      /\ Spot(t, n) = {i \in 1..Len(t) : t[i].msg = Prepared(n)} /\ IsFiniteSet(Spot(t, n))
      /\ Uses(q, n) = Cardinality(Spot(q, n)) /\ Uses(t, n) = Cardinality(Spot(t, n))
      /\ Uses(t, n) \in Nat
  BY <1>1, SpotFacts
<1> DEFINE Later == Spot(q, n) \ {1}
           up == [i \in Spot(t, n) |-> i + 1]
<1>3. up \in Bijection(Spot(t, n), Later)
  <2>1. \A i \in Spot(t, n) : i \in Nat /\ i + 1 \in Later
    BY <1>1, <1>2
  <2>2. \A j \in Later : j - 1 \in Spot(t, n) /\ (j - 1) + 1 = j
    <3> SUFFICES ASSUME NEW j \in Later
                 PROVE  j - 1 \in Spot(t, n) /\ (j - 1) + 1 = j
      OBVIOUS
    <3>1. j \in 1..Len(q) /\ j # 1 /\ q[j].msg = Prepared(n)
      BY <1>2
    <3>2. j - 1 \in 1..Len(t) /\ (j - 1) + 1 = j
      BY <1>1, <3>1
    <3>3. t[j - 1] = q[j]
      BY <1>1, <3>2
    <3>4. QED
      BY <1>2, <3>1, <3>2, <3>3
  <2> HIDE DEF Later
  <2>3. up \in [Spot(t, n) -> Later]
    BY <2>1
  <2>4. \A i, j \in Spot(t, n) : up[i] = up[j] => i = j
    BY <2>1
  <2>5. \A j \in Later : \E i \in Spot(t, n) : up[i] = j
    BY <2>2
  <2> HIDE DEF up
  <2>6. QED
    BY <2>3, <2>4, <2>5 DEF Bijection, Injection, Surjection, IsInjective
<1>4. Cardinality(Later) = Cardinality(Spot(t, n))
  <2> HIDE DEF Later, up
  <2>1. QED
    BY <1>2, <1>3, FS_Bijection DEF ExistsBijection
<1>5. Cardinality(Later) = IF 1 \in Spot(q, n) THEN Uses(q, n) - 1 ELSE Uses(q, n)
  BY <1>2, FS_RemoveElement
<1>6. Uses(<<q[1]>>, n) = IF 1 \in Spot(q, n) THEN 1 ELSE 0
  <2>1. PICK y : y = <<q[1]>>
    OBVIOUS
  <2>2. IsSeq(y) /\ Len(y) = 1 /\ y[1] = q[1]
    BY <2>1, SingleFacts
  <2>3. Spot(y, n) = {i \in 1..1 : y[i].msg = Prepared(n)} /\ Uses(y, n) = Cardinality(Spot(y, n))
    BY <2>2, SpotFacts
  <2>4. 1 \in Spot(q, n) <=> q[1].msg = Prepared(n)
    BY <1>1, <1>2
  <2>5. CASE 1 \in Spot(q, n)
    <3>1. Spot(y, n) = {1}
      BY <2>2, <2>3, <2>4, <2>5
    <3>2. QED
      BY <2>1, <2>3, <2>5, <3>1, FS_Singleton
  <2>6. CASE 1 \notin Spot(q, n)
    <3>1. Spot(y, n) = {}
      BY <2>2, <2>3, <2>4, <2>6
    <3>2. QED
      BY <2>1, <2>3, <2>6, <3>1, FS_EmptySet
  <2>7. QED
    BY <2>5, <2>6
<1>7. Uses(q, n) \in Nat
  BY SpotFacts
<1>8. QED
  BY <1>1, <1>2, <1>4, <1>5, <1>6, <1>7

LEMMA UsesSame ==
  ASSUME NEW q, IsSeq(q), NEW r, SameMessages(r, q), NEW n
  PROVE  Spot(r, n) = Spot(q, n)
<1>1. IsSeq(r) /\ Len(r) = Len(q) /\ \A i \in 1..Len(q) : r[i].msg = q[i].msg
  BY DEF SameMessages
<1>2. Spot(q, n) = {i \in 1..Len(q) : q[i].msg = Prepared(n)}
  BY SpotFacts
<1>3. Spot(r, n) = {i \in 1..Len(r) : r[i].msg = Prepared(n)}
  BY <1>1, SpotFacts
<1>4. \A i : i \in Spot(r, n) <=> i \in Spot(q, n)
  BY <1>1, <1>2, <1>3
<1>5. QED
  BY <1>4, Zenon

\* The places of n in the queues Q.
Place(s, q, n) == {s} \X Spot(q, n)
Slots(Q, n) == UNION {Place(s, Q[s], n) : s \in Sock}
Queues(Q) == \A s \in Sock : IsSeq(Q[s])

LEMMA PlaceFirst ==
  ASSUME NEW s, NEW q, NEW n, NEW w \in Place(s, q, n)
  PROVE  w[1] = s
BY DEF Place

LEMMA WaitingIs ==
  ASSUME NEW n
  PROVE  Waiting(n) = Slots(queue, n)
<1>1. ASSUME NEW w \in Waiting(n)
      PROVE  w \in Slots(queue, n)
  <2>1. PICK s \in Sock : w \in {s} \X DOMAIN queue[s]
    BY DEF Waiting
  <2>2. w = <<s, w[2]>> /\ w[2] \in DOMAIN queue[s] /\ queue[w[1]][w[2]].msg = Prepared(n) /\ w[1] = s
    BY <2>1 DEF Waiting
  <2>3. w \in Place(s, queue[s], n)
    BY <2>2 DEF Spot, Place
  <2>4. QED
    BY <2>3 DEF Slots
<1>2. ASSUME NEW w \in Slots(queue, n)
      PROVE  w \in Waiting(n)
  <2>1. PICK s \in Sock : w \in Place(s, queue[s], n)
    BY DEF Slots
  <2>2. w \in {s} \X DOMAIN queue[s] /\ queue[w[1]][w[2]].msg = Prepared(n)
    BY <2>1 DEF Spot, Place
  <2>3. QED
    BY <2>2 DEF Waiting
<1>3. QED
  BY <1>1, <1>2

LEMMA PlaceFacts ==
  ASSUME NEW s, NEW q, IsSeq(q), NEW n
  PROVE  IsFiniteSet(Place(s, q, n)) /\ Cardinality(Place(s, q, n)) = Uses(q, n)
<1>1. /\ IsFiniteSet(Spot(q, n)) /\ Uses(q, n) = Cardinality(Spot(q, n)) /\ Uses(q, n) \in Nat
      /\ IsFiniteSet({s}) /\ Cardinality({s}) = 1
  BY SpotFacts, FS_Singleton
<1>2. /\ IsFiniteSet({s} \X Spot(q, n))
      /\ Cardinality({s} \X Spot(q, n)) = Cardinality({s}) * Cardinality(Spot(q, n))
  BY <1>1, FS_Product
<1>3. QED
  BY <1>1, <1>2 DEF Place

LEMMA SlotsFinite ==
  ASSUME NEW Q, Queues(Q), NEW n
  PROVE  IsFiniteSet(Slots(Q, n))
<1> DEFINE f == [s \in Sock |-> Place(s, Q[s], n)]
           F == {Place(s, Q[s], n) : s \in Sock}
<1>1. f \in Surjection(Sock, F)
  BY DEF Surjection
<1>2. \A T \in F : IsFiniteSet(T)
  BY PlaceFacts DEF Queues
<1> HIDE DEF f
<1>3. IsFiniteSet(F)
  <2> HIDE DEF F
  <2> QED
    BY <1>1, TransportAssumption, FS_Surjection
<1>4. IsFiniteSet(UNION F)
  <2> HIDE DEF F
  <2> QED
    BY <1>2, <1>3, FS_UNION
<1>5. QED
  BY <1>4 DEF Slots

\* One queue is changed.
LEMMA SlotsChange ==
  ASSUME NEW Q, Queues(Q), NEW s \in Sock, NEW R, \A t \in Sock : t # s => R[t] = Q[t],
         IsSeq(R[s]), NEW n
  PROVE  Cardinality(Slots(R, n)) = Cardinality(Slots(Q, n)) - Uses(Q[s], n) + Uses(R[s], n)
<1> DEFINE Rest == {w \in Slots(Q, n) : w[1] # s}
           Old == Place(s, Q[s], n)
           Fresh == Place(s, R[s], n)
<1>1. Slots(Q, n) = Rest \cup Old /\ Rest \cap Old = {}
  <2>1. ASSUME NEW w \in Slots(Q, n), w[1] = s
        PROVE  w \in Old
    <3>1. PICK t \in Sock : w \in Place(t, Q[t], n)
      BY DEF Slots
    <3>2. t = s
      BY <2>1, <3>1, PlaceFirst
    <3>3. QED
      BY <3>1, <3>2
  <2>2. Old \subseteq Slots(Q, n) /\ \A w \in Old : w[1] = s
    BY PlaceFirst DEF Slots
  <2>3. QED
    BY <2>1, <2>2
<1>2. Slots(R, n) = Rest \cup Fresh /\ Rest \cap Fresh = {}
  <2>1. ASSUME NEW w \in Slots(R, n)
        PROVE  w \in Rest \cup Fresh
    <3>1. PICK t \in Sock : w \in Place(t, R[t], n)
      BY DEF Slots
    <3>2. CASE t = s
      BY <3>1, <3>2
    <3>3. CASE t # s
      <4>1. R[t] = Q[t]
        BY <3>3
      <4>2. w \in Place(t, Q[t], n) /\ w[1] = t
        BY <3>1, <4>1, PlaceFirst
      <4>3. w \in Slots(Q, n)
        BY <4>2 DEF Slots
      <4>4. QED
        BY <3>3, <4>2, <4>3
    <3>4. QED
      BY <3>2, <3>3
  <2>2. Fresh \subseteq Slots(R, n) /\ \A w \in Fresh : w[1] = s
    BY PlaceFirst DEF Slots
  <2>3. ASSUME NEW w \in Rest
        PROVE  w \in Slots(R, n)
    <3>1. PICK t \in Sock : w \in Place(t, Q[t], n)
      BY DEF Slots
    <3>2. t # s
      BY <3>1, PlaceFirst
    <3>3. R[t] = Q[t]
      BY <3>2
    <3>4. w \in Place(t, R[t], n)
      BY <3>1, <3>3
    <3>5. QED
      BY <3>4 DEF Slots
  <2>4. QED
    BY <2>1, <2>2, <2>3
<1>3. /\ IsFiniteSet(Old) /\ Cardinality(Old) = Uses(Q[s], n)
      /\ IsFiniteSet(Fresh) /\ Cardinality(Fresh) = Uses(R[s], n)
      /\ Uses(Q[s], n) \in Nat /\ Uses(R[s], n) \in Nat
  <2>1. PICK q, r : q = Q[s] /\ r = R[s]
    OBVIOUS
  <2>2. IsSeq(q) /\ IsSeq(r)
    BY <2>1 DEF Queues
  <2>3. IsFiniteSet(Place(s, q, n)) /\ Cardinality(Place(s, q, n)) = Uses(q, n)
    BY <2>2, PlaceFacts
  <2>4. IsFiniteSet(Place(s, r, n)) /\ Cardinality(Place(s, r, n)) = Uses(r, n)
    BY <2>2, PlaceFacts
  <2>5. Uses(q, n) \in Nat /\ Uses(r, n) \in Nat
    BY <2>2, SpotFacts
  <2>6. QED
    BY <2>1, <2>3, <2>4, <2>5
<1>4. IsFiniteSet(Slots(Q, n)) /\ Rest \in SUBSET Slots(Q, n)
  BY SlotsFinite
<1> HIDE DEF Rest, Old, Fresh
<1>5. IsFiniteSet(Rest) /\ Cardinality(Rest) \in Nat
  BY <1>4, FS_Subset, FS_CardinalityType
<1>6. Cardinality(Slots(Q, n)) = Cardinality(Rest) + Cardinality(Old) - Cardinality({})
  BY <1>1, <1>3, <1>5, FS_Union
<1>7. Cardinality(Slots(R, n)) = Cardinality(Rest) + Cardinality(Fresh) - Cardinality({})
  BY <1>2, <1>3, <1>5, FS_Union
<1>8. Cardinality({}) = 0
  BY FS_EmptySet
<1>9. QED
  BY <1>3, <1>5, <1>6, <1>7, <1>8

\* None is.
LEMMA SlotsKept ==
  ASSUME NEW Q, NEW R, NEW n, \A t \in Sock : Spot(R[t], n) = Spot(Q[t], n)
  PROVE  Slots(R, n) = Slots(Q, n)
<1>1. \A t \in Sock : Place(t, R[t], n) = Place(t, Q[t], n)
  BY DEF Place
<1>2. QED
  BY <1>1 DEF Slots

-----------------------------------------------------------------------------
(* The references to prepared messages. *)

\* g counts the places in the queues Q.
Counts(g, Q) == \A n \in 1..MaxSends : g[n] = Cardinality(Slots(Q, n))
CountsAreRight == DOMAIN refs = 1..MaxSends /\ Counts(refs, queue)

QueuesRight == Queues(queue)
LEMMA QueuesNow == Inv => QueuesRight
BY LinkIs DEF Inv, LinksAreGood, Sided, LinkFits, Fits, Queues, QueuesRight

\* Nobody's places change, and no references.
LEMMA CountsSame ==
  ASSUME CountsAreRight, UNCHANGED refs,
         \A t \in Sock, n \in 1..MaxSends : Spot(queue'[t], n) = Spot(queue[t], n)
  PROVE  CountsAreRight'
<1>1. \A n \in 1..MaxSends : Slots(queue', n) = Slots(queue, n)
  BY SlotsKept
<1>2. QED
  BY <1>1 DEF CountsAreRight, Counts

\* References are given back with what leaves the queue of one socket.
LEMMA CountsLess ==
  ASSUME CountsAreRight, Queues(queue), Queues(queue'), NEW s \in Sock,
         \A t \in Sock : t # s => queue'[t] = queue[t], NEW q, IsSeq(q), refs' = Released(q),
         \A n \in 1..MaxSends : Uses(queue[s], n) = Uses(q, n) + Uses(queue'[s], n)
  PROVE  CountsAreRight'
<1>1. DOMAIN refs' = 1..MaxSends /\ \A n \in 1..MaxSends : refs'[n] = refs[n] - Uses(q, n)
  BY DEF Released, CountsAreRight
<1>2. ASSUME NEW n \in 1..MaxSends
      PROVE  refs'[n] = Cardinality(Slots(queue', n))
  <2>1. refs[n] = Cardinality(Slots(queue, n))
    BY DEF CountsAreRight, Counts
  <2>2. Cardinality(Slots(queue, n)) \in Nat
    BY SlotsFinite, FS_CardinalityType
  <2>3. PICK u, v : u = queue[s] /\ v = queue'[s]
    OBVIOUS
  <2>4. IsSeq(u) /\ IsSeq(v)
    BY <2>3 DEF Queues
  <2>5. Uses(u, n) \in Nat /\ Uses(v, n) \in Nat /\ Uses(q, n) \in Nat
    BY <2>4, SpotFacts
  <2>6. Cardinality(Slots(queue', n))
          = Cardinality(Slots(queue, n)) - Uses(queue[s], n) + Uses(queue'[s], n)
    <3>1. IsSeq(queue'[s])
      BY <2>3, <2>4
    <3>2. QED
      BY <3>1, SlotsChange
  <2>7. QED
    BY <1>1, <2>1, <2>2, <2>3, <2>5, <2>6
<1>3. QED
  BY <1>1, <1>2 DEF CountsAreRight, Counts

\* What is written is no prepared message.
LEMMA SpotsKept ==
  ASSUME Queues(queue), NEW s \in Sock, NEW m, Unshared(m), Writes(s, m), NEW t \in Sock, NEW n
  PROVE  Spot(queue'[t], n) = Spot(queue[t], n)
<1>1. CASE t # s
  BY <1>1, LinkIs DEF Writes, Others, SideKept, SideIs
<1>2. CASE t = s
  <2>1. PICK w : SideIs(t, w) /\ Gets(Link(t), m, w)
    BY <1>2 DEF Writes, Becomes
  <2>2. PICK q, r : q = queue[t] /\ r = queue'[t]
    OBVIOUS
  <2>3. IsSeq(q) /\ r = w.queue
    BY <2>1, <2>2 DEF Queues, SideIs
  <2>4. r = q \/ \E e \in 1..2 : Appended(r, q, [msg |-> m, left |-> e])
    BY <2>1, <2>2, <2>3, LinkIs DEF Gets
  <2>5. m # Prepared(n)
    BY PreparedIs
  <2>6. Spot(r, n) = Spot(q, n)
    BY <2>3, <2>4, <2>5, UsesAppend
  <2>7. QED
    BY <2>2, <2>6
<1>3. QED
  BY <1>1, <1>2

LEMMA CountsOfWriting ==
  ASSUME CountsAreRight, Queues(queue), NEW s \in Sock, Writing(s) \/ Leaving(s) \/ Joining(s)
  PROVE  CountsAreRight'
<1>1. UNCHANGED refs
  BY DEF Writing, Leaving, Joining
<1>2. \E m : Unshared(m) /\ Writes(s, m)
  BY MessageKinds DEF Writing, Leaving, Joining
<1>3. QED
  BY <1>1, <1>2, SpotsKept, CountsSame

LEMMA CountsOfFlushing ==
  ASSUME CountsAreRight, Queues(queue), Queues(queue'), NEW s \in Sock, Flushing(s)
  PROVE  CountsAreRight'
<1>1. PICK k : /\ Flushes(s, k)
               /\ refs' = IF k = queue[s][1].left THEN Released(<<queue[s][1]>>) ELSE refs
  BY DEF Flushing
<1>2. \A t \in Sock : t # s => queue'[t] = queue[t]
  BY <1>1, LinkIs DEF Flushes, Others, SideKept, SideIs
<1>3. PICK q, r : q = queue[s] /\ r = queue'[s]
  OBVIOUS
<1>4. /\ k = queue[s][1].left => IsTail(r, q)
      /\ k # queue[s][1].left => SameMessages(r, q)
  BY <1>1, <1>3 DEF Flushes, Becomes, SideIs
<1>5. IsSeq(q) /\ IsSeq(r) /\ q # <<>>
  BY <1>3 DEF Queues, Flushing
<1>6. CASE k = queue[s][1].left
  <2>1. PICK o : o = <<q[1]>>
    OBVIOUS
  <2>2. IsSeq(o) /\ refs' = Released(o)
    BY <1>1, <1>3, <1>6, <2>1, SingleFacts
  <2>3. \A n \in 1..MaxSends : Uses(q, n) = Uses(<<q[1]>>, n) + Uses(r, n)
    BY <1>4, <1>5, <1>6, UsesTail
  <2>4. \A n \in 1..MaxSends : Uses(queue[s], n) = Uses(o, n) + Uses(queue'[s], n)
    BY <1>3, <2>1, <2>3
  <2>5. QED
    BY <1>2, <2>2, <2>4, CountsLess
<1>7. CASE k # queue[s][1].left
  <2>1. \A n : Spot(r, n) = Spot(q, n)
    BY <1>4, <1>5, <1>7, UsesSame
  <2>2. UNCHANGED refs
    BY <1>1, <1>7
  <2>3. \A t \in Sock, n \in 1..MaxSends : Spot(queue'[t], n) = Spot(queue[t], n)
    BY <1>2, <1>3, <2>1
  <2>4. QED
    BY <2>2, <2>3, CountsSame
<1>8. QED
  BY <1>6, <1>7

LEMMA CountsOfEnding ==
  ASSUME CountsAreRight, Queues(queue), Queues(queue'), NEW s \in Sock, Ending(s)
  PROVE  CountsAreRight'
<1>1. \A t \in Sock : t # s => queue'[t] = queue[t]
  BY LinkIs DEF Ending, Stops, Others, SideKept, SideIs
<1>2. PICK q, r : q = queue[s] /\ r = queue'[s]
  OBVIOUS
<1>3. IsSeq(q) /\ refs' = Released(q) /\ r = <<>>
  BY <1>2, EndedFacts DEF Queues, Ending, Stops, SideIs
<1>4. \A n : Uses(r, n) = 0 /\ Uses(q, n) \in Nat
  BY <1>3, UsesEmpty, SpotFacts
<1>5. \A n \in 1..MaxSends : Uses(queue[s], n) = Uses(q, n) + Uses(queue'[s], n)
  BY <1>2, <1>4
<1>6. QED
  BY <1>1, <1>3, <1>5, CountsLess

LEMMA CountsOfQuiet ==
  ASSUME CountsAreRight, SidesKept, UNCHANGED refs
  PROVE  CountsAreRight'
<1>1. \A t \in Sock : queue'[t] = queue[t]
  BY LinkIs DEF SidesKept, SideKept, SideIs
<1>2. \A t \in Sock, n \in 1..MaxSends : Spot(queue'[t], n) = Spot(queue[t], n)
  BY <1>1
<1>3. QED
  BY <1>2, CountsSame

\* A message that was not sent waits nowhere.
LEMMA NotWaiting ==
  ASSUME Inv, PreparedBelow, NEW t \in Sock, NEW n \in Nat, n > sends
  PROVE  Spot(queue[t], n) = {}
<1>1. PICK q, T : q = queue[t] /\ T = taken[t]
  OBVIOUS
<1>2. IsSeq(q) /\ IsSeq(T) /\ Queued(q, T)
  BY <1>1, LinkIs DEF Inv, LinksAreGood, Sided, LinkFits, Fits
<1>3. ASSUME NEW i \in DOMAIN q
      PROVE  q[i].msg # Prepared(n)
  <2>1. /\ i \in 1..Len(q) /\ Len(q) \in Nat /\ Len(T) \in Nat /\ Len(q) <= Len(T)
        /\ DOMAIN T = 1..Len(T)
    BY <1>2, <1>3, SeqFacts DEF Queued
  <2>2. PICK j : j = Len(T) - Len(q) + i
    OBVIOUS
  <2>3. q[i].msg = T[j]
    <3>1. q[i] = [msg |-> T[Len(T) - Len(q) + i], left |-> q[i].left]
      BY <1>2, <2>1 DEF Queued
    <3>2. PICK m, e : m = T[j] /\ e = q[i].left
      OBVIOUS
    <3>3. q[i] = [msg |-> m, left |-> e]
      BY <2>2, <3>1, <3>2
    <3>4. q[i].msg = m
      BY <3>3
    <3>5. QED
      BY <3>2, <3>4
  <2>4. j \in DOMAIN T
    BY <2>1, <2>2
  <2>5. q[i].msg \in ToSet(T)
    BY <2>3, <2>4 DEF ToSet
  <2>6. Prepared(n) \notin ToSet(T)
    BY <1>1 DEF PreparedBelow, Inv, Shape
  <2>7. QED
    BY <2>5, <2>6
<1>4. Spot(q, n) = {}
  BY <1>3 DEF Spot
<1>5. QED
  BY <1>1, <1>4

\* Where a broadcast leaves its message.
Lands(t, n) ==
  /\ \A k : k # n => Spot(queue'[t], k) = Spot(queue[t], k)
  /\ Spot(queue'[t], n) = IF queue'[t] = queue[t] THEN {} ELSE {Len(queue[t]) + 1}

LEMMA BroadcastLands ==
  ASSUME Inv, PreparedBelow, NEW n \in Nat, n > sends, Spreading(n), NEW t \in Sock
  PROVE  Lands(t, n)
<1>1. PICK q, r : q = queue[t] /\ r = queue'[t]
  OBVIOUS
<1>2. IsSeq(q)
  BY <1>1, QueuesNow DEF QueuesRight, Queues
<1>3. Spot(q, n) = {}
  BY <1>1, NotWaiting
<1>4. r = q \/ \E e : Appended(r, q, [msg |-> Prepared(n), left |-> e])
  <2>1. CASE phase[t] # "open"
    BY <1>1, <2>1, LinkIs DEF Spreading, SideKept, SideIs
  <2>2. CASE phase[t] = "open"
    <3>1. PICK w : SideIs(t, w) /\ Written(Link(t), Prepared(n), w)
      BY <2>2 DEF Spreading, Reached, Becomes
    <3>2. Gets(Link(t), Prepared(n), w)
      BY <3>1, WrittenGets
    <3>3. r = w.queue
      BY <1>1, <3>1 DEF SideIs
    <3>4. QED
      BY <1>1, <3>2, <3>3, LinkIs DEF Gets
  <2>3. QED
    BY <2>1, <2>2
<1>5. CASE r = q
  BY <1>1, <1>3, <1>5 DEF Lands
<1>6. ASSUME NEW e, Appended(r, q, [msg |-> Prepared(n), left |-> e])
      PROVE  Lands(t, n)
  <2>1. PICK m : m = Prepared(n)
    OBVIOUS
  <2>2. Appended(r, q, [msg |-> m, left |-> e])
    BY <1>6, <2>1
  <2>3. \A k : k # n => m # Prepared(k)
    BY <2>1 DEF Prepared
  <2>4. \A k : k # n => Spot(r, k) = Spot(q, k)
    BY <1>2, <2>2, <2>3, UsesAppend
  <2>5. Spot(r, n) = Spot(q, n) \cup {Len(q) + 1}
    BY <1>2, <2>1, <2>2, UsesAppend
  <2>6. r # q
    BY <1>2, <1>6, AppendFacts, SeqFacts
  <2>7. QED
    BY <1>1, <1>3, <2>4, <2>5, <2>6 DEF Lands
<1>7. QED
  BY <1>4, <1>5, <1>6

\* The queues R are Q, but that n lands at the places g of those of S.
LandsAt(n, Q, R, g, S) ==
  /\ S = {s \in Sock : R[s] # Q[s]}
  /\ \A t \in Sock : Spot(R[t], n) = IF R[t] = Q[t] THEN {} ELSE {g[t]}

\* Its places are as many as the queues that change.
LEMMA SlotsOfBroadcast ==
  ASSUME NEW n, NEW Q, NEW R, NEW behind, NEW S, LandsAt(n, Q, R, behind, S)
  PROVE  Cardinality(Slots(R, n)) = Cardinality(S)
<1>0. /\ S = {s \in Sock : R[s] # Q[s]}
      /\ \A t \in Sock : Spot(R[t], n) = IF R[t] = Q[t] THEN {} ELSE {behind[t]}
  BY DEF LandsAt
<1> DEFINE g == [s \in S |-> <<s, behind[s]>>]
           W == Slots(R, n)
<1>1. ASSUME NEW s \in S
      PROVE  <<s, behind[s]>> \in W
  <2>1. s \in Sock /\ Spot(R[s], n) = {behind[s]}
    BY <1>0
  <2>2. <<s, behind[s]>> \in Place(s, R[s], n)
    BY <2>1 DEF Place
  <2>3. QED
    BY <2>1, <2>2 DEF Slots
<1>2. ASSUME NEW w \in W
      PROVE  \E s \in S : w = <<s, behind[s]>>
  <2>1. PICK s \in Sock : w \in Place(s, R[s], n)
    BY DEF Slots
  <2>2. Spot(R[s], n) # {}
    BY <2>1 DEF Place
  <2>3. s \in S /\ Spot(R[s], n) = {behind[s]}
    BY <1>0, <2>1, <2>2
  <2>4. w = <<s, behind[s]>>
    BY <2>1, <2>3 DEF Place
  <2>5. QED
    BY <2>3, <2>4
<1> HIDE DEF W
<1>3. g \in [S -> W]
  BY <1>1
<1>4. \A s, t \in S : g[s] = g[t] => s = t
  OBVIOUS
<1>5. \A w \in W : \E s \in S : g[s] = w
  BY <1>2
<1>6. g \in Bijection(S, W)
  <2> HIDE DEF g
  <2>1. QED
    BY <1>3, <1>4, <1>5 DEF Bijection, Injection, Surjection, IsInjective
<1>7. IsFiniteSet(S)
  BY <1>0, TransportAssumption, FS_Subset
<1>8. Cardinality(W) = Cardinality(S)
  <2> HIDE DEF g
  <2>1. QED
    BY <1>6, <1>7, FS_Bijection DEF ExistsBijection
<1>9. QED
  BY <1>8 DEF W

LEMMA CountsOfSpreading ==
  ASSUME Inv, PreparedBelow, CountsAreRight, Spreading(sends + 1), sends < MaxSends
  PROVE  CountsAreRight'
<1>1. PICK n : n = sends + 1
  OBVIOUS
<1>2. n \in 1..MaxSends /\ n \in Nat /\ n > sends
  BY <1>1, TransportAssumption DEF Inv, Shape
<1>3. \A t \in Sock : Lands(t, n)
  BY <1>1, <1>2, BroadcastLands
<1>4. PICK S : S = {s \in Sock : queue'[s] # queue[s]}
  OBVIOUS
<1>5. refs' = [refs EXCEPT ![n] = Cardinality(S)]
  BY <1>1, <1>4 DEF Spreading
<1>6. PICK g : g = [t \in Sock |-> Len(queue[t]) + 1]
  OBVIOUS
<1>7. \A t \in Sock : Spot(queue'[t], n) = IF queue'[t] = queue[t] THEN {} ELSE {g[t]}
  BY <1>3, <1>6 DEF Lands
<1>8. Cardinality(Slots(queue', n)) = Cardinality(S)
  <2>1. PICK Q, R : Q = queue /\ R = queue'
    OBVIOUS
  <2>2. S = {s \in Sock : R[s] # Q[s]}
    BY <1>4, <2>1
  <2>3. \A t \in Sock : Spot(R[t], n) = IF R[t] = Q[t] THEN {} ELSE {g[t]}
    BY <1>7, <2>1
  <2>4. LandsAt(n, Q, R, g, S)
    BY <2>2, <2>3 DEF LandsAt
  <2>5. Cardinality(Slots(R, n)) = Cardinality(S)
    BY <2>4, SlotsOfBroadcast
  <2>6. QED
    BY <2>1, <2>5
<1>9. \A k \in 1..MaxSends : k # n => Slots(queue', k) = Slots(queue, k)
  <2>1. ASSUME NEW k \in 1..MaxSends, k # n
        PROVE  \A t \in Sock : Spot(queue'[t], k) = Spot(queue[t], k)
    BY <1>3, <2>1 DEF Lands
  <2>2. QED
    BY <2>1, SlotsKept
<1>10. DOMAIN refs' = 1..MaxSends /\ refs'[n] = Cardinality(S)
  BY <1>2, <1>5 DEF CountsAreRight
<1>11. \A k \in 1..MaxSends : k # n => refs'[k] = refs[k]
  BY <1>5 DEF CountsAreRight
<1>12. QED
  BY <1>8, <1>9, <1>10, <1>11 DEF CountsAreRight, Counts

LEMMA CountsKept ==
  ASSUME Inv, PreparedBelow, CountsAreRight, Queues(queue), Queues(queue'), Kinds
  PROVE  CountsAreRight'
<1>1. ASSUME NEW s \in Sock, Starting(s)
      PROVE  CountsAreRight'
  BY <1>1, CountsOfQuiet DEF Starting
<1>2. CASE Hearing
  BY <1>2, CountsOfQuiet DEF Hearing
<1>3. QED
  BY <1>1, <1>2, CountsOfWriting, CountsOfFlushing, CountsOfEnding, CountsOfSpreading DEF Kinds

LEMMA CountsStart == Init => CountsAreRight
<1> SUFFICES ASSUME Init
             PROVE  CountsAreRight
  OBVIOUS
<1>1. DOMAIN refs = 1..MaxSends /\ \A n \in 1..MaxSends : refs[n] = 0
  BY DEF Init
<1>2. \A s \in Sock : queue[s] = <<>>
  BY DEF Init
<1>3. \A s \in Sock : \A n : Place(s, queue[s], n) = {}
  BY <1>2 DEF Place, Spot
<1>4. \A n : Slots(queue, n) = {}
  BY <1>3 DEF Slots
<1>5. Cardinality({}) = 0
  BY FS_EmptySet
<1>6. QED
  BY <1>1, <1>4, <1>5 DEF CountsAreRight, Counts

\* A prepared message has exactly as many references as there are places in the
\* queues where it waits: what sendPrepared counts, and the callbacks of io_cb
\* and onEnd give back, neither frees it under a queue nor keeps it for ever.
THEOREM PreparedLive == Spec => []PreparedLives
<1>1. Inv /\ PreparedBelow /\ CountsAreRight /\ QueuesRight /\ QueuesRight' /\ [Next]_vars
        => CountsAreRight'
  BY StepKinds, CountsKept DEF QueuesRight
<1>2. CountsAreRight => PreparedLives
  BY WaitingIs DEF CountsAreRight, Counts, PreparedLives
<1>3. QED
  BY <1>1, <1>2, CountsStart, QueuesNow, Always, AlwaysBelow, PTL DEF Spec

-----------------------------------------------------------------------------
(* What the peers say: the bytes and the reader of whole frames. *)

Byte == Nat \X Int
\* A byte of a payload of f.
SaidByte(f) == (1..Len(f)) \X Nat
End(f, i) == Len(Stream(f)[i])

LEMMA FrameFacts ==
  ASSUME NEW f \in Seq(Frame), NEW i \in 1..Len(f)
  PROVE  /\ f[i] \in Frame /\ f[i].op \in Op /\ f[i].fin \in BOOLEAN /\ f[i].len \in Nat
         /\ f[i].head \in Nat /\ f[i].head >= ShortHeader /\ f[i].head >= 1
         /\ f[i].utf8 \in BOOLEAN
<1>1. PICK x \in Frame : x = f[i]
  OBVIOUS
<1>2. /\ x.op \in Op /\ x.fin \in BOOLEAN /\ x.len \in Nat /\ x.utf8 \in BOOLEAN
      /\ x.head \in {n \in Nat : n >= ShortHeader}
  BY DEF Frame
<1>3. QED
  BY <1>1, <1>2, FramingAssumption

LEMMA BytesOfFacts ==
  ASSUME NEW f \in Seq(Frame), NEW i \in 1..Len(f)
  PROVE  /\ BytesOf(f, i) \in Seq(Byte)
         /\ Len(BytesOf(f, i)) = f[i].head + f[i].len
         /\ \A k \in 1..(f[i].head + f[i].len) : BytesOf(f, i)[k] = <<i, k - 1 - f[i].head>>
<1>1. PICK n, h : n = f[i].head + f[i].len /\ h = f[i].head
  OBVIOUS
<1>2. n \in Nat /\ h \in Nat /\ i \in Nat
  BY <1>1, FrameFacts
<1>3. BytesOf(f, i) = [k \in 1..n |-> <<i, k - 1 - h>>]
  BY <1>1 DEF BytesOf
<1>4. \A k \in 1..n : <<i, k - 1 - h>> \in Byte
  BY <1>2 DEF Byte
<1>5. BytesOf(f, i) \in [1..n -> Byte]
  BY <1>3, <1>4
<1>6. BytesOf(f, i) \in Seq(Byte) /\ Len(BytesOf(f, i)) = n
  BY <1>2, <1>5
<1>7. QED
  BY <1>1, <1>3, <1>6

IsStream(s, f) ==
  s = [i \in 0..Len(f) |-> IF i = 0 THEN <<>> ELSE s[i - 1] \o BytesOf(f, i)]

LEMMA StreamFacts ==
  ASSUME NEW f \in Seq(Frame)
  PROVE  /\ Stream(f)[0] = <<>>
         /\ \A i \in 0..Len(f) : Stream(f)[i] \in Seq(Byte)
         /\ \A i \in 1..Len(f) : Stream(f)[i] = Stream(f)[i - 1] \o BytesOf(f, i)
<1> DEFINE V == Seq(Byte)
           step == [x \in (1..Len(f)) \X V |-> x[2] \o BytesOf(f, x[1])]
<1>1. Len(f) \in Nat /\ <<>> \in V
  OBVIOUS
<1>2. step \in [(1..Len(f)) \X V -> V]
  BY BytesOfFacts
<1>3. \A i \in 1..Len(f) : \A v \in V : step[<<i, v>>] = v \o BytesOf(f, i)
  OBVIOUS
<1> HIDE DEF step
<1>4. PICK s : Recurs(s, Len(f), V, <<>>, step)
  <2>1. RecursionIs(Len(f), V, <<>>, step)
    BY <1>1, <1>2, Zenon DEF RecursionIs
  <2>2. QED
    BY <2>1, RecursionExists, Zenon
<1>a. s \in [0..Len(f) -> V] /\ s[0] = <<>> /\ \A i \in 1..Len(f) : s[i] = step[<<i, s[i - 1]>>]
  BY <1>4, Zenon DEF Recurs
<1>5. ASSUME NEW i \in 0..Len(f)
      PROVE  s[i] = IF i = 0 THEN <<>> ELSE s[i - 1] \o BytesOf(f, i)
  <2>1. CASE i = 0
    BY <1>a, <2>1
  <2>2. CASE i # 0
    <3>1. i \in 1..Len(f) /\ i - 1 \in 0..Len(f)
      BY <1>1, <2>2
    <3> HIDE DEF V
    <3>a. s[i - 1] \in V
      BY <1>a, <3>1
    <3>2. QED
      BY <1>3, <1>a, <2>2, <3>1, <3>a
  <2>3. QED
    BY <2>1, <2>2
<1>6. IsStream(s, f)
  <2>1. s = [i \in 0..Len(f) |-> s[i]]
    BY <1>a
  <2>2. QED
    BY <1>5, <2>1 DEF IsStream
<1>7. IsStream(Stream(f), f)
  <2>1. Stream(f) = CHOOSE t : IsStream(t, f)
    BY Zenon DEF Stream, IsStream
  <2>2. QED
    BY <1>6, <2>1, Zenon
<1>8. PICK t : t = Stream(f)
  OBVIOUS
<1>9. t = [i \in 0..Len(f) |-> IF i = 0 THEN <<>> ELSE t[i - 1] \o BytesOf(f, i)]
  BY <1>7, <1>8 DEF IsStream
<1>10. t[0] = <<>> /\ \A i \in 1..Len(f) : t[i] = t[i - 1] \o BytesOf(f, i)
  <2> DEFINE W(i, v) == v \o BytesOf(f, i)
             none == <<>>
  <2>1. t = [i \in 0..Len(f) |-> IF i = 0 THEN none ELSE W(i, t[i - 1])]
    BY <1>9
  <2> HIDE DEF W, none
  <2>2. 0 \in 0..Len(f) /\ \A i \in 1..Len(f) : i \in 0..Len(f) /\ i # 0
    BY <1>1
  <2>3. t[0] = none /\ \A i \in 1..Len(f) : t[i] = W(i, t[i - 1])
    BY <2>1, <2>2
  <2>4. QED
    BY <2>3, Zenon DEF W, none
<1> DEFINE S == {i \in 0..Len(f) : t[i] \in Seq(Byte)}
<1>11. 0..Len(f) \subseteq S
  <2>0. 0 \in 0..Len(f) /\ <<>> \in Seq(Byte)
    BY <1>1
  <2>1. 0 \in S
    BY <2>0, <1>10, Zenon
  <2>2. ASSUME NEW i \in 1..Len(f), i - 1 \in S
        PROVE  i \in S
    <3>1. PICK a, b, c : a = t[i - 1] /\ b = BytesOf(f, i) /\ c = t[i]
      OBVIOUS
    <3>2. a \in Seq(Byte) /\ b \in Seq(Byte) /\ c = a \o b
      BY <1>10, <2>2, <3>1, BytesOfFacts
    <3>3. c \in Seq(Byte)
      BY <3>2
    <3>4. i \in 0..Len(f)
      BY <1>1
    <3>5. QED
      BY <3>1, <3>3, <3>4
  <2> HIDE DEF S
  <2>3. QED
    BY <1>1, <2>1, <2>2, UpTo
<1>12. QED
  BY <1>8, <1>10, <1>11

LEMMA EndFacts ==
  ASSUME NEW f \in Seq(Frame)
  PROVE  /\ End(f, 0) = 0
         /\ \A i \in 0..Len(f) : End(f, i) \in Nat
         /\ \A i \in 1..Len(f) : End(f, i) = End(f, i - 1) + f[i].head + f[i].len
<1>1. End(f, 0) = 0 /\ \A i \in 0..Len(f) : End(f, i) \in Nat
  BY StreamFacts DEF End
<1>2. ASSUME NEW i \in 1..Len(f)
      PROVE  End(f, i) = End(f, i - 1) + f[i].head + f[i].len
  <2>1. PICK a, b, c : a = Stream(f)[i - 1] /\ b = BytesOf(f, i) /\ c = Stream(f)[i]
    OBVIOUS
  <2>2. i - 1 \in 0..Len(f)
    OBVIOUS
  <2>3. a \in Seq(Byte) /\ b \in Seq(Byte) /\ c = a \o b
    BY <2>1, <2>2, StreamFacts, BytesOfFacts
  <2>4. Len(c) = Len(a) + Len(b)
    BY <2>3
  <2>5. Len(b) = f[i].head + f[i].len
    BY <2>1, BytesOfFacts
  <2>6. f[i].head \in Nat /\ f[i].len \in Nat /\ Len(a) \in Nat
    BY <2>3, FrameFacts
  <2>7. QED
    BY <2>1, <2>4, <2>5, <2>6 DEF End
<1>3. QED
  BY <1>1, <1>2

\* Later frames end later, by more than a header at least.
LEMMA EndsGrow ==
  ASSUME NEW f \in Seq(Frame), NEW i \in 0..Len(f), NEW j \in 0..Len(f)
  PROVE  /\ i <= j => End(f, i) <= End(f, j)
         /\ i < j => End(f, i) + f[i + 1].head + f[i + 1].len <= End(f, j)
<1> DEFINE S == {k \in 0..Len(f) : \A m \in 0..Len(f) : m <= k => End(f, m) <= End(f, k)}
<1>1. Len(f) \in Nat /\ \A k \in 0..Len(f) : End(f, k) \in Nat
  BY EndFacts
<1>2. 0 \in S
  BY <1>1
<1>3. ASSUME NEW k \in 1..Len(f), k - 1 \in S
      PROVE  k \in S
  <2>1. End(f, k - 1) <= End(f, k)
    <3>1. k - 1 \in 0..Len(f) /\ k \in 0..Len(f)
      BY <1>1
    <3>2. End(f, k) = End(f, k - 1) + f[k].head + f[k].len
      BY EndFacts
    <3>3. f[k].head \in Nat /\ f[k].len \in Nat /\ End(f, k - 1) \in Nat /\ End(f, k) \in Nat
      BY <1>1, <3>1, FrameFacts
    <3>4. PICK a, b, h, l : a = End(f, k - 1) /\ b = End(f, k) /\ h = f[k].head /\ l = f[k].len
      OBVIOUS
    <3>5. b = a + h + l /\ h \in Nat /\ l \in Nat /\ a \in Nat
      BY <3>2, <3>3, <3>4, Zenon
    <3>6. a <= b
      BY <3>5
    <3>7. QED
      BY <3>4, <3>6, Zenon
  <2>2. ASSUME NEW m \in 0..Len(f), m <= k
        PROVE  End(f, m) <= End(f, k)
    <3>1. CASE m = k
      BY <1>1, <3>1
    <3>2. CASE m # k
      <4>1. m <= k - 1 /\ k - 1 \in 0..Len(f) /\ k \in 0..Len(f)
        BY <1>1, <2>2, <3>2
      <4>2. End(f, m) <= End(f, k - 1)
        BY <1>3, <4>1
      <4>3. End(f, m) \in Nat /\ End(f, k - 1) \in Nat /\ End(f, k) \in Nat
        BY <1>1, <4>1
      <4>4. QED
        BY <2>1, <4>2, <4>3
    <3>3. QED
      BY <3>1, <3>2
  <2>3. QED
    BY <1>1, <2>2
<1>4. 0..Len(f) \subseteq S
  <2> HIDE DEF S
  <2> QED
    BY <1>1, <1>2, <1>3, UpTo
<1>5. \A k, m \in 0..Len(f) : m <= k => End(f, m) <= End(f, k)
  BY <1>4
<1>6. ASSUME i < j
      PROVE  End(f, i) + f[i + 1].head + f[i + 1].len <= End(f, j)
  <2>1. i + 1 \in 1..Len(f) /\ i + 1 \in 0..Len(f) /\ i + 1 <= j /\ (i + 1) - 1 = i
    BY <1>1, <1>6
  <2>2. End(f, i + 1) <= End(f, j)
    BY <1>5, <2>1
  <2>3. End(f, i + 1) = End(f, i) + f[i + 1].head + f[i + 1].len
    BY <2>1, EndFacts
  <2>4. QED
    BY <2>2, <2>3
<1>7. QED
  BY <1>5, <1>6

\* Where a byte of a frame is.
LEMMA ByteAt ==
  ASSUME NEW f \in Seq(Frame), NEW i \in 1..Len(f), NEW k \in 1..(f[i].head + f[i].len)
  PROVE  /\ Bytes(f) \in Seq(Byte) /\ Len(Bytes(f)) = End(f, Len(f))
         /\ End(f, i - 1) + k \in 1..Len(Bytes(f))
         /\ Bytes(f)[End(f, i - 1) + k] = <<i, k - 1 - f[i].head>>
<1>1. Len(f) \in Nat /\ i \in Nat /\ i - 1 \in 0..Len(f) /\ i \in 0..Len(f) /\ Len(f) \in 0..Len(f)
  OBVIOUS
<1>2. PICK n, e, w : n = f[i].head + f[i].len /\ e = End(f, i - 1) /\ w = <<i, k - 1 - f[i].head>>
  OBVIOUS
<1>3. n \in Nat /\ e \in Nat /\ k \in 1..n
  BY <1>1, <1>2, FrameFacts, EndFacts
<1> DEFINE S == {j \in 0..Len(f) : j >= i => Stream(f)[j][e + k] = w /\ Len(Stream(f)[j]) >= e + n}
<1>4. 0 \in S
  BY <1>1
<1>5. ASSUME NEW j \in 1..Len(f), j - 1 \in S
      PROVE  j \in S
  <2>0. j \in 0..Len(f) /\ j - 1 \in 0..Len(f) /\ j \in Nat
    BY <1>1
  <2>1. PICK a, b, c : a = Stream(f)[j - 1] /\ b = BytesOf(f, j) /\ c = Stream(f)[j]
    OBVIOUS
  <2>2. a \in Seq(Byte) /\ b \in Seq(Byte) /\ c = a \o b
    BY <2>0, <2>1, StreamFacts, BytesOfFacts
  <2>3. /\ Len(c) = Len(a) + Len(b) /\ Len(a) \in Nat /\ Len(b) \in Nat
        /\ \A m \in 1..Len(a) : c[m] = a[m]
        /\ \A m \in 1..Len(b) : c[Len(a) + m] = b[m]
    BY <2>2
  <2>4. CASE j = i
    <3>1. Len(a) = e /\ Len(b) = n /\ b[k] = w
      BY <1>2, <2>1, <2>4, BytesOfFacts DEF End
    <3>2. c[e + k] = w /\ Len(c) >= e + n
      BY <1>3, <2>3, <3>1
    <3>3. QED
      BY <2>0, <2>1, <3>2
  <2>5. CASE j > i
    <3>1. j - 1 >= i
      BY <1>1, <2>0, <2>5
    <3>2. a[e + k] = w /\ Len(a) >= e + n
      BY <1>5, <2>1, <3>1
    <3>3. e + k \in 1..Len(a)
      BY <1>3, <2>3, <3>2
    <3>4. c[e + k] = w /\ Len(c) >= e + n
      BY <1>3, <2>3, <3>2, <3>3
    <3>5. QED
      BY <2>0, <2>1, <3>4
  <2>6. CASE j < i
    BY <1>1, <2>0, <2>6
  <2>7. QED
    BY <1>1, <2>0, <2>4, <2>5, <2>6
<1>6. 0..Len(f) \subseteq S
  <2> HIDE DEF S
  <2> QED
    BY <1>1, <1>4, <1>5, UpTo
<1>7. Bytes(f)[e + k] = w /\ Len(Bytes(f)) >= e + n
  BY <1>1, <1>6 DEF Bytes
<1>8. Bytes(f) \in Seq(Byte) /\ Len(Bytes(f)) = End(f, Len(f))
  BY <1>1, StreamFacts DEF Bytes, End
<1>9. e + k \in 1..Len(Bytes(f))
  BY <1>3, <1>7, <1>8
<1>10. QED
  BY <1>2, <1>7, <1>8, <1>9

-----------------------------------------------------------------------------
(* The reader of whole frames. *)

Saying(f) == [op : Op \ ControlOp, data : Seq(SaidByte(f))]
Readers(f) ==
  [within : BOOLEAN, op : Op \ ControlOp, data : Seq(SaidByte(f)),
   said : Seq(Saying(f)), pinged : Seq(Seq(SaidByte(f)))]

LEMMA PayloadFacts ==
  ASSUME NEW f \in Seq(Frame), NEW i \in 1..Len(f)
  PROVE  /\ Payload(f, i) \in Seq(SaidByte(f)) /\ Len(Payload(f, i)) = f[i].len
         /\ Payload(f, i) = [k \in 1..f[i].len |-> <<i, k - 1>>]
<1>1. PICK n : n = f[i].len
  OBVIOUS
<1>2. n \in Nat
  BY <1>1, FrameFacts
<1>3. Payload(f, i) = [k \in 1..n |-> <<i, k - 1>>]
  BY <1>1 DEF Payload
<1>4. \A k \in 1..n : <<i, k - 1>> \in SaidByte(f)
  BY <1>2 DEF SaidByte
<1>5. Payload(f, i) \in [1..n -> SaidByte(f)]
  BY <1>3, <1>4
<1>6. Payload(f, i) \in Seq(SaidByte(f)) /\ Len(Payload(f, i)) = n
  BY <1>2, <1>5
<1>7. QED
  BY <1>1, <1>3, <1>6

\* What the reader r becomes by a frame.
PingRead(r, t, payload) ==
  /\ t.within = r.within /\ t.op = r.op /\ t.data = r.data /\ t.said = r.said
  /\ t.pinged = Append(r.pinged, payload)
PartRead(r, t, op, data) ==
  /\ t.within = TRUE /\ t.op = op /\ t.data = data /\ t.said = r.said /\ t.pinged = r.pinged
EndRead(r, t, op, data) ==
  /\ t.within = FALSE /\ t.op = op /\ t.data = <<>> /\ t.pinged = r.pinged
  /\ t.said = Append(r.said, [op |-> op, data |-> data])
OpOf(r, frame) == IF frame.op = "more" THEN r.op ELSE frame.op
DataOf(r, frame, payload) == IF frame.op = "more" THEN r.data \o payload ELSE payload
IsRead(t, r, frame, payload) ==
  /\ frame.op = "ping" => PingRead(r, t, payload)
  /\ frame.op \in {"close", "pong"} => t = r
  /\ frame.op \notin ControlOp =>
       IF frame.fin THEN EndRead(r, t, OpOf(r, frame), DataOf(r, frame, payload))
       ELSE PartRead(r, t, OpOf(r, frame), DataOf(r, frame, payload))

ReaderOf(w, o, d, s, p) == [within |-> w, op |-> o, data |-> d, said |-> s, pinged |-> p]

LEMMA ReaderIs ==
  ASSUME NEW f, NEW r \in Readers(f)
  PROVE  r = ReaderOf(r.within, r.op, r.data, r.said, r.pinged)
BY DEF Readers, ReaderOf

ReaderFits(f, w, o, d, s, p) ==
  /\ w \in BOOLEAN /\ o \in Op \ ControlOp /\ d \in Seq(SaidByte(f))
  /\ s \in Seq(Saying(f)) /\ p \in Seq(Seq(SaidByte(f)))
ReaderHas(r, f, w, o, d, s, p) ==
  r \in Readers(f) /\ r.within = w /\ r.op = o /\ r.data = d /\ r.said = s /\ r.pinged = p

LEMMA ReaderIn ==
  ASSUME NEW f, NEW w, NEW o, NEW d, NEW s, NEW p, ReaderFits(f, w, o, d, s, p),
         NEW r, r = ReaderOf(w, o, d, s, p)
  PROVE  ReaderHas(r, f, w, o, d, s, p)
BY DEF Readers, ReaderOf, ReaderFits, ReaderHas

LEMMA ReadFacts ==
  ASSUME NEW f \in Seq(Frame), NEW i \in 1..Len(f), NEW r \in Readers(f),
         NEW t, t = Read(r, f[i], Payload(f, i))
  PROVE  t \in Readers(f) /\ IsRead(t, r, f[i], Payload(f, i))
<1> DEFINE frame == f[i]
           payload == Payload(f, i)
           op == OpOf(r, frame)
           data == DataOf(r, frame, payload)
<1>1. frame.op \in Op /\ frame.fin \in BOOLEAN /\ payload \in Seq(SaidByte(f))
  BY FrameFacts, PayloadFacts
<1>2. /\ r.within \in BOOLEAN /\ r.op \in Op \ ControlOp /\ r.data \in Seq(SaidByte(f))
      /\ r.said \in Seq(Saying(f)) /\ r.pinged \in Seq(Seq(SaidByte(f)))
  BY DEF Readers
<1>3. PICK w, o, d, s, p : r = ReaderOf(w, o, d, s, p) /\ w = r.within /\ o = r.op
                           /\ d = r.data /\ s = r.said /\ p = r.pinged
  BY ReaderIs
<1>4. PICK x : x = payload
  OBVIOUS
<1>5. CASE frame.op = "ping"
  <2>1. PICK u : u = Append(p, x)
    OBVIOUS
  <2>2. t = [r EXCEPT !.pinged = Append(@, x)]
    BY <1>4, <1>5 DEF Read, ControlOp
  <2>3. t = ReaderOf(w, o, d, s, u)
    BY <1>3, <2>1, <2>2 DEF ReaderOf
  <2>4. u \in Seq(Seq(SaidByte(f)))
    <3>1. PICK A : A = Seq(SaidByte(f))
      OBVIOUS
    <3>2. p \in Seq(A) /\ x \in A
      BY <1>1, <1>2, <1>3, <1>4, <3>1, Zenon
    <3>3. QED
      BY <2>1, <3>1, <3>2
  <2>a. ReaderFits(f, w, o, d, s, u)
    BY <1>2, <1>3, <2>4, Zenon DEF ReaderFits
  <2>5. /\ t \in Readers(f) /\ t.within = w /\ t.op = o /\ t.data = d /\ t.said = s /\ t.pinged = u
    BY <2>3, <2>a, ReaderIn DEF ReaderHas
  <2>6. QED
    BY <1>3, <1>4, <1>5, <2>1, <2>5, Zenon DEF IsRead, PingRead, ControlOp
<1>6. CASE frame.op \in {"close", "pong"}
  <2>1. t = r
    BY <1>6 DEF Read, ControlOp
  <2>2. frame.op # "ping" /\ frame.op \in ControlOp
    BY <1>6 DEF ControlOp
  <2>3. QED
    BY <2>1, <2>2 DEF IsRead
<1>7. CASE frame.op \notin ControlOp
  <2>0. PICK y, z : y = op /\ z = data
    OBVIOUS
  <2>1. frame.op \notin {"ping", "close", "pong"}
    BY <1>7 DEF ControlOp
  <2>2. y \in Op \ ControlOp
    BY <1>1, <1>2, <1>7, <2>0 DEF OpOf
  <2>3. z \in Seq(SaidByte(f))
    BY <1>1, <1>2, <2>0 DEF DataOf
  <2>4. CASE frame.fin
    <3>1. PICK b, e, u : b = FALSE /\ e = <<>> /\ u = Append(s, [op |-> y, data |-> z])
      OBVIOUS
    <3>2. t = [r EXCEPT !.within = FALSE, !.op = y, !.data = <<>>,
                        !.said = Append(@, [op |-> y, data |-> z])]
      BY <1>7, <2>0, <2>1, <2>4 DEF Read, OpOf, DataOf
    <3>3. t = ReaderOf(b, y, e, u, p)
      BY <1>3, <3>1, <3>2 DEF ReaderOf
    <3>4. e \in Seq(SaidByte(f))
      BY <3>1
    <3>5. u \in Seq(Saying(f))
      <4>1. PICK m : m = [op |-> y, data |-> z]
        OBVIOUS
      <4>2. m \in Saying(f)
        BY <2>2, <2>3, <4>1 DEF Saying
      <4>3. PICK A : A = Saying(f)
        OBVIOUS
      <4>4. m \in A /\ s \in Seq(A) /\ u = Append(s, m)
        BY <1>2, <1>3, <3>1, <4>1, <4>2, <4>3, Zenon
      <4>5. QED
        BY <4>3, <4>4
    <3>a. ReaderFits(f, b, y, e, u, p)
      <4>1. b \in BOOLEAN
        BY <3>1
      <4>2. p \in Seq(Seq(SaidByte(f)))
        BY <1>2, <1>3, Zenon
      <4>3. QED
        BY <2>2, <3>4, <3>5, <4>1, <4>2, Zenon DEF ReaderFits
    <3>6. /\ t \in Readers(f) /\ t.within = b /\ t.op = y /\ t.data = e /\ t.said = u /\ t.pinged = p
      BY <3>3, <3>a, ReaderIn DEF ReaderHas
    <3>7. EndRead(r, t, y, z)
      BY <1>3, <3>1, <3>6, Zenon DEF EndRead
    <3>8. QED
      BY <1>7, <2>0, <2>1, <2>4, <3>6, <3>7, Zenon DEF IsRead
  <2>5. CASE ~frame.fin
    <3>1. PICK b : b = TRUE
      OBVIOUS
    <3>2. t = [r EXCEPT !.within = TRUE, !.op = y, !.data = z]
      BY <1>7, <2>0, <2>1, <2>5 DEF Read, OpOf, DataOf
    <3>3. t = ReaderOf(b, y, z, s, p)
      BY <1>3, <3>1, <3>2 DEF ReaderOf
    <3>a. ReaderFits(f, b, y, z, s, p)
      BY <1>2, <1>3, <2>2, <2>3, <3>1, Zenon DEF ReaderFits
    <3>6. /\ t \in Readers(f) /\ t.within = b /\ t.op = y /\ t.data = z /\ t.said = s /\ t.pinged = p
      BY <3>3, <3>a, ReaderIn DEF ReaderHas
    <3>7. PartRead(r, t, y, z)
      BY <1>3, <3>1, <3>6, Zenon DEF PartRead
    <3>8. QED
      BY <1>7, <2>0, <2>1, <2>5, <3>6, <3>7, Zenon DEF IsRead
  <2>6. QED
    BY <2>4, <2>5
<1>8. QED
  BY <1>5, <1>6, <1>7 DEF ControlOp

IsReader(s, f) ==
  s = [i \in 0..Len(f) |-> IF i = 0 THEN NewReader ELSE Read(s[i - 1], f[i], Payload(f, i))]

LEMMA ReaderFacts ==
  ASSUME NEW f \in Seq(Frame)
  PROVE  /\ Reader(f)[0] = NewReader
         /\ \A i \in 0..Len(f) : Reader(f)[i] \in Readers(f)
         /\ \A i \in 1..Len(f) : IsRead(Reader(f)[i], Reader(f)[i - 1], f[i], Payload(f, i))
<1> DEFINE V == Readers(f)
           W(i, v) == Read(v, f[i], Payload(f, i))
           step == [x \in (1..Len(f)) \X V |-> W(x[1], x[2])]
<1>1. Len(f) \in Nat
  OBVIOUS
<1>2. NewReader \in V
  <2>1. PICK e, b, o : e = <<>> /\ b = FALSE /\ o = "text"
    OBVIOUS
  <2>2. e \in Seq(SaidByte(f)) /\ e \in Seq(Saying(f)) /\ e \in Seq(Seq(SaidByte(f)))
    BY <2>1
  <2>3. NewReader = ReaderOf(b, o, e, e, e) /\ o \in Op \ ControlOp
    BY <2>1 DEF NewReader, ReaderOf, Op, DataOp, ControlOp
  <2>4. ReaderFits(f, b, o, e, e, e)
    BY <2>1, <2>2, <2>3 DEF ReaderFits
  <2>5. QED
    BY <2>3, <2>4, ReaderIn DEF ReaderHas
<1>3. \A i \in 1..Len(f) : \A v \in V : W(i, v) \in V /\ IsRead(W(i, v), v, f[i], Payload(f, i))
  BY ReadFacts
<1> HIDE DEF V, W
<1>4. step \in [(1..Len(f)) \X V -> V] /\ \A i \in 1..Len(f) : \A v \in V : step[<<i, v>>] = W(i, v)
  BY <1>3
<1> HIDE DEF step
<1>5. PICK s : Recurs(s, Len(f), V, NewReader, step)
  <2>1. RecursionIs(Len(f), V, NewReader, step)
    BY <1>1, <1>2, <1>4, Zenon DEF RecursionIs
  <2>2. QED
    BY <2>1, RecursionExists, Zenon
<1>6. s \in [0..Len(f) -> V] /\ s[0] = NewReader /\ \A i \in 1..Len(f) : s[i] = step[<<i, s[i - 1]>>]
  BY <1>5, Zenon DEF Recurs
<1>7. ASSUME NEW i \in 0..Len(f)
      PROVE  s[i] = IF i = 0 THEN NewReader ELSE W(i, s[i - 1])
  <2>1. CASE i = 0
    BY <1>6, <2>1
  <2>2. CASE i # 0
    <3>1. i \in 1..Len(f) /\ i - 1 \in 0..Len(f)
      BY <1>1, <2>2
    <3>2. s[i - 1] \in V
      BY <1>6, <3>1
    <3>3. QED
      BY <1>4, <1>6, <2>2, <3>1, <3>2
  <2>3. QED
    BY <2>1, <2>2
<1>8. IsReader(s, f)
  <2>1. s = [i \in 0..Len(f) |-> s[i]]
    BY <1>6
  <2>2. s = [i \in 0..Len(f) |-> IF i = 0 THEN NewReader ELSE W(i, s[i - 1])]
    BY <1>7, <2>1
  <2>3. QED
    BY <2>2 DEF IsReader, W
<1>9. IsReader(Reader(f), f)
  <2>1. Reader(f) = CHOOSE t : IsReader(t, f)
    BY Zenon DEF Reader, IsReader
  <2>2. QED
    BY <1>8, <2>1, Zenon
<1>10. PICK t : t = Reader(f)
  OBVIOUS
<1>11. t[0] = NewReader /\ \A i \in 1..Len(f) : t[i] = W(i, t[i - 1])
  <2>1. t = [i \in 0..Len(f) |-> IF i = 0 THEN NewReader ELSE W(i, t[i - 1])]
    BY <1>9, <1>10 DEF IsReader, W
  <2>2. 0 \in 0..Len(f) /\ \A i \in 1..Len(f) : i \in 0..Len(f) /\ i # 0
    BY <1>1
  <2>3. QED
    BY <2>1, <2>2
<1> DEFINE S == {i \in 0..Len(f) : t[i] \in V}
<1>12. 0..Len(f) \subseteq S
  <2>0. 0 \in 0..Len(f) /\ \A i \in 1..Len(f) : i \in 0..Len(f)
    BY <1>1
  <2>1. 0 \in S
    BY <2>0, <1>2, <1>11
  <2>2. ASSUME NEW i \in 1..Len(f), i - 1 \in S
        PROVE  i \in S
    BY <1>3, <1>11, <2>0, <2>2
  <2> HIDE DEF S
  <2>3. QED
    BY <1>1, <2>1, <2>2, UpTo
<1>13. \A i \in 0..Len(f) : t[i] \in V
  BY <1>12
<1>14. ASSUME NEW i \in 1..Len(f)
       PROVE  IsRead(t[i], t[i - 1], f[i], Payload(f, i))
  <2>1. i - 1 \in 0..Len(f)
    BY <1>1
  <2>2. t[i - 1] \in V
    BY <1>13, <2>1
  <2>3. QED
    BY <1>3, <1>11, <2>2
<1>15. QED
  BY <1>10, <1>11, <1>13, <1>14 DEF V

\* Outside of a message nothing of one is kept.
LEMMA NothingBegun ==
  ASSUME NEW f \in Seq(Frame), NEW i \in 0..Len(f), ~Reader(f)[i].within
  PROVE  Reader(f)[i].data = <<>>
<1> DEFINE S == {k \in 0..Len(f) : Reader(f)[k].within \/ Reader(f)[k].data = <<>>}
<1>1. Len(f) \in Nat /\ 0 \in 0..Len(f) /\ \A k \in 1..Len(f) : k \in 0..Len(f) /\ k - 1 \in 0..Len(f)
  OBVIOUS
<1>2. 0 \in S
  <2>1. Reader(f)[0].data = <<>>
    BY ReaderFacts DEF NewReader
  <2>2. QED
    BY <1>1, <2>1
<1>3. ASSUME NEW k \in 1..Len(f), k - 1 \in S
      PROVE  k \in S
  <2>1. PICK r, t, frame : r = Reader(f)[k - 1] /\ t = Reader(f)[k] /\ frame = f[k]
    OBVIOUS
  <2>2. IsRead(t, r, frame, Payload(f, k)) /\ frame.op \in Op
    BY <2>1, ReaderFacts, FrameFacts
  <2>3. r.within \/ r.data = <<>>
    BY <1>3, <2>1
  <2>4. frame.op = "ping" \/ frame.op \in {"close", "pong"} \/ frame.op \notin ControlOp
    BY DEF ControlOp
  <2>5. t.within \/ t.data = <<>>
    BY <2>2, <2>3, <2>4 DEF IsRead, PingRead, EndRead, PartRead
  <2>6. QED
    BY <1>1, <2>1, <2>5
<1>4. 0..Len(f) \subseteq S
  <2> HIDE DEF S
  <2> QED
    BY <1>1, <1>2, <1>3, UpTo
<1>5. QED
  BY <1>4

LEMMA PrefixIs ==
  ASSUME NEW q, IsSeq(q), NEW a, IsSeq(a), IsPrefix(q, a)
  PROVE  Len(q) <= Len(a) /\ \A i \in 1..Len(q) : a[i] = q[i]
<1>1. Len(q) <= Len(a) /\ SubSeq(q, 1, Len(q)) = SubSeq(a, 1, Len(q))
  BY DEF IsPrefix
<1>2. PICK S : q \in Seq(S)
  BY DEF IsSeq
<1>3. PICK T : a \in Seq(T)
  BY DEF IsSeq
<1>4. PICK W : W = S \cup T
  OBVIOUS
<1>5. q \in Seq(W) /\ a \in Seq(W)
  BY <1>2, <1>3, <1>4, SeqIn
<1>6. \A i \in 1..Len(q) : SubSeq(q, 1, Len(q))[i] = q[i] /\ SubSeq(a, 1, Len(q))[i] = a[i]
  BY <1>1, <1>5
<1>7. QED
  BY <1>1, <1>6

LEMMA PrefixSelf ==
  ASSUME NEW q, IsSeq(q)
  PROVE  IsPrefix(q, q) /\ IsPrefix(<<>>, q)
<1>1. Len(q) \in Nat /\ IsSeq(<<>>) /\ Len(<<>>) = 0
  BY SeqFacts, EmptyIsSeq
<1>2. QED
  BY <1>1, PrefixFacts

LEMMA PrefixChain ==
  ASSUME NEW q, IsSeq(q), NEW a, IsSeq(a), NEW b, IsSeq(b), IsPrefix(q, a), IsPrefix(a, b)
  PROVE  IsPrefix(q, b)
<1>1. Len(q) \in Nat /\ Len(a) \in Nat /\ Len(b) \in Nat
  BY SeqFacts
<1>2. Len(q) <= Len(a) /\ \A i \in 1..Len(q) : a[i] = q[i]
  BY PrefixIs
<1>3. Len(a) <= Len(b) /\ \A i \in 1..Len(a) : b[i] = a[i]
  BY PrefixIs
<1>4. Len(q) <= Len(b) /\ \A i \in 1..Len(q) : b[i] = q[i]
  BY <1>1, <1>2, <1>3
<1>5. QED
  BY <1>4, PrefixFacts

LEMMA PrefixAppended ==
  ASSUME NEW q, IsSeq(q), NEW x, NEW a, Appended(a, q, x)
  PROVE  IsSeq(a) /\ IsPrefix(q, a)
<1>1. IsSeq(a) /\ Len(a) = Len(q) + 1 /\ \A i \in 1..Len(q) : a[i] = q[i]
  BY AppendFacts
<1>2. Len(q) <= Len(a)
  BY <1>1, SeqFacts
<1>3. QED
  BY <1>1, <1>2, PrefixFacts

LEMMA ReaderSeqs ==
  ASSUME NEW f, NEW r \in Readers(f)
  PROVE  IsSeq(r.said) /\ IsSeq(r.pinged) /\ IsSeq(r.data)
<1>1. r.said \in Seq(Saying(f)) /\ r.pinged \in Seq(Seq(SaidByte(f))) /\ r.data \in Seq(SaidByte(f))
  BY DEF Readers
<1>2. QED
  BY <1>1, Zenon DEF IsSeq

\* A later reader has heard what an earlier one had.
Continues(r, t) == IsPrefix(r.said, t.said) /\ IsPrefix(r.pinged, t.pinged)

LEMMA ReadContinues ==
  ASSUME NEW f \in Seq(Frame), NEW i \in 1..Len(f)
  PROVE  Continues(Reader(f)[i - 1], Reader(f)[i])
<1>1. PICK r, t, frame : r = Reader(f)[i - 1] /\ t = Reader(f)[i] /\ frame = f[i]
  OBVIOUS
<1>2. i - 1 \in 0..Len(f) /\ i \in 0..Len(f)
  OBVIOUS
<1>3. IsRead(t, r, frame, Payload(f, i)) /\ IsSeq(r.said) /\ IsSeq(r.pinged)
  BY <1>1, <1>2, ReaderFacts, ReaderSeqs
<1>4. frame.op = "ping" \/ frame.op \in {"close", "pong"} \/ frame.op \notin ControlOp
  BY DEF ControlOp
<1>5. /\ t.said = r.said \/ \E x : Appended(t.said, r.said, x)
      /\ t.pinged = r.pinged \/ \E x : Appended(t.pinged, r.pinged, x)
  BY <1>3, <1>4 DEF IsRead, PingRead, EndRead, PartRead, Appended
<1>6. IsPrefix(r.said, t.said)
  BY <1>3, <1>5, PrefixSelf, PrefixAppended
<1>7. IsPrefix(r.pinged, t.pinged)
  BY <1>3, <1>5, PrefixSelf, PrefixAppended
<1>8. QED
  BY <1>1, <1>6, <1>7 DEF Continues

LEMMA ReadersGrow ==
  ASSUME NEW f \in Seq(Frame), NEW i \in 0..Len(f), NEW j \in 0..Len(f), i <= j
  PROVE  Continues(Reader(f)[i], Reader(f)[j])
<1> DEFINE S == {k \in 0..Len(f) : i <= k => Continues(Reader(f)[i], Reader(f)[k])}
<1>1. Len(f) \in Nat /\ i \in Nat /\ 0 \in 0..Len(f)
      /\ \A k \in 1..Len(f) : k \in 0..Len(f) /\ k - 1 \in 0..Len(f)
  OBVIOUS
<1>2. Continues(Reader(f)[i], Reader(f)[i])
  BY ReaderFacts, ReaderSeqs, PrefixSelf DEF Continues
<1>3. 0 \in S
  BY <1>1, <1>2
<1>4. ASSUME NEW k \in 1..Len(f), k - 1 \in S
      PROVE  k \in S
  <2>1. CASE i <= k - 1
    <3>1. PICK r, s, t : r = Reader(f)[i] /\ s = Reader(f)[k - 1] /\ t = Reader(f)[k]
      OBVIOUS
    <3>2. Continues(r, s) /\ Continues(s, t)
      BY <1>4, <2>1, <3>1, ReadContinues
    <3>3. /\ IsSeq(r.said) /\ IsSeq(s.said) /\ IsSeq(t.said)
          /\ IsSeq(r.pinged) /\ IsSeq(s.pinged) /\ IsSeq(t.pinged)
      BY <1>1, <3>1, ReaderFacts, ReaderSeqs
    <3>4. Continues(r, t)
      BY <3>2, <3>3, PrefixChain DEF Continues
    <3>5. QED
      BY <1>1, <3>1, <3>4
  <2>2. CASE i = k
    BY <1>1, <1>2, <2>2
  <2>3. CASE i > k
    BY <1>1, <2>3
  <2>4. QED
    BY <1>1, <2>1, <2>2, <2>3
<1>5. 0..Len(f) \subseteq S
  <2> HIDE DEF S
  <2> QED
    BY <1>1, <1>3, <1>4, UpTo
<1>6. QED
  BY <1>5

-----------------------------------------------------------------------------
(* The frames that are whole. *)

LEMMA WholeIs ==
  ASSUME NEW f \in Seq(Frame), NEW i \in 0..Len(f), NEW n \in Nat,
         End(f, i) <= n, i < Len(f) => n < End(f, i + 1)
  PROVE  Whole(f, n) = i
<1>1. PICK L : L = Len(f) /\ L \in Nat /\ DOMAIN f = 1..L
  OBVIOUS
<1>2. ASSUME NEW k \in 1..L
      PROVE  End(f, k) <= n <=> k <= i
  <2>1. k \in 0..L /\ k \in Nat /\ i \in Nat
    BY <1>1
  <2>2. End(f, k) \in Nat /\ End(f, i) \in Nat
    BY <1>1, <2>1, EndFacts
  <2>3. CASE k <= i
    <3>1. End(f, k) <= End(f, i)
      BY <1>1, <2>1, <2>3, EndsGrow
    <3>2. QED
      BY <2>2, <2>3, <3>1
  <2>4. CASE k > i
    <3>1. i + 1 \in 0..L /\ i + 1 <= k /\ i < L
      BY <1>1, <2>1, <2>4
    <3>2. End(f, i + 1) <= End(f, k) /\ End(f, i + 1) \in Nat
      BY <1>1, <2>1, <3>1, EndsGrow, EndFacts
    <3>3. QED
      BY <1>1, <2>1, <2>2, <2>4, <3>1, <3>2
  <2>5. QED
    BY <2>1, <2>3, <2>4
<1>3. {k \in DOMAIN f : Len(Stream(f)[k]) <= n} = 1..i
  <2>1. \A k \in 1..L : Len(Stream(f)[k]) <= n <=> k <= i
    BY <1>2 DEF End
  <2>2. i \in 0..L
    BY <1>1
  <2>3. QED
    BY <1>1, <2>1, <2>2
<1>4. i \in Nat /\ IsFiniteSet(1..i) /\ Cardinality(1..i) = i
  BY FS_Interval
<1>5. QED
  BY <1>3, <1>4, Zenon DEF Whole

LEMMA WholeAtLeast ==
  ASSUME NEW f \in Seq(Frame), NEW i \in 0..Len(f), NEW n \in Nat, End(f, i) <= n
  PROVE  Whole(f, n) \in i..Len(f)
<1>1. PICK L : L = Len(f) /\ L \in Nat /\ DOMAIN f = 1..L
  OBVIOUS
<1> DEFINE W == {k \in DOMAIN f : Len(Stream(f)[k]) <= n}
<1>2. 1..i \subseteq W
  <2>1. ASSUME NEW k \in 1..i
        PROVE  k \in 1..L /\ Len(Stream(f)[k]) <= n
    <3>1. k \in 1..L /\ k \in 0..L /\ k <= i
      BY <1>1
    <3>2. End(f, k) <= End(f, i) /\ End(f, k) \in Nat /\ End(f, i) \in Nat
      BY <1>1, <3>1, EndsGrow, EndFacts
    <3>3. QED
      BY <3>1, <3>2 DEF End
  <2>2. QED
    BY <1>1, <2>1
<1>3. W \subseteq 1..L
  BY <1>1
<1>4. IsFiniteSet(1..L) /\ Cardinality(1..L) = L /\ Cardinality(1..i) = i
  <2>1. i \in Nat
    OBVIOUS
  <2>2. Cardinality(1..i) = i
    BY <2>1, FS_Interval
  <2>3. IsFiniteSet(1..L) /\ Cardinality(1..L) = L
    <3>1. L \in Nat
      BY <1>1
    <3>2. QED
      BY <3>1, FS_Interval
  <2>4. QED
    BY <2>2, <2>3
<1> HIDE DEF W
<1>5. IsFiniteSet(W) /\ Cardinality(W) <= Cardinality(1..L)
  BY <1>3, <1>4, FS_Subset
<1>6. Cardinality(1..i) <= Cardinality(W)
  BY <1>2, <1>5, FS_Subset
<1>7. Cardinality(W) \in Nat
  BY <1>5, FS_CardinalityType
<1>8. Whole(f, n) = Cardinality(W)
  BY Zenon DEF Whole, W
<1>9. i \in Nat
  OBVIOUS
<1>10. QED
  BY <1>1, <1>4, <1>5, <1>6, <1>7, <1>8, <1>9

\* What is heard by the end of a frame is heard by then, or later.
LEMMA SaidBy ==
  ASSUME NEW f \in Seq(Frame), NEW i \in 0..Len(f), NEW n \in Nat, End(f, i) <= n
  PROVE  IsPrefix(Reader(f)[i].said, Said(f, n)) /\ IsPrefix(Reader(f)[i].pinged, Pinged(f, n))
         /\ IsSeq(Reader(f)[i].said) /\ IsSeq(Reader(f)[i].pinged) /\ IsSeq(Pinged(f, n))
<1>1. PICK w : w = Whole(f, n)
  OBVIOUS
<1>2. w \in 0..Len(f) /\ i <= w
  <2>1. w \in i..Len(f)
    BY <1>1, WholeAtLeast
  <2>2. QED
    BY <2>1
<1>3. Continues(Reader(f)[i], Reader(f)[w])
  BY <1>2, ReadersGrow
<1>4. IsSeq(Reader(f)[i].said) /\ IsSeq(Reader(f)[i].pinged) /\ IsSeq(Reader(f)[w].pinged)
  BY <1>2, ReaderFacts, ReaderSeqs
<1>5. QED
  BY <1>1, <1>3, <1>4 DEF Continues, Said, Pinged

-----------------------------------------------------------------------------
(* The pongs among the messages that were taken. *)

PongsAfter(old, m) == IF m.kind = "pong" THEN Append(old, m.data) ELSE old
ArePongs(g, T, n) == g = [i \in 0..n |-> IF i = 0 THEN <<>> ELSE PongsAfter(g[i - 1], T[i])]

LEMMA PongsFacts ==
  ASSUME NEW T, IsSeq(T)
  PROVE  \E g : ArePongs(g, T, Len(T)) /\ Pongs(T) = g[Len(T)]
<1> DEFINE n == Len(T)
           V == Seq({T[i].data : i \in 1..n})
           W(i, v) == PongsAfter(v, T[i])
           step == [x \in (1..n) \X V |-> W(x[1], x[2])]
<1>1. n \in Nat
  BY SeqFacts
<1>2. \A i \in 1..n : \A v \in V : W(i, v) \in V
  <2> TAKE i \in 1..n
  <2> TAKE v \in V
  <2>1. T[i].data \in {T[j].data : j \in 1..n}
    OBVIOUS
  <2>2. PICK D, d : D = {T[j].data : j \in 1..n} /\ d = T[i].data
    OBVIOUS
  <2>3. v \in Seq(D) /\ d \in D
    BY <2>1, <2>2
  <2>4. Append(v, d) \in Seq(D)
    BY <2>3
  <2>5. QED
    BY <2>2, <2>3, <2>4 DEF PongsAfter
<1>3. PICK e : e = <<>> /\ e \in V
  <2>1. PICK D : D = {T[j].data : j \in 1..n}
    OBVIOUS
  <2>2. <<>> \in Seq(D)
    OBVIOUS
  <2>3. QED
    BY <2>1, <2>2
<1> HIDE DEF V, W, n
<1>4. step \in [(1..n) \X V -> V] /\ \A i \in 1..n : \A v \in V : step[<<i, v>>] = W(i, v)
  BY <1>2
<1> HIDE DEF step
<1>5. PICK s : Recurs(s, n, V, e, step)
  <2>1. RecursionIs(n, V, e, step)
    BY <1>1, <1>3, <1>4, Zenon DEF RecursionIs
  <2>2. QED
    BY <2>1, RecursionExists, Zenon
<1>6. s \in [0..n -> V] /\ s[0] = e /\ \A i \in 1..n : s[i] = step[<<i, s[i - 1]>>]
  BY <1>5, Zenon DEF Recurs
<1>7. ASSUME NEW i \in 0..n
      PROVE  s[i] = IF i = 0 THEN e ELSE W(i, s[i - 1])
  <2>1. CASE i = 0
    BY <1>6, <2>1
  <2>2. CASE i # 0
    <3>1. i \in 1..n /\ i - 1 \in 0..n
      BY <1>1, <2>2
    <3>2. s[i - 1] \in V
      BY <1>6, <3>1
    <3>3. QED
      BY <1>4, <1>6, <2>2, <3>1, <3>2
  <2>3. QED
    BY <2>1, <2>2
<1>8. ArePongs(s, T, n)
  <2>1. s = [i \in 0..n |-> s[i]]
    BY <1>6
  <2>2. s = [i \in 0..n |-> IF i = 0 THEN e ELSE W(i, s[i - 1])]
    BY <1>7, <2>1
  <2>3. QED
    BY <1>3, <2>2 DEF ArePongs, W
<1>9. Pongs(T) = (CHOOSE g : ArePongs(g, T, n))[n]
  BY Zenon DEF Pongs, ArePongs, PongsAfter, n
<1>10. ArePongs(CHOOSE g : ArePongs(g, T, n), T, n)
  BY <1>8, Zenon
<1>11. QED
  BY <1>9, <1>10, Zenon DEF n

LEMMA ArePongsFacts ==
  ASSUME NEW g, NEW T, NEW n \in Nat, ArePongs(g, T, n)
  PROVE  g[0] = <<>> /\ \A i \in 1..n : g[i] = PongsAfter(g[i - 1], T[i])
<1> DEFINE W(i, v) == PongsAfter(v, T[i])
           e == <<>>
<1>1. g = [i \in 0..n |-> IF i = 0 THEN e ELSE W(i, g[i - 1])]
  BY DEF ArePongs
<1> HIDE DEF W, e
<1>2. 0 \in 0..n /\ \A i \in 1..n : i \in 0..n /\ i # 0
  OBVIOUS
<1>3. g[0] = e /\ \A i \in 1..n : g[i] = W(i, g[i - 1])
  BY <1>1, <1>2
<1>4. QED
  BY <1>3, Zenon DEF W, e

LEMMA PongsEmpty == Pongs(<<>>) = <<>>
<1>1. IsSeq(<<>>) /\ Len(<<>>) = 0
  BY EmptyIsSeq
<1>2. PICK g : ArePongs(g, <<>>, 0) /\ Pongs(<<>>) = g[0]
  BY <1>1, PongsFacts
<1>3. QED
  BY <1>2, ArePongsFacts

LEMMA PongsMore ==
  ASSUME NEW T, IsSeq(T), NEW m, NEW U, Appended(U, T, m)
  PROVE  Pongs(U) = PongsAfter(Pongs(T), m)
<1>1. PICK n : n = Len(T) /\ n \in Nat
  BY SeqFacts
<1>2. IsSeq(U) /\ Len(U) = n + 1 /\ U[n + 1] = m /\ \A i \in 1..n : U[i] = T[i]
  BY <1>1, AppendFacts
<1>3. PICK g : ArePongs(g, T, n) /\ Pongs(T) = g[n]
  BY <1>1, PongsFacts
<1>4. PICK h : ArePongs(h, U, n + 1) /\ Pongs(U) = h[n + 1]
  BY <1>2, PongsFacts
<1>5. g[0] = <<>> /\ \A i \in 1..n : g[i] = PongsAfter(g[i - 1], T[i])
  BY <1>1, <1>3, ArePongsFacts
<1>6. h[0] = <<>> /\ \A i \in 1..(n + 1) : h[i] = PongsAfter(h[i - 1], U[i])
  BY <1>1, <1>4, ArePongsFacts
<1> DEFINE S == {i \in 0..n : h[i] = g[i]}
<1>7. 0..n \subseteq S
  <2>1. 0 \in S
    BY <1>1, <1>5, <1>6
  <2>2. ASSUME NEW i \in 1..n, i - 1 \in S
        PROVE  i \in S
    <3>1. i \in 1..(n + 1) /\ i \in 0..n
      BY <1>1
    <3>2. h[i] = PongsAfter(h[i - 1], U[i]) /\ g[i] = PongsAfter(g[i - 1], T[i])
      BY <1>5, <1>6, <3>1
    <3>3. h[i - 1] = g[i - 1] /\ U[i] = T[i]
      BY <1>2, <2>2
    <3>4. QED
      BY <3>1, <3>2, <3>3
  <2> HIDE DEF S
  <2>3. QED
    BY <1>1, <2>1, <2>2, UpTo
<1>8. h[n] = g[n]
  BY <1>1, <1>7
<1>9. n + 1 \in 1..(n + 1) /\ (n + 1) - 1 = n
  BY <1>1
<1>10. h[n + 1] = PongsAfter(h[n], m)
  BY <1>2, <1>6, <1>9
<1>11. QED
  BY <1>3, <1>4, <1>8, <1>10

-----------------------------------------------------------------------------
(* Pieces of the stream and of a payload. *)

\* q is the n bytes of B that follow the first c.
Cut(q, B, c, n) ==
  /\ q \in Seq(Byte) /\ n \in Nat /\ Len(q) = n /\ c \in Nat /\ c + n <= Len(B)
  /\ \A k \in 1..n : q[k] = B[c + k]

LEMMA CutNew ==
  ASSUME NEW B \in Seq(Byte), NEW c \in Nat, NEW n \in Nat, c + n <= Len(B)
  PROVE  Cut(SubSeq(B, c + 1, c + n), B, c, n)
<1>1. PICK q : q = SubSeq(B, c + 1, c + n)
  OBVIOUS
<1>2. q \in Seq(Byte) /\ Len(q) = n
  BY <1>1
<1>3. \A k \in 1..n : q[k] = B[c + k]
  BY <1>1
<1>4. QED
  BY <1>1, <1>2, <1>3 DEF Cut

LEMMA CutFirst ==
  ASSUME NEW B, NEW q, NEW c, NEW n, Cut(q, B, c, n), NEW m \in 0..n
  PROVE  Cut(SubSeq(q, 1, m), B, c, m)
<1>1. PICK x : x = SubSeq(q, 1, m)
  OBVIOUS
<1>2. /\ q \in Seq(Byte) /\ n \in Nat /\ Len(q) = n /\ c \in Nat /\ c + n <= Len(B)
      /\ \A k \in 1..n : q[k] = B[c + k]
  BY DEF Cut
<1>3. x \in Seq(Byte) /\ Len(x) = m /\ m \in Nat /\ \A k \in 1..m : x[k] = q[k]
  BY <1>1, <1>2
<1>4. c + m <= Len(B) /\ \A k \in 1..m : x[k] = B[c + k]
  BY <1>2, <1>3
<1>5. QED
  BY <1>1, <1>2, <1>3, <1>4 DEF Cut

LEMMA CutLast ==
  ASSUME NEW B, NEW q, NEW c, NEW n, Cut(q, B, c, n), NEW m \in 0..n
  PROVE  Cut(SubSeq(q, m + 1, n), B, c + m, n - m)
<1>1. PICK x : x = SubSeq(q, m + 1, n)
  OBVIOUS
<1>2. /\ q \in Seq(Byte) /\ n \in Nat /\ Len(q) = n /\ c \in Nat /\ c + n <= Len(B)
      /\ \A k \in 1..n : q[k] = B[c + k]
  BY DEF Cut
<1>3. PICK d, e : d = c + m /\ e = n - m
  OBVIOUS
<1>4. x \in Seq(Byte) /\ Len(x) = e /\ e \in Nat /\ d \in Nat /\ \A k \in 1..e : x[k] = q[m + k]
  BY <1>1, <1>2, <1>3
<1>5. ASSUME NEW k \in 1..e
      PROVE  x[k] = B[d + k]
  <2>1. m + k \in 1..n /\ c + (m + k) = d + k
    BY <1>2, <1>3
  <2>2. x[k] = q[m + k] /\ q[m + k] = B[c + (m + k)]
    BY <1>2, <1>4, <2>1
  <2>3. QED
    BY <2>1, <2>2
<1>6. d + e <= Len(B)
  BY <1>2, <1>3
<1>7. QED
  BY <1>1, <1>3, <1>4, <1>5, <1>6 DEF Cut

JoinHas(x, q, r) ==
  /\ x \in Seq(Byte) /\ Len(x) = Len(q) + Len(r)
  /\ \A k \in 1..Len(q) : x[k] = q[k]
  /\ \A k \in 1..Len(r) : x[Len(q) + k] = r[k]

LEMMA JoinFacts ==
  ASSUME NEW q \in Seq(Byte), NEW r \in Seq(Byte), NEW x, Joined(x, q, r)
  PROVE  JoinHas(x, q, r)
<1>1. IsSeq(q) /\ IsSeq(r)
  BY Zenon DEF IsSeq
<1>2. x \in Seq(Byte)
  BY DEF Joined
<1>3. QED
  BY <1>1, <1>2, ConcatFacts DEF JoinHas

LEMMA CutJoin ==
  ASSUME NEW B, NEW q, NEW c, NEW n, Cut(q, B, c, n), NEW r, NEW m, Cut(r, B, c + n, m)
  PROVE  Cut(q \o r, B, c, n + m)
<1>1. /\ q \in Seq(Byte) /\ n \in Nat /\ Len(q) = n /\ c \in Nat
      /\ \A k \in 1..n : q[k] = B[c + k]
  BY DEF Cut
<1>2. /\ r \in Seq(Byte) /\ m \in Nat /\ Len(r) = m /\ c + n + m <= Len(B)
      /\ \A k \in 1..m : r[k] = B[(c + n) + k]
  BY DEF Cut
<1>3. PICK x, e : x = q \o r /\ e = n + m
  OBVIOUS
<1>a. Joined(x, q, r)
  BY <1>3 DEF Joined
<1>4. /\ x \in Seq(Byte) /\ Len(x) = e /\ e \in Nat
      /\ \A k \in 1..n : x[k] = q[k]
      /\ \A k \in 1..m : x[n + k] = r[k]
  <2>1. /\ x \in Seq(Byte) /\ Len(x) = Len(q) + Len(r)
        /\ \A k \in 1..Len(q) : x[k] = q[k]
        /\ \A k \in 1..Len(r) : x[Len(q) + k] = r[k]
    <3>1. q \in Seq(Byte) /\ r \in Seq(Byte) /\ Joined(x, q, r)
      BY <1>1, <1>2, <1>a
    <3>2. JoinHas(x, q, r)
      BY <3>1, JoinFacts
    <3>3. QED
      BY <3>2, Zenon DEF JoinHas
  <2>2. Len(q) = n /\ Len(r) = m /\ n \in Nat /\ m \in Nat /\ e = n + m
    BY <1>1, <1>2, <1>3, Zenon
  <2>3. Len(x) = e /\ e \in Nat
    BY <2>1, <2>2
  <2>4. QED
    BY <2>1, <2>2, <2>3, Zenon
<1>5. ASSUME NEW k \in 1..e
      PROVE  x[k] = B[c + k]
  <2>1. CASE k <= n
    BY <1>1, <1>3, <1>4, <2>1
  <2>2. CASE k > n
    <3>1. PICK j : j = k - n
      OBVIOUS
    <3>2. j \in 1..m /\ k = n + j /\ (c + n) + j = c + k
      BY <1>1, <1>2, <1>3, <2>2, <3>1
    <3>3. x[n + j] = r[j] /\ r[j] = B[(c + n) + j]
      BY <1>2, <1>4, <3>2
    <3>4. QED
      BY <3>2, <3>3
  <2>3. QED
    BY <1>1, <1>2, <1>3, <2>1, <2>2
<1>6. c + e <= Len(B)
  BY <1>1, <1>2, <1>3
<1>7. QED
  BY <1>1, <1>3, <1>4, <1>5, <1>6 DEF Cut

Piece(i, a, n) == [k \in 1..n |-> <<i, a + k - 1>>]

LEMMA PieceFacts ==
  ASSUME NEW i \in Nat, NEW a \in Nat, NEW n \in Nat
  PROVE  Piece(i, a, n) \in Seq(Byte) /\ Len(Piece(i, a, n)) = n
         /\ \A k \in 1..n : Piece(i, a, n)[k] = <<i, a + k - 1>>
<1>1. \A k \in 1..n : <<i, a + k - 1>> \in Byte
  BY DEF Byte
<1>2. Piece(i, a, n) \in [1..n -> Byte]
  BY <1>1 DEF Piece
<1>3. Piece(i, a, n) \in Seq(Byte) /\ Len(Piece(i, a, n)) = n
  BY <1>2
<1>4. QED
  BY <1>3 DEF Piece

\* Sequences of the same length and elements are the same.
LEMMA SameBytes ==
  ASSUME NEW q \in Seq(Byte), NEW r \in Seq(Byte), Len(q) = Len(r),
         \A k \in 1..Len(q) : q[k] = r[k]
  PROVE  q = r
BY SeqEqual

LEMMA PieceJoin ==
  ASSUME NEW i \in Nat, NEW n \in Nat, NEW m \in Nat
  PROVE  Piece(i, 0, n) \o Piece(i, n, m) = Piece(i, 0, n + m)
<1>1. PICK p, q, r : p = Piece(i, 0, n) /\ q = Piece(i, n, m) /\ r = Piece(i, 0, n + m)
  OBVIOUS
<1>2. p \in Seq(Byte) /\ Len(p) = n /\ \A k \in 1..n : p[k] = <<i, 0 + k - 1>>
  <2>1. 0 \in Nat
    OBVIOUS
  <2>2. QED
    BY <1>1, <2>1, PieceFacts, Zenon
<1>3. q \in Seq(Byte) /\ Len(q) = m /\ \A k \in 1..m : q[k] = <<i, n + k - 1>>
  BY <1>1, PieceFacts, Zenon
<1>4. r \in Seq(Byte) /\ Len(r) = n + m /\ \A k \in 1..(n + m) : r[k] = <<i, 0 + k - 1>>
  <2>1. PICK s : s = n + m /\ s \in Nat
    OBVIOUS
  <2>2. r = Piece(i, 0, s) /\ 0 \in Nat /\ s \in Nat
    BY <1>1, <2>1
  <2>a. r \in Seq(Byte) /\ Len(r) = s /\ \A k \in 1..s : r[k] = <<i, 0 + k - 1>>
    <3>1. /\ Piece(i, 0, s) \in Seq(Byte) /\ Len(Piece(i, 0, s)) = s
          /\ \A k \in 1..s : Piece(i, 0, s)[k] = <<i, 0 + k - 1>>
      BY <2>2, PieceFacts, Zenon
    <3>2. QED
      BY <2>2, <3>1, Zenon
  <2>3. QED
    BY <2>1, <2>a
<1>5. PICK x : Joined(x, p, q)
  BY DEF Joined
<1>6. /\ x \in Seq(Byte) /\ Len(x) = n + m
      /\ \A k \in 1..n : x[k] = p[k]
      /\ \A k \in 1..m : x[n + k] = q[k]
  <2>1. /\ x \in Seq(Byte) /\ Len(x) = Len(p) + Len(q)
        /\ \A k \in 1..Len(p) : x[k] = p[k]
        /\ \A k \in 1..Len(q) : x[Len(p) + k] = q[k]
    <3>1. p \in Seq(Byte) /\ q \in Seq(Byte) /\ Joined(x, p, q)
      BY <1>2, <1>3, <1>5
    <3>2. JoinHas(x, p, q)
      BY <3>1, JoinFacts
    <3>3. QED
      BY <3>2, Zenon DEF JoinHas
  <2>2. Len(p) = n /\ Len(q) = m
    BY <1>2, <1>3, Zenon
  <2>3. QED
    BY <2>1, <2>2, Zenon
<1>7. ASSUME NEW k \in 1..(n + m)
      PROVE  x[k] = r[k]
  <2>1. CASE k <= n
    <3>1. k \in 1..n
      BY <2>1
    <3>2. QED
      BY <1>2, <1>4, <1>6, <3>1
  <2>2. CASE k > n
    <3>1. PICK j : j = k - n
      OBVIOUS
    <3>2. j \in 1..m /\ k = n + j
      BY <2>2, <3>1
    <3>3. x[n + j] = <<i, n + j - 1>>
      BY <1>3, <1>6, <3>2
    <3>4. QED
      BY <1>4, <3>2, <3>3
  <2>3. QED
    BY <2>1, <2>2
<1>8. x = r
  BY <1>4, <1>6, <1>7, SameBytes
<1>9. QED
  BY <1>1, <1>5, <1>8 DEF Joined

LEMMA PieceIsPayload ==
  ASSUME NEW f \in Seq(Frame), NEW i \in 1..Len(f)
  PROVE  Piece(i, 0, f[i].len) = Payload(f, i)
<1>1. PICK n : n = f[i].len /\ n \in Nat
  BY FrameFacts
<1>2. \A k \in 1..n : 0 + k - 1 = k - 1
  BY <1>1
<1>3. QED
  BY <1>1, <1>2 DEF Piece, Payload

\* The key that a mask has turned to after some bytes.
LEMMA Turning ==
  ASSUME NEW n \in Nat, NEW k \in Nat
  PROVE  (n + k) % 4 = (n + (k % 4)) % 4 /\ k % 4 \in 0..3
OBVIOUS

Turned(mask, n) == mask = [k \in 0..3 |-> (n + k) % 4]

\* The bytes of a payload are read with the keys they were written with.
LEMMA PayloadRead ==
  ASSUME NEW f \in Seq(Frame), NEW i \in 0..(Len(f) - 1), NEW n \in Nat, NEW m \in Nat,
         n + m <= f[i + 1].len, NEW mask, Turned(mask, n),
         NEW q, Cut(q, Bytes(f), End(f, i) + f[i + 1].head + n, m)
  PROVE  Unmasked(q, mask) = Piece(i + 1, n, m)
<1>1. PICK j, h, l, e, c : j = i + 1 /\ h = f[j].head /\ l = f[j].len /\ e = End(f, i) /\ c = e + h + n
  OBVIOUS
<1>2. j \in 1..Len(f) /\ j \in Nat /\ h \in Nat /\ l \in Nat /\ e \in Nat /\ j - 1 = i /\ n + m <= l
  <2>1. j \in 1..Len(f) /\ j \in Nat /\ j - 1 = i /\ i \in 0..Len(f)
    BY <1>1
  <2>2. QED
    BY <1>1, <2>1, FrameFacts, EndFacts
<1>3. q \in Seq(Byte) /\ Len(q) = m /\ \A k \in 1..m : q[k] = Bytes(f)[c + k]
  BY <1>1 DEF Cut
<1>4. ASSUME NEW k \in 1..m
      PROVE  q[k] = <<j, n + k - 1>>
  <2>1. PICK o : o = h + n + k
    OBVIOUS
  <2>2. o \in 1..(h + l) /\ e + o = c + k /\ o - 1 - h = n + k - 1
    <3>1. c = e + h + n
      BY <1>1
    <3>2. h \in Nat /\ l \in Nat /\ e \in Nat /\ n + m <= l /\ k \in 1..m
      BY <1>2
    <3>3. QED
      BY <2>1, <3>1, <3>2
  <2>3. Bytes(f)[End(f, j - 1) + o] = <<j, o - 1 - h>>
    BY <1>1, <1>2, <2>2, ByteAt
  <2>4. QED
    BY <1>1, <1>2, <1>3, <2>2, <2>3
<1>5. ASSUME NEW k \in 1..m
      PROVE  (IF q[k][2] >= 0 /\ q[k][2] % 4 = mask[(k - 1) % 4] THEN q[k] ELSE Garbled)
             = <<j, n + k - 1>>
  <2>1. k - 1 \in Nat /\ n + (k - 1) = n + k - 1
    OBVIOUS
  <2>2. (n + (k - 1)) % 4 = (n + ((k - 1) % 4)) % 4 /\ (k - 1) % 4 \in 0..3
    BY <2>1, Turning
  <2>3. mask[(k - 1) % 4] = (n + ((k - 1) % 4)) % 4
    BY <2>2 DEF Turned
  <2>4. q[k] = <<j, n + k - 1>> /\ q[k][2] = n + k - 1 /\ n + k - 1 >= 0
    BY <1>4
  <2>5. QED
    BY <2>1, <2>2, <2>3, <2>4
<1>6. Unmasked(q, mask) = [k \in 1..m |-> <<j, n + k - 1>>]
  BY <1>3, <1>5 DEF Unmasked
<1>7. QED
  BY <1>1, <1>6 DEF Piece

LEMMA MaskTurns ==
  ASSUME NEW mask, NEW n \in Nat, Turned(mask, n), NEW m \in Nat
  PROVE  Turned(rotateMask(4 - (m % 4), mask), n + m)
<1>1. ASSUME NEW k \in 0..3
      PROVE  mask[(k - (4 - (m % 4)) + 4) % 4] = (n + m + k) % 4
  <2>1. PICK d : d = m % 4 /\ d \in 0..3
    BY Turning
  <2>2. k - (4 - d) + 4 = k + d /\ k + d \in Nat /\ (k + d) % 4 \in 0..3
    BY <2>1, Turning
  <2>3. mask[(k + d) % 4] = (n + ((k + d) % 4)) % 4
    BY <2>2 DEF Turned
  <2>4. (n + ((k + d) % 4)) % 4 = (n + (k + d)) % 4
    BY <2>2, Turning
  <2>5. n + k \in Nat /\ n + (k + d) = (n + k) + d /\ n + m + k = (n + k) + m
    BY <2>1
  <2>6. ((n + k) + d) % 4 = ((n + k) + m) % 4
    BY <2>1, <2>5, Turning
  <2>7. QED
    BY <2>1, <2>2, <2>3, <2>4, <2>5, <2>6
<1>2. QED
  BY <1>1 DEF Turned, rotateMask

LEMMA KeyTurned == Turned(Key, 0)
BY DEF Key, Turned

-----------------------------------------------------------------------------
(* Parsers, and what their operations change. *)

Parsers ==
  [state : {"READ_HEAD", "READ_MESSAGE"}, spill : Seq(Byte), remaining : Int, mask : [0..3 -> 0..3],
   opStack : -1..1, opCode : [0..1 -> Op], lastFin : BOOLEAN,
   fragmentBuffer : Seq(Byte), controlBuffer : Seq(Byte)]

ParserOf(st, sp, n, mask, k, code, fin, b, c) ==
  [state |-> st, spill |-> sp, remaining |-> n, mask |-> mask, opStack |-> k, opCode |-> code,
   lastFin |-> fin, fragmentBuffer |-> b, controlBuffer |-> c]

Has(p, st, sp, n, mask, k, code, fin, b, c) ==
  /\ p \in Parsers /\ p.state = st /\ p.spill = sp /\ p.remaining = n /\ p.mask = mask
  /\ p.opStack = k /\ p.opCode = code /\ p.lastFin = fin
  /\ p.fragmentBuffer = b /\ p.controlBuffer = c

ParserFits(st, sp, n, mask, k, code, fin, b, c) ==
  /\ st \in {"READ_HEAD", "READ_MESSAGE"} /\ sp \in Seq(Byte) /\ n \in Int /\ mask \in [0..3 -> 0..3]
  /\ k \in -1..1 /\ code \in [0..1 -> Op] /\ fin \in BOOLEAN
  /\ b \in Seq(Byte) /\ c \in Seq(Byte)

LEMMA ParserIn ==
  ASSUME NEW st, NEW sp, NEW n, NEW mask, NEW k, NEW code, NEW fin, NEW b, NEW c,
         ParserFits(st, sp, n, mask, k, code, fin, b, c),
         NEW p, p = ParserOf(st, sp, n, mask, k, code, fin, b, c)
  PROVE  Has(p, st, sp, n, mask, k, code, fin, b, c)
BY DEF Parsers, ParserOf, ParserFits, Has

IsParser(p, st, sp, n, mask, k, code, fin, b, c) ==
  /\ ParserFits(st, sp, n, mask, k, code, fin, b, c)
  /\ p = ParserOf(st, sp, n, mask, k, code, fin, b, c)

LEMMA ParserIs ==
  ASSUME NEW st, NEW sp, NEW n, NEW mask, NEW k, NEW code, NEW fin, NEW b, NEW c, NEW p,
         Has(p, st, sp, n, mask, k, code, fin, b, c)
  PROVE  IsParser(p, st, sp, n, mask, k, code, fin, b, c)
BY DEF Parsers, ParserOf, ParserFits, Has, IsParser

LEMMA ParserHas ==
  ASSUME NEW p \in Parsers
  PROVE  Has(p, p.state, p.spill, p.remaining, p.mask, p.opStack, p.opCode, p.lastFin,
             p.fragmentBuffer, p.controlBuffer)
BY DEF Has

SetFragment(p, v) == [p EXCEPT !.fragmentBuffer = v]
SetControl(p, v) == [p EXCEPT !.controlBuffer = v]
SetSpill(p, v) == [p EXCEPT !.spill = v]
SetHead(p, u) == [p EXCEPT !.state = u]
SetRest(p, v, w) == [p EXCEPT !.remaining = v, !.mask = w]
SetBegun(p, u, v, w) == [p EXCEPT !.state = u, !.remaining = v, !.mask = w]
SetOp(p, op) == [p EXCEPT !.opStack = @ + 1, !.opCode[p.opStack + 1] = op]
SetFin(p, v, u) == [p EXCEPT !.lastFin = v, !.spill = u]

\* The parser after each of them.
Sets(p, st, sp, n, mask, k, code, fin, b, c) ==
  /\ \A v \in Seq(Byte) : Has(SetFragment(p, v), st, sp, n, mask, k, code, fin, v, c)
  /\ \A v \in Seq(Byte) : Has(SetControl(p, v), st, sp, n, mask, k, code, fin, b, v)
  /\ \A v \in Seq(Byte) : Has(SetSpill(p, v), st, v, n, mask, k, code, fin, b, c)
  /\ \A u \in {"READ_HEAD", "READ_MESSAGE"} : Has(SetHead(p, u), u, sp, n, mask, k, code, fin, b, c)
  /\ \A v \in Int, w \in [0..3 -> 0..3] :
       Has(SetRest(p, v, w), st, sp, v, w, k, code, fin, b, c)
  /\ \A v \in Int, w \in [0..3 -> 0..3] :
       \A u \in {"READ_HEAD", "READ_MESSAGE"} :
          Has(SetBegun(p, u, v, w), u, sp, v, w, k, code, fin, b, c)
  /\ k <= 0 => \A op \in Op : Has(SetOp(p, op), st, sp, n, mask, k + 1,
                                  [code EXCEPT ![k + 1] = op], fin, b, c)
  /\ \A v \in BOOLEAN : \A u \in Seq(Byte) : Has(SetFin(p, v, u), st, u, n, mask, k, code, v, b, c)
  /\ fin /\ k >= 0 => Has(Popped(p, fin), st, sp, n, mask, k - 1, code, fin, b, c)
  /\ ~fin => Popped(p, fin) = p

LEMMA SetFacts ==
  ASSUME NEW st, NEW sp, NEW n, NEW mask, NEW k, NEW code, NEW fin, NEW b, NEW c, NEW p,
         Has(p, st, sp, n, mask, k, code, fin, b, c)
  PROVE  Sets(p, st, sp, n, mask, k, code, fin, b, c)
<1>1. IsParser(p, st, sp, n, mask, k, code, fin, b, c)
  BY ParserIs
<1>2. p = ParserOf(st, sp, n, mask, k, code, fin, b, c)
  BY <1>1 DEF IsParser
<1>3. /\ st \in {"READ_HEAD", "READ_MESSAGE"} /\ sp \in Seq(Byte) /\ n \in Int /\ mask \in [0..3 -> 0..3]
      /\ k \in -1..1 /\ code \in [0..1 -> Op] /\ fin \in BOOLEAN
      /\ b \in Seq(Byte) /\ c \in Seq(Byte)
  BY <1>1 DEF IsParser, ParserFits
<1>4. ASSUME NEW v \in Seq(Byte)
      PROVE  Has(SetFragment(p, v), st, sp, n, mask, k, code, fin, v, c)
  <2>1. SetFragment(p, v) = ParserOf(st, sp, n, mask, k, code, fin, v, c)
    BY <1>2 DEF SetFragment, ParserOf
  <2>2. ParserFits(st, sp, n, mask, k, code, fin, v, c)
    BY <1>3 DEF ParserFits
  <2>3. QED
    BY <2>1, <2>2, ParserIn
<1>5. ASSUME NEW v \in Seq(Byte)
      PROVE  Has(SetControl(p, v), st, sp, n, mask, k, code, fin, b, v)
  <2>1. SetControl(p, v) = ParserOf(st, sp, n, mask, k, code, fin, b, v)
    BY <1>2 DEF SetControl, ParserOf
  <2>2. ParserFits(st, sp, n, mask, k, code, fin, b, v)
    BY <1>3 DEF ParserFits
  <2>3. QED
    BY <2>1, <2>2, ParserIn
<1>6. ASSUME NEW v \in Seq(Byte)
      PROVE  Has(SetSpill(p, v), st, v, n, mask, k, code, fin, b, c)
  <2>1. SetSpill(p, v) = ParserOf(st, v, n, mask, k, code, fin, b, c)
    BY <1>2 DEF SetSpill, ParserOf
  <2>2. ParserFits(st, v, n, mask, k, code, fin, b, c)
    BY <1>3 DEF ParserFits
  <2>3. QED
    BY <2>1, <2>2, ParserIn
<1>7. ASSUME NEW u \in {"READ_HEAD", "READ_MESSAGE"}
      PROVE  Has(SetHead(p, u), u, sp, n, mask, k, code, fin, b, c)
  <2>1. SetHead(p, u) = ParserOf(u, sp, n, mask, k, code, fin, b, c)
    BY <1>2 DEF SetHead, ParserOf
  <2>2. ParserFits(u, sp, n, mask, k, code, fin, b, c)
    BY <1>3 DEF ParserFits
  <2>3. QED
    BY <2>1, <2>2, ParserIn
<1>8. ASSUME NEW v \in Int, NEW w \in [0..3 -> 0..3]
      PROVE  Has(SetRest(p, v, w), st, sp, v, w, k, code, fin, b, c)
  <2>1. SetRest(p, v, w) = ParserOf(st, sp, v, w, k, code, fin, b, c)
    <3>1. PICK q : q = [p EXCEPT !.remaining = v]
      OBVIOUS
    <3>2. q = ParserOf(st, sp, v, mask, k, code, fin, b, c)
      BY <1>2, <3>1 DEF ParserOf
    <3>3. SetRest(p, v, w) = [q EXCEPT !.mask = w]
      BY <3>1, Zenon DEF SetRest
    <3>4. QED
      BY <3>2, <3>3 DEF ParserOf
  <2>2. ParserFits(st, sp, v, w, k, code, fin, b, c)
    BY <1>3 DEF ParserFits
  <2>3. QED
    BY <2>1, <2>2, ParserIn
<1>9. ASSUME NEW v \in Int, NEW w \in [0..3 -> 0..3], NEW u \in {"READ_HEAD", "READ_MESSAGE"}
      PROVE  Has(SetBegun(p, u, v, w), u, sp, v, w, k, code, fin, b, c)
  <2>1. SetBegun(p, u, v, w) = ParserOf(u, sp, v, w, k, code, fin, b, c)
    <3>1. PICK q : q = [p EXCEPT !.state = u]
      OBVIOUS
    <3>2. q = ParserOf(u, sp, n, mask, k, code, fin, b, c)
      BY <1>2, <3>1 DEF ParserOf
    <3>3. PICK r : r = [q EXCEPT !.remaining = v]
      OBVIOUS
    <3>4. r = ParserOf(u, sp, v, mask, k, code, fin, b, c)
      BY <3>2, <3>3 DEF ParserOf
    <3>5. SetBegun(p, u, v, w) = [r EXCEPT !.mask = w]
      BY <3>1, <3>3, Zenon DEF SetBegun
    <3>6. QED
      BY <3>4, <3>5 DEF ParserOf
  <2>2. ParserFits(u, sp, v, w, k, code, fin, b, c)
    BY <1>3 DEF ParserFits
  <2>3. QED
    BY <2>1, <2>2, ParserIn
<1>10. ASSUME k <= 0, NEW op \in Op
       PROVE  Has(SetOp(p, op), st, sp, n, mask, k + 1, [code EXCEPT ![k + 1] = op], fin, b, c)
  <2>0. PICK j, d : j = k + 1 /\ d = [code EXCEPT ![k + 1] = op]
    OBVIOUS
  <2>1. SetOp(p, op) = ParserOf(st, sp, n, mask, j, d, fin, b, c)
    <3>1. PICK q : q = [p EXCEPT !.opStack = j]
      OBVIOUS
    <3>2. p.opStack = k /\ p.opCode = code
      BY <1>2 DEF ParserOf
    <3>3. q = ParserOf(st, sp, n, mask, j, code, fin, b, c)
      BY <1>2, <3>1 DEF ParserOf
    <3>4. SetOp(p, op) = [q EXCEPT !.opCode = d]
      <4>1. SetOp(p, op) = [[p EXCEPT !.opStack = p.opStack + 1] EXCEPT !.opCode[p.opStack + 1] = op]
        BY Zenon DEF SetOp
      <4>2. SetOp(p, op) = [q EXCEPT !.opCode[j] = op]
        BY <2>0, <3>1, <3>2, <4>1, Zenon
      <4>3. q.opCode = code
        BY <3>3 DEF ParserOf
      <4>4. [q EXCEPT !.opCode[j] = op] = [q EXCEPT !.opCode = [q.opCode EXCEPT ![j] = op]]
        BY Zenon
      <4>5. QED
        BY <2>0, <4>2, <4>3, <4>4, Zenon
    <3>5. QED
      BY <3>3, <3>4 DEF ParserOf
  <2>2. ParserFits(st, sp, n, mask, j, d, fin, b, c)
    <3>1. j \in -1..1 /\ j \in 0..1
      BY <1>3, <1>10, <2>0
    <3>2. d \in [0..1 -> Op]
      BY <1>3, <2>0, <3>1
    <3>3. QED
      BY <1>3, <3>1, <3>2 DEF ParserFits
  <2>3. Has(SetOp(p, op), st, sp, n, mask, j, d, fin, b, c)
    BY <2>1, <2>2, ParserIn
  <2>4. QED
    BY <2>0, <2>3
<1>11. ASSUME NEW v \in BOOLEAN, NEW u \in Seq(Byte)
       PROVE  Has(SetFin(p, v, u), st, u, n, mask, k, code, v, b, c)
  <2>1. SetFin(p, v, u) = ParserOf(st, u, n, mask, k, code, v, b, c)
    <3>1. PICK q : q = [p EXCEPT !.lastFin = v]
      OBVIOUS
    <3>2. q = ParserOf(st, sp, n, mask, k, code, v, b, c)
      BY <1>2, <3>1 DEF ParserOf
    <3>3. SetFin(p, v, u) = [q EXCEPT !.spill = u]
      BY <3>1, Zenon DEF SetFin
    <3>4. QED
      BY <3>2, <3>3 DEF ParserOf
  <2>2. ParserFits(st, u, n, mask, k, code, v, b, c)
    BY <1>3 DEF ParserFits
  <2>3. QED
    BY <2>1, <2>2, ParserIn
<1>12. ASSUME fin, k >= 0
       PROVE  Has(Popped(p, fin), st, sp, n, mask, k - 1, code, fin, b, c)
  <2>0. PICK j : j = k - 1
    OBVIOUS
  <2>1. Popped(p, fin) = ParserOf(st, sp, n, mask, j, code, fin, b, c)
    BY <1>2, <1>12, <2>0 DEF Popped, ParserOf
  <2>2. ParserFits(st, sp, n, mask, j, code, fin, b, c)
    <3>1. j \in -1..1
      BY <1>3, <1>12, <2>0
    <3>2. QED
      BY <1>3, <3>1 DEF ParserFits
  <2>3. Has(Popped(p, fin), st, sp, n, mask, j, code, fin, b, c)
    BY <2>1, <2>2, ParserIn
  <2>4. QED
    BY <2>0, <2>3
<1>13. ~fin => Popped(p, fin) = p
  BY DEF Popped
<1>14. QED
  BY <1>4, <1>5, <1>6, <1>7, <1>8, <1>9, <1>10, <1>11, <1>12, <1>13, Zenon DEF Sets

-----------------------------------------------------------------------------
(* Where the parser stands. *)

Depth(r) == IF r.within THEN 0 ELSE -1

\* Between frame i and the next.
Settled(r, k, code, fin, b, c) ==
  /\ c = <<>> /\ b = r.data /\ k = Depth(r)
  /\ r.within => code[0] = r.op
  /\ ~fin => r.within
Between(p, f, i) ==
  /\ p \in Parsers /\ p.state = "READ_HEAD"
  /\ Settled(Reader(f)[i], p.opStack, p.opCode, p.lastFin, p.fragmentBuffer, p.controlBuffer)

\* The header of the next frame is accepted, and the buffers have x of its payload.
Started(r, frame, x, k, code, fin, b, c) ==
  /\ fin = frame.fin /\ frame.op # "reserved"
  /\ code[k] = OpOf(r, frame)
  /\ IF frame.op \in ControlOp
     THEN /\ frame.fin
          /\ k = Depth(r) + 1
          /\ r.within => code[0] = r.op
          /\ b = r.data /\ c = x
     ELSE /\ r.within <=> frame.op = "more"
          /\ k = 0
          /\ b = r.data \o x /\ c = <<>>
Begun(p, f, i, a) ==
  /\ p \in Parsers
  /\ Started(Reader(f)[i], f[i + 1], Piece(i + 1, 0, a),
             p.opStack, p.opCode, p.lastFin, p.fragmentBuffer, p.controlBuffer)

\* The parser that has accepted a header.
Stacked(p, frame) == IF frame.op = "more" THEN p ELSE SetOp(p, frame.op)
Accepted(p, frame) == SetFin(Stacked(p, frame), frame.fin, <<>>)

LEMMA NestedNot ==
  ASSUME NEW f \in Seq(Frame), NoneNested(f), NEW i \in 0..(Len(f) - 1),
         f[i + 1].op \notin ControlOp, Reader(f)[i].within
  PROVE  f[i + 1].op = "more"
<1>1. i + 1 \in DOMAIN f /\ (i + 1) - 1 = i
  OBVIOUS
<1>2. InMessage(f, i + 1)
  BY <1>1 DEF InMessage
<1>3. QED
  BY <1>1, <1>2 DEF NoneNested

\* A frame that is refused for its header is one the protocol forbids.
LEMMA RefusedHeader ==
  ASSUME NEW f \in Seq(Frame), NoneNested(f), NEW i \in 0..(Len(f) - 1), NEW p, Between(p, f, i),
         Invalid(f[i + 1]) \/ NotAllowed(p, f[i + 1])
  PROVE  ~Legal(f)
<1>1. PICK j, r : j = i + 1 /\ r = Reader(f)[i]
  OBVIOUS
<1>2. /\ j \in DOMAIN f /\ j \in 1..Len(f) /\ j - 1 = i
      /\ (InMessage(f, j) <=> r.within)
  BY <1>1 DEF InMessage
<1>3. /\ p.opStack = Depth(r) /\ (~p.lastFin => r.within) /\ r.within \in BOOLEAN
  <2>1. i \in 0..Len(f)
    BY <1>2
  <2>2. r \in Readers(f)
    BY <1>1, <2>1, ReaderFacts
  <2>3. QED
    BY <1>1, <2>2 DEF Between, Settled, Readers
<1>4. PICK frame : frame = f[j] /\ frame.len \in Nat
  BY <1>2, FrameFacts
<1>5. Invalid(frame) \/ NotAllowed(p, frame)
  BY <1>1, <1>4
<1>6. frame.op \notin ControlOp /\ r.within => frame.op = "more"
  BY <1>1, <1>4, NestedNot
<1>7. SUFFICES ASSUME Legal(f)
               PROVE  FALSE
  OBVIOUS
<1>8. /\ frame.op # "reserved" /\ frame.len <= MaxPayload
      /\ frame.op = "more" => r.within
      /\ frame.op \in ControlOp => frame.fin /\ frame.len <= MaxControl
  BY <1>2, <1>4, <1>7 DEF Legal
<1>9. ~Invalid(frame)
  <2>1. frame.len <= MaxControl => ~(frame.len > MaxControl)
    BY <1>4, FramingAssumption
  <2>2. QED
    BY <1>8, <2>1 DEF Invalid
<1>10. CASE frame.op = "more" /\ p.opStack = -1
  BY <1>3, <1>8, <1>10 DEF Depth
<1>11. CASE frame.op # "more" /\ p.opStack = 1
  BY <1>3, <1>11 DEF Depth
<1>12. CASE frame.op = "text" /\ ~p.lastFin
  BY <1>3, <1>6, <1>12 DEF ControlOp
<1>13. CASE frame.len > MaxPayload
  BY <1>4, <1>8, <1>13, FramingAssumption
<1>14. QED
  BY <1>5, <1>9, <1>10, <1>11, <1>12, <1>13 DEF NotAllowed

NoPiece(i) == Piece(i, 0, 0) = <<>>
LEMMA PieceEmpty ==
  ASSUME NEW i
  PROVE  NoPiece(i)
BY DEF Piece, NoPiece

EmptyJoin(q) == q \o <<>> = q /\ <<>> \o q = q
LEMMA JoinEmpty ==
  ASSUME NEW S, NEW q \in Seq(S)
  PROVE  EmptyJoin(q)
BY DEF EmptyJoin

Accepts(q, f, i) ==
  q.state = "READ_HEAD" /\ q.spill = <<>> /\ Begun(q, f, i, 0)

LEMMA AcceptFacts ==
  ASSUME NEW f \in Seq(Frame), NoneNested(f), NEW i \in 0..(Len(f) - 1), NEW p, Between(p, f, i),
         ~Invalid(f[i + 1]), ~NotAllowed(p, f[i + 1])
  PROVE  Accepts(Accepted(p, f[i + 1]), f, i)
<1>1. PICK j, r, frame : j = i + 1 /\ r = Reader(f)[i] /\ frame = f[j]
  OBVIOUS
<1>2. j \in 1..Len(f) /\ i \in 0..Len(f)
  BY <1>1
<1>3. frame.op \in Op /\ frame.fin \in BOOLEAN /\ frame.len \in Nat
  BY <1>1, <1>2, FrameFacts
<1>4. r \in Readers(f) /\ (~r.within => r.data = <<>>)
  BY <1>1, <1>2, ReaderFacts, NothingBegun
<1>5. r.within \in BOOLEAN /\ r.data \in Seq(SaidByte(f))
  BY <1>4 DEF Readers
<1>6. p \in Parsers /\ p.state = "READ_HEAD"
      /\ Settled(r, p.opStack, p.opCode, p.lastFin, p.fragmentBuffer, p.controlBuffer)
  BY <1>1 DEF Between
<1>7. PICK st, sp, n, mask, k, code, fin, b, c : Has(p, st, sp, n, mask, k, code, fin, b, c)
  BY <1>6, ParserHas
<1>8. st = "READ_HEAD" /\ Settled(r, k, code, fin, b, c)
  BY <1>6, <1>7 DEF Has
<1>9. /\ c = <<>> /\ b = r.data /\ k = Depth(r) /\ (r.within => code[0] = r.op)
      /\ (~fin => r.within)
  BY <1>8 DEF Settled
<1>10. k <= 0 /\ code \in [0..1 -> Op]
  <2>1. k <= 0
    BY <1>9 DEF Depth
  <2>2. IsParser(p, st, sp, n, mask, k, code, fin, b, c)
    BY <1>7, ParserIs
  <2>3. QED
    BY <2>1, <2>2 DEF IsParser, ParserFits
<1>11. /\ frame.op # "reserved" /\ (frame.op \in ControlOp => frame.fin)
       /\ (frame.op = "more" => r.within)
  <2>1. ~Invalid(frame) /\ ~NotAllowed(p, frame) /\ p.opStack = k
    BY <1>1, <1>7 DEF Has
  <2>2. QED
    BY <1>9, <2>1 DEF Invalid, NotAllowed, Depth
<1>12. frame.op \notin ControlOp /\ r.within => frame.op = "more"
  BY <1>1, NestedNot
<1>13. PICK l, d, s : Has(s, st, sp, n, mask, l, d, fin, b, c) /\ s = Stacked(p, frame)
                      /\ d[l] = OpOf(r, frame)
                      /\ IF frame.op \in ControlOp THEN l = Depth(r) + 1 /\ (r.within => d[0] = r.op)
                         ELSE l = 0
  <2>1. CASE frame.op = "more"
    BY <1>7, <1>9, <1>11, <2>1 DEF Stacked, OpOf, Depth, ControlOp
  <2>2. CASE frame.op # "more"
    <3>1. PICK l, d : l = k + 1 /\ d = [code EXCEPT ![k + 1] = frame.op]
      OBVIOUS
    <3>2. Has(SetOp(p, frame.op), st, sp, n, mask, l, d, fin, b, c)
      <4>1. Sets(p, st, sp, n, mask, k, code, fin, b, c)
        BY <1>7, SetFacts
      <4>2. QED
        BY <1>3, <1>10, <3>1, <4>1 DEF Sets
    <3>3. l \in 0..1 /\ d[l] = OpOf(r, frame)
      BY <1>9, <1>10, <2>2, <3>1 DEF Depth, OpOf
    <3>4. frame.op \in ControlOp => l = Depth(r) + 1 /\ (r.within => d[0] = r.op)
      BY <1>9, <1>10, <3>1 DEF Depth
    <3>5. frame.op \notin ControlOp => l = 0
      BY <1>9, <1>12, <2>2, <3>1 DEF Depth
    <3>6. QED
      BY <2>2, <3>2, <3>3, <3>4, <3>5 DEF Stacked
  <2>3. QED
    BY <2>1, <2>2
<1>14. PICK e, x : e = <<>> /\ x = Piece(j, 0, 0)
  OBVIOUS
<1>a. e \in Seq(Byte)
  BY <1>14
<1>15. PICK q : q = SetFin(s, frame.fin, e)
  OBVIOUS
<1>16. Has(q, st, e, n, mask, l, d, frame.fin, b, c)
  <2>1. Has(s, st, sp, n, mask, l, d, fin, b, c)
    BY <1>13
  <2>2. \A v \in BOOLEAN : \A u \in Seq(Byte) : Has(SetFin(s, v, u), st, u, n, mask, l, d, v, b, c)
    <3>1. Sets(s, st, sp, n, mask, l, d, fin, b, c)
      BY <2>1, SetFacts
    <3>2. QED
      BY <3>1, Zenon DEF Sets
  <2>3. QED
    BY <1>3, <1>a, <1>15, <2>2
<1>17. x = e /\ EmptyJoin(r.data)
  BY <1>5, <1>14, PieceEmpty, JoinEmpty DEF NoPiece
<1>18. Started(r, frame, x, l, d, frame.fin, b, c)
  <2>1. frame.op \notin ControlOp => b = r.data \o x
    BY <1>9, <1>14, <1>17 DEF EmptyJoin
  <2>2. frame.op \notin ControlOp => (r.within <=> frame.op = "more")
    BY <1>11, <1>12
  <2>3. c = x /\ c = <<>> /\ b = r.data
    BY <1>9, <1>14, <1>17
  <2>4. QED
    BY <1>11, <1>13, <2>1, <2>2, <2>3 DEF Started
<1>19. /\ q \in Parsers /\ q.state = st /\ q.spill = e
       /\ Started(r, frame, x, q.opStack, q.opCode, q.lastFin, q.fragmentBuffer, q.controlBuffer)
  BY <1>16, <1>18 DEF Has
<1>20. q = Accepted(p, frame)
  BY <1>13, <1>14, <1>15 DEF Accepted
<1>21. Begun(q, f, i, 0)
  BY <1>1, <1>14, <1>19 DEF Begun
<1>22. QED
  BY <1>1, <1>8, <1>14, <1>19, <1>20, <1>21 DEF Accepts

-----------------------------------------------------------------------------
(* What a fragment leads to. *)

FragmentIs(g, f, p, data, left, op, fin) ==
  LET message == p.fragmentBuffer \o data
      control == p.controlBuffer \o data
      whole == left = 0 /\ fin IN
  /\ op \notin ControlOp /\ whole =>
       g.parser = SetFragment(p, <<>>) /\ g.event = MessageOrRefusal(f, op, message)
  /\ op \notin ControlOp /\ ~whole => g.parser = SetFragment(p, message) /\ g.event = Quiet
  /\ op \in ControlOp /\ whole =>
       g.parser = SetControl(p, <<>>) /\ g.event = [kind |-> op, data |-> control]
  /\ op \in ControlOp /\ ~whole => g.parser = SetControl(p, control) /\ g.event = Quiet

LEMMA FragmentCases ==
  ASSUME NEW f, NEW p, NEW data, NEW left, NEW op, NEW fin, NEW g,
         g = Fragment(f, p, data, left, op, fin)
  PROVE  FragmentIs(g, f, p, data, left, op, fin)
<1> DEFINE message == p.fragmentBuffer \o data
           control == p.controlBuffer \o data
           whole == left = 0 /\ fin
           A == SetFragment(p, <<>>)
           B == SetFragment(p, message)
           F == SetControl(p, <<>>)
           D == SetControl(p, control)
           E == MessageOrRefusal(f, op, message)
<1>1. g = CASE op \notin ControlOp /\ whole -> [parser |-> A, event |-> E]
            [] op \notin ControlOp /\ ~whole -> [parser |-> B, event |-> Quiet]
            [] op \in ControlOp /\ whole -> [parser |-> F, event |-> [kind |-> op, data |-> control]]
            [] op \in ControlOp /\ ~whole -> [parser |-> D, event |-> Quiet]
  BY Zenon DEF Fragment, SetFragment, SetControl
<1> HIDE DEF A, B, F, D, E, message, control, whole
<1>2. /\ op \notin ControlOp /\ whole => g.parser = A /\ g.event = E
      /\ op \notin ControlOp /\ ~whole => g.parser = B /\ g.event = Quiet
      /\ op \in ControlOp /\ whole => g.parser = F /\ g.event = [kind |-> op, data |-> control]
      /\ op \in ControlOp /\ ~whole => g.parser = D /\ g.event = Quiet
  BY <1>1
<1>3. QED
  BY <1>2, Zenon DEF FragmentIs, A, B, F, D, E, message, control, whole

PieceAfter(q, i, a, b) == (q \o Piece(i, 0, a)) \o Piece(i, a, b) = q \o Piece(i, 0, a + b)
LEMMA PiecesJoin ==
  ASSUME NEW q \in Seq(Byte), NEW i \in Nat, NEW a \in Nat, NEW b \in Nat
  PROVE  PieceAfter(q, i, a, b)
<1>1. PICK x, y, z : x = Piece(i, 0, a) /\ y = Piece(i, a, b) /\ z = Piece(i, 0, a + b)
  OBVIOUS
<1>2. 0 \in Nat
  OBVIOUS
<1>3. x \in Seq(Byte) /\ y \in Seq(Byte)
  BY <1>1, <1>2, PieceFacts
<1>4. x \o y = z
  BY <1>1, PieceJoin
<1>5. (q \o x) \o y = q \o (x \o y)
  BY <1>3, ConcatAssociative
<1>6. QED
  BY <1>1, <1>4, <1>5 DEF PieceAfter

\* What is said is read as it is said: text that is not valid is the peer's.
LEMMA TextIsSaid ==
  ASSUME NEW f \in Seq(Frame), NEW q \in Seq(SaidByte(f)), ~ValidText(f, q)
  PROVE  ~Legal(f)
<1>1. PICK k \in DOMAIN q : q[k] = Garbled \/ ~f[q[k][1]].utf8
  BY DEF ValidText
<1>2. PICK x : x = q[k]
  OBVIOUS
<1>3. x \in SaidByte(f)
  BY <1>2
<1>4. x[1] \in 1..Len(f) /\ x # Garbled
  BY <1>3 DEF SaidByte, Garbled
<1>5. ~f[x[1]].utf8 /\ x[1] \in DOMAIN f
  BY <1>1, <1>2, <1>4
<1>6. QED
  BY <1>5 DEF Legal

\* What an event is to the reader r that becomes t.
Silent == {"none", "pong", "close"}
Effect(ev, r, t) ==
  \/ ev.kind \in Silent /\ t.said = r.said /\ t.pinged = r.pinged
  \/ /\ ev.kind = "message" /\ t.pinged = r.pinged
     /\ t.said = Append(r.said, [op |-> ev.op, data |-> ev.data])
  \/ ev.kind = "ping" /\ t.said = r.said /\ t.pinged = Append(r.pinged, ev.data)

LEMMA SettledHas ==
  ASSUME NEW f, NEW i, NEW st, NEW sp, NEW n, NEW mask, NEW k, NEW code, NEW fin, NEW b, NEW c, NEW p,
         Has(p, st, sp, n, mask, k, code, fin, b, c),
         st = "READ_HEAD", Settled(Reader(f)[i], k, code, fin, b, c)
  PROVE  Between(p, f, i) /\ p.spill = sp
BY DEF Has, Between

FrameDone(ev, q, f, i) ==
  \/ ev.kind = "refused" /\ ~Legal(f)
  \/ Between(q, f, i + 1) /\ q.spill = <<>> /\ Effect(ev, Reader(f)[i], Reader(f)[i + 1])

LEMMA WholeFrame ==
  ASSUME NEW f \in Seq(Frame), NEW i \in 0..(Len(f) - 1), NEW a \in Nat, NEW m \in Nat,
         a + m = f[i + 1].len,
         NEW x, Begun(x, f, i, a), x.state = "READ_HEAD", x.spill = <<>>,
         NEW g, g = Fragment(f, x, Piece(i + 1, a, m), 0, x.opCode[x.opStack], f[i + 1].fin)
  PROVE  FrameDone(g.event, Popped(g.parser, f[i + 1].fin), f, i)
<1>1. PICK j, r, t, frame : j = i + 1 /\ r = Reader(f)[i] /\ t = Reader(f)[j] /\ frame = f[j]
  OBVIOUS
<1>2. j \in 1..Len(f) /\ j \in 0..Len(f) /\ i \in 0..Len(f) /\ j - 1 = i /\ j \in Nat
  BY <1>1
<1>3. /\ frame.op \in Op /\ frame.fin \in BOOLEAN /\ frame.len \in Nat
      /\ r \in Readers(f) /\ t \in Readers(f) /\ (~r.within => r.data = <<>>)
      /\ IsRead(t, r, frame, Payload(f, j))
  BY <1>1, <1>2, FrameFacts, ReaderFacts, NothingBegun
<1>4. r.within \in BOOLEAN /\ r.data \in Seq(SaidByte(f)) /\ r.op \in Op \ ControlOp
  BY <1>3 DEF Readers
<1>5. PICK st, sp, n, mask, k, code, fin, b, c : Has(x, st, sp, n, mask, k, code, fin, b, c)
  BY ParserHas DEF Begun
<1>6. PICK y, w : y = Piece(j, 0, a) /\ w = Piece(j, a, m)
  OBVIOUS
<1>7. /\ st = "READ_HEAD" /\ sp = <<>> /\ x.fragmentBuffer = b /\ x.controlBuffer = c
      /\ x.opStack = k /\ x.opCode = code /\ Started(r, frame, y, k, code, fin, b, c)
  BY <1>1, <1>5, <1>6 DEF Begun, Has
<1>8. PICK op : op = OpOf(r, frame)
  OBVIOUS
<1>9. /\ fin = frame.fin /\ frame.op # "reserved" /\ code[k] = op
      /\ frame.op \in ControlOp =>
           /\ frame.fin /\ k = Depth(r) + 1 /\ (r.within => code[0] = r.op)
           /\ b = r.data /\ c = y
      /\ frame.op \notin ControlOp =>
           (r.within <=> frame.op = "more") /\ k = 0 /\ b = r.data \o y /\ c = <<>>
  BY <1>7, <1>8, Zenon DEF Started
<1>10. op \in ControlOp <=> frame.op \in ControlOp
  BY <1>4, <1>8 DEF OpOf, ControlOp
<1>11. FragmentIs(g, f, x, w, 0, op, frame.fin)
  <2>1. g = Fragment(f, x, w, 0, op, frame.fin)
    BY <1>1, <1>6, <1>7, <1>9
  <2>2. QED
    BY <2>1, FragmentCases
<1>12. Sets(x, st, sp, n, mask, k, code, fin, b, c)
  BY <1>5, SetFacts
<1>13. PICK e : e = <<>>
  OBVIOUS
<1>14. e \in Seq(Byte)
  BY <1>13
<1>15. PICK payload : payload = Payload(f, j)
  OBVIOUS
<1>16. payload = Piece(j, 0, a + m) /\ payload \in Seq(SaidByte(f)) /\ payload \in Seq(Byte)
  <2>1. payload \in Seq(SaidByte(f)) /\ Piece(j, 0, frame.len) = payload
    BY <1>1, <1>2, <1>15, PayloadFacts, PieceIsPayload
  <2>2. SaidByte(f) \subseteq Byte
    BY DEF SaidByte, Byte
  <2>3. payload \in Seq(Byte)
    BY <2>1, <2>2
  <2>4. frame.len = a + m
    BY <1>1
  <2>5. QED
    BY <2>1, <2>3, <2>4
<1>17. CASE frame.op \in ControlOp
  <2>1. y \o w = payload
    BY <1>2, <1>6, <1>16, PieceJoin
  <2>2. g.parser = SetControl(x, e) /\ g.event = [kind |-> op, data |-> payload]
    BY <1>7, <1>9, <1>10, <1>11, <1>13, <1>17, <2>1 DEF FragmentIs
  <2>3. Has(g.parser, st, sp, n, mask, k, code, fin, b, e)
    BY <1>12, <1>14, <2>2 DEF Sets
  <2>4. k >= 0 /\ k - 1 = Depth(r)
    BY <1>9, <1>17 DEF Depth
  <2>5. PICK q : q = Popped(g.parser, frame.fin)
    OBVIOUS
  <2>6. Has(q, st, sp, n, mask, k - 1, code, fin, b, e)
    <3>1. Sets(g.parser, st, sp, n, mask, k, code, fin, b, e)
      BY <2>3, SetFacts
    <3>2. q = Popped(g.parser, fin) /\ fin
      BY <1>9, <1>17, <2>5
    <3>3. QED
      BY <2>4, <3>1, <3>2, Zenon DEF Sets
  <2>7. t.within = r.within /\ t.op = r.op /\ t.data = r.data /\ Effect(g.event, r, t)
    <3>1. op = frame.op
      BY <1>8, <1>17 DEF OpOf, ControlOp
    <3>2. g.event.kind = op /\ g.event.data = payload
      BY <2>2
    <3>3. CASE frame.op = "ping"
      BY <1>3, <1>15, <3>1, <3>2, <3>3 DEF IsRead, PingRead, Effect
    <3>4. CASE frame.op \in {"close", "pong"}
      BY <1>3, <3>1, <3>2, <3>4 DEF IsRead, Effect, Silent
    <3>5. QED
      BY <1>17, <3>3, <3>4 DEF ControlOp
  <2>8. Settled(t, k - 1, code, fin, b, e)
    BY <1>9, <1>13, <1>17, <2>4, <2>7 DEF Settled, Depth
  <2>9. Between(q, f, j) /\ q.spill = sp
    BY <1>1, <1>7, <2>6, <2>8, SettledHas
  <2>10. QED
    BY <1>1, <1>7, <2>5, <2>7, <2>9 DEF FrameDone
<1>18. CASE frame.op \notin ControlOp
  <2>1. b \o w = r.data \o payload
    <3>1. r.data \in Seq(Byte)
      <4>1. SaidByte(f) \subseteq Byte
        BY DEF SaidByte, Byte
      <4>2. QED
        BY <1>4, <4>1, SeqIn
    <3>2. PieceAfter(r.data, j, a, m)
      BY <1>2, <3>1, PiecesJoin
    <3>3. QED
      BY <1>6, <1>9, <1>16, <1>18, <3>2 DEF PieceAfter
  <2>2. PICK data : data = DataOf(r, frame, payload)
    OBVIOUS
  <2>3. b \o w = data /\ data \in Seq(SaidByte(f))
    <3>1. CASE frame.op = "more"
      BY <1>4, <1>16, <2>1, <2>2, <3>1 DEF DataOf
    <3>2. CASE frame.op # "more"
      <4>1. EmptyJoin(payload)
        BY <1>16, JoinEmpty
      <4>2. r.data = <<>>
        BY <1>3, <1>9, <1>18, <3>2
      <4>3. QED
        BY <1>16, <2>1, <2>2, <3>2, <4>1, <4>2 DEF DataOf, EmptyJoin
    <3>3. QED
      BY <3>1, <3>2
  <2>4. data \in Seq(Byte)
    <3>1. SaidByte(f) \subseteq Byte
      BY DEF SaidByte, Byte
    <3>2. QED
      BY <2>3, <3>1, SeqIn
  <2>5. CASE frame.fin
    <3>1. g.parser = SetFragment(x, e) /\ g.event = MessageOrRefusal(f, op, data)
      BY <1>7, <1>10, <1>11, <1>13, <1>18, <2>3, <2>5 DEF FragmentIs
    <3>2. Has(g.parser, st, sp, n, mask, k, code, fin, e, c)
      BY <1>12, <1>14, <3>1 DEF Sets
    <3>3. PICK q : q = Popped(g.parser, frame.fin)
      OBVIOUS
    <3>4. Has(q, st, sp, n, mask, k - 1, code, fin, e, c)
      <4>1. Sets(g.parser, st, sp, n, mask, k, code, fin, e, c)
        BY <3>2, SetFacts
      <4>2. q = Popped(g.parser, fin) /\ fin /\ k >= 0
        BY <1>9, <1>18, <2>5, <3>3
      <4>3. QED
        BY <4>1, <4>2, Zenon DEF Sets
    <3>5. EndRead(r, t, op, data)
      BY <1>3, <1>8, <1>15, <1>18, <2>2, <2>5 DEF IsRead
    <3>6. Settled(t, k - 1, code, fin, e, c)
      <4>1. k - 1 = -1 /\ fin /\ c = <<>>
        BY <1>9, <1>18, <2>5
      <4>2. QED
        BY <1>13, <3>5, <4>1 DEF Settled, EndRead, Depth
    <3>7. Between(q, f, j) /\ q.spill = sp
      BY <1>1, <1>7, <3>4, <3>6, SettledHas
    <3>8. (g.event.kind = "refused" /\ ~Legal(f)) \/ Effect(g.event, r, t)
      <4>1. CASE op = "text" /\ ~ValidText(f, data)
        <5>1. g.event.kind = "refused"
          BY <3>1, <4>1 DEF MessageOrRefusal, Refused
        <5>2. QED
          BY <2>3, <4>1, <5>1, TextIsSaid
      <4>2. CASE ~(op = "text" /\ ~ValidText(f, data))
        <5>1. g.event = [kind |-> "message", op |-> op, data |-> data]
          BY <3>1, <4>2 DEF MessageOrRefusal
        <5>2. g.event.kind = "message" /\ g.event.op = op /\ g.event.data = data
          BY <5>1
        <5>3. t.pinged = r.pinged /\ t.said = Append(r.said, [op |-> op, data |-> data])
          BY <3>5 DEF EndRead
        <5>4. QED
          BY <5>2, <5>3, Zenon DEF Effect
      <4>3. QED
        BY <4>1, <4>2
    <3>9. QED
      BY <1>1, <1>7, <3>3, <3>7, <3>8 DEF FrameDone
  <2>6. CASE ~frame.fin
    <3>1. g.parser = SetFragment(x, data) /\ g.event = Quiet
      BY <1>7, <1>10, <1>11, <1>18, <2>3, <2>6 DEF FragmentIs
    <3>2. Has(g.parser, st, sp, n, mask, k, code, fin, data, c)
      BY <1>12, <2>4, <3>1 DEF Sets
    <3>3. PICK q : q = Popped(g.parser, frame.fin)
      OBVIOUS
    <3>4. q = g.parser
      BY <2>6, <3>3 DEF Popped
    <3>5. PartRead(r, t, op, data)
      BY <1>3, <1>8, <1>15, <1>18, <2>2, <2>6 DEF IsRead
    <3>6. Settled(t, k, code, fin, data, c)
      <4>1. k = 0 /\ ~fin /\ c = <<>> /\ code[0] = op
        BY <1>9, <1>18, <2>6
      <4>2. QED
        BY <3>5, <4>1 DEF Settled, PartRead, Depth
    <3>7. Between(q, f, j) /\ q.spill = sp
      BY <1>1, <1>7, <3>2, <3>4, <3>6, SettledHas
    <3>8. Effect(g.event, r, t)
      BY <3>1, <3>5 DEF Quiet, Effect, Silent, PartRead
    <3>9. QED
      BY <1>1, <1>7, <3>3, <3>7, <3>8 DEF FrameDone
  <2>7. QED
    BY <1>3, <2>5, <2>6
<1>19. QED
  BY <1>17, <1>18

\* The rest of the parser, which the fragments leave alone.
Reading(p, st, sp, n, mask) == p.state = st /\ p.spill = sp /\ p.remaining = n /\ p.mask = mask

LEMMA StartedHas ==
  ASSUME NEW f, NEW i, NEW st, NEW sp, NEW n, NEW mask, NEW k, NEW code, NEW fin, NEW b, NEW c, NEW p,
         Has(p, st, sp, n, mask, k, code, fin, b, c),
         NEW a, Started(Reader(f)[i], f[i + 1], Piece(i + 1, 0, a), k, code, fin, b, c)
  PROVE  Begun(p, f, i, a) /\ Reading(p, st, sp, n, mask)
BY DEF Has, Begun, Reading

PartDone(g, x, f, i, a) ==
  g.event = Quiet /\ Begun(g.parser, f, i, a) /\ Reading(g.parser, x.state, x.spill, x.remaining, x.mask)

LEMMA PartOfFrame ==
  ASSUME NEW f \in Seq(Frame), NEW i \in 0..(Len(f) - 1), NEW a \in Nat, NEW m \in Nat,
         NEW left, left # 0, NEW x, Begun(x, f, i, a),
         NEW g, g = Fragment(f, x, Piece(i + 1, a, m), left, x.opCode[x.opStack], f[i + 1].fin)
  PROVE  PartDone(g, x, f, i, a + m)
<1>1. PICK j, r, frame : j = i + 1 /\ r = Reader(f)[i] /\ frame = f[j]
  OBVIOUS
<1>2. j \in 1..Len(f) /\ i \in 0..Len(f) /\ j \in Nat
  BY <1>1
<1>3. frame.op \in Op /\ r \in Readers(f)
  BY <1>1, <1>2, FrameFacts, ReaderFacts
<1>4. r.data \in Seq(SaidByte(f)) /\ r.op \in Op \ ControlOp
  BY <1>3 DEF Readers
<1>5. PICK st, sp, n, mask, k, code, fin, b, c : Has(x, st, sp, n, mask, k, code, fin, b, c)
  BY ParserHas DEF Begun
<1>6. PICK y, w, z : y = Piece(j, 0, a) /\ w = Piece(j, a, m) /\ z = Piece(j, 0, a + m)
  OBVIOUS
<1>7. /\ x.state = st /\ x.spill = sp /\ x.remaining = n /\ x.mask = mask
      /\ x.fragmentBuffer = b /\ x.controlBuffer = c
      /\ x.opStack = k /\ x.opCode = code /\ Started(r, frame, y, k, code, fin, b, c)
  BY <1>1, <1>5, <1>6 DEF Begun, Has
<1>8. PICK op : op = OpOf(r, frame)
  OBVIOUS
<1>9. /\ fin = frame.fin /\ frame.op # "reserved" /\ code[k] = op
      /\ frame.op \in ControlOp =>
           /\ frame.fin /\ k = Depth(r) + 1 /\ (r.within => code[0] = r.op)
           /\ b = r.data /\ c = y
      /\ frame.op \notin ControlOp =>
           (r.within <=> frame.op = "more") /\ k = 0 /\ b = r.data \o y /\ c = <<>>
  BY <1>7, <1>8, Zenon DEF Started
<1>10. op \in ControlOp <=> frame.op \in ControlOp
  BY <1>4, <1>8 DEF OpOf, ControlOp
<1>11. FragmentIs(g, f, x, w, left, op, frame.fin)
  <2>1. g = Fragment(f, x, w, left, op, frame.fin)
    BY <1>1, <1>6, <1>7, <1>9
  <2>2. QED
    BY <2>1, FragmentCases
<1>12. Sets(x, st, sp, n, mask, k, code, fin, b, c)
  BY <1>5, SetFacts
<1>13. z \in Seq(Byte)
  <2>1. PICK l : l = a + m /\ l \in Nat
    OBVIOUS
  <2>2. z = Piece(j, 0, l) /\ 0 \in Nat
    BY <1>6, <2>1
  <2>3. QED
    BY <1>2, <2>1, <2>2, PieceFacts
<1>14. r.data \in Seq(Byte)
  <2>1. SaidByte(f) \subseteq Byte
    BY DEF SaidByte, Byte
  <2>2. QED
    BY <1>4, <2>1, SeqIn
<1>15. CASE frame.op \in ControlOp
  <2>1. y \o w = z
    BY <1>2, <1>6, PieceJoin
  <2>2. g.parser = SetControl(x, z) /\ g.event = Quiet
    BY <1>7, <1>9, <1>10, <1>11, <1>15, <2>1 DEF FragmentIs
  <2>3. Has(g.parser, st, sp, n, mask, k, code, fin, b, z)
    BY <1>12, <1>13, <2>2 DEF Sets
  <2>4. Started(r, frame, z, k, code, fin, b, z)
    BY <1>8, <1>9, <1>15 DEF Started
  <2>5. Begun(g.parser, f, i, a + m) /\ Reading(g.parser, st, sp, n, mask)
    BY <1>1, <1>6, <2>3, <2>4, StartedHas
  <2>6. QED
    BY <1>7, <2>2, <2>5 DEF PartDone
<1>16. CASE frame.op \notin ControlOp
  <2>1. b \o w = r.data \o z
    <3>1. PieceAfter(r.data, j, a, m)
      BY <1>2, <1>14, PiecesJoin
    <3>2. QED
      BY <1>6, <1>9, <1>16, <3>1 DEF PieceAfter
  <2>2. PICK d : d = r.data \o z
    OBVIOUS
  <2>3. d \in Seq(Byte)
    BY <1>13, <1>14, <2>2
  <2>4. g.parser = SetFragment(x, d) /\ g.event = Quiet
    BY <1>7, <1>10, <1>11, <1>16, <2>1, <2>2 DEF FragmentIs
  <2>5. Has(g.parser, st, sp, n, mask, k, code, fin, d, c)
    BY <1>12, <2>3, <2>4 DEF Sets
  <2>6. Started(r, frame, z, k, code, fin, d, c)
    BY <1>8, <1>9, <1>16, <2>2 DEF Started
  <2>7. Begun(g.parser, f, i, a + m) /\ Reading(g.parser, st, sp, n, mask)
    BY <1>1, <1>6, <2>5, <2>6, StartedHas
  <2>8. QED
    BY <1>7, <2>4, <2>7 DEF PartDone
<1>17. QED
  BY <1>15, <1>16

-----------------------------------------------------------------------------
(* One turn of the parser. *)

\* Within a frame, after a bytes of its payload.
InFrame(p, f, i, a) ==
  /\ Begun(p, f, i, a)
  /\ p.state = "READ_MESSAGE" /\ p.spill = <<>> /\ p.remaining = f[i + 1].len - a
  /\ Turned(p.mask, a)

\* c bytes are consumed: the first i frames, and the header and a part of the next.
Stands(p, f, i, c) ==
  \/ c = End(f, i) /\ Between(p, f, i)
  \/ /\ i < Len(f)
     /\ \E a \in 0..(f[i + 1].len - 1) : c = End(f, i) + f[i + 1].head + a /\ InFrame(p, f, i, a)

\* q is to be read now, of the n bytes that were received.
ToRead(q, f, c, n) == Cut(q, Bytes(f), c, n - c)
\* Nothing is to be read now: what is left of n bytes is part of a header.
NotRead(p, f, i, c, n) ==
  /\ Cut(p.spill, Bytes(f), c, n - c)
  /\ p.spill # <<>> => p.state = "READ_HEAD" /\ i < Len(f) /\ n < End(f, i) + f[i + 1].head

\* A turn that ends within a frame has read everything.
StillIn(o, f, i, n) ==
  /\ o.event = Quiet /\ o.src = <<>>
  /\ \E c \in 0..Len(Bytes(f)) : Stands(o.parser, f, i, c) /\ NotRead(o.parser, f, i, c, n)
FrameRead(o, f, i, n) ==
  /\ Between(o.parser, f, i + 1) /\ o.parser.spill = <<>>
  /\ Effect(o.event, Reader(f)[i], Reader(f)[i + 1])
  /\ ToRead(o.src, f, End(f, i + 1), n)
Turn(o, f, i, n) ==
  \/ o.event.kind = "refused" /\ ~Legal(f)
  \/ StillIn(o, f, i, n)
  \/ i < Len(f) /\ FrameRead(o, f, i, n)

LEMMA FirstIs ==
  ASSUME NEW B, NEW q, NEW c, NEW n, Cut(q, B, c, n), NEW m \in Nat
  PROVE  /\ m <= n => First(q, m) = SubSeq(q, 1, m)
         /\ m >= n => First(q, m) = SubSeq(q, 1, n)
<1>1. Len(q) = n /\ n \in Nat
  BY DEF Cut
<1>2. QED
  BY <1>1 DEF First

LEMMA MaskIn ==
  ASSUME NEW n \in Nat, NEW mask, Turned(mask, n)
  PROVE  mask \in [0..3 -> 0..3]
<1>1. \A k \in 0..3 : (n + k) % 4 \in 0..3
  OBVIOUS
<1>2. QED
  BY <1>1 DEF Turned

-----------------------------------------------------------------------------
(* The turns that read a part of a payload. *)

LEMMA CutNone ==
  ASSUME NEW B, NEW c \in Nat, c <= Len(B), Len(B) \in Nat
  PROVE  Cut(<<>>, B, c, 0)
<1>1. PICK e, z : e = <<>> /\ z = 0
  OBVIOUS
<1>2. e \in Seq(Byte) /\ Len(e) = z /\ z \in Nat /\ c + z <= Len(B) /\ \A k \in 1..z : e[k] = B[c + k]
  BY <1>1
<1>3. Cut(e, B, c, z)
  BY <1>2 DEF Cut
<1>4. QED
  BY <1>1, <1>3, Zenon

\* A parser that is in the same message as p.
LEMMA BegunStill ==
  ASSUME NEW f, NEW i, NEW a, NEW p, Begun(p, f, i, a),
         NEW st, NEW sp, NEW n, NEW mask, NEW k, NEW code, NEW fin, NEW b, NEW c,
         Has(p, st, sp, n, mask, k, code, fin, b, c),
         NEW tt, NEW tp, NEW tn, NEW tmask, NEW x, Has(x, tt, tp, tn, tmask, k, code, fin, b, c)
  PROVE  Begun(x, f, i, a) /\ Reading(x, tt, tp, tn, tmask)
<1>1. Started(Reader(f)[i], f[i + 1], Piece(i + 1, 0, a), k, code, fin, b, c)
  BY DEF Begun, Has
<1>2. QED
  BY <1>1, StartedHas

\* A frame that goes on after the bytes that are there.
LEMMA GoesOnWithin ==
  ASSUME NEW f \in Seq(Frame), NEW i \in 0..(Len(f) - 1), NEW a \in Nat, a < f[i + 1].len,
         NEW p, InFrame(p, f, i, a), NEW n \in Nat, n = End(f, i) + f[i + 1].head + a,
         n <= Len(Bytes(f)), NEW o, o.event = Quiet, o.src = <<>>, o.parser = p
  PROVE  StillIn(o, f, i, n)
<1>1. i \in Nat /\ i < Len(f) /\ i + 1 \in 1..Len(f)
  OBVIOUS
<1>2. PICK l : l = f[i + 1].len
  OBVIOUS
<1>3. l \in Nat
  BY <1>1, <1>2, FrameFacts
<1>4. a \in 0..(l - 1)
  BY <1>2, <1>3
<1>5. Stands(p, f, i, n)
  BY <1>1, <1>2, <1>4 DEF Stands
<1>6. Len(Bytes(f)) \in Nat /\ n - n = 0
  <2>1. Len(f) \in 0..Len(f)
    OBVIOUS
  <2>2. End(f, Len(f)) \in Nat
    BY <2>1, EndFacts
  <2>3. QED
    BY <2>2 DEF End, Bytes
<1>7. p.spill = <<>>
  BY DEF InFrame
<1>8. NotRead(p, f, i, n, n)
  <2>1. Cut(<<>>, Bytes(f), n, 0)
    BY <1>6, CutNone
  <2>2. QED
    BY <1>6, <1>7, <2>1, Zenon DEF NotRead
<1>9. n \in 0..Len(Bytes(f))
  BY <1>6
<1>10. QED
  BY <1>5, <1>8, <1>9 DEF StillIn

LEMMA ContinuationTurn ==
  ASSUME NEW f \in Seq(Frame), NEW i \in 0..(Len(f) - 1), NEW a \in Nat, a < f[i + 1].len,
         NEW p, InFrame(p, f, i, a), NEW c, c = End(f, i) + f[i + 1].head + a,
         NEW q, NEW n \in Nat, ToRead(q, f, c, n),
         NEW o, o = consumeContinuation(f, p, q)
  PROVE  Turn(o, f, i, n)
<1>1. PICK j, B, m, l, rem, frame :
         /\ j = i + 1 /\ B = Bytes(f) /\ m = n - c /\ frame = f[j] /\ l = frame.len /\ rem = l - a
  OBVIOUS
<1>2. j \in 1..Len(f) /\ j \in 0..Len(f) /\ i \in 0..Len(f) /\ i < Len(f) /\ j - 1 = i /\ j \in Nat
  BY <1>1
<1>3. /\ l \in Nat /\ frame.head \in Nat /\ frame.fin \in BOOLEAN
      /\ End(f, i) \in Nat /\ End(f, j) = End(f, i) + frame.head + l
  BY <1>1, <1>2, FrameFacts, EndFacts
<1>4. rem \in Nat /\ a + rem = l /\ rem = l - a /\ c \in Nat /\ c + rem = End(f, j)
  <2>1. PICK h, e, t : h = frame.head /\ e = End(f, i) /\ t = End(f, j)
    OBVIOUS
  <2>a. f[i + 1] = frame /\ f[i + 1].len = l
    BY <1>1
  <2>2. h \in Nat /\ e \in Nat /\ t = e + h + l /\ c = e + h + a /\ rem = l - a /\ a < l
    <3>1. h \in Nat /\ e \in Nat /\ t = e + h + l
      BY <1>3, <2>1
    <3>2. f[i + 1].head = h
      BY <2>1, <2>a
    <3>3. c = e + h + a
      BY <2>1, <3>2
    <3>4. rem = l - a
      BY <1>1, Zenon
    <3>5. a < l
      BY <2>a, Zenon
    <3>6. QED
      BY <3>1, <3>3, <3>4, <3>5
  <2>3. rem \in Nat /\ a + rem = l /\ c \in Nat /\ c + rem = t
    <3>1. l \in Nat
      BY <1>3
    <3>2. QED
      BY <2>2, <3>1
  <2>4. QED
    BY <2>1, <2>2, <2>3
<1>5. Cut(q, B, c, m)
  BY <1>1 DEF ToRead
<1>6. m \in Nat /\ Len(q) = m /\ c + m <= Len(B) /\ c + m = n
  BY <1>1, <1>4, <1>5 DEF Cut
<1>7. /\ Begun(p, f, i, a) /\ p.state = "READ_MESSAGE" /\ p.spill = <<>>
      /\ p.remaining = rem /\ Turned(p.mask, a)
  BY <1>1 DEF InFrame
<1>8. PICK st, sp, w, mask, k, code, fin, b, d : Has(p, st, sp, w, mask, k, code, fin, b, d)
  BY <1>7, ParserHas DEF Begun
<1>9. /\ p.opCode = code /\ p.opStack = k /\ p.lastFin = fin /\ p.mask = mask
      /\ st = "READ_MESSAGE" /\ sp = <<>> /\ w = rem
  BY <1>7, <1>8 DEF Has
<1>10. fin = frame.fin
  BY <1>1, <1>7, <1>9 DEF Begun, Started
<1>11. Sets(p, st, sp, w, mask, k, code, fin, b, d)
  BY <1>8, SetFacts
<1>12. CASE rem <= m
  <2>1. PICK now, rest : now = SubSeq(q, 1, rem) /\ rest = SubSeq(q, rem + 1, m)
    OBVIOUS
  <2>2. rem \in 0..m
    BY <1>4, <1>6, <1>12
  <2>3. Cut(now, B, c, rem) /\ Cut(rest, B, c + rem, m - rem)
    BY <1>5, <2>1, <2>2, CutFirst, CutLast
  <2>4. First(q, p.remaining) = now
    BY <1>4, <1>5, <1>7, <1>12, <2>1, FirstIs
  <2>5. Len(now) = rem
    BY <2>3 DEF Cut
  <2>6. Unmasked(now, p.mask) = Piece(j, a, rem)
    <3>1. a + rem <= f[i + 1].len
      BY <1>1, <1>3, <1>4
    <3>2. Cut(now, Bytes(f), End(f, i) + f[i + 1].head + a, rem)
      BY <1>1, <2>3
    <3>3. Unmasked(now, p.mask) = Piece(i + 1, a, rem)
      BY <1>4, <1>7, <3>1, <3>2, PayloadRead
    <3>4. QED
      BY <1>1, <3>3
  <2>7. PICK x : x = SetHead(p, "READ_HEAD")
    OBVIOUS
  <2>8. Has(x, "READ_HEAD", sp, w, mask, k, code, fin, b, d)
    <3>1. PICK u : u = "READ_HEAD"
      OBVIOUS
    <3>2. Has(SetHead(p, u), u, sp, w, mask, k, code, fin, b, d)
      BY <1>11, <3>1 DEF Sets
    <3>3. QED
      BY <2>7, <3>1, <3>2
  <2>9. /\ Begun(x, f, i, a) /\ x.state = "READ_HEAD" /\ x.spill = <<>>
        /\ x.opCode = code /\ x.opStack = k
    <3>1. PICK u : u = "READ_HEAD"
      OBVIOUS
    <3>2. Has(x, u, sp, w, mask, k, code, fin, b, d)
      BY <2>8, <3>1
    <3>3. Begun(x, f, i, a) /\ Reading(x, u, sp, w, mask)
      BY <1>7, <1>8, <3>2, BegunStill
    <3>4. QED
      BY <1>9, <3>1, <3>2, <3>3 DEF Reading, Has
  <2>10. PICK g : g = Fragment(f, x, Piece(j, a, rem), 0, code[k], frame.fin)
    OBVIOUS
  <2>11. FrameDone(g.event, Popped(g.parser, frame.fin), f, i)
    BY <1>1, <1>4, <2>9, <2>10, WholeFrame
  <2>12. o = Outcome(Popped(g.parser, frame.fin), rest, g.event)
    <3>1. p.remaining <= Len(q)
      BY <1>6, <1>7, <1>12
    <3>2. o = Outcome(Popped(g.parser, p.lastFin), SubSeq(q, p.remaining + 1, Len(q)), g.event)
      BY <1>9, <1>10, <2>4, <2>6, <2>7, <2>10, <3>1, Zenon DEF consumeContinuation, SetHead
    <3>3. QED
      BY <1>6, <1>7, <1>9, <1>10, <2>1, <3>2
  <2>13. o.parser = Popped(g.parser, frame.fin) /\ o.src = rest /\ o.event = g.event
    BY <2>12 DEF Outcome
  <2>14. ToRead(o.src, f, End(f, j), n)
    <3>1. m - rem = n - End(f, j)
      <4>1. PICK t : t = End(f, j)
        OBVIOUS
      <4>2. m = n - c /\ c + rem = t
        BY <1>1, <1>4, <4>1
      <4>3. m - rem = n - t
        BY <1>4, <1>6, <4>2
      <4>4. QED
        BY <4>1, <4>3, Zenon
    <3>2. QED
      <4>1. Cut(rest, B, End(f, j), m - rem)
        BY <1>1, <1>4, <2>3, Zenon
      <4>2. QED
        BY <1>1, <2>13, <3>1, <4>1, Zenon DEF ToRead
  <2>15. QED
    BY <1>1, <1>2, <2>11, <2>13, <2>14 DEF FrameDone, Turn, FrameRead
<1>13. CASE rem > m
  <2>1. PICK now, left : now = SubSeq(q, 1, m) /\ left = rem - m
    OBVIOUS
  <2>2. m \in 0..m /\ left # 0 /\ left \in Int /\ left = l - (a + m) /\ a + m <= l /\ a + m < l
        /\ a + m \in Nat
    <3>1. m \in Nat /\ l \in Nat /\ rem = l - a /\ left = rem - m /\ rem > m
      BY <1>3, <1>4, <1>6, <1>13, <2>1
    <3>2. QED
      BY <3>1
  <2>3. Cut(now, B, c, m)
    BY <1>5, <2>1, <2>2, CutFirst
  <2>4. First(q, p.remaining) = now
    <3>1. rem >= m
      BY <1>4, <1>6, <1>13
    <3>2. First(q, rem) = SubSeq(q, 1, m)
      BY <1>4, <1>5, <3>1, FirstIs
    <3>3. QED
      BY <1>7, <2>1, <3>2
  <2>5. Len(now) = m
    BY <2>3 DEF Cut
  <2>6. Unmasked(now, p.mask) = Piece(j, a, m)
    <3>1. a + m <= f[i + 1].len
      BY <1>1, <2>2
    <3>2. Cut(now, Bytes(f), End(f, i) + f[i + 1].head + a, m)
      BY <1>1, <2>3
    <3>3. Unmasked(now, p.mask) = Piece(i + 1, a, m)
      BY <1>6, <1>7, <3>1, <3>2, PayloadRead
    <3>4. QED
      BY <1>1, <3>3
  <2>7. PICK turned : turned = rotateMask(4 - (m % 4), p.mask)
    OBVIOUS
  <2>8. Turned(turned, a + m) /\ turned \in [0..3 -> 0..3]
    <3>1. Turned(turned, a + m)
      BY <1>6, <1>7, <2>7, MaskTurns
    <3>2. PICK t : t = a + m /\ t \in Nat
      BY <1>6
    <3>3. Turned(turned, t)
      BY <3>1, <3>2
    <3>4. turned \in [0..3 -> 0..3]
      BY <3>2, <3>3, MaskIn
    <3>5. QED
      BY <3>1, <3>4
  <2>9. PICK x : x = SetRest(p, left, turned)
    OBVIOUS
  <2>10. Has(x, st, sp, left, turned, k, code, fin, b, d)
    BY <1>11, <2>2, <2>8, <2>9 DEF Sets
  <2>11. Begun(x, f, i, a) /\ Reading(x, st, sp, left, turned) /\ x.opCode = code /\ x.opStack = k
    <3>1. Begun(x, f, i, a) /\ Reading(x, st, sp, left, turned)
      BY <1>7, <1>8, <2>10, BegunStill
    <3>2. QED
      BY <2>10, <3>1 DEF Has
  <2>12. PICK g : g = Fragment(f, x, Piece(j, a, m), left, code[k], frame.fin)
    OBVIOUS
  <2>13. PartDone(g, x, f, i, a + m)
    BY <1>1, <1>6, <2>2, <2>11, <2>12, PartOfFrame
  <2>14. o = Outcome(g.parser, <<>>, g.event)
    <3>1. ~(p.remaining <= Len(q))
      BY <1>4, <1>6, <1>7, <1>13
    <3>2. p.remaining - Len(now) = left
      BY <1>7, <2>1, <2>5
    <3>3. x = [p EXCEPT !.remaining = left, !.mask = rotateMask(4 - (Len(now) % 4), @)]
      BY <2>5, <2>7, <2>9, Zenon DEF SetRest
    <3>4. QED
      BY <1>9, <1>10, <2>4, <2>6, <2>12, <3>1, <3>2, <3>3, Zenon DEF consumeContinuation
  <2>15. o.parser = g.parser /\ o.src = <<>> /\ o.event = Quiet
    BY <2>13, <2>14 DEF Outcome, PartDone
  <2>16. InFrame(o.parser, f, i, a + m)
    BY <1>1, <1>9, <2>2, <2>8, <2>11, <2>13, <2>15 DEF InFrame, PartDone, Reading
  <2>17. n = End(f, i) + f[i + 1].head + (a + m)
    BY <1>1, <1>3, <1>6
  <2>18. StillIn(o, f, i, n)
    BY <1>1, <1>6, <2>2, <2>15, <2>16, <2>17, GoesOnWithin
  <2>19. QED
    BY <2>18 DEF Turn
<1>14. QED
  BY <1>4, <1>6, <1>12, <1>13

-----------------------------------------------------------------------------
(* The turns that read a header. *)

LEMMA PayloadStart ==
  ASSUME NEW f \in Seq(Frame), NEW i \in 0..(Len(f) - 1),
         NEW m \in Nat, m <= f[i + 1].len,
         NEW q, Cut(q, Bytes(f), End(f, i) + f[i + 1].head, m)
  PROVE  Unmasked(q, Key) = Piece(i + 1, 0, m)
<1>1. PICK z : z = 0
  OBVIOUS
<1>2. i + 1 \in 1..Len(f) /\ i \in 0..Len(f)
  OBVIOUS
<1>3. f[i + 1].len \in Nat /\ f[i + 1].head \in Nat /\ End(f, i) \in Nat
  BY <1>2, FrameFacts, EndFacts
<1>4. z \in Nat /\ z + m <= f[i + 1].len
  BY <1>1, <1>3
<1>5. Turned(Key, z)
  BY <1>1, KeyTurned
<1>6. Cut(q, Bytes(f), End(f, i) + f[i + 1].head + z, m)
  <2>1. PICK c : c = End(f, i) + f[i + 1].head
    OBVIOUS
  <2>2. c + z = c
    BY <1>1, <1>3, <2>1
  <2>3. QED
    BY <1>1, <2>1, <2>2, Zenon
<1>7. Unmasked(q, Key) = Piece(i + 1, z, m)
  BY <1>4, <1>5, <1>6, PayloadRead
<1>8. QED
  BY <1>1, <1>7

LEMMA MessageTurn ==
  ASSUME NEW f \in Seq(Frame), NoneNested(f), NEW i \in 0..(Len(f) - 1),
         NEW p, Between(p, f, i), ~Invalid(f[i + 1]), ~NotAllowed(p, f[i + 1]),
         NEW q, NEW n \in Nat, ToRead(q, f, End(f, i), n), f[i + 1].head <= Len(q),
         NEW o, o = consumeMessage(f, p, q, f[i + 1])
  PROVE  Turn(o, f, i, n)
<1>1. PICK j, B, m, e, frame, h, l, here :
         /\ j = i + 1 /\ B = Bytes(f) /\ e = End(f, i) /\ m = n - e /\ frame = f[j]
         /\ h = frame.head /\ l = frame.len /\ here = m - h
  OBVIOUS
<1>2. j \in 1..Len(f) /\ j \in 0..Len(f) /\ i \in 0..Len(f) /\ i < Len(f) /\ j - 1 = i /\ j \in Nat
  BY <1>1
<1>3. l \in Nat /\ h \in Nat /\ frame.fin \in BOOLEAN /\ e \in Nat /\ End(f, j) = e + h + l
  BY <1>1, <1>2, FrameFacts, EndFacts
<1>a. l \in Nat /\ h \in Nat /\ e \in Nat
  BY <1>3
<1>4. Cut(q, B, e, m)
  BY <1>1 DEF ToRead
<1>5. m \in Nat /\ Len(q) = m /\ e + m <= Len(B)
  BY <1>4 DEF Cut
<1>6. e + m = n /\ here \in Nat /\ here = m - h /\ h <= m
  <2>1. h <= m
    <3>1. f[i + 1].head = h
      BY <1>1
    <3>2. QED
      BY <1>5, <3>1, Zenon
  <2>2. m = n - e /\ here = m - h
    BY <1>1
  <2>3. QED
    BY <1>a, <1>5, <2>1, <2>2
<1>7. Accepts(Accepted(p, frame), f, i)
  BY <1>1, AcceptFacts
<1>8. PICK x : x = Accepted(p, frame)
  OBVIOUS
<1>9. x.state = "READ_HEAD" /\ x.spill = <<>> /\ Begun(x, f, i, 0)
  BY <1>7, <1>8 DEF Accepts
<1>10. PICK op, body, payload :
         /\ op = x.opCode[x.opStack] /\ body = SubSeq(q, h + 1, m) /\ payload = First(body, l)
  OBVIOUS
<1>11. Cut(body, B, e + h, here)
  <2>1. h \in 0..m
    BY <1>a, <1>5, <1>6
  <2>2. QED
    BY <1>4, <1>6, <1>10, <2>1, CutLast
<1>12. x = [(IF frame.op = "more" THEN p
             ELSE [p EXCEPT !.opStack = @ + 1, !.opCode[p.opStack + 1] = frame.op])
            EXCEPT !.lastFin = frame.fin, !.spill = <<>>]
  BY <1>8, Zenon DEF Accepted, Stacked, SetFin, SetOp
<1>13. 0 \in Nat /\ Turned(Key, 0)
  BY KeyTurned
<1>14. CASE l <= here
  <2>1. PICK rest, g : /\ rest = SubSeq(q, h + l + 1, m)
                       /\ g = Fragment(f, x, Piece(j, 0, l), 0, op, frame.fin)
    OBVIOUS
  <2>2. l \in 0..here /\ h + l \in 0..m /\ m - (h + l) = n - (e + h + l) /\ e + (h + l) = e + h + l
    BY <1>a, <1>5, <1>6, <1>14
  <2>3. payload = SubSeq(body, 1, l)
    <3>1. First(body, l) = SubSeq(body, 1, l)
      BY <1>a, <1>11, <1>14, FirstIs
    <3>2. QED
      BY <1>10, <3>1
  <2>4. Cut(payload, B, e + h, l)
    BY <1>11, <2>2, <2>3, CutFirst, Zenon
  <2>5. Cut(rest, B, e + h + l, n - (e + h + l))
    <3>1. Cut(rest, B, e + (h + l), m - (h + l))
      BY <1>4, <2>1, <2>2, CutLast
    <3>2. QED
      BY <2>2, <3>1
  <2>6. Unmasked(payload, Key) = Piece(j, 0, l)
    <3>1. Cut(payload, Bytes(f), End(f, i) + f[i + 1].head, l)
      <4>1. f[i + 1].head = h /\ End(f, i) = e
        BY <1>1
      <4>2. QED
        BY <1>1, <2>4, <4>1, Zenon
    <3>2. l \in Nat /\ l <= f[i + 1].len
      <4>1. l \in Nat /\ f[i + 1].len = l
        BY <1>1, <1>a
      <4>2. QED
        BY <4>1
    <3>3. Unmasked(payload, Key) = Piece(i + 1, 0, l)
      BY <3>1, <3>2, PayloadStart, Zenon
    <3>4. QED
      BY <1>1, <3>3
  <2>7. FrameDone(g.event, Popped(g.parser, frame.fin), f, i)
    <3>1. 0 + l = f[i + 1].len
      BY <1>1, <1>a
    <3>2. g = Fragment(f, x, Piece(i + 1, 0, l), 0, x.opCode[x.opStack], f[i + 1].fin)
      BY <1>1, <1>10, <2>1
    <3>3. FrameDone(g.event, Popped(g.parser, f[i + 1].fin), f, i)
      BY <1>a, <1>9, <1>13, <3>1, <3>2, WholeFrame
    <3>4. QED
      BY <1>1, <3>3
  <2>8. o = Outcome(Popped(g.parser, frame.fin), rest, g.event)
    <3>1. o = consumeMessage(f, p, q, frame)
      BY <1>1
    <3>2. frame.len <= Len(q) - frame.head
      BY <1>1, <1>5, <1>6, <1>14
    <3>3. o = Outcome(Popped(Fragment(f, x, Unmasked(First(SubSeq(q, frame.head + 1, Len(q)), frame.len), Key),
                                      0, x.opCode[x.opStack], frame.fin).parser, frame.fin),
                      SubSeq(q, frame.head + frame.len + 1, Len(q)),
                      Fragment(f, x, Unmasked(First(SubSeq(q, frame.head + 1, Len(q)), frame.len), Key),
                               0, x.opCode[x.opStack], frame.fin).event)
      BY <1>12, <3>1, <3>2, Zenon DEF consumeMessage
    <3>4. /\ First(SubSeq(q, frame.head + 1, Len(q)), frame.len) = payload
          /\ SubSeq(q, frame.head + frame.len + 1, Len(q)) = rest
      BY <1>1, <1>5, <1>10, <2>1
    <3>5. QED
      BY <1>10, <2>1, <2>6, <3>3, <3>4, Zenon
  <2>9. o.parser = Popped(g.parser, frame.fin) /\ o.src = rest /\ o.event = g.event
    BY <2>8 DEF Outcome
  <2>10. ToRead(o.src, f, End(f, j), n)
    BY <1>1, <1>3, <2>5, <2>9 DEF ToRead
  <2>11. QED
    BY <1>1, <1>2, <2>7, <2>9, <2>10 DEF FrameDone, Turn, FrameRead
<1>15. CASE l > here
  <2>1. PICK left, turned : left = l - here /\ turned = rotateMask(4 - (here % 4), Key)
    OBVIOUS
  <2>2. here \in 0..here /\ left # 0 /\ left \in Int /\ l >= here /\ 0 + here = here
        /\ n = e + h + here
    BY <1>a, <1>5, <1>6, <1>15, <2>1
  <2>3. payload = SubSeq(body, 1, here)
    <3>1. First(body, l) = SubSeq(body, 1, here)
      BY <1>a, <1>11, <2>2, FirstIs
    <3>2. QED
      BY <1>10, <3>1
  <2>4. Cut(payload, B, e + h, here)
    BY <1>11, <2>2, <2>3, CutFirst
  <2>5. Unmasked(payload, Key) = Piece(j, 0, here)
    <3>1. Cut(payload, Bytes(f), End(f, i) + f[i + 1].head, here)
      <4>1. f[i + 1].head = h /\ End(f, i) = e
        BY <1>1
      <4>2. QED
        BY <1>1, <2>4, <4>1, Zenon
    <3>2. here \in Nat /\ here <= f[i + 1].len
      <4>1. here \in Nat /\ here <= l /\ f[i + 1].len = l
        BY <1>1, <1>a, <1>6, <2>2
      <4>2. QED
        BY <4>1
    <3>3. Unmasked(payload, Key) = Piece(i + 1, 0, here)
      BY <3>1, <3>2, PayloadStart, Zenon
    <3>4. QED
      BY <1>1, <3>3
  <2>6. Turned(turned, here) /\ turned \in [0..3 -> 0..3]
    <3>1. Turned(turned, 0 + here)
      BY <1>6, <1>13, <2>1, MaskTurns
    <3>2. QED
      BY <1>6, <2>2, <3>1, MaskIn
  <2>7. PICK u : u = "READ_MESSAGE"
    OBVIOUS
  <2>8. PICK y : y = SetBegun(x, u, left, turned)
    OBVIOUS
  <2>9. Begun(y, f, i, 0) /\ y.state = u /\ y.spill = <<>> /\ y.remaining = left /\ y.mask = turned
        /\ y.opCode = x.opCode /\ y.opStack = x.opStack
    <3>1. PICK st, sp, w, mask, k, code, fin, b, d : Has(x, st, sp, w, mask, k, code, fin, b, d)
      BY <1>9, ParserHas DEF Begun
    <3>2. Sets(x, st, sp, w, mask, k, code, fin, b, d)
      BY <3>1, SetFacts
    <3>3. Has(y, u, sp, left, turned, k, code, fin, b, d)
      BY <2>2, <2>6, <2>7, <2>8, <3>2 DEF Sets
    <3>4. Begun(y, f, i, 0) /\ Reading(y, u, sp, left, turned)
      BY <1>9, <3>1, <3>3, BegunStill
    <3>5. QED
      BY <1>9, <3>1, <3>3, <3>4 DEF Reading, Has
  <2>10. PICK g : g = Fragment(f, y, Piece(j, 0, here), left, op, frame.fin)
    OBVIOUS
  <2>11. PartDone(g, y, f, i, here)
    <3>1. g = Fragment(f, y, Piece(i + 1, 0, here), left, y.opCode[y.opStack], f[i + 1].fin)
      BY <1>1, <1>10, <2>9, <2>10
    <3>2. PartDone(g, y, f, i, 0 + here)
      BY <1>6, <1>13, <2>2, <2>9, <3>1, PartOfFrame
    <3>3. QED
      BY <2>2, <3>2
  <2>12. o = Outcome(g.parser, <<>>, g.event)
    <3>1. o = consumeMessage(f, p, q, frame)
      BY <1>1
    <3>2. ~(frame.len <= Len(q) - frame.head)
      <4>1. frame.len = l /\ Len(q) - frame.head = here
        BY <1>1, <1>5
      <4>2. ~(l <= here)
        BY <1>a, <1>6, <1>15
      <4>3. QED
        BY <4>1, <4>2, Zenon
    <3>3. frame.len - (Len(q) - frame.head) = left
      BY <1>1, <1>5, <1>6, <2>1
    <3>4. First(SubSeq(q, frame.head + 1, Len(q)), frame.len) = payload
      BY <1>1, <1>5, <1>10
    <3>5. y = [x EXCEPT !.state = "READ_MESSAGE",
                        !.remaining = frame.len - (Len(q) - frame.head),
                        !.mask = rotateMask(4 - ((Len(q) - frame.head) % 4), Key)]
      <4>1. Len(q) - frame.head = here
        BY <1>1, <1>5
      <4>2. QED
        BY <2>1, <2>7, <2>8, <3>3, <4>1, Zenon DEF SetBegun
    <3>6. QED
      BY <1>10, <1>12, <2>5, <2>10, <3>1, <3>2, <3>3, <3>4, <3>5, Zenon DEF consumeMessage
  <2>13. o.parser = g.parser /\ o.src = <<>> /\ o.event = Quiet
    BY <2>11, <2>12 DEF Outcome, PartDone
  <2>14. InFrame(o.parser, f, i, here)
    <3>1. f[i + 1].len - here = left
      BY <1>1, <2>1
    <3>2. QED
      BY <2>6, <2>7, <2>9, <2>11, <2>13, <3>1 DEF InFrame, PartDone, Reading
  <2>15. here < f[i + 1].len /\ n = End(f, i) + f[i + 1].head + here /\ n <= Len(Bytes(f))
    <3>1. f[i + 1].len = l /\ f[i + 1].head = h /\ End(f, i) = e /\ Bytes(f) = B
      BY <1>1
    <3>2. here < l
      BY <1>a, <1>6, <1>15
    <3>3. QED
      BY <1>5, <1>6, <2>2, <3>1, <3>2
  <2>16. StillIn(o, f, i, n)
    BY <1>6, <2>13, <2>14, <2>15, GoesOnWithin
  <2>17. QED
    BY <2>16 DEF Turn
<1>16. QED
  BY <1>a, <1>6, <1>14, <1>15

\* The header that is read next is the one that was sent next.
LEMMA NextHeader ==
  ASSUME NEW f \in Seq(Frame), NEW i \in 0..(Len(f) - 1),
         NEW q, NEW n \in Nat, ToRead(q, f, End(f, i), n), q # <<>>
  PROVE  FrameAt(f, q[1]) = f[i + 1]
<1>1. PICK j, h, l, e, m : j = i + 1 /\ h = f[j].head /\ l = f[j].len /\ e = End(f, i) /\ m = n - e
  OBVIOUS
<1>2. j \in 1..Len(f) /\ i \in 0..Len(f) /\ j - 1 = i
  BY <1>1
<1>3. h \in Nat /\ h >= 1 /\ l \in Nat /\ e \in Nat
  BY <1>1, <1>2, FrameFacts, EndFacts
<1>4. Cut(q, Bytes(f), e, m)
  BY <1>1 DEF ToRead
<1>5. m \in Nat /\ m >= 1 /\ q[1] = Bytes(f)[e + 1]
  BY <1>4 DEF Cut
<1>6. 1 \in 1..(h + l)
  BY <1>3
<1>7. Bytes(f)[End(f, j - 1) + 1] = <<j, 1 - 1 - h>>
  BY <1>1, <1>2, <1>6, ByteAt
<1>8. q[1] = <<j, 1 - 1 - h>>
  BY <1>1, <1>2, <1>5, <1>7
<1>9. q[1][1] = j /\ q[1][2] = -h /\ q[1] # Garbled
  <2>1. 1 - 1 - h = -h /\ j # 0
    BY <1>2, <1>3
  <2>2. QED
    BY <1>8, <2>1 DEF Garbled
<1>10. QED
  BY <1>1, <1>9, Zenon DEF FrameAt

LEMMA SpillTurn ==
  ASSUME NEW f \in Seq(Frame), NEW i \in 0..(Len(f) - 1), NEW p, Between(p, f, i),
         NEW q, NEW n \in Nat, ToRead(q, f, End(f, i), n), Len(q) < f[i + 1].head,
         NEW o, o = Spilled(p, q)
  PROVE  StillIn(o, f, i, n)
<1>1. PICK e, m, h : e = End(f, i) /\ m = n - e /\ h = f[i + 1].head
  OBVIOUS
<1>2. i \in 0..Len(f) /\ i < Len(f) /\ i + 1 \in 1..Len(f)
  OBVIOUS
<1>3. e \in Nat /\ h \in Nat
  BY <1>1, <1>2, FrameFacts, EndFacts
<1>4. Cut(q, Bytes(f), e, m)
  BY <1>1 DEF ToRead
<1>5. q \in Seq(Byte) /\ m \in Nat /\ Len(q) = m /\ e + m <= Len(Bytes(f))
  BY <1>4 DEF Cut
<1>6. n < e + h
  <2>1. m < h
    BY <1>1, <1>5
  <2>2. m = n - e
    BY <1>1
  <2>3. QED
    BY <1>3, <1>5, <2>1, <2>2
<1>7. PICK x : x = SetSpill(p, q)
  OBVIOUS
<1>8. o.parser = x /\ o.src = <<>> /\ o.event = Quiet
  BY <1>7 DEF Spilled, Outcome, SetSpill
<1>9. p \in Parsers /\ p.state = "READ_HEAD"
      /\ Settled(Reader(f)[i], p.opStack, p.opCode, p.lastFin, p.fragmentBuffer, p.controlBuffer)
  BY DEF Between
<1>10. PICK st, sp, w, mask, k, code, fin, b, d : Has(p, st, sp, w, mask, k, code, fin, b, d)
  BY <1>9, ParserHas
<1>11. st = "READ_HEAD" /\ Settled(Reader(f)[i], k, code, fin, b, d)
  BY <1>9, <1>10 DEF Has
<1>12. Has(x, st, q, w, mask, k, code, fin, b, d)
  <2>1. Sets(p, st, sp, w, mask, k, code, fin, b, d)
    BY <1>10, SetFacts
  <2>2. QED
    BY <1>5, <1>7, <2>1 DEF Sets
<1>13. Between(x, f, i) /\ x.spill = q
  BY <1>11, <1>12, SettledHas
<1>14. x.state = "READ_HEAD"
  BY <1>13 DEF Between
<1>15. Stands(x, f, i, e)
  BY <1>1, <1>13 DEF Stands
<1>16. NotRead(x, f, i, e, n)
  BY <1>1, <1>2, <1>4, <1>6, <1>13, <1>14 DEF NotRead
<1>17. e \in 0..Len(Bytes(f))
  BY <1>3, <1>5
<1>18. QED
  BY <1>8, <1>15, <1>16, <1>17 DEF StillIn

LEMMA TurnFacts ==
  ASSUME NEW f \in Seq(Frame), NoneNested(f), NEW i \in 0..Len(f), NEW c, NEW p, Stands(p, f, i, c),
         NEW q, q # <<>>, NEW n \in Nat, ToRead(q, f, c, n),
         NEW o, o = consume(f, p, q)
  PROVE  Turn(o, f, i, n)
<1>1. CASE i < Len(f) /\ \E a \in 0..(f[i + 1].len - 1) :
                            c = End(f, i) + f[i + 1].head + a /\ InFrame(p, f, i, a)
  <2>1. PICK a \in 0..(f[i + 1].len - 1) : c = End(f, i) + f[i + 1].head + a /\ InFrame(p, f, i, a)
    BY <1>1
  <2>2. i \in 0..(Len(f) - 1) /\ i + 1 \in 1..Len(f)
    BY <1>1
  <2>3. a \in Nat /\ a < f[i + 1].len
    <3>1. PICK l : l = f[i + 1].len
      OBVIOUS
    <3>2. l \in Nat
      BY <2>2, <3>1, FrameFacts
    <3>3. a \in 0..(l - 1)
      BY <3>1
    <3>4. a \in Nat /\ a < l
      BY <3>2, <3>3
    <3>5. QED
      BY <3>1, <3>4
  <2>4. p.state = "READ_MESSAGE"
    BY <2>1 DEF InFrame
  <2>5. o = consumeContinuation(f, p, q)
    BY <2>4 DEF consume
  <2>6. QED
    BY <2>1, <2>2, <2>3, <2>5, ContinuationTurn
<1>2. CASE c = End(f, i) /\ Between(p, f, i)
  <2>1. i \in 0..(Len(f) - 1)
    <3>1. PICK L, e, m : L = Len(f) /\ e = End(f, i) /\ m = n - e
      OBVIOUS
    <3>2. L \in Nat /\ L \in 0..L /\ Len(Bytes(f)) = End(f, L) /\ e \in Nat
      <4>1. L \in Nat /\ L \in 0..L
        BY <3>1
      <4>2. QED
        BY <3>1, <4>1, EndFacts DEF Bytes, End
    <3>3. m \in Nat /\ m >= 1 /\ e + m <= Len(Bytes(f))
      <4>1. Cut(q, Bytes(f), e, m)
        BY <1>2, <3>1 DEF ToRead
      <4>2. QED
        BY <4>1 DEF Cut
    <3>4. ASSUME i = L
          PROVE  FALSE
      <4>1. e = Len(Bytes(f))
        BY <3>1, <3>2, <3>4
      <4>2. QED
        BY <3>2, <3>3, <4>1
    <3>5. QED
      BY <3>1, <3>4
  <2>2. i < Len(f) /\ i + 1 \in 1..Len(f)
    BY <2>1
  <2>3. PICK frame, h : frame = f[i + 1] /\ h = frame.head
    OBVIOUS
  <2>4. h \in Nat /\ h >= ShortHeader
    BY <2>2, <2>3, FrameFacts
  <2>5. FrameAt(f, q[1]) = frame
    BY <1>2, <2>1, <2>3, NextHeader
  <2>6. p.state = "READ_HEAD"
    BY <1>2 DEF Between
  <2>7. Len(q) \in Nat
    BY <1>2 DEF ToRead, Cut
  <2>8. CASE Len(q) < ShortHeader
    <3>1. o = Spilled(p, q)
      <4>1. ~(Len(q) >= ShortHeader)
        BY <2>7, <2>8, FramingAssumption
      <4>2. QED
        BY <2>6, <2>8, <4>1 DEF consume
    <3>2. Len(q) < h
      BY <2>4, <2>7, <2>8, FramingAssumption
    <3>3. QED
      BY <1>2, <2>1, <2>3, <3>1, <3>2, SpillTurn DEF Turn
  <2>9. CASE Len(q) >= ShortHeader
    <3>0. ~(Len(q) < ShortHeader)
      BY <2>7, <2>9, FramingAssumption
    <3>1. o = CASE Invalid(frame) -> Outcome(p, q, Refused)
                [] ~Invalid(frame) /\ Len(q) < frame.head -> Spilled(p, q)
                [] ~Invalid(frame) /\ Len(q) >= frame.head ->
                     IF NotAllowed(p, frame) THEN Outcome(p, q, Refused)
                     ELSE consumeMessage(f, p, q, frame)
      BY <2>5, <2>6, <2>9, <3>0 DEF consume
    <3>2. CASE Invalid(frame) \/ (Len(q) >= h /\ NotAllowed(p, frame))
      <4>1. o = Outcome(p, q, Refused)
        BY <2>3, <2>4, <2>7, <3>1, <3>2
      <4>2. o.event.kind = "refused"
        BY <4>1 DEF Outcome, Refused
      <4>3. ~Legal(f)
        BY <1>2, <2>1, <2>3, <3>2, RefusedHeader
      <4>4. QED
        BY <4>2, <4>3 DEF Turn
    <3>3. CASE ~Invalid(frame) /\ Len(q) < h
      <4>1. o = Spilled(p, q)
        BY <2>3, <2>4, <2>7, <3>1, <3>3
      <4>2. QED
        BY <1>2, <2>1, <2>3, <3>3, <4>1, SpillTurn DEF Turn
    <3>4. CASE ~Invalid(frame) /\ Len(q) >= h /\ ~NotAllowed(p, frame)
      <4>1. o = consumeMessage(f, p, q, frame)
        BY <2>3, <2>4, <2>7, <3>1, <3>4
      <4>2. h <= Len(q)
        BY <2>4, <2>7, <3>4
      <4>3. QED
        BY <1>2, <2>1, <2>3, <3>4, <4>1, <4>2, MessageTurn
    <3>5. QED
      <4>1. Len(q) < h \/ Len(q) >= h
        BY <2>4, <2>7
      <4>2. QED
        BY <3>2, <3>3, <3>4, <4>1, Zenon
  <2>10. QED
    BY <2>7, <2>8, <2>9, FramingAssumption
<1>3. QED
  BY <1>1, <1>2 DEF Stands

-----------------------------------------------------------------------------
(* What the server has heard of a peer, and has answered. *)

Begins(q, a) == IsSeq(q) /\ IsSeq(a) /\ IsPrefix(q, a)

\* The pings P are answered, all of them or those before the connection failed.
Answers(T, o, q, P) ==
  \/ Pongs(T) = P
  \/ o = "failed" /\ q = <<>> /\ Begins(Pongs(T), P)
Answered(s, P) == Answers(taken[s], out[s], queue[s], P)
Within(s, P) == Begins(Pongs(taken[s]), P)

AtWork(s) == mode.is \in {"reading", "handling"} /\ mode.sock = s
BeingRead(s) == mode.is = "reading" /\ mode.sock = s

\* What is still to be read of n bytes, of which c are consumed.
Left(f, i, c, n, q, p, reading, working) ==
  IF working THEN ToRead(q, f, c, n) /\ (reading => q # <<>>) /\ (~reading => p.spill = <<>>)
             ELSE q = <<>> /\ NotRead(p, f, i, c, n)
Follows(f, i, c, n, q, p, h, reading, working) ==
  /\ i \in 0..Len(f) /\ c \in 0..Len(Bytes(f))
  /\ Stands(p, f, i, c) /\ Left(f, i, c, n, q, p, reading, working)
  /\ h = Reader(f)[i].said
FollowsTo(s, i, c) ==
  Follows(script[s], i, c, at[s], src[s], parser[s], heard[s], BeingRead(s), AtWork(s))
OpenHears(s) ==
  \E i, c : FollowsTo(s, i, c) /\ Answered(s, Reader(script[s])[i].pinged)

\* A closing socket has heard the first i frames.
Stopped(f, i, n, h) == i \in 0..Len(f) /\ End(f, i) <= n /\ h = Reader(f)[i].said
ClosingHears(s) ==
  \E i : Stopped(script[s], i, at[s], heard[s]) /\ Within(s, Reader(script[s])[i].pinged)

Blank(s) == at[s] = 0 /\ heard[s] = <<>> /\ taken[s] = <<>>
Fresh(s) == Blank(s) /\ src[s] = <<>> /\ parser[s] = NewParser

Hears(s) ==
  /\ phase[s] \in {"none", "http"} => Fresh(s)
  /\ phase[s] = "open" => OpenHears(s)
  /\ phase[s] = "closing" => ClosingHears(s)
  /\ phase[s] = "gone" => Blank(s)
  /\ session[s] = "refused" => phase[s] = "gone" /\ ~Legal(script[s])
Plain(s) == s \in DOMAIN script /\ NoneNested(script[s])
HearsWell == \A s \in Sock : Plain(s) => Hears(s)

InputShape ==
  /\ script \in Scripts
  /\ IsMap(at) /\ IsMap(src) /\ IsMap(parser)
  /\ \A s \in Sock : at[s] \in Nat

LEMMA ScriptFacts ==
  ASSUME InputShape, NEW s \in Sock, Plain(s)
  PROVE  script[s] \in Seq(Frame) /\ NoneNested(script[s]) /\ at[s] \in Nat
<1>1. PICK f : f = script
  OBVIOUS
<1>2. f \in Scripts /\ s \in DOMAIN f
  BY <1>1 DEF InputShape, Plain
<1>3. f \in [DOMAIN f -> Seq(Frame)]
  BY <1>2, TransportAssumption
<1>4. f[s] \in Seq(Frame)
  BY <1>2, <1>3
<1>5. QED
  BY <1>1, <1>4 DEF InputShape, Plain

-----------------------------------------------------------------------------
(* The answers, as the socket is written to. *)

LEMMA PongsAfterFacts ==
  ASSUME NEW P, IsSeq(P), NEW m
  PROVE  Begins(P, PongsAfter(P, m))
<1>1. CASE m.kind = "pong"
  <2>1. PICK a : Appended(a, P, m.data)
    BY DEF Appended
  <2>2. a = PongsAfter(P, m)
    BY <1>1, <2>1 DEF Appended, PongsAfter
  <2>3. IsSeq(a) /\ IsPrefix(P, a)
    BY <2>1, PrefixAppended
  <2>4. QED
    BY <2>2, <2>3 DEF Begins
<1>2. CASE m.kind # "pong"
  BY <1>2, PrefixSelf DEF PongsAfter, Begins
<1>3. QED
  BY <1>1, <1>2

LEMMA BeginsChain ==
  ASSUME NEW q, NEW a, NEW b, Begins(q, a), Begins(a, b)
  PROVE  Begins(q, b)
BY PrefixChain DEF Begins

\* m was written, or the connection failed.
Passes(l, m, w) ==
  \/ Appended(w.taken, l.taken, m) /\ (l.out = "failed" => l.queue # <<>>)
  \/ w.taken = l.taken /\ w.out = "failed" /\ w.queue = <<>>

LEMMA WritePasses ==
  ASSUME NEW l, IsLink(l), l.out \in {"up", "shut", "failed"}, NEW m, NEW k \in Sent(l.out),
         NEW w, w = write(l, m, k)
  PROVE  Passes(l, m, w)
<1>1. k \in 0..3 /\ (l.out = "failed" => k = 3)
  BY DEF Sent, Failed
<1>2. WrittenBehind(l, m, w) \/ WrittenWhole(l, m, k, w) \/ WrittenInPart(l, m, k, w)
      \/ NotWritten(l, k, w)
  BY <1>1, WriteCases
<1>4. CASE WrittenBehind(l, m, w)
  <2>0. PICK q, p, v, o, T, W, x : w = Record(q, p, v, o, T, W, x) /\ T = Append(l.taken, m)
    BY <1>4, Zenon DEF WrittenBehind
  <2>a. RecordFacts(w, q, p, v, o, T, W, x)
    BY <2>0, RecordHas
  <2>1. w.taken = Append(l.taken, m)
    BY <2>0, <2>a, Zenon DEF RecordFacts
  <2>2. l.queue # <<>>
    BY <1>4, Zenon DEF WrittenBehind
  <2>3. QED
    BY <1>1, <2>1, <2>2 DEF Passes, Appended
<1>5. CASE WrittenWhole(l, m, k, w)
  <2>0. PICK q, p, v, o, T, W, x : w = Record(q, p, v, o, T, W, x) /\ T = Append(l.taken, m)
    BY <1>5, Zenon DEF WrittenWhole
  <2>a. RecordFacts(w, q, p, v, o, T, W, x)
    BY <2>0, RecordHas
  <2>1. w.taken = Append(l.taken, m)
    BY <2>0, <2>a, Zenon DEF RecordFacts
  <2>2. k = 2
    BY <1>5, Zenon DEF WrittenWhole
  <2>3. QED
    BY <1>1, <2>1, <2>2 DEF Passes, Appended
<1>6. CASE WrittenInPart(l, m, k, w)
  <2>0. PICK q, p, v, o, T, W, x : w = Record(q, p, v, o, T, W, x) /\ T = Append(l.taken, m)
    BY <1>6, Zenon DEF WrittenInPart
  <2>a. RecordFacts(w, q, p, v, o, T, W, x)
    BY <2>0, RecordHas
  <2>1. w.taken = Append(l.taken, m)
    BY <2>0, <2>a, Zenon DEF RecordFacts
  <2>2. k \in 0..1
    BY <1>6, Zenon DEF WrittenInPart
  <2>3. QED
    BY <1>1, <2>1, <2>2 DEF Passes, Appended
<1>7. CASE NotWritten(l, k, w)
  <2>1. RecordFacts(w, l.queue, l.poll, l.watched, "failed", l.taken, l.wire, "lost") /\ l.queue = <<>>
    BY <1>7, RecordHas DEF NotWritten
  <2>2. QED
    BY <2>1 DEF RecordFacts, Passes
<1>8. QED
  BY <1>2, <1>4, <1>5, <1>6, <1>7

\* Shut and Entered change neither what was taken nor a failure.
LEMMA ShutPasses ==
  ASSUME NEW l, NEW m, NEW w, IsLink(w), Passes(l, m, w), NEW x, x = Shut(w)
  PROVE  Passes(l, m, x)
<1>1. PICK o : o = IF w.out = "up" THEN "shut" ELSE w.out
  OBVIOUS
<1>2. x = Record(w.queue, w.poll, w.watched, o, w.taken, w.wire, w.state)
  BY <1>1 DEF Shut, IsLink, Record
<1>3. x.queue = w.queue /\ x.taken = w.taken /\ x.out = o
  BY <1>2, RecordHas DEF RecordFacts
<1>4. w.out = "failed" => o = "failed"
  BY <1>1
<1>5. QED
  BY <1>3, <1>4 DEF Passes

LEMMA EnteredPasses ==
  ASSUME NEW l, NEW m, NEW w, IsLink(w), Passes(l, m, w), NEW x, x = Entered(w)
  PROVE  Passes(l, m, x)
<1>1. x = Record(w.queue, FALSE, w.poll, w.out, w.taken, w.wire, w.state)
  BY DEF Entered, IsLink, Record
<1>2. RecordFacts(x, w.queue, FALSE, w.poll, w.out, w.taken, w.wire, w.state)
  BY <1>1, RecordHas
<1>3. QED
  BY <1>2 DEF Passes, RecordFacts

LEMMA AnswersPass ==
  ASSUME NEW l, IsSeq(l.taken), NEW m, NEW w, Passes(l, m, w), NEW P, IsSeq(P)
  PROVE  /\ Answers(l.taken, l.out, l.queue, P) =>
              Answers(w.taken, w.out, w.queue, PongsAfter(P, m))
         /\ Begins(Pongs(l.taken), P) => Begins(Pongs(w.taken), PongsAfter(P, m)) \/ m.kind = "pong"
<1>1. Begins(P, PongsAfter(P, m))
  BY PongsAfterFacts
<1>2. CASE Appended(w.taken, l.taken, m) /\ (l.out = "failed" => l.queue # <<>>)
  <2>1. Pongs(w.taken) = PongsAfter(Pongs(l.taken), m)
    BY <1>2, PongsMore
  <2>2. Answers(l.taken, l.out, l.queue, P) => Pongs(l.taken) = P
    BY <1>2 DEF Answers
  <2>3. m.kind # "pong" => PongsAfter(P, m) = P /\ PongsAfter(Pongs(l.taken), m) = Pongs(l.taken)
    BY DEF PongsAfter
  <2>4. QED
    BY <2>1, <2>2, <2>3 DEF Answers
<1>3. CASE w.taken = l.taken /\ w.out = "failed" /\ w.queue = <<>>
  <2>1. Answers(l.taken, l.out, l.queue, P) => Begins(Pongs(l.taken), P)
    BY PrefixSelf DEF Answers, Begins
  <2>2. Begins(Pongs(l.taken), P) => Begins(Pongs(l.taken), PongsAfter(P, m))
    BY <1>1, BeginsChain
  <2>3. QED
    BY <1>3, <2>1, <2>2 DEF Answers
<1>4. QED
  BY <1>2, <1>3 DEF Passes

-----------------------------------------------------------------------------
(* A step that touches one socket only. *)

\* What is heard from t is not touched.
Unheard(t) ==
  /\ script' = script
  /\ (AtWork(t)' <=> AtWork(t)) /\ (BeingRead(t)' <=> BeingRead(t))
  /\ phase'[t] = phase[t] /\ session'[t] = session[t] /\ heard'[t] = heard[t]
  /\ at'[t] = at[t] /\ src'[t] = src[t] /\ parser'[t] = parser[t]
\* What is sent to t answers what it did.
StillAnswers(t) ==
  \/ SideKept(t)
  \/ /\ phase[t] \in {"open", "closing"}
     /\ \A P : IsSeq(P) => /\ Answered(t, P) => Answered(t, P)'
                           /\ Within(t, P) => Within(t, P)'

LEMMA PingedIsSeq ==
  ASSUME InputShape, NEW t \in Sock, Plain(t), NEW i \in 0..Len(script[t])
  PROVE  IsSeq(Reader(script[t])[i].pinged)
<1>1. PICK f : f = script[t]
  OBVIOUS
<1>2. f \in Seq(Frame)
  BY <1>1, ScriptFacts
<1>3. PICK r : r = Reader(f)[i]
  OBVIOUS
<1>4. r \in Readers(f)
  BY <1>1, <1>2, <1>3, ReaderFacts
<1>5. QED
  BY <1>1, <1>3, <1>4, ReaderSeqs

LEMMA KeptAnswers ==
  ASSUME NEW t \in Sock, SideKept(t)
  PROVE  /\ taken'[t] = taken[t]
         /\ \A P : (Answered(t, P) => Answered(t, P)') /\ (Within(t, P) => Within(t, P)')
<1>1. taken'[t] = taken[t] /\ out'[t] = out[t] /\ queue'[t] = queue[t]
  BY LinkIs DEF SideKept, SideIs
<1>2. QED
  BY <1>1 DEF Answered, Within

LEMMA UnheardHears ==
  ASSUME InputShape, NEW t \in Sock, Plain(t), Hears(t), Unheard(t), StillAnswers(t)
  PROVE  Hears(t)'
<1>1. \A P : IsSeq(P) => (Answered(t, P) => Answered(t, P)') /\ (Within(t, P) => Within(t, P)')
  BY KeptAnswers DEF StillAnswers
<1>2. phase[t] \in {"open", "closing"} \/ taken'[t] = taken[t]
  BY KeptAnswers DEF StillAnswers
<1>3. CASE phase[t] = "open"
  <2>1. PICK i, c : FollowsTo(t, i, c) /\ Answered(t, Reader(script[t])[i].pinged)
    BY <1>3 DEF Hears, OpenHears
  <2>2. FollowsTo(t, i, c)'
    <3>1. AtWork(t)' = AtWork(t) /\ BeingRead(t)' = BeingRead(t)
      BY Zenon DEF Unheard, AtWork, BeingRead
    <3>2. /\ script' = script /\ heard'[t] = heard[t] /\ at'[t] = at[t] /\ src'[t] = src[t]
          /\ parser'[t] = parser[t]
      BY DEF Unheard
    <3>3. QED
      BY <2>1, <3>1, <3>2, Zenon DEF FollowsTo
  <2>3. i \in 0..Len(script[t])
    BY <2>1 DEF FollowsTo, Follows
  <2>4. Answered(t, Reader(script[t])[i].pinged)'
    <3>1. PICK P : P = Reader(script[t])[i].pinged
      OBVIOUS
    <3>2. Answered(t, P)'
      BY <1>1, <2>1, <2>3, <3>1, PingedIsSeq
    <3>3. P = Reader(script'[t])[i].pinged
      BY <3>1 DEF Unheard
    <3>4. QED
      BY <3>2, <3>3, Zenon DEF Answered
  <2>5. OpenHears(t)'
    BY <2>2, <2>4 DEF OpenHears
  <2>6. QED
    BY <1>3, <2>5 DEF Hears, Unheard
<1>4. CASE phase[t] = "closing"
  <2>1. PICK i : Stopped(script[t], i, at[t], heard[t]) /\ Within(t, Reader(script[t])[i].pinged)
    BY <1>4 DEF Hears, ClosingHears
  <2>2. Stopped(script[t], i, at[t], heard[t])'
    BY <2>1 DEF Unheard
  <2>3. i \in 0..Len(script[t])
    BY <2>1 DEF Stopped
  <2>4. Within(t, Reader(script[t])[i].pinged)'
    <3>1. PICK P : P = Reader(script[t])[i].pinged
      OBVIOUS
    <3>2. Within(t, P)'
      BY <1>1, <2>1, <2>3, <3>1, PingedIsSeq
    <3>3. P = Reader(script'[t])[i].pinged
      BY <3>1 DEF Unheard
    <3>4. QED
      BY <3>2, <3>3, Zenon DEF Within
  <2>5. ClosingHears(t)'
    BY <2>2, <2>4 DEF ClosingHears
  <2>6. QED
    BY <1>4, <2>5 DEF Hears, Unheard
<1>5. CASE phase[t] \notin {"open", "closing"}
  BY <1>2, <1>5 DEF Hears, Unheard, Fresh, Blank
<1>6. QED
  BY <1>3, <1>4, <1>5

\* Nothing of another socket is touched.
Only(s) == script' = script /\ \A t \in Sock : t # s => Unheard(t) /\ SideKept(t)
\* Nothing is heard at all.
Deaf == script' = script /\ \A t \in Sock : Unheard(t) /\ StillAnswers(t)

LEMMA OnlyHears ==
  ASSUME InputShape, HearsWell, NEW s \in Sock, Only(s),
         Plain(s) /\ Hears(s) => Hears(s)'
  PROVE  HearsWell'
<1> SUFFICES ASSUME NEW t \in Sock, Plain(t)'
             PROVE  Hears(t)'
  BY DEF HearsWell
<1>1. Plain(t) /\ Hears(t)
  BY DEF Only, Plain, HearsWell
<1>2. CASE t = s
  BY <1>1, <1>2
<1>3. CASE t # s
  BY <1>1, <1>3, UnheardHears DEF Only, StillAnswers
<1>4. QED
  BY <1>2, <1>3

LEMMA DeafHears ==
  ASSUME InputShape, HearsWell, Deaf
  PROVE  HearsWell'
<1> SUFFICES ASSUME NEW t \in Sock, Plain(t)'
             PROVE  Hears(t)'
  BY DEF HearsWell
<1>1. Plain(t) /\ Hears(t)
  BY DEF Deaf, Plain, HearsWell
<1>2. QED
  BY <1>1, UnheardHears DEF Deaf

\* The loop and the input are as they were.
LEMMA UnchangedUnheard ==
  ASSUME UNCHANGED <<mode, phase, session, input>>
  PROVE  \A t \in Sock : Unheard(t)
BY DEF Unheard, AtWork, BeingRead, input

-----------------------------------------------------------------------------
(* Steps in which nothing is heard. *)

\* The side of s passes m on.
Passed(s, m) ==
  \E w : SideIs(s, w) /\ Passes(Link(s), m, w)

LEMMA PassedAnswers ==
  ASSUME NEW s \in Sock, Sided(s), NEW m, Passed(s, m), NEW P, IsSeq(P)
  PROVE  /\ Answered(s, P) => Answered(s, PongsAfter(P, m))'
         /\ m.kind # "pong" => (Within(s, P) => Within(s, P)')
<1>1. PICK w : SideIs(s, w) /\ Passes(Link(s), m, w)
  BY DEF Passed
<1>2. PICK l : l = Link(s)
  OBVIOUS
<1>3. IsSeq(l.taken) /\ l.taken = taken[s] /\ l.out = out[s] /\ l.queue = queue[s]
  BY <1>2, LinkIs DEF Sided, LinkFits, Fits
<1>4. /\ Answers(l.taken, l.out, l.queue, P) => Answers(w.taken, w.out, w.queue, PongsAfter(P, m))
      /\ Begins(Pongs(l.taken), P) => Begins(Pongs(w.taken), PongsAfter(P, m)) \/ m.kind = "pong"
  BY <1>1, <1>2, <1>3, AnswersPass
<1>5. w.taken = taken'[s] /\ w.out = out'[s] /\ w.queue = queue'[s]
  BY <1>1 DEF SideIs
<1>6. m.kind # "pong" => PongsAfter(P, m) = P
  BY DEF PongsAfter
<1>7. Answered(s, P) => Answered(s, PongsAfter(P, m))'
  BY <1>3, <1>4, <1>5 DEF Answered
<1>8. m.kind # "pong" => (Within(s, P) => Within(s, P)')
  BY <1>3, <1>4, <1>5, <1>6 DEF Within
<1>9. QED
  BY <1>7, <1>8

LEMMA PassedStill ==
  ASSUME NEW s \in Sock, Sided(s), NEW m, m.kind # "pong", Passed(s, m),
         phase[s] \in {"open", "closing"}
  PROVE  StillAnswers(s)
<1>1. ASSUME NEW P, IsSeq(P)
      PROVE  (Answered(s, P) => Answered(s, P)') /\ (Within(s, P) => Within(s, P)')
  <2>1. PongsAfter(P, m) = P
    BY DEF PongsAfter
  <2>2. /\ Answered(s, P) => Answered(s, PongsAfter(P, m))'
        /\ Within(s, P) => Within(s, P)'
    BY <1>1, PassedAnswers
  <2>3. Answered(s, PongsAfter(P, m))' => Answered(s, P)'
    BY <2>1, Zenon DEF Answered
  <2>4. QED
    BY <2>2, <2>3
<1>2. QED
  BY <1>1 DEF StillAnswers

LEMMA WritePassed ==
  ASSUME Sides, NEW s \in Sock, Sided(s), NEW m, NEW k \in Sent(out[s]),
         SetLink(s, write(Link(s), m, k))
  PROVE  Passed(s, m) /\ Others(s)
<1>1. PICK l, w : l = Link(s) /\ w = write(l, m, k)
  OBVIOUS
<1>2. IsLink(l) /\ l.out \in {"up", "shut", "failed"} /\ k \in Sent(l.out)
  BY <1>1, LinkIs DEF Sided, LinkFits, Fits
<1>3. Passes(l, m, w)
  BY <1>1, <1>2, WritePasses
<1>4. SideIs(s, w) /\ Others(s)
  BY <1>1, SetLinkFacts DEF Others
<1>5. QED
  BY <1>1, <1>3, <1>4 DEF Passed

LEMMA ClosePassed ==
  ASSUME Sides, NEW s \in Sock, Sided(s), NEW k \in Sent(out[s]),
         SetLink(s, SentClose(Link(s), k))
  PROVE  Passed(s, CloseFrame) /\ Others(s)
<1>1. PICK l, v, w : l = Link(s) /\ v = write(l, CloseFrame, k) /\ w = SentClose(l, k)
  OBVIOUS
<1>2. IsLink(l) /\ LinkFits(l) /\ CloseIsLast(l) /\ l.out \in {"up", "shut", "failed"} /\ k \in Sent(l.out)
  BY <1>1, LinkIs DEF Sided, LinkFits, Fits
<1>3. Passes(l, CloseFrame, v) /\ IsLink(v)
  BY <1>1, <1>2, WritePasses, WriteFacts
<1>4. w = IF v.state = "sent" THEN Shut(v) ELSE v
  BY <1>1 DEF SentClose
<1>5. Passes(l, CloseFrame, w)
  BY <1>3, <1>4, ShutPasses
<1>6. SideIs(s, w) /\ Others(s)
  BY <1>1, SetLinkFacts DEF Others
<1>7. QED
  BY <1>1, <1>5, <1>6 DEF Passed

LEMMA NotPong ==
  ASSUME NEW n
  PROVE  /\ Own(n).kind # "pong" /\ Prepared(n).kind # "pong" /\ Upgrade.kind # "pong"
         /\ CloseFrame.kind # "pong"
BY DEF Own, Prepared, Upgrade, CloseFrame

LEMMA SendHears ==
  ASSUME Inv, NEW s \in Sock, Send(s)
  PROVE  Deaf
<1>1. Sides /\ Sided(s) /\ phase[s] \in {"open", "closing"}
  BY DEF Inv, Shape, LinksAreGood, Send
<1>m. PICK m : m = Own(sends + 1)
  OBVIOUS
<1>2. PICK k \in Sent(out[s]) : m = Own(sends + 1) /\ SetLink(s, write(Link(s), m, k))
  BY <1>m DEF Send
<1>3. Passed(s, m) /\ Others(s) /\ m.kind # "pong"
  BY <1>1, <1>2, WritePassed, NotPong
<1>4. UNCHANGED <<mode, phase, session, input>>
  BY DEF Send
<1>5. \A t \in Sock : Unheard(t)
  BY <1>4, UnchangedUnheard
<1>6. StillAnswers(s)
  BY <1>1, <1>3, PassedStill
<1>7. QED
  BY <1>3, <1>4, <1>5, <1>6 DEF Deaf, Others, StillAnswers, input

LEMMA WrotesHears ==
  ASSUME Inv, NEW s \in Sock, Writable(s), ~Ends(s, "off")
  PROVE  Deaf
<1>1. Sides /\ Sided(s) /\ queue[s] # <<>> /\ phase[s] \in {"open", "closing"}
  BY DEF Inv, Shape, LinksAreGood, Waits, Writable
<1>k. PICK k \in Sent(out[s]) \cap 0..queue[s][1].left :
        SetLink(s, Wrote(s, k)) /\ UNCHANGED <<phase, timer, links, input, session>>
  BY DEF Writable
<1>2. PICK w : w = Wrote(s, k) /\ SetLink(s, w) /\ UNCHANGED <<phase, timer, links, input, session>>
  BY <1>k
<1>3. w.taken = taken[s]
  BY <1>1, <1>2, WroteFacts DEF Sided
<1>4. SideIs(s, w) /\ Others(s)
  BY <1>1, <1>2, SetLinkFacts DEF Others
<1>5. taken'[s] = taken[s]
  BY <1>3, <1>4 DEF SideIs
<1>6. StillAnswers(s)
  BY <1>1, <1>5 DEF StillAnswers, Answered, Answers, Within
<1>7. UNCHANGED <<mode, phase, session, input>>
  BY <1>2 DEF Writable
<1>8. \A t \in Sock : Unheard(t)
  BY <1>7, UnchangedUnheard
<1>9. QED
  BY <1>4, <1>6, <1>7, <1>8 DEF Deaf, Others, StillAnswers, input

LEMMA BroadcastSides ==
  ASSUME Inv, Broadcast, NEW s \in Sock
  PROVE  IF phase[s] = "open" THEN Passed(s, Prepared(sends + 1)) ELSE SideKept(s)
<1> DEFINE n == sends + 1
           to == {t \in Sock : phase[t] = "open"}
           Reach(D) ==
      \E taking \in {f \in [D -> 0..Failed] : \A t \in D : f[t] \in Sent(out[t])} :
        LET after == [t \in Sock |-> IF t \in D THEN write(Link(t), Prepared(n), taking[t])
                                                ELSE Link(t)] IN
        /\ queue' = [t \in Sock |-> after[t].queue]
        /\ poll' = [t \in Sock |-> after[t].poll]
        /\ watched' = [t \in Sock |-> after[t].watched]
        /\ out' = [t \in Sock |-> after[t].out]
        /\ taken' = [t \in Sock |-> after[t].taken]
        /\ wire' = [t \in Sock |-> after[t].wire]
        /\ refs' = [refs EXCEPT ![n] = Cardinality({t \in D : after[t].state = "queued"})]
<1>1. Listed = to
  BY ListedIsOpen DEF Inv
<1>2. Reach(Listed)
  BY Zenon DEF Broadcast
<1>3. Reach(to)
  <2> HIDE DEF Reach, to
  <2> QED
    BY <1>1, <1>2
<1>4. PICK taking \in {f \in [to -> 0..Failed] : \A t \in to : f[t] \in Sent(out[t])} :
        LET after == [t \in Sock |-> IF t \in to THEN write(Link(t), Prepared(n), taking[t])
                                                 ELSE Link(t)] IN
        /\ queue' = [t \in Sock |-> after[t].queue]
        /\ poll' = [t \in Sock |-> after[t].poll]
        /\ watched' = [t \in Sock |-> after[t].watched]
        /\ out' = [t \in Sock |-> after[t].out]
        /\ taken' = [t \in Sock |-> after[t].taken]
        /\ wire' = [t \in Sock |-> after[t].wire]
  <2> HIDE DEF to, n
  <2> QED
    BY <1>3, Zenon
<1> HIDE DEF n, to
<1> DEFINE after == [t \in Sock |-> IF t \in to THEN write(Link(t), Prepared(n), taking[t])
                                                ELSE Link(t)]
<1>5. after[s] = IF s \in to THEN write(Link(s), Prepared(n), taking[s]) ELSE Link(s)
  OBVIOUS
<1>6. /\ queue' = [t \in Sock |-> after[t].queue]
      /\ poll' = [t \in Sock |-> after[t].poll]
      /\ watched' = [t \in Sock |-> after[t].watched]
      /\ out' = [t \in Sock |-> after[t].out]
      /\ taken' = [t \in Sock |-> after[t].taken]
      /\ wire' = [t \in Sock |-> after[t].wire]
  BY <1>4, Zenon
<1> HIDE DEF after
<1>7. SideIs(s, after[s])
  BY <1>6 DEF SideIs
<1>8. CASE phase[s] = "open"
  <2>1. PICK l, w, k : l = Link(s) /\ w = after[s] /\ k = taking[s]
    OBVIOUS
  <2>2. w = write(l, Prepared(n), k) /\ taking[s] \in Sent(out[s])
    BY <1>4, <1>5, <1>8, <2>1 DEF to
  <2>3. IsLink(l) /\ l.out \in {"up", "shut", "failed"} /\ k \in Sent(l.out)
    BY <2>1, <2>2, LinkIs DEF Inv, LinksAreGood, Sided, LinkFits, Fits
  <2>4. Passes(l, Prepared(n), w)
    BY <2>2, <2>3, WritePasses
  <2>5. QED
    BY <1>7, <1>8, <2>1, <2>4 DEF Passed, n
<1>9. CASE phase[s] # "open"
  <2>1. after[s] = Link(s)
    BY <1>5, <1>9 DEF to
  <2>2. QED
    BY <1>7, <1>9, <2>1 DEF SideKept
<1>10. QED
  BY <1>8, <1>9

LEMMA BroadcastHears ==
  ASSUME Inv, Broadcast
  PROVE  Deaf
<1>1. UNCHANGED <<mode, phase, session, input>>
  BY DEF Broadcast
<1>2. \A t \in Sock : Unheard(t)
  BY <1>1, UnchangedUnheard
<1>3. ASSUME NEW t \in Sock
      PROVE  StillAnswers(t)
  <2>1. CASE phase[t] = "open"
    <3>1. Passed(t, Prepared(sends + 1)) /\ Sided(t)
      BY <2>1, BroadcastSides DEF Inv, LinksAreGood
    <3>2. QED
      BY <2>1, <3>1, NotPong, PassedStill
  <2>2. CASE phase[t] # "open"
    BY <2>2, BroadcastSides DEF StillAnswers
  <2>3. QED
    BY <2>1, <2>2
<1>4. QED
  BY <1>1, <1>2, <1>3 DEF Deaf, input

-----------------------------------------------------------------------------
(* The life of a socket. *)

LEMMA SideStays ==
  ASSUME UNCHANGED output, NEW t \in Sock
  PROVE  SideKept(t)
BY DEF SideKept, SideIs, Link, output

LEMMA ReturnHears ==
  ASSUME Inv, InputShape, HearsWell, Return
  PROVE  HearsWell'
<1>1. PICK s : s = mode.sock
  OBVIOUS
<1>2. s \in Sock /\ mode \in Modes /\ mode.is \in {"greeting", "handling"}
  BY <1>1, ModeFacts DEF Return, Inv, Shape
<1>3. /\ UNCHANGED <<phase, session, heard, script, at, parser, output>>
      /\ SetTo(src', src, s, IF phase[s] = "open" THEN src[s] ELSE <<>>)
      /\ mode' = IF mode.is = "handling" /\ phase[s] = "open" /\ src[s] # <<>>
                 THEN Doing("reading", s) ELSE Idle
  BY <1>1 DEF Return, SetTo
<1>4. /\ src'[s] = IF phase[s] = "open" THEN src[s] ELSE <<>>
      /\ \A t \in Sock : t # s => src'[t] = src[t]
  BY <1>2, <1>3, MapSet DEF InputShape
<1>5. ASSUME NEW t \in Sock
      PROVE  SideKept(t)
  BY <1>3, SideStays
<1>6. Only(s)
  <2>1. ASSUME NEW t \in Sock, t # s
        PROVE  ~AtWork(t) /\ ~BeingRead(t) /\ ~AtWork(t)' /\ ~BeingRead(t)'
    BY <1>1, <1>3, <2>1, ModeFacts DEF AtWork, BeingRead
  <2>2. QED
    BY <1>3, <1>4, <1>5, <2>1 DEF Only, Unheard
<1>7. ASSUME Plain(s), Hears(s)
      PROVE  Hears(s)'
  <2>1. taken'[s] = taken[s] /\ \A P : (Answered(s, P) => Answered(s, P)') /\ (Within(s, P) => Within(s, P)')
    BY <1>2, <1>5, KeptAnswers
  <2>2. CASE phase[s] = "open"
    <3>1. PICK i, c : FollowsTo(s, i, c) /\ Answered(s, Reader(script[s])[i].pinged)
      BY <1>7, <2>2 DEF Hears, OpenHears
    <3>2. PICK f, n, q, p, h : f = script[s] /\ n = at[s] /\ q = src[s] /\ p = parser[s] /\ h = heard[s]
      OBVIOUS
    <3>3. f = script'[s] /\ n = at'[s] /\ q = src'[s] /\ p = parser'[s] /\ h = heard'[s]
      BY <1>3, <1>4, <2>2, <3>2
    <3>4. ~BeingRead(s)
      BY <1>2 DEF BeingRead
    <3>5. PICK reading, working : reading = BeingRead(s)' /\ working = AtWork(s)'
      OBVIOUS
    <3>6. i \in 0..Len(f) /\ c \in 0..Len(Bytes(f)) /\ Stands(p, f, i, c) /\ h = Reader(f)[i].said
          /\ Left(f, i, c, n, q, p, BeingRead(s), AtWork(s))
      BY <3>1, <3>2, Zenon DEF FollowsTo, Follows
    <3>7. Left(f, i, c, n, q, p, reading, working)
      <4>1. CASE mode.is = "greeting"
        <5>1. ~AtWork(s) /\ mode' = Idle
          BY <1>3, <4>1 DEF AtWork
        <5>2. ~working
          BY <3>5, <5>1, ModeFacts DEF AtWork
        <5>3. QED
          BY <3>6, <5>1, <5>2 DEF Left
      <4>2. CASE mode.is = "handling" /\ q # <<>>
        <5>1. AtWork(s)
          BY <1>1, <4>2 DEF AtWork
        <5>2. mode' = Doing("reading", s)
          BY <1>3, <2>2, <3>2, <4>2
        <5>3. working /\ reading
          BY <3>5, <5>2, ModeFacts DEF AtWork, BeingRead
        <5>4. QED
          BY <3>6, <4>2, <5>1, <5>3 DEF Left
      <4>3. CASE mode.is = "handling" /\ q = <<>>
        <5>1. AtWork(s)
          BY <1>1, <4>3 DEF AtWork
        <5>2. mode' = Idle
          BY <1>3, <3>2, <4>3
        <5>3. ~working
          BY <3>5, <5>2, ModeFacts DEF AtWork
        <5>4. ToRead(q, f, c, n) /\ p.spill = <<>>
          BY <3>4, <3>6, <5>1 DEF Left
        <5>5. NotRead(p, f, i, c, n)
          <6>1. Cut(p.spill, Bytes(f), c, n - c)
            BY <4>3, <5>4, Zenon DEF ToRead
          <6>2. QED
            BY <5>4, <6>1 DEF NotRead
        <5>6. QED
          BY <4>3, <5>3, <5>5 DEF Left
      <4>4. QED
        BY <1>2, <4>1, <4>2, <4>3
    <3>8. FollowsTo(s, i, c)'
      <4>1. Follows(f, i, c, n, q, p, h, reading, working)
        BY <3>6, <3>7 DEF Follows
      <4>2. QED
        BY <3>3, <3>5, <4>1, Zenon DEF FollowsTo
    <3>9. Answered(s, Reader(script[s])[i].pinged)'
      <4>1. PICK P : P = Reader(script[s])[i].pinged
        OBVIOUS
      <4>2. Answered(s, P)'
        BY <2>1, <3>1, <4>1
      <4>3. P = Reader(script'[s])[i].pinged
        BY <1>3, <4>1
      <4>4. QED
        BY <4>2, <4>3, Zenon DEF Answered
    <3>10. OpenHears(s)'
      BY <3>8, <3>9 DEF OpenHears
    <3>11. QED
      BY <1>3, <1>7, <2>2, <3>10 DEF Hears
  <2>3. CASE phase[s] = "closing"
    <3>1. ClosingHears(s)'
      <4>1. PICK i : Stopped(script[s], i, at[s], heard[s]) /\ Within(s, Reader(script[s])[i].pinged)
        BY <1>7, <2>3 DEF Hears, ClosingHears
      <4>2. PICK P : P = Reader(script[s])[i].pinged
        OBVIOUS
      <4>3. Within(s, P)'
        BY <2>1, <4>1, <4>2
      <4>4. P = Reader(script'[s])[i].pinged
        BY <1>3, <4>2
      <4>5. Within(s, Reader(script[s])[i].pinged)'
        BY <4>3, <4>4, Zenon DEF Within
      <4>6. Stopped(script[s], i, at[s], heard[s])'
        BY <1>3, <4>1
      <4>7. QED
        BY <4>5, <4>6 DEF ClosingHears
    <3>2. QED
      BY <1>3, <1>7, <2>3, <3>1 DEF Hears
  <2>4. CASE phase[s] \notin {"open", "closing"}
    <3>1. Fresh(s) => Fresh(s)'
      BY <1>3, <1>4, <2>1, <2>4 DEF Fresh, Blank
    <3>2. Blank(s) => Blank(s)'
      BY <1>3, <2>1 DEF Blank
    <3>3. QED
      BY <1>3, <1>7, <2>4, <3>1, <3>2 DEF Hears
  <2>5. QED
    BY <2>2, <2>3, <2>4
<1>8. QED
  BY <1>2, <1>6, <1>7, OnlyHears

LEMMA AcceptHears ==
  ASSUME Inv, InputShape, HearsWell, NEW s \in Sock, Accept(s)
  PROVE  HearsWell'
<1>1. /\ mode = Idle /\ phase[s] = "none" /\ SetTo(phase', phase, s, "http")
      /\ UNCHANGED <<mode, session, input, output>>
  BY DEF Accept, SetTo
<1>2. phase'[s] = "http" /\ \A t \in Sock : t # s => phase'[t] = phase[t]
  <2>1. IsMap(phase)
    BY DEF Inv, Shape, IsMap
  <2>2. QED
    BY <1>1, <2>1, MapSet
<1>3. ASSUME NEW t \in Sock
      PROVE  SideKept(t)
  BY <1>1, SideStays
<1>4. Only(s)
  BY <1>1, <1>2, <1>3 DEF Only, Unheard, AtWork, BeingRead, input
<1>5. ASSUME Hears(s)
      PROVE  Hears(s)'
  <2>1. Fresh(s) /\ session[s] # "refused"
    BY <1>1, <1>5 DEF Hears
  <2>2. taken'[s] = taken[s]
    BY <1>3, KeptAnswers
  <2>3. QED
    BY <1>1, <1>2, <2>1, <2>2 DEF Hears, Fresh, Blank, input
<1>6. QED
  BY <1>4, <1>5, OnlyHears

-----------------------------------------------------------------------------
(* A socket that ends or closes. *)

\* The loop does nothing for another socket than s, before and after the step.
Alone(s) ==
  \A t \in Sock : t # s => ~AtWork(t) /\ ~BeingRead(t) /\ ~AtWork(t)' /\ ~BeingRead(t)'

LEMMA AloneWith ==
  ASSUME NEW s \in Sock, mode = Idle \/ mode.sock = s, mode' = Idle \/ mode'.sock = s
  PROVE  Alone(s)
BY ModeFacts DEF Alone, AtWork, BeingRead

\* A socket that ends is forgotten.
LEMMA EndsHears ==
  ASSUME Inv, InputShape, HearsWell, NEW s \in Sock, phase[s] \in {"http", "open", "closing"},
         NEW r \in {"off", "refused"}, Ends(s, r),
         r = "refused" => phase[s] = "open" /\ (Plain(s) => ~Legal(script[s])),
         UNCHANGED mode \/ Alone(s)
  PROVE  HearsWell'
<1>1. /\ SetTo(phase', phase, s, "gone")
      /\ session' = session \/ SetTo(session', session, s, r)
      /\ phase[s] # "open" => session' = session
      /\ SetTo(at', at, s, 0) /\ SetTo(heard', heard, s, <<>>) /\ SetTo(src', src, s, <<>>)
      /\ SetTo(parser', parser, s, NewParser) /\ script' = script
  BY DEF Ends, Forgets, SetTo
<1>2. IsMap(phase) /\ IsMap(session) /\ IsMap(at) /\ IsMap(heard) /\ IsMap(src) /\ IsMap(parser) /\ Sides
  BY DEF Inv, Shape, IsMap, InputShape
<1>3. /\ phase'[s] = "gone" /\ at'[s] = 0 /\ heard'[s] = <<>>
      /\ \A t \in Sock : t # s => /\ phase'[t] = phase[t] /\ at'[t] = at[t] /\ heard'[t] = heard[t]
                                  /\ src'[t] = src[t] /\ parser'[t] = parser[t]
  BY <1>1, <1>2, MapSet
<1>4. /\ session'[s] = session[s] \/ (phase[s] = "open" /\ session'[s] = r)
      /\ \A t \in Sock : t # s => session'[t] = session[t]
  BY <1>1, <1>2, MapSet
<1>5. SetLink(s, EndedLink)
  BY DEF Ends, Forgets, EndedLink
<1>6. SideIs(s, EndedLink) /\ \A t \in Sock : t # s => SideKept(t)
  BY <1>2, <1>5, SetLinkFacts
<1>7. taken'[s] = <<>>
  BY <1>6, EndedFacts DEF SideIs
<1>8. Only(s)
  <2>1. ASSUME NEW t \in Sock, t # s
        PROVE  (AtWork(t)' <=> AtWork(t)) /\ (BeingRead(t)' <=> BeingRead(t))
    BY <2>1 DEF Alone, AtWork, BeingRead
  <2>2. QED
    BY <1>1, <1>3, <1>4, <1>6, <2>1 DEF Only, Unheard
<1>9. ASSUME Plain(s), Hears(s)
      PROVE  Hears(s)'
  <2>1. session[s] # "refused"
    BY <1>9 DEF Hears
  <2>2. session'[s] = "refused" => ~Legal(script[s])
    BY <1>4, <1>9, <2>1
  <2>3. QED
    BY <1>1, <1>3, <1>7, <2>2 DEF Hears, Blank
<1>10. QED
  BY <1>8, <1>9, OnlyHears

\* A socket that is closed has heard the frames it has heard.
LEMMA ClosesHears ==
  ASSUME Inv, InputShape, HearsWell, NEW s \in Sock, phase[s] = "open",
         NEW k \in Sent(out[s]), Closes(s, k), UNCHANGED <<script, at, heard>>,
         \A t \in Sock : t # s => src'[t] = src[t] /\ parser'[t] = parser[t],
         UNCHANGED mode \/ Alone(s),
         Plain(s) /\ Hears(s) =>
           \E i : Stopped(script[s], i, at[s], heard[s]) /\ Within(s, Reader(script[s])[i].pinged)
  PROVE  HearsWell'
<1>1. SetTo(phase', phase, s, "closing") /\ SetTo(session', session, s, "off")
  BY DEF Closes, SetTo
<1>2. IsMap(phase) /\ IsMap(session) /\ Sides /\ Sided(s)
  BY DEF Inv, Shape, IsMap, LinksAreGood
<1>3. /\ phase'[s] = "closing" /\ session'[s] = "off"
      /\ \A t \in Sock : t # s => phase'[t] = phase[t] /\ session'[t] = session[t]
  BY <1>1, <1>2, MapSet
<1>4. Passed(s, CloseFrame) /\ Others(s)
  BY <1>2, ClosePassed DEF Closes
<1>5. Only(s)
  <2>1. ASSUME NEW t \in Sock, t # s
        PROVE  (AtWork(t)' <=> AtWork(t)) /\ (BeingRead(t)' <=> BeingRead(t))
    BY <2>1 DEF Alone, AtWork, BeingRead
  <2>2. QED
    BY <1>3, <1>4, <2>1 DEF Only, Unheard, Others
<1>6. ASSUME Plain(s), Hears(s)
      PROVE  Hears(s)'
  <2>1. PICK i : Stopped(script[s], i, at[s], heard[s]) /\ Within(s, Reader(script[s])[i].pinged)
    BY <1>6
  <2>2. PICK P : P = Reader(script[s])[i].pinged
    OBVIOUS
  <2>3. IsSeq(P)
    BY <1>6, <2>1, <2>2, PingedIsSeq DEF Stopped
  <2>4. Within(s, P)'
    BY <1>2, <1>4, <2>1, <2>2, <2>3, NotPong, PassedAnswers
  <2>5. Within(s, Reader(script[s])[i].pinged)'
    <3>1. P = Reader(script'[s])[i].pinged
      BY <2>2
    <3>2. QED
      BY <2>4, <3>1, Zenon DEF Within
  <2>6. Stopped(script[s], i, at[s], heard[s])'
    BY <2>1
  <2>7. ClosingHears(s)'
    BY <2>5, <2>6 DEF ClosingHears
  <2>8. QED
    BY <1>3, <2>7 DEF Hears
<1>7. QED
  BY <1>5, <1>6, OnlyHears

\* Where the parser stands, the frames before are received.
LEMMA StandsBehind ==
  ASSUME NEW f \in Seq(Frame), NEW i \in 0..Len(f), NEW c, NEW p, Stands(p, f, i, c)
  PROVE  End(f, i) \in Nat /\ c \in Nat /\ End(f, i) <= c
<1>1. End(f, i) \in Nat
  BY EndFacts
<1>2. CASE c = End(f, i)
  BY <1>1, <1>2
<1>3. CASE i < Len(f) /\ \E a \in 0..(f[i + 1].len - 1) :
                            c = End(f, i) + f[i + 1].head + a /\ InFrame(p, f, i, a)
  <2>1. PICK e, h : e = End(f, i) /\ h = f[i + 1].head
    OBVIOUS
  <2>2. h \in Nat /\ e \in Nat
    <3>1. i + 1 \in 1..Len(f)
      BY <1>3
    <3>2. QED
      BY <1>1, <2>1, <3>1, FrameFacts
  <2>3. PICK a \in 0..(f[i + 1].len - 1) : c = e + h + a
    BY <1>3, <2>1
  <2>4. a \in Nat
    OBVIOUS
  <2>5. QED
    BY <2>1, <2>2, <2>3, <2>4
<1>4. QED
  BY <1>2, <1>3 DEF Stands

LEMMA CutBound ==
  ASSUME NEW q, NEW B, NEW c \in Nat, NEW n \in Nat, Cut(q, B, c, n - c)
  PROVE  c <= n /\ n - c \in Nat
<1>1. PICK m : m = n - c
  OBVIOUS
<1>2. q \in Seq(Byte) /\ Len(q) = m
  BY <1>1 DEF Cut
<1>3. m \in Nat
  BY <1>2
<1>4. QED
  BY <1>1, <1>3

LEMMA LeftBound ==
  ASSUME NEW f, NEW i, NEW c \in Nat, NEW n \in Nat, NEW q, NEW p, NEW reading, NEW working,
         Left(f, i, c, n, q, p, reading, working)
  PROVE  c <= n
<1>1. \E x : Cut(x, Bytes(f), c, n - c)
  BY DEF Left, ToRead, NotRead
<1>2. QED
  BY <1>1, CutBound

LEMMA OpenIsStopped ==
  ASSUME InputShape, NEW s \in Sock, Plain(s), NEW i, NEW c, FollowsTo(s, i, c)
  PROVE  Stopped(script[s], i, at[s], heard[s])
<1>1. PICK f, n, q, p, h, reading, working :
        /\ f = script[s] /\ n = at[s] /\ q = src[s] /\ p = parser[s] /\ h = heard[s]
        /\ reading = BeingRead(s) /\ working = AtWork(s)
  OBVIOUS
<1>2. Follows(f, i, c, n, q, p, h, reading, working)
  BY <1>1, Zenon DEF FollowsTo
<1>3. f \in Seq(Frame) /\ n \in Nat
  BY <1>1, ScriptFacts
<1>4. /\ i \in 0..Len(f) /\ Stands(p, f, i, c) /\ Left(f, i, c, n, q, p, reading, working)
      /\ h = Reader(f)[i].said
  BY <1>2 DEF Follows
<1>5. End(f, i) \in Nat /\ c \in Nat /\ End(f, i) <= c
  BY <1>3, <1>4, StandsBehind
<1>6. c <= n
  BY <1>3, <1>4, <1>5, LeftBound
<1>7. End(f, i) <= n
  BY <1>3, <1>5, <1>6
<1>8. QED
  BY <1>1, <1>4, <1>7 DEF Stopped

LEMMA AnsweredWithin ==
  ASSUME NEW s, NEW P, IsSeq(P), Answered(s, P)
  PROVE  Within(s, P)
BY PrefixSelf DEF Answered, Answers, Within, Begins

LEMMA CloseHears ==
  ASSUME Inv, InputShape, HearsWell, NEW s \in Sock, Close(s)
  PROVE  HearsWell'
<1>1. PICK k \in Sent(out[s]) : Closes(s, k)
  BY DEF Close
<1>2. phase[s] = "open" /\ UNCHANGED <<mode, script, at, src, parser, heard>>
  BY DEF Close, input
<1>3. ASSUME Plain(s), Hears(s)
      PROVE  \E i : Stopped(script[s], i, at[s], heard[s]) /\ Within(s, Reader(script[s])[i].pinged)
  <2>1. PICK i, c : FollowsTo(s, i, c) /\ Answered(s, Reader(script[s])[i].pinged)
    BY <1>2, <1>3 DEF Hears, OpenHears
  <2>2. Stopped(script[s], i, at[s], heard[s])
    BY <1>3, <2>1, OpenIsStopped
  <2>3. IsSeq(Reader(script[s])[i].pinged)
    BY <1>3, <2>2, PingedIsSeq DEF Stopped
  <2>4. QED
    BY <2>1, <2>2, <2>3, AnsweredWithin
<1>4. QED
  BY <1>1, <1>2, <1>3, ClosesHears

-----------------------------------------------------------------------------
LEMMA NewParserFacts ==
  NewParser \in Parsers /\ NewParser.state = "READ_HEAD" /\ NewParser.spill = <<>>
  /\ NewParser.opStack = -1 /\ NewParser.lastFin = TRUE /\ NewParser.fragmentBuffer = <<>>
  /\ NewParser.controlBuffer = <<>>
<1>1. PICK st, sp, n, mask, k, code, fin :
        /\ st = "READ_HEAD" /\ sp = <<>> /\ n = 0 /\ mask = [j \in 0..3 |-> j] /\ k = -1
        /\ code = [j \in 0..1 |-> "text"] /\ fin = TRUE
  OBVIOUS
<1>2. ParserFits(st, sp, n, mask, k, code, fin, sp, sp)
  <2>1. sp \in Seq(Byte)
    BY <1>1
  <2>2. mask \in [0..3 -> 0..3] /\ code \in [0..1 -> Op] /\ k \in -1..1
    BY <1>1 DEF Op, DataOp
  <2>3. st \in {"READ_HEAD", "READ_MESSAGE"} /\ fin \in BOOLEAN /\ n \in Int
    BY <1>1
  <2>4. QED
    BY <2>1, <2>2, <2>3 DEF ParserFits
<1>3. NewParser = ParserOf(st, sp, n, mask, k, code, fin, sp, sp)
  BY <1>1 DEF NewParser, ParserOf
<1>4. Has(NewParser, st, sp, n, mask, k, code, fin, sp, sp)
  BY <1>2, <1>3, ParserIn
<1>5. QED
  BY <1>1, <1>4, Zenon DEF Has

LEMMA BeginsBetween ==
  ASSUME NEW f \in Seq(Frame)
  PROVE  /\ Between(NewParser, f, 0) /\ End(f, 0) = 0
         /\ Reader(f)[0].said = <<>> /\ Reader(f)[0].pinged = <<>>
<1>1. Reader(f)[0] = NewReader
  BY ReaderFacts
<1>2. PICK e, no : e = <<>> /\ no = FALSE
  OBVIOUS
<1>3. NewReader = [within |-> no, op |-> "text", data |-> e, said |-> e, pinged |-> e]
  BY <1>2 DEF NewReader
<1>4. PICK r : r = Reader(f)[0]
  OBVIOUS
<1>5. ~r.within /\ r.data = e /\ r.said = e /\ r.pinged = e
  BY <1>1, <1>2, <1>3, <1>4
<1>6. Between(NewParser, f, 0)
  <2>1. PICK p : p = NewParser
    OBVIOUS
  <2>2. /\ p \in Parsers /\ p.state = "READ_HEAD" /\ p.opStack = -1 /\ p.lastFin
        /\ p.fragmentBuffer = e /\ p.controlBuffer = e
    BY <1>2, <2>1, NewParserFacts
  <2>3. Settled(r, p.opStack, p.opCode, p.lastFin, p.fragmentBuffer, p.controlBuffer)
    BY <1>2, <1>5, <2>2 DEF Settled, Depth
  <2>4. QED
    BY <1>4, <2>1, <2>2, <2>3 DEF Between
<1>7. QED
  BY <1>2, <1>4, <1>5, <1>6, EndFacts

-----------------------------------------------------------------------------
(* A socket that is upgraded, and read from. *)

LEMMA UpgradedHears ==
  ASSUME Inv, InputShape, HearsWell, NEW s \in Sock, Upgraded(s)
  PROVE  HearsWell'
<1>1. /\ mode = Idle /\ mode' = Doing("greeting", s) /\ phase[s] = "http"
      /\ SetTo(phase', phase, s, "open") /\ SetTo(session', session, s, "on")
      /\ UNCHANGED input
  BY DEF Upgraded, SetTo
<1>2. IsMap(phase) /\ IsMap(session) /\ Sides /\ Sided(s)
  BY DEF Inv, Shape, IsMap, LinksAreGood
<1>3. /\ phase'[s] = "open" /\ session'[s] = "on"
      /\ \A t \in Sock : t # s => phase'[t] = phase[t] /\ session'[t] = session[t]
  BY <1>1, <1>2, MapSet
<1>4. PICK k \in Sent(out[s]) : SetLink(s, Entered(write(Link(s), Upgrade, k)))
  BY DEF Upgraded
<1>5. PICK l, v, w : l = Link(s) /\ v = write(l, Upgrade, k) /\ w = Entered(v)
  OBVIOUS
<1>6. IsLink(l) /\ LinkFits(l) /\ CloseIsLast(l) /\ l.out \in {"up", "shut", "failed"} /\ k \in Sent(l.out)
  BY <1>2, <1>5, LinkIs DEF Sided, LinkFits, Fits
<1>7. Passes(l, Upgrade, v) /\ IsLink(v)
  BY <1>5, <1>6, WritePasses, WriteFacts
<1>8. Passes(l, Upgrade, w)
  BY <1>5, <1>7, EnteredPasses
<1>9. SideIs(s, w) /\ Others(s)
  BY <1>2, <1>4, <1>5, SetLinkFacts DEF Others
<1>10. Passed(s, Upgrade)
  BY <1>5, <1>8, <1>9 DEF Passed
<1>11. Alone(s)
  BY <1>1, AloneWith, ModeFacts
<1>12. Only(s)
  BY <1>1, <1>3, <1>9, <1>11 DEF Only, Unheard, Others, Alone, input
<1>13. ASSUME Plain(s), Hears(s)
      PROVE  Hears(s)'
  <2>1. Fresh(s)
    BY <1>1, <1>13 DEF Hears
  <2>2. PICK f, e, z, p, no : f = script[s] /\ e = <<>> /\ z = 0 /\ p = NewParser /\ no = FALSE
    OBVIOUS
  <2>3. /\ f = script'[s] /\ z = at'[s] /\ e = src'[s] /\ p = parser'[s] /\ e = heard'[s]
        /\ taken[s] = e
    BY <1>1, <2>1, <2>2 DEF Fresh, Blank, input
  <2>4. f \in Seq(Frame)
    BY <1>13, <2>2, ScriptFacts
  <2>5. /\ Between(p, f, z) /\ End(f, z) = z /\ e = Reader(f)[z].said /\ e = Reader(f)[z].pinged
        /\ p.spill = e
    BY <2>2, <2>4, BeginsBetween, NewParserFacts
  <2>6. z \in 0..Len(f) /\ Len(Bytes(f)) \in Nat /\ z \in 0..Len(Bytes(f)) /\ z - z = z /\ z \in Nat
    <3>1. Len(f) \in Nat /\ Len(f) \in 0..Len(f)
      BY <2>4
    <3>2. End(f, Len(f)) \in Nat
      BY <2>4, <3>1, EndFacts
    <3>3. Len(Bytes(f)) \in Nat
      BY <3>2 DEF End, Bytes
    <3>4. QED
      BY <2>2, <3>1, <3>3
  <2>7. NotRead(p, f, z, z, z)
    <3>1. Cut(e, Bytes(f), z, z)
      BY <2>2, <2>6, CutNone
    <3>2. Cut(p.spill, Bytes(f), z, z - z)
      BY <2>5, <2>6, <3>1, Zenon
    <3>3. QED
      BY <2>2, <2>5, <3>2 DEF NotRead
  <2>8. ~no /\ no = BeingRead(s)' /\ no = AtWork(s)'
    <3>1. mode'.is = "greeting"
      BY <1>1, ModeFacts
    <3>2. BeingRead(s)' = FALSE /\ AtWork(s)' = FALSE
      BY <3>1 DEF BeingRead, AtWork
    <3>3. QED
      BY <2>2, <3>2, Zenon
  <2>9. Stands(p, f, z, z)
    BY <2>5 DEF Stands
  <2>10. Left(f, z, z, z, e, p, no, no)
    BY <2>2, <2>7, <2>8 DEF Left
  <2>11. Follows(f, z, z, z, e, p, e, no, no)
    BY <2>5, <2>6, <2>9, <2>10 DEF Follows
  <2>12. FollowsTo(s, z, z)'
    BY <2>3, <2>8, <2>11, Zenon DEF FollowsTo
  <2>13. Answered(s, e)'
    <3>1. Answered(s, e) /\ IsSeq(e)
      BY <2>2, <2>3, PongsEmpty, EmptyIsSeq DEF Answered, Answers
    <3>2. Answered(s, PongsAfter(e, Upgrade))'
      BY <1>2, <1>10, <3>1, PassedAnswers
    <3>3. PongsAfter(e, Upgrade) = e
      BY NotPong DEF PongsAfter
    <3>4. QED
      BY <3>2, <3>3, Zenon DEF Answered
  <2>14. Answered(s, Reader(script[s])[z].pinged)'
    <3>1. e = Reader(script'[s])[z].pinged
      BY <2>3, <2>5
    <3>2. QED
      BY <2>13, <3>1, Zenon DEF Answered
  <2>15. OpenHears(s)'
    BY <2>12, <2>14 DEF OpenHears
  <2>16. QED
    BY <1>3, <2>15 DEF Hears
<1>14. QED
  BY <1>12, <1>13, OnlyHears

\* More of the stream behind what is left of it.
LEMMA CutMore ==
  ASSUME NEW B \in Seq(Byte), NEW c \in Nat, NEW n \in Nat, NEW m \in Nat \ {0},
         n + m <= Len(B), NEW q, Cut(q, B, c, n - c),
         NEW x, x = q \o SubSeq(B, n + 1, n + m)
  PROVE  Cut(x, B, c, (n + m) - c) /\ x # <<>>
<1>1. PICK d : d = n - c /\ d \in Nat
  BY CutBound
<1>2. c + d = n /\ d + m = (n + m) - c
  BY <1>1
<1>3. Cut(SubSeq(B, n + 1, n + m), B, n, m)
  BY CutNew
<1>4. PICK r : r = SubSeq(B, n + 1, n + m)
  OBVIOUS
<1>5. Cut(q, B, c, d)
  BY <1>1
<1>6. Cut(r, B, c + d, m)
  BY <1>2, <1>3, <1>4
<1>7. Cut(x, B, c, d + m)
  BY <1>4, <1>5, <1>6, CutJoin
<1>8. x \in Seq(Byte) /\ Len(x) = d + m
  BY <1>7 DEF Cut
<1>9. Cut(x, B, c, (n + m) - c)
  BY <1>2, <1>7
<1>10. x # <<>>
  <2>1. d + m # 0
    BY <1>1
  <2>2. QED
    BY <1>8, <2>1
<1>11. QED
  BY <1>9, <1>10

LEMMA ReadableHears ==
  ASSUME Inv, InputShape, HearsWell, NEW s \in Sock, Readable(s)
  PROVE  HearsWell'
<1>1. PICK m \in 1..(Len(Bytes(script[s])) - at[s]) :
        /\ at' = [at EXCEPT ![s] = @ + m]
        /\ IF phase[s] = "open"
           THEN /\ src' = [src EXCEPT ![s] =
                             parser[s].spill \o SubSeq(Bytes(script[s]), at[s] + 1, at[s] + m)]
                /\ mode' = Doing("reading", s)
           ELSE UNCHANGED <<src, mode>>
  BY DEF Readable
<1>2. /\ mode = Idle /\ phase[s] \in {"open", "closing"}
      /\ UNCHANGED <<phase, script, parser, heard, session, output>>
  BY DEF Readable
<1>3. SetTo(at', at, s, at[s] + m)
  BY <1>1 DEF SetTo
<1>4. at'[s] = at[s] + m /\ \A t \in Sock : t # s => at'[t] = at[t]
  BY <1>3, MapSet DEF InputShape
<1>5. \A t \in Sock : t # s => src'[t] = src[t]
  <2>1. src' = src \/ \E v : SetTo(src', src, s, v)
    BY <1>1 DEF SetTo
  <2>2. QED
    BY <2>1, MapSet DEF InputShape
<1>6. ASSUME NEW t \in Sock
      PROVE  SideKept(t)
  BY <1>2, SideStays
<1>7. Alone(s)
  BY <1>1, <1>2, AloneWith, ModeFacts
<1>8. Only(s)
  BY <1>2, <1>4, <1>5, <1>6, <1>7 DEF Only, Unheard, Alone
<1>9. taken'[s] = taken[s] /\ \A P : (Answered(s, P) => Answered(s, P)') /\ (Within(s, P) => Within(s, P)')
  BY <1>6, KeptAnswers
<1>10. ASSUME Plain(s), Hears(s), phase[s] = "open"
       PROVE  Hears(s)'
  <2>1. PICK i, c : FollowsTo(s, i, c) /\ Answered(s, Reader(script[s])[i].pinged)
    BY <1>10 DEF Hears, OpenHears
  <2>2. PICK f, n, p, h, x, o, B :
          /\ f = script[s] /\ n = at[s] /\ p = parser[s] /\ h = heard[s]
          /\ x = src'[s] /\ o = n + m /\ B = Bytes(f)
    OBVIOUS
  <2>3. f = script'[s] /\ o = at'[s] /\ p = parser'[s] /\ h = heard'[s]
    BY <1>2, <1>4, <2>2
  <2>4. f \in Seq(Frame) /\ n \in Nat
    BY <1>10, <2>2, ScriptFacts
  <2>5. B \in Seq(Byte)
    <3>1. Len(f) \in 0..Len(f)
      BY <2>4
    <3>2. QED
      BY <2>2, <2>4, <3>1, StreamFacts DEF Bytes
  <2>6. ~BeingRead(s) /\ ~AtWork(s)
    BY <1>2, ModeFacts DEF BeingRead, AtWork
  <2>7. /\ i \in 0..Len(f) /\ c \in 0..Len(B) /\ Stands(p, f, i, c) /\ h = Reader(f)[i].said
        /\ Left(f, i, c, n, src[s], p, BeingRead(s), AtWork(s))
    BY <2>1, <2>2, Zenon DEF FollowsTo, Follows
  <2>8. NotRead(p, f, i, c, n)
    BY <2>6, <2>7 DEF Left
  <2>9. Cut(p.spill, B, c, n - c)
    BY <2>2, <2>8 DEF NotRead
  <2>10. x = p.spill \o SubSeq(B, n + 1, n + m)
    <3>1. PICK v : v = p.spill \o SubSeq(B, n + 1, n + m)
      OBVIOUS
    <3>2. SetTo(src', src, s, v)
      BY <1>1, <1>10, <2>2, <3>1 DEF SetTo
    <3>3. IsMap(src)
      BY DEF InputShape
    <3>4. src'[s] = v
      BY <3>2, <3>3, MapSet
    <3>5. QED
      BY <2>2, <3>1, <3>4, Zenon
  <2>11. m \in Nat \ {0} /\ n + m <= Len(B)
    <3>1. PICK L : L = Len(B) /\ L \in Nat
      BY <2>5
    <3>2. m \in 1..(L - n)
      BY <1>1, <2>2, <3>1
    <3>3. QED
      BY <2>4, <3>1, <3>2
  <2>12. Cut(x, B, c, o - c) /\ x # <<>>
    <3>1. c \in Nat
      BY <2>5, <2>7
    <3>2. QED
      <4>1. Cut(x, B, c, (n + m) - c) /\ x # <<>>
        BY <2>4, <2>5, <2>9, <2>10, <2>11, <3>1, CutMore, Zenon
      <4>2. QED
        BY <2>2, <4>1, Zenon
  <2>13. PICK yes : yes = TRUE
    OBVIOUS
  <2>14. yes = BeingRead(s)' /\ yes = AtWork(s)'
    <3>1. mode'.is = "reading" /\ mode'.sock = s
      BY <1>1, <1>10, ModeFacts
    <3>2. BeingRead(s)' = TRUE /\ AtWork(s)' = TRUE
      BY <3>1 DEF BeingRead, AtWork
    <3>3. QED
      BY <2>13, <3>2, Zenon
  <2>15. Left(f, i, c, o, x, p, yes, yes)
    BY <2>2, <2>12, <2>13 DEF Left, ToRead
  <2>16. Follows(f, i, c, o, x, p, h, yes, yes)
    BY <2>2, <2>7, <2>15 DEF Follows
  <2>17. FollowsTo(s, i, c)'
    BY <2>2, <2>3, <2>14, <2>16, Zenon DEF FollowsTo
  <2>18. Answered(s, Reader(script[s])[i].pinged)'
    <3>1. PICK P : P = Reader(script[s])[i].pinged
      OBVIOUS
    <3>2. Answered(s, P)'
      BY <1>9, <2>1, <3>1
    <3>3. P = Reader(script'[s])[i].pinged
      BY <1>2, <3>1
    <3>4. QED
      BY <3>2, <3>3, Zenon DEF Answered
  <2>19. OpenHears(s)'
    BY <2>17, <2>18 DEF OpenHears
  <2>20. QED
    BY <1>2, <1>10, <2>19 DEF Hears
<1>11. ASSUME Plain(s), Hears(s), phase[s] = "closing"
       PROVE  Hears(s)'
  <2>1. PICK i : Stopped(script[s], i, at[s], heard[s]) /\ Within(s, Reader(script[s])[i].pinged)
    BY <1>11 DEF Hears, ClosingHears
  <2>2. PICK f, n, e : f = script[s] /\ n = at[s] /\ e = End(f, i)
    OBVIOUS
  <2>3. f \in Seq(Frame) /\ n \in Nat /\ i \in 0..Len(f) /\ e <= n
    BY <1>11, <2>1, <2>2, ScriptFacts DEF Stopped
  <2>4. e \in Nat /\ m \in Int /\ m >= 0
    <3>1. e \in Nat
      BY <2>2, <2>3, EndFacts
    <3>2. QED
      BY <3>1
  <2>5. Stopped(script[s], i, at[s], heard[s])'
    <3>1. e <= n + m
      BY <2>3, <2>4
    <3>2. QED
      BY <1>2, <1>4, <2>1, <2>2, <3>1 DEF Stopped
  <2>6. Within(s, Reader(script[s])[i].pinged)'
    <3>1. PICK P : P = Reader(script[s])[i].pinged
      OBVIOUS
    <3>2. Within(s, P)'
      BY <1>9, <2>1, <3>1
    <3>3. P = Reader(script'[s])[i].pinged
      BY <1>2, <3>1
    <3>4. QED
      BY <3>2, <3>3, Zenon DEF Within
  <2>7. ClosingHears(s)'
    BY <2>5, <2>6 DEF ClosingHears
  <2>8. QED
    BY <1>2, <1>11, <2>7 DEF Hears
<1>12. QED
  BY <1>2, <1>8, <1>10, <1>11, OnlyHears

-----------------------------------------------------------------------------
(* A turn of consume, as the server sees it. *)

\* After a turn that is not refused.
TurnTo(f, i, j, c, n, o, reading, working) ==
  /\ j \in 0..Len(f) /\ c \in 0..Len(Bytes(f)) /\ Stands(o.parser, f, j, c)
  /\ Left(f, j, c, n, o.src, o.parser, reading, working)
  /\ Effect(o.event, Reader(f)[i], Reader(f)[j])
\* When consume goes on.
Looping(o, reading, working) ==
  /\ ~working => o.src = <<>>
  /\ reading => o.src # <<>>
  /\ working => o.src # <<>> \/ o.event.kind = "message"

LEMMA TurnLeft ==
  ASSUME NEW f \in Seq(Frame), NoneNested(f), NEW i \in 0..Len(f), NEW n \in Nat, NEW o,
         Turn(o, f, i, n), o.event.kind # "refused" \/ Legal(f),
         NEW reading, NEW working, Looping(o, reading, working)
  PROVE  \E j, c : TurnTo(f, i, j, c, n, o, reading, working)
<1>1. Len(f) \in Nat
  OBVIOUS
<1>2. CASE StillIn(o, f, i, n)
  <2>1. o.event = Quiet /\ o.src = <<>>
    BY <1>2 DEF StillIn
  <2>2. PICK c \in 0..Len(Bytes(f)) : Stands(o.parser, f, i, c) /\ NotRead(o.parser, f, i, c, n)
    BY <1>2 DEF StillIn
  <2>3. o.event.kind = "none"
    BY <2>1 DEF Quiet
  <2>4. ~working
    BY <2>1, <2>3 DEF Looping
  <2>5. Left(f, i, c, n, o.src, o.parser, reading, working)
    BY <2>1, <2>2, <2>4 DEF Left
  <2>6. Effect(o.event, Reader(f)[i], Reader(f)[i])
    BY <2>3 DEF Effect, Silent
  <2>7. TurnTo(f, i, i, c, n, o, reading, working)
    BY <2>2, <2>5, <2>6 DEF TurnTo
  <2>8. QED
    BY <2>7
<1>3. CASE i < Len(f) /\ FrameRead(o, f, i, n)
  <2>1. PICK j, c, q, p : j = i + 1 /\ c = End(f, j) /\ q = o.src /\ p = o.parser
    OBVIOUS
  <2>2. j \in 0..Len(f)
    BY <1>1, <1>3, <2>1
  <2>3. Between(p, f, j) /\ p.spill = <<>> /\ ToRead(q, f, c, n)
        /\ Effect(o.event, Reader(f)[i], Reader(f)[j])
    BY <1>3, <2>1 DEF FrameRead
  <2>4. Stands(p, f, j, c)
    BY <2>1, <2>3 DEF Stands
  <2>5. c \in 0..Len(Bytes(f))
    <3>1. c \in Nat
      BY <2>1, <2>2, EndFacts
    <3>2. PICK L, d : L = Len(Bytes(f)) /\ d = n - c
      OBVIOUS
    <3>3. d \in Nat
      BY <2>3, <3>1, <3>2, CutBound DEF ToRead
    <3>4. L \in Nat
      <4>1. Len(f) \in 0..Len(f)
        BY <1>1
      <4>2. End(f, Len(f)) \in Nat
        BY <4>1, EndFacts
      <4>3. QED
        BY <3>2, <4>2 DEF End, Bytes
    <3>5. c + d <= L
      BY <2>3, <3>2 DEF ToRead, Cut
    <3>6. c \in 0..L
      BY <3>1, <3>3, <3>4, <3>5
    <3>7. QED
      BY <3>2, <3>6
  <2>6. Left(f, j, c, n, q, p, reading, working)
    <3>1. CASE working
      BY <2>1, <2>3, <3>1 DEF Left, Looping
    <3>2. CASE ~working
      <4>1. q = <<>>
        BY <2>1, <3>2 DEF Looping
      <4>2. Cut(p.spill, Bytes(f), c, n - c)
        BY <2>3, <4>1, Zenon DEF ToRead
      <4>3. NotRead(p, f, j, c, n)
        BY <2>3, <4>2 DEF NotRead
      <4>4. QED
        BY <3>2, <4>1, <4>3 DEF Left
    <3>3. QED
      BY <3>1, <3>2
  <2>7. TurnTo(f, i, j, c, n, o, reading, working)
    BY <2>1, <2>2, <2>3, <2>4, <2>5, <2>6 DEF TurnTo
  <2>8. QED
    BY <2>7
<1>4. QED
  BY <1>2, <1>3 DEF Turn

\* What the turn did is what was heard and answered.
Tells(s, event) == \A r, t : Effect(event, r, t) /\ heard[s] = r.said => heard'[s] = t.said
Replies(s, event) ==
  \A r, t : Effect(event, r, t) /\ IsSeq(r.pinged) /\ Answered(s, r.pinged) => Answered(s, t.pinged)'

LEMMA ConsumeTurn ==
  ASSUME Inv, InputShape, NEW s \in Sock, Plain(s), Hears(s), BeingRead(s),
         NEW o, o = consume(script[s], parser[s], src[s])
  PROVE  \E i \in 0..Len(script[s]) :
           /\ Turn(o, script[s], i, at[s])
           /\ heard[s] = Reader(script[s])[i].said
           /\ Answered(s, Reader(script[s])[i].pinged)
<1>1. phase[s] = "open" /\ AtWork(s)
  BY DEF Inv, Phases, BeingRead, AtWork
<1>2. PICK i, c : FollowsTo(s, i, c) /\ Answered(s, Reader(script[s])[i].pinged)
  BY <1>1 DEF Hears, OpenHears
<1>3. PICK f, n, q, p, h : f = script[s] /\ n = at[s] /\ q = src[s] /\ p = parser[s] /\ h = heard[s]
  OBVIOUS
<1>4. f \in Seq(Frame) /\ NoneNested(f) /\ n \in Nat
  BY <1>3, ScriptFacts
<1>5. /\ i \in 0..Len(f) /\ Stands(p, f, i, c) /\ h = Reader(f)[i].said
      /\ Left(f, i, c, n, q, p, BeingRead(s), AtWork(s))
  BY <1>2, <1>3, Zenon DEF FollowsTo, Follows
<1>6. ToRead(q, f, c, n) /\ q # <<>>
  BY <1>1, <1>5 DEF Left
<1>7. o = consume(f, p, q)
  BY <1>3
<1>8. Turn(o, f, i, n)
  BY <1>4, <1>5, <1>6, <1>7, TurnFacts
<1>9. QED
  BY <1>2, <1>3, <1>5, <1>8

\* A turn of a socket that stays open.
LEMMA TurnHears ==
  ASSUME Inv, InputShape, HearsWell, NEW s \in Sock, BeingRead(s),
         NEW o, o = consume(script[s], parser[s], src[s]), o.event.kind # "refused",
         SetTo(parser', parser, s, o.parser), SetTo(src', src, s, o.src),
         UNCHANGED <<script, at, phase, session>>,
         Alone(s), Others(s), \A t \in Sock : t # s => heard'[t] = heard[t],
         Looping(o, BeingRead(s)', AtWork(s)'),
         Tells(s, o.event), Replies(s, o.event)
  PROVE  HearsWell'
<1>1. /\ parser'[s] = o.parser /\ src'[s] = o.src
      /\ \A t \in Sock : t # s => parser'[t] = parser[t] /\ src'[t] = src[t]
  BY MapSet DEF InputShape
<1>2. Only(s)
  BY <1>1 DEF Only, Unheard, Alone, Others
<1>3. phase[s] = "open"
  BY DEF Inv, Phases, BeingRead
<1>4. ASSUME Plain(s), Hears(s)
      PROVE  Hears(s)'
  <2>1. PICK i \in 0..Len(script[s]) :
           /\ Turn(o, script[s], i, at[s])
           /\ heard[s] = Reader(script[s])[i].said
           /\ Answered(s, Reader(script[s])[i].pinged)
    BY <1>4, ConsumeTurn
  <2>2. PICK f, n, reading, working :
          f = script[s] /\ n = at[s] /\ reading = BeingRead(s)' /\ working = AtWork(s)'
    OBVIOUS
  <2>3. f \in Seq(Frame) /\ NoneNested(f) /\ n \in Nat /\ i \in 0..Len(f)
    BY <1>4, <2>2, ScriptFacts
  <2>4. Looping(o, reading, working)
    BY <2>2, Zenon
  <2>5. Turn(o, f, i, n)
    BY <2>1, <2>2
  <2>6. PICK j, c : TurnTo(f, i, j, c, n, o, reading, working)
    BY <2>3, <2>4, <2>5, TurnLeft
  <2>7. PICK r, t : r = Reader(f)[i] /\ t = Reader(f)[j]
    OBVIOUS
  <2>8. /\ j \in 0..Len(f) /\ c \in 0..Len(Bytes(f)) /\ Stands(o.parser, f, j, c)
        /\ Left(f, j, c, n, o.src, o.parser, reading, working) /\ Effect(o.event, r, t)
    BY <2>6, <2>7 DEF TurnTo
  <2>9. heard'[s] = t.said
    BY <2>1, <2>2, <2>7, <2>8, Zenon DEF Tells
  <2>10. IsSeq(r.pinged)
    BY <1>4, <2>2, <2>3, <2>7, PingedIsSeq
  <2>11. Answered(s, t.pinged)'
    BY <2>1, <2>2, <2>7, <2>8, <2>10, Zenon DEF Replies
  <2>12. PICK h, p, q : h = heard'[s] /\ p = o.parser /\ q = o.src
    OBVIOUS
  <2>13. Follows(f, j, c, n, q, p, h, reading, working)
    BY <2>7, <2>8, <2>9, <2>12 DEF Follows
  <2>14. f = script'[s] /\ n = at'[s] /\ q = src'[s] /\ p = parser'[s] /\ h = heard'[s]
    BY <1>1, <2>2, <2>12
  <2>15. FollowsTo(s, j, c)'
    BY <2>2, <2>13, <2>14, Zenon DEF FollowsTo
  <2>16. Answered(s, Reader(script[s])[j].pinged)'
    <3>1. t.pinged = Reader(script'[s])[j].pinged
      BY <2>7, <2>14
    <3>2. QED
      BY <2>11, <3>1, Zenon DEF Answered
  <2>17. OpenHears(s)'
    BY <2>15, <2>16 DEF OpenHears
  <2>18. phase'[s] = "open" /\ session'[s] = session[s]
    BY <1>3
  <2>19. QED
    BY <1>3, <1>4, <2>17, <2>18 DEF Hears
<1>5. QED
  BY <1>2, <1>4, OnlyHears

LEMMA SilentTells ==
  ASSUME NEW s \in Sock, NEW event, event.kind \in {"none", "pong"}, UNCHANGED heard, SideKept(s)
  PROVE  Tells(s, event) /\ Replies(s, event)
<1>1. ASSUME NEW r, NEW t, Effect(event, r, t)
      PROVE  t.said = r.said /\ t.pinged = r.pinged
  BY <1>1 DEF Effect
<1>2. \A P : Answered(s, P) => Answered(s, P)'
  BY KeptAnswers
<1>3. Tells(s, event)
  BY <1>1 DEF Tells
<1>4. ASSUME NEW r, NEW t, Effect(event, r, t), Answered(s, r.pinged)
      PROVE  Answered(s, t.pinged)'
  <2>1. PICK P : P = r.pinged
    OBVIOUS
  <2>2. Answered(s, P)'
    BY <1>2, <1>4, <2>1
  <2>3. P = t.pinged
    BY <1>1, <1>4, <2>1
  <2>4. QED
    BY <2>2, <2>3, Zenon DEF Answered
<1>5. QED
  BY <1>3, <1>4 DEF Replies

\* The handler is given a message.
Takes(s, event) == heard' = [heard EXCEPT ![s] = Append(@, [op |-> event.op, data |-> event.data])]

LEMMA MessageTells ==
  ASSUME NEW s \in Sock, NEW event, event.kind = "message", IsMap(heard), SideKept(s),
         Takes(s, event)
  PROVE  /\ Tells(s, event) /\ Replies(s, event)
         /\ \A t \in Sock : t # s => heard'[t] = heard[t]
<1>1. PICK m, v : m = [op |-> event.op, data |-> event.data] /\ v = Append(heard[s], m)
  OBVIOUS
<1>2. SetTo(heard', heard, s, v)
  BY <1>1 DEF SetTo, Takes
<1>3. heard'[s] = v /\ \A t \in Sock : t # s => heard'[t] = heard[t]
  BY <1>2, MapSet
<1>4. ASSUME NEW r, NEW t, Effect(event, r, t)
      PROVE  t.said = Append(r.said, m) /\ t.pinged = r.pinged
  <2>1. event.kind \notin Silent /\ event.kind # "ping"
    BY DEF Silent
  <2>2. t.pinged = r.pinged /\ t.said = Append(r.said, [op |-> event.op, data |-> event.data])
    BY <1>4, <2>1, Zenon DEF Effect
  <2>3. QED
    BY <1>1, <2>2
<1>5. Tells(s, event)
  BY <1>1, <1>3, <1>4 DEF Tells
<1>6. \A P : Answered(s, P) => Answered(s, P)'
  BY KeptAnswers
<1>7. ASSUME NEW r, NEW t, Effect(event, r, t), Answered(s, r.pinged)
      PROVE  Answered(s, t.pinged)'
  <2>1. PICK P : P = r.pinged
    OBVIOUS
  <2>2. Answered(s, P)'
    BY <1>6, <1>7, <2>1
  <2>3. P = t.pinged
    BY <1>4, <1>7, <2>1
  <2>4. QED
    BY <2>2, <2>3, Zenon DEF Answered
<1>8. QED
  BY <1>3, <1>5, <1>7 DEF Replies

LEMMA PingTells ==
  ASSUME NEW s \in Sock, Sided(s), NEW event, event.kind = "ping", UNCHANGED heard,
         Passed(s, Pong(event.data))
  PROVE  Tells(s, event) /\ Replies(s, event)
<1>1. ASSUME NEW r, NEW t, Effect(event, r, t)
      PROVE  t.said = r.said /\ t.pinged = Append(r.pinged, event.data)
  BY <1>1 DEF Effect, Silent
<1>2. Tells(s, event)
  BY <1>1 DEF Tells
<1>3. PICK m : m = Pong(event.data)
  OBVIOUS
<1>4. m.kind = "pong" /\ m.data = event.data
  BY <1>3 DEF Pong
<1>5. ASSUME NEW r, NEW t, Effect(event, r, t), IsSeq(r.pinged), Answered(s, r.pinged)
      PROVE  Answered(s, t.pinged)'
  <2>1. PICK P : P = r.pinged
    OBVIOUS
  <2>2. Answered(s, PongsAfter(P, m))'
    <3>1. IsSeq(P) /\ Answered(s, P) /\ Passed(s, m)
      BY <1>3, <1>5, <2>1
    <3>2. QED
      BY <3>1, PassedAnswers
  <2>3. PongsAfter(P, m) = t.pinged
    BY <1>1, <1>4, <1>5, <2>1 DEF PongsAfter
  <2>4. QED
    BY <2>2, <2>3, Zenon DEF Answered
<1>6. QED
  BY <1>2, <1>5 DEF Replies

LEMMA ConsumeHears ==
  ASSUME Inv, InputShape, HearsWell, Consume
  PROVE  HearsWell'
<1>1. PICK s : s = mode.sock
  OBVIOUS
<1>2. s \in Sock /\ mode \in Modes /\ mode.is = "reading" /\ phase[s] = "open" /\ Sides /\ Sided(s)
      /\ IsMap(heard)
  <2>1. mode.is = "reading" /\ mode \in Modes
    BY DEF Consume, Inv, Shape
  <2>2. s \in Sock
    BY <1>1, <2>1, ModeSock
  <2>3. Sides /\ IsMap(heard)
    BY Zenon DEF Inv, Shape
  <2>4. phase[s] = "open" /\ Sided(s)
    <3>1. Phases /\ LinksAreGood
      BY Zenon DEF Inv
    <3>2. phase[mode.sock] = "open"
      BY <2>1, <3>1, Zenon DEF Phases
    <3>3. Sided(s)
      BY <2>2, <3>1, Zenon DEF LinksAreGood
    <3>4. QED
      BY <1>1, <3>2, <3>3
  <2>5. QED
    BY <2>1, <2>2, <2>3, <2>4
<1>3. BeingRead(s)
  BY <1>1, <1>2 DEF BeingRead
<1>4. PICK o : o = consume(script[s], parser[s], src[s])
  OBVIOUS
<1>5. PICK event, goesOn : event = o.event /\ goesOn = IF o.src = <<>> THEN Idle ELSE mode
  OBVIOUS
<1> DEFINE Turns(rest) == /\ SetTo(parser', parser, s, o.parser) /\ SetTo(src', src, s, rest)
                          /\ UNCHANGED <<script, at>>
<1>6. \/ /\ event.kind \in {"none", "pong"} /\ Turns(o.src) /\ mode' = goesOn
         /\ UNCHANGED <<phase, output, heard, session>>
      \/ /\ event.kind = "message" /\ Turns(o.src) /\ mode' = Doing("handling", s)
         /\ Takes(s, event) /\ UNCHANGED <<phase, output, session>>
      \/ /\ event.kind = "ping" /\ Turns(o.src) /\ mode' = goesOn
         /\ \E k \in Sent(out[s]) : SetLink(s, write(Link(s), Pong(event.data), k))
         /\ UNCHANGED <<phase, heard, session>>
      \/ /\ event.kind = "close" /\ Turns(<<>>) /\ mode' = Idle
         /\ \E k \in Sent(out[s]) : Closes(s, k)
         /\ UNCHANGED heard
      \/ event.kind = "refused" /\ Ends(s, "refused") /\ mode' = Idle
  BY <1>1, <1>4, <1>5, Zenon DEF Consume, SetTo, Takes
<1> HIDE DEF Turns
<1>7. Turns(o.src) => /\ SetTo(parser', parser, s, o.parser) /\ SetTo(src', src, s, o.src)
                      /\ UNCHANGED <<script, at>>
  BY DEF Turns
<1>8. mode' = goesOn => Alone(s) /\ Looping(o, BeingRead(s)', AtWork(s)')
  <2> SUFFICES ASSUME mode' = goesOn
               PROVE  Alone(s) /\ Looping(o, BeingRead(s)', AtWork(s)')
    OBVIOUS
  <2>1. Alone(s)
    BY <1>1, <1>2, <1>5, AloneWith
  <2>2. CASE o.src = <<>>
    <3>1. mode' = Idle
      BY <1>5, <2>2
    <3>2. ~BeingRead(s)' /\ ~AtWork(s)'
      BY <3>1, ModeFacts DEF BeingRead, AtWork
    <3>3. QED
      BY <2>1, <2>2, <3>2, Zenon DEF Looping
  <2>3. CASE o.src # <<>>
    <3>1. mode' = mode
      BY <1>5, <2>3
    <3>2. AtWork(s)'
      BY <1>1, <1>2, <3>1 DEF AtWork
    <3>3. QED
      BY <2>1, <2>3, <3>2, Zenon DEF Looping
  <2>4. QED
    BY <2>2, <2>3
<1>9. CASE /\ event.kind \in {"none", "pong"} /\ Turns(o.src) /\ mode' = goesOn
           /\ UNCHANGED <<phase, output, heard, session>>
  <2>1. \A t \in Sock : SideKept(t)
    BY <1>9, SideStays
  <2>2. Others(s)
    BY <2>1 DEF Others
  <2>3. Tells(s, event) /\ Replies(s, event)
    BY <1>2, <1>9, <2>1, SilentTells
  <2>4. event.kind # "refused"
    BY <1>9
  <2>5. QED
    BY <1>2, <1>3, <1>4, <1>5, <1>7, <1>8, <1>9, <2>2, <2>3, <2>4, TurnHears
<1>10. CASE /\ event.kind = "message" /\ Turns(o.src) /\ mode' = Doing("handling", s)
            /\ Takes(s, event) /\ UNCHANGED <<phase, output, session>>
  <2>1. \A t \in Sock : SideKept(t)
    BY <1>10, SideStays
  <2>2. Others(s)
    BY <2>1 DEF Others
  <2>3. Tells(s, event) /\ Replies(s, event) /\ \A t \in Sock : t # s => heard'[t] = heard[t]
    BY <1>2, <1>10, <2>1, MessageTells
  <2>4. Alone(s)
    BY <1>1, <1>2, <1>10, AloneWith, ModeFacts
  <2>5. ~BeingRead(s)' /\ AtWork(s)'
    <3>1. mode'.is = "handling" /\ mode'.sock = s
      BY <1>10, ModeFacts
    <3>2. QED
      BY <3>1 DEF BeingRead, AtWork
  <2>6. Looping(o, BeingRead(s)', AtWork(s)')
    BY <1>5, <1>10, <2>5, Zenon DEF Looping
  <2>7. event.kind # "refused"
    BY <1>10
  <2>8. QED
    BY <1>2, <1>3, <1>4, <1>5, <1>7, <1>10, <2>2, <2>3, <2>4, <2>6, <2>7, TurnHears
<1>11. CASE /\ event.kind = "ping" /\ Turns(o.src) /\ mode' = goesOn
            /\ \E k \in Sent(out[s]) : SetLink(s, write(Link(s), Pong(event.data), k))
            /\ UNCHANGED <<phase, heard, session>>
  <2>1. Passed(s, Pong(event.data)) /\ Others(s)
    BY <1>2, <1>11, WritePassed
  <2>2. Tells(s, event) /\ Replies(s, event)
    BY <1>2, <1>11, <2>1, PingTells
  <2>3. event.kind # "refused"
    BY <1>11
  <2>4. QED
    BY <1>2, <1>3, <1>4, <1>5, <1>7, <1>8, <1>11, <2>1, <2>2, <2>3, TurnHears
<1>12. CASE /\ event.kind = "close" /\ Turns(<<>>) /\ mode' = Idle
            /\ \E k \in Sent(out[s]) : Closes(s, k)
            /\ UNCHANGED heard
  <2>1. \A t \in Sock : t # s => src'[t] = src[t] /\ parser'[t] = parser[t]
    <3>1. PICK e : e = <<>>
      OBVIOUS
    <3>2. SetTo(parser', parser, s, o.parser) /\ SetTo(src', src, s, e)
      BY <1>12, <3>1 DEF Turns
    <3>3. QED
      BY <1>2, <3>2, MapSet DEF InputShape
  <2>2. UNCHANGED <<script, at, heard>>
    BY <1>12 DEF Turns
  <2>3. Alone(s)
    BY <1>1, <1>2, <1>12, AloneWith
  <2>4. ASSUME Plain(s), Hears(s)
        PROVE  \E i : Stopped(script[s], i, at[s], heard[s]) /\ Within(s, Reader(script[s])[i].pinged)
    <3>1. PICK i \in 0..Len(script[s]) :
             /\ Turn(o, script[s], i, at[s])
             /\ heard[s] = Reader(script[s])[i].said
             /\ Answered(s, Reader(script[s])[i].pinged)
      BY <1>2, <1>3, <1>4, <2>4, ConsumeTurn
    <3>2. PICK f, n : f = script[s] /\ n = at[s]
      OBVIOUS
    <3>3. f \in Seq(Frame) /\ NoneNested(f) /\ n \in Nat /\ i \in 0..Len(f)
      BY <1>2, <2>4, <3>2, ScriptFacts
    <3>4. i < Len(f) /\ FrameRead(o, f, i, n)
      <4>1. o.event.kind = "close"
        BY <1>5, <1>12
      <4>2. o.event # Quiet
        BY <4>1 DEF Quiet
      <4>3. QED
        BY <3>1, <3>2, <4>1, <4>2 DEF Turn, StillIn
    <3>5. PICK j, e, r, t : j = i + 1 /\ e = End(f, j) /\ r = Reader(f)[i] /\ t = Reader(f)[j]
      OBVIOUS
    <3>6. j \in 0..Len(f)
      BY <3>3, <3>4, <3>5
    <3>7. t.said = r.said /\ t.pinged = r.pinged
      <4>1. Effect(event, r, t)
        BY <1>5, <3>4, <3>5 DEF FrameRead
      <4>2. QED
        BY <1>12, <4>1 DEF Effect
    <3>8. e <= n
      <4>1. e \in Nat
        BY <3>3, <3>5, <3>6, EndFacts
      <4>2. Cut(o.src, Bytes(f), e, n - e)
        BY <3>4, <3>5 DEF FrameRead, ToRead
      <4>3. QED
        BY <3>3, <4>1, <4>2, CutBound
    <3>9. Stopped(f, j, n, heard[s])
      BY <3>1, <3>2, <3>5, <3>6, <3>7, <3>8 DEF Stopped
    <3>10. IsSeq(r.pinged)
      BY <1>2, <2>4, <3>2, <3>3, <3>5, PingedIsSeq
    <3>11. Within(s, t.pinged)
      <4>1. Within(s, r.pinged)
        BY <3>1, <3>2, <3>5, <3>10, AnsweredWithin
      <4>2. QED
        BY <3>7, <4>1
    <3>12. QED
      BY <3>2, <3>5, <3>9, <3>11
  <2>5. PICK k \in Sent(out[s]) : Closes(s, k)
    BY <1>12
  <2>6. QED
    BY <1>2, <2>1, <2>2, <2>3, <2>4, <2>5, ClosesHears
<1>13. CASE event.kind = "refused" /\ Ends(s, "refused") /\ mode' = Idle
  <2>1. Alone(s)
    BY <1>1, <1>2, <1>13, AloneWith
  <2>2. ASSUME Plain(s)
        PROVE  ~Legal(script[s])
    <3>1. Hears(s)
      BY <1>2, <2>2 DEF HearsWell
    <3>2. PICK i \in 0..Len(script[s]) : Turn(o, script[s], i, at[s])
      BY <1>2, <1>3, <1>4, <2>2, <3>1, ConsumeTurn
    <3>3. o.event.kind = "refused" /\ o.event # Quiet
      BY <1>5, <1>13 DEF Quiet
    <3>4. ~FrameRead(o, script[s], i, at[s])
      BY <3>3 DEF FrameRead, Effect, Silent
    <3>5. QED
      BY <3>2, <3>3, <3>4 DEF Turn, StillIn
  <2>3. PICK r \in {"off", "refused"} : r = "refused" /\ Ends(s, r)
    BY <1>13
  <2>4. QED
    BY <1>2, <2>1, <2>2, <2>3, EndsHears
<1>14. QED
  BY <1>6, <1>9, <1>10, <1>11, <1>12, <1>13

LEMMA EndedHears ==
  ASSUME Inv, InputShape, HearsWell, NEW s \in Sock,
         Ended(s) \/ Timeout(s) \/ (Writable(s) /\ Ends(s, "off"))
  PROVE  HearsWell'
<1>1. phase[s] \in {"http", "open", "closing"} /\ Ends(s, "off") /\ UNCHANGED mode
  BY DEF Ended, Timeout, Writable, Inv, DeadlinesAreRight, Waits
<1>2. PICK r \in {"off", "refused"} : r = "off" /\ Ends(s, r)
  BY <1>1
<1>3. QED
  BY <1>1, <1>2, EndsHears

LEMMA HearsStep ==
  ASSUME Inv, InputShape, HearsWell, [Next]_vars
  PROVE  HearsWell'
<1>1. CASE Broadcast
  BY <1>1, BroadcastHears, DeafHears
<1>2. CASE Return
  BY <1>2, ReturnHears
<1>3. CASE Consume
  BY <1>3, ConsumeHears
<1>4. CASE UNCHANGED vars
  <2>1. UNCHANGED <<mode, phase, session, input>> /\ UNCHANGED output
    BY <1>4 DEF vars
  <2>2. \A t \in Sock : Unheard(t) /\ SideKept(t)
    BY <2>1, UnchangedUnheard, SideStays
  <2>3. Deaf
    BY <2>1, <2>2 DEF Deaf, StillAnswers, input
  <2>4. QED
    BY <2>3, DeafHears
<1>5. ASSUME NEW s \in Sock, SocketStep(s)
      PROVE  HearsWell'
  <2>1. CASE Send(s)
    BY <2>1, SendHears, DeafHears
  <2>2. CASE Close(s)
    BY <2>2, CloseHears
  <2>3. CASE Accept(s)
    BY <2>3, AcceptHears
  <2>4. CASE Upgraded(s)
    BY <2>4, UpgradedHears
  <2>5. CASE Ended(s) \/ Timeout(s)
    BY <2>5, EndedHears
  <2>6. CASE Writable(s)
    BY <2>6, EndedHears, WrotesHears, DeafHears
  <2>7. CASE Readable(s)
    BY <2>7, ReadableHears
  <2>8. QED
    BY <1>5, <2>1, <2>2, <2>3, <2>4, <2>5, <2>6, <2>7 DEF SocketStep
<1>6. QED
  BY <1>1, <1>2, <1>3, <1>4, <1>5 DEF Next

-----------------------------------------------------------------------------
(* What was received is of the script. *)

\* What was received is of the script, and stays so.
InputGoes ==
  /\ script' = script
  /\ at' = at \/ \E s \in Sock, n \in Nat : SetTo(at', at, s, n)
  /\ src' = src \/ \E s \in Sock : \E q : SetTo(src', src, s, q)
  /\ parser' = parser \/ \E s \in Sock : \E p : SetTo(parser', parser, s, p)

LEMMA InputIsShaped ==
  ASSUME InputShape, InputGoes
  PROVE  InputShape'
<1>1. script' \in Scripts
  BY DEF InputShape, InputGoes
<1>2. IsMap(at') /\ \A t \in Sock : at'[t] \in Nat
  <2>1. CASE at' = at
    BY <2>1 DEF InputShape
  <2>2. ASSUME NEW s \in Sock, NEW n \in Nat, SetTo(at', at, s, n)
        PROVE  IsMap(at') /\ \A t \in Sock : at'[t] \in Nat
    BY <2>2, MapSet DEF InputShape
  <2>3. QED
    BY <2>1, <2>2 DEF InputGoes
<1>3. IsMap(src')
  BY MapSet DEF InputShape, InputGoes
<1>4. IsMap(parser')
  BY MapSet DEF InputShape, InputGoes
<1>5. QED
  BY <1>1, <1>2, <1>3, <1>4 DEF InputShape

LEMMA InputStep ==
  ASSUME Inv, InputShape, [Next]_vars
  PROVE  InputShape'
<1>1. CASE UNCHANGED input
  BY <1>1, InputIsShaped DEF InputGoes, input
<1>2. ASSUME NEW s \in Sock, NEW r, Ends(s, r)
      PROVE  InputGoes
  <2>1. PICK z, e, p : z = 0 /\ e = <<>> /\ p = NewParser
    OBVIOUS
  <2>2. SetTo(at', at, s, z) /\ SetTo(src', src, s, e) /\ SetTo(parser', parser, s, p) /\ script' = script
    BY <1>2, <2>1 DEF Ends, Forgets, SetTo
  <2>3. z \in Nat
    BY <2>1
  <2>4. QED
    BY <2>2, <2>3 DEF InputGoes
<1>3. CASE Return
  <2>1. mode.sock \in Sock
    BY <1>3, ModeFacts DEF Return, Inv, Shape
  <2>2. UNCHANGED <<script, at, parser>> /\ \E q : SetTo(src', src, mode.sock, q)
    BY <1>3 DEF Return, SetTo
  <2>3. QED
    BY <2>1, <2>2, InputIsShaped DEF InputGoes
<1>4. CASE Consume
  <2>1. mode.sock \in Sock
    BY <1>4, ModeFacts DEF Consume, Inv, Shape
  <2>2. PICK s \in Sock : s = mode.sock
    BY <2>1
  <2>3. \/ /\ UNCHANGED <<script, at>> /\ \E q : SetTo(src', src, s, q)
           /\ \E p : SetTo(parser', parser, s, p)
        \/ Ends(s, "refused")
    BY <1>4, <2>2, Zenon DEF Consume, SetTo
  <2>4. QED
    BY <1>2, <2>3, InputIsShaped DEF InputGoes
<1>5. ASSUME NEW s \in Sock, Readable(s)
      PROVE  InputShape'
  <2>1. UNCHANGED <<script, parser>>
    BY <1>5 DEF Readable
  <2>2. src' = src \/ \E q : SetTo(src', src, s, q)
    BY <1>5 DEF Readable, SetTo
  <2>3. PICK n \in 1..(Len(Bytes(script[s])) - at[s]) : at' = [at EXCEPT ![s] = @ + n]
    BY <1>5 DEF Readable
  <2>4. PICK m : m = at[s] + n
    OBVIOUS
  <2>5. at[s] \in Nat /\ n \in Int /\ n >= 1
    BY DEF InputShape
  <2>6. m \in Nat /\ SetTo(at', at, s, m)
    BY <2>3, <2>4, <2>5 DEF SetTo
  <2>7. QED
    BY <2>1, <2>2, <2>6, InputIsShaped DEF InputGoes
<1>6. ASSUME NEW s \in Sock, SocketStep(s)
      PROVE  InputShape'
  <2>1. CASE Send(s)
    BY <1>1, <2>1 DEF Send
  <2>2. CASE Close(s)
    BY <1>1, <2>2 DEF Close
  <2>3. CASE Accept(s)
    BY <1>1, <2>3 DEF Accept
  <2>4. CASE Upgraded(s)
    BY <1>1, <2>4 DEF Upgraded
  <2>5. CASE Ended(s) \/ Timeout(s)
    BY <1>2, <2>5, InputIsShaped DEF Ended, Timeout
  <2>6. CASE Writable(s)
    BY <1>1, <1>2, <2>6, InputIsShaped DEF Writable
  <2>7. CASE Readable(s)
    BY <1>5, <2>7
  <2>8. QED
    BY <1>6, <2>1, <2>2, <2>3, <2>4, <2>5, <2>6, <2>7 DEF SocketStep
<1>7. CASE Broadcast
  BY <1>1, <1>7 DEF Broadcast
<1>8. CASE UNCHANGED vars
  BY <1>1, <1>8 DEF vars
<1>9. QED
  BY <1>3, <1>4, <1>6, <1>7, <1>8 DEF Next

LEMMA HearsInit ==
  ASSUME Init
  PROVE  InputShape /\ HearsWell
<1>1. InputShape
  BY DEF Init, InputShape, IsMap
<1>2. ASSUME NEW s \in Sock
      PROVE  Hears(s)
  <2>1. PICK e : e = <<>>
    OBVIOUS
  <2>2. /\ phase[s] = "none" /\ session[s] = "new" /\ at[s] = 0 /\ heard[s] = e /\ taken[s] = e
        /\ src[s] = e /\ parser[s] = NewParser
    BY <2>1 DEF Init
  <2>3. QED
    BY <2>1, <2>2 DEF Hears, Fresh, Blank
<1>3. QED
  BY <1>1, <1>2 DEF HearsWell

HearsInv == Inv /\ InputShape /\ HearsWell

LEMMA AlwaysHears == Spec => []HearsInv
<1>1. Init => HearsInv
  BY InvInit, HearsInit DEF HearsInv
<1>2. HearsInv /\ [Next]_vars => HearsInv'
  BY InvStep, InputStep, HearsStep DEF HearsInv
<1>3. QED
  BY <1>1, <1>2, PTL DEF Spec

-----------------------------------------------------------------------------
\* Where the parser stands, the frames before are whole and the next is not.
LEMMA StandsWhole ==
  ASSUME NEW f \in Seq(Frame), NEW i \in 0..Len(f), NEW c, NEW p, Stands(p, f, i, c)
  PROVE  Whole(f, c) = i
<1>1. PICK e : e = End(f, i)
  OBVIOUS
<1>2. e \in Nat /\ c \in Nat /\ e <= c
  BY <1>1, StandsBehind
<1>3. ASSUME i < Len(f)
      PROVE  c < End(f, i + 1)
  <2>1. i + 1 \in 1..Len(f) /\ (i + 1) - 1 = i
    BY <1>3
  <2>2. PICK h, l, b : h = f[i + 1].head /\ l = f[i + 1].len /\ b = End(f, i + 1)
    OBVIOUS
  <2>3. h \in Nat /\ h >= 1 /\ l \in Nat
    BY <2>1, <2>2, FrameFacts
  <2>4. b = e + h + l
    BY <1>1, <2>1, <2>2, EndFacts
  <2>5. CASE c = e
    <3>1. c < b
      BY <1>2, <2>3, <2>4, <2>5
    <3>2. QED
      BY <2>2, <3>1, Zenon
  <2>6. CASE \E a \in 0..(l - 1) : c = e + h + a
    <3>1. PICK a \in 0..(l - 1) : c = e + h + a
      BY <2>6
    <3>2. a \in Int /\ a < l
      BY <2>3
    <3>3. c < b
      BY <1>2, <2>3, <2>4, <3>1, <3>2
    <3>4. QED
      BY <2>2, <3>3
  <2>7. QED
    BY <1>1, <2>2, <2>5, <2>6 DEF Stands
<1>4. QED
  BY <1>1, <1>2, <1>3, WholeIs

\* A part of a header does not make a frame whole.
LEMMA SpillWhole ==
  ASSUME NEW f \in Seq(Frame), NEW i \in 0..Len(f), NEW c, NEW p, Stands(p, f, i, c),
         NEW n \in Nat, NotRead(p, f, i, c, n)
  PROVE  Whole(f, n) = i
<1>1. PICK e, d : e = End(f, i) /\ d = n - c
  OBVIOUS
<1>2. e \in Nat /\ c \in Nat /\ e <= c
  BY <1>1, StandsBehind
<1>3. Cut(p.spill, Bytes(f), c, n - c)
  BY DEF NotRead
<1>4. d \in Nat /\ c <= n
  BY <1>1, <1>2, <1>3, CutBound
<1>5. CASE p.spill = <<>>
  <2>1. Len(p.spill) = d
    BY <1>1, <1>3 DEF Cut
  <2>2. d = 0
    BY <1>5, <2>1
  <2>3. n = c
    BY <1>1, <1>2, <2>2
  <2>4. QED
    BY <2>3, StandsWhole
<1>6. CASE p.spill # <<>>
  <2>1. i < Len(f) /\ n < e + f[i + 1].head
    BY <1>1, <1>6 DEF NotRead
  <2>2. i + 1 \in 1..Len(f) /\ (i + 1) - 1 = i
    BY <2>1
  <2>3. PICK h, l, b : h = f[i + 1].head /\ l = f[i + 1].len /\ b = End(f, i + 1)
    OBVIOUS
  <2>4. h \in Nat /\ l \in Nat
    BY <2>2, <2>3, FrameFacts
  <2>5. b = e + h + l
    BY <1>1, <2>2, <2>3, EndFacts
  <2>6. n < b
    <3>1. n < e + h
      BY <2>1, <2>3
    <3>2. QED
      BY <1>2, <2>4, <2>5, <3>1
  <2>7. e <= n
    BY <1>2, <1>4
  <2>8. QED
    BY <1>1, <2>3, <2>6, <2>7, WholeIs
<1>7. QED
  BY <1>5, <1>6

LEMMA LeftWhole ==
  ASSUME NEW f \in Seq(Frame), NEW i \in 0..Len(f), NEW c, NEW p, Stands(p, f, i, c),
         NEW n \in Nat, NEW q, NEW reading, NEW working, Left(f, i, c, n, q, p, reading, working)
  PROVE  Whole(f, n - Len(q)) = i
<1>1. c \in Nat
  BY StandsBehind
<1>2. CASE working
  <2>1. Cut(q, Bytes(f), c, n - c)
    BY <1>2 DEF Left, ToRead
  <2>2. PICK d : d = n - c /\ d \in Nat
    BY <1>1, <2>1, CutBound
  <2>3. Len(q) = d
    BY <2>1, <2>2 DEF Cut
  <2>4. n - Len(q) = c
    BY <1>1, <2>2, <2>3
  <2>5. QED
    BY <2>4, StandsWhole
<1>3. CASE ~working
  <2>1. q = <<>> /\ NotRead(p, f, i, c, n)
    BY <1>3 DEF Left
  <2>2. Len(q) = 0
    BY <2>1
  <2>3. n - Len(q) = n
    BY <2>2
  <2>4. QED
    BY <2>1, <2>3, SpillWhole
<1>4. QED
  BY <1>2, <1>3

LEMMA StoppedSaid ==
  ASSUME InputShape, NEW s \in Sock, Plain(s), NEW i, Stopped(script[s], i, at[s], heard[s]),
         Within(s, Reader(script[s])[i].pinged)
  PROVE  IsPrefix(heard[s], Said(script[s], at[s])) /\ IsPrefix(Pongs(taken[s]), Pinged(script[s], at[s]))
<1>1. PICK f, n : f = script[s] /\ n = at[s]
  OBVIOUS
<1>2. f \in Seq(Frame) /\ n \in Nat
  BY <1>1, ScriptFacts
<1>3. i \in 0..Len(f) /\ End(f, i) <= n /\ heard[s] = Reader(f)[i].said
  BY <1>1 DEF Stopped
<1>4. /\ IsPrefix(Reader(f)[i].said, Said(f, n)) /\ IsPrefix(Reader(f)[i].pinged, Pinged(f, n))
      /\ IsSeq(Pinged(f, n))
  BY <1>2, <1>3, SaidBy
<1>5. PICK P, A, T : P = Reader(f)[i].pinged /\ A = Pongs(taken[s]) /\ T = Pinged(f, n)
  OBVIOUS
<1>6. IsSeq(P) /\ IsSeq(A) /\ IsPrefix(A, P) /\ IsPrefix(P, T) /\ IsSeq(T)
  BY <1>1, <1>4, <1>5 DEF Within, Begins
<1>7. IsPrefix(A, T)
  BY <1>6, PrefixChain
<1>8. QED
  BY <1>1, <1>3, <1>4, <1>5, <1>7

LEMMA BlankStopped ==
  ASSUME InputShape, NEW s \in Sock, Plain(s), Blank(s)
  PROVE  Stopped(script[s], 0, at[s], heard[s]) /\ Within(s, Reader(script[s])[0].pinged)
<1>1. PICK f, e, z : f = script[s] /\ e = <<>> /\ z = 0
  OBVIOUS
<1>2. f \in Seq(Frame)
  BY <1>1, ScriptFacts
<1>3. End(f, z) = z /\ Reader(f)[z].said = e /\ Reader(f)[z].pinged = e
  BY <1>1, <1>2, BeginsBetween
<1>4. at[s] = z /\ heard[s] = e /\ taken[s] = e
  BY <1>1 DEF Blank
<1>5. z \in 0..Len(f) /\ z <= z
  BY <1>1, <1>2
<1>6. Pongs(e) = e /\ IsSeq(e)
  BY <1>1, PongsEmpty, EmptyIsSeq
<1>7. Begins(e, e)
  BY <1>6, PrefixSelf DEF Begins
<1>8. Stopped(f, z, at[s], heard[s])
  BY <1>3, <1>4, <1>5 DEF Stopped
<1>9. Within(s, Reader(f)[z].pinged)
  BY <1>3, <1>4, <1>6, <1>7, Zenon DEF Within
<1>10. QED
  BY <1>1, <1>8, <1>9

\* What is consumed has been heard, and what it pings is known.
LEMMA FollowsSaid ==
  ASSUME InputShape, NEW s \in Sock, Plain(s), NEW i, NEW c, FollowsTo(s, i, c)
  PROVE  /\ heard[s] = Said(script[s], at[s] - Len(src[s]))
         /\ Pinged(script[s], at[s] - Len(src[s])) = Reader(script[s])[i].pinged
<1>1. PICK f, n, q, p, h, reading, working :
        /\ f = script[s] /\ n = at[s] /\ q = src[s] /\ p = parser[s] /\ h = heard[s]
        /\ reading = BeingRead(s) /\ working = AtWork(s)
  OBVIOUS
<1>2. Follows(f, i, c, n, q, p, h, reading, working)
  BY <1>1, Zenon DEF FollowsTo
<1>3. /\ i \in 0..Len(f) /\ Stands(p, f, i, c) /\ Left(f, i, c, n, q, p, reading, working)
      /\ h = Reader(f)[i].said
  BY <1>2 DEF Follows
<1>4. f \in Seq(Frame) /\ n \in Nat
  BY <1>1, ScriptFacts
<1>5. Whole(f, n - Len(q)) = i
  BY <1>3, <1>4, LeftWhole
<1>6. h = Said(f, n - Len(q)) /\ Pinged(f, n - Len(q)) = Reader(f)[i].pinged
  BY <1>3, <1>5, Zenon DEF Said, Pinged
<1>7. QED
  BY <1>1, <1>6

\* However TCP cuts the stream, the server hears the messages the peer has
\* said, and each ping is answered once, in order and with what it said, unless
\* the connection fails; only a peer that breaks the protocol is refused
\* (consume, handleFragment).
THEOREM HeardAreSaid == Spec => []HeardIsSaid
<1>1. HearsInv => HeardIsSaid
  <2> SUFFICES ASSUME HearsInv, NEW s \in DOMAIN script, NoneNested(script[s])
               PROVE  /\ session[s] = "on" =>
                           /\ heard[s] = Said(script[s], at[s] - Len(src[s]))
                           /\ out[s] # "failed" =>
                                Pongs(taken[s]) = Pinged(script[s], at[s] - Len(src[s]))
                      /\ IsPrefix(heard[s], Said(script[s], at[s]))
                      /\ IsPrefix(Pongs(taken[s]), Pinged(script[s], at[s]))
                      /\ session[s] = "refused" => ~Legal(script[s])
    BY Zenon DEF HeardIsSaid
  <2>1. Inv /\ InputShape /\ HearsWell
    BY DEF HearsInv
  <2>2. s \in Sock /\ Plain(s)
    BY <2>1, TransportAssumption DEF InputShape, Plain
  <2>3. Hears(s)
    BY <2>1, <2>2 DEF HearsWell
  <2>4. /\ session[s] = "on" <=> phase[s] = "open"
        /\ phase[s] \in {"none", "http", "open", "closing", "gone"}
    BY <2>1, <2>2 DEF Inv, Shape, Phases
  <2>5. CASE phase[s] = "open"
    <3>1. PICK i, c : FollowsTo(s, i, c) /\ Answered(s, Reader(script[s])[i].pinged)
      BY <2>3, <2>5 DEF Hears, OpenHears
    <3>2. Stopped(script[s], i, at[s], heard[s])
      BY <2>1, <2>2, <3>1, OpenIsStopped
    <3>3. IsSeq(Reader(script[s])[i].pinged)
      BY <2>1, <2>2, <3>2, PingedIsSeq DEF Stopped
    <3>4. Within(s, Reader(script[s])[i].pinged)
      BY <3>1, <3>3, AnsweredWithin
    <3>5. heard[s] = Said(script[s], at[s] - Len(src[s]))
      BY <2>1, <2>2, <3>1, FollowsSaid
    <3>6. out[s] # "failed" => Pongs(taken[s]) = Pinged(script[s], at[s] - Len(src[s]))
      <4>1. Pinged(script[s], at[s] - Len(src[s])) = Reader(script[s])[i].pinged
        BY <2>1, <2>2, <3>1, FollowsSaid
      <4>2. QED
        BY <3>1, <4>1 DEF Answered, Answers
    <3>7. QED
      BY <2>1, <2>2, <2>3, <2>5, <3>2, <3>4, <3>5, <3>6, StoppedSaid DEF Hears
  <2>6. CASE phase[s] = "closing"
    <3>1. PICK i : Stopped(script[s], i, at[s], heard[s]) /\ Within(s, Reader(script[s])[i].pinged)
      BY <2>3, <2>6 DEF Hears, ClosingHears
    <3>2. QED
      BY <2>1, <2>2, <2>3, <2>4, <2>6, <3>1, StoppedSaid DEF Hears
  <2>7. CASE phase[s] \in {"none", "http", "gone"}
    <3>1. Blank(s)
      BY <2>3, <2>7 DEF Hears, Fresh
    <3>2. Stopped(script[s], 0, at[s], heard[s]) /\ Within(s, Reader(script[s])[0].pinged)
      BY <2>1, <2>2, <3>1, BlankStopped
    <3>3. QED
      BY <2>1, <2>2, <2>3, <2>4, <2>7, <3>2, StoppedSaid DEF Hears
  <2>8. QED
    BY <2>4, <2>5, <2>6, <2>7
<1>2. QED
  BY <1>1, AlwaysHears, PTL
=============================================================================
