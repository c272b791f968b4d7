---------------------------- MODULE WorldProofs ----------------------------
(***************************************************************************)
(* Proofs about World, for any number of players, pixels and any limits,   *)
(* and about the message of a chunk of any length, which a Canvas sends.   *)
(***************************************************************************)
EXTENDS Canvas, OrderLemmas, FiniteSetTheorems, TLAPS

-----------------------------------------------------------------------------
(* The message of a chunk: the table that the first loop of                *)
(* compress_data_to computes, for a chunk d of any length.  E[k] pixels    *)
(* of d are before or in the first k runs of the table R.                  *)

Point == [pos : Nat, length : Nat]

\* Bytes of the message's data before or in the first k runs.
Out(R, k) == IF k = 0 THEN 0 ELSE R[k].pos + 5

\* Run k is of pixels of d that are equal, and has the place it must have.
IsRun(d, R, E, k) ==
  /\ R[k].length >= 3
  /\ E[k - 1] + R[k].length <= E[k]
  /\ R[k].pos = Out(R, k - 1) + 3 * (E[k] - R[k].length - E[k - 1])
  /\ \A p \in (E[k] - R[k].length + 1)..E[k] : d[p] = d[E[k]]

\* R is a table of the first i pixels of d.
IsTable(d, R, E, i) ==
  /\ R \in Seq(Point) /\ E \in [0..Len(R) -> 0..i] /\ E[0] = 0
  /\ \A k \in 1..Len(R) : IsRun(d, R, E, k)
  /\ \A k \in 0..Len(R) : Out(R, k) + 2 * k <= 3 * E[k]

\* The bytes that are counted are those of the runs and of the pixels after.
Counted(s, E, i) ==
  s.compBytes = Out(s.compressedPos, Len(s.compressedPos)) + 3 * (i - E[Len(s.compressedPos)])

\* s is the state of the first loop after i pixels.
IsScanned(s, d, i) ==
  /\ s \in [compBytes : Int, lastclr : Range(d), t : 1..i, compressedPos : Seq(Point)]
  /\ \A p \in (i - s.t + 1)..i : d[p] = s.lastclr
  /\ \E E : /\ IsTable(d, s.compressedPos, E, i) /\ Counted(s, E, i)
            /\ E[Len(s.compressedPos)] <= i - s.t

\* A run has a place and a length.
LEMMA PointType ==
  ASSUME NEW R \in Seq(Point), NEW k \in 1..Len(R)
  PROVE  R[k].pos \in Nat /\ R[k].length \in Nat
<1>1. R[k] \in Point
  OBVIOUS
<1>2. QED
  BY <1>1 DEF Point

LEMMA OutType ==
  ASSUME NEW R \in Seq(Point), NEW k \in 0..Len(R)
  PROVE  Out(R, k) \in Nat
<1>1. CASE k = 0
  BY <1>1 DEF Out
<1>2. CASE k # 0
  <2>1. k \in 1..Len(R)
    BY <1>2
  <2>2. R[k].pos \in Nat
    BY <2>1, PointType
  <2>3. QED
    BY <1>2, <2>2 DEF Out
<1>3. QED
  BY <1>1, <1>2

\* A table of the first i pixels is one of the first j.
LEMMA TableGrows ==
  ASSUME NEW d, NEW R, NEW E, NEW i \in Nat, NEW j \in Nat, i <= j, IsTable(d, R, E, i)
  PROVE  IsTable(d, R, E, j)
<1>1. E \in [0..Len(R) -> 0..j]
  BY DEF IsTable
<1>2. QED
  BY <1>1 DEF IsTable

\* A run of n pixels at the end of the first i, and the place it must have.
EndsIn(d, R, E, i, n, place) ==
  /\ E[Len(R)] <= i - n /\ place = Out(R, Len(R)) + 3 * (i - n - E[Len(R)])
  /\ \A p \in (i - n + 1)..i : d[p] = d[i]
TakesUp(d, R, i, n, place) ==
  \E F : /\ IsTable(d, Append(R, [pos |-> place, length |-> n]), F, i)
         /\ F[Len(R) + 1] = i

\* Such a run becomes the last of the table.
LEMMA TableAppend ==
  ASSUME NEW d, NEW R, NEW E, NEW i \in Nat, IsTable(d, R, E, i),
         NEW n \in 3..i, NEW place \in Nat, EndsIn(d, R, E, i, n, place)
  PROVE  TakesUp(d, R, i, n, place)
<1> DEFINE m == Len(R)
           Q == Append(R, [pos |-> place, length |-> n])
           F == [k \in 0..(m + 1) |-> IF k <= m THEN E[k] ELSE i]
<1>0. /\ E[m] <= i - n /\ place = Out(R, m) + 3 * (i - n - E[m])
      /\ \A p \in (i - n + 1)..i : d[p] = d[i]
  BY DEF EndsIn
<1>1. R \in Seq(Point) /\ m \in Nat /\ E \in [0..m -> 0..i] /\ E[0] = 0
  BY DEF IsTable
<1>2. Q \in Seq(Point) /\ Len(Q) = m + 1 /\ Q[m + 1] = [pos |-> place, length |-> n]
  <2>1. [pos |-> place, length |-> n] \in Point
    BY DEF Point
  <2>2. QED
    BY <1>1, <2>1
<1>3. \A k \in 1..m : Q[k] = R[k]
  BY <1>1
<1>4. F \in [0..(m + 1) -> 0..i] /\ F[0] = 0 /\ F[m + 1] = i
  BY <1>1
<1>5. \A k \in 0..m : F[k] = E[k]
  BY <1>1
<1>6. \A k \in 0..m : Out(Q, k) = Out(R, k)
  BY <1>1, <1>3 DEF Out
<1>7. Out(Q, m + 1) = place + 5
  BY <1>1, <1>2 DEF Out
<1> HIDE DEF Q, F
<1>8. \A k \in 1..(m + 1) : IsRun(d, Q, F, k)
  <2>1. ASSUME NEW k \in 1..m
        PROVE  IsRun(d, Q, F, k)
    <3>1. IsRun(d, R, E, k)
      BY DEF IsTable
    <3>2. F[k] = E[k] /\ F[k - 1] = E[k - 1] /\ Q[k] = R[k] /\ Out(Q, k - 1) = Out(R, k - 1)
      BY <1>1, <1>3, <1>5, <1>6
    <3>3. QED
      BY <3>1, <3>2 DEF IsRun
  <2>2. IsRun(d, Q, F, m + 1)
    <3>1. (m + 1) - 1 = m /\ F[m] = E[m] /\ Out(Q, m) = Out(R, m)
      BY <1>1, <1>5, <1>6
    <3>2. E[m] + n <= i
      BY <1>0, <1>1
    <3>3. QED
      BY <1>0, <1>2, <1>4, <3>1, <3>2 DEF IsRun
  <2>3. QED
    BY <1>1, <2>1, <2>2
<1>9. \A k \in 0..(m + 1) : Out(Q, k) + 2 * k <= 3 * F[k]
  <2>1. ASSUME NEW k \in 0..m
        PROVE  Out(Q, k) + 2 * k <= 3 * F[k]
    BY <1>5, <1>6 DEF IsTable
  <2>2. Out(Q, m + 1) + 2 * (m + 1) <= 3 * F[m + 1]
    <3>1. Out(R, m) + 2 * m <= 3 * E[m]
      BY <1>1 DEF IsTable
    <3>2. Out(R, m) \in Nat /\ E[m] \in Nat
      BY <1>1, OutType
    <3>3. place = Out(R, m) + 3 * (i - n - E[m]) /\ E[m] + n <= i
      BY <1>0, <1>1, <3>2
    <3>4. \A o, e \in Nat : o + 2 * m <= 3 * e /\ e + n <= i
                           => o + 3 * (i - n - e) + 5 + 2 * (m + 1) <= 3 * i
      BY <1>1
    <3>5. place + 5 + 2 * (m + 1) <= 3 * i
      BY <3>1, <3>2, <3>3, <3>4
    <3>6. QED
      BY <1>4, <1>7, <3>5
  <2>3. \A k \in 0..(m + 1) : k \in 0..m \/ k = m + 1
    BY <1>1
  <2>4. QED
    BY <2>1, <2>2, <2>3, Zenon
<1>10. IsTable(d, Q, F, i)
  BY <1>2, <1>4, <1>8, <1>9 DEF IsTable
<1>11. QED
  BY <1>4, <1>10, Zenon DEF Q, TakesUp

\* What the end of a run makes of the table: it is still one, and the bytes
\* are counted.
LEMMA WithRunTable ==
  ASSUME NEW d, NEW i \in Nat \ {0}, NEW s, IsScanned(s, d, i)
  PROVE  /\ WithRun(s) \in [compBytes : Int, lastclr : Range(d), t : 1..i,
                            compressedPos : Seq(Point)]
         /\ \E E : /\ IsTable(d, WithRun(s).compressedPos, E, i)
                   /\ Counted(WithRun(s), E, i)
<1> DEFINE R == s.compressedPos
           m == Len(R)
<1>1. PICK E : /\ IsTable(d, R, E, i) /\ Counted(s, E, i)
               /\ E[m] <= i - s.t
  BY DEF IsScanned
<1>2. /\ s \in [compBytes : Int, lastclr : Range(d), t : 1..i, compressedPos : Seq(Point)]
      /\ \A p \in (i - s.t + 1)..i : d[p] = s.lastclr
  BY DEF IsScanned
<1>3. CASE s.t < MinRun
  <2>1. WithRun(s) = s
    BY <1>3 DEF WithRun
  <2>2. QED
    BY <1>1, <1>2, <2>1
<1>4. CASE ~(s.t < MinRun)
  <2> DEFINE place == RunStart(s)
             Q == Append(R, [pos |-> place, length |-> s.t])
  <2>1. s.t \in 3..i /\ s.compBytes \in Int /\ m \in Nat /\ R \in Seq(Point)
    BY <1>2, <1>4 DEF MinRun
  <2>2. WithRun(s) \in [compBytes : {place + 5}, lastclr : Range(d), t : 1..i,
                            compressedPos : {Q}]
    <3>1. WithRun(s) = [[s EXCEPT !.compressedPos = Q] EXCEPT !.compBytes = place + LengthBytes + PixelBytes]
      BY <1>4 DEF WithRun
    <3>2. [s EXCEPT !.compressedPos = Q]
            \in [compBytes : Int, lastclr : Range(d), t : 1..i, compressedPos : {Q}]
      <4> HIDE DEF place, Q, R
      <4> QED
        BY <1>2
    <3>3. LengthBytes + PixelBytes = 5 /\ place \in Int
      BY <2>1 DEF LengthBytes, PixelBytes, RunStart
    <3>4. place + LengthBytes + PixelBytes = place + 5
      BY <3>3 DEF LengthBytes, PixelBytes
    <3>5. \A r \in [compBytes : Int, lastclr : Range(d), t : 1..i, compressedPos : {Q}] :
            [r EXCEPT !.compBytes = place + 5]
              \in [compBytes : {place + 5}, lastclr : Range(d), t : 1..i, compressedPos : {Q}]
      <4> HIDE DEF place, Q, R
      <4> QED
        OBVIOUS
    <3>6. QED
      BY <3>1, <3>2, <3>4, <3>5, Zenon
  <2>3. place = s.compBytes - 3 * s.t
    BY <2>1 DEF RunStart, PixelBytes
  <2>4. E[m] \in 0..i /\ Out(R, m) \in Nat
    <3>1. E \in [0..m -> 0..i]
      BY <1>1 DEF IsTable
    <3>2. QED
      BY <2>1, <3>1, OutType
  <2>5. place = Out(R, m) + 3 * (i - s.t - E[m])
    <3>1. s.compBytes = Out(R, m) + 3 * (i - E[m])
      BY <1>1 DEF Counted
    <3>2. \A o, e, n \in Int : o + 3 * (i - e) - 3 * n = o + 3 * (i - n - e)
      OBVIOUS
    <3>3. Out(R, m) \in Int /\ E[m] \in Int /\ s.t \in Int
      BY <2>1, <2>4
    <3>4. QED
      BY <2>3, <3>1, <3>2, <3>3
  <2>6. place \in Nat
    BY <1>1, <2>1, <2>4, <2>5
  <2>7. \A p \in (i - s.t + 1)..i : d[p] = d[i]
    BY <1>2, <2>1
  <2> HIDE DEF place
  <2>8. PICK F : IsTable(d, Q, F, i) /\ F[m + 1] = i
    <3>1. EndsIn(d, R, E, i, s.t, place)
      BY <1>1, <2>5, <2>7, Zenon DEF EndsIn
    <3>2. TakesUp(d, R, i, s.t, place)
      BY <1>1, <2>1, <2>6, <3>1, TableAppend
    <3>3. QED
      BY <3>2, Zenon DEF TakesUp
  <2>9. Q \in Seq(Point) /\ Len(Q) = m + 1 /\ Q[m + 1].pos = place
    <3>1. [pos |-> place, length |-> s.t] \in Point
      BY <2>1, <2>6 DEF Point
    <3>2. QED
      BY <2>1, <3>1
  <2>10. Out(Q, m + 1) = place + 5
    BY <2>1, <2>9 DEF Out
  <2> HIDE DEF Q
  <2>11. WithRun(s) \in [compBytes : Int, lastclr : Range(d), t : 1..i, compressedPos : Seq(Point)]
    BY <2>2, <2>6, <2>9
  <2>12. WithRun(s).compressedPos = Q /\ WithRun(s).compBytes = place + 5
    BY <2>2
  <2>13. Counted(WithRun(s), F, i)
    BY <2>6, <2>8, <2>9, <2>10, <2>12 DEF Counted
  <2>14. QED
    BY <2>8, <2>11, <2>12, <2>13
<1>5. QED
  BY <1>3, <1>4

\* The last run of a table ends in the pixels it is of.
LEMMA EndType ==
  ASSUME NEW d, NEW R \in Seq(Point), NEW i \in Nat, NEW E, IsTable(d, R, E, i)
  PROVE  E[Len(R)] \in 0..i
BY DEF IsTable

\* A pixel that no run takes up yet is counted with its three bytes.
LEMMA CountedGrows ==
  ASSUME NEW d, NEW s, NEW u, NEW j \in Nat, NEW E, s.compressedPos \in Seq(Point),
         IsTable(d, s.compressedPos, E, j), Counted(s, E, j), s.compBytes \in Int,
         u.compressedPos = s.compressedPos, u.compBytes = s.compBytes + 3
  PROVE  Counted(u, E, j + 1)
<1> DEFINE o == Out(s.compressedPos, Len(s.compressedPos))
           e == E[Len(s.compressedPos)]
<1>1. e \in Int
  BY EndType
<1>2. Len(s.compressedPos) \in 0..Len(s.compressedPos)
  OBVIOUS
<1>3. o \in Int
  BY <1>2, OutType
<1>4. s.compBytes = o + 3 * (j - e)
  BY DEF Counted
<1> HIDE DEF o, e
<1>5. u.compBytes = o + 3 * ((j + 1) - e)
  BY <1>1, <1>3, <1>4
<1>6. u.compBytes = Out(u.compressedPos, Len(u.compressedPos))
                      + 3 * ((j + 1) - E[Len(u.compressedPos)])
  BY <1>5, Zenon DEF o, e
<1>7. QED
  BY <1>6 DEF Counted

\* What a turn of the loop assigns, field by field.
LEMMA SetCompBytes ==
  ASSUME NEW B, NEW C, NEW T, NEW Q, NEW b,
         NEW s \in [compBytes : B, lastclr : C, t : T, compressedPos : Q]
  PROVE  [s EXCEPT !.compBytes = b] \in [compBytes : {b}, lastclr : C, t : T, compressedPos : Q]
OBVIOUS

LEMMA SetLastclr ==
  ASSUME NEW B, NEW C, NEW T, NEW Q, NEW c,
         NEW s \in [compBytes : B, lastclr : C, t : T, compressedPos : Q]
  PROVE  [s EXCEPT !.lastclr = c] \in [compBytes : B, lastclr : {c}, t : T, compressedPos : Q]
OBVIOUS

LEMMA SetT ==
  ASSUME NEW B, NEW C, NEW T, NEW Q, NEW n,
         NEW s \in [compBytes : B, lastclr : C, t : T, compressedPos : Q]
  PROVE  [s EXCEPT !.t = n] \in [compBytes : B, lastclr : C, t : {n}, compressedPos : Q]
OBVIOUS

LEMMA Fields ==
  ASSUME NEW B, NEW C, NEW T, NEW Q,
         NEW s \in [compBytes : B, lastclr : C, t : T, compressedPos : Q]
  PROVE  s \in [compBytes : {s.compBytes}, lastclr : {s.lastclr}, t : {s.t},
                compressedPos : {s.compressedPos}]
OBVIOUS

\* One more pixel of the colour of the last run.
LEMMA SameFields ==
  ASSUME NEW B, NEW C, NEW T, NEW Q, NEW b, NEW n,
         NEW s \in [compBytes : B, lastclr : C, t : T, compressedPos : Q]
  PROVE  [s EXCEPT !.compBytes = b, !.t = n]
           \in [compBytes : {b}, lastclr : {s.lastclr}, t : {n},
                compressedPos : {s.compressedPos}]
<1> DEFINE r == [s EXCEPT !.compBytes = b]
<1>1. r \in [compBytes : {b}, lastclr : {s.lastclr}, t : {s.t}, compressedPos : {s.compressedPos}]
  BY Fields, SetCompBytes, Zenon
<1>2. [s EXCEPT !.compBytes = b, !.t = n] = [r EXCEPT !.t = n]
  BY Zenon
<1>3. QED
  BY <1>1, <1>2, SetT, Zenon

\* The first pixel of another colour.
LEMMA EndedFields ==
  ASSUME NEW B, NEW C, NEW T, NEW Q, NEW b, NEW c, NEW n,
         NEW s \in [compBytes : B, lastclr : C, t : T, compressedPos : Q]
  PROVE  [s EXCEPT !.compBytes = b, !.lastclr = c, !.t = n]
           \in [compBytes : {b}, lastclr : {c}, t : {n}, compressedPos : {s.compressedPos}]
<1> DEFINE r == [s EXCEPT !.compBytes = b]
           q == [r EXCEPT !.lastclr = c]
<1>1. r \in [compBytes : {b}, lastclr : {s.lastclr}, t : {s.t}, compressedPos : {s.compressedPos}]
  BY Fields, SetCompBytes, Zenon
<1>2. q \in [compBytes : {b}, lastclr : {c}, t : {s.t}, compressedPos : {s.compressedPos}]
  BY <1>1, SetLastclr, Zenon
<1>3. [s EXCEPT !.compBytes = b, !.lastclr = c, !.t = n] = [q EXCEPT !.t = n]
  BY Zenon
<1>4. QED
  BY <1>2, <1>3, SetT, Zenon

\* One turn of the first loop.
LEMMA ScannedStep ==
  ASSUME NEW C, NEW n \in Nat, NEW d \in [1..n -> C], NEW i \in 2..n, NEW s,
         IsScanned(s, d, i - 1)
  PROVE  IsScanned(Scanned(s, d[i]), d, i)
<1> DEFINE j == i - 1
           w == WithRun(s)
           clr == d[i]
           Types == [compBytes : Int, lastclr : Range(d), t : 1..i, compressedPos : Seq(Point)]
<1>1. j \in Nat \ {0} /\ i = j + 1 /\ clr \in Range(d)
  BY DEF Range
<1>2. s \in [compBytes : Int, lastclr : Range(d), t : 1..j, compressedPos : Seq(Point)]
  BY DEF IsScanned
<1>3. CASE clr = s.lastclr
  <2> DEFINE u == [s EXCEPT !.compBytes = @ + PixelBytes, !.t = @ + 1]
  <2>1. Scanned(s, clr) = u
    BY <1>3 DEF Scanned
  <2>2. /\ u \in Types
        /\ u.compBytes = s.compBytes + 3 /\ u.t = s.t + 1
        /\ u.lastclr = s.lastclr /\ u.compressedPos = s.compressedPos
    <3>1. u \in [compBytes : {s.compBytes + PixelBytes}, lastclr : {s.lastclr}, t : {s.t + 1},
                  compressedPos : {s.compressedPos}]
      BY <1>2, SameFields, Zenon
    <3> HIDE DEF u
    <3>2. /\ u.compBytes = s.compBytes + PixelBytes /\ u.t = s.t + 1
          /\ u.lastclr = s.lastclr /\ u.compressedPos = s.compressedPos
      BY <3>1
    <3>3. s.compBytes + PixelBytes \in Int /\ s.t + 1 \in 1..i
      BY <1>1, <1>2 DEF PixelBytes
    <3>4. u \in Types
      BY <1>2, <3>1, <3>3
    <3>5. QED
      BY <3>2, <3>4 DEF PixelBytes
  <2> HIDE DEF u
  <2>3. ASSUME NEW p \in (i - u.t + 1)..i
        PROVE  d[p] = u.lastclr
    <3>1. CASE p = i
      BY <1>3, <2>2, <3>1
    <3>2. CASE p # i
      <4>1. p \in (j - s.t + 1)..j
        BY <1>1, <1>2, <2>2, <3>2
      <4>2. QED
        BY <2>2, <4>1 DEF IsScanned
    <3>3. QED
      BY <3>1, <3>2
  <2>4. PICK E : /\ IsTable(d, s.compressedPos, E, j) /\ Counted(s, E, j)
                 /\ E[Len(s.compressedPos)] <= j - s.t
    BY DEF IsScanned
  <2>5. IsTable(d, u.compressedPos, E, i)
    BY <1>1, <2>2, <2>4, TableGrows
  <2>6. Counted(u, E, i)
    <3>1. s.compressedPos \in Seq(Point) /\ s.compBytes \in Int
      BY <1>2
    <3>2. Counted(u, E, j + 1)
      BY <1>1, <2>2, <2>4, <3>1, CountedGrows, Zenon
    <3>3. QED
      BY <1>1, <3>2, Zenon
  <2>7. E[Len(u.compressedPos)] <= i - u.t
    <3>1. E[Len(s.compressedPos)] \in Int
      BY <1>1, <1>2, <2>4, EndType
    <3>2. i - u.t = j - s.t
      BY <1>1, <1>2, <2>2
    <3>3. QED
      BY <2>2, <2>4, <3>2
  <2>8. QED
    BY <2>1, <2>2, <2>3, <2>5, <2>6, <2>7 DEF IsScanned
<1>4. CASE clr # s.lastclr
  <2> DEFINE u == [w EXCEPT !.compBytes = @ + PixelBytes, !.lastclr = clr, !.t = 1]
  <2>1. Scanned(s, clr) = u
    BY <1>4 DEF Scanned
  <2>2. w \in [compBytes : Int, lastclr : Range(d), t : 1..j, compressedPos : Seq(Point)]
    BY <1>1, WithRunTable
  <2>3. PICK E : IsTable(d, w.compressedPos, E, j) /\ Counted(w, E, j)
    BY <1>1, WithRunTable
  <2> HIDE DEF w
  <2>4. /\ u \in Types
        /\ u.compBytes = w.compBytes + 3 /\ u.t = 1
        /\ u.lastclr = clr /\ u.compressedPos = w.compressedPos
    <3>1. u \in [compBytes : {w.compBytes + PixelBytes}, lastclr : {clr}, t : {1},
                  compressedPos : {w.compressedPos}]
      BY <2>2, EndedFields, Zenon
    <3> HIDE DEF u
    <3>2. /\ u.compBytes = w.compBytes + PixelBytes /\ u.t = 1
          /\ u.lastclr = clr /\ u.compressedPos = w.compressedPos
      BY <3>1
    <3>3. w.compBytes + PixelBytes \in Int /\ 1 \in 1..i
      BY <1>1, <2>2 DEF PixelBytes
    <3>4. u \in Types
      BY <1>1, <2>2, <3>1, <3>3
    <3>5. QED
      BY <3>2, <3>4 DEF PixelBytes
  <2> HIDE DEF u
  <2>5. \A p \in (i - u.t + 1)..i : d[p] = u.lastclr
    BY <1>1, <2>4
  <2>6. IsTable(d, u.compressedPos, E, i)
    BY <1>1, <2>3, <2>4, TableGrows
  <2>7. Counted(u, E, i)
    <3>1. w.compressedPos \in Seq(Point) /\ w.compBytes \in Int
      BY <2>2
    <3>2. j \in Nat
      BY <1>1
    <3>3. Counted(u, E, j + 1)
      BY <2>3, <2>4, <3>1, <3>2, CountedGrows, Zenon
    <3>4. QED
      BY <1>1, <3>3, Zenon
  <2>8. E[Len(u.compressedPos)] <= i - u.t
    <3>1. E[Len(w.compressedPos)] \in 0..j
      BY <1>1, <2>2, <2>3, EndType
    <3>2. i - u.t = j
      BY <1>1, <2>4
    <3>3. QED
      BY <1>1, <2>4, <3>1, <3>2
  <2>9. QED
    BY <2>1, <2>4, <2>5, <2>6, <2>7, <2>8 DEF IsScanned
<1>5. QED
  BY <1>3, <1>4

\* f[i] is the state of the first loop after i of the n pixels of d.
Begun(d) == [compBytes |-> PixelBytes, lastclr |-> d[1], t |-> 1, compressedPos |-> <<>>]
IsScan(f, d, n) ==
  f = [i \in 1..n |-> IF i = 1 THEN Begun(d) ELSE Scanned(f[i - 1], d[i])]

\* A chunk is a sequence of its pixels.
LEMMA DrawingLen ==
  ASSUME NEW C, NEW n \in Nat, NEW d \in [1..n -> C]
  PROVE  d \in Seq(C) /\ Len(d) = n
OBVIOUS

\* The first loop begins with one pixel and no run.
LEMMA ScannedFirst ==
  ASSUME NEW C, NEW n \in Nat \ {0}, NEW d \in [1..n -> C]
  PROVE  IsScanned(Begun(d), d, 1)
<1> DEFINE s == Begun(d)
           E == [k \in 0..0 |-> 0]
<1>1. d[1] \in Range(d)
  BY DEF Range
<1>2. /\ s.compBytes = 3 /\ s.lastclr = d[1] /\ s.t = 1 /\ s.compressedPos = <<>>
      /\ s \in [compBytes : Int, lastclr : Range(d), t : 1..1, compressedPos : Seq(Point)]
  BY <1>1 DEF Begun, PixelBytes
<1> HIDE DEF s
<1>3. IsTable(d, s.compressedPos, E, 1)
  BY <1>2 DEF IsTable, Out
<1>4. Counted(s, E, 1)
  BY <1>2 DEF Counted, Out
<1>5. \A p \in (1 - s.t + 1)..1 : d[p] = s.lastclr
  BY <1>2
<1>6. E[Len(s.compressedPos)] <= 1 - s.t
  BY <1>2
<1>7. IsScanned(s, d, 1)
  BY <1>2, <1>3, <1>4, <1>5, <1>6 DEF IsScanned
<1>8. QED
  BY <1>7 DEF s


LEMMA ScanExists ==
  ASSUME NEW d, NEW n \in Nat
  PROVE  \E f : IsScan(f, d, n)
<1> DEFINE S == {m \in 0..n : \E f : IsScan(f, d, m)}
<1>1. 0 \in S
  <2> DEFINE f == [i \in 1..0 |-> IF i = 1 THEN Begun(d) ELSE Begun(d)]
  <2>1. IsScan(f, d, 0)
    BY DEF IsScan
  <2>2. QED
    BY <2>1
<1>2. ASSUME NEW m \in 1..n, m - 1 \in S
      PROVE  m \in S
  <2>1. PICK f : IsScan(f, d, m - 1)
    BY <1>2
  <2> DEFINE g == [i \in 1..m |-> IF i < m THEN f[i]
                                  ELSE IF i = 1 THEN Begun(d) ELSE Scanned(f[i - 1], d[i])]
  <2>2. \A i \in 1..(m - 1) : g[i] = f[i]
    OBVIOUS
  <2>3. ASSUME NEW i \in 1..m
        PROVE  g[i] = IF i = 1 THEN Begun(d) ELSE Scanned(g[i - 1], d[i])
    <3>1. i # 1 => g[i - 1] = f[i - 1]
      BY <2>2
    <3>2. g[i] = IF i = 1 THEN Begun(d) ELSE Scanned(f[i - 1], d[i])
      <4>1. CASE i < m
        <5>1. i \in 1..(m - 1)
          BY <4>1
        <5>2. f[i] = IF i = 1 THEN Begun(d) ELSE Scanned(f[i - 1], d[i])
          BY <2>1, <5>1 DEF IsScan
        <5>3. QED
          BY <2>2, <5>1, <5>2
      <4>2. CASE ~(i < m)
        BY <4>2
      <4>3. QED
        BY <4>1, <4>2
    <3> HIDE DEF g
    <3>3. QED
      BY <3>1, <3>2
  <2>4. g = [i \in 1..m |-> IF i = 1 THEN Begun(d) ELSE Scanned(g[i - 1], d[i])]
    <3>1. g = [i \in 1..m |-> g[i]]
      OBVIOUS
    <3> HIDE DEF g
    <3>2. QED
      BY <2>3, <3>1
  <2>5. IsScan(g, d, m)
    BY <2>4, Zenon DEF IsScan
  <2>6. QED
    BY <2>5
<1>3. n \in S
  <2> HIDE DEF S
  <2> QED
    BY <1>1, <1>2, UpTo
<1>4. QED
  BY <1>3

\* What the first loop leaves: a table of all of d, and the bytes counted.
LEMMA TableCorrect ==
  ASSUME NEW C, NEW n \in Nat \ {0}, NEW d \in [1..n -> C]
  PROVE  /\ Table(d).compressedPos \in Seq(Point)
         /\ \E E : IsTable(d, Table(d).compressedPos, E, n) /\ Counted(Table(d), E, n)
<1> DEFINE scan == CHOOSE f : f = [i \in 1..n |-> IF i = 1 THEN Begun(d)
                                                   ELSE Scanned(f[i - 1], d[i])]
<1>1. Len(d) = n
  BY DrawingLen
<1>2. Table(d) = WithRun(scan[n])
  BY <1>1 DEF Table, Begun
<1>3. IsScan(scan, d, n)
  <2>1. \E f : f = [i \in 1..n |-> IF i = 1 THEN Begun(d) ELSE Scanned(f[i - 1], d[i])]
    BY ScanExists DEF IsScan
  <2>2. QED
    BY <2>1, Zenon DEF IsScan
<1> HIDE DEF scan
<1> DEFINE S == {m \in 0..n : m = 0 \/ IsScanned(scan[m], d, m)}
<1>4. 0 \in S
  OBVIOUS
<1>5. ASSUME NEW m \in 1..n, m - 1 \in S
      PROVE  m \in S
  <2>1. CASE m = 1
    <3>1. scan[1] = Begun(d)
      BY <1>3, <2>1 DEF IsScan
    <3>2. IsScanned(Begun(d), d, 1)
      BY ScannedFirst
    <3>3. QED
      BY <2>1, <3>1, <3>2
  <2>2. CASE m # 1
    <3>1. m \in 2..n /\ IsScanned(scan[m - 1], d, m - 1)
      BY <1>5, <2>2
    <3>2. scan[m] = Scanned(scan[m - 1], d[m])
      BY <1>3, <3>1 DEF IsScan
    <3>3. IsScanned(Scanned(scan[m - 1], d[m]), d, m)
      BY <3>1, ScannedStep
    <3>4. QED
      BY <3>2, <3>3
  <2>3. QED
    BY <2>1, <2>2
<1>6. n \in S
  <2> HIDE DEF S
  <2> QED
    BY <1>4, <1>5, UpTo
<1>7. IsScanned(scan[n], d, n)
  BY <1>6
<1> DEFINE w == WithRun(scan[n])
<1>8. /\ w \in [compBytes : Int, lastclr : Range(d), t : 1..n, compressedPos : Seq(Point)]
      /\ \E E : IsTable(d, w.compressedPos, E, n) /\ Counted(w, E, n)
  BY <1>7, WithRunTable
<1>9. w.compressedPos \in Seq(Point)
  <2> HIDE DEF w
  <2> QED
    BY <1>8
<1>10. QED
  BY <1>2, <1>8, <1>9, Zenon

\* A byte of the message: one of a pixel, or of a length.
Bytes(C) == (C \cup Nat) \X (0..2)
Copying(C) == [out : Seq(Bytes(C)), di : Nat]

\* After the first base bytes there are the pixels of d after p up to q.
Pixels(out, d, base, p, q) ==
  \A e \in p..(q - 1) : \A b \in 1..3 : out[base + 3 * (e - p) + b] = <<d[e + 1], b - 1>>

\* What the message holds for run k: the pixels before it, its length, and one
\* of its pixels.
Area(out, d, R, E, k) ==
  /\ Out(R, k) <= Len(out)
  /\ Pixels(out, d, Out(R, k - 1), E[k - 1], E[k] - R[k].length)
  /\ out[R[k].pos + 1] = <<R[k].length, 0>>
  /\ Pixels(out, d, R[k].pos + 2, E[k] - R[k].length, E[k] - R[k].length + 1)

\* c is the state of the second loop after k runs.
IsCopied(c, C, d, R, E, k) ==
  /\ c \in Copying(C) /\ Len(c.out) = Out(R, k) /\ c.di = 3 * E[k]
  /\ \A j \in 1..k : Area(c.out, d, R, E, j)

Extends(new, old) == Len(old) <= Len(new) /\ \A j \in 1..Len(old) : new[j] = old[j]

\* The three bytes of a pixel.
LEMMA DivMod ==
  ASSUME NEW p \in Nat, NEW b \in 0..2
  PROVE  (3 * p + b) \div 3 = p /\ (3 * p + b) % 3 = b
OBVIOUS

LEMMA ModDiv ==
  ASSUME NEW x \in Nat
  PROVE  x \div 3 \in Nat /\ x % 3 \in 0..2 /\ x = 3 * (x \div 3) + (x % 3)
OBVIOUS

Joined(a, q, r) == a = q \o r
Behind(a, q, r) ==
  /\ Len(a) = Len(q) + Len(r)
  /\ \A j \in 1..Len(q) : a[j] = q[j]
  /\ \A k \in 1..Len(r) : a[Len(q) + k] = r[k]

\* What is in a sequence that another is put behind.
LEMMA JoinFacts ==
  ASSUME NEW S, NEW q \in Seq(S), NEW r \in Seq(S), NEW a, Joined(a, q, r)
  PROVE  a \in Seq(S) /\ Behind(a, q, r)
BY DEF Joined, Behind

At(c, e) == c.di = 3 * e
IsCopy(r, c, d, q) == r = Copied(c, d, 3 * q)

CopyDone(r, C, c, d, e, q) ==
  /\ r \in Copying(C) /\ At(r, e + q) /\ Len(r.out) = Len(c.out) + 3 * q
  /\ Extends(r.out, c.out) /\ Pixels(r.out, d, Len(c.out), e, e + q)

\* What while (ci < ...) curr[ci++] = data[di++] appends, for whole pixels.
LEMMA CopiedPixels ==
  ASSUME NEW C, NEW n \in Nat, NEW d \in [1..n -> C], NEW c \in Copying(C),
         NEW e \in Nat, NEW q \in Nat, At(c, e), e + q <= n,
         NEW r, IsCopy(r, c, d, q)
  PROVE  CopyDone(r, C, c, d, e, q)
<1> DEFINE new == [k \in 1..(3 * q) |-> ByteOf(d, c.di + k - 1)]
           out == c.out \o new
           L == Len(c.out)
<1>0. c.di = 3 * e
  BY DEF At
<1>1. c.out \in Seq(Bytes(C)) /\ c.di \in Nat /\ L \in Nat
  BY DEF Copying
<1>2. \A k \in 1..(3 * q) : ByteOf(d, c.di + k - 1) \in Bytes(C)
  <2> TAKE k \in 1..(3 * q)
  <2> DEFINE x == 3 * e + k - 1
  <2>1. x \in Nat /\ x < 3 * (e + q)
    OBVIOUS
  <2> HIDE DEF x
  <2>2. x \div 3 \in Nat /\ x % 3 \in 0..2 /\ x = 3 * (x \div 3) + (x % 3)
    BY <2>1, ModDiv
  <2>3. (x \div 3) + 1 \in 1..n
    BY <2>1, <2>2
  <2>4. ByteOf(d, x) = <<d[(x \div 3) + 1], x % 3>>
    BY DEF ByteOf, PixelBytes
  <2>5. ByteOf(d, x) \in Bytes(C)
    <3>1. d[(x \div 3) + 1] \in C
      BY <2>3
    <3>2. QED
      BY <2>2, <2>4, <3>1 DEF Bytes
  <2>6. QED
    BY <1>0, <2>5 DEF x
<1>3. new \in Seq(Bytes(C)) /\ Len(new) = 3 * q
  <2>1. new \in [1..(3 * q) -> Bytes(C)]
    BY <1>2, Zenon
  <2>2. 3 * q \in Nat
    OBVIOUS
  <2> HIDE DEF new
  <2>3. QED
    BY <2>1, <2>2, DrawingLen
<1>4. \A k \in 1..(3 * q) : new[k] = ByteOf(d, c.di + k - 1)
  BY Zenon
<1> HIDE DEF new
<1>5. /\ out \in Seq(Bytes(C)) /\ Len(out) = L + 3 * q
      /\ \A j \in 1..L : out[j] = c.out[j]
      /\ \A k \in 1..(3 * q) : out[L + k] = new[k]
  <2> Joined(out, c.out, new)
    BY Zenon DEF Joined
  <2> HIDE DEF out
  <2>1. out \in Seq(Bytes(C)) /\ Behind(out, c.out, new)
    BY <1>1, <1>3, JoinFacts
  <2>2. QED
    BY <1>3, <2>1, Zenon DEF Behind
<1> HIDE DEF out, L
<1>6. Pixels(out, d, L, e, e + q)
  <2> SUFFICES ASSUME NEW p \in e..((e + q) - 1), NEW b \in 1..3
               PROVE  out[L + 3 * (p - e) + b] = <<d[p + 1], b - 1>>
    BY Zenon DEF Pixels
  <2> DEFINE k == 3 * (p - e) + b
  <2>1. k \in 1..(3 * q) /\ L + 3 * (p - e) + b = L + k
    BY <1>1
  <2>2. c.di + k - 1 = 3 * p + (b - 1) /\ p \in Nat /\ b - 1 \in 0..2
    BY <1>0
  <2> HIDE DEF k
  <2>3. out[L + k] = ByteOf(d, c.di + k - 1)
    BY <1>4, <1>5, <2>1
  <2>4. ByteOf(d, 3 * p + (b - 1)) = <<d[p + 1], b - 1>>
    <3>1. (3 * p + (b - 1)) \div 3 = p /\ (3 * p + (b - 1)) % 3 = b - 1
      BY <2>2, DivMod
    <3>2. QED
      BY <3>1, Zenon DEF ByteOf, PixelBytes
  <2>5. QED
    BY <2>1, <2>2, <2>3, <2>4, Zenon
<1>7. r = [out |-> out, di |-> c.di + 3 * q]
  BY Zenon DEF IsCopy, Copied, new, out
<1>8. c.di + 3 * q \in Nat /\ c.di + 3 * q = 3 * (e + q)
  BY <1>0
<1>9. Extends(out, c.out)
  <2>1. L = Len(c.out)
    BY DEF L
  <2>2. L <= Len(out)
    BY <1>1, <1>5
  <2>3. QED
    BY <1>5, <2>1, <2>2 DEF Extends
<1>10. r.out = out /\ r.di = 3 * (e + q) /\ r \in Copying(C)
  BY <1>5, <1>7, <1>8 DEF Copying
<1>11. QED
  BY <1>5, <1>6, <1>9, <1>10, Zenon DEF L, At, CopyDone

\* What is written of a run stays as it is.
LEMMA PixelsKept ==
  ASSUME NEW new, NEW old, NEW d, NEW base \in Nat, NEW p \in Nat, NEW q \in Nat,
         Len(old) \in Nat, Extends(new, old), base + 3 * (q - p) <= Len(old),
         Pixels(old, d, base, p, q)
  PROVE  Pixels(new, d, base, p, q)
<1> SUFFICES ASSUME NEW e \in p..(q - 1), NEW b \in 1..3
             PROVE  new[base + 3 * (e - p) + b] = <<d[e + 1], b - 1>>
  BY Zenon DEF Pixels
<1>1. base + 3 * (e - p) + b \in 1..Len(old)
  OBVIOUS
<1>2. QED
  BY <1>1 DEF Pixels, Extends

LEMMA ExtendsTrans ==
  ASSUME NEW a, NEW b, NEW c, Len(a) \in Nat, Len(b) \in Nat, Len(c) \in Nat,
         Extends(b, a), Extends(c, b)
  PROVE  Extends(c, a)
BY DEF Extends

\* The places and ends of a run are numbers, and it lies behind the one before.
RunOk(R, E, n, k) ==
  /\ k \in Nat /\ k - 1 \in Nat /\ R[k].pos \in Nat /\ R[k].length \in Nat
  /\ E[k - 1] \in Nat /\ E[k] \in Nat /\ E[k] <= n
  /\ Out(R, k - 1) \in Nat /\ Out(R, k) = R[k].pos + 5
  /\ R[k].length >= 3 /\ E[k - 1] + R[k].length <= E[k]
  /\ R[k].pos = Out(R, k - 1) + 3 * (E[k] - R[k].length - E[k - 1])
  /\ Out(R, k - 1) <= R[k].pos

LEMMA RunFacts ==
  ASSUME NEW d, NEW R, NEW E, NEW n \in Nat, IsTable(d, R, E, n), NEW k \in 1..Len(R)
  PROVE  RunOk(R, E, n, k)
<1>1. R \in Seq(Point) /\ E \in [0..Len(R) -> 0..n] /\ Len(R) \in Nat
  BY DEF IsTable
<1>2. k \in 0..Len(R) /\ k - 1 \in 0..Len(R) /\ k \in Nat /\ k - 1 \in Nat /\ k # 0
  BY <1>1
<1>3. R[k].pos \in Nat /\ R[k].length \in Nat
  BY <1>1, PointType
<1>4. E[k - 1] \in 0..n /\ E[k] \in 0..n
  BY <1>1, <1>2
<1>5. Out(R, k - 1) \in Nat /\ Out(R, k) = R[k].pos + 5
  BY <1>1, <1>2, OutType DEF Out
<1>6. IsRun(d, R, E, k)
  BY DEF IsTable
<1>7. \A o, a, b, l \in Nat : a + l <= b => o <= o + 3 * (b - l - a)
  OBVIOUS
<1>8. E[k - 1] \in Nat /\ E[k] \in Nat /\ E[k] <= n
  BY <1>4
<1>9. /\ R[k].length >= 3 /\ E[k - 1] + R[k].length <= E[k]
      /\ R[k].pos = Out(R, k - 1) + 3 * (E[k] - R[k].length - E[k - 1])
  BY <1>6, Zenon DEF IsRun
<1>10. Out(R, k - 1) <= R[k].pos
  <2>1. E[k - 1] + R[k].length <= E[k]
          => Out(R, k - 1) <= Out(R, k - 1) + 3 * (E[k] - R[k].length - E[k - 1])
    BY <1>3, <1>5, <1>7, <1>8, Zenon
  <2>2. QED
    BY <1>9, <2>1, Zenon
<1>11. QED
  BY <1>2, <1>3, <1>5, <1>8, <1>9, <1>10, Zenon DEF RunOk

\* The areas of the message that are written stay as they are.
LEMMA AreaKept ==
  ASSUME NEW d, NEW R, NEW E, NEW n \in Nat, IsTable(d, R, E, n), NEW k \in 1..Len(R),
         NEW new, NEW old, Len(old) \in Nat, Len(new) \in Nat, Extends(new, old),
         Area(old, d, R, E, k)
  PROVE  Area(new, d, R, E, k)
<1> DEFINE place == R[k].pos
           l == R[k].length
           o == Out(R, k - 1)
           p == E[k - 1]
           q == E[k]
<1>1. /\ place \in Nat /\ l \in Nat /\ p \in Nat /\ q \in Nat /\ o \in Nat
      /\ Out(R, k) = place + 5 /\ l >= 3 /\ p + l <= q /\ place = o + 3 * (q - l - p)
  <2>1. RunOk(R, E, n, k)
    BY RunFacts
  <2>2. QED
    BY <2>1, Zenon DEF RunOk
<1>2. /\ Out(R, k) <= Len(old) /\ Pixels(old, d, o, p, q - l) /\ old[place + 1] = <<l, 0>>
      /\ Pixels(old, d, place + 2, q - l, q - l + 1)
  BY DEF Area
<1> HIDE DEF place, l, o, p, q
<1>3. q - l \in Nat /\ q - l + 1 \in Nat /\ place + 2 \in Nat
  BY <1>1
<1>4. Pixels(new, d, o, p, q - l)
  <2>1. o + 3 * ((q - l) - p) <= Len(old)
    BY <1>1, <1>2
  <2>2. QED
    BY <1>1, <1>2, <1>3, <2>1, PixelsKept
<1>5. Pixels(new, d, place + 2, q - l, q - l + 1)
  <2>1. (place + 2) + 3 * ((q - l + 1) - (q - l)) <= Len(old)
    BY <1>1, <1>2
  <2>2. QED
    BY <1>1, <1>2, <1>3, <2>1, PixelsKept
<1>6. new[place + 1] = <<l, 0>>
  <2>1. place + 1 \in 1..Len(old)
    BY <1>1, <1>2
  <2>2. QED
    BY <1>2, <2>1 DEF Extends
<1>7. Out(R, k) <= Len(new)
  BY <1>1, <1>2 DEF Extends
<1>8. QED
  BY <1>4, <1>5, <1>6, <1>7 DEF Area, place, l, o, p, q

\* The two bytes of a length.
LEMMA LengthFacts ==
  ASSUME NEW C, NEW l \in Nat
  PROVE  /\ LengthField(l) \in Seq(Bytes(C)) /\ Len(LengthField(l)) = 2
         /\ LengthField(l)[1] = <<l, 0>>
<1>1. LengthField(l) = [b \in 1..2 |-> <<l, b - 1>>]
  BY DEF LengthField, LengthBytes
<1>2. LengthField(l) \in [1..2 -> Bytes(C)]
  BY <1>1 DEF Bytes
<1>3. QED
  BY <1>1, <1>2, DrawingLen

\* One turn of the second loop writes the area of one run.
LEMMA WithPointStep ==
  ASSUME NEW C, NEW n \in Nat, NEW d \in [1..n -> C], NEW R, NEW E, IsTable(d, R, E, n),
         NEW k \in 1..Len(R), NEW c, IsCopied(c, C, d, R, E, k - 1)
  PROVE  IsCopied(WithPoint(c, d, R[k]), C, d, R, E, k)
<1> DEFINE place == R[k].pos
           l == R[k].length
           o == Out(R, k - 1)
           p == E[k - 1]
           q == E[k]
           g == q - l - p
           before == Copied(c, d, 3 * g)
           mid == [before EXCEPT !.out = @ \o LengthField(l)]
           pixel == Copied(mid, d, 3 * 1)
           r == [pixel EXCEPT !.di = @ + l * PixelBytes - PixelBytes]
<1>1. /\ place \in Nat /\ l \in Nat /\ p \in Nat /\ q \in Nat /\ q <= n /\ o \in Nat
      /\ Out(R, k) = place + 5 /\ l >= 3 /\ p + l <= q /\ place = o + 3 * g
  <2>1. RunOk(R, E, n, k)
    BY RunFacts
  <2>2. QED
    BY <2>1, Zenon DEF RunOk
<1>2. /\ c \in Copying(C) /\ Len(c.out) = o /\ c.di = 3 * p
      /\ \A j \in 1..(k - 1) : Area(c.out, d, R, E, j)
  BY DEF IsCopied
<1>3. WithPoint(c, d, R[k]) = r
  <2>1. place - Len(c.out) = 3 * g
    <3> HIDE DEF place, l, o, p, q
    <3> QED
      BY <1>1, <1>2
  <2>2. PixelBytes = 3 * 1
    BY DEF PixelBytes
  <2>3. WithPoint(c, d, R[k]) =
          [Copied([Copied(c, d, place - Len(c.out)) EXCEPT !.out = @ \o LengthField(l)], d, PixelBytes)
             EXCEPT !.di = @ + l * PixelBytes - PixelBytes]
    BY Zenon DEF WithPoint
  <2>4. QED
    BY <2>1, <2>2, <2>3, Zenon
<1> HIDE DEF place, l, o, p, q
<1>4. g \in Nat /\ p + g = q - l /\ p + g <= n
  BY <1>1
<1>5. /\ before \in Copying(C) /\ At(before, p + g)
      /\ Len(before.out) = Len(c.out) + 3 * g /\ Extends(before.out, c.out)
      /\ Pixels(before.out, d, Len(c.out), p, p + g)
  <2>1. IsCopy(before, c, d, g)
    BY Zenon DEF IsCopy
  <2> HIDE DEF g, before
  <2>2. c \in Copying(C) /\ At(c, p) /\ p \in Nat /\ g \in Nat /\ p + g <= n
    BY <1>1, <1>2, <1>4 DEF At
  <2>3. CopyDone(before, C, c, d, p, g)
    BY <2>1, <2>2, CopiedPixels
  <2>4. QED
    BY <2>3 DEF CopyDone
<1> HIDE DEF before, g
<1>6. /\ mid \in Copying(C) /\ mid.di = before.di /\ Len(mid.out) = Len(before.out) + 2
      /\ Extends(mid.out, before.out) /\ mid.out[Len(before.out) + 1] = <<l, 0>>
  <2> DEFINE m == before.out \o LengthField(l)
  <2>1. before.out \in Seq(Bytes(C)) /\ Len(before.out) \in Nat
    BY <1>5 DEF Copying
  <2>2. /\ LengthField(l) \in Seq(Bytes(C)) /\ Len(LengthField(l)) = 2
        /\ LengthField(l)[1] = <<l, 0>>
    BY <1>1, LengthFacts
  <2>3. /\ m \in Seq(Bytes(C)) /\ Len(m) = Len(before.out) + 2
        /\ \A j \in 1..Len(before.out) : m[j] = before.out[j]
        /\ \A j \in 1..2 : m[Len(before.out) + j] = LengthField(l)[j]
    <3>1. Joined(m, before.out, LengthField(l))
      BY Zenon DEF Joined
    <3> HIDE DEF m
    <3>2. QED
      <4>1. m \in Seq(Bytes(C)) /\ Behind(m, before.out, LengthField(l))
        BY <2>1, <2>2, <3>1, JoinFacts
      <4>2. QED
        BY <2>2, <4>1, Zenon DEF Behind
  <2> HIDE DEF m
  <2>4. Extends(m, before.out)
    BY <2>1, <2>3 DEF Extends
  <2>5. m[Len(before.out) + 1] = <<l, 0>>
    BY <2>2, <2>3
  <2>6. mid \in Copying(C) /\ mid.di = before.di /\ mid.out = m
    <3>1. mid = [before EXCEPT !.out = m]
      BY DEF m
    <3>2. QED
      BY <1>5, <2>3, <3>1 DEF Copying
  <2> HIDE DEF mid
  <2>7. QED
    BY <2>3, <2>4, <2>5, <2>6
<1> HIDE DEF mid
<1>7. /\ pixel \in Copying(C) /\ At(pixel, p + g + 1)
      /\ Len(pixel.out) = Len(mid.out) + 3 * 1 /\ Extends(pixel.out, mid.out)
      /\ Pixels(pixel.out, d, Len(mid.out), p + g, p + g + 1)
  <2>1. mid \in Copying(C) /\ At(mid, p + g) /\ p + g \in Nat /\ p + g + 1 <= n /\ 1 \in Nat
    BY <1>1, <1>4, <1>5, <1>6 DEF At
  <2>2. IsCopy(pixel, mid, d, 1)
    BY Zenon DEF IsCopy
  <2> HIDE DEF pixel
  <2>3. CopyDone(pixel, C, mid, d, p + g, 1)
    BY <2>1, <2>2, CopiedPixels
  <2>4. QED
    BY <2>3 DEF CopyDone
<1> HIDE DEF pixel
<1>8. r \in Copying(C) /\ r.out = pixel.out /\ r.di = 3 * q
  <2>1. pixel.di + l * PixelBytes - PixelBytes = 3 * q
    BY <1>1, <1>4, <1>7 DEF PixelBytes, At
  <2>2. r = [pixel EXCEPT !.di = 3 * q]
    BY <2>1, Zenon
  <2>3. 3 * q \in Nat
    BY <1>1
  <2> HIDE DEF r
  <2>4. QED
    BY <1>7, <2>2, <2>3 DEF Copying
<1> HIDE DEF r
<1>9. Len(c.out) \in Nat /\ Len(before.out) \in Nat /\ Len(mid.out) \in Nat /\ Len(r.out) \in Nat
  <2>1. \A x \in Copying(C) : Len(x.out) \in Nat
    BY DEF Copying
  <2>2. QED
    BY <1>2, <1>5, <1>6, <1>8, <2>1, Zenon
<1>10. Len(before.out) = place /\ Len(mid.out) = place + 2 /\ Len(r.out) = place + 5
  <2>1. /\ Len(before.out) = Len(c.out) + 3 * g /\ Len(mid.out) = Len(before.out) + 2
        /\ Len(pixel.out) = Len(mid.out) + 3 * 1 /\ r.out = pixel.out
    BY <1>5, <1>6, <1>7, <1>8, Zenon
  <2>2. Len(c.out) = o /\ place = o + 3 * g /\ place \in Nat
    BY <1>1, <1>2, Zenon
  <2>3. QED
    BY <2>1, <2>2
<1>11. Extends(r.out, mid.out) /\ Extends(r.out, before.out) /\ Extends(r.out, c.out)
  <2>1. Extends(r.out, mid.out)
    BY <1>7, <1>8, Zenon
  <2>2. Extends(r.out, before.out)
    BY <1>6, <1>9, <2>1, ExtendsTrans
  <2>3. QED
    BY <1>5, <1>9, <2>1, <2>2, ExtendsTrans
<1>12. Area(r.out, d, R, E, k)
  <2>1. Pixels(r.out, d, o, p, q - l)
    <3>1. o + 3 * ((q - l) - p) <= Len(before.out) /\ q - l \in Nat
      BY <1>1, <1>4, <1>10
    <3>2. Pixels(before.out, d, o, p, q - l)
      BY <1>2, <1>4, <1>5
    <3>3. QED
      BY <1>1, <1>9, <1>11, <3>1, <3>2, PixelsKept
  <2>2. Pixels(r.out, d, place + 2, q - l, q - l + 1)
    BY <1>4, <1>7, <1>8, <1>10
  <2>3. r.out[place + 1] = <<l, 0>>
    <3>1. place + 1 \in 1..Len(mid.out)
      <4>1. place \in Nat /\ Len(mid.out) = place + 2
        BY <1>1, <1>10, Zenon
      <4>2. QED
        BY <4>1
    <3>2. r.out[place + 1] = mid.out[place + 1]
      BY <1>11, <3>1 DEF Extends
    <3>3. QED
      BY <1>6, <1>10, <3>2
  <2>4. Out(R, k) <= Len(r.out)
    BY <1>1, <1>10
  <2>5. QED
    BY <2>1, <2>2, <2>3, <2>4 DEF Area, place, l, o, p, q
<1>13. \A j \in 1..k : Area(r.out, d, R, E, j)
  <2> TAKE j \in 1..k
  <2>1. CASE j = k
    BY <1>12, <2>1
  <2>2. CASE j # k
    <3>1. j \in 1..(k - 1) /\ j \in 1..Len(R)
      BY <2>2
    <3>2. QED
      BY <1>2, <1>9, <1>11, <3>1, AreaKept
  <2>3. QED
    BY <2>1, <2>2
<1>14. QED
  BY <1>1, <1>3, <1>8, <1>10, <1>13 DEF IsCopied, q, place

\* f[k] is the state of the second loop after k runs of the table R.
Unwritten == [out |-> <<>>, di |-> 0]
IsAreas(f, d, R, m) ==
  f = [k \in 0..m |-> IF k = 0 THEN Unwritten ELSE WithPoint(f[k - 1], d, R[k])]

LEMMA AreasExist ==
  ASSUME NEW d, NEW R, NEW n \in Nat
  PROVE  \E f : IsAreas(f, d, R, n)
<1> DEFINE S == {m \in 0..n : \E f : IsAreas(f, d, R, m)}
<1>1. 0 \in S
  <2> DEFINE f == [k \in 0..0 |-> Unwritten]
  <2>1. f = [k \in 0..0 |-> IF k = 0 THEN Unwritten ELSE WithPoint(f[k - 1], d, R[k])]
    OBVIOUS
  <2>2. IsAreas(f, d, R, 0)
    BY <2>1, Zenon DEF IsAreas
  <2>3. QED
    BY <2>2
<1>2. ASSUME NEW m \in 1..n, m - 1 \in S
      PROVE  m \in S
  <2>1. PICK f : IsAreas(f, d, R, m - 1)
    BY <1>2
  <2> DEFINE g == [k \in 0..m |-> IF k < m THEN f[k] ELSE WithPoint(f[k - 1], d, R[k])]
  <2>2. \A k \in 0..(m - 1) : g[k] = f[k]
    OBVIOUS
  <2>3. ASSUME NEW k \in 0..m
        PROVE  g[k] = IF k = 0 THEN Unwritten ELSE WithPoint(g[k - 1], d, R[k])
    <3>1. k # 0 => g[k - 1] = f[k - 1]
      BY <2>2
    <3>2. g[k] = IF k = 0 THEN Unwritten ELSE WithPoint(f[k - 1], d, R[k])
      <4>1. CASE k < m
        <5>1. k \in 0..(m - 1)
          BY <4>1
        <5>2. f[k] = IF k = 0 THEN Unwritten ELSE WithPoint(f[k - 1], d, R[k])
          BY <2>1, <5>1 DEF IsAreas
        <5>3. QED
          BY <2>2, <5>1, <5>2
      <4>2. CASE ~(k < m)
        BY <4>2
      <4>3. QED
        BY <4>1, <4>2
    <3> HIDE DEF g
    <3>3. QED
      BY <3>1, <3>2
  <2>4. g = [k \in 0..m |-> IF k = 0 THEN Unwritten ELSE WithPoint(g[k - 1], d, R[k])]
    <3>1. g = [k \in 0..m |-> g[k]]
      OBVIOUS
    <3> HIDE DEF g
    <3>2. QED
      BY <2>3, <3>1
  <2>5. IsAreas(g, d, R, m)
    BY <2>4, Zenon DEF IsAreas
  <2>6. QED
    BY <2>5
<1>3. n \in S
  <2> HIDE DEF S
  <2> QED
    BY <1>1, <1>2, UpTo
<1>4. QED
  BY <1>3

\* The second loop, run by run, writes the areas of all runs.
LEMMA AreasCorrect ==
  ASSUME NEW C, NEW n \in Nat, NEW d \in [1..n -> C], NEW R, NEW E, IsTable(d, R, E, n),
         NEW f, IsAreas(f, d, R, Len(R))
  PROVE  IsCopied(f[Len(R)], C, d, R, E, Len(R))
<1> DEFINE m == Len(R)
           S == {k \in 0..m : IsCopied(f[k], C, d, R, E, k)}
<1>1. m \in Nat /\ E[0] = 0 /\ 0 \in 0..m
  BY DEF IsTable
<1> HIDE DEF m
<1>2. 0 \in S
  <2>1. f[0] = Unwritten
    BY <1>1 DEF IsAreas, m
  <2>2. IsCopied(Unwritten, C, d, R, E, 0)
    <3>1. Unwritten.out = <<>> /\ Unwritten.di = 0 /\ Unwritten \in Copying(C)
      BY DEF Unwritten, Copying
    <3>2. QED
      BY <1>1, <3>1 DEF IsCopied, Out
  <2>3. QED
    BY <1>1, <2>1, <2>2
<1>3. ASSUME NEW k \in 1..m, k - 1 \in S
      PROVE  k \in S
  <2>1. f[k] = WithPoint(f[k - 1], d, R[k])
    <3>1. f = [j \in 0..m |-> IF j = 0 THEN Unwritten ELSE WithPoint(f[j - 1], d, R[j])]
      BY Zenon DEF IsAreas, m
    <3>2. k \in 0..m /\ k # 0
      BY <1>1
    <3>3. QED
      BY <3>1, <3>2, Zenon
  <2>2. IsCopied(f[k - 1], C, d, R, E, k - 1)
    BY <1>3
  <2>3. k \in 1..Len(R)
    BY DEF m
  <2>4. IsCopied(WithPoint(f[k - 1], d, R[k]), C, d, R, E, k)
    BY <2>2, <2>3, WithPointStep
  <2>5. QED
    BY <1>1, <2>1, <2>4
<1>4. m \in S
  <2>1. 0..m \subseteq S
    <3> HIDE DEF S
    <3> QED
      BY <1>1, <1>2, <1>3, UpTo
  <2>2. QED
    BY <1>1, <2>1
<1>5. QED
  BY <1>4 DEF m

\* The message, as the table R with the ends E describes it.
IsMessage(msg, C, d, R, E, n) ==
  /\ IsTable(d, R, E, n)
  /\ msg.points = [k \in 1..Len(R) |-> R[k].pos]
  /\ msg.data \in Seq(Bytes(C))
  /\ Len(msg.data) = Out(R, Len(R)) + 3 * (n - E[Len(R)])
  /\ \A k \in 1..Len(R) : Area(msg.data, d, R, E, k)
  /\ Pixels(msg.data, d, Out(R, Len(R)), E[Len(R)], n)
  /\ msg.size = Len(msg.data) + 2 * Len(R) + 14

LEMMA MessageLayout ==
  ASSUME NEW C, NEW n \in Nat \ {0}, NEW d \in [1..n -> C]
  PROVE  \E R, E : IsMessage(compress_data_to(d), C, d, R, E, n)
<1> DEFINE table == Table(d)
           R == table.compressedPos
           m == Len(R)
           areas == CHOOSE f : f = [k \in 0..m |-> IF k = 0 THEN Unwritten
                                                    ELSE WithPoint(f[k - 1], d, R[k])]
           c == areas[m]
           all == Copied(c, d, n * PixelBytes - c.di)
           msg == [points |-> [k \in DOMAIN R |-> R[k].pos], data |-> all.out,
                   size |-> table.compBytes + m * 2 + HeaderBytes]
<1>1. Len(d) = n
  BY DrawingLen
<1>2. compress_data_to(d) = msg
  BY <1>1, Zenon DEF compress_data_to, Unwritten
<1>3. R \in Seq(Point) /\ \E E : IsTable(d, R, E, n) /\ Counted(table, E, n)
  BY TableCorrect
<1> HIDE DEF table
<1>4. PICK E : IsTable(d, R, E, n) /\ Counted(table, E, n)
  BY <1>3
<1>5. m \in Nat /\ E[m] \in 0..n
  BY <1>3, <1>4, EndType
<1>6. Out(R, m) \in Nat
  BY <1>3, <1>5, OutType
<1>7. DOMAIN R = 1..m
  BY <1>3
<1>8. table.compBytes = Out(R, m) + 3 * (n - E[m])
  BY <1>4 DEF Counted
<1>9. IsAreas(areas, d, R, m)
  <2>1. \E f : f = [k \in 0..m |-> IF k = 0 THEN Unwritten ELSE WithPoint(f[k - 1], d, R[k])]
    <3> HIDE DEF m, R
    <3>1. \E f : IsAreas(f, d, R, m)
      BY <1>5, AreasExist
    <3>2. QED
      BY <3>1, Zenon DEF IsAreas
  <2>2. QED
    BY <2>1, Zenon DEF IsAreas
<1> HIDE DEF R, areas
<1>10. IsCopied(c, C, d, R, E, m)
  BY <1>4, <1>9, AreasCorrect
<1> HIDE DEF c, m
<1>11. /\ c \in Copying(C) /\ Len(c.out) = Out(R, m) /\ c.di = 3 * E[m]
       /\ \A k \in 1..m : Area(c.out, d, R, E, k)
  BY <1>10 DEF IsCopied
<1> DEFINE e == E[m]
           q == n - e
<1>12. e \in Nat /\ q \in Nat /\ e + q = n /\ e + q <= n
  BY <1>5
<1>13. n * PixelBytes - c.di = 3 * q
  BY <1>11, <1>12 DEF PixelBytes
<1>14. IsCopy(all, c, d, q) /\ At(c, e)
  BY <1>11, <1>13, Zenon DEF IsCopy, At
<1> HIDE DEF all, e, q
<1>15. CopyDone(all, C, c, d, e, q)
  BY <1>11, <1>12, <1>14, CopiedPixels
<1>16. /\ all \in Copying(C) /\ Len(all.out) = Out(R, m) + 3 * q
       /\ Extends(all.out, c.out) /\ Pixels(all.out, d, Out(R, m), e, n)
  BY <1>11, <1>12, <1>15 DEF CopyDone
<1>17. all.out \in Seq(Bytes(C)) /\ Len(all.out) \in Nat /\ Len(c.out) \in Nat
  BY <1>11, <1>16 DEF Copying
<1>18. \A k \in 1..m : Area(all.out, d, R, E, k)
  BY <1>4, <1>11, <1>16, <1>17, AreaKept DEF m
<1>19. msg.points = [k \in 1..m |-> R[k].pos] /\ msg.data = all.out
       /\ msg.size = Len(all.out) + 2 * m + 14
  <2>1. table.compBytes + m * 2 + HeaderBytes = Len(all.out) + 2 * m + 14
    BY <1>5, <1>6, <1>8, <1>16, <1>17 DEF HeaderBytes, q, e
  <2>2. QED
    BY <1>7, <2>1
<1> HIDE DEF msg
<1>20. IsMessage(msg, C, d, R, E, n)
  BY <1>4, <1>16, <1>17, <1>18, <1>19, Zenon DEF IsMessage, m, e, q
<1>21. QED
  BY <1>2, <1>20, Zenon

\* A later run is written after the earlier ones.
LEMMA OutGrows ==
  ASSUME NEW d, NEW R, NEW E, NEW n \in Nat, IsTable(d, R, E, n),
         NEW j \in 0..Len(R), NEW i \in 0..j
  PROVE  Out(R, i) <= Out(R, j)
<1> DEFINE m == Len(R)
           S == {b \in 0..m : \A a \in 0..b : Out(R, a) <= Out(R, b)}
<1>1. R \in Seq(Point) /\ m \in Nat
  BY DEF IsTable
<1>2. \A a \in 0..m : Out(R, a) \in Nat
  BY <1>1, OutType
<1>3. 0 \in S
  BY <1>1, <1>2
<1>4. ASSUME NEW b \in 1..m, b - 1 \in S
      PROVE  b \in S
  <2>1. Out(R, b - 1) <= Out(R, b)
    <3>1. RunOk(R, E, n, b)
      BY RunFacts
    <3>2. /\ Out(R, b) = R[b].pos + 5 /\ Out(R, b - 1) <= R[b].pos
          /\ R[b].pos \in Nat /\ Out(R, b - 1) \in Nat
      BY <3>1, Zenon DEF RunOk
    <3>3. QED
      BY <3>2
  <2>2. ASSUME NEW a \in 0..b
        PROVE  Out(R, a) <= Out(R, b)
    <3>1. CASE a = b
      <4>1. Out(R, b) \in Nat
        BY <1>1, <1>2
      <4>2. QED
        BY <3>1, <4>1
    <3>2. CASE a # b
      <4>1. a \in 0..(b - 1) /\ a \in 0..m /\ b \in 0..m /\ b - 1 \in 0..m
        BY <1>1, <3>2
      <4>2. Out(R, a) <= Out(R, b - 1)
        BY <1>4, <4>1
      <4>3. Out(R, a) \in Nat /\ Out(R, b) \in Nat /\ Out(R, b - 1) \in Nat
        BY <1>2, <4>1
      <4>4. QED
        BY <2>1, <4>2, <4>3
    <3>3. QED
      BY <3>1, <3>2
  <2>3. QED
    BY <1>1, <2>2
<1>5. 0..m \subseteq S
  <2> HIDE DEF S, m
  <2> QED
    BY <1>1, <1>3, <1>4, UpTo
<1>6. j \in S
  BY <1>5
<1>7. QED
  BY <1>6

\* Where the pixels behind run j end: at the next run, or at the end.
GapEnd(R, E, n, j) == IF j = Len(R) THEN n ELSE E[j + 1] - R[j + 1].length

LEMMA GapFacts ==
  ASSUME NEW C, NEW n \in Nat, NEW d, NEW R, NEW E, NEW msg, IsMessage(msg, C, d, R, E, n),
         NEW j \in 0..Len(R)
  PROVE  /\ E[j] \in Nat /\ Out(R, j) \in Nat /\ GapEnd(R, E, n, j) \in Nat
         /\ E[j] <= GapEnd(R, E, n, j) /\ GapEnd(R, E, n, j) <= n
         /\ Pixels(msg.data, d, Out(R, j), E[j], GapEnd(R, E, n, j))
         /\ Out(R, j) + 3 * (GapEnd(R, E, n, j) - E[j]) <= Len(msg.data)
<1>1. IsTable(d, R, E, n) /\ R \in Seq(Point) /\ E \in [0..Len(R) -> 0..n] /\ Len(R) \in Nat
  BY DEF IsMessage, IsTable
<1>2. E[j] \in 0..n /\ Out(R, j) \in Nat
  BY <1>1, OutType
<1>3. CASE j = Len(R)
  <2>1. GapEnd(R, E, n, j) = n
    BY <1>3 DEF GapEnd
  <2>2. Pixels(msg.data, d, Out(R, j), E[j], n) /\ Len(msg.data) = Out(R, j) + 3 * (n - E[j])
    BY <1>3 DEF IsMessage
  <2>3. QED
    BY <1>2, <2>1, <2>2
<1>4. CASE j # Len(R)
  <2> DEFINE k == j + 1
  <2>1. k \in 1..Len(R) /\ k - 1 = j
    BY <1>1, <1>4
  <2>2. GapEnd(R, E, n, j) = E[k] - R[k].length
    BY <1>4 DEF GapEnd
  <2> HIDE DEF k
  <2>3. RunOk(R, E, n, k)
    BY <1>1, <2>1, RunFacts
  <2>4. Area(msg.data, d, R, E, k)
    BY <2>1 DEF IsMessage
  <2>5. Pixels(msg.data, d, Out(R, j), E[j], E[k] - R[k].length) /\ Out(R, k) <= Len(msg.data)
    BY <2>1, <2>4 DEF Area
  <2>6. msg.data \in Seq(Bytes(C)) /\ Len(msg.data) \in Nat
    BY DEF IsMessage
  <2> DEFINE l == R[k].length
             place == R[k].pos
  <2>7. /\ place \in Nat /\ l \in Nat /\ E[k] \in Nat /\ E[k] <= n /\ l >= 3
        /\ place + 5 <= Len(msg.data) /\ E[j] + l <= E[k]
        /\ place = Out(R, j) + 3 * (E[k] - l - E[j])
    BY <2>1, <2>3, <2>5, Zenon DEF RunOk
  <2>8. GapEnd(R, E, n, j) = E[k] - l
    BY <2>2
  <2> HIDE DEF l, place
  <2>9. E[k] - l \in Nat /\ E[j] <= E[k] - l /\ E[k] - l <= n
        /\ Out(R, j) + 3 * ((E[k] - l) - E[j]) <= Len(msg.data)
    <3>1. PICK o \in Nat : o = Out(R, j)
      BY <1>2
    <3>2. PICK a \in Nat : a = E[j]
      BY <1>2
    <3>3. PICK b \in Nat : b = E[k]
      BY <2>7
    <3>4. PICK L \in Nat : L = Len(msg.data)
      BY <2>6
    <3>5. b <= n /\ place + 5 <= L /\ a + l <= b /\ place = o + 3 * (b - l - a)
      BY <2>7, <3>1, <3>2, <3>3, <3>4, Zenon
    <3>6. b - l \in Nat /\ a <= b - l /\ b - l <= n /\ o + 3 * ((b - l) - a) <= L
      BY <2>7, <3>5
    <3>7. QED
      BY <3>1, <3>2, <3>3, <3>4, <3>6, Zenon
  <2>10. QED
    BY <1>2, <2>5, <2>8, <2>9 DEF l
<1>5. QED
  BY <1>3, <1>4

ReadsAs(D, d, base, p, e) == PixelAt(D, base + 3 * (e - p)) = d[e + 1]

\* What is read where a pixel was written.
LEMMA PixelRead ==
  ASSUME NEW D, NEW d, NEW base \in Nat, NEW p \in Nat, NEW q \in Nat, NEW e \in p..(q - 1),
         Pixels(D, d, base, p, q)
  PROVE  ReadsAs(D, d, base, p, e)
<1> DEFINE c == base + 3 * (e - p)
<1>1. \A b \in 1..3 : D[c + b] = <<d[e + 1], b - 1>>
  BY DEF Pixels
<1> HIDE DEF c
<1>2. D[c + 1][1] = d[e + 1]
  BY <1>1
<1>3. \A b \in 1..PixelBytes : D[c + b] = <<D[c + 1][1], b - 1>>
  BY <1>1, <1>2 DEF PixelBytes
<1>4. PixelAt(D, c) = D[c + 1][1]
  BY <1>3, Zenon DEF PixelAt
<1>5. QED
  BY <1>2, <1>4 DEF c, ReadsAs

\* Only where the pixels behind a run end does another run begin.
LEMMA NoRunInPixels ==
  ASSUME NEW d, NEW R, NEW E, NEW n \in Nat, IsTable(d, R, E, n),
         NEW j \in 0..Len(R), NEW p \in Nat, E[j] <= p, p < GapEnd(R, E, n, j),
         NEW k \in 1..Len(R)
  PROVE  R[k].pos # Out(R, j) + 3 * (p - E[j])
<1> DEFINE c == Out(R, j) + 3 * (p - E[j])
           place == R[k].pos
<1>1. R \in Seq(Point) /\ E \in [0..Len(R) -> 0..n] /\ Len(R) \in Nat
  BY DEF IsTable
<1>2. E[j] \in Nat /\ Out(R, j) \in Nat
  BY <1>1, OutType
<1>3. c \in Nat /\ Out(R, j) <= c
  <2>1. \A o, a, b \in Nat : a <= b => o + 3 * (b - a) \in Nat /\ o <= o + 3 * (b - a)
    OBVIOUS
  <2>2. QED
    BY <1>2, <2>1, Zenon
<1>4. RunOk(R, E, n, k)
  BY RunFacts
<1>5. place \in Nat /\ Out(R, k) = place + 5 /\ Out(R, k - 1) \in Nat /\ Out(R, k - 1) <= place
  BY <1>4, Zenon DEF RunOk
<1>6. ASSUME NEW i \in 1..Len(R), i = j + 1
      PROVE  c < R[i].pos /\ R[i].pos \in Nat /\ Out(R, i) = R[i].pos + 5
  <2>1. RunOk(R, E, n, i)
    BY RunFacts
  <2>2. i - 1 = j /\ j # Len(R)
    BY <1>1, <1>6
  <2>3. GapEnd(R, E, n, j) = E[i] - R[i].length
    BY <1>6, <2>2 DEF GapEnd
  <2>4. R[i].pos = Out(R, j) + 3 * (GapEnd(R, E, n, j) - E[j])
    BY <2>1, <2>2, <2>3, Zenon DEF RunOk
  <2>5. GapEnd(R, E, n, j) \in Int
    <3>1. E[i] \in Nat /\ R[i].length \in Nat
      BY <2>1, Zenon DEF RunOk
    <3>2. QED
      BY <2>3, <3>1
  <2>6. R[i].pos \in Nat /\ Out(R, i) = R[i].pos + 5
    BY <2>1 DEF RunOk
  <2>7. \A o, e, a, b \in Int : a < b => o + 3 * (a - e) < o + 3 * (b - e)
    OBVIOUS
  <2>8. c < R[i].pos
    <3>1. p \in Int /\ E[j] \in Int /\ Out(R, j) \in Int
      BY <1>2
    <3>2. QED
      BY <2>4, <2>5, <2>7, <3>1, Zenon
  <2>9. QED
    BY <2>6, <2>8
<1> HIDE DEF c, place
<1>7. CASE k <= j
  <2>1. Out(R, k) <= Out(R, j)
    BY <1>1, <1>7, OutGrows
  <2>2. place < c
    BY <1>2, <1>3, <1>5, <2>1
  <2>3. QED
    BY <1>3, <1>5, <2>2 DEF c, place
<1>8. CASE k = j + 1
  <2>1. c < place
    BY <1>6, <1>8 DEF place
  <2>2. QED
    BY <1>3, <1>5, <2>1 DEF c, place
<1>9. CASE k > j + 1
  <2>1. PICK i \in 1..Len(R) : i = j + 1
    BY <1>1, <1>9
  <2>2. i \in 0..(k - 1) /\ k - 1 \in 0..Len(R)
    BY <1>1, <1>9, <2>1
  <2>3. Out(R, i) <= Out(R, k - 1)
    BY <2>2, OutGrows
  <2>4. c < place
    <3>1. PICK a \in Nat : a = R[i].pos /\ c < a /\ Out(R, i) = a + 5
      BY <1>6, <2>1, Zenon
    <3>2. PICK o \in Nat : o = Out(R, k - 1) /\ o <= place
      BY <1>5, Zenon
    <3>3. a + 5 <= o /\ c < a /\ o <= place
      BY <2>3, <3>1, <3>2, Zenon
    <3>4. QED
      BY <1>3, <1>5, <3>3
  <2>5. QED
    BY <1>3, <1>5, <2>4 DEF c, place
<1>10. QED
  BY <1>1, <1>7, <1>8, <1>9

\* f is the function by which Meaning reads the data D with runs at runs.
Walk(f, D, runs, c) ==
  LET at == IF c \in runs THEN c + LengthBytes ELSE c
      next == at + PixelBytes
      times == IF c \in runs THEN D[c + 1][1] ELSE 1 IN
  IF next > Len(D) THEN <<"torn">> ELSE [k \in 1..times |-> PixelAt(D, at)] \o f[next]
IsWalk(f, D, runs, first) ==
  f = [c \in first..Len(D) |-> IF c = Len(D) THEN <<>> ELSE Walk(f, D, runs, c)]

\* What is read at a place rests on what is read at later ones.
LEMMA WalkLater ==
  ASSUME NEW f, NEW g, NEW D, NEW runs, NEW c \in Nat, Len(D) \in Nat,
         \A x \in (c + 1)..Len(D) : f[x] = g[x]
  PROVE  Walk(f, D, runs, c) = Walk(g, D, runs, c)
<1> DEFINE at == IF c \in runs THEN c + LengthBytes ELSE c
           next == at + PixelBytes
<1>1. next \in Nat /\ next > c
  BY DEF LengthBytes, PixelBytes
<1>2. CASE next > Len(D)
  BY <1>2, Zenon DEF Walk
<1>3. CASE ~(next > Len(D))
  <2>1. f[next] = g[next]
    <3> HIDE DEF next
    <3> QED
      BY <1>1, <1>3
  <2>2. QED
    BY <1>3, <2>1, Zenon DEF Walk
<1>4. QED
  BY <1>2, <1>3

LEMMA WalkExists ==
  ASSUME NEW D, NEW runs, Len(D) \in Nat
  PROVE  \E f : IsWalk(f, D, runs, 0)
<1> DEFINE L == Len(D)
           S == {m \in 0..L : \E f : IsWalk(f, D, runs, L - m)}
<1>1. L \in Nat
  OBVIOUS
<1>2. 0 \in S
  <2> DEFINE f == [c \in (L - 0)..L |-> <<>>]
  <2>1. \A c \in (L - 0)..L : c = L
    OBVIOUS
  <2>2. f = [c \in (L - 0)..L |-> IF c = L THEN <<>> ELSE Walk(f, D, runs, c)]
    BY <2>1
  <2>3. IsWalk(f, D, runs, L - 0)
    BY <2>2, Zenon DEF IsWalk
  <2>4. 0 \in 0..L
    OBVIOUS
  <2>5. QED
    BY <2>3, <2>4
<1>3. ASSUME NEW m \in 1..L, m - 1 \in S
      PROVE  m \in S
  <2> DEFINE a == L - m
  <2>1. L - (m - 1) = a + 1 /\ a \in Nat /\ a < L /\ a \in 0..L /\ m \in 0..L
    OBVIOUS
  <2>2. PICK f : IsWalk(f, D, runs, a + 1)
    BY <1>3, <2>1
  <2> HIDE DEF a, L
  <2> DEFINE g == [c \in a..L |-> IF c > a THEN f[c] ELSE Walk(f, D, runs, c)]
  <2>3. \A c \in (a + 1)..L : g[c] = f[c]
    BY <1>1, <2>1
  <2>4. ASSUME NEW c \in a..L
        PROVE  g[c] = IF c = L THEN <<>> ELSE Walk(g, D, runs, c)
    <3>1. Walk(f, D, runs, c) = Walk(g, D, runs, c)
      <4>1. c \in Nat /\ Len(D) \in Nat
        BY <1>1, <2>1 DEF L
      <4>2. \A x \in (c + 1)..Len(D) : f[x] = g[x]
        BY <1>1, <2>1, <2>3 DEF L
      <4> HIDE DEF g
      <4>3. QED
        BY <4>1, <4>2, WalkLater
    <3>2. g[c] = IF c = L THEN <<>> ELSE Walk(f, D, runs, c)
      <4>1. CASE c > a
        <5>1. c \in (a + 1)..L
          BY <1>1, <2>1, <4>1
        <5>2. f[c] = IF c = L THEN <<>> ELSE Walk(f, D, runs, c)
          BY <2>2, <5>1 DEF IsWalk, L
        <5>3. QED
          BY <2>3, <5>1, <5>2
      <4>2. CASE ~(c > a)
        BY <1>1, <2>1, <4>2
      <4>3. QED
        BY <4>1, <4>2
    <3> HIDE DEF g
    <3>3. QED
      BY <3>1, <3>2
  <2>5. g = [c \in a..L |-> IF c = L THEN <<>> ELSE Walk(g, D, runs, c)]
    <3>1. g = [c \in a..L |-> g[c]]
      OBVIOUS
    <3> HIDE DEF g
    <3>2. QED
      BY <2>4, <3>1
  <2>6. IsWalk(g, D, runs, a)
    BY <2>5, Zenon DEF IsWalk, L
  <2> HIDE DEF g
  <2>7. QED
    BY <2>1, <2>6 DEF a
<1>4. 0..L \subseteq S
  <2> HIDE DEF S, L
  <2> QED
    BY <1>1, <1>2, <1>3, UpTo
<1>5. L \in S /\ L - L = 0
  BY <1>1, <1>4
<1>6. QED
  BY <1>5

\* The pixels of the chunk d after the first p.
Rest(d, n, p) == [k \in 1..(n - p) |-> d[p + k]]
Place(R, E, j, p) == Out(R, j) + 3 * (p - E[j])

PixelIsRead(f, d, R, E, j, p) ==
  f[Place(R, E, j, p)] = [k \in 1..1 |-> d[p + 1]] \o f[Place(R, E, j, p + 1)]
RunIsRead(f, d, R, E, j, p) ==
  f[Place(R, E, j, p)] =
    [k \in 1..R[j + 1].length |-> d[p + 1]] \o f[Place(R, E, j + 1, E[j + 1])]

\* A pixel that no run takes up is read as itself.
LEMMA PixelStep ==
  ASSUME NEW C, NEW n \in Nat, NEW d, NEW R, NEW E, NEW msg, IsMessage(msg, C, d, R, E, n),
         NEW f, IsWalk(f, msg.data, ToSet(msg.points), 0),
         NEW j \in 0..Len(R), NEW p \in Nat, E[j] <= p, p < GapEnd(R, E, n, j)
  PROVE  PixelIsRead(f, d, R, E, j, p)
<1> DEFINE D == msg.data
           L == Len(D)
           runs == ToSet(msg.points)
           c == Place(R, E, j, p)
           N == GapEnd(R, E, n, j)
<1>1. IsTable(d, R, E, n) /\ R \in Seq(Point) /\ D \in Seq(Bytes(C)) /\ L \in Nat
  BY DEF IsMessage, IsTable
<1>2. PICK o \in Nat : o = Out(R, j)
  BY GapFacts
<1>3. PICK e \in Nat : e = E[j]
  BY GapFacts
<1>4. N \in Nat /\ e <= N /\ Pixels(D, d, o, e, N) /\ o + 3 * (N - e) <= L
  BY <1>2, <1>3, GapFacts
<1>5. c = o + 3 * (p - e) /\ Place(R, E, j, p + 1) = o + 3 * ((p + 1) - e) /\ e <= p /\ p < N
  BY <1>2, <1>3, Zenon DEF Place
<1>6. c \notin runs
  <2> SUFFICES ASSUME c \in runs
               PROVE  FALSE
    OBVIOUS
  <2>1. PICK k \in 1..Len(R) : c = R[k].pos
    <3>1. msg.points = [k \in 1..Len(R) |-> R[k].pos]
      BY DEF IsMessage
    <3>2. QED
      BY <3>1 DEF ToSet
  <2>2. R[k].pos # Out(R, j) + 3 * (p - E[j])
    BY <1>1, NoRunInPixels
  <2>3. QED
    BY <2>1, <2>2, Zenon DEF Place
<1> HIDE DEF c, N, runs, D, L
<1>7. c \in 0..L /\ c # L /\ c + 3 <= L /\ c + 3 = Place(R, E, j, p + 1)
  BY <1>1, <1>4, <1>5
<1>8. PixelAt(D, c) = d[p + 1]
  <2>1. p \in e..(N - 1)
    BY <1>4, <1>5
  <2>2. ReadsAs(D, d, o, e, p)
    BY <1>4, <2>1, PixelRead
  <2>3. QED
    BY <1>5, <2>2, Zenon DEF ReadsAs
<1>9. f[c] = Walk(f, D, runs, c)
  BY <1>7 DEF IsWalk, D, L, runs
<1>10. Walk(f, D, runs, c) = [k \in 1..1 |-> PixelAt(D, c)] \o f[c + PixelBytes]
  <2>1. ~(c + PixelBytes > Len(D))
    BY <1>1, <1>7 DEF PixelBytes, L
  <2>2. QED
    BY <1>6, <2>1, Zenon DEF Walk
<1>11. c + PixelBytes = Place(R, E, j, p + 1)
  BY <1>7 DEF PixelBytes
<1>12. QED
  BY <1>8, <1>9, <1>10, <1>11, Zenon DEF c, PixelIsRead

\* A run is read as its pixels.
LEMMA RunStep ==
  ASSUME NEW C, NEW n \in Nat, NEW d, NEW R, NEW E, NEW msg, IsMessage(msg, C, d, R, E, n),
         NEW f, IsWalk(f, msg.data, ToSet(msg.points), 0),
         NEW j \in 0..Len(R), j # Len(R), NEW p \in Nat, p = GapEnd(R, E, n, j)
  PROVE  RunIsRead(f, d, R, E, j, p)
<1> DEFINE D == msg.data
           L == Len(D)
           runs == ToSet(msg.points)
           c == Place(R, E, j, p)
<1>1. IsTable(d, R, E, n) /\ R \in Seq(Point) /\ D \in Seq(Bytes(C)) /\ L \in Nat /\ Len(R) \in Nat
  BY DEF IsMessage, IsTable
<1>2. PICK i \in 1..Len(R) : i = j + 1
  BY <1>1
<1>3. RunOk(R, E, n, i) /\ i - 1 = j
  BY <1>1, <1>2, RunFacts
<1>4. PICK l \in Nat : l = R[i].length
  BY <1>3 DEF RunOk
<1>5. PICK q \in Nat : q = E[i]
  BY <1>3 DEF RunOk
<1>6. PICK place \in Nat : place = R[i].pos
  BY <1>3 DEF RunOk
<1>7. p = q - l
  BY <1>2, <1>4, <1>5, Zenon DEF GapEnd
<1>8. c = place
  BY <1>3, <1>4, <1>5, <1>6, <1>7, Zenon DEF RunOk, Place
<1>9. Place(R, E, i, E[i]) = place + 5
  <2>1. Place(R, E, i, E[i]) = (place + 5) + 3 * (q - q)
    BY <1>3, <1>5, <1>6, Zenon DEF RunOk, Place
  <2>2. QED
    BY <2>1
<1>10. Area(D, d, R, E, i)
  BY <1>2 DEF IsMessage
<1>11. place + 5 <= L /\ D[place + 1] = <<l, 0>> /\ Pixels(D, d, place + 2, q - l, q - l + 1)
  <2>1. Out(R, i) = place + 5
    BY <1>3, <1>6, Zenon DEF RunOk
  <2>2. QED
    BY <1>4, <1>5, <1>6, <1>10, <2>1, Zenon DEF Area
<1>12. c \in runs
  <2>1. msg.points = [k \in 1..Len(R) |-> R[k].pos]
    BY DEF IsMessage
  <2>2. msg.points[i] = place /\ i \in DOMAIN msg.points
    BY <1>6, <2>1
  <2>3. QED
    BY <1>8, <2>2 DEF ToSet
<1> HIDE DEF c, runs, D, L
<1>13. c \in 0..L /\ c # L /\ c + 2 + 3 <= L
  BY <1>1, <1>8, <1>11
<1>14. PixelAt(D, c + 2) = d[p + 1]
  <2>1. p \in (q - l)..((q - l + 1) - 1) /\ q - l \in Nat /\ q - l + 1 \in Nat /\ place + 2 \in Nat
    BY <1>7
  <2>2. ReadsAs(D, d, place + 2, q - l, p)
    BY <1>11, <2>1, PixelRead
  <2>3. place + 2 + 3 * (p - (q - l)) = c + 2
    BY <1>7, <1>8
  <2>4. QED
    BY <2>2, <2>3, Zenon DEF ReadsAs
<1>15. f[c] = Walk(f, D, runs, c)
  BY <1>13 DEF IsWalk, D, L, runs
<1>16. Walk(f, D, runs, c) =
         [k \in 1..D[c + 1][1] |-> PixelAt(D, c + LengthBytes)] \o f[c + LengthBytes + PixelBytes]
  <2>1. ~(c + LengthBytes + PixelBytes > Len(D))
    BY <1>1, <1>13 DEF LengthBytes, PixelBytes, L
  <2>2. QED
    BY <1>12, <2>1, Zenon DEF Walk
<1>17. /\ c + LengthBytes + PixelBytes = Place(R, E, i, E[i]) /\ c + LengthBytes = c + 2
       /\ D[c + 1][1] = l
  BY <1>8, <1>9, <1>11 DEF LengthBytes, PixelBytes
<1>18. QED
  BY <1>2, <1>4, <1>14, <1>15, <1>16, <1>17, Zenon DEF c, RunIsRead

Put(d, n, p, l, v) == [k \in 1..l |-> v] \o Rest(d, n, p + l) = Rest(d, n, p)

\* What is put before the rest of a chunk.
LEMMA RestJoined ==
  ASSUME NEW C, NEW n \in Nat, NEW d \in [1..n -> C], NEW p \in Nat, NEW l \in Nat, p + l <= n,
         NEW v, \A k \in 1..l : d[p + k] = v
  PROVE  Put(d, n, p, l, v)
<1> DEFINE a == [k \in 1..l |-> v]
           b == Rest(d, n, p + l)
           r == Rest(d, n, p)
           S == C \cup {v}
           s == a \o b
<1>1. a \in Seq(S) /\ Len(a) = l
  <2>1. a \in [1..l -> S]
    OBVIOUS
  <2> HIDE DEF a
  <2>2. QED
    BY <2>1, DrawingLen
<1>2. \A k \in 1..l : a[k] = v
  OBVIOUS
<1>3. \A x \in 0..n : /\ Rest(d, n, x) \in Seq(S) /\ Len(Rest(d, n, x)) = n - x
                      /\ \A k \in 1..(n - x) : Rest(d, n, x)[k] = d[x + k]
  <2> TAKE x \in 0..n
  <2>1. n - x \in Nat /\ \A k \in 1..(n - x) : x + k \in 1..n
    OBVIOUS
  <2>2. Rest(d, n, x) \in [1..(n - x) -> S]
    BY <2>1 DEF Rest
  <2>3. Rest(d, n, x) \in Seq(S) /\ Len(Rest(d, n, x)) = n - x
    BY <2>1, <2>2, DrawingLen
  <2>4. QED
    BY <2>1, <2>3 DEF Rest
<1>4. p \in 0..n /\ p + l \in 0..n
  OBVIOUS
<1>5. /\ b \in Seq(S) /\ Len(b) = n - (p + l)
      /\ \A k \in 1..(n - (p + l)) : b[k] = d[p + l + k]
  BY <1>3, <1>4
<1>6. r \in Seq(S) /\ Len(r) = n - p /\ \A k \in 1..(n - p) : r[k] = d[p + k]
  BY <1>3, <1>4
<1>7. Joined(s, a, b)
  BY Zenon DEF Joined
<1> HIDE DEF a, b, r, S, s
<1>8. s \in Seq(S) /\ Behind(s, a, b)
  BY <1>1, <1>5, <1>7, JoinFacts
<1>9. /\ Len(s) = n - p /\ \A k \in 1..l : s[k] = a[k]
      /\ \A k \in 1..(n - (p + l)) : s[l + k] = b[k]
  <2>1. /\ Len(s) = l + (n - (p + l)) /\ \A k \in 1..l : s[k] = a[k]
        /\ \A k \in 1..(n - (p + l)) : s[l + k] = b[k]
    BY <1>1, <1>5, <1>8, Zenon DEF Behind
  <2>2. l + (n - (p + l)) = n - p
    OBVIOUS
  <2>3. QED
    BY <2>1, <2>2, Zenon
<1>10. ASSUME NEW k \in 1..(n - p)
       PROVE  s[k] = r[k]
  <2>1. r[k] = d[p + k]
    BY <1>6
  <2>2. CASE k <= l
    BY <1>2, <1>9, <2>1, <2>2
  <2>3. CASE k > l
    <3>1. PICK i \in 1..(n - (p + l)) : k = l + i
      <4>1. k - l \in 1..(n - (p + l)) /\ k = l + (k - l)
        BY <2>3
      <4>2. QED
        BY <4>1
    <3>2. s[k] = d[p + l + i]
      BY <1>5, <1>9, <3>1
    <3>3. p + l + i = p + k
      BY <3>1
    <3>4. QED
      BY <2>1, <3>2, <3>3, Zenon
  <2>4. QED
    BY <2>2, <2>3
<1>11. s = r
  BY <1>6, <1>8, <1>9, <1>10
<1>12. QED
  BY <1>11 DEF s, a, b, r, Put

\* From any pixel on, what is read is the rest of the chunk.
LEMMA WalkReads ==
  ASSUME NEW C, NEW n \in Nat, NEW d \in [1..n -> C], NEW R, NEW E, NEW msg,
         IsMessage(msg, C, d, R, E, n), NEW f, IsWalk(f, msg.data, ToSet(msg.points), 0)
  PROVE  f[0] = d
<1> DEFINE Reads(p) == \A j \in 0..Len(R) : E[j] <= p /\ p <= GapEnd(R, E, n, j)
                                              => f[Place(R, E, j, p)] = Rest(d, n, p)
           S == {r \in 0..n : \A p \in (n - r)..n : Reads(p)}
<1>1. IsTable(d, R, E, n) /\ R \in Seq(Point) /\ Len(R) \in Nat /\ E[0] = 0
  BY DEF IsMessage, IsTable
<1>2. ASSUME NEW p \in 0..n, \A x \in (p + 1)..n : Reads(x),
             NEW j \in 0..Len(R), E[j] <= p, p <= GapEnd(R, E, n, j)
      PROVE  f[Place(R, E, j, p)] = Rest(d, n, p)
  <2> DEFINE N == GapEnd(R, E, n, j)
  <2>1. N \in Nat /\ N <= n /\ E[j] \in Nat
    BY GapFacts
  <2>2. CASE p < N
    <3>1. f[Place(R, E, j, p)] = [k \in 1..1 |-> d[p + 1]] \o f[Place(R, E, j, p + 1)]
      <4>1. PixelIsRead(f, d, R, E, j, p)
        BY <1>2, <2>2, PixelStep
      <4>2. QED
        BY <4>1 DEF PixelIsRead
    <3>2. p + 1 \in (p + 1)..n /\ E[j] <= p + 1 /\ p + 1 <= N
      BY <1>2, <2>1, <2>2
    <3>3. f[Place(R, E, j, p + 1)] = Rest(d, n, p + 1)
      BY <1>2, <3>2
    <3>4. [k \in 1..1 |-> d[p + 1]] \o Rest(d, n, p + 1) = Rest(d, n, p)
      <4>1. \A k \in 1..1 : d[p + k] = d[p + 1]
        OBVIOUS
      <4>2. p \in Nat /\ 1 \in Nat /\ p + 1 <= n
        BY <2>1, <2>2
      <4>3. QED
        <5>1. Put(d, n, p, 1, d[p + 1])
          BY <4>1, <4>2, RestJoined
        <5>2. QED
          BY <5>1, Zenon DEF Put
    <3>5. QED
      BY <3>1, <3>3, <3>4, Zenon
  <2>3. CASE p = N /\ j # Len(R)
    <3>1. PICK i \in 1..Len(R) : i = j + 1 /\ i \in 0..Len(R)
      BY <1>1, <2>3
    <3>2. RunOk(R, E, n, i) /\ i - 1 = j
      BY <1>1, <3>1, RunFacts
    <3>3. PICK l \in Nat : l = R[i].length
      BY <3>2 DEF RunOk
    <3>4. PICK q \in Nat : q = E[i]
      BY <3>2 DEF RunOk
    <3>5. p = q - l /\ l >= 3 /\ q <= n
      BY <2>3, <3>1, <3>2, <3>3, <3>4, Zenon DEF GapEnd, RunOk
    <3>6. f[Place(R, E, j, p)] = [k \in 1..l |-> d[p + 1]] \o f[Place(R, E, i, q)]
      <4>1. p \in Nat /\ j # Len(R)
        BY <2>3
      <4>2. f[Place(R, E, j, p)] =
              [k \in 1..R[j + 1].length |-> d[p + 1]] \o f[Place(R, E, j + 1, E[j + 1])]
        <5>1. RunIsRead(f, d, R, E, j, p)
          BY <2>3, <4>1, RunStep
        <5>2. QED
          BY <5>1 DEF RunIsRead
      <4>3. QED
        BY <3>1, <3>3, <3>4, <4>2, Zenon
    <3>7. q = p + l /\ p \in Nat /\ q \in (p + 1)..n
      BY <3>5
    <3>8. f[Place(R, E, i, q)] = Rest(d, n, q)
      <4>1. Reads(q)
        BY <1>2, <3>7
      <4>2. E[i] <= q /\ q <= GapEnd(R, E, n, i)
        <5>1. E[i] <= GapEnd(R, E, n, i)
          BY <3>1, GapFacts
        <5>2. q <= q
          OBVIOUS
        <5>3. QED
          BY <3>4, <5>1, <5>2, Zenon
      <4>3. QED
        BY <3>1, <4>1, <4>2
    <3>9. \A k \in 1..l : d[p + k] = d[p + 1]
      <4>1. \A x \in (q - l + 1)..q : d[x] = d[q]
        <5>1. IsRun(d, R, E, i)
          BY <1>1 DEF IsTable
        <5>2. QED
          BY <3>3, <3>4, <5>1, Zenon DEF IsRun
      <4>2. \A k \in 1..l : p + k \in (q - l + 1)..q
        BY <3>5
      <4>3. 1 \in 1..l
        BY <3>5
      <4>4. QED
        BY <4>1, <4>2, <4>3, Zenon
    <3>10. [k \in 1..l |-> d[p + 1]] \o Rest(d, n, p + l) = Rest(d, n, p)
      <4>1. p + l <= n
        BY <3>5, <3>7
      <4>2. Put(d, n, p, l, d[p + 1])
        BY <3>7, <3>9, <4>1, RestJoined
      <4>3. QED
        BY <4>2, Zenon DEF Put
    <3>11. QED
      BY <3>6, <3>7, <3>8, <3>10, Zenon
  <2>4. CASE p = N /\ j = Len(R)
    <3>1. p = n
      BY <2>4 DEF GapEnd
    <3>2. Place(R, E, j, p) = Len(msg.data)
      BY <2>4, <3>1, Zenon DEF Place, IsMessage
    <3>3. Len(msg.data) \in Nat
      <4>1. msg.data \in Seq(Bytes(C))
        BY DEF IsMessage
      <4>2. QED
        BY <4>1
    <3>4. f[Len(msg.data)] = <<>>
      BY <3>3 DEF IsWalk
    <3>5. Rest(d, n, n) = <<>>
      <4>1. n - n = 0
        OBVIOUS
      <4>2. QED
        BY <4>1 DEF Rest
    <3>6. QED
      BY <3>1, <3>2, <3>4, <3>5, Zenon
  <2>5. p < N \/ p = N
    BY <1>2, <2>1
  <2>6. QED
    BY <2>2, <2>3, <2>4, <2>5
<1>3. \A p \in 0..n : (\A x \in (p + 1)..n : Reads(x)) => Reads(p)
  BY <1>2
<1> HIDE DEF Reads
<1>4. 0 \in S
  <2>1. n \in 0..n /\ n - 0 = n /\ (\A x \in (n + 1)..n : Reads(x)) /\ \A p \in n..n : p = n
    OBVIOUS
  <2>2. Reads(n)
    BY <1>3, <2>1
  <2>3. QED
    BY <2>1, <2>2
<1>5. ASSUME NEW r \in 1..n, r - 1 \in S
      PROVE  r \in S
  <2> DEFINE p == n - r
  <2>1. p \in 0..n /\ n - (r - 1) = p + 1 /\ r \in 0..n
    OBVIOUS
  <2>2. \A x \in (p + 1)..n : Reads(x)
    BY <1>5, <2>1
  <2>3. Reads(p)
    BY <1>3, <2>1, <2>2
  <2> HIDE DEF p
  <2>4. \A x \in p..n : x = p \/ x \in (p + 1)..n
    BY <2>1
  <2>5. \A x \in p..n : Reads(x)
    BY <2>2, <2>3, <2>4
  <2>6. QED
    BY <2>1, <2>5 DEF p
<1>6. n \in S
  <2>1. 0..n \subseteq S
    <3> HIDE DEF S
    <3> QED
      BY <1>4, <1>5, UpTo
  <2>2. QED
    BY <2>1
<1>7. Reads(0)
  BY <1>6
<1>8. f[0] = Rest(d, n, 0)
  <2>1. 0 \in 0..Len(R) /\ E[0] <= 0 /\ 0 <= GapEnd(R, E, n, 0)
    BY <1>1, GapFacts
  <2>2. Place(R, E, 0, 0) = 0
    BY <1>1 DEF Place, Out
  <2>3. f[Place(R, E, 0, 0)] = Rest(d, n, 0)
    BY <1>7, <2>1 DEF Reads
  <2>4. QED
    BY <2>2, <2>3, Zenon
<1>9. Rest(d, n, 0) = d
  <2>1. Rest(d, n, 0) = [k \in 1..n |-> d[k]]
    <3>1. n - 0 = n /\ \A k \in 1..n : 0 + k = k
      OBVIOUS
    <3>2. QED
      BY <3>1 DEF Rest
  <2>2. QED
    BY <2>1
<1>10. QED
  BY <1>8, <1>9, Zenon

\* The message of any chunk means the chunk and fits into its array.
LEMMA DrawingArrives ==
  ASSUME NEW C, NEW n \in Nat \ {0}, NEW d \in [1..n -> C]
  PROVE  Arrives(d)
<1> DEFINE msg == compress_data_to(d)
           D == msg.data
           runs == ToSet(msg.points)
           from == CHOOSE f : f = [c \in 0..Len(D) |-> IF c = Len(D) THEN <<>>
                                                       ELSE Walk(f, D, runs, c)]
<1>1. PICK R, E : IsMessage(msg, C, d, R, E, n)
  BY MessageLayout
<1> HIDE DEF msg
<1>2. D \in Seq(Bytes(C)) /\ Len(D) \in Nat
  <2>1. D \in Seq(Bytes(C))
    BY <1>1 DEF IsMessage
  <2>2. QED
    BY <2>1
<1>3. Meaning(msg) = from[0]
  BY Zenon DEF Meaning, Walk
<1>4. IsWalk(from, D, runs, 0)
  <2>1. \E f : f = [c \in 0..Len(D) |-> IF c = Len(D) THEN <<>> ELSE Walk(f, D, runs, c)]
    <3> HIDE DEF D, runs
    <3>1. \E f : IsWalk(f, D, runs, 0)
      BY <1>2, WalkExists
    <3>2. QED
      BY <3>1, Zenon DEF IsWalk
  <2>2. QED
    BY <2>1, Zenon DEF IsWalk
<1> HIDE DEF from
<1>5. from[0] = d
  BY <1>1, <1>4, WalkReads
<1>6. R \in Seq(Point) /\ Len(R) \in Nat /\ E[Len(R)] \in 0..n
  <2>1. IsTable(d, R, E, n)
    BY <1>1 DEF IsMessage
  <2>2. R \in Seq(Point) /\ E \in [0..Len(R) -> 0..n] /\ Len(R) \in Nat
    BY <2>1 DEF IsTable
  <2>3. QED
    BY <2>2
<1>7. PICK m \in Nat : m = Len(R)
  BY <1>6
<1>8. Len(msg.points) = m
  <2>1. msg.points = [k \in 1..m |-> R[k].pos]
    BY <1>1, <1>7 DEF IsMessage
  <2>2. \A k \in 1..m : R[k].pos \in Nat
    BY <1>6, <1>7, PointType
  <2>3. msg.points \in [1..m -> Nat]
    BY <2>1, <2>2
  <2>4. QED
    BY <2>3, DrawingLen
<1>9. msg.size = Len(D) + 2 * m + 14
  BY <1>1, <1>7 DEF IsMessage
<1>10. Len(D) + 2 * m <= 3 * n
  <2>1. Len(D) = Out(R, m) + 3 * (n - E[m]) /\ Out(R, m) + 2 * m <= 3 * E[m]
    <3>1. IsTable(d, R, E, n)
      BY <1>1 DEF IsMessage
    <3>2. \A k \in 0..Len(R) : Out(R, k) + 2 * k <= 3 * E[k]
      BY <3>1 DEF IsTable
    <3>3. m \in 0..Len(R)
      BY <1>7
    <3>4. QED
      BY <1>1, <1>7, <3>2, <3>3 DEF IsMessage
  <2>2. PICK o \in Nat : o = Out(R, m)
    BY <1>6, <1>7, OutType
  <2>3. PICK e \in Nat : e = E[m]
    BY <1>6, <1>7
  <2>4. Len(D) = o + 3 * (n - e) /\ o + 2 * m <= 3 * e
    BY <2>1, <2>2, <2>3, Zenon
  <2>5. QED
    BY <2>4
<1>11. Len(d) = n
  BY DrawingLen
<1>12. /\ msg.size = HeaderBytes + 2 * Len(msg.points) + Len(D)
       /\ msg.size <= Len(d) * PixelBytes + HeaderBytes
  <2>1. PICK L \in Nat : L = Len(D)
    BY <1>2
  <2>2. msg.size = L + 2 * m + 14 /\ L + 2 * m <= 3 * n
    BY <1>9, <1>10, <2>1
  <2>3. L + 2 * m + 14 = 14 + 2 * m + L /\ L + 2 * m + 14 <= n * 3 + 14
    BY <2>2
  <2>4. QED
    BY <1>8, <1>11, <2>1, <2>2, <2>3, Zenon DEF HeaderBytes, PixelBytes
<1>13. QED
  BY <1>3, <1>5, <1>12, Zenon DEF Arrives, msg

-----------------------------------------------------------------------------
(* Lemmas about the operators World is built from. *)

\* What an iteration stops at is a part of what it iterates over.
LEMMA FirstOfSubset ==
  ASSUME NEW S, NEW n, NEW T \in FirstOf(S, n)
  PROVE  T \subseteq S
BY DEF FirstOf

\* The pending updates of a pixel, if any, have a last one.
LEMMA LastExists ==
  ASSUME NEW n \in Nat, NEW S \in SUBSET (1..n), S # {}
  PROVE  \E k \in 1..n : IsLast(k, S)
<1> DEFINE R == {e \in S \X S : e[1] < e[2]}
<1>1. IsFiniteSet(S)
  <2>1. IsFiniteSet(1..n)
    BY FS_Interval
  <2>2. QED
    BY <2>1, FS_Subset, Zenon
<1>2. \A x \in S : <<x, x>> \notin R
  OBVIOUS
<1>3. \A x, y, z \in S : <<x, y>> \in R /\ <<y, z>> \in R => <<x, z>> \in R
  OBVIOUS
<1>4. \E k \in S : \A j \in S : <<k, j>> \notin R
  <2> HIDE DEF R
  <2> QED
    BY <1>1, <1>2, <1>3, MaximalExists, Zenon
<1>5. PICK k \in S : \A j \in S : <<k, j>> \notin R
  BY <1>4
<1>6. \A j \in S : j <= k
  <2> SUFFICES ASSUME NEW j \in S
               PROVE  j <= k
    OBVIOUS
  <2>1. ~(k < j)
    BY <1>5
  <2>2. k \in Int /\ j \in Int
    OBVIOUS
  <2>3. QED
    BY <2>1, <2>2
<1>7. QED
  BY <1>6 DEF IsLast

LEMMA Min2Type ==
  ASSUME NEW m \in Nat, NEW n \in Nat
  PROVE  Min2(m, n) \in 0..m
BY DEF Min2

-----------------------------------------------------------------------------
(* Type correctness. *)

USE WorldAssumption DEF Id

\* The colours an UPDATE message gives a player are colours.
LEMMA ToldPixelsType ==
  ASSUME TypeOK, NEW n \in 0..Len(pxupdates),
         NEW view \in [Pixel -> Colour \cup {Nothing}]
  PROVE  ToldPixels(view, n) \in [Pixel -> Colour \cup {Nothing}]
<1> SUFFICES ASSUME NEW p \in Pixel, UpdatesOf(p, n) # {}
             PROVE  pxupdates[CHOOSE k \in 1..n : IsLast(k, UpdatesOf(p, n))].clr \in Colour
  BY DEF ToldPixels
<1> DEFINE last == CHOOSE k \in 1..n : IsLast(k, UpdatesOf(p, n))
<1>1. n \in Nat /\ pxupdates \in Seq(Pixupd)
  BY DEF TypeOK
<1>2. UpdatesOf(p, n) \in SUBSET (1..n)
  BY DEF UpdatesOf
<1>3. last \in 1..n
  BY <1>1, <1>2, LastExists
<1>4. last \in 1..Len(pxupdates)
  BY <1>1, <1>3
<1>5. pxupdates[last] \in Pixupd
  BY <1>1, <1>4
<1>6. QED
  BY <1>5 DEF Pixupd

\* So are the positions.
LEMMA ToldPlayersType ==
  ASSUME TypeOK, NEW batch \in SUBSET plupdates, NEW gone,
         NEW view \in [Id -> Pos \cup {Nothing}]
  PROVE  ToldPlayers(view, batch, gone) \in [Id -> Pos \cup {Nothing}]
<1> SUFFICES ASSUME NEW i \in Id, \E a \in batch : id[a] = i
             PROVE  pos[CHOOSE a \in batch : id[a] = i] \in Pos
  BY DEF ToldPlayers
<1> DEFINE a == CHOOSE a \in batch : id[a] = i
<1>1. a \in batch
  OBVIOUS
<1>2. QED
  BY <1>1 DEF TypeOK

LEMMA BlankType ==
  /\ Unseen \in [Id -> Pos \cup {Nothing}]
  /\ Blank \in [Pixel -> Colour \cup {Nothing}]
BY DEF Unseen, Blank

LEMMA TypeInit == Init => TypeOK
<1> SUFFICES ASSUME Init
             PROVE  TypeOK
  OBVIOUS
<1>2. pids \in 0..MaxId /\ clients \subseteq Addr /\ plupdates \subseteq clients
  BY DEF Init
<1>3. plleft \subseteq 0..MaxId /\ pxupdates \in Seq(Pixupd)
  BY DEF Init
<1>4. id \in [Addr -> 0..MaxId]
  BY DEF Init
<1>5. pos \in [Addr -> Pos]
  BY DEF Init
<1>6. seen \in [Addr -> [Id -> Pos \cup {Nothing}]]
  BY BlankType DEF Init
<1>7. shown \in [Addr -> [Pixel -> Colour \cup {Nothing}]]
  BY BlankType DEF Init
<1>8. QED
  BY <1>2, <1>3, <1>4, <1>5, <1>6, <1>7 DEF Init, TypeOK

LEMMA TypeStep == TypeOK /\ [Next]_vars => TypeOK'
<1> SUFFICES ASSUME TypeOK, [Next]_vars
             PROVE  TypeOK'
  OBVIOUS
<1> USE DEF TypeOK
<1>1. ASSUME NEW a \in Addr, Join(a)
      PROVE  TypeOK'
  BY <1>1 DEF Join, update_all_clients, get_id, sched_updates, pixelVars
<1>2. ASSUME NEW a \in Addr, Leave(a)
      PROVE  TypeOK'
  <2>1. id[a] \in 0..MaxId
    BY <1>2 DEF Leave, rm_cli
  <2>2. plleft' \subseteq 0..MaxId
    BY <1>2, <2>1 DEF Leave, rm_cli
  <2>3. seen' \in [Addr -> [Id -> Pos \cup {Nothing}]]
    BY <1>2, BlankType DEF Leave, rm_cli
  <2>4. shown' \in [Addr -> [Pixel -> Colour \cup {Nothing}]]
    BY <1>2, BlankType DEF Leave, rm_cli
  <2>5. QED
    BY <1>2, <2>2, <2>3, <2>4 DEF Leave, rm_cli, sched_updates
<1>3. ASSUME NEW a \in Addr, LeaveLast(a)
      PROVE  TypeOK'
  <2>1. seen' \in [Addr -> [Id -> Pos \cup {Nothing}]]
    BY <1>3, BlankType DEF LeaveLast
  <2>2. shown' \in [Addr -> [Pixel -> Colour \cup {Nothing}]]
    BY <1>3, BlankType DEF LeaveLast
  <2>3. pxupdates' \in Seq(Pixupd)
    BY <1>3 DEF LeaveLast
  <2>4. /\ pids' = 0 /\ clients' = {} /\ plupdates' = {} /\ plleft' = {}
        /\ timer' = FALSE /\ stale' = {}
    BY <1>3 DEF LeaveLast
  <2>5. UNCHANGED <<id, pos, canvas>>
    BY <1>3 DEF LeaveLast
  <2>6. pids' \in 0..MaxId
    BY <2>4
  <2>7. QED
    BY <2>1, <2>2, <2>3, <2>4, <2>5, <2>6
<1>4. ASSUME NEW a \in Addr, NEW p \in Pos, Move(a, p)
      PROVE  TypeOK'
  BY <1>4 DEF Move, upd_cli, sched_updates, pixelVars
<1>5. ASSUME NEW a \in Addr, NEW p \in Pos, Teleport(a, p)
      PROVE  TypeOK'
  BY <1>5 DEF Teleport, upd_cli, sched_updates, pixelVars
<1>6. ASSUME NEW p \in Pixel, NEW clr \in Colour, PutPx(p, clr)
      PROVE  TypeOK'
  BY <1>6 DEF PutPx, push_back, sched_updates, playerVars, Pixupd
<1>7. ASSUME NEW a \in Addr, NEW ch \in Chunk, GetChunk(a, ch)
      PROVE  TypeOK'
  BY <1>7 DEF GetChunk, playerVars
<1>8. ASSUME NEW ch \in Chunk, NEW data \in [Pixel -> Colour], SetChunk(ch, data)
      PROVE  TypeOK'
  BY <1>8 DEF SetChunk, playerVars
<1>9. CASE SendUpdates
  <2> DEFINE n == Min2(Len(pxupdates), MaxPixelUpdates)
  <2>1. n \in 0..Len(pxupdates)
    <3>1. Len(pxupdates) \in Nat /\ MaxPixelUpdates \in Nat
      OBVIOUS
    <3>2. QED
      BY <3>1, Min2Type
  <2>2. PICK batch \in FirstOf(plupdates, MaxPlayerUpdates),
             gone \in FirstOf(plleft, MaxPlayerLeft) :
          /\ plupdates' = plupdates \ batch
          /\ plleft' = plleft \ gone
          /\ seen' = [a \in Addr |-> IF a \in clients
                                     THEN ToldPlayers(seen[a], batch, gone)
                                     ELSE seen[a]]
          /\ timer' = (batch # plupdates \/ gone # plleft)
    BY <1>9 DEF SendUpdates, WorkRemains
  <2>3. batch \in SUBSET plupdates
    BY FirstOfSubset
  <2>4. \A a \in Addr : ToldPlayers(seen[a], batch, gone) \in [Id -> Pos \cup {Nothing}]
    BY <2>3, ToldPlayersType
  <2>5. \A a \in Addr : ToldPixels(shown[a], n) \in [Pixel -> Colour \cup {Nothing}]
    BY <2>1, ToldPixelsType
  <2>6. seen' \in [Addr -> [Id -> Pos \cup {Nothing}]]
    BY <2>2, <2>4
  <2>7. shown' \in [Addr -> [Pixel -> Colour \cup {Nothing}]]
    BY <1>9, <2>5 DEF SendUpdates
  <2>8. stale' \subseteq Pixel /\ pxupdates' \in Seq(Pixupd)
    BY <1>9 DEF SendUpdates
  <2>9. plupdates' \subseteq clients' /\ plleft' \subseteq 0..MaxId /\ timer' \in BOOLEAN
    BY <1>9, <2>2 DEF SendUpdates
  <2>10. QED
    BY <1>9, <2>6, <2>7, <2>8, <2>9 DEF SendUpdates
<1>10. CASE UNCHANGED vars
  BY <1>10 DEF vars, playerVars, pixelVars
<1>11. [p \in Pixel |-> Bg] \in [Pixel -> Colour]
  OBVIOUS
<1>12. QED
  BY <1>1, <1>2, <1>3, <1>4, <1>5, <1>6, <1>7, <1>8, <1>9, <1>10, <1>11
     DEF Next, PlayerNext, PixelNext, del_chunk, paste_chunk

\* Every variable of a World object keeps its type, for any limits.
THEOREM TypeCorrect == Spec => []TypeOK
BY TypeInit, TypeStep, PTL DEF Spec

-----------------------------------------------------------------------------
(* Nothing is left unsent. *)

LEMMA WorkStep == TypeOK /\ WorkIsScheduled /\ [Next]_vars => WorkIsScheduled'
<1> SUFFICES ASSUME TypeOK, WorkIsScheduled, [Next]_vars
             PROVE  WorkIsScheduled'
  OBVIOUS
<1> USE DEF WorkIsScheduled
<1>1. ASSUME NEW a \in Addr, Join(a) \/ Leave(a)
      PROVE  WorkIsScheduled'
  BY <1>1 DEF Join, update_all_clients, Leave, rm_cli, sched_updates
<1>2. ASSUME NEW a \in Addr, LeaveLast(a)
      PROVE  WorkIsScheduled'
  BY <1>2 DEF LeaveLast
<1>3. ASSUME NEW a \in Addr, NEW p \in Pos, Move(a, p) \/ Teleport(a, p)
      PROVE  WorkIsScheduled'
  BY <1>3 DEF Move, Teleport, upd_cli, sched_updates
<1>4. ASSUME NEW p \in Pixel, NEW clr \in Colour, PutPx(p, clr)
      PROVE  WorkIsScheduled'
  BY <1>4 DEF PutPx, push_back, sched_updates
<1>5. ASSUME NEW a \in Addr, NEW ch \in Chunk, GetChunk(a, ch)
      PROVE  WorkIsScheduled'
  BY <1>5 DEF GetChunk, playerVars
<1>6. ASSUME NEW ch \in Chunk, NEW data, SetChunk(ch, data)
      PROVE  WorkIsScheduled'
  BY <1>6 DEF SetChunk, playerVars
<1>7. CASE SendUpdates
  <2>1. PICK batch \in FirstOf(plupdates, MaxPlayerUpdates),
             gone \in FirstOf(plleft, MaxPlayerLeft) :
          /\ plupdates' = plupdates \ batch
          /\ plleft' = plleft \ gone
          /\ timer' = (batch # plupdates \/ gone # plleft)
    BY <1>7 DEF SendUpdates, WorkRemains
  <2>2. batch = plupdates => plupdates' = {}
    BY <2>1
  <2>3. gone = plleft => plleft' = {}
    BY <2>1
  <2>4. pxupdates' = <<>>
    BY <1>7 DEF SendUpdates
  <2>5. QED
    BY <2>1, <2>2, <2>3, <2>4
<1>8. CASE UNCHANGED vars
  BY <1>8 DEF vars, playerVars, pixelVars
<1>9. QED
  BY <1>1, <1>2, <1>3, <1>4, <1>5, <1>6, <1>7, <1>8
     DEF Next, PlayerNext, PixelNext, del_chunk, paste_chunk

\* Whatever waits to be sent while a player is there, the timer is active.
THEOREM WorkScheduled == Spec => []WorkIsScheduled
<1>1. Init => WorkIsScheduled
  BY DEF Init, WorkIsScheduled
<1>2. QED
  BY <1>1, TypeCorrect, WorkStep, PTL DEF Spec

-----------------------------------------------------------------------------
(* Ids. *)

LEMMA IdsStep == TypeOK /\ IdsTellPlayersApart /\ [Next]_vars => IdsTellPlayersApart'
<1> SUFFICES ASSUME TypeOK, IdsTellPlayersApart, [Next]_vars
             PROVE  IdsTellPlayersApart'
  OBVIOUS
<1> USE DEF IdsTellPlayersApart
<1>1. ASSUME NEW a \in Addr, Join(a)
      PROVE  IdsTellPlayersApart'
  <2>1. /\ pids' = pids + 1 /\ pids \in Nat /\ plleft' = plleft
        /\ clients' = clients \cup {a} /\ a \notin clients
    BY <1>1 DEF Join, update_all_clients, get_id, TypeOK
  <2>2. id'[a] = pids + 1 /\ \A b \in clients : id'[b] = id[b]
    BY <1>1 DEF Join, update_all_clients, get_id, TypeOK
  <2>3. plleft' \subseteq 1..pids'
    BY <2>1
  <2>4. \A b \in clients' : id'[b] \in 1..pids' /\ id'[b] \notin plleft'
    BY <2>1, <2>2
  <2>5. \A b, c \in clients' : id'[b] = id'[c] => b = c
    BY <2>1, <2>2
  <2>6. QED
    BY <2>3, <2>4, <2>5
<1>2. ASSUME NEW a \in Addr, Leave(a)
      PROVE  IdsTellPlayersApart'
  BY <1>2 DEF Leave, rm_cli, TypeOK
<1>3. ASSUME NEW a \in Addr, LeaveLast(a)
      PROVE  IdsTellPlayersApart'
  BY <1>3 DEF LeaveLast
<1>4. CASE SendUpdates
  <2>1. UNCHANGED <<pids, clients, id>> /\ plleft' \subseteq plleft
    BY <1>4 DEF SendUpdates
  <2>2. QED
    BY <2>1
<1>5. ASSUME UNCHANGED <<pids, clients, id, plleft>>
      PROVE  IdsTellPlayersApart'
  BY <1>5
<1>6. ASSUME NEW a \in Addr, NEW p \in Pos, Move(a, p) \/ Teleport(a, p)
      PROVE  IdsTellPlayersApart'
  BY <1>5, <1>6 DEF Move, Teleport
<1>7. CASE PixelNext \/ UNCHANGED vars
  BY <1>5, <1>7 DEF PixelNext, PutPx, push_back, GetChunk, del_chunk, paste_chunk, SetChunk,
                    vars, playerVars
<1>8. QED
  BY <1>1, <1>2, <1>3, <1>4, <1>6, <1>7 DEF Next, PlayerNext

\* No two players of a world share an id, and an id is never used again.
THEOREM IdsApart == Spec => []IdsTellPlayersApart
<1>1. Init => IdsTellPlayersApart
  BY DEF Init, IdsTellPlayersApart
<1>2. QED
  BY <1>1, TypeCorrect, IdsStep, PTL DEF Spec

-----------------------------------------------------------------------------
(* What players know of each other. *)

LEMMA ForgottenStep == TypeOK /\ Forgotten /\ [Next]_vars => Forgotten'
<1> SUFFICES ASSUME TypeOK, Forgotten, [Next]_vars
             PROVE  Forgotten'
  OBVIOUS
<1> USE DEF Forgotten
<1>1. ASSUME NEW a \in Addr, Join(a)
      PROVE  Forgotten'
  BY <1>1 DEF Join, update_all_clients, pixelVars
<1>2. ASSUME NEW a \in Addr, Leave(a)
      PROVE  Forgotten'
  BY <1>2 DEF Leave, rm_cli, TypeOK
<1>3. ASSUME NEW a \in Addr, LeaveLast(a)
      PROVE  Forgotten'
  BY <1>3 DEF LeaveLast, TypeOK
<1>4. ASSUME NEW a \in Addr, NEW p \in Pos, Move(a, p)
      PROVE  Forgotten'
  BY <1>4 DEF Move, pixelVars
<1>5. ASSUME NEW a \in Addr, NEW p \in Pos, Teleport(a, p)
      PROVE  Forgotten'
  <2>1. \A b \in Addr \ {a} : seen'[b] = seen[b]
    BY <1>5 DEF Teleport, TypeOK
  <2>2. UNCHANGED <<clients, shown, pxupdates>> /\ a \in clients
    BY <1>5 DEF Teleport, pixelVars
  <2>3. QED
    BY <2>1, <2>2
<1>6. ASSUME NEW p \in Pixel, NEW clr \in Colour, PutPx(p, clr)
      PROVE  Forgotten'
  BY <1>6 DEF PutPx, push_back, playerVars
<1>7. ASSUME NEW a \in Addr, NEW ch \in Chunk, GetChunk(a, ch)
      PROVE  Forgotten'
  <2>1. \A b \in Addr \ {a} : shown'[b] = shown[b]
    BY <1>7 DEF GetChunk, TypeOK
  <2>2. UNCHANGED <<clients, seen, pxupdates>> /\ a \in clients
    BY <1>7 DEF GetChunk, playerVars
  <2>3. QED
    BY <2>1, <2>2
<1>8. ASSUME NEW ch \in Chunk, NEW data, SetChunk(ch, data)
      PROVE  Forgotten'
  <2>1. \A b \in Addr \ clients : shown'[b] = [p \in Pixel |-> shown[b][p]]
    BY <1>8 DEF SetChunk
  <2>2. \A b \in Addr \ clients : shown'[b] = shown[b]
    BY <2>1 DEF TypeOK
  <2>3. QED
    BY <1>8, <2>2 DEF SetChunk, playerVars
<1>9. CASE SendUpdates
  BY <1>9 DEF SendUpdates
<1>10. CASE UNCHANGED vars
  BY <1>10 DEF vars, playerVars, pixelVars
<1>11. QED
  BY <1>1, <1>2, <1>3, <1>4, <1>5, <1>6, <1>7, <1>8, <1>9, <1>10
     DEF Next, PlayerNext, PixelNext, del_chunk, paste_chunk

\* What a tick tells a player of one it sends the position of is that position.
LEMMA ToldTruth ==
  ASSUME TypeOK, IdsTellPlayersApart, NEW batch, batch \subseteq plupdates,
         NEW gone, gone \subseteq plleft, NEW view, NEW i \in Id
  PROVE  \A a \in batch : i = id[a] => ToldPlayers(view, batch, gone)[i] = pos[a]
<1> SUFFICES ASSUME NEW a \in batch, i = id[a]
             PROVE  ToldPlayers(view, batch, gone)[i] = pos[a]
  OBVIOUS
<1> DEFINE b == CHOOSE b \in batch : id[b] = i
<1>1. b \in batch /\ id[b] = i
  OBVIOUS
<1>2. a \in clients /\ b \in clients
  BY <1>1 DEF TypeOK
<1>3. b = a
  BY <1>1, <1>2 DEF IdsTellPlayersApart
<1>4. i \notin gone
  BY <1>2 DEF IdsTellPlayersApart
<1>5. QED
  BY <1>3, <1>4 DEF ToldPlayers

LEMMA KnowStep ==
  TypeOK /\ IdsTellPlayersApart /\ Forgotten /\ PlayersKnowEachOther /\ [Next]_vars
    => PlayersKnowEachOther'
<1> SUFFICES ASSUME TypeOK, IdsTellPlayersApart, Forgotten, PlayersKnowEachOther,
                    [Next]_vars
             PROVE  PlayersKnowEachOther'
  OBVIOUS
<1> USE DEF PlayersKnowEachOther
<1>1. ASSUME NEW a \in Addr, Join(a)
      PROVE  PlayersKnowEachOther'
  <2>1. /\ clients' = clients \cup {a} /\ plupdates' = clients'
        /\ a \notin clients /\ UNCHANGED <<seen, plleft>>
    BY <1>1 DEF Join, update_all_clients
  <2>2. \A b \in clients : id'[b] = id[b]
    BY <1>1, <2>1 DEF Join, update_all_clients, TypeOK
  <2>3. \A i \in Id : seen[a][i] = Nothing
    BY <2>1 DEF Forgotten, Unseen
  <2>4. QED
    BY <2>1, <2>2, <2>3
<1>2. ASSUME NEW a \in Addr, Leave(a)
      PROVE  PlayersKnowEachOther'
  <2>1. /\ clients' = clients \ {a} /\ plupdates' = plupdates \ {a}
        /\ plleft' = plleft \cup {id[a]} /\ UNCHANGED <<id, pos>>
    BY <1>2 DEF Leave, rm_cli
  <2>2. \A c \in clients' : seen'[c] = seen[c]
    BY <1>2, <2>1 DEF Leave, rm_cli, TypeOK
  <2>3. QED
    BY <2>1, <2>2
<1>3. ASSUME NEW a \in Addr, LeaveLast(a)
      PROVE  PlayersKnowEachOther'
  BY <1>3 DEF LeaveLast
<1>4. ASSUME NEW a \in Addr, NEW p \in Pos, Move(a, p)
      PROVE  PlayersKnowEachOther'
  <2>1. UNCHANGED <<clients, id, plleft, seen>> /\ plupdates' = plupdates \cup {a}
    BY <1>4 DEF Move, upd_cli
  <2>2. \A b \in Addr \ {a} : pos'[b] = pos[b]
    BY <1>4 DEF Move, TypeOK
  <2>3. QED
    BY <2>1, <2>2 DEF TypeOK
<1>5. ASSUME NEW a \in Addr, NEW p \in Pos, Teleport(a, p)
      PROVE  PlayersKnowEachOther'
  <2>1. /\ UNCHANGED <<clients, id, plleft>> /\ plupdates' = plupdates \cup {a}
        /\ a \in clients
    BY <1>5 DEF Teleport, upd_cli
  <2>2. \A b \in Addr \ {a} : pos'[b] = pos[b]
    BY <1>5 DEF Teleport, TypeOK
  <2>3. \A c \in Addr, i \in Id : (c # a \/ i # id[a]) => seen'[c][i] = seen[c][i]
    BY <1>5 DEF Teleport, TypeOK
  <2>4. \A b \in clients \ {a} : id[b] # id[a] /\ id[b] \in Id
    BY <2>1 DEF IdsTellPlayersApart, TypeOK
  <2>5. \A c, b \in clients : b \notin plupdates' => seen'[c][id[b]] = pos'[b]
    BY <2>1, <2>2, <2>3, <2>4 DEF TypeOK
  <2>6. \A c \in clients, i \in Id :
           seen'[c][i] # Nothing => i \in plleft \/ \E b \in clients : id[b] = i
    BY <2>1, <2>3 DEF TypeOK
  <2>7. QED
    BY <2>1, <2>5, <2>6
<1>6. CASE SendUpdates
  <2>1. PICK batch \in FirstOf(plupdates, MaxPlayerUpdates),
             gone \in FirstOf(plleft, MaxPlayerLeft) :
          /\ plupdates' = plupdates \ batch
          /\ plleft' = plleft \ gone
          /\ seen' = [a \in Addr |-> IF a \in clients
                                     THEN ToldPlayers(seen[a], batch, gone)
                                     ELSE seen[a]]
    BY <1>6 DEF SendUpdates
  <2>2. batch \subseteq plupdates /\ gone \subseteq plleft
    BY FirstOfSubset
  <2>3. UNCHANGED <<clients, id, pos>>
    BY <1>6 DEF SendUpdates
  <2>4. \A c \in clients : seen'[c] = ToldPlayers(seen[c], batch, gone)
    BY <2>1 DEF TypeOK
  <2>5. \A a \in clients : id[a] \in Id /\ id[a] \notin gone
    BY <2>2 DEF IdsTellPlayersApart, TypeOK
  <2>6. ASSUME NEW c \in clients, NEW i \in Id
        PROVE  /\ i \in gone => seen'[c][i] = Nothing
               /\ \A a \in batch : i = id[a] => seen'[c][i] = pos[a]
               /\ i \notin gone /\ (\A a \in batch : i # id[a])
                    => seen'[c][i] = seen[c][i]
    <3> DEFINE told(view) == ToldPlayers(view, batch, gone)
    <3>1. \A view : i \in gone => told(view)[i] = Nothing
      BY DEF ToldPlayers
    <3>2. \A view : \A a \in batch : i = id[a] => told(view)[i] = pos[a]
      BY <2>2, ToldTruth
    <3>3. \A view : i \notin gone /\ (\A a \in batch : i # id[a]) => told(view)[i] = view[i]
      BY DEF ToldPlayers
    <3> HIDE DEF told
    <3>4. seen'[c] = told(seen[c])
      BY <2>4 DEF told
    <3>5. QED
      BY <3>1, <3>2, <3>3, <3>4
  <2>7. ASSUME NEW c \in clients, NEW a \in clients \ plupdates'
        PROVE  seen'[c][id[a]] = pos[a]
    <3>1. CASE a \in batch
      BY <2>5, <2>6, <3>1
    <3>2. CASE a \notin batch
      <4>1. a \notin plupdates
        BY <2>1, <3>2
      <4>2. \A b \in batch : id[a] # id[b]
        BY <2>2, <3>2 DEF IdsTellPlayersApart, TypeOK
      <4>3. seen'[c][id[a]] = seen[c][id[a]]
        BY <2>5, <2>6, <4>2
      <4>4. QED
        BY <4>1, <4>3
    <3>3. QED
      BY <3>1, <3>2
  <2>8. ASSUME NEW c \in clients, NEW i \in Id, seen'[c][i] # Nothing
        PROVE  i \in plleft' \/ \E a \in clients : id[a] = i
    <3>1. i \notin gone
      BY <2>6, <2>8
    <3>2. CASE \E a \in batch : i = id[a]
      BY <2>2, <3>2 DEF TypeOK
    <3>3. CASE \A a \in batch : i # id[a]
      <4>1. seen[c][i] # Nothing
        BY <2>6, <2>8, <3>1, <3>3
      <4>2. QED
        BY <2>1, <3>1, <4>1
    <3>4. QED
      BY <3>2, <3>3
  <2>9. QED
    BY <2>3, <2>7, <2>8
<1>7. CASE PixelNext \/ UNCHANGED vars
  <2>1. UNCHANGED playerVars
    BY <1>7 DEF PixelNext, PutPx, push_back, GetChunk, del_chunk, paste_chunk, SetChunk, vars
  <2>2. QED
    BY <2>1 DEF playerVars
<1>8. QED
  BY <1>1, <1>2, <1>3, <1>4, <1>5, <1>6, <1>7 DEF Next, PlayerNext

\* But for what is still to be sent, every player has every other's position,
\* and shows nobody who has left.
THEOREM PlayersKnow == Spec => []PlayersKnowEachOther
<1>1. Init => Forgotten /\ PlayersKnowEachOther
  BY DEF Init, Forgotten, PlayersKnowEachOther
<1>2. QED
  BY <1>1, TypeCorrect, IdsApart, ForgottenStep, KnowStep, PTL DEF Spec

LEMMA GhostStep ==
  ASSUME TypeOK, IdsTellPlayersApart, [Next]_vars,
         NEW c \in clients \cap clients', NEW i \in 1..pids,
         ~\E a \in clients : id[a] = i
  PROVE  seen'[c][i] = seen[c][i] \/ seen'[c][i] = Nothing
<1>1. i \in Id /\ c \in Addr
  BY DEF TypeOK
<1>2. ASSUME NEW a \in Addr, Leave(a)
      PROVE  seen'[c] = seen[c]
  BY <1>1, <1>2 DEF Leave, rm_cli, TypeOK
<1>3. ASSUME NEW a \in Addr, NEW p \in Pos, Teleport(a, p)
      PROVE  seen'[c][i] = seen[c][i]
  <2>1. a \in clients /\ i # id[a]
    BY <1>3 DEF Teleport
  <2>2. QED
    BY <1>1, <1>3, <2>1 DEF Teleport, TypeOK
<1>4. CASE SendUpdates
  <2>1. PICK batch \in FirstOf(plupdates, MaxPlayerUpdates),
             gone \in FirstOf(plleft, MaxPlayerLeft) :
          seen' = [a \in Addr |-> IF a \in clients
                                  THEN ToldPlayers(seen[a], batch, gone)
                                  ELSE seen[a]]
    BY <1>4 DEF SendUpdates
  <2>2. \A a \in batch : id[a] # i
    BY FirstOfSubset DEF TypeOK
  <2>3. seen'[c] = ToldPlayers(seen[c], batch, gone)
    BY <1>1, <2>1
  <2>4. QED
    BY <1>1, <2>2, <2>3 DEF ToldPlayers
<1>5. ASSUME NEW a \in Addr, LeaveLast(a)
      PROVE  FALSE
  BY <1>5 DEF LeaveLast
<1>6. ASSUME NEW a \in Addr, NEW p \in Pos, Join(a) \/ Move(a, p)
      PROVE  seen' = seen
  BY <1>6 DEF Join, update_all_clients, Move
<1>7. CASE PixelNext \/ UNCHANGED vars
  BY <1>7 DEF PixelNext, PutPx, push_back, GetChunk, del_chunk, paste_chunk, SetChunk, vars, playerVars
<1>8. QED
  BY <1>2, <1>3, <1>4, <1>5, <1>6, <1>7 DEF Next, PlayerNext

\* A player that has left is never drawn again, whatever was still pending.
THEOREM NoGhost == Spec => NoGhostReturns
<1> DEFINE Quiet == \A c \in clients \cap clients', i \in 1..pids :
                      (~\E a \in clients : id[a] = i) =>
                         seen'[c][i] = seen[c][i] \/ seen'[c][i] = Nothing
<1>1. TypeOK /\ IdsTellPlayersApart /\ [Next]_vars => Quiet
  BY GhostStep
<1>2. QED
  BY <1>1, TypeCorrect, IdsApart, PTL DEF Spec, NoGhostReturns

-----------------------------------------------------------------------------
(* What players know of the pixels. *)

\* A new update is the last one of its pixel and no update of another.
LEMMA AppendUpdate ==
  ASSUME TypeOK, NEW p \in Pixel, NEW u \in Pixupd, pxupdates' = Append(pxupdates, u)
  PROVE  LET n == Len(pxupdates) IN
         /\ UpdatesOf(p, Len(pxupdates))' =
              IF p = u.px THEN UpdatesOf(p, n) \cup {n + 1} ELSE UpdatesOf(p, n)
         /\ pxupdates'[n + 1] = u
         /\ \A k \in 1..n : pxupdates'[k] = pxupdates[k]
<1> DEFINE n == Len(pxupdates)
<1>1. n \in Nat /\ Len(pxupdates') = n + 1 /\ pxupdates'[n + 1] = u
  BY DEF TypeOK
<1>2. \A k \in 1..n : pxupdates'[k] = pxupdates[k]
  BY DEF TypeOK
<1>3. UpdatesOf(p, Len(pxupdates))' = {k \in 1..(n + 1) : pxupdates'[k].px = p}
  BY <1>1 DEF UpdatesOf
<1>4. 1..(n + 1) = (1..n) \cup {n + 1}
  BY <1>1
<1>5. {k \in 1..(n + 1) : pxupdates'[k].px = p} =
        IF p = u.px THEN UpdatesOf(p, n) \cup {n + 1} ELSE UpdatesOf(p, n)
  BY <1>1, <1>2, <1>4 DEF UpdatesOf
<1>6. QED
  BY <1>1, <1>2, <1>3, <1>5

LEMMA CanvasStep ==
  TypeOK /\ Forgotten /\ PlayersSeeTheCanvas /\ [Next]_vars => PlayersSeeTheCanvas'
<1> SUFFICES ASSUME TypeOK, Forgotten, PlayersSeeTheCanvas, [Next]_vars
             PROVE  PlayersSeeTheCanvas'
  OBVIOUS
<1> USE DEF PlayersSeeTheCanvas, WillShow
<1>1. ASSUME NEW a \in Addr, Join(a)
      PROVE  PlayersSeeTheCanvas'
  <2>1. /\ clients' = clients \cup {a} /\ a \notin clients
        /\ UNCHANGED <<pxupdates, canvas, shown, stale>>
    BY <1>1 DEF Join, update_all_clients, pixelVars
  <2>2. \A p \in Pixel : shown[a][p] = Nothing
    <3>1. a \in Addr \ clients
      BY <2>1
    <3>2. shown[a] = Blank
      BY <3>1, Zenon DEF Forgotten
    <3>3. QED
      BY <3>2, Zenon DEF Blank
  <2>3. \A p \in Pixel : \A k \in UpdatesOf(p, Len(pxupdates)) : clients # {}
    BY DEF Forgotten, UpdatesOf
  <2>4. QED
    BY <2>1, <2>2, <2>3 DEF UpdatesOf
<1>2. ASSUME NEW a \in Addr, Leave(a)
      PROVE  PlayersSeeTheCanvas'
  <2>1. /\ clients' = clients \ {a} /\ UNCHANGED <<pxupdates, canvas, stale>>
        /\ \A c \in clients' : shown'[c] = shown[c]
    BY <1>2 DEF Leave, rm_cli, TypeOK
  <2>2. QED
    BY <2>1 DEF UpdatesOf
<1>3. ASSUME NEW a \in Addr, LeaveLast(a)
      PROVE  PlayersSeeTheCanvas'
  BY <1>3 DEF LeaveLast
<1>4. ASSUME UNCHANGED <<clients, pixelVars>>
      PROVE  PlayersSeeTheCanvas'
  BY <1>4 DEF pixelVars, UpdatesOf
<1>5. ASSUME NEW a \in Addr, NEW p \in Pos, Move(a, p) \/ Teleport(a, p)
      PROVE  PlayersSeeTheCanvas'
  BY <1>4, <1>5 DEF Move, Teleport
<1>6. ASSUME NEW q \in Pixel, NEW clr \in Colour, PutPx(q, clr)
      PROVE  PlayersSeeTheCanvas'
  <2> DEFINE n == Len(pxupdates)
             u == [px |-> q, clr |-> clr]
  <2>1. u \in Pixupd /\ u.px = q /\ u.clr = clr
    BY DEF Pixupd
  <2>2. pxupdates' = Append(pxupdates, u)
    BY <1>6 DEF PutPx, push_back
  <2> HIDE DEF u
  <2>3. UNCHANGED <<clients, shown>> /\ stale' = stale \ {q}
    BY <1>6 DEF PutPx, push_back, playerVars
  <2>4. canvas'[q] = clr /\ \A p \in Pixel \ {q} : canvas'[p] = canvas[p]
    BY <1>6 DEF PutPx, push_back, TypeOK
  <2>5. n \in Nat
    BY DEF TypeOK
  <2>6. ASSUME NEW c \in clients', NEW p \in (Pixel \ stale)'
        PROVE  WillShow(c, p)'
    <3>1. CASE p = q
      <4>1. UpdatesOf(p, Len(pxupdates))' = UpdatesOf(p, n) \cup {n + 1}
        BY <2>1, <2>2, <3>1, AppendUpdate
      <4>2. pxupdates'[n + 1].clr = canvas'[p]
        BY <2>1, <2>2, <2>4, <3>1, AppendUpdate
      <4>3. \A k \in UpdatesOf(p, n) : ~(n + 1 <= k)
        BY <2>5 DEF UpdatesOf
      <4>4. QED
        BY <4>1, <4>2, <4>3 DEF IsLast
    <3>2. CASE p # q
      <4>1. UpdatesOf(p, Len(pxupdates))' = UpdatesOf(p, n)
        BY <2>1, <2>2, <3>2, AppendUpdate
      <4>2. \A k \in UpdatesOf(p, n) : pxupdates'[k] = pxupdates[k]
        BY <2>1, <2>2, AppendUpdate DEF UpdatesOf
      <4>3. QED
        BY <2>3, <2>4, <3>2, <4>1, <4>2
    <3>3. QED
      BY <3>1, <3>2
  <2>7. QED
    BY <2>6
<1>7. ASSUME NEW a \in Addr, NEW ch \in Chunk, GetChunk(a, ch)
      PROVE  PlayersSeeTheCanvas'
  <2>1. UNCHANGED <<clients, pxupdates, canvas, stale>>
    BY <1>7 DEF GetChunk, playerVars
  <2>2. \A c \in clients, p \in Pixel : shown'[c][p] \in {shown[c][p], canvas[p]}
    BY <1>7 DEF GetChunk, TypeOK
  <2>3. QED
    BY <2>1, <2>2 DEF UpdatesOf
<1>8. ASSUME NEW ch \in Chunk, NEW data, SetChunk(ch, data)
      PROVE  PlayersSeeTheCanvas'
  <2>1. UNCHANGED <<clients, pxupdates>>
    BY <1>8 DEF SetChunk, playerVars
  <2>2. \A c \in clients, p \in Pixel :
           IF p \in ch THEN shown'[c][p] = data[p] /\ canvas'[p] = data[p]
                       ELSE shown'[c][p] = shown[c][p] /\ canvas'[p] = canvas[p]
    BY <1>8 DEF SetChunk, TypeOK
  <2>3. \A p \in Pixel \ stale' : IF p \in ch THEN UpdatesOf(p, Len(pxupdates)) = {}
                                              ELSE p \notin stale
    BY <1>8 DEF SetChunk
  <2>4. QED
    BY <2>1, <2>2, <2>3 DEF UpdatesOf
<1>9. CASE SendUpdates
  <2> DEFINE n == Min2(Len(pxupdates), MaxPixelUpdates)
  <2>1. /\ UNCHANGED <<clients, canvas>> /\ pxupdates' = <<>>
        /\ stale' = stale \cup {p \in Pixel : ~LastSent(p, n)}
    BY <1>9 DEF SendUpdates
  <2>2. \A p \in Pixel : UpdatesOf(p, Len(pxupdates))' = {}
    BY <2>1 DEF UpdatesOf
  <2>3. \A c \in clients : shown'[c] = ToldPixels(shown[c], n)
    BY <1>9 DEF SendUpdates, TypeOK
  <2>4. n \in Nat
    <3>1. Len(pxupdates) \in Nat /\ MaxPixelUpdates \in Nat
      BY DEF TypeOK
    <3>2. QED
      BY <3>1, Min2Type
  <2>5. ASSUME NEW c \in clients, NEW p \in Pixel \ stale', shown'[c][p] # Nothing
        PROVE  shown'[c][p] = canvas[p]
    <3> DEFINE U == UpdatesOf(p, n)
               last == CHOOSE k \in 1..n : IsLast(k, U)
    <3>1. U = UpdatesOf(p, Len(pxupdates)) /\ p \notin stale
      BY <2>1 DEF LastSent
    <3>2. CASE shown[c][p] = Nothing \/ U = {}
      <4>1. shown'[c][p] = shown[c][p]
        BY <2>3, <3>2 DEF ToldPixels
      <4>2. QED
        BY <2>5, <3>1, <3>2, <4>1
    <3>3. CASE shown[c][p] # Nothing /\ U # {}
      <4>1. shown'[c][p] = pxupdates[last].clr
        <5>1. shown'[c][p] = ToldPixels(shown[c], n)[p]
          BY <2>3, Zenon
        <5>2. ToldPixels(shown[c], n)[p] = pxupdates[last].clr
          <6> HIDE DEF n
          <6> QED
            BY <3>3 DEF ToldPixels
        <5>3. QED
          BY <5>1, <5>2, Zenon
      <4>2. U \in SUBSET (1..n)
        BY DEF UpdatesOf
      <4>3. \E k \in 1..n : IsLast(k, U)
        BY <2>4, <3>3, <4>2, LastExists
      <4>4. IsLast(last, U) /\ last \in U
        <5> HIDE DEF U
        <5> QED
          BY <4>3 DEF IsLast
      <4>5. pxupdates[last].clr = canvas[p]
        BY <3>1, <4>4
      <4>6. QED
        BY <4>1, <4>5
    <3>4. QED
      BY <3>2, <3>3
  <2>6. QED
    BY <2>1, <2>2, <2>5
<1>10. CASE UNCHANGED vars
  BY <1>4, <1>10 DEF vars, playerVars
<1>11. QED
  BY <1>1, <1>2, <1>3, <1>5, <1>6, <1>7, <1>8, <1>9, <1>10
     DEF Next, PlayerNext, PixelNext, del_chunk, paste_chunk

\* But for pixels a chunk-wide write or a full tick made stale, every player
\* shows the canvas once what is pending has been sent.
THEOREM CanvasSeen == Spec => []PlayersSeeTheCanvas
<1>1. Init => Forgotten /\ PlayersSeeTheCanvas
  BY DEF Init, Forgotten, PlayersSeeTheCanvas
<1>2. QED
  BY <1>1, TypeCorrect, ForgottenStep, CanvasStep, PTL DEF Spec

-----------------------------------------------------------------------------
(* The world implements Presence: a Client object's address stands for the *)
(* id it holds while it is in the world.                                   *)

\* What Presence sees of the world, player by player.
Seen ==
  /\ \A a \in clients : /\ Present(id[a])
                        /\ StatusOf(id[a]) = pos[a]
                        /\ Knowledge(id[a]) = seen[a]
  /\ \A i \in Id : ~Present(i) => /\ StatusOf(i) = IF i <= pids THEN "gone" ELSE "unborn"
                                  /\ Knowledge(i) = Unseen

LEMMA SeenAlways == IdsTellPlayersApart => Seen
<1> SUFFICES ASSUME IdsTellPlayersApart
             PROVE  Seen
  OBVIOUS
<1>1. ASSUME NEW a \in clients
      PROVE  Present(id[a]) /\ AddrOf(id[a]) = a
  BY DEF Present, AddrOf, IdsTellPlayersApart
<1>2. QED
  BY <1>1 DEF Seen, StatusOf, Knowledge

\* Who is here, for Presence, is who holds a Client object.
LEMMA HereIsPresent ==
  ASSUME TypeOK, Seen, NEW i \in Id
  PROVE  /\ P!Here(i) <=> Present(i)
         /\ P!Truth(i) = IF Present(i) THEN StatusOf(i) ELSE Nothing
<1>1. Present(i) => StatusOf(i) \in Pos
  BY DEF Seen, Present, TypeOK
<1>2. ~Present(i) => StatusOf(i) \notin Pos
  BY StatusAssumption DEF Seen
<1>3. QED
  BY <1>1, <1>2 DEF P!Here, P!Truth, Statuses

PresenceStep == [P!PresenceNext]_(P!presence)

\* A step of the world is a step of Presence, or none.
LEMMA PresenceSteps ==
  ASSUME TypeOK, TypeOK', IdsTellPlayersApart, IdsTellPlayersApart',
         Seen, Seen', Forgotten, [Next]_vars
  PROVE  PresenceStep
<1> USE DEF Seen
<1>1. ASSUME NEW a \in Addr, Join(a)
      PROVE  PresenceStep
  <2>0. PICK i \in Id : i = pids + 1
    BY <1>1 DEF Join, TypeOK
  <2>1. /\ pids' = i /\ pids \in Nat /\ i = pids + 1
        /\ clients' = clients \cup {a} /\ a \notin clients /\ seen' = seen
    BY <1>1, <2>0 DEF Join, update_all_clients, get_id, TypeOK
  <2>2. /\ id'[a] = i /\ pos'[a] = StartPos /\ seen[a] = Unseen
        /\ \A b \in clients : id'[b] = id[b] /\ pos'[b] = pos[b]
    BY <1>1, <2>1 DEF Join, update_all_clients, get_id, TypeOK, Forgotten
  <2>3. ~Present(i) /\ StatusOf(i) = "unborn" /\ Knowledge(i) = Unseen
    BY <2>1 DEF Present, IdsTellPlayersApart
  <2>4. StatusOf(i)' = StartPos /\ Knowledge(i)' = Unseen
    <3>1. a \in clients' /\ id'[a] = i
      BY <2>1, <2>2
    <3>2. StatusOf(i)' = pos'[a] /\ Knowledge(i)' = seen'[a]
      BY <3>1
    <3>3. QED
      BY <2>1, <2>2, <3>2
  <2>5. ASSUME NEW j \in Id \ {i}
        PROVE  StatusOf(j)' = StatusOf(j) /\ Knowledge(j)' = Knowledge(j)
    <3>1. CASE Present(j)
      BY <2>1, <2>2, <3>1 DEF Present
    <3>2. CASE ~Present(j)
      <4>1. ~Present(j)'
        BY <2>1, <2>2, <3>2 DEF Present
      <4>2. j <= pids' <=> j <= pids
        BY <2>1
      <4>3. QED
        BY <3>2, <4>1, <4>2
    <3>3. QED
      BY <3>1, <3>2
  <2>6. P!Enter(i, StartPos)
    <3>1. Statuses' = [Statuses EXCEPT ![i] = StartPos] /\ Statuses[i] = "unborn"
      BY <2>3, <2>4, <2>5 DEF Statuses
    <3>2. Tellings' = Tellings
      BY <2>3, <2>4, <2>5 DEF Tellings
    <3>3. QED
      BY <3>1, <3>2 DEF P!Enter
  <2>7. QED
    BY <2>1, <2>6 DEF PresenceStep, P!PresenceNext
<1>2. ASSUME NEW a \in Addr, Leave(a)
      PROVE  PresenceStep
  <2>0. PICK i \in Id : i = id[a]
    BY <1>2 DEF Leave, rm_cli, IdsTellPlayersApart, TypeOK
  <2>1. /\ clients' = clients \ {a} /\ a \in clients /\ UNCHANGED <<pids, id, pos>>
        /\ \A b \in clients' : seen'[b] = seen[b]
    BY <1>2 DEF Leave, rm_cli, TypeOK
  <2>2. i \in Id /\ i = id[a] /\ i <= pids
    BY <2>0, <2>1 DEF IdsTellPlayersApart, TypeOK
  <2>3. ~Present(i)' /\ StatusOf(i)' = "gone" /\ Knowledge(i)' = Unseen
    BY <2>1, <2>2 DEF Present, IdsTellPlayersApart
  <2>4. ASSUME NEW j \in Id \ {i}
        PROVE  StatusOf(j)' = StatusOf(j) /\ Knowledge(j)' = Knowledge(j)
    BY <2>1, <2>2 DEF Present
  <2>5. P!Here(i)
    BY <2>1, <2>2, HereIsPresent
  <2>6. P!Depart(i)
    <3>1. Statuses' = [Statuses EXCEPT ![i] = "gone"]
      BY <2>2, <2>3, <2>4 DEF Statuses
    <3>2. Tellings' = [Tellings EXCEPT ![i] = Unseen]
      BY <2>2, <2>3, <2>4 DEF Tellings
    <3>3. QED
      BY <2>5, <3>1, <3>2 DEF P!Depart, P!NotTold, Unseen
  <2>7. QED
    BY <2>2, <2>6 DEF PresenceStep, P!PresenceNext
<1>3. ASSUME NEW a \in Addr, LeaveLast(a)
      PROVE  PresenceStep
  <2>0. PICK i \in Id : i = id[a]
    BY <1>3 DEF LeaveLast, IdsTellPlayersApart, TypeOK
  <2>1. clients = {a} /\ clients' = {} /\ pids' = 0
    BY <1>3 DEF LeaveLast
  <2>2. i \in Id /\ i = id[a]
    BY <2>0
  <2>3. \A j \in Id : StatusOf(j)' = "unborn" /\ Knowledge(j)' = Unseen
    BY <2>1 DEF Present
  <2>4. P!Here(i) /\ \A j \in Id \ {i} : ~P!Here(j)
    BY <2>1, <2>2, HereIsPresent DEF Present
  <2>5. P!PresenceInit'
    BY <2>3 DEF P!PresenceInit, P!NotTold, Statuses, Tellings, Unseen
  <2>6. P!Close(i)
    BY <2>4, <2>5 DEF P!Close
  <2>7. QED
    BY <2>2, <2>6 DEF PresenceStep, P!PresenceNext
<1>4. ASSUME NEW a \in Addr, NEW p \in Pos, Move(a, p) \/ Teleport(a, p)
      PROVE  PresenceStep
  <2>0. PICK i \in Id : i = id[a]
    BY <1>4 DEF Move, Teleport, IdsTellPlayersApart, TypeOK
  <2>1. /\ UNCHANGED <<pids, clients, id>> /\ a \in clients
        /\ pos'[a] = p /\ \A b \in clients \ {a} : pos'[b] = pos[b]
    BY <1>4 DEF Move, Teleport, upd_cli, TypeOK
  <2>2. i \in Id /\ i = id[a]
    BY <2>0
  <2>3. StatusOf(i)' = p
    BY <2>1, <2>2
  <2>4. ASSUME NEW j \in Id \ {i}
        PROVE  StatusOf(j)' = StatusOf(j)
    BY <2>1, <2>2 DEF Present
  <2>5. P!Here(i)
    BY <2>1, <2>2, HereIsPresent
  <2>6. Statuses' = [Statuses EXCEPT ![i] = p]
    BY <2>2, <2>3, <2>4 DEF Statuses
  <2>7. CASE Move(a, p)
    <3>1. \A j \in Id : Knowledge(j)' = Knowledge(j)
      BY <2>1, <2>7 DEF Move, Present
    <3>2. P!Walk(i, p)
      BY <2>5, <2>6, <3>1 DEF P!Walk, Tellings
    <3>3. QED
      BY <2>2, <3>2 DEF PresenceStep, P!PresenceNext
  <2>8. CASE Teleport(a, p)
    <3>1. /\ seen'[a] = [seen[a] EXCEPT ![i] = p]
          /\ \A b \in clients \ {a} : seen'[b] = seen[b]
      BY <2>1, <2>2, <2>8 DEF Teleport, TypeOK
    <3>2. Knowledge(i)' = [Knowledge(i) EXCEPT ![i] = p]
      BY <2>1, <2>2, <3>1
    <3>3. ASSUME NEW j \in Id \ {i}
          PROVE  Knowledge(j)' = Knowledge(j)
      BY <2>1, <2>2, <3>1 DEF Present
    <3>4. Tellings' = [Tellings EXCEPT ![i] = [Tellings[i] EXCEPT ![i] = p]]
      BY <2>2, <3>2, <3>3 DEF Tellings
    <3>5. P!Walk(i, p)
      BY <2>5, <2>6, <3>4 DEF P!Walk
    <3>6. QED
      BY <2>2, <3>5 DEF PresenceStep, P!PresenceNext
  <2>9. QED
    BY <1>4, <2>7, <2>8
<1>5. CASE SendUpdates
  <2>1. PICK batch \in FirstOf(plupdates, MaxPlayerUpdates),
             gone \in FirstOf(plleft, MaxPlayerLeft) :
          seen' = [a \in Addr |-> IF a \in clients
                                  THEN ToldPlayers(seen[a], batch, gone)
                                  ELSE seen[a]]
    BY <1>5 DEF SendUpdates
  <2>2. UNCHANGED <<pids, clients, id, pos>>
    BY <1>5 DEF SendUpdates
  <2>3. batch \subseteq clients /\ gone \subseteq plleft /\ batch \subseteq plupdates
    BY FirstOfSubset DEF TypeOK
  <2> DEFINE about == {id[a] : a \in batch} \cup gone
  <2>4. about \subseteq Id
    <3>1. ASSUME NEW a \in batch
          PROVE  id[a] \in Id
      <4>1. a \in clients
        BY <2>3
      <4>2. id[a] \in 1..pids /\ pids \in 0..MaxId
        BY <4>1 DEF IdsTellPlayersApart, TypeOK
      <4>3. QED
        BY <4>2, WorldAssumption DEF Id
    <3>2. gone \subseteq Id
      BY <2>3 DEF IdsTellPlayersApart, TypeOK
    <3>3. QED
      BY <3>1, <3>2
  <2>5. \A j \in Id : StatusOf(j)' = StatusOf(j)
    BY <2>2 DEF Present
  <2>6. ASSUME NEW a \in clients, NEW j \in Id
        PROVE  ToldPlayers(seen[a], batch, gone)[j] =
                 IF j \in about THEN P!Truth(j) ELSE seen[a][j]
    <3>1. CASE j \in gone
      <4>1. ~Present(j)
        BY <2>3, <3>1 DEF Present, IdsTellPlayersApart
      <4>2. QED
        BY <3>1, <4>1, HereIsPresent DEF ToldPlayers
    <3>2. CASE \E b \in batch : j = id[b]
      <4>1. PICK b \in batch : j = id[b]
        BY <3>2
      <4>2. ToldPlayers(seen[a], batch, gone)[j] = pos[b]
        <5>1. \A view : ToldPlayers(view, batch, gone)[j] = pos[b]
          BY <2>3, <4>1, ToldTruth
        <5>2. QED
          BY <5>1
      <4>3. P!Truth(j) = pos[b]
        BY <2>3, <4>1, HereIsPresent
      <4>4. QED
        BY <4>1, <4>2, <4>3
    <3>3. CASE j \notin about
      BY <3>3 DEF ToldPlayers
    <3>4. QED
      BY <3>1, <3>2, <3>3
  <2>7. ASSUME NEW j \in Id
        PROVE  Knowledge(j)' = IF P!Here(j)
                               THEN [k \in Id |-> IF k \in about THEN P!Truth(k)
                                                                 ELSE Knowledge(j)[k]]
                               ELSE Knowledge(j)
    <3>1. CASE Present(j)
      <4>1. PICK a \in clients : j = id[a]
        BY <3>1 DEF Present
      <4>2. Knowledge(j) = seen[a] /\ Knowledge(j)' = seen'[a]
        BY <2>2, <4>1
      <4>3. seen'[a] = ToldPlayers(seen[a], batch, gone)
        BY <2>1 DEF TypeOK
      <4>4. ToldPlayers(seen[a], batch, gone) =
              [k \in Id |-> ToldPlayers(seen[a], batch, gone)[k]]
        BY DEF ToldPlayers
      <4>5. ToldPlayers(seen[a], batch, gone) =
              [k \in Id |-> IF k \in about THEN P!Truth(k) ELSE seen[a][k]]
        <5> HIDE DEF about
        <5> QED
          BY <2>6, <4>4
      <4>6. P!Here(j)
        BY <3>1, HereIsPresent
      <4>7. QED
        BY <4>2, <4>3, <4>5, <4>6
    <3>2. CASE ~Present(j)
      <4>1. ~Present(j)' /\ ~P!Here(j)
        BY <2>2, <3>2, HereIsPresent DEF Present
      <4>2. QED
        BY <3>2, <4>1
    <3>3. QED
      BY <3>1, <3>2
  <2>8. P!Tell(about)
    <3> HIDE DEF about
    <3> QED
      BY <2>5, <2>7 DEF P!Tell, Statuses, Tellings
  <2>9. QED
    BY <2>4, <2>8 DEF PresenceStep, P!PresenceNext
<1>6. CASE PixelNext \/ UNCHANGED vars
  <2>1. UNCHANGED <<pids, clients, id, pos, seen>>
    BY <1>6 DEF PixelNext, PutPx, push_back, GetChunk, del_chunk, paste_chunk, SetChunk,
                vars, playerVars
  <2>2. \A j \in Id : StatusOf(j)' = StatusOf(j) /\ Knowledge(j)' = Knowledge(j)
    BY <2>1 DEF Present
  <2>3. UNCHANGED P!presence
    BY <2>2 DEF P!presence, Statuses, Tellings
  <2>4. QED
    BY <2>3 DEF PresenceStep
<1>7. QED
  BY <1>1, <1>2, <1>3, <1>4, <1>5, <1>6 DEF Next, PlayerNext

LEMMA PresenceStart == Init => P!PresenceInit
<1> SUFFICES ASSUME Init
             PROVE  P!PresenceInit
  OBVIOUS
<1>1. \A i \in Id : StatusOf(i) = "unborn" /\ ~Present(i)
  BY DEF Init, StatusOf, Present
<1>2. QED
  BY <1>1 DEF P!PresenceInit, P!NotTold, Statuses, Tellings, Knowledge, Unseen

\* Batches, limits, addresses used again and a lagging timer never make the
\* world tell a player anything but the truth: every step of src/world.cpp is
\* a step of Presence.
THEOREM TruthIsTold == Spec => KeepsPresence
<1>1. IdsTellPlayersApart' => Seen'
  BY SeenAlways, PTL
<1>2. TypeOK /\ TypeOK' /\ IdsTellPlayersApart /\ IdsTellPlayersApart' /\ Forgotten
      /\ [Next]_vars
        => [P!PresenceNext]_(P!presence)
  <2> SUFFICES ASSUME TypeOK, TypeOK', IdsTellPlayersApart, IdsTellPlayersApart',
                      Forgotten, [Next]_vars
               PROVE  PresenceStep
    BY DEF PresenceStep
  <2>2. Seen /\ Seen'
    BY <1>1, SeenAlways
  <2>3. QED
    BY <2>2, PresenceSteps
<1>3. Init => Forgotten
  BY DEF Init, Forgotten
<1>4. QED
  BY <1>2, <1>3, PresenceStart, TypeCorrect, IdsApart, ForgottenStep, PTL
     DEF Spec, KeepsPresence, P!PresenceSpec

-----------------------------------------------------------------------------
(* What a player is sent of a chunk. *)

\* Whatever the world shows of a chunk, and however many pixels a chunk has, the
\* message that compress_data_to writes means just that: its two loops agree on
\* the place of every run.  It has the size that is returned, and fits into the
\* array it is written to.
THEOREM ChunksArrive == Spec => []ChunkArrives
<1>1. \A drawing \in Drawings : Arrives(drawing)
  <2> SUFFICES ASSUME NEW n \in 1..MaxPixels, NEW drawing \in [1..n -> Colour]
               PROVE  Arrives(drawing)
    BY DEF Drawings
  <2>1. n \in Nat \ {0}
    BY CanvasAssumption
  <2>2. QED
    BY <2>1, DrawingArrives
<1>2. Garbled = {}
  BY <1>1, Zenon DEF Garbled
<1>3. ChunkArrives
  BY <1>2, Zenon DEF ChunkArrives
<1>4. QED
  BY <1>3, PTL
=============================================================================
