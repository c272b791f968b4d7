----------------------------- MODULE ChunkCodec -----------------------------
(***************************************************************************)
(* What a player is sent of a chunk (src/world.cpp, compress_data_to): a   *)
(* run of at least MinRun pixels of one colour becomes its length and one  *)
(* pixel.  A table before the data says at which byte of it each run is.   *)
(* The first loop of the code computes the table and the size, the second  *)
(* one copies; both are counted in bytes here, as they must agree.         *)
(***************************************************************************)
EXTENDS Integers, Sequences, SequencesExt

PixelBytes == 3    \* one byte for each of r, g and b
LengthBytes == 2   \* a uint16_t
MinRun == 3
HeaderBytes == 14  \* message type, cx, cy, ranked, s, totalcareas

-----------------------------------------------------------------------------
(* The first loop: compBytes, compressedPos, lastclr and t.                *)
RunStart(s) == s.compBytes - s.t * PixelBytes

\* Mutant: a run of two is shortened, which makes it longer.
WithRun_pairs(s) ==
  IF s.t < MinRun - 1 THEN s
  ELSE [s EXCEPT !.compressedPos = Append(@, [pos |-> RunStart(s), length |-> s.t]),
                 !.compBytes = RunStart(s) + LengthBytes + PixelBytes]

WithRun(s) ==
  IF s.t < MinRun THEN s
  ELSE [s EXCEPT !.compressedPos = Append(@, [pos |-> RunStart(s), length |-> s.t]),
                 !.compBytes = RunStart(s) + LengthBytes + PixelBytes]

\* One turn of the loop; what the code takes off and adds for the pixel that
\* ends a run (compBytes -= t * 3 + 3; += 5 + 3) is its own three bytes.
Scanned(s, clr) ==
  LET same == [s EXCEPT !.compBytes = @ + PixelBytes, !.t = @ + 1]
      ended == WithRun(s) IN
  IF clr = s.lastclr THEN same
  ELSE [ended EXCEPT !.compBytes = @ + PixelBytes, !.lastclr = clr, !.t = 1]

\* scan[i]: after the first i pixels, the last run still open.
Table(data) ==
  LET scan[i \in 1..Len(data)] ==
        IF i = 1
        THEN [compBytes |-> PixelBytes, lastclr |-> data[1], t |-> 1, compressedPos |-> <<>>]
        ELSE Scanned(scan[i - 1], data[i])
  IN  WithRun(scan[Len(data)])

(* The second loop: curr[0..ci-1] is out, di the bytes read from data.     *)
ByteOf(data, d) == <<data[(d \div PixelBytes) + 1], d % PixelBytes>>
LengthField(n) == [b \in 1..LengthBytes |-> <<n, b - 1>>]
Copied(c, data, n) ==
  [out |-> c.out \o [k \in 1..n |-> ByteOf(data, c.di + k - 1)], di |-> c.di + n]

WithPoint(c, data, point) ==
  LET before == Copied(c, data, point.pos - Len(c.out))
      pixel == Copied([before EXCEPT !.out = @ \o LengthField(point.length)], data, PixelBytes)
  IN  [pixel EXCEPT !.di = @ + point.length * PixelBytes - PixelBytes]

\* areas[k]: after the first k runs of the table.
compress_data_to(data) ==
  LET table == Table(data)
      points == table.compressedPos
      areas[k \in 0..Len(points)] ==
        IF k = 0 THEN [out |-> <<>>, di |-> 0] ELSE WithPoint(areas[k - 1], data, points[k])
      copied == areas[Len(points)]
      all == Copied(copied, data, Len(data) * PixelBytes - copied.di)
  IN  [points |-> [k \in DOMAIN points |-> points[k].pos], data |-> all.out,
       size |-> table.compBytes + Len(points) * 2 + HeaderBytes]

-----------------------------------------------------------------------------
(* What the message means, whoever reads it: at a byte of the table there  *)
(* is a length and a pixel that is repeated, elsewhere there is a pixel.   *)
PixelAt(data, c) ==
  IF \A b \in 1..PixelBytes : data[c + b] = <<data[c + 1][1], b - 1>>
  THEN data[c + 1][1] ELSE "torn"
Meaning(msg) ==
  LET runs == ToSet(msg.points)
      from[c \in 0..Len(msg.data)] ==
        IF c = Len(msg.data) THEN <<>>
        ELSE LET at == IF c \in runs THEN c + LengthBytes ELSE c
                 next == at + PixelBytes
                 times == IF c \in runs THEN msg.data[c + 1][1] ELSE 1 IN
             IF next > Len(msg.data) THEN <<"torn">>
             ELSE [k \in 1..times |-> PixelAt(msg.data, at)] \o from[next]
  IN  from[0]

\* The message means the chunk, has the size that is returned, and fits into
\* the array that compress_data_to is given.
Arrives(drawing) ==
  LET msg == compress_data_to(drawing) IN
  /\ Meaning(msg) = drawing
  /\ msg.size = HeaderBytes + 2 * Len(msg.points) + Len(msg.data)
  /\ msg.size <= Len(drawing) * PixelBytes + HeaderBytes
=============================================================================
