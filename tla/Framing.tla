------------------------------ MODULE Framing ------------------------------
(***************************************************************************)
(* How a server reads WebSocket frames (src/uWebSockets/src/               *)
(* WebSocketProtocol.h, consume; WebSocketImpl.cpp, handleFragment).  TCP  *)
(* cuts the stream anywhere: a part of a header is kept as spill, a part   *)
(* of a payload is handed on and its mask turned by the bytes consumed.    *)
(* A message may come in fragments, with control frames between them.      *)
(*                                                                         *)
(* A byte is <<frame, position>>; a header has the negative positions.     *)
(* Payload bytes are masked with key (position % 4), and a byte that is    *)
(* unmasked with another key is Garbled.  This server negotiates no        *)
(* compression, so a frame with rsv1 is a reserved one.  Lengths that do   *)
(* not fit the int that refusePayloadLength takes are not modelled.        *)
(***************************************************************************)
EXTENDS Integers, Sequences, SequencesExt

CONSTANTS
  ShortHeader,  \* SHORT_MESSAGE_HEADER: a header has at least so many bytes
  MaxControl,   \* longest payload of a control frame (125)
  MaxPayload    \* refusePayloadLength (16777216)

ASSUME FramingAssumption ==
  /\ ShortHeader \in Nat \ {0}
  /\ MaxControl \in Nat /\ MaxPayload \in Nat

DataOp == {"text", "binary"}
ControlOp == {"close", "ping", "pong"}
Op == DataOp \cup ControlOp \cup {"more", "reserved"}  \* more: op code 0

\* head: the length of the header, utf8: whether the payload is valid text.
Frame == [op : Op, fin : BOOLEAN, len : Nat, head : {n \in Nat : n >= ShortHeader}, utf8 : BOOLEAN]

Garbled == <<0, 0>>
BytesOf(frames, i) ==
  [k \in 1..(frames[i].head + frames[i].len) |-> <<i, k - 1 - frames[i].head>>]
\* Stream(frames)[i] is what the first i frames are sent as.
Stream(frames) ==
  LET stream[i \in 0..Len(frames)] ==
        IF i = 0 THEN <<>> ELSE stream[i - 1] \o BytesOf(frames, i)
  IN  stream
Bytes(frames) == Stream(frames)[Len(frames)]

\* The frame whose header begins with this byte; any other byte is taken for a
\* header that nobody sent.
Misread == [op |-> "text", fin |-> TRUE, len |-> 0, head |-> ShortHeader, utf8 |-> TRUE]
FrameAt(frames, byte) ==
  IF byte # Garbled /\ byte[2] = -frames[byte[1]].head THEN frames[byte[1]] ELSE Misread

-----------------------------------------------------------------------------
(* The parser of one socket, with the buffers of its WebSocket::Data.      *)
NewParser ==
  [state |-> "READ_HEAD", spill |-> <<>>, remaining |-> 0, mask |-> [k \in 0..3 |-> k],
   opStack |-> -1, opCode |-> [k \in 0..1 |-> "text"], lastFin |-> TRUE,
   fragmentBuffer |-> <<>>, controlBuffer |-> <<>>]

Key == [k \in 0..3 |-> k]  \* the mask of a header

\* Mutant: the mask is turned the other way.
rotateMask_back(offset, mask) == [k \in 0..3 |-> mask[(k + offset) % 4]]
rotateMask(offset, mask) == [k \in 0..3 |-> mask[(k - offset + 4) % 4]]

Unmasked(bytes, mask) ==
  [k \in 1..Len(bytes) |->
     IF bytes[k][2] >= 0 /\ bytes[k][2] % 4 = mask[(k - 1) % 4] THEN bytes[k] ELSE Garbled]

\* What one turn of the parser leads to: src is what is left to read.
Quiet == [kind |-> "none"]
Refused == [kind |-> "refused"]
Outcome(p, src, event) == [parser |-> p, src |-> src, event |-> event]

ValidText(frames, data) ==
  \A k \in DOMAIN data : data[k] # Garbled /\ frames[data[k][1]].utf8
MessageOrRefusal(frames, op, data) ==
  IF op = "text" /\ ~ValidText(frames, data) THEN Refused
  ELSE [kind |-> "message", op |-> op, data |-> data]

\* handleFragment: a whole message is handed on from the buffers, which are
\* cleared once its handler has returned.
Fragment(frames, p, data, remaining, op, fin) ==
  LET whole == remaining = 0 /\ fin
      message == p.fragmentBuffer \o data
      control == p.controlBuffer \o data IN
  CASE op \notin ControlOp /\ whole ->
         [parser |-> [p EXCEPT !.fragmentBuffer = <<>>],
          event |-> MessageOrRefusal(frames, op, message)]
    [] op \notin ControlOp /\ ~whole ->
         [parser |-> [p EXCEPT !.fragmentBuffer = message], event |-> Quiet]
    [] op \in ControlOp /\ whole ->
         [parser |-> [p EXCEPT !.controlBuffer = <<>>],
          event |-> [kind |-> op, data |-> control]]
    [] op \in ControlOp /\ ~whole ->
         [parser |-> [p EXCEPT !.controlBuffer = control], event |-> Quiet]

First(bytes, n) == SubSeq(bytes, 1, IF n <= Len(bytes) THEN n ELSE Len(bytes))
Popped(p, fin) == IF fin THEN [p EXCEPT !.opStack = @ - 1] ELSE p

\* consumeMessage, for a header that is complete.
NotAllowed(p, frame) ==
  \/ frame.op = "more" /\ p.opStack = -1
  \/ frame.op # "more" /\ p.opStack = 1
  \/ frame.op = "text" /\ ~p.lastFin
  \/ frame.len > MaxPayload

consumeMessage(frames, p, src, frame) ==
  LET stacked == IF frame.op = "more" THEN p
                 ELSE [p EXCEPT !.opStack = @ + 1, !.opCode[p.opStack + 1] = frame.op]
      q == [stacked EXCEPT !.lastFin = frame.fin, !.spill = <<>>]
      op == q.opCode[q.opStack]
      here == Len(src) - frame.head
      payload == First(SubSeq(src, frame.head + 1, Len(src)), frame.len)
      all == Fragment(frames, q, Unmasked(payload, Key), 0, op, frame.fin)
      begun == [q EXCEPT !.state = "READ_MESSAGE", !.remaining = frame.len - here,
                         !.mask = rotateMask(4 - (here % 4), Key)]
      part == Fragment(frames, begun, Unmasked(payload, Key), frame.len - here, op, frame.fin) IN
  IF frame.len <= here
  THEN Outcome(Popped(all.parser, frame.fin),
               SubSeq(src, frame.head + frame.len + 1, Len(src)), all.event)
  ELSE Outcome(part.parser, <<>>, part.event)

\* consumeContinuation: the rest of a payload, or some more of it.
consumeContinuation(frames, p, src) ==
  LET op == p.opCode[p.opStack]
      now == First(src, p.remaining)
      left == p.remaining - Len(now)
      done == Fragment(frames, [p EXCEPT !.state = "READ_HEAD"], Unmasked(now, p.mask),
                       0, op, p.lastFin)
      turned == [p EXCEPT !.remaining = left, !.mask = rotateMask(4 - (Len(now) % 4), @)]
      part == Fragment(frames, turned, Unmasked(now, p.mask), left, op, p.lastFin) IN
  IF p.remaining <= Len(src)
  THEN Outcome(Popped(done.parser, p.lastFin),
               SubSeq(src, p.remaining + 1, Len(src)), done.event)
  ELSE Outcome(part.parser, <<>>, part.event)

\* One turn of the loop in consume.
Invalid(frame) ==
  \/ frame.op = "reserved"
  \/ frame.op \in ControlOp /\ (~frame.fin \/ frame.len > MaxControl)
Spilled(p, src) == Outcome([p EXCEPT !.spill = src], <<>>, Quiet)

consume(frames, p, src) ==
  LET frame == FrameAt(frames, src[1]) IN
  CASE p.state = "READ_MESSAGE" -> consumeContinuation(frames, p, src)
    [] p.state = "READ_HEAD" /\ Len(src) < ShortHeader -> Spilled(p, src)
    [] p.state = "READ_HEAD" /\ Len(src) >= ShortHeader ->
         CASE Invalid(frame) -> Outcome(p, src, Refused)
           [] ~Invalid(frame) /\ Len(src) < frame.head -> Spilled(p, src)
           [] ~Invalid(frame) /\ Len(src) >= frame.head ->
                IF NotAllowed(p, frame) THEN Outcome(p, src, Refused)
                ELSE consumeMessage(frames, p, src, frame)
=============================================================================
