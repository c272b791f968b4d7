----------------------------- MODULE Transport -----------------------------
(***************************************************************************)
(* The sockets under the server (src/uWebSockets/src: Socket.h,            *)
(* HTTPSocket.cpp, WebSocket.cpp, Group.cpp, Hub.cpp), on one loop thread  *)
(* and without TLS: an accepted socket asks for an upgrade, becomes a      *)
(* member of the group, is written to, read from, closed and ended.        *)
(*                                                                         *)
(* The kernel takes a whole message, a part, nothing (EWOULDBLOCK) or      *)
(* fails; a connection that failed once fails for ever.  A message is two  *)
(* halves.  Handlers of the server are any calls of send, broadcast and    *)
(* close.  One callback of the loop is one action but for the reading of a *)
(* chunk, where mode says that the others have to wait: each frame is an   *)
(* action, and so is each call that a handler makes.  That a flush goes on *)
(* to the next message is the same as its being called again, unless the   *)
(* close frame is out.                                                     *)
(***************************************************************************)
EXTENDS Framing, FiniteSets

CONSTANTS
  Sock, None,  \* sockets
  Scripts,     \* what the peers that connect may say: a sequence of frames each
  MaxSends     \* bounds the messages of the server

ASSUME TransportAssumption ==
  /\ IsFiniteSet(Sock) /\ None \notin Sock
  /\ \A f \in Scripts : DOMAIN f \subseteq Sock /\ f \in [DOMAIN f -> Seq(Frame)]
  /\ MaxSends \in Nat

VARIABLES
  mode,     \* what the loop is doing, and for which socket
  phase,    \* "none", "http", "open", "closing" (shuttingDown), "gone"
  timer,    \* the sockets whose startTimeout is pending
  queue,    \* SocketData::messageQueue
  poll,     \* SocketData::poll asks for UV_WRITABLE
  watched,  \* uv_poll_start was last given UV_WRITABLE
  out,      \* the sending side in the kernel: "up", "shut" or "failed"
  head, next, prev,  \* webSocketHead and the links of the sockets
  sends,    \* messages the server has sent
  refs,     \* PreparedMessage::references; 0 is freed
  script,   \* what each peer says; who is not in its domain never connects
  at,       \* how much of it was received
  src,      \* the part of that still to be consumed
  parser,   \* the WebSocketProtocol of each socket
  session, taken, wire, heard  \* history: as in Channel

links == <<head, next, prev>>
output == <<queue, poll, watched, out, refs, taken, wire>>
input == <<script, at, src, parser, heard>>
vars == <<mode, phase, timer, output, links, sends, input, session>>

Idle == [is |-> "idle", sock |-> None]
Doing(what, s) == [is |-> what, sock |-> s]
Modes == {Idle} \cup {Doing(what, s) : what \in {"greeting", "reading", "handling"}, s \in Sock}

\* What the server, the upgrade, a ping and a close make the socket send.
Own(n) == [kind |-> "own", n |-> n, data |-> <<>>]
Prepared(n) == [kind |-> "prepared", n |-> n, data |-> <<>>]
Upgrade == [kind |-> "upgrade", n |-> 0, data |-> <<>>]
CloseFrame == [kind |-> "close", n |-> 0, data |-> <<>>]
Pong(data) == [kind |-> "pong", n |-> 0, data |-> data]

-----------------------------------------------------------------------------
(* Writing.  A link is the state of one socket's sending side.             *)
Link(s) == [queue |-> queue[s], poll |-> poll[s], watched |-> watched[s],
            out |-> out[s], taken |-> taken[s], wire |-> wire[s], state |-> "kept"]

NewLink == [queue |-> <<>>, poll |-> FALSE, watched |-> FALSE, out |-> "up",
            taken |-> <<>>, wire |-> <<>>, state |-> "kept"]

Failed == 3  \* ::send returned an error other than EWOULDBLOCK
Sent(o) == IF o = "up" THEN 0..Failed ELSE {Failed}
Part(m, from, k) == [i \in 1..k |-> <<m, from + i - 1>>]
Given(W, m, from, k) == W \o Part(m, from, k)

\* Mutant: a message jumps the queue.
write_at_once(l, m, k) ==
  IF k = 2 THEN [l EXCEPT !.taken = Append(@, m), !.wire = Given(@, m, 1, 2), !.state = "sent"]
  ELSE [l EXCEPT !.queue = Append(@, [msg |-> m, left |-> 2]), !.taken = Append(@, m),
                 !.state = "queued", !.poll = TRUE, !.watched = TRUE]

\* Socket::write, and enqueue when there is a queue; k is what ::send takes.
write(l, m, k) ==
  LET asked == [l EXCEPT !.poll = TRUE, !.watched = IF l.poll THEN @ ELSE TRUE] IN
  CASE l.queue # <<>> ->
         [l EXCEPT !.queue = Append(@, [msg |-> m, left |-> 2]),
                   !.taken = Append(@, m), !.state = "queued"]
    [] l.queue = <<>> /\ k = 2 ->
         [l EXCEPT !.taken = Append(@, m), !.wire = Given(@, m, 1, 2), !.state = "sent"]
    [] l.queue = <<>> /\ k < 2 ->
         [asked EXCEPT !.queue = <<[msg |-> m, left |-> 2 - k]>>, !.state = "queued",
                       !.taken = Append(@, m), !.wire = Given(@, m, 1, k)]
    [] l.queue = <<>> /\ k = Failed -> [l EXCEPT !.out = "failed", !.state = "lost"]

\* The callback of a close frame that is out: shutdown of the sending side.
Shut(l) == [l EXCEPT !.out = IF @ = "up" THEN "shut" ELSE @]
SentClose(l, k) == LET w == write(l, CloseFrame, k) IN IF w.state = "sent" THEN Shut(w) ELSE w

SetLink(s, l) ==
  /\ queue' = [queue EXCEPT ![s] = l.queue]
  /\ poll' = [poll EXCEPT ![s] = l.poll]
  /\ watched' = [watched EXCEPT ![s] = l.watched]
  /\ out' = [out EXCEPT ![s] = l.out]
  /\ taken' = [taken EXCEPT ![s] = l.taken]
  /\ wire' = [wire EXCEPT ![s] = l.wire]

\* Callbacks of prepared messages: sent, or cancelled with their queue.
Uses(q, n) == Cardinality({i \in DOMAIN q : q[i].msg = Prepared(n)})
Released(q) == [n \in DOMAIN refs |-> refs[n] - Uses(q, n)]

-----------------------------------------------------------------------------
(* The group's list.                                                       *)
addWebSocket(s) ==
  /\ prev' = IF head = None THEN prev ELSE [prev EXCEPT ![head] = s]
  /\ next' = IF head = None THEN next ELSE [next EXCEPT ![s] = head]
  /\ head' = s

removeWebSocket(s) ==
  /\ head' = IF prev[s] = next[s] THEN None ELSE IF prev[s] = None THEN next[s] ELSE head
  /\ next' = [t \in Sock |-> IF prev[s] # next[s] /\ t = prev[s] THEN next[s] ELSE next[t]]
  /\ prev' = [t \in Sock |-> IF prev[s] # next[s] /\ t = next[s] THEN prev[s] ELSE prev[t]]

\* The sockets forEach visits.
Listed ==
  LET within[k \in 1..Cardinality(Sock)] ==
        IF k = 1 THEN {head} ELSE within[k - 1] \cup {next[s] : s \in within[k - 1] \ {None}}
  IN  IF head = None THEN {} ELSE within[Cardinality(Sock)] \ {None}

-----------------------------------------------------------------------------
(* Ends of a socket, and what the handlers of the server may do.           *)

\* Mutant: the timer of a closing socket is not started.
Closes_for_ever(s, k) ==
  /\ removeWebSocket(s)
  /\ session' = [session EXCEPT ![s] = "off"]
  /\ phase' = [phase EXCEPT ![s] = "closing"]
  /\ SetLink(s, SentClose(Link(s), k))
  /\ UNCHANGED <<refs, timer>>

\* WebSocket::close; the disconnection handler has run when it returns.
Closes(s, k) ==
  /\ removeWebSocket(s)
  /\ session' = [session EXCEPT ![s] = "off"]
  /\ phase' = [phase EXCEPT ![s] = "closing"]
  /\ timer' = timer \cup {s}
  /\ SetLink(s, SentClose(Link(s), k))
  /\ UNCHANGED refs

\* Mutant: queued messages are dropped without their callbacks.
Cancelled_not(q) == refs
\* The callbacks of the queue of a socket that ends.
Cancelled(q) == Released(q)

\* onEnd of WebSocket and of HTTPSocket: the socket is closed, its data deleted,
\* and the histories of it with them.
Forgets(s) ==
  /\ SetLink(s, [NewLink EXCEPT !.out = "failed"])
  /\ at' = [at EXCEPT ![s] = 0]
  /\ src' = [src EXCEPT ![s] = <<>>]
  /\ parser' = [parser EXCEPT ![s] = NewParser]
  /\ heard' = [heard EXCEPT ![s] = <<>>]
  /\ UNCHANGED script

Ends(s, reason) ==
  /\ IF phase[s] = "open"
     THEN removeWebSocket(s) /\ session' = [session EXCEPT ![s] = reason]
     ELSE UNCHANGED <<links, session>>
  /\ timer' = timer \ {s}
  /\ phase' = [phase EXCEPT ![s] = "gone"]
  /\ refs' = Cancelled(queue[s])
  /\ Forgets(s)

\* The loop is in a handler, or between callbacks, where timers call the server.
ServerRuns == mode.is \in {"idle", "greeting", "handling"}

Send(s) ==
  /\ ServerRuns /\ sends < MaxSends
  /\ phase[s] \in {"open", "closing"}
  /\ \E k \in Sent(out[s]) : SetLink(s, write(Link(s), Own(sends + 1), k))
  /\ sends' = sends + 1
  /\ UNCHANGED <<mode, phase, timer, refs, links, input, session>>

\* Group::broadcast; World does the same for the clients it has.  Each socket
\* takes a reference, which is given back at once unless the message is queued.
Broadcast ==
  /\ ServerRuns /\ sends < MaxSends
  /\ LET n == sends + 1
         to == Listed IN
     \E taking \in {f \in [to -> 0..Failed] : \A s \in to : f[s] \in Sent(out[s])} :
       LET after == [s \in Sock |-> IF s \in to THEN write(Link(s), Prepared(n), taking[s])
                                                ELSE Link(s)] IN
       /\ queue' = [s \in Sock |-> after[s].queue]
       /\ poll' = [s \in Sock |-> after[s].poll]
       /\ watched' = [s \in Sock |-> after[s].watched]
       /\ out' = [s \in Sock |-> after[s].out]
       /\ taken' = [s \in Sock |-> after[s].taken]
       /\ wire' = [s \in Sock |-> after[s].wire]
       /\ refs' = [refs EXCEPT ![n] = Cardinality({s \in to : after[s].state = "queued"})]
  /\ sends' = sends + 1
  /\ UNCHANGED <<mode, phase, timer, links, input, session>>

Close(s) ==
  /\ ServerRuns
  /\ phase[s] = "open"
  /\ \E k \in Sent(out[s]) : Closes(s, k)
  /\ UNCHANGED <<mode, sends, input>>

\* A handler returns; consume goes on unless its socket was closed.
Return ==
  /\ mode.is \in {"greeting", "handling"}
  /\ mode' = IF mode.is = "handling" /\ phase[mode.sock] = "open" /\ src[mode.sock] # <<>>
             THEN Doing("reading", mode.sock) ELSE Idle
  /\ src' = [src EXCEPT ![mode.sock] = IF phase[mode.sock] = "open" THEN @ ELSE <<>>]
  /\ UNCHANGED <<phase, timer, output, links, sends, script, at, parser, heard, session>>

-----------------------------------------------------------------------------
(* Callbacks of the loop.                                                  *)
Accept(s) ==
  /\ mode = Idle /\ phase[s] = "none" /\ s \in DOMAIN script
  /\ phase' = [phase EXCEPT ![s] = "http"]
  /\ timer' = timer \cup {s}
  /\ UNCHANGED <<mode, output, links, sends, input, session>>

\* Mutant: enterState clears poll before it is used.
Entered_cleared(l) == [l EXCEPT !.watched = FALSE, !.poll = FALSE]
\* enterState: the loop is told of poll, and poll forgets UV_WRITABLE.
Entered(l) == [l EXCEPT !.watched = l.poll, !.poll = FALSE]

\* A request with a key is there (HTTPSocket::onData, upgrade); if the answer
\* fails the socket ends, else the connection handler runs.
Upgraded(s) ==
  /\ mode = Idle /\ phase[s] = "http"
  /\ \E k \in Sent(out[s]) \ {Failed} : SetLink(s, Entered(write(Link(s), Upgrade, k)))
  /\ phase' = [phase EXCEPT ![s] = "open"]
  /\ timer' = timer \ {s}
  /\ addWebSocket(s)
  /\ session' = [session EXCEPT ![s] = "on"]
  /\ mode' = Doing("greeting", s)
  /\ UNCHANGED <<sends, refs, input>>

\* The end of the stream, an error, a request that is too long or has no key.
Ended(s) ==
  /\ mode = Idle /\ phase[s] \in {"http", "open", "closing"}
  /\ Ends(s, "off")
  /\ UNCHANGED <<mode, sends>>

\* The 15 seconds of an upgrade or a close are over.
Timeout(s) ==
  /\ mode = Idle /\ s \in timer
  /\ Ends(s, "off")
  /\ UNCHANGED <<mode, sends>>

\* io_cb, UV_WRITABLE: k halves of the first message go out.
Wrote(s, k) ==
  LET first == queue[s][1]
      rest == IF k = first.left THEN Tail(queue[s])
              ELSE <<[first EXCEPT !.left = @ - k]>> \o Tail(queue[s])
      link == [Link(s) EXCEPT !.queue = rest, !.wire = Given(@, first.msg, 3 - first.left, k)]
      asks == [link EXCEPT !.poll = rest # <<>> /\ @, !.watched = rest # <<>>] IN
  IF k = first.left /\ first.msg = CloseFrame THEN Shut(asks) ELSE asks

\* The message that is out has its callback; when that was the close frame and
\* more is queued, the next send fails.
Writable(s) ==
  /\ mode = Idle /\ watched[s] /\ queue[s] # <<>>
  /\ \/ \E k \in Sent(out[s]) \cap 0..queue[s][1].left :
          LET link == Wrote(s, k) IN
          IF link.out = "shut" /\ link.queue # <<>> THEN Ends(s, "off")
          ELSE /\ SetLink(s, link)
               /\ refs' = IF k = queue[s][1].left THEN Released(<<queue[s][1]>>) ELSE refs
               /\ UNCHANGED <<phase, timer, links, input, session>>
     \/ Ends(s, "off")
  /\ UNCHANGED <<mode, sends>>

\* io_cb, UV_READABLE: some bytes of what the peer says; none are looked at
\* while the socket is closing (WebSocket::onData).
Readable(s) ==
  /\ mode = Idle /\ phase[s] \in {"open", "closing"}
  /\ \E n \in 1..(Len(Bytes(script[s])) - at[s]) :
       /\ at' = [at EXCEPT ![s] = @ + n]
       /\ IF phase[s] = "open"
          THEN /\ src' = [src EXCEPT ![s] =
                            parser[s].spill \o SubSeq(Bytes(script[s]), at[s] + 1, at[s] + n)]
               /\ mode' = Doing("reading", s)
          ELSE UNCHANGED <<src, mode>>
  /\ UNCHANGED <<phase, timer, output, links, sends, script, parser, heard, session>>

\* One turn of consume, and what it leads to.  forceClose is terminate.
Consume ==
  /\ mode.is = "reading"
  /\ LET s == mode.sock
         turn == consume(script[s], parser[s], src[s])
         event == turn.event
         Reads(rest) == /\ parser' = [parser EXCEPT ![s] = turn.parser]
                        /\ src' = [src EXCEPT ![s] = rest]
                        /\ UNCHANGED <<script, at>>
         goesOn == IF turn.src = <<>> THEN Idle ELSE mode IN
     \/ /\ event.kind \in {"none", "pong"}
        /\ Reads(turn.src) /\ mode' = goesOn
        /\ UNCHANGED <<phase, timer, output, links, heard, session>>
     \/ /\ event.kind = "message"
        /\ Reads(turn.src) /\ mode' = Doing("handling", s)
        /\ heard' = [heard EXCEPT ![s] = Append(@, [op |-> event.op, data |-> event.data])]
        /\ UNCHANGED <<phase, timer, output, links, session>>
     \/ /\ event.kind = "ping"
        /\ Reads(turn.src) /\ mode' = goesOn
        /\ \E k \in Sent(out[s]) : SetLink(s, write(Link(s), Pong(event.data), k))
        /\ UNCHANGED <<phase, timer, refs, links, heard, session>>
     \/ /\ event.kind = "close"
        /\ Reads(<<>>) /\ mode' = Idle
        /\ \E k \in Sent(out[s]) : Closes(s, k)
        /\ UNCHANGED heard
     \/ /\ event.kind = "refused"
        /\ Ends(s, "refused") /\ mode' = Idle
  /\ UNCHANGED sends

-----------------------------------------------------------------------------
(* What the peer says, to a reader of whole frames: the messages and the    *)
(* pings so far, and the message that has begun.                           *)
NewReader == [within |-> FALSE, op |-> "text", data |-> <<>>, said |-> <<>>, pinged |-> <<>>]

Read(r, frame, payload) ==
  LET op == IF frame.op = "more" THEN r.op ELSE frame.op
      data == IF frame.op = "more" THEN r.data \o payload ELSE payload IN
  CASE frame.op = "ping" -> [r EXCEPT !.pinged = Append(@, payload)]
    [] frame.op \in {"close", "pong"} -> r
    [] frame.op \notin ControlOp /\ ~frame.fin ->
         [r EXCEPT !.within = TRUE, !.op = op, !.data = data]
    [] frame.op \notin ControlOp /\ frame.fin ->
         [r EXCEPT !.within = FALSE, !.op = op, !.data = <<>>,
                   !.said = Append(@, [op |-> op, data |-> data])]

Payload(frames, i) == [k \in 1..frames[i].len |-> <<i, k - 1>>]
Reader(frames) ==
  LET reader[i \in 0..Len(frames)] ==
        IF i = 0 THEN NewReader ELSE Read(reader[i - 1], frames[i], Payload(frames, i))
  IN  reader

\* The frames that are whole in the first n bytes, and what they say.
Whole(frames, n) ==
  LET stream == Stream(frames) IN Cardinality({i \in DOMAIN frames : Len(stream[i]) <= n})
Said(frames, n) == Reader(frames)[Whole(frames, n)].said
Pinged(frames, n) == Reader(frames)[Whole(frames, n)].pinged

\* No message begins within another, and what else the protocol asks for.
InMessage(frames, i) == Reader(frames)[i - 1].within
NoneNested(frames) ==
  \A i \in DOMAIN frames :
    frames[i].op \notin ControlOp /\ InMessage(frames, i) => frames[i].op = "more"
Legal(frames) ==
  /\ NoneNested(frames)
  /\ \A i \in DOMAIN frames :
       /\ frames[i].op # "reserved" /\ frames[i].len <= MaxPayload /\ frames[i].utf8
       /\ frames[i].op = "more" => InMessage(frames, i)
       /\ frames[i].op \in ControlOp => frames[i].fin /\ frames[i].len <= MaxControl

-----------------------------------------------------------------------------
Init ==
  /\ mode = Idle
  /\ phase = [s \in Sock |-> "none"]
  /\ timer = {}
  /\ queue = [s \in Sock |-> <<>>]
  /\ poll = [s \in Sock |-> FALSE]
  /\ watched = [s \in Sock |-> FALSE]
  /\ out = [s \in Sock |-> "up"]
  /\ head = None
  /\ next = [s \in Sock |-> None]
  /\ prev = [s \in Sock |-> None]
  /\ sends = 0
  /\ refs = [n \in 1..MaxSends |-> 0]
  /\ script \in Scripts
  /\ at = [s \in Sock |-> 0]
  /\ src = [s \in Sock |-> <<>>]
  /\ parser = [s \in Sock |-> NewParser]
  /\ session = [s \in Sock |-> "new"]
  /\ taken = [s \in Sock |-> <<>>]
  /\ wire = [s \in Sock |-> <<>>]
  /\ heard = [s \in Sock |-> <<>>]

SocketStep(s) ==
  \/ Send(s) \/ Close(s)
  \/ Accept(s) \/ Upgraded(s) \/ Ended(s) \/ Timeout(s) \/ Writable(s) \/ Readable(s)
Next == Broadcast \/ Return \/ Consume \/ \E s \in Sock : SocketStep(s)

Spec == Init /\ [][Next]_vars

-----------------------------------------------------------------------------
\* A queue that has something waits for UV_WRITABLE, and a socket that thinks
\* it does, so that the next write would not ask, really does (Socket::write,
\* enterState, io_cb).
QueueIsWatched ==
  \A s \in Sock : /\ queue[s] # <<>> => watched[s] /\ phase[s] \in {"open", "closing"}
                  /\ poll[s] => watched[s]

\* A prepared message has one reference for each queue it is in: it is not
\* freed while it waits, and is when it does not (sendPrepared, onEnd).
Waiting(n) == {w \in UNION {{s} \X DOMAIN queue[s] : s \in Sock} : queue[w[1]][w[2]].msg = Prepared(n)}
PreparedLives == \A n \in DOMAIN refs : refs[n] = Cardinality(Waiting(n))

\* What the pongs among the messages say.
Pongs(messages) ==
  LET pongs[i \in 0..Len(messages)] ==
        IF i = 0 THEN <<>>
        ELSE IF messages[i].kind = "pong" THEN Append(pongs[i - 1], messages[i].data)
        ELSE pongs[i - 1]
  IN  pongs[Len(messages)]

\* However TCP cuts the stream, the server hears the messages the peer has
\* said, and each ping is answered once, in order and with what it said, unless
\* the connection fails; only a peer that breaks the protocol is refused
\* (consume, handleFragment).
HeardIsSaid ==
  \A s \in DOMAIN script :
    LET consumed == at[s] - Len(src[s]) IN
    NoneNested(script[s]) =>
      /\ session[s] = "on" =>
           /\ heard[s] = Said(script[s], consumed)
           /\ out[s] # "failed" => Pongs(taken[s]) = Pinged(script[s], consumed)
      /\ IsPrefix(heard[s], Said(script[s], at[s]))
      /\ IsPrefix(Pongs(taken[s]), Pinged(script[s], at[s]))
      /\ session[s] = "refused" => ~Legal(script[s])

\* The transport is a Channel: partial writes, queues and closings keep what
\* is sent whole and in order, and the group reaches every open socket.
C == INSTANCE Channel WITH
       Peer <- Sock, CloseMsg <- CloseFrame, Shared <- {Prepared(n) : n \in 1..MaxSends},
       failed <- {s \in Sock : out[s] # "up"}, members <- Listed
IsAChannel == C!ChannelSpec

\* A socket that waits for its request or for the answer to its close frame is
\* ended by a timer at the latest, and no timer is left to end one that is open
\* (startTimeout, cancelTimeout).
DeadlinesAreRight == \A s \in Sock : s \in timer <=> phase[s] \in {"http", "closing"}
=============================================================================
