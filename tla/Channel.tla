------------------------------ MODULE Channel ------------------------------
(***************************************************************************)
(* What the transport promises to the server, without queues, partial      *)
(* writes, polls and timers.  A connection is announced once and ends      *)
(* once.  What the server sends is taken in order and goes out in order,   *)
(* in two halves that may be apart, and nothing follows a close frame.     *)
(* What the peer says is heard only while the connection is there.  What   *)
(* is shared among the connections is taken by each of them, but those     *)
(* that have failed or are being closed.                                   *)
(***************************************************************************)
EXTENDS Integers, Sequences, SequencesExt

CONSTANTS
  Peer,     \* connections
  CloseMsg, \* the close frame
  Shared    \* messages that are sent to every connection

VARIABLES
  session,  \* "new", "on", "off", or "refused" because of what the peer sent
  members,  \* connections that a message for all of them is sent to
  failed,   \* connections that can carry nothing more
  taken,    \* messages taken from the server
  wire,     \* halves of messages given to the network
  heard     \* messages handed to the server

channel == <<session, members, failed, taken, wire, heard>>

\* What went out to s is a prefix of the halves of what was taken for it.
GoesOut(s) ==
  /\ Len(wire[s]) <= 2 * Len(taken[s])
  /\ \A i \in DOMAIN wire[s] : wire[s][i] = <<taken[s][(i + 1) \div 2], 2 - (i % 2)>>

ChannelInit ==
  /\ session = [s \in Peer |-> "new"]
  /\ members = {}
  /\ failed = {}
  /\ taken = [s \in Peer |-> <<>>]
  /\ wire = [s \in Peer |-> <<>>]
  /\ heard = [s \in Peer |-> <<>>]

Lives(s) ==
  \/ session'[s] = session[s]
  \/ session[s] = "new" /\ session'[s] = "on"
  \/ session[s] = "on" /\ session'[s] \in {"off", "refused"}

Takes(s) == taken'[s] = taken[s] \/ IsPrefix(taken[s], taken'[s])

Carries(s) ==
  \/ wire'[s] = wire[s]
  \/ /\ s \notin failed
     /\ <<CloseMsg, 2>> \notin ToSet(wire[s])
     /\ IsPrefix(wire[s], wire'[s])
     /\ GoesOut(s)'

Hears(s) ==
  \/ heard'[s] = heard[s]
  \/ /\ session[s] = "on"
     /\ Len(heard'[s]) = Len(heard[s]) + 1
     /\ IsPrefix(heard[s], heard'[s])

New(m, s) == m \in ToSet(taken'[s]) /\ m \notin ToSet(taken[s])
Shares ==
  taken' # taken =>
    \A m \in Shared :
      (\E s \in Peer : New(m, s)) =>
        \A t \in Peer : session[t] = "on" /\ t \notin failed' => New(m, t)

\* A connection that has ended is forgotten.
Forgets(s) ==
  /\ session'[s] # "on" /\ s \in failed'
  /\ taken'[s] = <<>> /\ wire'[s] = <<>> /\ heard'[s] = <<>>

Step ==
  /\ members' = {s \in Peer : session'[s] = "on"}
  /\ failed \subseteq failed'
  /\ Shares
  /\ \A s \in Peer : /\ Lives(s)
                     /\ Forgets(s) \/ (Takes(s) /\ Carries(s) /\ Hears(s))

ChannelSpec == ChannelInit /\ [][Step]_channel
=============================================================================
