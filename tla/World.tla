------------------------------- MODULE World -------------------------------
(***************************************************************************)
(* One loaded World object (src/world.cpp): the players in it, the pixels  *)
(* of its chunks, and the update timer that tells every player what        *)
(* changed.  All of it runs on the libuv loop thread, so each handler is   *)
(* one step; what interleaves is the handlers and the timer.               *)
(*                                                                         *)
(* A Client object is known by its address: plupdates and clients are      *)
(* std::set<Client*>, and a tick sends the MaxPlayerUpdates lowest         *)
(* addresses.  An address may be used again by a later Client.             *)
(*                                                                         *)
(* When its last player leaves, the server closes the World; the next join *)
(* makes a new one.  The chunks' pixels survive in the region files.       *)
(***************************************************************************)
EXTENDS Integers, Sequences, FiniteSets

CONSTANTS
  Addr,              \* addresses of Client objects
  MaxId,             \* bound: player ids one World object hands out
  Pos, StartPos,     \* pinfo_t values, and the one a new Client has
  Pixel, Chunk,      \* pixels; a chunk is the set of its pixels
  Colour, Bg,        \* RGB values, and the background of a cleared chunk
  Nothing,           \* what a player has not been told
  PendingBound,      \* bound: length of pxupdates
  MaxPlayerUpdates,  \* WORLD_MAX_PLAYER_UPDATES
  MaxPlayerLeft,     \* WORLD_MAX_PLAYER_LEFT_UPDATES
  MaxPixelUpdates    \* WORLD_MAX_PIXEL_UPDATES

Id == 1..MaxId

ASSUME WorldAssumption ==
  /\ Addr \subseteq Nat /\ IsFiniteSet(Addr)
  /\ MaxId \in Nat /\ PendingBound \in Nat
  /\ StartPos \in Pos /\ Nothing \notin Pos
  /\ Bg \in Colour /\ Nothing \notin Colour
  /\ Chunk \subseteq SUBSET Pixel
  /\ MaxPlayerUpdates \in Nat \ {0}
  /\ MaxPlayerLeft \in Nat \ {0}
  /\ MaxPixelUpdates \in Nat \ {0}

VARIABLES
  pids,       \* last player id handed out
  clients,    \* addresses of the players in the world
  id, pos,    \* Client::id and Client::pos, by address
  plupdates,  \* players whose position is still to be sent
  plleft,     \* ids whose departure is still to be sent
  pxupdates,  \* pixels still to be sent, oldest first
  timer,      \* is upd_hdl active?
  canvas,     \* the pixels of the chunks
  seen,       \* seen[c][i]: the position of player i that c was last told
  shown,      \* shown[c][p]: the colour of pixel p that c was last told
  stale       \* history: pixels some player may have been told wrongly

playerVars == <<pids, clients, id, pos, plupdates, plleft, seen>>
pixelVars == <<pxupdates, canvas, shown, stale>>
vars == <<playerVars, pixelVars, timer>>

Pixupd == [px : Pixel, clr : Colour]

\* Types; only players of the world have a position to send.
TypeOK ==
  /\ pids \in 0..MaxId
  /\ clients \subseteq Addr
  /\ id \in [Addr -> 0..MaxId]
  /\ pos \in [Addr -> Pos]
  /\ plupdates \subseteq clients
  /\ plleft \subseteq 0..MaxId
  /\ pxupdates \in Seq(Pixupd)
  /\ timer \in BOOLEAN
  /\ canvas \in [Pixel -> Colour]
  /\ seen \in [Addr -> [Id -> Pos \cup {Nothing}]]
  /\ shown \in [Addr -> [Pixel -> Colour \cup {Nothing}]]
  /\ stale \subseteq Pixel

\* A player that is new, or gone, knows nothing.
Unseen == [i \in Id |-> Nothing]
Blank == [p \in Pixel |-> Nothing]

Init ==
  /\ pids = 0
  /\ clients = {}
  /\ id = [a \in Addr |-> 0]
  /\ pos = [a \in Addr |-> StartPos]
  /\ plupdates = {}
  /\ plleft = {}
  /\ pxupdates = <<>>
  /\ timer = FALSE
  /\ canvas \in [Pixel -> Colour]
  /\ seen = [a \in Addr |-> Unseen]
  /\ shown = [a \in Addr |-> Blank]
  /\ stale = {}

-----------------------------------------------------------------------------
Min2(m, n) == IF m < n THEN m ELSE n

\* Mutant: the n greatest, as an iteration from rbegin() would visit.
LastOf(S, n) ==
  {T \in SUBSET S : /\ Cardinality(T) = Min2(n, Cardinality(S))
                    /\ \A x \in T, y \in S \ T : x > y}

\* The n smallest elements of a set: what an iteration from begin() visits.
FirstOf(S, n) ==
  {T \in SUBSET S : /\ Cardinality(T) = Min2(n, Cardinality(S))
                    /\ \A x \in T, y \in S \ T : x < y}

\* Indices of the updates of pixel p among the first n pending ones.
UpdatesOf(p, n) == {k \in 1..n : pxupdates[k].px = p}
IsLast(k, S) == k \in S /\ \A j \in S : j <= k

\* Does an update of p wait, and does the last of them lie within the first n?
LastSent(p, n) == UpdatesOf(p, Len(pxupdates)) = UpdatesOf(p, n)

\* Mutant: ids are the places in the world, and are used again.
get_id_reused == Cardinality(clients) + 1
get_id == pids + 1

\* Mutant: nobody starts the timer.
sched_updates_forgotten == UNCHANGED timer
\* Start the one-shot timer unless it is active.
sched_updates == timer' = TRUE

\* Mutant: only the new player's position is sent.
update_new_client(a) == plupdates \cup {a}
\* update_all_clients, a among them.
update_all_clients(a) == clients \cup {a}

\* Mutant: plupdates keeps the player that is gone.
rm_cli_keeps_update(a) ==
  /\ plleft' = plleft \cup {id[a]}
  /\ clients' = clients \ {a}
  /\ UNCHANGED plupdates
rm_cli(a) ==
  /\ plleft' = plleft \cup {id[a]}
  /\ clients' = clients \ {a}
  /\ plupdates' = plupdates \ {a}

\* Mutant: a pixel that waits is not queued again.
push_once(p, clr) == IF UpdatesOf(p, Len(pxupdates)) # {} THEN pxupdates
                     ELSE Append(pxupdates, [px |-> p, clr |-> clr])
push_back(p, clr) == Append(pxupdates, [px |-> p, clr |-> clr])

\* Mutant: after a tick, only positions that are left start the timer again.
PositionsRemain(batch, gone) == batch # plupdates
\* Does a tick leave something for the next?
WorkRemains(batch, gone) == batch # plupdates \/ gone # plleft

-----------------------------------------------------------------------------
\* Server::join_world and World::add_cli.
Join(a) ==
  /\ a \notin clients
  /\ pids < MaxId
  /\ pids' = get_id
  /\ id' = [id EXCEPT ![a] = get_id]
  /\ pos' = [pos EXCEPT ![a] = StartPos]
  /\ clients' = clients \cup {a}
  /\ plupdates' = update_all_clients(a)
  /\ sched_updates
  /\ UNCHANGED <<plleft, seen, pixelVars>>

\* A player leaves and others stay.
Leave(a) ==
  /\ a \in clients
  /\ clients # {a}
  /\ rm_cli(a)
  /\ seen' = [seen EXCEPT ![a] = Unseen]
  /\ shown' = [shown EXCEPT ![a] = Blank]
  /\ sched_updates
  /\ UNCHANGED <<pids, id, pos, pxupdates, canvas, stale>>

\* World::rm_cli of the last player; the disconnection handler then erases
\* the world and World::safedelete stops its timer.
LeaveLast(a) ==
  /\ clients = {a}
  /\ clients' = {} /\ plupdates' = {} /\ plleft' = {} /\ pids' = 0
  /\ pxupdates' = <<>>
  /\ timer' = FALSE
  /\ stale' = {}
  /\ seen' = [seen EXCEPT ![a] = Unseen]
  /\ shown' = [shown EXCEPT ![a] = Blank]
  /\ UNCHANGED <<id, pos, canvas>>

upd_cli(a) == plupdates' = plupdates \cup {a} /\ sched_updates

\* Client::move: a 12-byte message.
Move(a, p) ==
  /\ a \in clients
  /\ pos' = [pos EXCEPT ![a] = p]
  /\ upd_cli(a)
  /\ UNCHANGED <<pids, clients, id, plleft, seen, pixelVars>>

\* Client::teleport: the player itself is told at once.
Teleport(a, p) ==
  /\ a \in clients
  /\ pos' = [pos EXCEPT ![a] = p]
  /\ seen' = [seen EXCEPT ![a][id[a]] = p]
  /\ upd_cli(a)
  /\ UNCHANGED <<pids, clients, id, plleft, pixelVars>>

\* World::put_px on behalf of some player: nothing happens unless the colour
\* changes.  The new last update makes every player right about p again.
PutPx(p, clr) ==
  /\ clients # {}
  /\ canvas[p] # clr
  /\ Len(pxupdates) < PendingBound
  /\ canvas' = [canvas EXCEPT ![p] = clr]
  /\ pxupdates' = push_back(p, clr)
  /\ stale' = stale \ {p}
  /\ sched_updates
  /\ UNCHANGED <<playerVars, shown>>

\* World::send_chunk: the answer to a chunk request.
GetChunk(a, ch) ==
  /\ a \in clients
  /\ shown' = [shown EXCEPT ![a] =
                 [p \in Pixel |-> IF p \in ch THEN canvas[p] ELSE @[p]]]
  /\ UNCHANGED <<playerVars, pxupdates, canvas, stale, timer>>

\* A whole chunk is replaced and broadcast at once, ahead of the pixels of it
\* that wait in pxupdates: those of another colour will overwrite it.
SetChunk(ch, data) ==
  /\ clients # {}
  /\ canvas' = [p \in Pixel |-> IF p \in ch THEN data[p] ELSE canvas[p]]
  /\ shown' = [a \in Addr |-> [p \in Pixel |->
                 IF a \in clients /\ p \in ch THEN data[p] ELSE shown[a][p]]]
  /\ stale' = {p \in Pixel :
                 IF p \in ch THEN UpdatesOf(p, Len(pxupdates)) # {}
                             ELSE p \in stale}
  /\ UNCHANGED <<playerVars, pxupdates, timer>>

del_chunk(ch) == SetChunk(ch, [p \in Pixel |-> Bg])
paste_chunk(ch, data) == SetChunk(ch, data)

\* What one UPDATE message makes of a player's knowledge.
ToldPlayers(view, batch, gone) ==
  [i \in Id |-> IF i \in gone THEN Nothing
                ELSE IF \E a \in batch : id[a] = i
                     THEN pos[CHOOSE a \in batch : id[a] = i]
                     ELSE view[i]]

\* Pixels of chunks the player has not loaded are dropped by the player.
ToldPixels(view, n) ==
  [p \in Pixel |-> IF view[p] = Nothing \/ UpdatesOf(p, n) = {} THEN view[p]
                   ELSE pxupdates[CHOOSE k \in 1..n : IsLast(k, UpdatesOf(p, n))].clr]

\* World::send_updates, the timer's callback.  Positions and departures over
\* the limit stay for the next tick; pixels over the limit are dropped.
SendUpdates ==
  LET n == Min2(Len(pxupdates), MaxPixelUpdates) IN
  /\ timer
  /\ \E batch \in FirstOf(plupdates, MaxPlayerUpdates),
        gone \in FirstOf(plleft, MaxPlayerLeft) :
       /\ plupdates' = plupdates \ batch
       /\ plleft' = plleft \ gone
       /\ seen' = [a \in Addr |-> IF a \in clients
                                  THEN ToldPlayers(seen[a], batch, gone)
                                  ELSE seen[a]]
       /\ timer' = WorkRemains(batch, gone)
  /\ shown' = [a \in Addr |-> IF a \in clients THEN ToldPixels(shown[a], n)
                                               ELSE shown[a]]
  /\ stale' = stale \cup {p \in Pixel : ~LastSent(p, n)}
  /\ pxupdates' = <<>>
  /\ UNCHANGED <<pids, clients, id, pos, canvas>>

PlayerNext ==
  \E a \in Addr : \/ Join(a) \/ Leave(a) \/ LeaveLast(a)
                  \/ \E p \in Pos : Move(a, p) \/ Teleport(a, p)

PixelNext ==
  \/ \E p \in Pixel, clr \in Colour : PutPx(p, clr)
  \/ \E a \in Addr, ch \in Chunk : GetChunk(a, ch)
  \/ \E ch \in Chunk : \/ del_chunk(ch)
                       \/ \E data \in [Pixel -> Colour] : paste_chunk(ch, data)

Next == PlayerNext \/ PixelNext \/ SendUpdates

Spec == Init /\ [][Next]_vars

\* The loop always comes round to a timer that is due.
FairSpec == Spec /\ WF_vars(SendUpdates)

-----------------------------------------------------------------------------
\* Nothing is left unsent: as long as someone is there to be told, pending
\* positions, departures or pixels come with an active timer
\* (sched_updates in add_cli, upd_cli, rm_cli, put_px and after a full tick).
WorkIsScheduled ==
  clients # {} /\ (plupdates # {} \/ plleft # {} \/ pxupdates # <<>>) => timer

\* Ids tell players apart, and no departed player's id is in use again, even
\* when the Client object's address is (get_id).
IdsTellPlayersApart ==
  /\ \A a \in clients : id[a] \in 1..pids
  /\ \A a, b \in clients : id[a] = id[b] => a = b
  /\ \A a \in clients : id[a] \notin plleft
  /\ plleft \subseteq 1..pids

\* Apart from what is still to be sent, every player knows where every other
\* is, and knows of nobody who has left (add_cli resends everyone, rm_cli).
PlayersKnowEachOther ==
  \A c \in clients :
    /\ \A a \in clients \ plupdates : seen[c][id[a]] = pos[a]
    /\ \A i \in Id : seen[c][i] # Nothing => \/ i \in plleft
                                             \/ \E a \in clients : id[a] = i

\* When all that waits is sent, c shows p in the world's colour, if it loaded p.
WillShow(c, p) ==
  LET waiting == UpdatesOf(p, Len(pxupdates)) IN
  /\ shown[c][p] # Nothing /\ waiting = {} => shown[c][p] = canvas[p]
  /\ \A k \in waiting : IsLast(k, waiting) => pxupdates[k].clr = canvas[p]

\* Once the pending pixels are sent, a player shows the world's colour of every
\* pixel it has loaded, but for the pixels of a chunk-wide write that overtook
\* pending ones and for those a full tick dropped.
PlayersSeeTheCanvas ==
  \A c \in clients, p \in Pixel \ stale : WillShow(c, p)

\* The inductive invariant: nobody who is not here knows anything, and an empty
\* world has no pixels to send.
Forgotten ==
  /\ \A a \in Addr \ clients : seen[a] = Unseen /\ shown[a] = Blank
  /\ clients = {} => pxupdates = <<>>
WorldInv ==
  /\ TypeOK
  /\ Forgotten
  /\ WorkIsScheduled
  /\ IdsTellPlayersApart
  /\ PlayersKnowEachOther
  /\ PlayersSeeTheCanvas

\* A player that has left is never drawn again: the tick may only remove it.
NoGhostReturns ==
  [][\A c \in clients \cap clients', i \in 1..pids :
       (~\E a \in clients : id[a] = i) =>
          seen'[c][i] = seen[c][i] \/ seen'[c][i] = Nothing]_vars

\* The world keeps the promises of Presence: batches, limits, reused addresses
\* and a timer that lags behind never tell a player anything but the truth.
Present(i) == \E a \in clients : id[a] = i
AddrOf(i) == CHOOSE a \in clients : id[a] = i
StatusOf(i) == IF Present(i) THEN pos[AddrOf(i)]
               ELSE IF i <= pids THEN "gone" ELSE "unborn"
Knowledge(i) == IF Present(i) THEN seen[AddrOf(i)] ELSE Unseen

Statuses == [i \in Id |-> StatusOf(i)]
Tellings == [i \in Id |-> Knowledge(i)]

\* A position is not taken for the lack of one.
ASSUME StatusAssumption == "unborn" \notin Pos /\ "gone" \notin Pos

P == INSTANCE Presence WITH
       Unborn <- "unborn", Gone <- "gone", status <- Statuses, told <- Tellings
KeepsPresence == P!PresenceSpec

\* Every departure is announced, however many players leave (or the world
\* closes): plleft keeps what a tick could not send.
DeparturesAnnounced ==
  \A i \in Id : (i \in plleft) ~> (i \notin plleft)

\* The positions of the lowest addresses are sent however much they move.
LowAddressesServed ==
  \A a \in Addr : Cardinality({b \in Addr : b < a}) < MaxPlayerUpdates =>
                    ((a \in plupdates) ~> (a \notin plupdates))
=============================================================================
