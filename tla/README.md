# A TLA+ model of the OWOP server

OWOP is a shared drawing: players connect over WebSockets, join a named world, move a
cursor and draw on chunks of 16 by 16 pixels. This directory models the server in `src/`:
the modules are translated from its source, checked with TLC on small instances, and all
the safety properties that hold are proved with TLAPS for every value of the constants.

## 1. The system

| component | state | operations |
|---|---|---|
| `Server` (`server.cpp`) | open sockets `connsws`, connection counters `conns`, ban, white and black lists, lockdown, limit and captcha flags, loaded `worlds` | the handlers of a connection, a message and a disconnection; joins; kicks, bans, limits, lockdown; saving, quitting |
| `Commands` (`commands.cpp`) | none of its own; tables of commands by rank | parses a chat line, picks the command by the player's rank, changes the server, the world or a client |
| `Client` (`client.cpp`) | rank, position, warnings, two token buckets, the deletion flag | move, teleport, draw, chat, be promoted, be deleted |
| `World` (`world.cpp`) | players, what is still to be sent to them, loaded chunks, a one-shot update timer | join, leave, move, draw, clear, paste, update tick, save, unload |
| `Chunk` (`world.cpp`) | pixels, whether changed, whether protected | set, clear, compress, save |
| `Database` (`database.cpp`) | open region files, names of missing ones, properties, protections | load and store chunks, properties |
| `limiter` | allowance and the time it was computed | spend, set |
| `AsyncHTTPGETClient` | request queue, two locks, a condition variable, a thread | queue, remove, perform, destroy |
| `TaskBuffer` | vector of tasks | queue, execute |
| uWebSockets (vendored) | per socket: message queue, poll flags, shutdown flag, timer, frame parser; per group: linked list of sockets; prepared messages with a count of references | accept, upgrade, read, write, flush, broadcast, time out, close, end |

**How they interact.** Everything but the HTTP client's thread runs on one libuv loop. A
socket's message is a call into `Server`, which calls `Client`, `World` or `Commands`;
these call back into the socket to send or to close. `WebSocket::close` runs the
disconnection handler *before it returns*, so a command that kicks somebody has removed the
player from its world, counted the connection down and perhaps unloaded the world when it
goes on. Deletion, in contrast, is deferred: a `World` and a `Client` are freed in the
closing phase of the loop, after the handlers of that turn. `World` and `Database` of one
name share files, and two `World` objects of one name can be alive at the same time.

**What is hard.** Handlers and timers interleave in any order; ticks have limits and leave
work over; addresses of deleted clients are used again; counters are 8 bits wide and one
path uncounts what it never counted; a lockdown is lifted by a test that does not look at
what it is about; the process may be killed between and within saves; and the request
thread races with the loop thread. `PROJECT.json` lists each hazard at its line.

**What makes each component correct.** World: every player ends up knowing the truth about
the others and about the canvas, and unsent work always has a timer. Server: counters are
never too high, the limits hold, an admin is not kicked by a mass command, worlds are loaded
exactly while they have players. Commands: power comes from passwords, nobody is overruled
from below, and the quota follows the rank. Storage: nothing drawn is forgotten while the
process lives, and a death loses only what was not saved. The code keeps both only with
exceptions, which the properties name: chunks that a reopened world reads before the old
object has saved them, chunks whose save fails at `mkdir`, and chunks that a kill has made
share a place in their file. Transport: what the server sends goes out whole and in order, what a
peer says is heard whole and in order however TCP cuts it, a broadcast reaches everyone once
and is freed once, and no socket is forgotten. HTTP client: no request is lost, repeated
or out of order, and the thread can be stopped.

## 2. The modules

| module | models |
|---|---|
| `World.tla` | one loaded world: players, pixels, update tick |
| `Presence.tla` | the abstract promise about players; `World` implements it |
| `WorldProofs.tla` | the theorems about `World`, `ChunkCodec` and `Canvas` |
| `OrderLemmas.tla` | least members, induction and recursive functions, for the proofs |
| `Server.tla` | sockets, counters, ranks, lists, kicks, locks |
| `ServerProofs.tla` | the theorems about `Server` |
| `WorldStore.tla` | World objects of one name over the files, with quit and kill |
| `RegionFile.tla` | the region files under it: pointers, places, handles, kills between writes |
| `ChunkMap.tla` | the abstract promise about chunks; `RegionFile` implements it |
| `StoreProofs.tla`, `RegionProofs.tla` | the theorems about `WorldStore` and `RegionFile` |
| `Limiter.tla` | the token bucket, as operators |
| `Commands.tla` | players of a world: ranks, quotas, the dispatch of commands; uses `Limiter` |
| `CommandsProofs.tla` | the theorems about `Commands` |
| `ChunkCodec.tla` | the compression of a chunk, as operators |
| `Canvas.tla` | `World` with what `ChunkCodec` sends of its chunks |
| `Framing.tla` | the WebSocket frame parser, as operators |
| `Transport.tla` | sockets, queues, the group, timers; uses `Framing` |
| `Channel.tla` | the abstract promise of the transport; `Transport` implements it |
| `TransportProofs.tla` | the theorems about `Transport` |
| `AsyncHTTPGETClient.tla` | the HTTP client's two threads |
| `AsyncProofs.tla` | the theorems about `AsyncHTTPGETClient` |
| `MCWorld`, `MCServer`, `MCWorldStore`, `MCRegionFile`, `MCCommands`, `MCCanvas`, `MCTransport` | small sets, scripts and symmetries for TLC |

`World`, `Server` and `Commands` each see one side of a player: what is sent about it, its
socket and address, its power. They agree on the rules they share (a close runs the
disconnection, the last player unloads the world). `WorldStore` takes a chunk that was
stored for stored and a write of it for one step. `RegionFile` shows how far that is so: as
long as no `set_chunk` was killed it is (`NoneClashUnkilled`); after a kill two chunks may
clash, and storing one then changes the other, which `WorldStore` leaves out. `World` and
`Server` take a socket
for a reliable, ordered channel with one disconnection, which `Transport` shows of the
library.

A definition whose comment begins with "Mutant" is a changed copy of the one after it, the
kind of slip a change to the code could make. Each property of a passing run is violated
when one of them takes its original's place; they are not part of the specifications.

### World

`clients`, `plupdates`, `plleft`, `pxupdates`, `pids` and `timer` are the members of
`World`; `id` and `pos` are those of the `Client` at an address. `seen` and `shown` are what
the messages sent so far have told each player of the others and of the pixels; `stale`
remembers the pixels for which a player may be wrong, because a chunk was replaced ahead of
pixels that were waiting or because a tick was over its limit. Addresses are numbers since
`std::set<Client*>` is ordered by them and a tick takes the lowest. One action stands for
one handler: `Join`, `Leave`, `LeaveLast` (which also unloads the world), `Move`,
`Teleport`, `PutPx`, `GetChunk`, `del_chunk`, `paste_chunk`, `SendUpdates`. Delivery by a
socket is taken to be in order and complete while the player is connected.

`Presence` says the same without batches, limits, timers and addresses: an id enters, walks
and departs once, and whoever is told something is told the truth. `KeepsPresence` is the
refinement, with an id's position as its status.

### Server

`conns[i]` is the counter of an address, with `NoEntry` for an address that is not in the
map; `CountMod` is 256 in the code. Each action is one handler with everything it closes.
`ConnectRefused`, `ConnectOverLimit` and `ConnectTooFast` are connections that their own
handler closes: what remains is the effect on counters and bans. `DecBy` and `Inc` keep the
width of the counter. `KickIp` chooses at which turns admins are closed, for each of them
runs `lockdown_check` on the counters of that moment. The closes that a handler makes are
one step: what they leave behind is checked, not the loop over `connsws` that they change. `miscounted` remembers the addresses
that a refusal or a wrap left with too low a count while connections of theirs were open.
Ranks given by `/pass`, by the world's default and by a login are chosen freely among those
the code can give. `Close` also stands for the other closes of a single socket: a bad
message, too many warnings, a wrong world password or the peer.

### WorldStore

One world name. `current` is the object in `Server::worlds`. `closing` holds the handles
that have been `uv_close`d since the loop last took its list, newest first, and `due` those
whose callbacks it is running. `get_chunk` evicts, loads and remembers missing regions in the
code's order. `save_now`, `safedelete` and `DeleteWorld` are the ways of saving.
`created_dir` is that of a `Database`: an object that found no directory makes one with its
first chunk, and if another object has made it since, `mkdir` fails and the chunk is lost.
Properties and protections, which are saved together, are one value `prop`.

The handler of SIGINT is a plain signal handler and may run within any other. `quit` is
therefore possible at any moment while the process lives. The first one lists the save timer
(`saving`), unless it interrupts a `uv_close` or the loop at its list, which may lose it. The
second one, which finds the timer closing, exits at once, perhaps in the middle of a save:
`Partial` is what the files can be then, a save being stored chunk by chunk. `Killed` leaves
the same. `exit` is the callback of the save timer.

Histories say what the properties need. `canvas` is what was last drawn and `kept` the
contents a chunk has had since its last save; neither changes when the process ends, so that
what the files hold is compared with what should have survived, and only `Restart` begins
them anew, from the files. `forked` are the chunks that waited in a closing object when a
second object read them or found their region missing; `lost` are those whose save failed at
`mkdir`; both together are `Doubtful`. `rivals` remembers that a world was opened without a
directory while an older object had chunks to save.

### RegionFile

A pointer is three bytes in the header of the file: bytes 1 to 3 of a position, so positions
are counted in units of 256 bytes, of which the header has 12 and a chunk 3. `set_chunk` is
up to four steps, since each seek flushes what was written before: the file is made
(`SetChunk`), its header is written (`WriteHeader`), then the pointer (`WritePointer`), then
the data (`WriteData`). `Killed` comes between any two of them or leaves the first units of
the data. `handles`, `bad` (a stream whose `good()` is false) and `nonexistant` are the
caches. `get_handle` evicts the last element of an unordered map's iteration, which may be
any. A file that a kill left empty takes no chunk any more: the pointer cannot be read, the
stream fails, and the writes that follow do nothing, without a message.

`ChunkMap` is a map of chunks in which one at a time is put; `slots` is what `get_chunk`
finds. A put of one chunk changes that chunk and those that `clash` with it. Places clash
only because a kill came between the pointer and the data of a chunk: its place then begins
in the file and does not end there (the chunk is `loose`), and the next new chunk is given
the end of the file as well (`Locate`). Both may be stored later, and from then on each
`set_chunk` of one overwrites the other. As long as nothing is killed only the chunk being
put is loose, and nothing clashes. A kill while a file is made leaves the file empty and its
chunks `dead`: none was stored and none can be (`Lose`). `KeepsChunks` is that refinement;
its mapping reads the files as `get_chunk` would.

### Limiter and Commands

A bucket counts in parts of a pixel, so that a second adds a whole number of them.
`Commands` has the players of one world. `Exec(t, cl, cmd)` is the dispatch: `t` typed the
command, or typed `/doas` for `cl`, and the tables are searched from the rank of `cl` down.
Commands run with the rank of `cl`, so an admin can remove or demote an equal only through
`/doas`. `Gone` is a deletion with the end of the world it may cause. In a world without a
password every `/pass` is wrong and deletes the player; in a restricted one the right
password gives the rank NONE, even to an admin. `source` remembers where a rank came from,
`excess` what was drawn beyond what the time since then allows. The refill is computed at the
rate of the moment of asking, so a raised rate counts for the time before it too: the bound
is about the time in which the quota is not changed.

### ChunkCodec and Canvas

`Table` is the first loop of `compress_data_to`, which finds the runs and where they will be:
`scan[i]` is its state after `i` pixels. `WithPoint` is a turn of the second one, which copies;
`areas[k]` is its state after `k` runs. Both are functions on positions, so that they can be
reasoned about. `Meaning` is how a client reads the
message: a definition of its own, not the inverse of the code. `Canvas` puts pixels of a
world at any places of a chunk and asks for the message that `GetChunk`, `del_chunk` and
`paste_chunk` send.

### Framing and Transport

A byte is its frame and position, so that the model sees whether the right bytes are unmasked
with the right part of the key, whatever they contain. `consume` is one turn of the parser's
loop: its state, the spill, what is left to read, and what it leads to. Text is valid or not
frame by frame.

`Transport` has one action per callback of the loop (`Accept`, `Upgraded`, `Readable`,
`Writable`, `Timeout`, `Ended`) and per call of a handler (`Send`, `Broadcast`, `Close`);
`Consume` and `Return` are the turns between which handlers run. A write takes what the
kernel takes: all, a part, nothing, or an error. Errors are taken to be permanent. The server
may send to a socket that it has just closed (`server.cpp:102`): the close frame stays the
last on the wire all the same, because the sending side is shut when it is out, which then
ends the socket. `Channel` says what remains of this: sessions begin and end once, what was
taken goes out in order and whole, the group is those who are connected.

Facts the model has kept: when `write` fails, its message block is not given back; bytes that
come behind the HTTP request are dropped; a binary message that begins within a fragmented
one is merged with it instead of refused, and so is a text message after a control frame
(`getOpCode(frame) < 2`, and `lastFin` is the last frame's of any kind), so `HeardIsSaid` is
about peers that do not nest messages.

### AsyncHTTPGETClient

`worker` and `loop` are where the threads are. Sections under `queueLock` are single steps;
`waitLock` is a variable because it is held from one step to the next. `performed` and
`removed` are histories.

## 3. What is checked

| run | instance | result |
|---|---|---|
| `world_players` | 3 addresses, 3 ids, 2 positions, ticks of 1 position and 1 departure | types, timers, ids, knowledge, refinement of `Presence`, and both liveness properties hold |
| `world_pixels` | 2 players, 2 pixels in one chunk, 3 pending, ticks of 2; chunks of up to 10 pixels | `PlayersSeeTheCanvas` and `ChunkArrives` hold |
| `server_door` | 3 sockets, 2 addresses, counters modulo 3, limits 1 and 2, all lists and the lockdown | counters, limits, mass kicks and lockdown hold |
| `server_worlds` | 2 sockets, 2 addresses, 2 worlds, captcha and fast connections | `WorldsAreOccupied` holds |
| `server_lockdown` | 3 sockets, 2 addresses, lockdown | `LockdownEndsWithAdmins` fails |
| `store` | 2 objects, 2 chunks of one region, 2 contents, 2 properties, a cache of one chunk | nothing drawn is forgotten, saves fail only for rivals, deaths lose only the unsaved, properties follow chunks |
| `store_exit` | 1 chunk | `ExitSavesWorlds` fails |
| `region` | 4 chunks, 3 of them in one region, 2 contents, a header of 1 unit and chunks of 2, 1 handle and 1 missing file remembered | pointers, caches and the refinement of `ChunkMap` hold |
| `players` | 3 players, rates 0 to 2, quotas of 1 or 2 seconds, one player draws | ranks, quotas, spending and removals hold |
| `transport` | 2 messages or broadcasts; one peer with five scripts, or one that pings and a silent one | queues, references, what is heard, timers and the refinement of `Channel` hold |
| `async` | 4 requests, 2 of them removable | order, wakeups and answers hold |
| `async_exit` | 3 requests | `DestructorReturns` fails |

**Bounds, and why they are enough.** Ticks that send fewer than there are players, departures
or pixels make every limit bite. Three players are the fewest for which a tick serves one,
skips one and a third departs. Ids are bounded by `MaxId` for one world object; `pids`
starts again when the world is reopened, which `LeaveLast` does. Counters modulo 3 with
three sockets reach the wrap, the limit, and the erased entry. Two objects are the fewest
that overlap, and a cache of one chunk makes every second access evict. `MaxNonexistant`
never bites with one region; clearing the set only makes the code look at the disk again.
Three chunks of one region are the fewest of which two are given one place and a third is
stored behind them; with `MaxHandles` 0 every second file evicts. A run of three pixels is
the shortest that is compressed, so ten pixels hold two runs with something before, between
and behind them, and every length around the limit. A quota of two seconds and half pixels
is the smallest whose refill is not whole. In `transport` a message is two halves, so a write
can be partial; `MaxSends` 2 with upgrade, pong and close makes queues of five. A peer that
is alone says a fragmented message around a ping with a payload that is cut and unmasked in
the middle, a message within a message, a header longer than the shortest with an invalid
fragment behind it, a close with a frame behind it, or invalid text; every cut of each is
tried. What one socket reads does not touch the other, so the two sockets, for the group's
list and broadcasts, say little. With two sockets no member is removed from the
middle of the group's list. MaxControl, MaxPayload and the header lengths are scaled down.
Each run ends within five minutes; `transport` and `store` are the longest.

Sockets, addresses, objects and chunks are interchangeable, so those runs use symmetry; no
run with symmetry checks liveness. `store` has a `VIEW`, which leaves out what was drawn on a
chunk that is `Doubtful`, and of which kind it is: every property excepts that chunk, no step
reads its history but to go on leaving it out, and once the files are all there is its
history is what they hold.

**Fairness.** `World!FairSpec` assumes that a due timer is served: the loop never blocks
and libuv runs due timers in each turn. `AsyncHTTPGETClient!FairSpec` assumes that both
threads run and a begun call is finished; that a request ends follows from
`CURLOPT_TIMEOUT`. It does not assume that anything is called, nor that a condition variable
wakes without a reason. A transport without fairness has
`DeadlinesAreRight` in place of liveness: a socket that waits always has its timer. The HTTP
client's runs and `transport` switch deadlock checking off: a joined client has really
stopped, and a socket is used once, so all of them may be gone.

## 4. What disagrees with the code's own words

* `server_lockdown`: `/lockdown` says it ends when all whitelisted admins disconnect. It
  stays while anyone of a whitelisted address is counted, and then nobody can lift it
  but by logging in again from such an address.
* `store_exit`: SIGINT prints "Saving worlds and exiting..." and exits before the deferred
  deletion that would save the worlds.
* `async_exit`: deleting the server may hang in the HTTP client's destructor.

More facts came up and are written into the properties instead. A refused connection lowers
the counter of its address, so later connections may pass the limit (`miscounted`). A limit
of 255 keeps nobody out, as the counter wraps before it exceeds it. A tick begins at the
lowest address, so with more than `WORLD_MAX_PLAYER_UPDATES` players who keep moving those at
high addresses are never shown; `LowAddressesServed` is what holds. A save drops changed
properties of a world without a directory and says "Worlds saved."; `PropsFollowChunks` is
what holds. A refusal also lets a lockdown end too early: when an admin leaves, the test of
`lockdown_check` does not see the connections of an address that lost its count, even if a
whitelisted admin has one of them; `LockdownOutlastsPlayers` is what holds. When the last
player of a new world leaves and another joins before the world is deleted, whichever of the
two objects saves second finds the directory made, and all that it saves is lost with a line
on the console;
`SavesFailOnlyForRivals` says that this is the only way. A kill at the wrong moment makes two
chunks share a place; `KeepsChunks` says which. An admin who is demoted keeps the HTML privilege in chat, which only
`/adminlogin` sets.

## 5. What is proved

Every safety invariant, action property and refinement that a passing run checks is a theorem
for every value of the constants. The assumptions are those that the modules state of their constants, which TLC evaluates in the runs; two of them
were found by the proofs: no position is one of the words "unborn" and "gone"
(`StatusAssumption`), and the contents of a place in a file are not the mark `Absent`
(`RegionAssumption`). Both concern the names of values, which the code keeps apart by types.

**`WorldProofs`**: `TypeCorrect`, `WorkScheduled`, `IdsApart`, `PlayersKnow`, `CanvasSeen`,
the action property `NoGhost`, and `TruthIsTold`, that a world implements `Presence`, for any
finite set of addresses, any limits and any pixels. The invariants are not inductive alone;
together they are `WorldInv`: to know that a tick tells the truth one needs that ids tell
players apart, for which one needs that every id is at most `pids` and none waits in
`plleft`; to know that a newcomer is not shown old things one needs `Forgotten` (whoever is
not in the world has been told nothing, and an empty world has no pixels waiting). The lemmas
before them are about `FirstOf` (a part of a finite set, whose rest is empty exactly when all
was taken), about `ToldPlayers`, and about the last update of a pixel in a sequence that
grows. The refinement follows from `WorldInv`: each step changes one id's status, or tells
some players of ids at positions where they are.

`ChunksArrive`, in the same module, is `ChunkArrives` for chunks of any length and any colours.
The code computes the table and the bytes in two loops that must agree, so the proof has one
description of the table that both are measured against: `IsTable` says of a table `R` of
runs, with the places `E` in the chunk at which they end, that each run is of equal pixels
and is put behind what the pixels before it take (`IsRun`, `Out`). `IsScanned` is the
invariant of the first loop (the table so far, the bytes counted, the run still open),
`AreasCorrect` that of the second (what is out is the first `Out(R, k)` bytes, what is read
the first `E[k]` pixels); they give where each run and each single pixel is in the message
(`MessageLayout`). `WalkReads` then goes through the message as a client does, from its end to
its beginning: at each place a run or a pixel begins and the rest of the chunk is read from
there. The conjunct `Out(R, k) + 2 * k <= 3 * E[k]` bounds the message with its table: never
longer than the pixels as they are, which is why it fits into the array that the callers
pass, and why no position of a chunk of 256 pixels leaves the 16 bits the code keeps it in.

**`ServerProofs`**: all that the passing runs of `Server` check, for any finite set of
sockets, any addresses, worlds, limits and counter width. `IInv` adds to the types and
`WorldsAreOccupied` that every open socket has an address (`Addressed`), which the types need
because `/lockdown` whitelists the addresses of admins. `LockdownLasts` follows from how far
a counter may be trusted: a lockdown ends only where `NobodyLeft` finds no counter of a
whitelisted address, so each open socket of one has lost a count. The counters have two invariants of their own, in this order. A counter is `Sound`:
never above the number of connections, and 0 only after a wrap, with at least `CountMod`
connections open; each operation on a counter keeps that, by a lemma each. From it follows
that a counter without connections is `Exact`, which is the reason why an address that left
is counted right again, and so the exactness of all but the `miscounted` ones is kept.
`StepKinds` reduces the twenty-odd actions to the six things a step can do to sockets and
counters.

**`CommandsProofs`**: for any players, rates and quotas. `StepKinds` reduces the actions and
commands to four things that happen to one player (`PlayerStep`: promoted, gone, given a
quota, spent) besides seconds and what concerns the world. `PowerFromPasswords` rests on
`RankHasSource`, which is said of everybody, in the world or not, since who leaves comes
back with an old record. `SpendingBounded` rests on `WithinRate`: what was drawn beyond the
time that went by and what may still be drawn are together never more than the rate.

**`StoreProofs`**: for any objects, chunks, regions, contents and sizes of the cache.
`StoreInv` is what a careful reader of `world.cpp` would have to keep in mind. An object
is closing once and leaves nothing (`ClosingOnce`, `UnusedAreBlank`); what is in a file is in
a directory (`FilesHold`); unless rivals opened the world, whoever may yet save a chunk can,
since the directory is its own or it is the only one to make it (`DirIsOwned`), from which
`OnlyRivalsLose` follows; the newest content of a chunk is in the objects that changed it or
else in the files (`NewestIsSomewhere`), also of what the histories have kept
(`SomethingKept`, which is said of a process that has ended too); and what the current object
has loaded or takes for missing is not older than what waits elsewhere (`CurrentSeesIt`).
`Doubtful` chunks are left out of all of these. Each save, whole or interrupted, is reduced to
what it stores (`IsStored`).

**`RegionProofs`**: for any chunks and regions, and any sizes of header, chunk and caches.
`FileInv` adds to types and pointers that a file is empty or begins with a header, that it is
empty before its header is written, and that what is taken for missing is. `FilesKeepChunks`,
that the files implement `ChunkMap`, needs no more: a chunk's slot depends on its place alone
(`SlotsAreRight`), a write changes the places it meets (`OtherSlots`, `WrittenSlot`), and a
new place at the end of the file meets only those that do not end within it
(`PlaceAtTheEnd`). From the steps of the map follows `NoneClashUnkilled`: without kills no
places overlap.

**`TransportProofs`**: `Deadlines`, `QueuesAreWatched`, `PreparedLive`, and
`TransportIsAChannel`, the refinement of `Channel`, for any sockets, scripts and number of
messages. `Inv` has three parts besides the types. What went out and what waits are, half by
half, what was taken (`Fits`: `Goes` and `Queued`), and while the sending side is up no
close frame is out (`CloseIsLast`); this is shown of one socket's `Link` for each way of
writing and flushing. The group's list is one (`ListIsRight`: there is an order of the open
sockets that `head`, `next` and `prev` follow both ways), from which `forEach` visits exactly
the open sockets, for any number of them. Timers and sessions follow the phase. `StepKinds`
reduces the actions to eight kinds, which the refinement and the count of references reuse.
For `PreparedLive` a message that was prepared has a number that was given out
(`PreparedBelow`), so that a new one waits nowhere; then the places in the queues are counted
as one queue at a time changes (`CountsAreRight`).

`HeardAreSaid`, in the same module, is `HeardIsSaid` for any scripts of frames, any lengths of
headers and payloads, and any way TCP cuts the stream. What a peer says is one function,
`Reader`, of its frames; what the server hears comes out of a parser with a spill, a mask that
turns, a stack of opcodes and two buffers, a turn at a time, with handlers in between. The
invariant that connects them is `HearsWell`. Of an open socket it says that some number `i` of
frames has been consumed and where within the next one the parser stands (`Stands`: between
frames, with `opStack`, `opCode`, `lastFin` and the buffers as the reader of `i` frames has
them, or behind a header and a part of the payload, with the rest in `remaining` and the mask
turned by what is read); what is left to read, or in the spill, is exactly the rest of what
was received (`Left`), and a spill is part of one header, which is why it makes no frame whole;
what is heard is what the reader of `i` frames has; and its pings are answered, all of them,
or, once the connection has failed, those before (`Answered`). A closing socket has heard some
whole number of frames, and one that is gone or new nothing. `Turn` is what one turn of
`consume` does with such a parser: it refuses, which only a script that breaks the protocol
leads to, or it ends within a frame, or it reads one frame and does what the frame says
(`FrameRead`). It is proved for each of the ways a turn can go (`MessageTurn` for a header
with all or a part of the payload, `ContinuationTurn` for the rest, `SpillTurn` for a header
that is incomplete) from what a cut of the stream is unmasked to (`PayloadRead`) and what a
fragment leads to. A byte is known by its frame and its place, so one that is lost, read twice
or unmasked by the wrong part of the mask would show. The
sending side is again taken one socket at a time (`SendHears` to `ReturnHears`): only `Consume`
takes a pong, and what `Answered` says survives a failing write, a broadcast and a close. Peers
that nest messages are left out (`NoneNested`), since the code merges these.

**`AsyncProofs`**: for any requests all safety properties of the HTTP client: `TypeCorrect`,
`LockHeld`, `NoLostWakeup` and `InOrder`. `InOrder` needs that requests are made once and
that only requests that were made are removed (`MadeOnce`), and the algebra of `Without`,
what is left of a sequence: it distributes over concatenation, leaving out twice is leaving
out both, and only members matter. These are shown by induction, for which `OrderLemmas`
states induction on numbers and on sequences with a set in the place of the predicate, and that
a function defined by recursion on numbers is what its definition says (`RecursionExists`).
`LockIsHeld` is a part of what `NoLostWakeup` rests on, so no run checks it by itself.

**Only model-checked.** `DeparturesAnnounced`, `LowAddressesServed` and `RequestsAreAnswered`
are liveness under fairness, which is out of this prover's reach. The `violation` runs show a
single behaviour each, of which nothing is to be proved.

## 6. Not modelled

`TaskBuffer`: the server has one, but nothing queues a task or runs the tasks. (Were it used,
`executeTasks` would read and clear the vector without the lock that `queueTask` takes.)
`/bansuspicious` and the proxy check have no effect in this code (`origin` is never set, no
request is queued). Chat, nicknames, mutes, help texts and logging keep no state that another
part depends on. The files of bans, white and black lists are read at the start and written
at each save and at the end; a kill between loses the changes since, and a kill within
`writefiles` what was in the file. Of uWebSockets the parts this server does not use are left
out: clients, TLS, compression (never negotiated), transfers between threads, automatic
pings, `forEach` with removals in the callback; so is the text of the HTTP request, and
payload lengths that do not fit an `int`. `json.hpp` (two thirds of the repository's lines)
is a third-party library that `server.cpp` includes and does not use; the nodejs bindings, tests and examples of
uWebSockets are not built.

## 7. Plan

1. `/lockdown`'s list and the lists' files in `Server`, with kills, as a module of their own.
2. Nested messages: what the code makes of them, in the place of `NoneNested`.
