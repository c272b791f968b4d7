------------------------------- MODULE Server -------------------------------
(***************************************************************************)
(* Who is connected (src/server.cpp): the connection handler, the          *)
(* disconnection handler, the join of a world, and the commands that kick, *)
(* ban, lock and change ranks (src/commands.cpp).                          *)
(*                                                                         *)
(* Everything runs on the loop thread.  WebSocket::close runs the          *)
(* disconnection handler before it returns, so a handler that closes       *)
(* sockets has disconnected them all when it ends: one step.  A connection *)
(* that its own handler closes leaves only its effect on the counters.     *)
(***************************************************************************)
EXTENDS Integers, FiniteSets

CONSTANTS
  Sock,      \* sockets, each used again after it is closed
  IP,        \* remote addresses
  Name,      \* world names
  None,      \* no world, no address
  CountMod,  \* values of the uint8_t counters of conns
  Limits,    \* values /lock ip may set
  Settings   \* bound: the settings that an instance changes

NoEntry == -1  \* conns has no entry for an address

\* Ranks of a Client.
RankNone == 0
User == 1
Moderator == 2
Admin == 3

\* Values of fastconnectaction.
Allow == 0
KickFast == 1
BanFast == 2
AskCaptcha == 3

ASSUME ServerAssumption ==
  /\ IsFiniteSet(Sock)
  /\ None \notin Name /\ None \notin IP
  /\ CountMod \in Nat /\ CountMod > 1
  /\ Limits \subseteq 1..(CountMod - 1)
  /\ Settings \subseteq {"bans", "whitelist", "blacklist", "lockdown", "limit",
                         "captcha", "fastconnects"}

VARIABLES
  socks,    \* connsws: the open sockets
  ip,       \* SocketInfo::ip
  captcha,  \* SocketInfo::captcha_verified
  world,    \* the world of SocketInfo::player, or None
  rank,     \* Client::rank
  worlds,   \* the loaded worlds
  clients,  \* World::clients of each loaded world
  conns,    \* connections counted for each address
  ipban, ipwhitelist, ipblacklist,
  lockdown, maxconns, captcha_required, trusting_captcha, fastconnectaction,
  miscounted  \* history: addresses with fewer counted connections than open ones

sockVars == <<socks, ip, captcha, world, rank, worlds, clients>>
listVars == <<ipban, ipwhitelist, ipblacklist>>
flagVars == <<maxconns, captcha_required, trusting_captcha, fastconnectaction>>
vars == <<sockVars, conns, miscounted, listVars, lockdown, flagVars>>

\* Types; a limit nobody set is one that no counter can pass.
TypeOK ==
  /\ socks \subseteq Sock
  /\ ip \in [Sock -> IP \cup {None}]
  /\ captcha \in [Sock -> {"waiting", "ok"}]
  /\ world \in [Sock -> Name \cup {None}]
  /\ rank \in [Sock -> RankNone..Admin]
  /\ worlds \subseteq Name
  /\ clients \in [Name -> SUBSET Sock]
  /\ conns \in [IP -> NoEntry..(CountMod - 1)]
  /\ ipban \subseteq IP /\ ipwhitelist \subseteq IP /\ ipblacklist \subseteq IP
  /\ lockdown \in BOOLEAN
  /\ maxconns \in Limits \cup {CountMod}
  /\ captcha_required \in BOOLEAN /\ trusting_captcha \in BOOLEAN
  /\ fastconnectaction \in Allow..AskCaptcha
  /\ miscounted \subseteq IP

\* readfiles may bring back addresses that writefiles saved.
Init ==
  /\ socks = {}
  /\ ip = [s \in Sock |-> None]
  /\ captcha = [s \in Sock |-> "waiting"]
  /\ world = [s \in Sock |-> None]
  /\ rank = [s \in Sock |-> RankNone]
  /\ worlds = {}
  /\ clients = [w \in Name |-> {}]
  /\ conns = [i \in IP |-> NoEntry]
  /\ ipban \in IF "bans" \in Settings THEN SUBSET IP ELSE {{}}
  /\ ipwhitelist \in IF "whitelist" \in Settings THEN SUBSET IP ELSE {{}}
  /\ ipblacklist \in IF "blacklist" \in Settings THEN SUBSET IP ELSE {{}}
  /\ lockdown = FALSE
  /\ maxconns = CountMod
  /\ captcha_required = FALSE /\ trusting_captcha = FALSE
  /\ fastconnectaction = Allow
  /\ miscounted = {}

-----------------------------------------------------------------------------
SocksOf(i) == {s \in socks : ip[s] = i}
InWorld(s) == s \in socks /\ world[s] # None
IsAdmin(s) == InWorld(s) /\ rank[s] = Admin

\* n disconnections of an address whose counter is v: an entry that reaches
\* 0 is erased, no entry is left alone, and 0 (a wrapped counter) wraps back.
DecBy_unchecked(v, n) == v - n  \* Mutant: the entry is not looked for.
DecBy(v, n) ==
  LET w == IF v = 0 THEN CountMod ELSE v IN
  IF n = 0 \/ v = NoEntry THEN v ELSE IF n < w THEN w - n ELSE NoEntry

\* A connection: no entry becomes 1, a counter is incremented and wraps.
Inc(v) == IF v = NoEntry THEN 1 ELSE (v + 1) % CountMod

\* The loaded worlds when the sockets K have left theirs.
StillLoaded_never(K) == worlds  \* Mutant: no world is unloaded.
StillLoaded(K) == {w \in worlds : \A s \in K : world[s] = w => clients[w] \ K # {}}

\* The sockets K are closed: the handler takes each player out of its world
\* and unloads a world that becomes empty.
Disconnect(K) ==
  /\ socks' = socks \ K
  /\ ip' = [s \in Sock |-> IF s \in K THEN None ELSE ip[s]]
  /\ captcha' = [s \in Sock |-> IF s \in K THEN "waiting" ELSE captcha[s]]
  /\ world' = [s \in Sock |-> IF s \in K THEN None ELSE world[s]]
  /\ rank' = [s \in Sock |-> IF s \in K THEN RankNone ELSE rank[s]]
  /\ clients' = [w \in Name |-> clients[w] \ K]
  /\ worlds' = StillLoaded(K)
  /\ miscounted' = {i \in miscounted : SocksOf(i) \ K # {}}

\* Mutant: only players are uncounted.
Uncount_players(K) ==
  conns' = [i \in IP |-> DecBy(conns[i], Cardinality({s \in K \cap SocksOf(i) : InWorld(s)}))]
Uncount(K) == conns' = [i \in IP |-> DecBy(conns[i], Cardinality(K \cap SocksOf(i)))]

\* lockdown_check, with the counters c: is there nobody whitelisted left?
NobodyLeft_any(c) == \E i \in ipwhitelist : c[i] \in {NoEntry, 0}  \* Mutant: one is enough.
NobodyLeft(c) == \A i \in ipwhitelist : c[i] \in {NoEntry, 0}

\* One socket is closed, by either side: the disconnection handler.
Close(s) ==
  /\ s \in socks
  /\ Disconnect({s})
  /\ Uncount({s})
  /\ lockdown' = (lockdown /\ ~(IsAdmin(s) /\ NobodyLeft(conns')))
  /\ UNCHANGED <<listVars, flagVars>>

-----------------------------------------------------------------------------
\* The connection handler, in the order of its tests.
Refused(i) == (lockdown /\ i \notin ipwhitelist) \/ i \in ipban

\* Closed before it is counted, yet the disconnection handler uncounts it.
ConnectRefused(i) ==
  /\ Refused(i)
  /\ conns' = [conns EXCEPT ![i] = DecBy(@, 1)]
  /\ miscounted' = miscounted \cup ({i} \cap {ip[s] : s \in socks})
  /\ UNCHANGED <<sockVars, listVars, lockdown, flagVars>>

\* Mutant: the limit is tested before the connection is counted.
TooMany_before(i) == conns[i] # NoEntry /\ (conns[i] > maxconns \/ i \in ipblacklist)
TooMany(i) == conns[i] # NoEntry /\ (Inc(conns[i]) > maxconns \/ i \in ipblacklist)

CountAndUncount_kept(i) == conns' = [conns EXCEPT ![i] = Inc(@)]  \* Mutant: no uncounting.
CountAndUncount(i) == conns' = [conns EXCEPT ![i] = DecBy(Inc(@), 1)]

ConnectOverLimit(i) ==
  /\ ~Refused(i) /\ TooMany(i)
  /\ CountAndUncount(i)
  /\ UNCHANGED <<sockVars, miscounted, listVars, lockdown, flagVars>>

\* connlimiter.can_spend() said no.
ConnectTooFast(i) ==
  /\ ~Refused(i) /\ ~TooMany(i)
  /\ fastconnectaction \in {KickFast, BanFast}
  /\ ipban' = ipban \cup (IF fastconnectaction = BanFast THEN {i} ELSE {})
  /\ CountAndUncount(i)
  /\ UNCHANGED <<sockVars, miscounted, ipwhitelist, ipblacklist, lockdown, flagVars>>

\* Does a connection from i have to solve a captcha?
CaptchaFor(i) ==
  IF captcha_required /\ ~(i \in ipwhitelist /\ trusting_captcha) THEN "waiting" ELSE "ok"

Connect(s, i, fast) ==
  /\ s \notin socks
  /\ ~Refused(i) /\ ~TooMany(i)
  /\ fast => fastconnectaction \in {Allow, AskCaptcha}
  /\ socks' = socks \cup {s}
  /\ ip' = [ip EXCEPT ![s] = i]
  /\ captcha' = [captcha EXCEPT ![s] =
                   IF fast /\ fastconnectaction = AskCaptcha THEN "waiting"
                   ELSE CaptchaFor(i)]
  /\ conns' = [conns EXCEPT ![i] = Inc(@)]
  /\ miscounted' = miscounted \cup (IF Inc(conns[i]) = 0 THEN {i} ELSE {})
  /\ UNCHANGED <<world, rank, worlds, clients, listVars, lockdown, flagVars>>

\* onMessage: who may join a world.
MayJoin(s) == s \in socks /\ world[s] = None /\ captcha[s] = "ok"

\* join_world; the world's default rank or its password decides the rank.
Join(s, w, r) ==
  /\ MayJoin(s)
  /\ r \in {RankNone, User}
  /\ world' = [world EXCEPT ![s] = w]
  /\ rank' = [rank EXCEPT ![s] = r]
  /\ worlds' = worlds \cup {w}
  /\ clients' = [clients EXCEPT ![w] = @ \cup {s}]
  /\ UNCHANGED <<socks, ip, captcha, conns, miscounted, listVars, lockdown, flagVars>>

-----------------------------------------------------------------------------
\* Commands that change a rank.
SetRank(s, r) ==
  /\ rank' = [rank EXCEPT ![s] = r]
  /\ UNCHANGED <<socks, ip, captcha, world, worlds, clients, conns,
                 miscounted, listVars, lockdown, flagVars>>

modlogin(s) == InWorld(s) /\ rank[s] # Moderator /\ SetRank(s, Moderator)
adminlogin(s) == InWorld(s) /\ SetRank(s, Admin)
pass(s, r) == InWorld(s) /\ r \in {RankNone, User} /\ SetRank(s, r)

setrank(s, t, r) ==
  /\ IsAdmin(s) /\ InWorld(t) /\ world[t] = world[s]
  /\ rank[t] < rank[s] /\ r < rank[s]
  /\ SetRank(t, r)

\* Commands that close sockets.
kick(s, t) ==
  /\ InWorld(s) /\ rank[s] >= Moderator
  /\ InWorld(t) /\ world[t] = world[s]
  /\ rank[t] < rank[s]
  /\ Close(t)

\* Many sockets, none of an admin, so no lockdown_check.
CloseAll(K) ==
  /\ Disconnect(K)
  /\ Uncount(K)
  /\ UNCHANGED <<listVars, lockdown>>

kickallWorld(s) ==
  /\ IsAdmin(s)
  /\ CloseAll({t \in socks : world[t] = world[s] /\ ~IsAdmin(t)})
  /\ UNCHANGED flagVars

\* Mutant: only the caller is spared.
kickallServer_others(s) == IsAdmin(s) /\ CloseAll(socks \ {s}) /\ UNCHANGED flagVars
kickallServer(s) ==
  /\ IsAdmin(s)
  /\ CloseAll({t \in socks : ~IsAdmin(t)})
  /\ UNCHANGED flagVars

\* set_max_ip_conns: players and idle sockets of an address go, in the order
\* of connsws, until its counter is within the limit or only admins remain.
Surplus(i, limit) ==
  LET excess == IF conns[i] > limit THEN conns[i] - limit ELSE 0
      others == Cardinality({t \in SocksOf(i) : ~IsAdmin(t)})
  IN  IF excess < others THEN excess ELSE others

set_max_ip_conns(s, limit) ==
  /\ "limit" \in Settings
  /\ IsAdmin(s)
  /\ maxconns' = limit
  /\ \E K \in SUBSET {t \in socks : ~IsAdmin(t)} :
       /\ \A i \in IP : Cardinality(K \cap SocksOf(i)) = Surplus(i, limit)
       /\ CloseAll(K)
  /\ UNCHANGED <<captcha_required, trusting_captcha, fastconnectaction>>

\* Server::kickip: closes the sockets of i in the order of connsws, J being the
\* turns at which admins go; each runs lockdown_check on the counters so far.
KickIp(i) ==
  LET K == SocksOf(i)
      n == Cardinality(K)
      After(j) == [conns EXCEPT ![i] = DecBy(@, j)]
  IN IF K = {} THEN UNCHANGED <<sockVars, conns, miscounted, lockdown>>
     ELSE /\ Disconnect(K)
          /\ conns' = [conns EXCEPT ![i] = NoEntry]
          /\ \E J \in SUBSET (1..n) :
               /\ Cardinality(J) = Cardinality({t \in K : IsAdmin(t)})
               /\ lockdown' = (lockdown /\ \A j \in J : ~NobodyLeft(After(j)))

kickip(s, i) ==
  /\ IsAdmin(s)
  /\ KickIp(i)
  /\ UNCHANGED <<listVars, flagVars>>

banip(s, i) ==
  /\ "bans" \in Settings
  /\ IsAdmin(s)
  /\ i \notin ipban
  /\ ipban' = ipban \cup {i}
  /\ IF conns[i] # NoEntry THEN KickIp(i)
     ELSE UNCHANGED <<sockVars, conns, miscounted, lockdown>>
  /\ UNCHANGED <<ipwhitelist, ipblacklist, flagVars>>

\* /bans, /whitelist, /blacklist add, remove and clear only edit the list.
Edited(list) == {list \cup {i} : i \in IP} \cup {list \ {i} : i \in IP} \cup {{}}

bans(s) ==
  /\ "bans" \in Settings
  /\ IsAdmin(s)
  /\ ipban' \in Edited(ipban)
  /\ UNCHANGED <<ipwhitelist, ipblacklist, sockVars, conns, miscounted, lockdown, flagVars>>

whitelist(s) ==
  /\ "whitelist" \in Settings
  /\ IsAdmin(s)
  /\ ipwhitelist' \in Edited(ipwhitelist)
  /\ UNCHANGED <<ipban, ipblacklist, sockVars, conns, miscounted, lockdown, flagVars>>

blacklist(s) ==
  /\ "blacklist" \in Settings
  /\ IsAdmin(s)
  /\ ipblacklist' \in Edited(ipblacklist)
  /\ UNCHANGED <<ipban, ipwhitelist, sockVars, conns, miscounted, lockdown, flagVars>>

\* /lockdown true whitelists the addresses of the admins.
set_lockdown(s, state) ==
  /\ "lockdown" \in Settings
  /\ IsAdmin(s)
  /\ lockdown' = state
  /\ ipwhitelist' = ipwhitelist \cup (IF state THEN {ip[t] : t \in {u \in socks : IsAdmin(u)}}
                                           ELSE {})
  /\ UNCHANGED <<sockVars, conns, miscounted, ipban, ipblacklist, flagVars>>

\* /lock captcha, trustwhitelist and fastconnects.
lock(s) ==
  /\ IsAdmin(s)
  /\ \/ /\ "captcha" \in Settings
        /\ \/ captcha_required' \in BOOLEAN /\ UNCHANGED trusting_captcha
           \/ trusting_captcha' \in BOOLEAN /\ UNCHANGED captcha_required
        /\ UNCHANGED fastconnectaction
     \/ /\ "fastconnects" \in Settings /\ fastconnectaction' \in Allow..AskCaptcha
        /\ UNCHANGED <<captcha_required, trusting_captcha>>
  /\ UNCHANGED <<sockVars, conns, miscounted, listVars, lockdown, maxconns>>

-----------------------------------------------------------------------------
Connections ==
  \E i \in IP : \/ ConnectRefused(i) \/ ConnectOverLimit(i) \/ ConnectTooFast(i)
                \/ \E s \in Sock, fast \in BOOLEAN : Connect(s, i, fast)

Players ==
  \E s \in Sock : \/ Close(s)
                  \/ \E w \in Name, r \in RankNone..User : Join(s, w, r)
                  \/ modlogin(s) \/ adminlogin(s)
                  \/ \E r \in RankNone..User : pass(s, r)
                  \/ \E t \in Sock : kick(s, t)

Admins ==
  \E s \in Sock : \/ \E t \in Sock, r \in RankNone..Moderator : setrank(s, t, r)
                  \/ kickallWorld(s) \/ kickallServer(s)
                  \/ \E limit \in Limits : set_max_ip_conns(s, limit)
                  \/ \E i \in IP : kickip(s, i) \/ banip(s, i)
                  \/ bans(s) \/ whitelist(s) \/ blacklist(s) \/ lock(s)
                  \/ \E state \in BOOLEAN : set_lockdown(s, state)

Next == Connections \/ Players \/ Admins

Spec == Init /\ [][Next]_vars

-----------------------------------------------------------------------------
\* An address is never counted more often than it is connected, so no counter
\* keeps out somebody whose old connections are gone; a counter at 0 is one
\* that wrapped (onConnection, onDisconnection, kickip).
NeverOvercounts ==
  \A i \in IP : /\ conns[i] <= Cardinality(SocksOf(i))
                /\ conns[i] = 0 => Cardinality(SocksOf(i)) >= CountMod

\* Players, worlds and the world table agree: a player is in the world it was
\* put into, and exactly the worlds with players are loaded.
WorldsAreOccupied ==
  /\ \A s \in Sock, w \in Name : s \in clients[w] <=> world[s] = w
  /\ \A s \in Sock \ socks : world[s] = None /\ ip[s] = None
  /\ worlds = {w \in Name : clients[w] # {}}

\* A step that closes sockets of several addresses, or closes one while it
\* sets the limit, spares the admins (kickall, set_max_ip_conns).
MassKicksSpareAdmins ==
  [][\A s, t \in socks \ socks' : ip[s] # ip[t] \/ maxconns' # maxconns => ~IsAdmin(s)]_vars

\* /lockdown false, by an admin.
LiftedByCommand == \E s \in socks : set_lockdown(s, FALSE)

\* A lockdown that no command lifts ends in a step in which an admin leaves and
\* after which no open socket, of an admin or not, has a whitelisted address:
\* refused connections, kicks and lost players never open the door.  The one
\* exception is an address that lost a count to a refused connection or to a
\* wrap: lockdown_check takes its sockets, admins among them, for gone
\* (onConnection, onDisconnection, lockdown_check).
LockdownOutlastsPlayers ==
  [][lockdown /\ ~lockdown' /\ ~LiftedByCommand =>
       /\ \E s \in socks \ socks' : IsAdmin(s)
       /\ \A s \in socks' : ip'[s] \in ipwhitelist => ip'[s] \in miscounted]_vars

\* The number of connections the server counts of an address is its number of
\* connections, unless a refusal or a wrapped counter lost one that is still
\* open; when the address has left, its count is right again.
ConnCountExact ==
  \A i \in IP \ miscounted :
    Cardinality(SocksOf(i)) = IF conns[i] = NoEntry THEN 0 ELSE conns[i]

\* Nor does a connection then take its address over the limit, unless it wraps
\* the counter: a limit of 255 keeps nobody out (onConnection).
NobodyJoinsOverLimit ==
  [][\A i \in IP \ miscounted' :
       LET now == {s \in socks' : ip'[s] = i} IN
       Cardinality(now) > Cardinality(SocksOf(i)) /\ Cardinality(now) > 1
         => Cardinality(now) <= maxconns /\ i \notin ipblacklist]_vars

\* When the last whitelisted admin disconnects, the lockdown ends.
WhitelistedAdmins == {s \in socks : IsAdmin(s) /\ ip[s] \in ipwhitelist}
LockdownEndsWithAdmins ==
  [][lockdown /\ WhitelistedAdmins # {} /\ WhitelistedAdmins \cap socks' = {}
       => ~lockdown']_vars
=============================================================================
