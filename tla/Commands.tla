------------------------------ MODULE Commands ------------------------------
(***************************************************************************)
(* The players of one world, what they may do and how much they may draw   *)
(* (src/client.cpp, src/commands.cpp, the joins of src/world.cpp): a chat  *)
(* line that begins with a slash is a command, found in the tables of the  *)
(* player's rank and of the ranks below; logins, /pass and other players   *)
(* change ranks, a change of rank changes the quota of pixels, and /doas   *)
(* runs a command as somebody else.                                        *)
(*                                                                         *)
(* Deleting a player closes its socket, which ends the world when it was   *)
(* the last; memory is freed only when the handler is done, so commands    *)
(* that delete a player are single steps too.  Commands that change only   *)
(* what Server keeps are actions there.  Chat, nicknames, mutes and        *)
(* answers are left out.                                                   *)
(***************************************************************************)
EXTENDS Limiter, FiniteSets

CONSTANTS
  Player,
  Nobody,
  PaintRates,      \* rates a world may have
  UserPer, ModPer, \* seconds of the quota of users (4) and moderators (2)
  Artist,          \* bound: the players who draw
  Gifts            \* bound: the quotas that /setpbucket may give

NONE == 0
USER == 1
MODERATOR == 2
ADMIN == 3

ASSUME CommandsAssumption ==
  /\ IsFiniteSet(Player) /\ Nobody \notin Player
  /\ PaintRates \subseteq Rates /\ PaintRates # {} /\ 0 \in Rates
  /\ UserPer \in Pers /\ ModPer \in Pers /\ 1 \in Pers
  /\ Artist \subseteq Player /\ Gifts \subseteq Rates \X Pers

VARIABLES
  clients,      \* World::clients
  rank,         \* Client::rank
  pixupdlimit,  \* Client::pixupdlimit
  defaultRank,  \* World::defaultRank
  locked,       \* World::pass is not empty
  paintrate,    \* World::paintrate
  doer,         \* history: who sent the last message
  source,       \* history: the highest rank that the source of a player's rank can
                \*          give: a password its own, an admin a moderator's
  gifted,       \* history: whose quota was last set by /setpbucket
  excess        \* history: the most that was drawn over a quota in any time since
                \*          the quota was set, less what that time allows

world == <<defaultRank, locked, paintrate>>
vars == <<clients, rank, pixupdlimit, world, doer, source, gifted, excess>>

TypeOK ==
  /\ clients \subseteq Player
  /\ rank \in [Player -> NONE..ADMIN]
  /\ pixupdlimit \in [Player -> Buckets]
  /\ defaultRank \in {NONE, USER}
  /\ locked \in BOOLEAN
  /\ paintrate \in PaintRates
  /\ doer \in Player \cup {Nobody}
  /\ source \in [Player -> USER..ADMIN]
  /\ gifted \subseteq Player
  /\ excess \in [Player -> Nat]

\* reload and the World's constructor read the password and the rate from the
\* properties, where an earlier session may have left any.
ReadProps == locked' \in BOOLEAN /\ paintrate' \in PaintRates

Init ==
  /\ clients = {}
  /\ rank = [p \in Player |-> NONE]
  /\ pixupdlimit = [p \in Player |-> Bucket(0, 1)]
  /\ defaultRank = USER
  /\ locked \in BOOLEAN /\ paintrate \in PaintRates
  /\ doer = Nobody
  /\ source = [p \in Player |-> USER]
  /\ gifted = {}
  /\ excess = [p \in Player |-> 0]

-----------------------------------------------------------------------------
\* Client::set_pbucket on the quota of p, which is b.
set_pbucket(p, b, rate, per) ==
  /\ pixupdlimit' = [pixupdlimit EXCEPT ![p] = set(b, rate, per)]
  /\ excess' = [excess EXCEPT ![p] = 0]

\* Client::promote of p, whose quota is b; the quota of an admin stays.
promote_keeps_quota(p, b, newrank) ==  \* Mutant: no quota for rank NONE.
  /\ rank' = [rank EXCEPT ![p] = newrank]
  /\ \/ newrank = MODERATOR /\ set_pbucket(p, b, paintrate, ModPer)
     \/ newrank = USER /\ set_pbucket(p, b, paintrate, UserPer)
     \/ /\ newrank \in {NONE, ADMIN}
        /\ pixupdlimit' = [pixupdlimit EXCEPT ![p] = b]
        /\ UNCHANGED excess
  /\ gifted' = IF newrank = ADMIN THEN gifted ELSE gifted \ {p}
promote(p, b, newrank) ==
  /\ rank' = [rank EXCEPT ![p] = newrank]
  /\ \/ newrank = MODERATOR /\ set_pbucket(p, b, paintrate, ModPer)
     \/ newrank = USER /\ set_pbucket(p, b, paintrate, UserPer)
     \/ newrank = NONE /\ set_pbucket(p, b, 0, 1)
     \/ /\ newrank = ADMIN
        /\ pixupdlimit' = [pixupdlimit EXCEPT ![p] = b]
        /\ UNCHANGED excess
  /\ gifted' = IF newrank = ADMIN THEN gifted ELSE gifted \ {p}

\* join_world and add_cli: a player of a locked world may not draw yet.
Join(p) ==
  /\ p \notin clients
  /\ clients' = clients \cup {p}
  /\ promote(p, Bucket(0, 1), IF locked THEN NONE ELSE defaultRank)
  /\ doer' = p
  /\ UNCHANGED <<world, source>>

\* safedelete and the disconnection of p; the last player ends the world, and
\* the next one makes it again.  What belonged to p is forgotten.
Gone(p) ==
  /\ clients' = clients \ {p}
  /\ rank' = [rank EXCEPT ![p] = NONE]
  /\ pixupdlimit' = [pixupdlimit EXCEPT ![p] = Bucket(0, 1)]
  /\ IF clients = {p} THEN defaultRank' = USER /\ ReadProps ELSE UNCHANGED world
  /\ source' = [source EXCEPT ![p] = USER]
  /\ gifted' = gifted \ {p}
  /\ excess' = [excess EXCEPT ![p] = 0]

\* The player leaves, or is deleted for a message that claims too high a rank, or
\* for a chat line too many (warn).
Leave(p) == p \in clients /\ Gone(p) /\ doer' = p

\* put_px: an admin spends nothing.
PutPx(p) ==
  /\ p \in clients \cap Artist /\ rank[p] # ADMIN
  /\ pixupdlimit' = [pixupdlimit EXCEPT ![p] = AfterSpend(@, 1)]
  /\ excess' = IF CanSpend(pixupdlimit[p], 1) THEN [excess EXCEPT ![p] = @ + Den]
                                              ELSE excess
  /\ doer' = p
  /\ UNCHANGED <<clients, rank, world, source, gifted>>

Second ==
  /\ pixupdlimit' = [p \in Player |-> Later(pixupdlimit[p])]
  /\ excess' = [p \in Player |->
                  LET s == PerSecond(pixupdlimit[p])
                  IN IF excess[p] > s THEN excess[p] - s ELSE 0]
  /\ UNCHANGED <<clients, rank, world, doer, source, gifted>>

-----------------------------------------------------------------------------
\* The tables of commands, as far as they are modelled.
usrcmds == {"pass", "modlogin", "adminlogin"}
modcmds == {"kick"}
admincmds == {"setrank", "restrict", "reload", "setpbucket", "doas"}

\* exec falls through from rank to rank; logins and /pass are for everyone.
Finds(p, cmd) ==
  \/ rank[p] = ADMIN /\ cmd \in admincmds
  \/ rank[p] \in {MODERATOR, ADMIN} /\ cmd \in modcmds
  \/ rank[p] \in {USER, MODERATOR, ADMIN} /\ cmd \in usrcmds
  \/ cmd \in {"modlogin", "adminlogin", "pass"}

\* cl runs cmd, because t typed it, or typed /doas cl cmd.
Exec(t, cl, cmd) ==
  /\ t \in clients /\ cl \in clients
  /\ t = cl \/ Finds(t, "doas")
  /\ Finds(cl, cmd)
  /\ doer' = t

\* The right password gives the default rank, a wrong one deletes the player;
\* no password is right in a world that has none.
pass(t, cl) ==
  /\ Exec(t, cl, "pass")
  /\ \/ /\ locked
        /\ promote(cl, pixupdlimit[cl], defaultRank)
        /\ source' = [source EXCEPT ![cl] = USER]
        /\ UNCHANGED <<clients, world>>
     \/ Gone(cl)

modlogin(t, cl) ==
  /\ Exec(t, cl, "modlogin")
  /\ rank[cl] # MODERATOR
  /\ promote(cl, pixupdlimit[cl], MODERATOR)
  /\ source' = [source EXCEPT ![cl] = MODERATOR]
  /\ UNCHANGED <<clients, world>>

adminlogin(t, cl) ==
  /\ Exec(t, cl, "adminlogin")
  /\ promote(cl, pixupdlimit[cl], ADMIN)
  /\ source' = [source EXCEPT ![cl] = ADMIN]
  /\ UNCHANGED <<clients, world>>

MaySetRank_equal(cl, target, r) ==  \* Mutant: to the own rank.
  rank[target] < rank[cl] /\ r <= rank[cl]
MaySetRank(cl, target, r) == rank[target] < rank[cl] /\ r < rank[cl]

setrank(t, cl, target, r) ==
  /\ Exec(t, cl, "setrank")
  /\ target \in clients /\ MaySetRank(cl, target, r)
  /\ promote(target, pixupdlimit[target], r)
  /\ source' = [source EXCEPT ![target] = IF rank[cl] = ADMIN THEN MODERATOR ELSE USER]
  /\ UNCHANGED <<clients, world>>

MayKick_equal(cl, target) == rank[target] <= rank[cl]  \* Mutant: of the own rank.
MayKick(cl, target) == rank[target] < rank[cl]

kick(t, cl, target) ==
  /\ Exec(t, cl, "kick")
  /\ target \in clients /\ MayKick(cl, target)
  /\ Gone(target)

restrict(t, cl, state) ==
  /\ Exec(t, cl, "restrict")
  /\ defaultRank' = IF state THEN NONE ELSE USER
  /\ UNCHANGED <<clients, rank, pixupdlimit, locked, paintrate, source,
                 gifted, excess>>

reload(t, cl) ==
  /\ Exec(t, cl, "reload")
  /\ ReadProps
  /\ UNCHANGED <<clients, rank, pixupdlimit, defaultRank, source, gifted,
                 excess>>

setpbucket(t, cl, target, rate, per) ==
  /\ Exec(t, cl, "setpbucket")
  /\ target \in clients
  /\ set_pbucket(target, pixupdlimit[target], rate, per)
  /\ gifted' = gifted \cup {target}
  /\ UNCHANGED <<clients, rank, world, source>>

OwnCommands(t, cl) == pass(t, cl) \/ modlogin(t, cl) \/ adminlogin(t, cl)

Moderation(t, cl, target) ==
  \/ kick(t, cl, target)
  \/ \E r \in NONE..ADMIN : setrank(t, cl, target, r)
  \/ \E gift \in Gifts : setpbucket(t, cl, target, gift[1], gift[2])

WorldCommands(t, cl) == reload(t, cl) \/ \E state \in BOOLEAN : restrict(t, cl, state)

Next ==
  \/ Second
  \/ \E p \in Player : Join(p) \/ Leave(p) \/ PutPx(p)
  \/ \E t, cl \in Player :
       \/ OwnCommands(t, cl)
       \/ WorldCommands(t, cl)
       \/ \E target \in Player : Moderation(t, cl, target)

Spec == Init /\ [][Next]_vars

-----------------------------------------------------------------------------
\* All power comes from a password: nobody is an admin for whom the password of
\* admins was not given, and nobody a moderator who neither gave one nor was
\* appointed by an admin, whatever is typed through /doas.
PowerComesFromPasswords ==
  \A p \in clients : rank[p] <= source[p]

\* Whoever is removed or loses rank did it, or somebody above did, or an admin
\* through /doas.
NobodyIsOverruled ==
  [][\A p \in clients :
       (p \notin clients' \/ rank'[p] < rank[p])
         => doer' = p \/ rank[doer'] > rank[p] \/ rank[doer'] = ADMIN]_vars

\* The quota follows the rank through joins, logins, passwords and appointments:
\* unless /setpbucket gave it one, a player without rank has nothing to spend and
\* nothing saved from before, and the others have the pace of their rank.
QuotaFitsRank ==
  \A p \in clients \ gifted :
    LET b == pixupdlimit[p] IN
    /\ rank[p] = NONE => b.rate = 0 /\ b.allowance = 0
    /\ rank[p] = USER => b.rate \in PaintRates /\ b.per = UserPer
    /\ rank[p] = MODERATOR => b.rate \in PaintRates /\ b.per = ModPer

\* While a quota is not changed, no time sees more pixels than the rate and what
\* that time adds, however often spending was tried and refused.
SpendingIsBounded ==
  \A p \in clients : excess[p] <= pixupdlimit[p].rate * Den
=============================================================================
