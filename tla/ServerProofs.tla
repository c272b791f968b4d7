---------------------------- MODULE ServerProofs ----------------------------
(***************************************************************************)
(* Proofs about Server, for any sockets, addresses, worlds and limits.     *)
(***************************************************************************)
EXTENDS Server, FiniteSetTheorems, TLAPS

USE DEF NoEntry, RankNone, User, Moderator, Admin, Allow, KickFast, BanFast, AskCaptcha

-----------------------------------------------------------------------------
(* The counters. *)

Count == NoEntry..(CountMod - 1)

\* A counter only gets values it can have, and is not left at 0 by less than
\* CountMod disconnections.
LEMMA DecByType ==
  ASSUME NEW v \in Count, NEW n \in Nat
  PROVE  /\ DecBy(v, n) \in Count
         /\ n # 0 => DecBy(v, n) # 0
BY ServerAssumption DEF DecBy, Count

LEMMA IncType ==
  ASSUME NEW v \in Count
  PROVE  Inc(v) \in 0..(CountMod - 1) /\ Inc(v) \in Count
<1>1. CASE v = NoEntry
  BY <1>1, ServerAssumption DEF Inc, Count
<1>2. CASE v = CountMod - 1
  <2>1. (v + 1) % CountMod = 0
    BY <1>2, ServerAssumption DEF Count
  <2>2. QED
    BY <1>2, <2>1, ServerAssumption DEF Inc, Count
<1>3. CASE v \in 0..(CountMod - 2)
  <2>1. (v + 1) % CountMod = v + 1
    BY <1>3, ServerAssumption
  <2>2. QED
    BY <1>3, <2>1, ServerAssumption DEF Inc, Count
<1>4. QED
  BY <1>1, <1>2, <1>3, ServerAssumption DEF Count

\* The values of an incremented counter, one by one.
LEMMA IncValue ==
  ASSUME NEW v \in Count
  PROVE  /\ v = NoEntry => Inc(v) = 1
         /\ v = CountMod - 1 => Inc(v) = 0
         /\ v \in 0..(CountMod - 2) => Inc(v) = v + 1
<1>1. CASE v = NoEntry
  BY <1>1, ServerAssumption DEF Inc, Count
<1>2. CASE v = CountMod - 1
  <2>1. (v + 1) % CountMod = 0
    BY <1>2, ServerAssumption DEF Count
  <2>2. QED
    BY <1>2, <2>1, ServerAssumption DEF Inc, Count
<1>3. CASE v \in 0..(CountMod - 2)
  <2>1. (v + 1) % CountMod = v + 1
    BY <1>3, ServerAssumption
  <2>2. QED
    BY <1>3, <2>1, ServerAssumption DEF Inc, Count
<1>4. QED
  BY <1>1, <1>2, <1>3, ServerAssumption DEF Count

\* Sets of sockets are finite.
LEMMA SocksFinite ==
  ASSUME NEW K, K \subseteq Sock
  PROVE  IsFiniteSet(K) /\ Cardinality(K) \in Nat
BY ServerAssumption, FS_Subset, FS_CardinalityType

-----------------------------------------------------------------------------
(* Type correctness. *)

SockTypes ==
  /\ socks \subseteq Sock
  /\ ip \in [Sock -> IP \cup {None}]
  /\ captcha \in [Sock -> {"waiting", "ok"}]
  /\ world \in [Sock -> Name \cup {None}]
  /\ rank \in [Sock -> RankNone..Admin]
  /\ worlds \subseteq Name
  /\ clients \in [Name -> SUBSET Sock]

CountTypes == conns \in [IP -> Count] /\ miscounted \subseteq IP

ListTypes == ipban \subseteq IP /\ ipwhitelist \subseteq IP /\ ipblacklist \subseteq IP

FlagTypes ==
  /\ maxconns \in Limits \cup {CountMod}
  /\ captcha_required \in BOOLEAN /\ trusting_captcha \in BOOLEAN
  /\ fastconnectaction \in Allow..AskCaptcha

LEMMA TypeParts ==
  TypeOK <=> SockTypes /\ CountTypes /\ ListTypes /\ lockdown \in BOOLEAN /\ FlagTypes
BY DEF TypeOK, SockTypes, CountTypes, ListTypes, FlagTypes, Count

LEMMA TypeNext ==
  SockTypes' /\ CountTypes' /\ ListTypes' /\ lockdown' \in BOOLEAN /\ FlagTypes' => TypeOK'
BY DEF TypeOK, SockTypes, CountTypes, ListTypes, FlagTypes, Count

\* Every open socket has an address.
Addressed == \A s \in socks : ip[s] \in IP

\* What is left alone keeps its type.
LEMMA Untouched ==
  ASSUME TypeOK
  PROVE  /\ UNCHANGED sockVars => SockTypes'
         /\ UNCHANGED <<conns, miscounted>> => CountTypes'
         /\ UNCHANGED listVars => ListTypes'
         /\ UNCHANGED lockdown => lockdown' \in BOOLEAN
         /\ UNCHANGED flagVars => FlagTypes'
BY TypeParts DEF SockTypes, CountTypes, ListTypes, FlagTypes, sockVars, listVars, flagVars

LEMMA DisconnectType ==
  ASSUME TypeOK, NEW K, Disconnect(K)
  PROVE  SockTypes' /\ miscounted' \subseteq IP
BY TypeParts DEF SockTypes, CountTypes, Disconnect, StillLoaded

LEMMA UncountType ==
  ASSUME TypeOK, NEW K \in SUBSET Sock, Uncount(K)
  PROVE  conns' \in [IP -> Count]
<1>1. ASSUME NEW i \in IP
      PROVE  DecBy(conns[i], Cardinality(K \cap SocksOf(i))) \in Count
  <2>1. Cardinality(K \cap SocksOf(i)) \in Nat
    BY SocksFinite
  <2>2. conns[i] \in Count
    BY TypeParts DEF CountTypes
  <2>3. QED
    BY <2>1, <2>2, DecByType
<1>2. QED
  BY <1>1 DEF Uncount

LEMMA CloseType ==
  ASSUME TypeOK, NEW s \in Sock, Close(s)
  PROVE  TypeOK'
<1>1. SockTypes' /\ miscounted' \subseteq IP
  BY DisconnectType DEF Close
<1>2. conns' \in [IP -> Count]
  BY UncountType DEF Close
<1>3. ListTypes' /\ FlagTypes'
  BY Untouched DEF Close
<1>4. lockdown' \in BOOLEAN
  BY DEF Close, TypeOK
<1>5. CountTypes'
  BY <1>1, <1>2 DEF CountTypes
<1>6. QED
  BY <1>1, <1>3, <1>4, <1>5, TypeNext

LEMMA CloseAllType ==
  ASSUME TypeOK, NEW K \in SUBSET Sock, CloseAll(K)
  PROVE  SockTypes' /\ CountTypes' /\ ListTypes' /\ lockdown' \in BOOLEAN
<1>1. SockTypes' /\ miscounted' \subseteq IP
  BY DisconnectType DEF CloseAll
<1>2. conns' \in [IP -> Count]
  BY UncountType DEF CloseAll
<1>3. ListTypes' /\ lockdown' \in BOOLEAN
  BY Untouched DEF CloseAll
<1>4. QED
  BY <1>1, <1>2, <1>3 DEF CountTypes

LEMMA KickIpType ==
  ASSUME TypeOK, NEW i \in IP, KickIp(i)
  PROVE  SockTypes' /\ CountTypes' /\ lockdown' \in BOOLEAN
<1>1. CASE SocksOf(i) = {}
  BY <1>1, Untouched DEF KickIp
<1>2. CASE SocksOf(i) # {}
  <2>1. Disconnect(SocksOf(i)) /\ conns' = [conns EXCEPT ![i] = NoEntry]
    BY <1>2 DEF KickIp
  <2>2. lockdown' \in BOOLEAN
    BY <1>2, TypeParts DEF KickIp
  <2>3. conns' \in [IP -> Count]
    BY <2>1, TypeParts, ServerAssumption DEF CountTypes, Count
  <2>4. QED
    BY <2>1, <2>2, <2>3, DisconnectType DEF CountTypes
<1>3. QED
  BY <1>1, <1>2
LEMMA InitTypeOK == Init => TypeOK
<1> SUFFICES ASSUME Init
             PROVE  TypeOK
  OBVIOUS
<1>1. SockTypes
  BY DEF Init, SockTypes
<1>2. CountTypes
  BY ServerAssumption DEF Init, CountTypes, Count
<1>3. ListTypes
  <2>1. ipban \subseteq IP
    BY DEF Init
  <2>2. ipwhitelist \subseteq IP
    BY DEF Init
  <2>3. ipblacklist \subseteq IP
    BY DEF Init
  <2>4. QED
    BY <2>1, <2>2, <2>3 DEF ListTypes
<1>4. lockdown \in BOOLEAN
  BY DEF Init
<1>5. maxconns \in Limits \cup {CountMod} /\ fastconnectaction \in Allow..AskCaptcha
  BY DEF Init
<1>6. captcha_required \in BOOLEAN /\ trusting_captcha \in BOOLEAN
  BY DEF Init
<1>7. QED
  BY <1>1, <1>2, <1>3, <1>4, <1>5, <1>6, TypeParts DEF FlagTypes

LEMMA ConnectionsType ==
  ASSUME TypeOK, Connections
  PROVE  TypeOK'
<1> USE DEF CountTypes
<1>1. PICK i \in IP : \/ ConnectRefused(i) \/ ConnectOverLimit(i) \/ ConnectTooFast(i)
                      \/ \E s \in Sock, fast \in BOOLEAN : Connect(s, i, fast)
  BY DEF Connections
<1>2. conns \in [IP -> Count] /\ conns[i] \in Count /\ miscounted \subseteq IP
  BY TypeParts
<1>3. DecBy(conns[i], 1) \in Count /\ Inc(conns[i]) \in Count
      /\ DecBy(Inc(conns[i]), 1) \in Count
  BY <1>2, DecByType, IncType
<1>4. CASE ConnectRefused(i)
  <2>1. CountTypes'
    BY <1>2, <1>3, <1>4 DEF ConnectRefused
  <2>2. SockTypes' /\ ListTypes' /\ lockdown' \in BOOLEAN /\ FlagTypes'
    BY <1>4, Untouched DEF ConnectRefused
  <2>3. QED
    BY <2>1, <2>2, TypeNext
<1>5. CASE ConnectOverLimit(i)
  <2>1. CountTypes'
    BY <1>2, <1>3, <1>5 DEF ConnectOverLimit, CountAndUncount
  <2>2. SockTypes' /\ ListTypes' /\ lockdown' \in BOOLEAN /\ FlagTypes'
    BY <1>5, Untouched DEF ConnectOverLimit
  <2>3. QED
    BY <2>1, <2>2, TypeNext
<1>6. CASE ConnectTooFast(i)
  <2>1. CountTypes'
    BY <1>2, <1>3, <1>6 DEF ConnectTooFast, CountAndUncount
  <2>2. ListTypes'
    BY <1>6, TypeParts DEF ConnectTooFast, ListTypes
  <2>3. SockTypes' /\ lockdown' \in BOOLEAN /\ FlagTypes'
    BY <1>6, Untouched DEF ConnectTooFast
  <2>4. QED
    BY <2>1, <2>2, <2>3, TypeNext
<1>7. ASSUME NEW s \in Sock, NEW fast \in BOOLEAN, Connect(s, i, fast)
      PROVE  TypeOK'
  <2>1. CountTypes'
    BY <1>2, <1>3, <1>7 DEF Connect
  <2>2. captcha' \in [Sock -> {"waiting", "ok"}]
    BY <1>7, TypeParts DEF Connect, SockTypes, CaptchaFor
  <2>3. SockTypes'
    BY <1>7, <2>2, TypeParts DEF Connect, SockTypes
  <2>4. ListTypes' /\ lockdown' \in BOOLEAN /\ FlagTypes'
    BY <1>7, Untouched DEF Connect
  <2>5. QED
    BY <2>1, <2>3, <2>4, TypeNext
<1>8. QED
  BY <1>1, <1>4, <1>5, <1>6, <1>7

\* A step that only changes the rank of a socket, to a rank.
LEMMA SetRankType ==
  ASSUME TypeOK, NEW s \in Sock, NEW r \in RankNone..Admin, SetRank(s, r)
  PROVE  TypeOK'
<1>1. SockTypes'
  BY TypeParts DEF SetRank, SockTypes
<1>2. CountTypes' /\ ListTypes' /\ lockdown' \in BOOLEAN /\ FlagTypes'
  BY Untouched DEF SetRank
<1>3. QED
  BY <1>1, <1>2, TypeNext

LEMMA PlayersType ==
  ASSUME TypeOK, Players
  PROVE  TypeOK'
<1>1. PICK s \in Sock : \/ Close(s)
                        \/ \E w \in Name, r \in RankNone..User : Join(s, w, r)
                        \/ modlogin(s) \/ adminlogin(s)
                        \/ \E r \in RankNone..User : pass(s, r)
                        \/ \E t \in Sock : kick(s, t)
  BY DEF Players
<1>2. CASE Close(s)
  BY <1>2, CloseType
<1>3. ASSUME NEW w \in Name, NEW r \in RankNone..User, Join(s, w, r)
      PROVE  TypeOK'
  <2>1. SockTypes'
    BY <1>3, TypeParts DEF Join, SockTypes
  <2>2. CountTypes' /\ ListTypes' /\ lockdown' \in BOOLEAN /\ FlagTypes'
    BY <1>3, Untouched DEF Join
  <2>3. QED
    BY <2>1, <2>2, TypeNext
<1>4. CASE modlogin(s)
  BY <1>4, SetRankType DEF modlogin
<1>5. CASE adminlogin(s)
  BY <1>5, SetRankType DEF adminlogin
<1>6. ASSUME NEW r \in RankNone..User, pass(s, r)
      PROVE  TypeOK'
  BY <1>6, SetRankType DEF pass
<1>7. ASSUME NEW t \in Sock, kick(s, t)
      PROVE  TypeOK'
  BY <1>7, CloseType DEF kick
<1>8. QED
  BY <1>1, <1>2, <1>3, <1>4, <1>5, <1>6, <1>7

LEMMA AdminsType ==
  ASSUME TypeOK, Addressed, Admins
  PROVE  TypeOK'
<1>1. PICK s \in Sock : \/ \E t \in Sock, r \in RankNone..Moderator : setrank(s, t, r)
                        \/ kickallWorld(s) \/ kickallServer(s)
                        \/ \E limit \in Limits : set_max_ip_conns(s, limit)
                        \/ \E i \in IP : kickip(s, i) \/ banip(s, i)
                        \/ bans(s) \/ whitelist(s) \/ blacklist(s) \/ lock(s)
                        \/ \E state \in BOOLEAN : set_lockdown(s, state)
  BY DEF Admins
<1>2. socks \subseteq Sock
  BY TypeParts DEF SockTypes
<1>3. ASSUME NEW t \in Sock, NEW r \in RankNone..Moderator, setrank(s, t, r)
      PROVE  TypeOK'
  BY <1>3, SetRankType DEF setrank
<1>4. CASE kickallWorld(s)
  <2>1. FlagTypes'
    BY <1>4, Untouched DEF kickallWorld
  <2>2. QED
    BY <1>2, <1>4, <2>1, CloseAllType, TypeNext DEF kickallWorld
<1>5. CASE kickallServer(s)
  <2>1. FlagTypes'
    BY <1>5, Untouched DEF kickallServer
  <2>2. QED
    BY <1>2, <1>5, <2>1, CloseAllType, TypeNext DEF kickallServer
<1>6. ASSUME NEW limit \in Limits, set_max_ip_conns(s, limit)
      PROVE  TypeOK'
  <2>1. PICK K \in SUBSET {t \in socks : ~IsAdmin(t)} : CloseAll(K)
    BY <1>6 DEF set_max_ip_conns
  <2>2. K \in SUBSET Sock
    BY <1>2
  <2>3. SockTypes' /\ CountTypes' /\ ListTypes' /\ lockdown' \in BOOLEAN
    BY <2>1, <2>2, CloseAllType
  <2>4. FlagTypes'
    BY <1>6, TypeParts DEF set_max_ip_conns, FlagTypes
  <2>5. QED
    BY <2>3, <2>4, TypeNext
<1>7. ASSUME NEW i \in IP, kickip(s, i)
      PROVE  TypeOK'
  <2>1. SockTypes' /\ CountTypes' /\ lockdown' \in BOOLEAN
    BY <1>7, KickIpType DEF kickip
  <2>2. ListTypes' /\ FlagTypes'
    BY <1>7, Untouched DEF kickip
  <2>3. QED
    BY <2>1, <2>2, TypeNext
<1>8. ASSUME NEW i \in IP, banip(s, i)
      PROVE  TypeOK'
  <2>1. SockTypes' /\ CountTypes' /\ lockdown' \in BOOLEAN
    <3>1. CASE KickIp(i)
      BY <3>1, KickIpType
    <3>2. CASE UNCHANGED <<sockVars, conns, miscounted, lockdown>>
      BY <3>2, Untouched
    <3>3. QED
      BY <1>8, <3>1, <3>2 DEF banip
  <2>2. ListTypes'
    BY <1>8, TypeParts DEF banip, ListTypes
  <2>3. FlagTypes'
    BY <1>8, Untouched DEF banip
  <2>4. QED
    BY <2>1, <2>2, <2>3, TypeNext
<1>9. CASE bans(s) \/ whitelist(s) \/ blacklist(s)
  <2>1. ListTypes'
    BY <1>9, TypeParts DEF bans, whitelist, blacklist, Edited, ListTypes
  <2>2. QED
    BY <1>9, <2>1, Untouched, TypeNext DEF bans, whitelist, blacklist
<1>10. CASE lock(s)
  <2>1. FlagTypes'
    BY <1>10, TypeParts DEF lock, FlagTypes
  <2>2. QED
    BY <1>10, <2>1, Untouched, TypeNext DEF lock
<1>11. ASSUME NEW state \in BOOLEAN, set_lockdown(s, state)
       PROVE  TypeOK'
  <2>1. \A t \in socks : ip[t] \in IP
    BY DEF Addressed
  <2>2. ListTypes'
    BY <1>11, <2>1, TypeParts DEF set_lockdown, ListTypes
  <2>3. SockTypes' /\ CountTypes' /\ FlagTypes'
    BY <1>11, Untouched DEF set_lockdown
  <2>4. lockdown' \in BOOLEAN
    BY <1>11 DEF set_lockdown
  <2>5. QED
    BY <2>2, <2>3, <2>4, TypeNext
<1>12. QED
  BY <1>1, <1>3, <1>4, <1>5, <1>6, <1>7, <1>8, <1>9, <1>10, <1>11
-----------------------------------------------------------------------------
(* What a step does to sockets and counters. *)

\* /kickip and /banip close all sockets of an address and erase its counter.
Forget(K) ==
  \E i \in IP : K = SocksOf(i) /\ K # {} /\ conns' = [conns EXCEPT ![i] = NoEntry]

Closing == \E K \in SUBSET socks : Disconnect(K) /\ (Uncount(K) \/ Forget(K))

TurnedAway ==
  \E i \in IP : CountAndUncount(i) /\ UNCHANGED <<sockVars, miscounted>>

LEMMA KickIpCloses ==
  ASSUME NEW i \in IP, KickIp(i)
  PROVE  Closing \/ UNCHANGED <<sockVars, conns, miscounted>>
<1>1. CASE SocksOf(i) # {}
  <2>1. Disconnect(SocksOf(i)) /\ Forget(SocksOf(i))
    BY <1>1 DEF KickIp, Forget
  <2>2. SocksOf(i) \in SUBSET socks
    BY DEF SocksOf
  <2>3. QED
    BY <2>1, <2>2 DEF Closing
<1>2. QED
  BY <1>1 DEF KickIp

LEMMA StepKinds ==
  ASSUME [Next]_vars
  PROVE  \/ Closing
         \/ \E i \in IP : ConnectRefused(i)
         \/ TurnedAway
         \/ \E i \in IP, s \in Sock, fast \in BOOLEAN : Connect(s, i, fast)
         \/ \E s \in Sock, w \in Name, r \in RankNone..User : Join(s, w, r)
         \/ \E s \in Sock, r \in RankNone..Admin : SetRank(s, r)
         \/ UNCHANGED <<sockVars, conns, miscounted>>
<1>1. CASE Connections
  BY <1>1 DEF Connections, ConnectOverLimit, ConnectTooFast, TurnedAway
<1>2. ASSUME NEW s \in socks, Close(s)
      PROVE  Closing
  <2>1. {s} \in SUBSET socks /\ Disconnect({s}) /\ Uncount({s})
    BY <1>2 DEF Close
  <2>2. QED
    BY <2>1 DEF Closing
<1>3. ASSUME NEW K \in SUBSET socks, CloseAll(K)
      PROVE  Closing
  BY <1>3 DEF CloseAll, Closing
<1>4. CASE Players
  <2>1. PICK s \in Sock : \/ Close(s)
                          \/ \E w \in Name, r \in RankNone..User : Join(s, w, r)
                          \/ modlogin(s) \/ adminlogin(s)
                          \/ \E r \in RankNone..User : pass(s, r)
                          \/ \E t \in Sock : kick(s, t)
    BY <1>4 DEF Players
  <2>2. CASE Close(s)
    <3>1. s \in socks
      BY <2>2 DEF Close
    <3>2. QED
      BY <1>2, <2>2, <3>1
  <2>3. CASE modlogin(s) \/ adminlogin(s) \/ \E r \in RankNone..User : pass(s, r)
    BY <2>3 DEF modlogin, adminlogin, pass
  <2>4. ASSUME NEW t \in Sock, kick(s, t)
        PROVE  Closing
    <3>1. t \in socks /\ Close(t)
      BY <2>4 DEF kick, InWorld
    <3>2. QED
      BY <1>2, <3>1
  <2>5. QED
    BY <2>1, <2>2, <2>3, <2>4
<1>5. CASE Admins
  <2>1. PICK s \in Sock : \/ \E t \in Sock, r \in RankNone..Moderator : setrank(s, t, r)
                          \/ kickallWorld(s) \/ kickallServer(s)
                          \/ \E limit \in Limits : set_max_ip_conns(s, limit)
                          \/ \E i \in IP : kickip(s, i) \/ banip(s, i)
                          \/ bans(s) \/ whitelist(s) \/ blacklist(s) \/ lock(s)
                          \/ \E state \in BOOLEAN : set_lockdown(s, state)
    BY <1>5 DEF Admins
  <2>2. ASSUME NEW t \in Sock, NEW r \in RankNone..Moderator, setrank(s, t, r)
        PROVE  r \in RankNone..Admin /\ SetRank(t, r)
    BY <2>2 DEF setrank
  <2>3. CASE kickallWorld(s) \/ kickallServer(s)
    BY <1>3, <2>3 DEF kickallWorld, kickallServer
  <2>4. ASSUME NEW limit \in Limits, set_max_ip_conns(s, limit)
        PROVE  Closing
    <3>1. PICK K \in SUBSET {t \in socks : ~IsAdmin(t)} : CloseAll(K)
      BY <2>4 DEF set_max_ip_conns
    <3>2. K \in SUBSET socks
      OBVIOUS
    <3>3. QED
      BY <1>3, <3>1, <3>2
  <2>5. ASSUME NEW i \in IP, kickip(s, i) \/ banip(s, i)
        PROVE  Closing \/ UNCHANGED <<sockVars, conns, miscounted>>
    BY <2>5, KickIpCloses DEF kickip, banip
  <2>6. CASE \/ bans(s) \/ whitelist(s) \/ blacklist(s) \/ lock(s)
            \/ \E state \in BOOLEAN : set_lockdown(s, state)
    BY <2>6 DEF bans, whitelist, blacklist, lock, set_lockdown
  <2>7. QED
    BY <2>1, <2>2, <2>3, <2>4, <2>5, <2>6
<1>6. CASE UNCHANGED vars
  BY <1>6 DEF vars
<1>7. QED
  BY <1>1, <1>4, <1>5, <1>6 DEF Next
-----------------------------------------------------------------------------
(* Sockets, players and worlds. *)

IInv == TypeOK /\ Addressed /\ WorldsAreOccupied

LEMMA ClosingOccupied ==
  ASSUME IInv, NEW K \in SUBSET socks, Disconnect(K)
  PROVE  Addressed' /\ WorldsAreOccupied'
<1> USE DEF Disconnect
<1>1. SockTypes /\ WorldsAreOccupied
  BY TypeParts DEF IInv
<1>2. Addressed'
  BY <1>1 DEF IInv, Addressed, SockTypes
<1>4. \A s \in Sock, w \in Name : s \in clients'[w] <=> world'[s] = w
  BY <1>1, ServerAssumption DEF WorldsAreOccupied, SockTypes
<1>5. \A s \in Sock \ socks' : world'[s] = None /\ ip'[s] = None
  BY <1>1 DEF WorldsAreOccupied, SockTypes
<1>6. worlds' = {w \in Name : clients'[w] # {}}
  <2>1. ASSUME NEW w \in Name
        PROVE  w \in worlds' <=> clients[w] \ K # {}
    <3>1. \A s \in K : s \in clients[w] <=> world[s] = w
      BY <1>1 DEF WorldsAreOccupied, SockTypes
    <3>2. w \in worlds <=> clients[w] # {}
      BY <1>1 DEF WorldsAreOccupied
    <3>3. QED
      BY <3>1, <3>2 DEF StillLoaded
  <2>2. worlds' \subseteq Name
    BY <1>1 DEF StillLoaded, SockTypes
  <2>3. QED
    BY <2>1, <2>2
<1>7. QED
  BY <1>2, <1>4, <1>5, <1>6 DEF WorldsAreOccupied

LEMMA NextIInv == IInv /\ [Next]_vars => IInv'
<1> SUFFICES ASSUME IInv, [Next]_vars
             PROVE  IInv'
  OBVIOUS
<1>1. TypeOK /\ SockTypes /\ Addressed /\ WorldsAreOccupied
  BY TypeParts DEF IInv
<1>2. TypeOK'
  <2>1. CASE UNCHANGED vars
    <3>1. UNCHANGED <<sockVars, conns, miscounted, listVars, lockdown, flagVars>>
      BY <2>1 DEF vars
    <3>2. QED
      BY <1>1, <3>1, Untouched, TypeNext
  <2>2. QED
    BY <1>1, <2>1, ConnectionsType, PlayersType, AdminsType DEF Next
<1>3. Addressed' /\ WorldsAreOccupied'
  <2>1. CASE Closing
    BY <2>1, ClosingOccupied DEF Closing
  <2>2. CASE UNCHANGED sockVars
    BY <1>1, <2>2 DEF sockVars, Addressed, WorldsAreOccupied
  <2>3. ASSUME NEW i \in IP, NEW s \in Sock, NEW fast \in BOOLEAN, Connect(s, i, fast)
        PROVE  Addressed' /\ WorldsAreOccupied'
    <3>1. Addressed'
      BY <1>1, <2>3 DEF Connect, Addressed, SockTypes
    <3>2. WorldsAreOccupied'
      BY <1>1, <2>3 DEF Connect, WorldsAreOccupied, SockTypes
    <3>3. QED
      BY <3>1, <3>2
  <2>4. ASSUME NEW s \in Sock, NEW w \in Name, NEW r, Join(s, w, r)
        PROVE  Addressed' /\ WorldsAreOccupied'
    <3>1. Addressed'
      BY <1>1, <2>4 DEF Join, Addressed, SockTypes
    <3>3. \A t \in Sock, v \in Name : t \in clients'[v] <=> world'[t] = v
      BY <1>1, <2>4, ServerAssumption DEF Join, MayJoin, WorldsAreOccupied, SockTypes
    <3>4. \A t \in Sock \ socks' : world'[t] = None /\ ip'[t] = None
      BY <1>1, <2>4 DEF Join, MayJoin, WorldsAreOccupied, SockTypes
    <3>5. worlds' = {v \in Name : clients'[v] # {}}
      BY <1>1, <2>4 DEF Join, WorldsAreOccupied, SockTypes
    <3>6. QED
      BY <3>1, <3>3, <3>4, <3>5 DEF WorldsAreOccupied
  <2>5. ASSUME NEW s \in Sock, NEW r, SetRank(s, r)
        PROVE  Addressed' /\ WorldsAreOccupied'
    BY <1>1, <2>5 DEF SetRank, Addressed, WorldsAreOccupied
  <2>6. QED
    BY <2>1, <2>2, <2>3, <2>4, <2>5, StepKinds DEF TurnedAway, ConnectRefused
<1>4. QED
  BY <1>2, <1>3 DEF IInv

LEMMA Inductive == Spec => []IInv
<1>1. Init => IInv
  <2>1. Init => Addressed /\ WorldsAreOccupied
    BY ServerAssumption DEF Init, Addressed, WorldsAreOccupied
  <2>2. QED
    BY <2>1, InitTypeOK DEF IInv
<1>2. QED
  BY <1>1, NextIInv, PTL DEF Spec

\* The variables keep their types: no counter leaves the values of a uint8_t and
\* every listed address is one (onConnection, onDisconnection, set_lockdown).
THEOREM TypeCorrect == Spec => []TypeOK
<1>1. IInv => TypeOK
  BY DEF IInv
<1>2. QED
  BY <1>1, Inductive, PTL

\* The players of the worlds are those the sockets say, and exactly the worlds
\* with players are loaded (join_world, safedelete, onDisconnection).
THEOREM Occupied == Spec => []WorldsAreOccupied
<1>1. IInv => WorldsAreOccupied
  BY DEF IInv
<1>2. QED
  BY <1>1, Inductive, PTL
-----------------------------------------------------------------------------
(* The counters and the connections. *)

\* A value v of a counter never overstates c open connections.
Sound(v, c) == v <= c /\ (v = 0 => c >= CountMod)

\* That is so for every address exactly when no address is overcounted.
LEMMA SoundAll == NeverOvercounts <=> \A i \in IP : Sound(conns[i], Cardinality(SocksOf(i)))
BY DEF NeverOvercounts, Sound

\* Sound values stay sound when n of the c connections end, when one is opened,
\* when one is counted and uncounted, and when one is uncounted that was not counted.
LEMMA SoundDec ==
  ASSUME NEW v \in Count, NEW c \in Nat, Sound(v, c), NEW n \in Nat, n <= c
  PROVE  Sound(DecBy(v, n), c - n)
BY ServerAssumption DEF Sound, DecBy, Count

LEMMA SoundForget ==
  ASSUME NEW c \in Nat
  PROVE  Sound(NoEntry, c)
BY DEF Sound

LEMMA SoundInc ==
  ASSUME NEW v \in Count, NEW c \in Nat, Sound(v, c)
  PROVE  Sound(Inc(v), c + 1)
<1>1. v \in {NoEntry, CountMod - 1} \/ v \in 0..(CountMod - 2)
  BY ServerAssumption DEF Count
<1>2. QED
  BY <1>1, IncValue, ServerAssumption DEF Sound

LEMMA SoundTurned ==
  ASSUME NEW v \in Count, NEW c \in Nat, Sound(v, c)
  PROVE  Sound(DecBy(Inc(v), 1), c)
<1>1. Inc(v) \in Count
  BY IncType
<1>2. Sound(DecBy(Inc(v), 1), c + 1 - 1)
  BY <1>1, SoundInc, SoundDec
<1>3. c + 1 - 1 = c
  OBVIOUS
<1>4. QED
  BY <1>2, <1>3

LEMMA SoundRefused ==
  ASSUME NEW v \in Count, NEW c \in Nat, Sound(v, c)
  PROVE  Sound(DecBy(v, 1), c)
BY ServerAssumption DEF Sound, DecBy, Count

\* The connections of an address after the sockets K are closed.
LEMMA ClosedSocks ==
  ASSUME TypeOK, NEW K \in SUBSET socks, Disconnect(K), NEW i \in IP
  PROVE  /\ SocksOf(i)' = SocksOf(i) \ K
         /\ Cardinality(K \cap SocksOf(i)) \in Nat
         /\ Cardinality(K \cap SocksOf(i)) <= Cardinality(SocksOf(i))
         /\ Cardinality(SocksOf(i))' = Cardinality(SocksOf(i)) - Cardinality(K \cap SocksOf(i))
<1>1. SocksOf(i)' = SocksOf(i) \ K
  BY TypeParts DEF SocksOf, Disconnect, SockTypes
<1>2. IsFiniteSet(SocksOf(i)) /\ Cardinality(SocksOf(i)) \in Nat
  BY SocksFinite, TypeParts DEF SocksOf, SockTypes
<1>3. Cardinality(K \cap SocksOf(i)) \in Nat /\ K \cap SocksOf(i) \subseteq SocksOf(i)
  BY <1>2, FS_Subset, FS_CardinalityType
<1>4. Cardinality(K \cap SocksOf(i)) <= Cardinality(SocksOf(i))
  BY <1>2, <1>3, FS_Subset
<1>5. Cardinality(SocksOf(i) \ K)
        = Cardinality(SocksOf(i)) - Cardinality(SocksOf(i) \cap K)
  BY <1>2, FS_Difference
<1>6. SocksOf(i) \cap K = K \cap SocksOf(i)
  OBVIOUS
<1>7. QED
  BY <1>1, <1>2, <1>3, <1>4, <1>5, <1>6

\* The connections of an address after the socket s is opened for i.
LEMMA OpenedSocks ==
  ASSUME TypeOK, NEW i \in IP, NEW s \in Sock, NEW fast \in BOOLEAN, Connect(s, i, fast)
  PROVE  /\ Cardinality(SocksOf(i))' = Cardinality(SocksOf(i)) + 1
         /\ \A j \in IP \ {i} : SocksOf(j)' = SocksOf(j)
<1>1. SocksOf(i)' = SocksOf(i) \cup {s} /\ s \notin SocksOf(i)
  BY TypeParts DEF SocksOf, Connect, SockTypes
<1>2. IsFiniteSet(SocksOf(i))
  BY SocksFinite, TypeParts DEF SocksOf, SockTypes
<1>3. \A j \in IP \ {i} : SocksOf(j)' = SocksOf(j)
  BY TypeParts DEF SocksOf, Connect, SockTypes
<1>4. QED
  BY <1>1, <1>2, <1>3, FS_AddElement

\* Sockets and counters are what matters to an address.
LEMMA SameSocks ==
  ASSUME socks' = socks, ip' = ip, NEW i
  PROVE  SocksOf(i)' = SocksOf(i)
BY DEF SocksOf

LEMMA NextOvercounts == TypeOK /\ NeverOvercounts /\ [Next]_vars => NeverOvercounts'
<1> SUFFICES ASSUME TypeOK, NeverOvercounts, [Next]_vars, NEW i \in IP
             PROVE  Sound(conns'[i], Cardinality(SocksOf(i)'))
  BY DEF NeverOvercounts, Sound
<1>1. Sound(conns[i], Cardinality(SocksOf(i)))
  BY SoundAll
<1>2. conns \in [IP -> Count] /\ conns[i] \in Count
  BY TypeParts DEF CountTypes
<1>3. Cardinality(SocksOf(i)) \in Nat
  BY SocksFinite, TypeParts DEF SocksOf, SockTypes
<1>4. CASE Closing
  <2>1. PICK K \in SUBSET socks : Disconnect(K) /\ (Uncount(K) \/ Forget(K))
    BY <1>4 DEF Closing
  <2> DEFINE n == Cardinality(K \cap SocksOf(i))
  <2>2. n \in Nat /\ n <= Cardinality(SocksOf(i))
        /\ Cardinality(SocksOf(i)') = Cardinality(SocksOf(i)) - n
    BY <2>1, ClosedSocks
  <2> HIDE DEF n
  <2>3. Sound(DecBy(conns[i], n), Cardinality(SocksOf(i)'))
    BY <1>1, <1>2, <1>3, <2>2, SoundDec
  <2>4. CASE Uncount(K)
    BY <2>3, <2>4 DEF Uncount, n
  <2>5. CASE Forget(K)
    <3>1. PICK j \in IP : K = SocksOf(j) /\ conns' = [conns EXCEPT ![j] = NoEntry]
      BY <2>5 DEF Forget
    <3>2. CASE i = j
      <4>1. conns'[i] = NoEntry
        BY <1>2, <3>1, <3>2
      <4>2. Cardinality(SocksOf(i)') \in Nat
        BY <1>3, <2>2
      <4>3. QED
        BY <4>1, <4>2, SoundForget
    <3>3. CASE i # j
      <4>1. K \cap SocksOf(i) = {}
        BY <3>1, <3>3 DEF SocksOf
      <4>2. n = 0
        BY <4>1, FS_EmptySet DEF n
      <4>3. conns'[i] = DecBy(conns[i], n)
        BY <1>2, <3>1, <3>3, <4>2 DEF DecBy
      <4>4. QED
        BY <2>3, <4>3
    <3>4. QED
      BY <3>2, <3>3
  <2>6. QED
    BY <2>1, <2>4, <2>5
<1>5. ASSUME NEW j \in IP, ConnectRefused(j)
      PROVE  Sound(conns'[i], Cardinality(SocksOf(i)'))
  <2>1. SocksOf(i)' = SocksOf(i)
    BY <1>5, SameSocks DEF ConnectRefused, sockVars
  <2>2. conns'[i] \in {conns[i], DecBy(conns[i], 1)}
    BY <1>2, <1>5 DEF ConnectRefused
  <2>3. QED
    BY <1>1, <1>2, <1>3, <2>1, <2>2, SoundRefused
<1>6. CASE TurnedAway
  <2>1. SocksOf(i)' = SocksOf(i)
    BY <1>6, SameSocks DEF TurnedAway, sockVars
  <2>2. conns'[i] \in {conns[i], DecBy(Inc(conns[i]), 1)}
    BY <1>2, <1>6 DEF TurnedAway, CountAndUncount
  <2>3. QED
    BY <1>1, <1>2, <1>3, <2>1, <2>2, SoundTurned
<1>7. ASSUME NEW j \in IP, NEW s \in Sock, NEW fast \in BOOLEAN, Connect(s, j, fast)
      PROVE  Sound(conns'[i], Cardinality(SocksOf(i)'))
  <2>1. CASE i = j
    <3>1. conns'[i] = Inc(conns[i])
      BY <1>2, <1>7, <2>1 DEF Connect
    <3>2. Cardinality(SocksOf(i)') = Cardinality(SocksOf(i)) + 1
      BY <1>7, <2>1, OpenedSocks
    <3>3. QED
      BY <1>1, <1>2, <1>3, <3>1, <3>2, SoundInc
  <2>2. CASE i # j
    <3>1. conns'[i] = conns[i]
      BY <1>2, <1>7, <2>2 DEF Connect
    <3>2. SocksOf(i)' = SocksOf(i)
      BY <1>7, <2>2, OpenedSocks
    <3>3. QED
      BY <1>1, <3>1, <3>2
  <2>3. QED
    BY <2>1, <2>2
<1>8. CASE UNCHANGED <<socks, ip, conns>>
  BY <1>1, <1>8, SameSocks
<1>9. QED
  BY <1>4, <1>5, <1>6, <1>7, <1>8, StepKinds DEF Join, SetRank, sockVars

\* No address is counted more often than it is connected, so a counter never
\* keeps out an address whose connections are gone (onConnection, kickip).
THEOREM NotOvercounted == Spec => []NeverOvercounts
<1>1. Init => NeverOvercounts
  <2>1. ASSUME Init, NEW i \in IP
        PROVE  conns[i] = NoEntry /\ Cardinality(SocksOf(i)) = 0
    <3>1. SocksOf(i) = {}
      BY <2>1 DEF Init, SocksOf
    <3>2. QED
      BY <2>1, <3>1, FS_EmptySet DEF Init
  <2>2. QED
    BY <2>1 DEF NeverOvercounts
<1>2. QED
  BY <1>1, TypeCorrect, NextOvercounts, PTL DEF Spec
\* The value v of a counter is the number c of connections.
Exact(v, c) == c = IF v = NoEntry THEN 0 ELSE v

LEMMA ExactAll ==
  ConnCountExact <=> \A i \in IP \ miscounted : Exact(conns[i], Cardinality(SocksOf(i)))
BY DEF ConnCountExact, Exact

LEMMA ExactDec ==
  ASSUME NEW v \in Count, NEW c \in Nat, Sound(v, c), Exact(v, c), NEW n \in Nat, n <= c
  PROVE  Exact(DecBy(v, n), c - n)
BY ServerAssumption DEF Sound, Exact, DecBy, Count

LEMMA ExactInc ==
  ASSUME NEW v \in Count, NEW c \in Nat, Exact(v, c), Inc(v) # 0
  PROVE  Exact(Inc(v), c + 1)
<1>1. v \in {NoEntry, CountMod - 1} \/ v \in 0..(CountMod - 2)
  BY ServerAssumption DEF Count
<1>2. QED
  BY <1>1, IncValue, ServerAssumption DEF Exact

LEMMA ExactTurned ==
  ASSUME NEW v \in Count, NEW c \in Nat, Exact(v, c)
  PROVE  Exact(DecBy(Inc(v), 1), c)
<1>1. v \in {NoEntry, CountMod - 1} \/ v \in 0..(CountMod - 2)
  BY ServerAssumption DEF Count
<1>2. QED
  BY <1>1, IncValue, ServerAssumption DEF Exact, DecBy

\* Without a connection a sound value is exact: an address that has left is
\* counted right again.
LEMMA ExactNone ==
  ASSUME NEW v \in Count, Sound(v, 0)
  PROVE  Exact(v, 0)
BY ServerAssumption DEF Sound, Exact, Count

LEMMA NextExact ==
  TypeOK /\ TypeOK' /\ NeverOvercounts /\ NeverOvercounts' /\ ConnCountExact /\ [Next]_vars
    => ConnCountExact'
<1> SUFFICES ASSUME TypeOK, TypeOK', NeverOvercounts, NeverOvercounts', ConnCountExact,
                    [Next]_vars, NEW i \in IP, i \notin miscounted'
             PROVE  Exact(conns'[i], Cardinality(SocksOf(i)'))
  BY DEF ConnCountExact, Exact
<1>1. /\ Sound(conns[i], Cardinality(SocksOf(i)))
      /\ Sound(conns'[i], Cardinality(SocksOf(i)'))
      /\ i \notin miscounted => Exact(conns[i], Cardinality(SocksOf(i)))
  BY SoundAll, ExactAll DEF NeverOvercounts, Sound
<1>2. conns \in [IP -> Count] /\ conns[i] \in Count /\ conns'[i] \in Count
  BY DEF TypeOK, Count
<1>3. Cardinality(SocksOf(i)) \in Nat
  BY SocksFinite, TypeParts DEF SocksOf, SockTypes
<1>4. ASSUME SocksOf(i)' = {}
      PROVE  Exact(conns'[i], Cardinality(SocksOf(i)'))
  BY <1>1, <1>2, <1>4, ExactNone, FS_EmptySet
<1>5. CASE Closing
  <2>1. PICK K \in SUBSET socks : Disconnect(K) /\ (Uncount(K) \/ Forget(K))
    BY <1>5 DEF Closing
  <2>2. SocksOf(i)' = SocksOf(i) \ K
    BY <2>1, ClosedSocks
  <2>3. CASE i \in miscounted \/ SocksOf(i) \subseteq K
    <3>1. SocksOf(i)' = {}
      BY <2>1, <2>2, <2>3 DEF Disconnect
    <3>2. QED
      BY <1>4, <3>1
  <2>4. CASE i \notin miscounted /\ ~(SocksOf(i) \subseteq K)
    <3> DEFINE n == Cardinality(K \cap SocksOf(i))
    <3>1. n \in Nat /\ n <= Cardinality(SocksOf(i))
          /\ Cardinality(SocksOf(i)') = Cardinality(SocksOf(i)) - n
      BY <2>1, ClosedSocks
    <3> HIDE DEF n
    <3>2. Exact(DecBy(conns[i], n), Cardinality(SocksOf(i)'))
      BY <1>1, <1>2, <1>3, <2>4, <3>1, ExactDec
    <3>3. CASE Uncount(K)
      BY <3>2, <3>3 DEF Uncount, n
    <3>4. CASE Forget(K)
      <4>1. PICK j \in IP : K = SocksOf(j) /\ conns' = [conns EXCEPT ![j] = NoEntry]
        BY <3>4 DEF Forget
      <4>2. i # j /\ K \cap SocksOf(i) = {}
        BY <2>4, <4>1 DEF SocksOf
      <4>3. n = 0
        BY <4>2, FS_EmptySet DEF n
      <4>4. conns'[i] = DecBy(conns[i], n)
        BY <1>2, <4>1, <4>2, <4>3 DEF DecBy
      <4>5. QED
        BY <3>2, <4>4
    <3>5. QED
      BY <2>1, <3>3, <3>4
  <2>5. QED
    BY <2>3, <2>4
<1>6. ASSUME NEW j \in IP, ConnectRefused(j)
      PROVE  Exact(conns'[i], Cardinality(SocksOf(i)'))
  <2>1. SocksOf(i)' = SocksOf(i) /\ i \notin miscounted
    BY <1>6, SameSocks DEF ConnectRefused, sockVars
  <2>2. CASE i = j
    <3>1. SocksOf(i)' = {}
      BY <1>6, <2>1, <2>2 DEF ConnectRefused, SocksOf
    <3>2. QED
      BY <1>4, <3>1
  <2>3. CASE i # j
    <3>1. conns'[i] = conns[i]
      BY <1>2, <1>6, <2>3 DEF ConnectRefused
    <3>2. QED
      BY <1>1, <2>1, <3>1
  <2>4. QED
    BY <2>2, <2>3
<1>7. CASE TurnedAway
  <2>1. SocksOf(i)' = SocksOf(i) /\ i \notin miscounted
    BY <1>7, SameSocks DEF TurnedAway, sockVars
  <2>2. conns'[i] \in {conns[i], DecBy(Inc(conns[i]), 1)}
    BY <1>2, <1>7 DEF TurnedAway, CountAndUncount
  <2>3. QED
    BY <1>1, <1>2, <1>3, <2>1, <2>2, ExactTurned
<1>8. ASSUME NEW j \in IP, NEW s \in Sock, NEW fast \in BOOLEAN, Connect(s, j, fast)
      PROVE  Exact(conns'[i], Cardinality(SocksOf(i)'))
  <2>1. i \notin miscounted /\ (i = j => Inc(conns[i]) # 0)
    BY <1>8 DEF Connect
  <2>2. CASE i = j
    <3>1. conns'[i] = Inc(conns[i])
      BY <1>2, <1>8, <2>2 DEF Connect
    <3>2. Cardinality(SocksOf(i)') = Cardinality(SocksOf(i)) + 1
      BY <1>8, <2>2, OpenedSocks
    <3>3. QED
      BY <1>1, <1>2, <1>3, <2>1, <2>2, <3>1, <3>2, ExactInc
  <2>3. CASE i # j
    <3>1. conns'[i] = conns[i]
      BY <1>2, <1>8, <2>3 DEF Connect
    <3>2. SocksOf(i)' = SocksOf(i)
      BY <1>8, <2>3, OpenedSocks
    <3>3. QED
      BY <1>1, <2>1, <3>1, <3>2
  <2>4. QED
    BY <2>2, <2>3
<1>9. CASE UNCHANGED <<socks, ip, conns, miscounted>>
  BY <1>1, <1>9, SameSocks
<1>10. QED
  BY <1>5, <1>6, <1>7, <1>8, <1>9, StepKinds DEF Join, SetRank, sockVars

\* What the server counts of an address is its number of connections, unless a
\* refusal or a wrapped counter lost one that is still open, and it is that again
\* once the address has left (onConnection, onDisconnection).
THEOREM CountsExact == Spec => []ConnCountExact
<1>1. Init => ConnCountExact
  <2>1. ASSUME Init, NEW i \in IP
        PROVE  conns[i] = NoEntry /\ Cardinality(SocksOf(i)) = 0
    <3>1. SocksOf(i) = {}
      BY <2>1 DEF Init, SocksOf
    <3>2. QED
      BY <2>1, <3>1, FS_EmptySet DEF Init
  <2>2. QED
    BY <2>1 DEF ConnCountExact
<1>2. QED
  BY <1>1, TypeCorrect, NotOvercounted, NextExact, PTL DEF Spec
-----------------------------------------------------------------------------
(* What no step does. *)

\* The sockets that a step closes, by who closes them.
LEMMA CloseKinds ==
  ASSUME [Next]_vars
  PROVE  \/ socks \subseteq socks'
         \/ \E s \in socks : socks' = socks \ {s} /\ UNCHANGED maxconns
         \/ \E i \in IP : socks' = socks \ SocksOf(i) /\ UNCHANGED maxconns
         \/ \E K \in SUBSET {t \in socks : ~IsAdmin(t)} : socks' = socks \ K
<1>1. CASE Connections
  BY <1>1 DEF Connections, ConnectRefused, ConnectOverLimit, ConnectTooFast, Connect, sockVars
<1>2. ASSUME NEW s \in Sock, Close(s)
      PROVE  s \in socks /\ socks' = socks \ {s} /\ UNCHANGED maxconns
  BY <1>2 DEF Close, Disconnect, flagVars
<1>3. CASE Players
  <2>1. PICK s \in Sock : \/ Close(s)
                          \/ \E w \in Name, r \in RankNone..User : Join(s, w, r)
                          \/ modlogin(s) \/ adminlogin(s)
                          \/ \E r \in RankNone..User : pass(s, r)
                          \/ \E t \in Sock : kick(s, t)
    BY <1>3 DEF Players
  <2>2. CASE Close(s) \/ \E t \in Sock : kick(s, t)
    BY <1>2, <2>2 DEF kick
  <2>3. CASE ~(Close(s) \/ \E t \in Sock : kick(s, t))
    BY <2>1, <2>3 DEF Join, modlogin, adminlogin, pass, SetRank
  <2>4. QED
    BY <2>2, <2>3
<1>4. CASE Admins
  <2>1. PICK s \in Sock : \/ \E t \in Sock, r \in RankNone..Moderator : setrank(s, t, r)
                          \/ kickallWorld(s) \/ kickallServer(s)
                          \/ \E limit \in Limits : set_max_ip_conns(s, limit)
                          \/ \E i \in IP : kickip(s, i) \/ banip(s, i)
                          \/ bans(s) \/ whitelist(s) \/ blacklist(s) \/ lock(s)
                          \/ \E state \in BOOLEAN : set_lockdown(s, state)
    BY <1>4 DEF Admins
  <2>2. CASE kickallWorld(s)
    <3>1. {t \in socks : world[t] = world[s] /\ ~IsAdmin(t)}
            \in SUBSET {t \in socks : ~IsAdmin(t)}
      OBVIOUS
    <3>2. QED
      BY <2>2, <3>1 DEF kickallWorld, CloseAll, Disconnect
  <2>3. CASE kickallServer(s)
    BY <2>3 DEF kickallServer, CloseAll, Disconnect
  <2>4. CASE \E limit \in Limits : set_max_ip_conns(s, limit)
    BY <2>4 DEF set_max_ip_conns, CloseAll, Disconnect
  <2>5. ASSUME NEW i \in IP, kickip(s, i) \/ banip(s, i)
        PROVE  \/ socks \subseteq socks'
               \/ socks' = socks \ SocksOf(i) /\ UNCHANGED maxconns
    BY <2>5 DEF kickip, banip, KickIp, Disconnect, sockVars, flagVars
  <2>6. CASE \/ bans(s) \/ whitelist(s) \/ blacklist(s) \/ lock(s)
            \/ \E state \in BOOLEAN : set_lockdown(s, state)
            \/ \E t \in Sock, r \in RankNone..Moderator : setrank(s, t, r)
    BY <2>6 DEF bans, whitelist, blacklist, lock, set_lockdown, setrank, SetRank, sockVars
  <2>7. QED
    BY <2>1, <2>2, <2>3, <2>4, <2>5, <2>6
<1>5. CASE UNCHANGED vars
  BY <1>5 DEF vars, sockVars
<1>6. QED
  BY <1>1, <1>3, <1>4, <1>5 DEF Next

\* Whoever closes sockets of several addresses, or closes one to enforce a limit,
\* spares the admins (kickall, set_max_ip_conns).
THEOREM AdminsSpared == Spec => MassKicksSpareAdmins
<1> DEFINE Spared == \A s, t \in socks \ socks' :
                       ip[s] # ip[t] \/ maxconns' # maxconns => ~IsAdmin(s)
<1>1. [Next]_vars => Spared
  BY CloseKinds DEF SocksOf
<1>2. QED
  BY <1>1, PTL DEF Spec, MassKicksSpareAdmins

\* What lifts a lockdown that no command lifts: an admin leaves, and nobody
\* whitelisted is counted.
AdminLeft == \E s \in socks \ socks' : IsAdmin(s)
NobodyCounted == \A i \in ipwhitelist : conns'[i] \in {NoEntry, 0}

LEMMA LiftedLockdown ==
  ASSUME TypeOK, [Next]_vars, lockdown, ~lockdown', ~LiftedByCommand
  PROVE  AdminLeft /\ NobodyCounted /\ miscounted' \subseteq miscounted
<1> USE DEF AdminLeft, NobodyCounted
<1>1. ASSUME NEW s \in Sock, Close(s)
      PROVE  AdminLeft /\ NobodyCounted /\ miscounted' \subseteq miscounted
  BY <1>1 DEF Close, Disconnect, NobodyLeft
\* At one of the turns of an admin nobody is left; at the end there is none either.
<1>2. ASSUME NEW i \in IP, KickIp(i)
      PROVE  AdminLeft /\ NobodyCounted /\ miscounted' \subseteq miscounted
  <2> DEFINE K == SocksOf(i)
             n == Cardinality(K)
             After(j) == [conns EXCEPT ![i] = DecBy(@, j)]
  <2>1. K # {}
    BY <1>2 DEF KickIp
  <2>2. Disconnect(K) /\ conns' = [conns EXCEPT ![i] = NoEntry]
    BY <1>2, <2>1 DEF KickIp
  <2>3. PICK J \in SUBSET (1..n) :
          /\ Cardinality(J) = Cardinality({t \in K : IsAdmin(t)})
          /\ lockdown' = (lockdown /\ \A j \in J : ~NobodyLeft(After(j)))
    BY <1>2, <2>1 DEF KickIp
  <2>4. PICK j \in J : NobodyLeft(After(j))
    BY <2>3
  <2>5. conns \in [IP -> Count] /\ ipwhitelist \subseteq IP
    BY TypeParts DEF CountTypes, ListTypes
  <2>6. \A k \in ipwhitelist : conns'[k] \in {NoEntry, 0}
    BY <2>2, <2>4, <2>5 DEF NobodyLeft
  <2>7. {t \in K : IsAdmin(t)} # {}
    <3>1. IsFiniteSet(1..n)
      <4>1. n \in Nat
        BY SocksFinite, TypeParts DEF SocksOf, SockTypes
      <4>2. 1 \in Int /\ n \in Int
        BY <4>1
      <4>3. QED
        BY <4>2, FS_Interval, Zenon
    <3>2. IsFiniteSet(J)
      BY <3>1, FS_Subset
    <3>3. Cardinality(J) # 0
      <4>1. J # {}
        BY <2>4
      <4>2. QED
        BY <3>2, <4>1, FS_EmptySet, Zenon
    <3>4. Cardinality({t \in K : IsAdmin(t)}) # 0
      BY <2>3, <3>3, Zenon
    <3>5. QED
      BY <3>4, FS_EmptySet
  <2>8. \E t \in socks \ socks' : IsAdmin(t)
    BY <2>2, <2>7 DEF Disconnect, SocksOf
  <2>9. miscounted' \subseteq miscounted
    BY <2>2 DEF Disconnect
  <2>10. QED
    BY <2>6, <2>8, <2>9
<1>3. CASE Connections
  BY <1>3 DEF Connections, ConnectRefused, ConnectOverLimit, ConnectTooFast, Connect
<1>4. CASE Players
  <2>1. PICK s \in Sock : \/ Close(s)
                          \/ \E w \in Name, r \in RankNone..User : Join(s, w, r)
                          \/ modlogin(s) \/ adminlogin(s)
                          \/ \E r \in RankNone..User : pass(s, r)
                          \/ \E t \in Sock : kick(s, t)
    BY <1>4 DEF Players
  <2>2. CASE Close(s) \/ \E t \in Sock : kick(s, t)
    BY <1>1, <2>2 DEF kick
  <2>3. CASE ~(Close(s) \/ \E t \in Sock : kick(s, t))
    BY <2>1, <2>3 DEF Join, modlogin, adminlogin, pass, SetRank
  <2>4. QED
    BY <2>2, <2>3
<1>5. CASE Admins
  <2>1. ASSUME NEW s \in Sock, NEW state \in BOOLEAN, set_lockdown(s, state)
        PROVE  FALSE
    <3>1. s \in socks /\ state = FALSE
      BY <2>1 DEF set_lockdown, IsAdmin, InWorld
    <3>2. QED
      BY <2>1, <3>1 DEF LiftedByCommand
  <2>2. QED
    BY <1>2, <1>5, <2>1 DEF Admins, setrank, SetRank, kickallWorld, kickallServer,
                            set_max_ip_conns, CloseAll, kickip, banip, bans, whitelist, blacklist, lock
<1>6. CASE UNCHANGED vars
  BY <1>6 DEF vars
<1>7. QED
  BY <1>3, <1>4, <1>5, <1>6 DEF Next

\* The counters are right but for the miscounted addresses, so nobody
\* whitelisted is left where nobody is counted.
LEMMA NobodyLeftOpen ==
  ASSUME TypeOK', ConnCountExact', NobodyCounted, miscounted' \subseteq miscounted,
         NEW s \in socks', ip'[s] \in ipwhitelist, ip'[s] \notin miscounted,
         ip'[s] \in IP
  PROVE  FALSE
<1> DEFINE i == ip'[s]
           K == {t \in socks' : ip'[t] = i}
<1>1. Cardinality(K) = IF conns'[i] = NoEntry THEN 0 ELSE conns'[i]
  BY DEF ConnCountExact, SocksOf
<1>2. Cardinality(K) = 0
  BY <1>1 DEF NobodyCounted
<1>3. IsFiniteSet(K)
  <2>1. K \subseteq Sock
    BY DEF TypeOK
  <2>2. QED
    BY <2>1, ServerAssumption, FS_Subset
<1>4. K = {}
  BY <1>2, <1>3, FS_EmptySet, Zenon
<1>5. QED
  BY <1>4

\* A lockdown that no command lifts ends only as an admin leaves and no open
\* socket has a whitelisted address any more, but for miscounted addresses
\* (onConnection, onDisconnection, lockdown_check).
THEOREM LockdownLasts == Spec => LockdownOutlastsPlayers
<1> DEFINE Lasts == lockdown /\ ~lockdown' /\ ~LiftedByCommand =>
                      /\ \E s \in socks \ socks' : IsAdmin(s)
                      /\ \A s \in socks' : ip'[s] \in ipwhitelist => ip'[s] \in miscounted
<1>1. TypeOK /\ TypeOK' /\ ConnCountExact' /\ [Next]_vars => Lasts
  <2> SUFFICES ASSUME TypeOK, TypeOK', ConnCountExact', [Next]_vars,
                      lockdown, ~lockdown', ~LiftedByCommand
               PROVE  /\ \E s \in socks \ socks' : IsAdmin(s)
                      /\ \A s \in socks' : ip'[s] \in ipwhitelist => ip'[s] \in miscounted
    OBVIOUS
  <2>1. AdminLeft /\ NobodyCounted /\ miscounted' \subseteq miscounted
    BY LiftedLockdown
  <2>2. ipwhitelist \subseteq IP
    BY DEF TypeOK
  <2>3. \A s \in socks' : ip'[s] \in ipwhitelist => ip'[s] \in miscounted
    BY <2>1, <2>2, NobodyLeftOpen
  <2>4. QED
    BY <2>1, <2>3 DEF AdminLeft
<1>2. QED
  BY <1>1, TypeCorrect, CountsExact, PTL DEF Spec, LockdownOutlastsPlayers

\* A step that adds to the connections of an address opens a socket for it.
LEMMA OpeningOnly ==
  ASSUME TypeOK, [Next]_vars, NEW i \in IP,
         Cardinality(SocksOf(i)') > Cardinality(SocksOf(i))
  PROVE  \E s \in Sock, fast \in BOOLEAN : Connect(s, i, fast)
<1>1. Cardinality(SocksOf(i)) \in Nat
  BY SocksFinite, TypeParts DEF SocksOf, SockTypes
<1>2. SocksOf(i)' # SocksOf(i)
  BY <1>1
<1>3. ~Closing
  <2>1. ASSUME NEW K \in SUBSET socks, Disconnect(K)
        PROVE  FALSE
    <3> DEFINE n == Cardinality(K \cap SocksOf(i))
    <3>1. n \in Nat /\ Cardinality(SocksOf(i)') = Cardinality(SocksOf(i)) - n
      BY <2>1, ClosedSocks
    <3> HIDE DEF n
    <3>2. QED
      BY <1>1, <3>1
  <2>2. QED
    BY <2>1 DEF Closing
<1>4. ~UNCHANGED <<socks, ip>>
  BY <1>2, SameSocks
<1>5. PICK j \in IP, s \in Sock, fast \in BOOLEAN : Connect(s, j, fast)
  BY <1>3, <1>4, StepKinds DEF ConnectRefused, TurnedAway, Join, SetRank, sockVars
<1>6. i = j
  BY <1>2, <1>5, OpenedSocks
<1>7. QED
  BY <1>5, <1>6

LEMMA JoinWithinLimit ==
  ASSUME TypeOK, ConnCountExact, [Next]_vars, NEW i \in IP, i \notin miscounted',
         Cardinality(SocksOf(i)') > Cardinality(SocksOf(i)), Cardinality(SocksOf(i)') > 1
  PROVE  Cardinality(SocksOf(i)') <= maxconns /\ i \notin ipblacklist
<1>1. PICK s \in Sock, fast \in BOOLEAN : Connect(s, i, fast)
  BY OpeningOnly
<1>2. ~TooMany(i) /\ i \notin miscounted /\ Inc(conns[i]) # 0
  BY <1>1 DEF Connect
<1>3. Cardinality(SocksOf(i)') = Cardinality(SocksOf(i)) + 1
  BY <1>1, OpenedSocks
<1>4. conns[i] \in Count /\ Cardinality(SocksOf(i)) \in Nat
  BY SocksFinite, TypeParts DEF CountTypes, SocksOf, SockTypes
<1>5. Exact(conns[i], Cardinality(SocksOf(i)))
  BY <1>2, ExactAll
<1>6. conns[i] # NoEntry
  BY <1>3, <1>5 DEF Exact
<1>7. Inc(conns[i]) <= maxconns /\ i \notin ipblacklist
  <2>1. maxconns \in Int
    <3>1. maxconns \in Limits \cup {CountMod}
      BY TypeParts DEF FlagTypes
    <3>2. maxconns \in 1..(CountMod - 1) \/ maxconns = CountMod
      BY <3>1, ServerAssumption, Zenon
    <3>3. QED
      BY <3>2, ServerAssumption
  <2>2. Inc(conns[i]) \in Int
    BY <1>4, IncType, ServerAssumption
  <2>3. QED
    BY <1>2, <1>6, <2>1, <2>2 DEF TooMany
<1>8. Exact(Inc(conns[i]), Cardinality(SocksOf(i)'))
  BY <1>2, <1>3, <1>4, <1>5, ExactInc
<1>9. Cardinality(SocksOf(i)') = Inc(conns[i])
  BY <1>4, <1>8, IncType DEF Exact
<1>10. QED
  BY <1>7, <1>9

\* No connection but its first takes an address over the limit, nor any from a
\* blacklisted one, unless the counter lost a connection or wraps (onConnection).
THEOREM NoneOverLimit == Spec => NobodyJoinsOverLimit
<1> DEFINE Within == \A i \in IP \ miscounted' :
                       LET now == {s \in socks' : ip'[s] = i} IN
                       Cardinality(now) > Cardinality(SocksOf(i)) /\ Cardinality(now) > 1
                         => Cardinality(now) <= maxconns /\ i \notin ipblacklist
<1>1. TypeOK /\ ConnCountExact /\ [Next]_vars => Within
  <2>1. \A i : SocksOf(i)' = {s \in socks' : ip'[s] = i}
    BY DEF SocksOf
  <2>2. QED
    BY <2>1, JoinWithinLimit
<1>2. QED
  BY <1>1, TypeCorrect, CountsExact, PTL DEF Spec, NobodyJoinsOverLimit
=============================================================================
