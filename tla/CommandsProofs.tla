---------------------------- MODULE CommandsProofs ----------------------------
(***************************************************************************)
(* Proofs about Commands and the token bucket of Limiter, for any players, *)
(* rates, periods and gifts.                                               *)
(***************************************************************************)
EXTENDS Commands, TLAPS

USE DEF NONE, USER, MODERATOR, ADMIN

-----------------------------------------------------------------------------
(* Buckets. *)

LEMMA Products ==
  /\ \A m, n \in Nat : m * n \in Nat
  /\ \A m, n \in Nat : (m + 1) * n = m * n + n
OBVIOUS

LEMMA LeastType ==
  ASSUME NEW m \in Nat, NEW n \in Nat
  PROVE  /\ Least(m, n) \in Nat /\ Least(m, n) <= m /\ Least(m, n) <= n
         /\ Least(m, n) = m \/ Least(m, n) = n
BY DEF Least

LEMMA BucketFields ==
  ASSUME NEW b \in Buckets
  PROVE  /\ b.rate \in Nat /\ b.per \in Nat \ {0} /\ b.rate \in Rates /\ b.per \in Pers
         /\ b.allowance \in Nat /\ b.since \in 0..MaxWait /\ b.since \in Nat
         /\ b.rate * Den \in Nat /\ b.allowance <= b.rate * Den
<1>1. b.rate \in Rates /\ b.per \in Pers /\ b.allowance \in Nat /\ b.since \in 0..MaxWait
      /\ b.allowance <= b.rate * Den
  BY DEF Buckets
<1>2. b.rate \in Nat /\ b.per \in Nat \ {0} /\ Den \in Nat /\ MaxWait \in Nat
  BY <1>1, LimiterAssumption
<1>3. b.rate * Den \in Nat
  BY <1>2, Products
<1>4. QED
  BY <1>1, <1>2, <1>3

\* A quotient of numbers is one.
LEMMA Quotients ==
  \A m \in Nat, n \in Nat \ {0} : m \div n \in Nat
OBVIOUS

LEMMA NothingPerSecond ==
  \A n \in Nat \ {0} : 0 \div n = 0
OBVIOUS

LEMMA PerSecondType ==
  ASSUME NEW b \in Buckets
  PROVE  PerSecond(b) \in Nat /\ (b.rate = 0 => PerSecond(b) = 0)
<1>1. b.rate * Den \in Nat /\ b.per \in Nat \ {0}
  BY BucketFields
<1>2. b.rate = 0 => b.rate * Den = 0
  BY LimiterAssumption
<1>3. QED
  BY <1>1, <1>2, Quotients, NothingPerSecond DEF PerSecond

\* What a bucket has is never more than its rate, and nothing at rate 0.
LEMMA AllowanceType ==
  ASSUME NEW b \in Buckets
  PROVE  /\ b.allowance + b.since * PerSecond(b) \in Nat
         /\ Allowance(b) \in Nat /\ Allowance(b) <= b.rate * Den
         /\ b.rate = 0 => Allowance(b) = 0
<1>1. PerSecond(b) \in Nat /\ b.since \in Nat /\ b.allowance \in Nat /\ b.rate * Den \in Nat
  BY BucketFields, PerSecondType
<1>2. b.since * PerSecond(b) \in Nat
  BY <1>1, Products
<1>3. b.allowance + b.since * PerSecond(b) \in Nat
  BY <1>1, <1>2
<1>4. Allowance(b) \in Nat /\ Allowance(b) <= b.rate * Den
  BY <1>1, <1>3, LeastType DEF Allowance
<1>5. b.rate = 0 => b.rate * Den = 0
  BY LimiterAssumption
<1>6. QED
  BY <1>3, <1>4, <1>5

\* A bucket is in the type when its parts are.
LEMMA MakeBucket ==
  ASSUME NEW r \in Rates, NEW q \in Pers, NEW x \in Nat, NEW s \in 0..MaxWait, x <= r * Den
  PROVE  [rate |-> r, per |-> q, allowance |-> x, since |-> s] \in Buckets
BY DEF Buckets

LEMMA NewBucket ==
  /\ Bucket(0, 1) \in Buckets
  /\ Bucket(0, 1).rate = 0 /\ Bucket(0, 1).allowance = 0
<1>1. 0 * Den = 0 /\ MaxWait \in 0..MaxWait
  BY LimiterAssumption
<1>2. QED
  BY <1>1, MakeBucket, CommandsAssumption DEF Bucket

\* The constructor's and set's periods are at least a second.
LEMMA SetBucket ==
  ASSUME NEW b \in Buckets, NEW r \in Rates, NEW q \in Pers
  PROVE  /\ set(b, r, q) \in Buckets
         /\ set(b, r, q).rate = r /\ set(b, r, q).per = q
         /\ r = 0 => set(b, r, q).allowance = 0
<1>1. q \in Nat /\ q >= 1 /\ r \in Nat /\ Den \in Nat
  BY LimiterAssumption
<1>2. r * Den \in Nat /\ (r = 0 => r * Den = 0)
  BY <1>1, Products
<1>3. b.allowance \in Nat /\ b.since \in 0..MaxWait
  BY BucketFields
<1> DEFINE x == Least(b.allowance, r * Den)
<1>4. x \in Nat /\ x <= r * Den
  BY <1>2, <1>3, LeastType
<1>5. set(b, r, q) = [rate |-> r, per |-> q, allowance |-> x, since |-> b.since]
  <2> DEFINE b1 == [b EXCEPT !.rate = r]
             b2 == [b1 EXCEPT !.per = q]
  <2>1. ~(q < 1)
    BY <1>1
  <2>2. set(b, r, q) = [b2 EXCEPT !.allowance = x]
    BY <2>1 DEF set
  <2>3. b1 = [rate |-> r, per |-> b.per, allowance |-> b.allowance, since |-> b.since]
    BY DEF Buckets
  <2> HIDE DEF b1
  <2>4. b2 = [rate |-> r, per |-> q, allowance |-> b.allowance, since |-> b.since]
    BY <2>3
  <2> HIDE DEF b2, x
  <2>5. QED
    BY <2>2, <2>4
<1>6. r = 0 => x = 0
  BY <1>2, <1>4
<1> HIDE DEF x
<1>7. QED
  BY <1>3, <1>4, <1>5, <1>6, MakeBucket

\* Spending one thing takes it from what is there, a refusal nothing.
LEMMA SpendBucket ==
  ASSUME NEW b \in Buckets
  PROVE  LET a == AfterSpend(b, 1) IN
         /\ a \in Buckets /\ a.rate = b.rate /\ a.per = b.per
         /\ a.since = 0
         /\ CanSpend(b, 1) => a.allowance = Allowance(b) - Den
         /\ ~CanSpend(b, 1) => a.allowance = Allowance(b)
         /\ a.allowance <= Allowance(b)
<1> DEFINE x == IF CanSpend(b, 1) THEN Allowance(b) - 1 * Den ELSE Allowance(b)
<1>1. Allowance(b) \in Nat /\ Allowance(b) <= b.rate * Den /\ Den \in Nat
  BY AllowanceType, LimiterAssumption
<1>2. b.rate \in Rates /\ b.per \in Pers /\ b.rate * Den \in Nat
  BY BucketFields
<1>3. x \in Nat /\ x <= Allowance(b) /\ x <= b.rate * Den
  BY <1>1, <1>2 DEF CanSpend
<1>4. AfterSpend(b, 1) = [rate |-> b.rate, per |-> b.per, allowance |-> x, since |-> 0]
  <2> DEFINE b1 == [b EXCEPT !.allowance = x]
  <2>1. AfterSpend(b, 1) = [b1 EXCEPT !.since = 0]
    BY DEF AfterSpend
  <2> HIDE DEF x
  <2>2. b1 = [rate |-> b.rate, per |-> b.per, allowance |-> x, since |-> b.since]
    BY DEF Buckets
  <2> HIDE DEF b1
  <2>3. QED
    BY <2>1, <2>2
<1>5. 0 \in 0..MaxWait
  BY LimiterAssumption
<1>6. [rate |-> b.rate, per |-> b.per, allowance |-> x, since |-> 0] \in Buckets
  BY <1>2, <1>3, <1>5, MakeBucket
<1>7. QED
  BY <1>1, <1>3, <1>4, <1>6

\* A second adds what the rate adds in a second, or less.
LEMMA LaterBucket ==
  ASSUME NEW b \in Buckets
  PROVE  /\ Later(b) \in Buckets
         /\ Later(b).rate = b.rate /\ Later(b).per = b.per /\ Later(b).allowance = b.allowance
         /\ Allowance(Later(b)) <= Allowance(b) + PerSecond(b)
<1> DEFINE s == Least(b.since + 1, MaxWait)
           v == PerSecond(b)
<1>1. b.since \in Nat /\ b.since <= MaxWait /\ MaxWait \in Nat /\ b.allowance \in Nat
      /\ b.rate \in Rates /\ b.per \in Pers /\ b.allowance <= b.rate * Den
      /\ b.rate * Den \in Nat
  BY BucketFields, LimiterAssumption
<1>2. s \in 0..MaxWait /\ (s = b.since \/ s = b.since + 1)
  BY <1>1 DEF Least
<1>3. Later(b) = [rate |-> b.rate, per |-> b.per, allowance |-> b.allowance, since |-> s]
  BY DEF Later, Buckets
<1>4. Later(b) \in Buckets
  BY <1>1, <1>2, <1>3, MakeBucket
<1>5. PerSecond(Later(b)) = v
  BY <1>3 DEF PerSecond
<1>6. v \in Nat /\ b.since * v \in Nat
  BY <1>1, PerSecondType, Products
<1>7. s * v = b.since * v \/ s * v = b.since * v + v
  BY <1>1, <1>2, <1>6, Products
<1>8. Allowance(Later(b)) = Least(b.allowance + s * v, b.rate * Den)
  BY <1>3, <1>5 DEF Allowance
<1>9. Allowance(b) = Least(b.allowance + b.since * v, b.rate * Den)
  BY DEF Allowance
<1> HIDE DEF v, s
<1>10. Allowance(Later(b)) <= Allowance(b) + v
  BY <1>1, <1>6, <1>7, <1>8, <1>9 DEF Least
<1>11. QED
  BY <1>3, <1>4, <1>10 DEF v

-----------------------------------------------------------------------------
(* What a step can do to the players. *)

players == <<clients, rank, pixupdlimit, source, gifted, excess>>

\* A player who is or becomes one gets a rank its source can give.
Promoted(p) ==
  \E b \in Buckets, r \in NONE..ADMIN, s \in USER..ADMIN :
    /\ promote(p, b, r)
    /\ r = ADMIN => b = pixupdlimit[p]
    /\ r <= s /\ source' = [source EXCEPT ![p] = s]
    /\ clients' = clients \cup {p} /\ UNCHANGED paintrate

Given(p) ==
  \E r \in Rates, q \in Pers :
    /\ set_pbucket(p, pixupdlimit[p], r, q)
    /\ gifted' = gifted \cup {p}
    /\ UNCHANGED <<clients, rank, source>>

Spent(p) ==
  /\ pixupdlimit' = [pixupdlimit EXCEPT ![p] = AfterSpend(@, 1)]
  /\ excess' = IF CanSpend(pixupdlimit[p], 1) THEN [excess EXCEPT ![p] = @ + Den] ELSE excess
  /\ UNCHANGED <<clients, rank, source, gifted>>

PlayerStep(p) == Promoted(p) \/ Gone(p) \/ Given(p) \/ Spent(p)

WorldTypes == defaultRank \in {NONE, USER} /\ locked \in BOOLEAN /\ paintrate \in PaintRates

LEMMA RatesOfWorlds ==
  ASSUME TypeOK
  PROVE  paintrate \in Rates
BY CommandsAssumption DEF TypeOK

LEMMA JoinKind ==
  ASSUME TypeOK, NEW p \in Player, Join(p)
  PROVE  Promoted(p) /\ WorldTypes'
<1> DEFINE r == IF locked THEN NONE ELSE defaultRank
<1>1. r \in NONE..ADMIN /\ r <= USER
  BY DEF TypeOK
<1>2. source[p] \in USER..ADMIN /\ source' = [source EXCEPT ![p] = source[p]]
  BY DEF Join, TypeOK
<1>3. promote(p, Bucket(0, 1), r) /\ clients' = clients \cup {p} /\ UNCHANGED paintrate
  BY DEF Join, world
<1> HIDE DEF r
<1>4. r <= source[p] /\ r # ADMIN
  BY <1>1, <1>2
<1>5. Promoted(p)
  BY <1>1, <1>2, <1>3, <1>4, NewBucket DEF Promoted
<1>6. WorldTypes'
  BY DEF Join, TypeOK, WorldTypes, world
<1>7. QED
  BY <1>5, <1>6

\* A promotion with the player's own bucket.
LEMMA OwnPromotion ==
  ASSUME TypeOK, NEW p \in clients, NEW r \in NONE..ADMIN, NEW s \in USER..ADMIN,
         promote(p, pixupdlimit[p], r), r <= s,
         source' = [source EXCEPT ![p] = s], UNCHANGED <<clients, world>>
  PROVE  Promoted(p) /\ WorldTypes'
<1>1. pixupdlimit[p] \in Buckets /\ clients' = clients \cup {p}
  BY DEF TypeOK
<1>2. UNCHANGED paintrate /\ WorldTypes'
  BY DEF world, TypeOK, WorldTypes
<1>3. QED
  BY <1>1, <1>2 DEF Promoted

LEMMA GoneTypes ==
  ASSUME TypeOK, NEW p \in Player, Gone(p)
  PROVE  WorldTypes'
BY DEF Gone, ReadProps, TypeOK, WorldTypes, world

\* The commands by which one player changes itself.
LEMMA OwnKind ==
  ASSUME TypeOK, NEW t \in Player, NEW cl \in Player, OwnCommands(t, cl)
  PROVE  (Promoted(cl) \/ Gone(cl)) /\ WorldTypes'
<1>1. cl \in clients
  BY DEF OwnCommands, pass, modlogin, adminlogin, Exec
<1>2. CASE pass(t, cl)
  <2>1. CASE Gone(cl)
    BY <2>1, GoneTypes
  <2>2. CASE /\ promote(cl, pixupdlimit[cl], defaultRank)
             /\ source' = [source EXCEPT ![cl] = USER]
             /\ UNCHANGED <<clients, world>>
    <3>1. defaultRank \in NONE..ADMIN /\ defaultRank <= USER /\ USER \in USER..ADMIN
      BY DEF TypeOK
    <3>2. QED
      BY <1>1, <2>2, <3>1, OwnPromotion
  <2>3. QED
    BY <1>2, <2>1, <2>2 DEF pass
<1>3. CASE modlogin(t, cl)
  <2>1. MODERATOR \in NONE..ADMIN /\ MODERATOR \in USER..ADMIN /\ MODERATOR <= MODERATOR
    OBVIOUS
  <2>2. /\ promote(cl, pixupdlimit[cl], MODERATOR)
        /\ source' = [source EXCEPT ![cl] = MODERATOR] /\ UNCHANGED <<clients, world>>
    BY <1>3 DEF modlogin
  <2>3. QED
    BY <1>1, <2>1, <2>2, OwnPromotion
<1>4. CASE adminlogin(t, cl)
  <2>1. ADMIN \in NONE..ADMIN /\ ADMIN \in USER..ADMIN /\ ADMIN <= ADMIN
    OBVIOUS
  <2>2. /\ promote(cl, pixupdlimit[cl], ADMIN)
        /\ source' = [source EXCEPT ![cl] = ADMIN] /\ UNCHANGED <<clients, world>>
    BY <1>4 DEF adminlogin
  <2>3. QED
    BY <1>1, <2>1, <2>2, OwnPromotion
<1>5. QED
  BY <1>2, <1>3, <1>4 DEF OwnCommands

\* The commands by which one player changes another: an admin appoints at most
\* moderators, a moderator at most users.
LEMMA ModerationKind ==
  ASSUME TypeOK, NEW t \in Player, NEW cl \in Player, NEW target \in Player,
         Moderation(t, cl, target)
  PROVE  (Promoted(target) \/ Gone(target) \/ Given(target)) /\ WorldTypes'
<1>1. target \in clients /\ cl \in clients
  BY DEF Moderation, kick, setrank, setpbucket, Exec
<1>2. CASE kick(t, cl, target)
  BY <1>2, GoneTypes DEF kick
<1>3. ASSUME NEW r \in NONE..ADMIN, setrank(t, cl, target, r)
      PROVE  Promoted(target) /\ WorldTypes'
  <2> DEFINE s == IF rank[cl] = ADMIN THEN MODERATOR ELSE USER
  <2>1. rank[cl] \in NONE..ADMIN /\ r < rank[cl]
    BY <1>3 DEF setrank, MaySetRank, TypeOK
  <2>2. s \in USER..ADMIN /\ r <= s
    BY <2>1
  <2>3. /\ promote(target, pixupdlimit[target], r)
        /\ source' = [source EXCEPT ![target] = s]
        /\ UNCHANGED <<clients, world>>
    BY <1>3 DEF setrank
  <2> HIDE DEF s
  <2>4. QED
    BY <1>1, <2>2, <2>3, OwnPromotion
<1>4. ASSUME NEW gift \in Gifts, setpbucket(t, cl, target, gift[1], gift[2])
      PROVE  Given(target) /\ WorldTypes'
  <2>1. gift[1] \in Rates /\ gift[2] \in Pers
    BY CommandsAssumption
  <2>2. Given(target)
    BY <1>4, <2>1 DEF setpbucket, Given
  <2>3. WorldTypes'
    BY <1>4 DEF setpbucket, TypeOK, WorldTypes, world
  <2>4. QED
    BY <2>2, <2>3
<1>5. QED
  BY <1>2, <1>3, <1>4 DEF Moderation

\* Every step is one of these, a second that passes, or leaves the players alone.
LEMMA StepKinds ==
  ASSUME TypeOK, [Next]_vars
  PROVE  /\ (\E p \in Player : PlayerStep(p)) \/ Second \/ UNCHANGED players
         /\ WorldTypes'
<1>1. CASE Second
  BY <1>1 DEF Second, TypeOK, WorldTypes, world
<1>2. ASSUME NEW p \in Player, Join(p)
      PROVE  PlayerStep(p) /\ WorldTypes'
  BY <1>2, JoinKind DEF PlayerStep
<1>3. ASSUME NEW p \in Player, Leave(p)
      PROVE  PlayerStep(p) /\ WorldTypes'
  BY <1>3, GoneTypes DEF PlayerStep, Leave
<1>4. ASSUME NEW p \in Player, PutPx(p)
      PROVE  PlayerStep(p) /\ WorldTypes'
  BY <1>4 DEF PlayerStep, PutPx, Spent, TypeOK, WorldTypes, world
<1>5. ASSUME NEW t \in Player, NEW cl \in Player, OwnCommands(t, cl)
      PROVE  PlayerStep(cl) /\ WorldTypes'
  BY <1>5, OwnKind DEF PlayerStep
<1>6. ASSUME NEW t \in Player, NEW cl \in Player, WorldCommands(t, cl)
      PROVE  UNCHANGED players /\ WorldTypes'
  BY <1>6 DEF WorldCommands, reload, restrict, ReadProps, players, TypeOK, WorldTypes
<1>7. ASSUME NEW t \in Player, NEW cl \in Player, NEW target \in Player,
             Moderation(t, cl, target)
      PROVE  PlayerStep(target) /\ WorldTypes'
  BY <1>7, ModerationKind DEF PlayerStep
<1>8. CASE UNCHANGED vars
  BY <1>8 DEF vars, players, TypeOK, WorldTypes, world
<1>9. QED
  BY <1>1, <1>2, <1>3, <1>4, <1>5, <1>6, <1>7, <1>8 DEF Next

-----------------------------------------------------------------------------
(* Type correctness. *)

PlayerTypes ==
  /\ clients \subseteq Player
  /\ rank \in [Player -> NONE..ADMIN]
  /\ pixupdlimit \in [Player -> Buckets]
  /\ source \in [Player -> USER..ADMIN]
  /\ gifted \subseteq Player
  /\ excess \in [Player -> Nat]

LEMMA DoerType ==
  ASSUME TypeOK, [Next]_vars
  PROVE  doer' \in Player \cup {Nobody}
BY DEF TypeOK, Next, vars, Second, Join, Leave, PutPx, OwnCommands, pass, modlogin,
       adminlogin, WorldCommands, reload, restrict, Moderation, kick, setrank, setpbucket,
       Exec

LEMMA SetType ==
  ASSUME TypeOK, NEW p \in Player, NEW b \in Buckets, NEW r \in Rates, NEW q \in Pers,
         set_pbucket(p, b, r, q)
  PROVE  pixupdlimit' \in [Player -> Buckets] /\ excess' \in [Player -> Nat]
BY SetBucket DEF set_pbucket, TypeOK

LEMMA PromotedType ==
  ASSUME TypeOK, NEW p \in Player, Promoted(p)
  PROVE  PlayerTypes'
<1>1. PICK b \in Buckets, r \in NONE..ADMIN, s \in USER..ADMIN :
        /\ promote(p, b, r)
        /\ source' = [source EXCEPT ![p] = s]
        /\ clients' = clients \cup {p}
  BY DEF Promoted
<1>2. pixupdlimit' \in [Player -> Buckets] /\ excess' \in [Player -> Nat]
  <2>1. paintrate \in Rates /\ 0 \in Rates /\ 1 \in Pers /\ UserPer \in Pers /\ ModPer \in Pers
    BY RatesOfWorlds, CommandsAssumption
  <2>2. CASE r = ADMIN
    BY <1>1, <2>2 DEF promote, TypeOK
  <2>3. CASE r # ADMIN
    BY <1>1, <2>1, <2>3, SetType DEF promote
  <2>4. QED
    BY <2>2, <2>3
<1>3. rank' \in [Player -> NONE..ADMIN] /\ gifted' \subseteq Player
  BY <1>1 DEF promote, TypeOK
<1>4. clients' \subseteq Player /\ source' \in [Player -> USER..ADMIN]
  BY <1>1 DEF TypeOK
<1>5. QED
  BY <1>2, <1>3, <1>4 DEF PlayerTypes

LEMMA GoneType ==
  ASSUME TypeOK, NEW p \in Player, Gone(p)
  PROVE  PlayerTypes'
BY NewBucket DEF Gone, TypeOK, PlayerTypes

LEMMA SpentType ==
  ASSUME TypeOK, NEW p \in Player, Spent(p)
  PROVE  PlayerTypes'
<1>1. pixupdlimit[p] \in Buckets /\ excess[p] + Den \in Nat
  BY LimiterAssumption DEF TypeOK
<1>2. AfterSpend(pixupdlimit[p], 1) \in Buckets
  BY <1>1, SpendBucket
<1>3. pixupdlimit' \in [Player -> Buckets] /\ excess' \in [Player -> Nat]
  BY <1>1, <1>2 DEF Spent, TypeOK
<1>4. QED
  BY <1>3 DEF Spent, TypeOK, PlayerTypes

LEMMA SecondType ==
  ASSUME TypeOK, Second
  PROVE  PlayerTypes'
<1>1. ASSUME NEW p \in Player
      PROVE  /\ Later(pixupdlimit[p]) \in Buckets
             /\ LET s == PerSecond(pixupdlimit[p])
                IN  (IF excess[p] > s THEN excess[p] - s ELSE 0) \in Nat
  <2>1. pixupdlimit[p] \in Buckets /\ excess[p] \in Nat
    BY DEF TypeOK
  <2>2. PerSecond(pixupdlimit[p]) \in Nat
    BY <2>1, PerSecondType
  <2>3. QED
    BY <2>1, <2>2, LaterBucket
<1>2. pixupdlimit' \in [Player -> Buckets] /\ excess' \in [Player -> Nat]
  BY <1>1 DEF Second
<1>3. QED
  BY <1>2 DEF Second, TypeOK, PlayerTypes

LEMMA TypeStep == TypeOK /\ [Next]_vars => TypeOK'
<1> SUFFICES ASSUME TypeOK, [Next]_vars
             PROVE  TypeOK'
  OBVIOUS
<1>1. PlayerTypes'
  <2>1. ASSUME NEW p \in Player, PlayerStep(p)
        PROVE  PlayerTypes'
    <3>1. CASE Given(p)
      <4>1. pixupdlimit[p] \in Buckets
        BY DEF TypeOK
      <4>2. pixupdlimit' \in [Player -> Buckets] /\ excess' \in [Player -> Nat]
        BY <3>1, <4>1, SetType DEF Given
      <4>3. QED
        BY <3>1, <4>2 DEF Given, TypeOK, PlayerTypes
    <3>2. QED
      BY <2>1, <3>1, PromotedType, GoneType, SpentType DEF PlayerStep
  <2>2. CASE UNCHANGED players
    BY <2>2 DEF players, TypeOK, PlayerTypes
  <2>3. QED
    BY <2>1, <2>2, StepKinds, SecondType
<1>2. WorldTypes' /\ doer' \in Player \cup {Nobody}
  BY StepKinds, DoerType
<1>3. QED
  BY <1>1, <1>2 DEF TypeOK, PlayerTypes, WorldTypes

\* Every variable of the players and the world has its type, in particular no
\* quota holds more than its rate (Client, World, Limiter).
THEOREM TypeCorrect == Spec => []TypeOK
<1>1. Init => TypeOK
  BY NewBucket, CommandsAssumption DEF Init, TypeOK
<1>2. QED
  BY <1>1, TypeStep, PTL DEF Spec

-----------------------------------------------------------------------------
(* Ranks. *)

\* Of everybody, in the world or not.
RankHasSource == \A p \in Player : rank[p] <= source[p]

LEMMA SourceStep == TypeOK /\ RankHasSource /\ [Next]_vars => RankHasSource'
<1> SUFFICES ASSUME TypeOK, RankHasSource, [Next]_vars, NEW p \in Player
             PROVE  rank'[p] <= source'[p]
  BY DEF RankHasSource
<1>1. ASSUME NEW x \in Player, Promoted(x)
      PROVE  rank'[p] <= source'[p]
  <2>1. PICK r \in NONE..ADMIN, s \in USER..ADMIN :
          /\ rank' = [rank EXCEPT ![x] = r]
          /\ r <= s /\ source' = [source EXCEPT ![x] = s]
    BY <1>1 DEF Promoted, promote
  <2>2. QED
    BY <2>1 DEF TypeOK, RankHasSource
<1>2. ASSUME NEW x \in Player, Gone(x)
      PROVE  rank'[p] <= source'[p]
  BY <1>2 DEF Gone, TypeOK, RankHasSource
<1>3. CASE UNCHANGED <<rank, source>>
  BY <1>3 DEF RankHasSource
<1>4. QED
  BY <1>1, <1>2, <1>3, StepKinds DEF PlayerStep, Given, Spent, Second, players

\* All power comes from a password, through any logins, appointments and /doas
\* (Client::promote, Commands::exec).
THEOREM PowerFromPasswords == Spec => []PowerComesFromPasswords
<1>1. Init => RankHasSource
  BY DEF Init, RankHasSource
<1>2. TypeOK /\ RankHasSource => PowerComesFromPasswords
  BY DEF TypeOK, RankHasSource, PowerComesFromPasswords
<1>3. QED
  BY <1>1, <1>2, TypeCorrect, SourceStep, PTL DEF Spec

\* Whoever is removed or loses rank did it, or was below the one who did.
Overruled(p) == p \notin clients' \/ rank'[p] < rank[p]
Rightly(p) == doer' = p \/ rank[doer'] > rank[p] \/ rank[doer'] = ADMIN

\* The one whose line it is runs it, or is an admin.
LEMMA ExecBy ==
  ASSUME NEW t \in Player, NEW cl \in Player, NEW cmd, Exec(t, cl, cmd)
  PROVE  doer' = t /\ (t = cl \/ rank[t] = ADMIN)
BY DEF Exec, Finds, admincmds, modcmds, usrcmds

LEMMA OverruledRightly ==
  ASSUME TypeOK, [Next]_vars, NEW p \in clients, Overruled(p)
  PROVE  Rightly(p)
<1>1. ASSUME NEW q \in Player, Join(q) \/ Leave(q) \/ PutPx(q)
      PROVE  Rightly(p)
  BY <1>1 DEF Join, Leave, PutPx, Gone, promote, TypeOK, Overruled, Rightly
<1>2. ASSUME NEW t \in Player, NEW cl \in Player, OwnCommands(t, cl)
      PROVE  Rightly(p)
  <2>1. p = cl
    BY <1>2 DEF OwnCommands, pass, modlogin, adminlogin, promote, Gone, TypeOK, Overruled
  <2>2. doer' = t /\ (t = cl \/ rank[t] = ADMIN)
    BY <1>2, ExecBy DEF OwnCommands, pass, modlogin, adminlogin
  <2>3. QED
    BY <2>1, <2>2 DEF Rightly
<1>3. ASSUME NEW t \in Player, NEW cl \in Player, NEW target \in Player,
             Moderation(t, cl, target)
      PROVE  Rightly(p)
  <2>1. doer' = t /\ (t = cl \/ rank[t] = ADMIN)
    BY <1>3, ExecBy DEF Moderation, kick, setrank, setpbucket
  <2>2. p = target /\ rank[target] < rank[cl]
    BY <1>3 DEF Moderation, kick, setrank, setpbucket, MayKick, MaySetRank, promote, Gone,
                TypeOK, Overruled
  <2>3. QED
    BY <2>1, <2>2 DEF Rightly, TypeOK
<1>4. CASE Second \/ UNCHANGED vars \/ \E t, cl \in Player : WorldCommands(t, cl)
  BY <1>4 DEF Second, vars, WorldCommands, reload, restrict, TypeOK, Overruled
<1>5. QED
  BY <1>1, <1>2, <1>3, <1>4 DEF Next

\* Nobody is removed or loses rank but through a player above, an admin or
\* itself, whatever is typed through /doas (Commands::exec, kick, setrank).
THEOREM NoneOverruled == Spec => NobodyIsOverruled
<1>1. TypeOK /\ [Next]_vars =>
        [\A p \in clients : Overruled(p) => Rightly(p)]_vars
  BY OverruledRightly
<1>2. Spec => [][\A p \in clients : Overruled(p) => Rightly(p)]_vars
  BY <1>1, TypeCorrect, PTL DEF Spec
<1>3. QED
  BY <1>2 DEF NobodyIsOverruled, Overruled, Rightly

-----------------------------------------------------------------------------
(* Quotas. *)

\* What QuotaFitsRank says of the quota b of a player of rank r.
Fits(b, r) ==
  /\ r = NONE => b.rate = 0 /\ b.allowance = 0
  /\ r = USER => b.rate \in PaintRates /\ b.per = UserPer
  /\ r = MODERATOR => b.rate \in PaintRates /\ b.per = ModPer

\* A promotion gives the quota of the new rank; that of an admin is not looked at.
LEMMA PromotionFits ==
  ASSUME TypeOK, NEW p \in Player, NEW b \in Buckets, NEW r \in NONE..ADMIN, promote(p, b, r)
  PROVE  Fits(pixupdlimit'[p], rank'[p])
<1>1. rank'[p] = r
  BY DEF promote, TypeOK
<1>2. CASE r = ADMIN
  BY <1>1, <1>2 DEF Fits
<1>3. ASSUME NEW n \in Rates, NEW q \in Pers, set_pbucket(p, b, n, q)
      PROVE  pixupdlimit'[p].rate = n /\ pixupdlimit'[p].per = q
             /\ (n = 0 => pixupdlimit'[p].allowance = 0)
  <2>1. pixupdlimit'[p] = set(b, n, q)
    BY <1>3 DEF set_pbucket, TypeOK
  <2>2. QED
    BY <2>1, SetBucket
<1>4. paintrate \in PaintRates /\ paintrate \in Rates
      /\ 0 \in Rates /\ 1 \in Pers /\ UserPer \in Pers /\ ModPer \in Pers
  BY CommandsAssumption DEF TypeOK
<1>5. CASE r = NONE
  BY <1>1, <1>3, <1>4, <1>5 DEF promote, Fits
<1>6. CASE r = USER
  BY <1>1, <1>3, <1>4, <1>6 DEF promote, Fits
<1>7. CASE r = MODERATOR
  BY <1>1, <1>3, <1>4, <1>7 DEF promote, Fits
<1>8. QED
  BY <1>2, <1>5, <1>6, <1>7

\* Spending and time keep rate and period, and give nothing at rate 0.
LEMMA UseFits ==
  ASSUME NEW b \in Buckets, NEW r \in NONE..ADMIN, Fits(b, r)
  PROVE  Fits(AfterSpend(b, 1), r) /\ Fits(Later(b), r)
<1>1. /\ AfterSpend(b, 1).rate = b.rate /\ AfterSpend(b, 1).per = b.per
      /\ AfterSpend(b, 1) \in Buckets
      /\ Later(b).rate = b.rate /\ Later(b).per = b.per /\ Later(b).allowance = b.allowance
  BY SpendBucket, LaterBucket
<1>2. r = NONE => AfterSpend(b, 1).allowance = 0
  <2>1. SUFFICES ASSUME r = NONE
                 PROVE  AfterSpend(b, 1).allowance = 0
    OBVIOUS
  <2>2. b.rate = 0
    BY <2>1 DEF Fits
  <2>3. AfterSpend(b, 1).allowance <= Allowance(b) /\ Allowance(b) = 0
    BY <2>2, SpendBucket, AllowanceType
  <2>4. AfterSpend(b, 1).allowance \in Nat
    BY <1>1, BucketFields
  <2>5. QED
    BY <2>3, <2>4
<1>3. QED
  BY <1>1, <1>2 DEF Fits

LEMMA QuotaParts ==
  QuotaFitsRank <=> \A p \in clients \ gifted : Fits(pixupdlimit[p], rank[p])
BY DEF QuotaFitsRank, Fits

LEMMA QuotaStep == TypeOK /\ QuotaFitsRank /\ [Next]_vars => QuotaFitsRank'
<1> SUFFICES ASSUME TypeOK, QuotaFitsRank, [Next]_vars, NEW p \in clients' \ gifted'
             PROVE  Fits(pixupdlimit'[p], rank'[p])
  BY DEF QuotaFitsRank, Fits
<1>1. p \in Player
  BY TypeStep DEF TypeOK
<1>2. p \in clients \ gifted => Fits(pixupdlimit[p], rank[p])
  BY QuotaParts
<1>3. ASSUME NEW x \in Player, Promoted(x)
      PROVE  Fits(pixupdlimit'[p], rank'[p])
  <2>1. PICK b \in Buckets, r \in NONE..ADMIN :
          promote(x, b, r) /\ clients' = clients \cup {x}
    BY <1>3 DEF Promoted
  <2>2. CASE p = x
    BY <2>1, <2>2, PromotionFits
  <2>3. CASE p # x
    <3>1. /\ pixupdlimit'[p] = pixupdlimit[p] /\ rank'[p] = rank[p]
          /\ p \in clients \ gifted
      BY <1>1, <2>1, <2>3 DEF promote, set_pbucket, TypeOK
    <3>2. QED
      BY <1>2, <3>1
  <2>4. QED
    BY <2>2, <2>3
<1>4. ASSUME NEW x \in Player, Gone(x)
      PROVE  Fits(pixupdlimit'[p], rank'[p])
  <2>1. /\ pixupdlimit'[p] = pixupdlimit[p] /\ rank'[p] = rank[p]
        /\ p \in clients \ gifted
    BY <1>1, <1>4 DEF Gone, TypeOK
  <2>2. QED
    BY <1>2, <2>1
<1>5. ASSUME NEW x \in Player, Given(x)
      PROVE  Fits(pixupdlimit'[p], rank'[p])
  <2>1. /\ pixupdlimit'[p] = pixupdlimit[p] /\ rank'[p] = rank[p]
        /\ p \in clients \ gifted
    BY <1>1, <1>5 DEF Given, set_pbucket, TypeOK
  <2>2. QED
    BY <1>2, <2>1
<1>6. ASSUME NEW x \in Player, Spent(x)
      PROVE  Fits(pixupdlimit'[p], rank'[p])
  <2>1. p \in clients \ gifted /\ rank'[p] = rank[p] /\ rank[p] \in NONE..ADMIN
        /\ pixupdlimit[p] \in Buckets
    BY <1>1, <1>6 DEF Spent, TypeOK
  <2>2. pixupdlimit'[p] = pixupdlimit[p] \/ pixupdlimit'[p] = AfterSpend(pixupdlimit[p], 1)
    BY <1>1, <1>6 DEF Spent, TypeOK
  <2>3. QED
    BY <1>2, <2>1, <2>2, UseFits
<1>7. CASE Second
  <2>1. p \in clients \ gifted /\ rank'[p] = rank[p] /\ rank[p] \in NONE..ADMIN
        /\ pixupdlimit[p] \in Buckets /\ pixupdlimit'[p] = Later(pixupdlimit[p])
    BY <1>1, <1>7 DEF Second, TypeOK
  <2>2. QED
    BY <1>2, <2>1, UseFits
<1>8. CASE UNCHANGED players
  BY <1>2, <1>8 DEF players
<1>9. QED
  BY <1>3, <1>4, <1>5, <1>6, <1>7, <1>8, StepKinds DEF PlayerStep

\* The quota of pixels follows the rank through joins, logins, passwords and
\* appointments (Client::promote, Limiter::set).
THEOREM QuotaFits == Spec => []QuotaFitsRank
<1>1. Init => QuotaFitsRank
  BY DEF Init, QuotaFitsRank
<1>2. QED
  BY <1>1, TypeCorrect, QuotaStep, PTL DEF Spec

\* What was drawn over a quota and what may still be drawn are together no more
\* than its rate.
WithinRate(e, b) == e + Allowance(b) <= b.rate * Den
AllWithinRate == \A p \in Player : WithinRate(excess[p], pixupdlimit[p])

LEMMA SpendWithin ==
  ASSUME NEW b \in Buckets, NEW e \in Nat, WithinRate(e, b)
  PROVE  /\ CanSpend(b, 1) => WithinRate(e + Den, AfterSpend(b, 1))
         /\ ~CanSpend(b, 1) => WithinRate(e, AfterSpend(b, 1))
<1> DEFINE a == AfterSpend(b, 1)
<1>1. /\ a \in Buckets /\ a.rate = b.rate /\ a.since = 0
      /\ CanSpend(b, 1) => a.allowance = Allowance(b) - Den
      /\ ~CanSpend(b, 1) => a.allowance = Allowance(b)
  BY SpendBucket
<1>2. PerSecond(a) \in Nat /\ a.allowance \in Nat /\ a.rate * Den \in Nat
      /\ a.allowance <= a.rate * Den
  BY <1>1, BucketFields, PerSecondType
<1>3. 0 * PerSecond(a) = 0
  BY <1>2
<1> HIDE DEF a
<1>4. Allowance(a) = a.allowance
  BY <1>1, <1>2, <1>3 DEF Allowance, Least
<1>5. Allowance(b) \in Nat /\ b.rate * Den \in Nat /\ Den \in Nat
  BY AllowanceType, BucketFields, LimiterAssumption
<1>6. CanSpend(b, 1) => WithinRate(e + Den, a)
  BY <1>1, <1>4, <1>5 DEF WithinRate
<1>7. ~CanSpend(b, 1) => WithinRate(e, a)
  BY <1>1, <1>4, <1>5 DEF WithinRate
<1>8. QED
  BY <1>6, <1>7 DEF a

LEMMA LaterWithin ==
  ASSUME NEW b \in Buckets, NEW e \in Nat, WithinRate(e, b)
  PROVE  WithinRate(IF e > PerSecond(b) THEN e - PerSecond(b) ELSE 0, Later(b))
<1>1. /\ Later(b) \in Buckets /\ Later(b).rate = b.rate
      /\ Allowance(Later(b)) <= Allowance(b) + PerSecond(b)
  BY LaterBucket
<1>2. Allowance(Later(b)) \in Nat /\ Allowance(Later(b)) <= Later(b).rate * Den
  BY <1>1, AllowanceType
<1>3. Allowance(b) \in Nat /\ PerSecond(b) \in Nat /\ b.rate * Den \in Nat
  BY AllowanceType, PerSecondType, BucketFields
<1>4. QED
  BY <1>1, <1>2, <1>3 DEF WithinRate

LEMMA FreshWithin ==
  ASSUME NEW b \in Buckets
  PROVE  WithinRate(0, b)
BY AllowanceType, BucketFields DEF WithinRate

LEMMA WithinStep == TypeOK /\ AllWithinRate /\ [Next]_vars => AllWithinRate'
<1> SUFFICES ASSUME TypeOK, AllWithinRate, [Next]_vars, NEW p \in Player
             PROVE  WithinRate(excess'[p], pixupdlimit'[p])
  BY DEF AllWithinRate, WithinRate
<1>1. WithinRate(excess[p], pixupdlimit[p])
  BY DEF AllWithinRate
<1>2. pixupdlimit[p] \in Buckets /\ excess[p] \in Nat /\ pixupdlimit'[p] \in Buckets
  BY TypeStep DEF TypeOK
\* A quota that is set anew begins with no excess.
<1>3. ASSUME excess'[p] = 0 \/ UNCHANGED <<excess[p], pixupdlimit[p]>>
      PROVE  WithinRate(excess'[p], pixupdlimit'[p])
  <2>1. CASE excess'[p] = 0
    BY <1>2, <2>1, FreshWithin
  <2>2. CASE UNCHANGED <<excess[p], pixupdlimit[p]>>
    BY <1>1, <2>2
  <2>3. QED
    BY <1>3, <2>1, <2>2
<1>4. ASSUME NEW x \in Player, Promoted(x) \/ Gone(x) \/ Given(x)
      PROVE  excess'[p] = 0 \/ UNCHANGED <<excess[p], pixupdlimit[p]>>
  <2>1. CASE Promoted(x)
    <3>1. PICK b \in Buckets, r \in NONE..ADMIN :
            promote(x, b, r) /\ (r = ADMIN => b = pixupdlimit[x])
      BY <2>1 DEF Promoted
    <3>2. QED
      BY <3>1 DEF promote, set_pbucket, TypeOK
  <2>2. CASE Gone(x) \/ Given(x)
    BY <2>2 DEF Gone, Given, set_pbucket, TypeOK
  <2>3. QED
    BY <1>4, <2>1, <2>2
<1>5. ASSUME NEW x \in Player, Spent(x)
      PROVE  WithinRate(excess'[p], pixupdlimit'[p])
  <2>1. CASE p # x
    <3>1. UNCHANGED <<excess[p], pixupdlimit[p]>>
      BY <1>5, <2>1 DEF Spent, TypeOK
    <3>2. QED
      BY <1>3, <3>1
  <2>2. CASE p = x /\ CanSpend(pixupdlimit[p], 1)
    <3>1. /\ excess'[p] = excess[p] + Den
          /\ pixupdlimit'[p] = AfterSpend(pixupdlimit[p], 1)
      BY <1>5, <2>2 DEF Spent, TypeOK
    <3>2. QED
      BY <1>1, <1>2, <2>2, <3>1, SpendWithin
  <2>3. CASE p = x /\ ~CanSpend(pixupdlimit[p], 1)
    <3>1. /\ excess'[p] = excess[p]
          /\ pixupdlimit'[p] = AfterSpend(pixupdlimit[p], 1)
      BY <1>5, <2>3 DEF Spent, TypeOK
    <3>2. QED
      BY <1>1, <1>2, <2>3, <3>1, SpendWithin
  <2>4. QED
    BY <2>1, <2>2, <2>3
<1>6. CASE Second
  <2>1. /\ pixupdlimit'[p] = Later(pixupdlimit[p])
        /\ excess'[p] = IF excess[p] > PerSecond(pixupdlimit[p])
                        THEN excess[p] - PerSecond(pixupdlimit[p]) ELSE 0
    BY <1>6 DEF Second
  <2>2. QED
    BY <1>1, <1>2, <2>1, LaterWithin
<1>7. CASE UNCHANGED players
  BY <1>3, <1>7 DEF players
<1>8. QED
  BY <1>3, <1>4, <1>5, <1>6, <1>7, StepKinds DEF PlayerStep

\* In no time more is drawn than the rate and what that time adds, however often
\* spending is tried and refused (Limiter::can_spend).
THEOREM SpendingBounded == Spec => []SpendingIsBounded
<1>1. Init => AllWithinRate
  BY NewBucket, FreshWithin DEF Init, AllWithinRate
<1>2. TypeOK /\ AllWithinRate => SpendingIsBounded
  <2> SUFFICES ASSUME TypeOK, AllWithinRate, NEW p \in clients
               PROVE  excess[p] <= pixupdlimit[p].rate * Den
    BY DEF SpendingIsBounded
  <2>1. pixupdlimit[p] \in Buckets /\ excess[p] \in Nat
        /\ WithinRate(excess[p], pixupdlimit[p])
    BY DEF TypeOK, AllWithinRate
  <2>2. Allowance(pixupdlimit[p]) \in Nat /\ pixupdlimit[p].rate * Den \in Nat
    BY <2>1, AllowanceType, BucketFields
  <2>3. QED
    BY <2>1, <2>2 DEF WithinRate
<1>3. QED
  BY <1>1, <1>2, TypeCorrect, WithinStep, PTL DEF Spec
=============================================================================
