------------------------------ MODULE Limiter ------------------------------
(***************************************************************************)
(* The token bucket of src/limiter.cpp: rate things every per seconds, and *)
(* at most rate of them at once.  What has accumulated is computed when it *)
(* is asked for, at the rate of that moment.                               *)
(*                                                                         *)
(* The code counts in float; here an allowance is an integer number of     *)
(* parts of a thing, Den to a thing, so that a second always adds a whole  *)
(* number of parts.  Seconds beyond MaxWait change nothing: by then every  *)
(* bucket is full.                                                         *)
(***************************************************************************)
EXTENDS Naturals

CONSTANTS
  Rates,    \* values of rate
  Pers,     \* values of per
  Den,      \* parts of a thing
  MaxWait   \* bound: seconds since last_check that are told apart

ASSUME LimiterAssumption ==
  /\ Rates \subseteq Nat
  /\ Pers \subseteq Nat \ {0}
  /\ Den \in Nat \ {0} /\ \A p \in Pers : Den % p = 0
  /\ MaxWait \in Nat /\ \A p \in Pers : p <= MaxWait

Buckets == {b \in [rate : Rates, per : Pers, allowance : Nat, since : 0..MaxWait] :
              b.allowance <= b.rate * Den}

Least(a, b) == IF a < b THEN a ELSE b

\* The constructor: full, and last_check is the clock's epoch.
Bucket(rate, per) ==
  [rate |-> rate, per |-> per, allowance |-> rate * Den, since |-> MaxWait]

set(b, nrate, nper) ==
  [b EXCEPT !.rate = nrate,
            !.per = IF nper < 1 THEN 1 ELSE nper,
            !.allowance = Least(@, nrate * Den)]

PerSecond(b) == (b.rate * Den) \div b.per
Allowance_uncapped(b) ==  \* Mutant: allowance > rate is not looked at.
  b.allowance + b.since * PerSecond(b)
Allowance(b) == Least(b.allowance + b.since * PerSecond(b), b.rate * Den)

\* can_spend: its result, and the bucket it leaves.
CanSpend(b, count) == Allowance(b) >= count * Den
AfterSpend_last_check_kept(b, count) ==  \* Mutant: a refusal leaves last_check.
  [b EXCEPT !.allowance = IF CanSpend(b, count) THEN Allowance(b) - count * Den
                                                ELSE Allowance(b),
            !.since = IF CanSpend(b, count) THEN 0 ELSE @]
AfterSpend(b, count) ==
  [b EXCEPT !.allowance = IF CanSpend(b, count) THEN Allowance(b) - count * Den
                                                ELSE Allowance(b),
            !.since = 0]

\* A second passes.
Later(b) == [b EXCEPT !.since = Least(@ + 1, MaxWait)]
=============================================================================
