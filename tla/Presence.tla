------------------------------ MODULE Presence ------------------------------
(***************************************************************************)
(* What a world promises about its players, whatever the batches, limits   *)
(* and timers of src/world.cpp: an id stands for one player, who enters,   *)
(* moves and leaves once; and what a player is told about another is the   *)
(* truth at the moment it is told.                                         *)
(***************************************************************************)
CONSTANTS
  Id, Pos,
  Nothing,      \* what a player has not been told; not a position
  Unborn, Gone  \* of an id that was not yet, or is no longer, a player's

VARIABLES
  status,  \* status[i]: where player i is, or that it has not come or has left
  told     \* told[i][j]: what player i was last told of player j

presence == <<status, told>>

NotTold == [j \in Id |-> Nothing]
Here(i) == status[i] \in Pos
Truth(i) == IF Here(i) THEN status[i] ELSE Nothing

PresenceInit ==
  /\ status = [i \in Id |-> Unborn]
  /\ told = [i \in Id |-> NotTold]

Enter(i, p) ==
  /\ status[i] = Unborn
  /\ status' = [status EXCEPT ![i] = p]
  /\ UNCHANGED told

Walk(i, p) ==
  /\ Here(i)
  /\ status' = [status EXCEPT ![i] = p]
  /\ \/ UNCHANGED told
     \/ told' = [told EXCEPT ![i][i] = p]

Depart(i) ==
  /\ Here(i)
  /\ status' = [status EXCEPT ![i] = Gone]
  /\ told' = [told EXCEPT ![i] = NotTold]

\* The last player leaves and the world closes: the next one is a new world.
Close(i) ==
  /\ Here(i)
  /\ \A j \in Id \ {i} : ~Here(j)
  /\ PresenceInit'

\* Everyone here is told the truth about the same players.
Tell(about) ==
  /\ told' = [i \in Id |->
                IF Here(i) THEN [j \in Id |-> IF j \in about THEN Truth(j)
                                                             ELSE told[i][j]]
                           ELSE told[i]]
  /\ UNCHANGED status

PresenceNext ==
  \/ \E i \in Id : \/ Depart(i) \/ Close(i)
                   \/ \E p \in Pos : Enter(i, p) \/ Walk(i, p)
  \/ \E about \in SUBSET Id : Tell(about)

PresenceSpec == PresenceInit /\ [][PresenceNext]_presence
=============================================================================
