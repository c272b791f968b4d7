----------------------------- MODULE MCCommands -----------------------------
(* A small instance of Commands, in which one player draws. *)
EXTENDS Commands, TLC
CONSTANTS p1, p2, p3

Players == {p1, p2, p3}
TwoGifts == {<<0, 1>>, <<2, 1>>}
Symmetry == Permutations({p2, p3})
=============================================================================
