---------------------------- MODULE MCRegionFile ----------------------------
(* A small instance of RegionFile: one region of its own for the last chunk. *)
EXTENDS RegionFile, TLC
CONSTANTS r1, r2, c1, c2, c3, c4

Regions == {r1, r2}
Cells == {c1, c2, c3, c4}
TwoRegions == [c \in Cells |-> IF c = c4 THEN r2 ELSE r1]
Symmetry == Permutations(Content) \cup Permutations({c1, c2, c3})
=============================================================================
