----------------------------- MODULE MCWorldStore -----------------------------
(* Small instances of WorldStore, with all chunks in one region: objects and
   chunks are interchangeable, and what was drawn on a chunk that the properties
   except is not told apart. *)
EXTENDS WorldStore, TLC

OneRegion == [c \in Chunk |-> CHOOSE r \in Region : TRUE]
View == <<control, memory, disk, Doubtful, lost # {}, rivals,
          [c \in Chunk \ Doubtful |-> <<canvas[c], kept[c]>>]>>
Symmetry == Permutations(Obj) \cup Permutations(Chunk)
=============================================================================
