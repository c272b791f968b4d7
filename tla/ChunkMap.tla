------------------------------ MODULE ChunkMap ------------------------------
(***************************************************************************)
(* What Database promises about chunks, whatever its files, handles and    *)
(* caches: a map from cells to contents in which one cell at a time is     *)
(* put.  As long as nothing is killed, a put changes its own cell only.    *)
(* A kill can leave the cell that was put for the first time loose; a cell *)
(* put for the first time later may then get the same place, and from then *)
(* on a put of either is a write to both, even if both were stored: these  *)
(* clash.  A kill while a file is made leaves its cells dead: none of them *)
(* was stored, and none ever is.                                           *)
(***************************************************************************)
CONSTANTS
  Cell, Content,
  Absent,   \* of a cell for which nothing is found
  Unknown,  \* of a cell that reads as a mixture
  Nobody    \* no cell is being put

VARIABLES
  slots,    \* what is found for each cell
  putting,  \* the cell and content of the put in progress
  loose,    \* cells that have a place but were not completely put
  clash,    \* pairs of cells whose places overlap
  dead      \* cells that cannot be put

chunkMap == <<slots, putting, loose, clash, dead>>

MapInit ==
  /\ slots = [c \in Cell |-> Absent]
  /\ putting = Nobody
  /\ loose = {} /\ clash = {} /\ dead = {}

Begin(c, v) ==
  /\ putting = Nobody
  /\ putting' = [cell |-> c, content |-> v]
  /\ UNCHANGED <<slots, loose, clash, dead>>

\* The first place of a cell: those of loose cells may be in it.
Locate ==
  LET p == putting.cell IN
  /\ putting # Nobody
  /\ slots[p] = Absent /\ p \notin loose /\ p \notin dead
  /\ \A d \in Cell : <<p, d>> \notin clash
  /\ \E D \in SUBSET loose : clash' = clash \cup ({p} \X D) \cup (D \X {p})
  /\ loose' = loose \cup {p}
  /\ UNCHANGED <<slots, putting, dead>>

\* A write to the place of p leaves alone what does not clash with it.
Write(p, results) ==
  /\ slots' \in [Cell -> Content \cup {Absent, Unknown}]
  /\ slots'[p] \in results
  /\ loose' \subseteq loose
  /\ \A d \in Cell \ {p} : <<p, d>> \notin clash =>
       slots'[d] = slots[d] /\ (d \in loose => d \in loose')
  /\ UNCHANGED clash

Finish ==
  LET p == putting.cell IN
  /\ putting # Nobody
  /\ slots[p] # Absent \/ p \in loose
  /\ Write(p, {putting.content})
  /\ p \notin loose'
  /\ putting' = Nobody
  /\ UNCHANGED dead

Lose ==
  /\ putting # Nobody /\ putting.cell \in dead
  /\ putting' = Nobody
  /\ UNCHANGED <<slots, loose, clash, dead>>

Kill ==
  LET p == putting.cell IN
  /\ putting # Nobody
  /\ putting' = Nobody
  /\ \/ /\ Write(p, {slots[p], putting.content, Unknown})
        /\ UNCHANGED dead
     \/ /\ p \in dead'
        /\ \E D \in SUBSET {c \in Cell \ loose : slots[c] = Absent} : dead' = dead \cup D
        /\ UNCHANGED <<slots, loose, clash>>

MapNext ==
  \/ \E c \in Cell, v \in Content : Begin(c, v)
  \/ Locate \/ Finish \/ Lose \/ Kill

MapSpec == MapInit /\ [][MapNext]_chunkMap
=============================================================================
