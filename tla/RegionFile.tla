----------------------------- MODULE RegionFile -----------------------------
(***************************************************************************)
(* The region files of one world (src/database.cpp, get_handle, get_chunk, *)
(* set_chunk).  A file begins with a header of one pointer for each chunk  *)
(* of the region; a chunk that is stored for the first time gets the end   *)
(* of the file as its place.  A pointer is bytes 1 to 3 of a position, so  *)
(* positions are counted in units of 256 bytes: the header has 12 of them, *)
(* a chunk 3.                                                              *)
(*                                                                         *)
(* Everything runs on one thread, but set_chunk reaches the file in up to  *)
(* four writes, each flushed before the next by a seek, and the process    *)
(* may be killed between them.  The data may cross a page of the file,     *)
(* which again is a multiple of a unit: a kill can leave its first units.  *)
(* Failing disks and the loss of written pages are not modelled.           *)
(***************************************************************************)
EXTENDS Integers, Sequences, FiniteSets

CONSTANTS
  Region,          \* region files
  Cell, RegionOf,  \* chunks, and the region of each
  Content,         \* contents of a chunk: one value fills all its units
  Zero,            \* a unit of the header
  Absent, Unknown, \* as in ChunkMap
  HeaderUnits,     \* 3072 / 256
  ChunkUnits,      \* 768 / 256
  MaxHandles,      \* WORLD_MAX_FILE_HANDLES
  MaxNonexistant   \* the limit of nonexistant (512)

ASSUME RegionAssumption ==
  /\ IsFiniteSet(Region)
  /\ IsFiniteSet(Cell) /\ RegionOf \in [Cell -> Region]
  /\ Zero \notin Content /\ Absent \notin Content /\ Unknown \notin Content
  /\ Absent # Unknown /\ Absent \notin [1..ChunkUnits -> Content \cup {Zero}]
  /\ HeaderUnits \in Nat \ {0} /\ ChunkUnits \in Nat \ {0}
  /\ MaxHandles \in Nat /\ MaxNonexistant \in Nat

VARIABLES
  files,        \* the region files that exist
  units,        \* what each file holds, unit by unit
  ptr,          \* the pointer of each chunk; 0 if it has no place
  handles,      \* Database::handles: the open files
  bad,          \* those of them whose stream has failed
  nonexistant,  \* Database::nonexistant
  call          \* the set_chunk that is running

disk == <<files, units, ptr>>
memory == <<handles, bad, nonexistant>>
vars == <<disk, memory, call>>

Idle == [at |-> "idle"]
Stage == {"made", "open", "placed"}  \* file made, file open, pointer written

TypeOK ==
  /\ files \subseteq Region
  /\ units \in [Region -> Seq(Content \cup {Zero})]
  /\ ptr \in [Cell -> Nat]
  /\ handles \subseteq files
  /\ bad \subseteq handles
  /\ nonexistant \subseteq Region
  /\ call \in {Idle} \cup [at : Stage, cell : Cell, content : Content]

Init ==
  /\ files = {}
  /\ units = [r \in Region |-> <<>>]
  /\ ptr = [c \in Cell |-> 0]
  /\ handles = {} /\ bad = {} /\ nonexistant = {}
  /\ call = Idle

-----------------------------------------------------------------------------
Size(r) == Len(units[r])
Place(c) == ptr[c] + 1 .. ptr[c] + ChunkUnits

\* A stream that has failed is closed and opened again.
IsOpen(r) == r \in handles \ bad

\* r becomes an open handle.  A full cache first closes the last handle that
\* its iteration meets, which may be any.
InsertedInto(H, r) ==
  IF Cardinality(H) <= MaxHandles THEN {H \cup {r}}
  ELSE {(H \ {victim}) \cup {r} : victim \in H}

Opened_again(r) ==  \* Mutant: a failed stream stays in handles.
  \E H \in IF r \in handles THEN {handles} ELSE InsertedInto(handles, r) :
    handles' = H /\ UNCHANGED bad
Opened(r) ==
  \E H \in IF IsOpen(r) THEN {handles} ELSE InsertedInto(handles \ {r}, r) :
    /\ handles' = H
    /\ bad' = (bad \ {r}) \cap H

MissingWithout_all(r) == nonexistant  \* Mutant: a made file stays missing.
MissingWithout(r) == nonexistant \ {r}

\* get_handle(create) up to where a file that does not exist is made.
SetChunk(c, v) ==
  LET r == RegionOf[c] IN
  /\ call = Idle
  /\ nonexistant' = MissingWithout(r)
  /\ \/ /\ IsOpen(r) \/ r \in files
        /\ Opened(r)
        /\ call' = [at |-> "open", cell |-> c, content |-> v]
        /\ UNCHANGED files
     \/ /\ ~IsOpen(r) /\ r \notin files
        /\ files' = files \cup {r}
        /\ call' = [at |-> "made", cell |-> c, content |-> v]
        /\ UNCHANGED <<handles, bad>>
  /\ UNCHANGED <<units, ptr>>

WriteHeader ==
  /\ call.at = "made"
  /\ LET r == RegionOf[call.cell] IN
     /\ units' = [units EXCEPT ![r] = [i \in 1..HeaderUnits |-> Zero]]
     /\ Opened(r)
  /\ call' = [call EXCEPT !.at = "open"]
  /\ UNCHANGED <<files, ptr, nonexistant>>

PlaceAtEnd_rounded(r) == Size(r) + 1  \* Mutant: the end is rounded up.
PlaceAtEnd(r) == Size(r)

\* Without a header the pointer cannot be read: the stream fails and ignores
\* the writes that follow.  A chunk without a place gets the end of the file.
WritePointer ==
  /\ call.at = "open"
  /\ LET c == call.cell
         r == RegionOf[c] IN
     \/ /\ Size(r) = 0
        /\ bad' = bad \cup {r}
        /\ call' = Idle
        /\ UNCHANGED ptr
     \/ /\ Size(r) > 0
        /\ ptr' = [ptr EXCEPT ![c] = IF @ = 0 THEN PlaceAtEnd(r) ELSE @]
        /\ call' = [call EXCEPT !.at = "placed"]
        /\ UNCHANGED bad
  /\ UNCHANGED <<files, units, handles, nonexistant>>

\* The first n units of the content v of c are in the file.
Written(c, v, n) ==
  LET r == RegionOf[c]
      last == IF ptr[c] + n > Size(r) THEN ptr[c] + n ELSE Size(r)
  IN [units EXCEPT ![r] = [i \in 1..last |->
        IF i \in ptr[c] + 1 .. ptr[c] + n THEN v ELSE units[r][i]]]

WriteData ==
  /\ call.at = "placed"
  /\ units' = Written(call.cell, call.content, ChunkUnits)
  /\ call' = Idle
  /\ UNCHANGED <<files, ptr, memory>>

\* get_chunk: what it finds in the file of c, or Absent if it returns false.
InFile_unchecked(c) ==  \* Mutant: without the test of size - chunkpos.
  IF ptr[c] = 0 \/ Size(RegionOf[c]) < HeaderUnits THEN Absent
  ELSE [i \in 1..ChunkUnits |->
         IF ptr[c] + i <= Size(RegionOf[c]) THEN units[RegionOf[c]][ptr[c] + i] ELSE Zero]
InFile(c) ==
  IF \/ ptr[c] = 0
     \/ Size(RegionOf[c]) < HeaderUnits
     \/ Size(RegionOf[c]) - ptr[c] < ChunkUnits
  THEN Absent
  ELSE [i \in 1..ChunkUnits |-> units[RegionOf[c]][ptr[c] + i]]

\* Its result, which depends on the caches.
Answer(c) ==
  LET r == RegionOf[c] IN
  IF r \in nonexistant \/ (~IsOpen(r) /\ r \notin files) THEN Absent ELSE InFile(c)

GetChunk(c) ==
  LET r == RegionOf[c] IN
  /\ call = Idle
  /\ r \notin nonexistant
  /\ \/ /\ ~IsOpen(r) /\ r \notin files
        /\ nonexistant' = (IF Cardinality(nonexistant) >= MaxNonexistant
                           THEN {} ELSE nonexistant) \cup {r}
        /\ UNCHANGED <<handles, bad>>
     \/ /\ IsOpen(r) \/ r \in files
        /\ \E H \in IF IsOpen(r) THEN {handles} ELSE InsertedInto(handles \ {r}, r) :
             /\ handles' = H
             /\ bad' = (IF Size(r) = 0 THEN bad \cup {r} ELSE bad \ {r}) \cap H
        /\ UNCHANGED nonexistant
  /\ UNCHANGED <<disk, call>>

\* The Database is deleted, as is the process, and made again.
Reopen ==
  /\ call = Idle
  /\ handles' = {} /\ bad' = {} /\ nonexistant' = {}
  /\ UNCHANGED <<disk, call>>

Killed ==
  /\ call # Idle
  /\ \/ UNCHANGED units
     \/ /\ call.at = "placed"
        /\ \E n \in 1..ChunkUnits : units' = Written(call.cell, call.content, n)
  /\ handles' = {} /\ bad' = {} /\ nonexistant' = {}
  /\ call' = Idle
  /\ UNCHANGED <<files, ptr>>

Next ==
  \/ \E c \in Cell : \/ GetChunk(c)
                     \/ \E v \in Content : SetChunk(c, v)
  \/ WriteHeader \/ WritePointer \/ WriteData
  \/ Reopen \/ Killed

Spec == Init /\ [][Next]_vars

-----------------------------------------------------------------------------
\* No pointer leads out of its file: get_chunk's unsigned size - chunkpos never
\* wraps, and set_chunk never leaves a hole.  Only chunks with a place have data.
PointersInFile ==
  \A c \in Cell :
    /\ ptr[c] <= Size(RegionOf[c])
    /\ ptr[c] # 0 => ptr[c] >= HeaderUnits

\* The caches change no answer: get_chunk finds what is in the file, whatever was
\* evicted, has failed or was once missing; and the file in use is open.
CachesAreHarmless ==
  /\ call = Idle => \A c \in Cell : Answer(c) = InFile(c)
  /\ call.at \in {"open", "placed"} => IsOpen(RegionOf[call.cell])
  /\ Cardinality(handles) <= MaxHandles + 1

\* The map that the files keep.  A cell is loose while its place is not within
\* the file; places that share a unit clash; the file of a dead cell has no header.
Complete(c) == ptr[c] + ChunkUnits <= Size(RegionOf[c])
Overlaps(c, d) ==
  /\ RegionOf[c] = RegionOf[d] /\ c # d
  /\ ptr[c] # 0 /\ ptr[d] # 0
  /\ Place(c) \cap Place(d) # {}
SlotOf(c) ==
  IF InFile(c) = Absent THEN Absent
  ELSE IF \E v \in Content : InFile(c) = [i \in 1..ChunkUnits |-> v]
       THEN InFile(c)[1]
  ELSE Unknown
IsDead(r) ==
  /\ r \in files /\ Size(r) = 0
  /\ ~(call.at = "made" /\ r = RegionOf[call.cell])

Slots == [c \in Cell |-> SlotOf(c)]
Putting == IF call = Idle THEN Idle ELSE [cell |-> call.cell, content |-> call.content]
Loose == {c \in Cell : ptr[c] # 0 /\ ~Complete(c)}
Clash == {e \in Cell \X Cell : Overlaps(e[1], e[2])}
Dead == {c \in Cell : IsDead(RegionOf[c])}

M == INSTANCE ChunkMap WITH
       Nobody <- Idle, slots <- Slots, putting <- Putting,
       loose <- Loose, clash <- Clash, dead <- Dead

\* What get_chunk finds changes only by a put of that chunk, or of one that clashes
\* with it; and a place is given twice only because a kill between the pointer and
\* the data of a chunk (set_chunk) left the first place outside the file.
KeepsChunks == M!MapSpec
=============================================================================
