----------------------------- MODULE RegionProofs -----------------------------
(***************************************************************************)
(* Proofs about RegionFile, for any regions, chunks, contents and sizes of *)
(* header, chunk and caches.                                               *)
(***************************************************************************)
EXTENDS RegionFile, FiniteSetTheorems, SequenceTheorems, TLAPS

-----------------------------------------------------------------------------
(* Files. *)

Calling == [at : Stage, cell : Cell, content : Content]

\* The file of the call that runs.
Current == RegionOf[call.cell]

\* A file is empty, or it begins with a header; it is empty while it does not
\* exist and after it was made; only what is written has no place yet.
FilesWellFormed ==
  /\ \A r \in Region : Size(r) = 0 \/ Size(r) >= HeaderUnits
  /\ \A r \in Region \ files : units[r] = <<>>
  /\ call.at = "made" => units[Current] = <<>> /\ Current \in files
  /\ call.at = "placed" => ptr[call.cell] # 0

\* What is known to be missing is.
MissingIsMissing == nonexistant \cap files = {}
CallIsOpen == call.at \in {"open", "placed"} => IsOpen(Current)

FileInv == TypeOK /\ PointersInFile /\ FilesWellFormed /\ MissingIsMissing /\ CallIsOpen

LEMMA Constants ==
  /\ HeaderUnits \in Nat /\ HeaderUnits >= 1 /\ ChunkUnits \in Nat /\ ChunkUnits >= 1
  /\ \A c \in Cell : RegionOf[c] \in Region
BY RegionAssumption

LEMMA Sizes ==
  ASSUME TypeOK, NEW r \in Region
  PROVE  /\ Size(r) \in Nat /\ DOMAIN units[r] = 1..Size(r)
         /\ \A i \in 1..Size(r) : units[r][i] \in Content \cup {Zero}
BY DEF TypeOK, Size

\* A call that is not idle has a cell and a content.
LEMMA CallFields ==
  ASSUME TypeOK
  PROVE  /\ call.at \in Stage <=> call # Idle
         /\ call.at \in {"made", "open", "placed"} => call \in Calling
         /\ call \in Calling => call.cell \in Cell /\ call.content \in Content
                                /\ Current \in Region
         /\ call = Idle => call.at = "idle"
BY Constants DEF TypeOK, Idle, Stage, Calling, Current

\* The stages follow each other.
LEMMA NextStage ==
  ASSUME TypeOK, call \in Calling, NEW s \in Stage, call' = [call EXCEPT !.at = s]
  PROVE  /\ call' \in Calling /\ call'.at = s /\ call'.cell = call.cell
         /\ call'.content = call.content /\ Current' = Current
BY DEF Calling, Current

LEMMA WrittenUnits ==
  ASSUME TypeOK, PointersInFile, NEW c \in Cell, NEW v \in Content, NEW n \in 1..ChunkUnits,
         units' = Written(c, v, n), NEW r, r = RegionOf[c]
  PROVE  /\ units' \in [Region -> Seq(Content \cup {Zero})]
         /\ \A q \in Region \ {r} : units'[q] = units[q]
         /\ Len(units'[r]) >= ptr[c] + n /\ Len(units'[r]) >= Size(r)
         /\ Len(units'[r]) = ptr[c] + n \/ Len(units'[r]) = Size(r)
         /\ \A i \in ptr[c] + 1 .. ptr[c] + n : units'[r][i] = v
         /\ \A i \in 1..Size(r) : i \notin ptr[c] + 1 .. ptr[c] + n => units'[r][i] = units[r][i]
<1> DEFINE S == Content \cup {Zero}
           last == IF ptr[c] + n > Size(r) THEN ptr[c] + n ELSE Size(r)
           f == [i \in 1..last |-> IF i \in ptr[c] + 1 .. ptr[c] + n THEN v ELSE units[r][i]]
<1>1. r \in Region /\ Size(r) \in Nat /\ ptr[c] \in Nat /\ n \in Nat /\ ptr[c] <= Size(r)
  BY Constants, Sizes DEF TypeOK, PointersInFile
<1>2. last \in Nat /\ last >= ptr[c] + n /\ last >= Size(r)
      /\ (last = ptr[c] + n \/ last = Size(r))
  BY <1>1
<1>3. ASSUME NEW i \in 1..last
      PROVE  f[i] \in S
  <2>1. CASE i \in ptr[c] + 1 .. ptr[c] + n
    BY <2>1
  <2>2. CASE i \notin ptr[c] + 1 .. ptr[c] + n
    <3>1. i \in 1..Size(r)
      BY <1>1, <1>2, <2>2
    <3>2. units[r][i] \in S
      BY <1>1, <3>1, Sizes
    <3>3. QED
      BY <2>2, <3>2
  <2>3. QED
    BY <2>1, <2>2
<1>4. f \in Seq(S) /\ Len(f) = last
  <2>1. f = [i \in 1..last |-> f[i]]
    OBVIOUS
  <2> HIDE DEF f, last, S
  <2>2. f \in [1..last -> S]
    BY <1>3, <2>1
  <2>3. QED
    BY <1>2, <2>2
<1>5. units' = [units EXCEPT ![r] = f]
  BY DEF Written
<1>6. units'[r] = f /\ \A q \in Region \ {r} : units'[q] = units[q]
  BY <1>1, <1>5 DEF TypeOK
<1>7. units' \in [Region -> Seq(S)]
  BY <1>1, <1>4, <1>5 DEF TypeOK
<1>8. \A i \in ptr[c] + 1 .. ptr[c] + n : f[i] = v
  BY <1>1, <1>2
<1>9. \A i \in 1..Size(r) : i \notin ptr[c] + 1 .. ptr[c] + n => f[i] = units[r][i]
  BY <1>1, <1>2
<1> HIDE DEF f, last
<1>10. QED
  BY <1>2, <1>4, <1>6, <1>7, <1>8, <1>9, Zenon

\* Files only grow, and nothing else of them changes.
Grown(c) ==
  /\ units' \in [Region -> Seq(Content \cup {Zero})]
  /\ \A r \in Region \ {RegionOf[c]} : units'[r] = units[r]
  /\ Len(units'[RegionOf[c]]) >= Size(RegionOf[c])

LEMMA WrittenGrows ==
  ASSUME TypeOK, PointersInFile, NEW c \in Cell, NEW v \in Content, NEW n \in 1..ChunkUnits,
         units' = Written(c, v, n)
  PROVE  Grown(c)
BY WrittenUnits DEF Grown

LEMMA GrownFiles ==
  ASSUME TypeOK, PointersInFile, NEW c \in Cell, Grown(c), UNCHANGED ptr
  PROVE  PointersInFile'
<1> SUFFICES ASSUME NEW d \in Cell
             PROVE  ptr[d] <= Len(units'[RegionOf[d]]) /\ (ptr[d] # 0 => ptr[d] >= HeaderUnits)
  BY DEF PointersInFile, Size
<1>1. RegionOf[d] \in Region /\ RegionOf[c] \in Region /\ ptr[d] \in Nat
      /\ ptr[d] <= Size(RegionOf[d]) /\ (ptr[d] # 0 => ptr[d] >= HeaderUnits)
  BY Constants DEF TypeOK, PointersInFile
<1>2. Len(units'[RegionOf[d]]) >= Size(RegionOf[d])
  <2>1. Size(RegionOf[d]) \in Nat
    BY <1>1, Sizes
  <2>2. CASE RegionOf[d] = RegionOf[c]
    BY <2>2 DEF Grown
  <2>3. CASE RegionOf[d] # RegionOf[c]
    <3>1. units'[RegionOf[d]] = units[RegionOf[d]]
      BY <1>1, <2>3 DEF Grown
    <3>2. QED
      BY <2>1, <3>1 DEF Size
  <2>4. QED
    BY <2>2, <2>3
<1>3. Len(units'[RegionOf[d]]) \in Nat /\ Size(RegionOf[d]) \in Nat
  <2>1. units'[RegionOf[d]] \in Seq(Content \cup {Zero})
    BY <1>1 DEF Grown
  <2>2. QED
    BY <1>1, <2>1, Sizes
<1>4. QED
  BY <1>1, <1>2, <1>3

-----------------------------------------------------------------------------
(* The cache of open files. *)

HandlesBounded == Cardinality(handles) <= MaxHandles + 1

LEMMA SomeRegions ==
  ASSUME NEW H, H \subseteq Region
  PROVE  IsFiniteSet(H) /\ Cardinality(H) \in Nat
BY RegionAssumption, FS_Subset, FS_CardinalityType

LEMMA InsertedRegions ==
  ASSUME NEW G, G \subseteq Region, Cardinality(G) <= MaxHandles + 1, NEW r \in Region,
         NEW H \in InsertedInto(G, r)
  PROVE  /\ H \subseteq G \cup {r} /\ r \in H
         /\ Cardinality(H) <= MaxHandles + 1
<1>1. IsFiniteSet(G) /\ Cardinality(G) \in Nat /\ MaxHandles \in Nat
  BY SomeRegions, RegionAssumption
<1>2. CASE H = G \cup {r} /\ Cardinality(G) <= MaxHandles
  <2>1. Cardinality(G \cup {r}) = IF r \in G THEN Cardinality(G) ELSE Cardinality(G) + 1
    BY <1>1, FS_AddElement
  <2>2. QED
    BY <1>1, <1>2, <2>1
<1>3. ASSUME NEW x \in G, H = (G \ {x}) \cup {r}
      PROVE  Cardinality(H) <= MaxHandles + 1 /\ H \subseteq G \cup {r} /\ r \in H
  <2>1. IsFiniteSet(G \ {x}) /\ Cardinality(G \ {x}) = Cardinality(G) - 1
    BY <1>1, FS_RemoveElement
  <2>2. Cardinality((G \ {x}) \cup {r})
          = IF r \in G \ {x} THEN Cardinality(G \ {x}) ELSE Cardinality(G \ {x}) + 1
    BY <2>1, FS_AddElement
  <2>3. QED
    BY <1>1, <1>3, <2>1, <2>2
<1>4. QED
  BY <1>2, <1>3 DEF InsertedInto

\* Without its own entry, the cache is not larger.
LEMMA FewerRegions ==
  ASSUME NEW G, G \subseteq Region, Cardinality(G) <= MaxHandles + 1, NEW r \in Region
  PROVE  Cardinality(G \ {r}) <= MaxHandles + 1
<1>1. Cardinality(G \ {r}) <= Cardinality(G)
  BY SomeRegions, FS_Subset
<1>2. Cardinality(G \ {r}) \in Nat /\ Cardinality(G) \in Nat
  BY SomeRegions
<1>3. QED
  BY <1>1, <1>2, RegionAssumption

\* What handles may become when r is opened.
LEMMA HandleChoice ==
  ASSUME TypeOK, HandlesBounded, NEW r \in Region,
         NEW H \in IF IsOpen(r) THEN {handles} ELSE InsertedInto(handles \ {r}, r)
  PROVE  H \subseteq handles \cup {r} /\ r \in H /\ Cardinality(H) <= MaxHandles + 1
<1>1. handles \subseteq Region
  BY DEF TypeOK
<1>2. CASE IsOpen(r)
  BY <1>2 DEF IsOpen, HandlesBounded
<1>3. CASE ~IsOpen(r)
  <2>1. Cardinality(handles \ {r}) <= MaxHandles + 1
    BY <1>1, FewerRegions DEF HandlesBounded
  <2>2. H \in InsertedInto(handles \ {r}, r)
    BY <1>3
  <2>3. handles \ {r} \subseteq Region
    BY <1>1
  <2>4. H \subseteq (handles \ {r}) \cup {r} /\ r \in H /\ Cardinality(H) <= MaxHandles + 1
    BY <2>1, <2>2, <2>3, InsertedRegions
  <2>5. QED
    BY <2>4
<1>4. QED
  BY <1>2, <1>3

\* An opened file is open, and no other file is opened with it.
LEMMA OpenedIsOpen ==
  ASSUME TypeOK, HandlesBounded, NEW r \in Region, Opened(r)
  PROVE  /\ handles' \subseteq handles \cup {r} /\ bad' \subseteq handles'
         /\ r \in handles' /\ r \notin bad' /\ HandlesBounded'
BY HandleChoice DEF Opened, HandlesBounded

-----------------------------------------------------------------------------
(* The files are kept well formed, and the caches harmless. *)

LEMMA SetChunkInv ==
  ASSUME FileInv, HandlesBounded, NEW c \in Cell, NEW v \in Content, SetChunk(c, v)
  PROVE  FileInv' /\ HandlesBounded'
<1> DEFINE r == RegionOf[c]
<1>1. r \in Region /\ call = Idle /\ TypeOK
  BY Constants DEF SetChunk, FileInv
<1>2. nonexistant' = nonexistant \ {r} /\ nonexistant' \subseteq Region
  BY <1>1 DEF SetChunk, MissingWithout, TypeOK
<1>3. UNCHANGED <<units, ptr>>
  BY DEF SetChunk
<1>4. PointersInFile'
  BY <1>3 DEF FileInv, PointersInFile, Size
<1>5. CASE /\ IsOpen(r) \/ r \in files
           /\ Opened(r)
           /\ call' = [at |-> "open", cell |-> c, content |-> v]
           /\ UNCHANGED files
  <2>1. /\ handles' \subseteq handles \cup {r} /\ bad' \subseteq handles'
        /\ r \in handles' /\ r \notin bad' /\ HandlesBounded'
    BY <1>1, <1>5, OpenedIsOpen
  <2>2. call' \in Calling /\ call'.at = "open" /\ call'.cell = c
    BY <1>5 DEF Calling, Stage
  <2>3. TypeOK'
    BY <1>1, <1>2, <1>3, <1>5, <2>1, <2>2 DEF TypeOK, IsOpen, Calling
  <2>4. FilesWellFormed'
    BY <1>3, <1>5, <2>2 DEF FileInv, FilesWellFormed, Size
  <2>5. MissingIsMissing' /\ CallIsOpen'
    BY <1>2, <1>5, <2>1, <2>2 DEF FileInv, MissingIsMissing, CallIsOpen, IsOpen, Current
  <2>6. QED
    BY <1>4, <2>1, <2>3, <2>4, <2>5 DEF FileInv
<1>6. CASE /\ ~IsOpen(r) /\ r \notin files
           /\ files' = files \cup {r}
           /\ call' = [at |-> "made", cell |-> c, content |-> v]
           /\ UNCHANGED <<handles, bad>>
  <2>1. call' \in Calling /\ call'.at = "made" /\ call'.cell = c
    BY <1>6 DEF Calling, Stage
  <2>2. TypeOK' /\ HandlesBounded'
    BY <1>1, <1>2, <1>3, <1>6, <2>1 DEF TypeOK, Calling, HandlesBounded
  <2>3. units[r] = <<>>
    BY <1>1, <1>6 DEF FileInv, FilesWellFormed
  <2>4. FilesWellFormed'
    BY <1>1, <1>3, <1>6, <2>1, <2>3 DEF FileInv, FilesWellFormed, Size, Current
  <2>5. MissingIsMissing' /\ CallIsOpen'
    BY <1>2, <1>6, <2>1 DEF FileInv, MissingIsMissing, CallIsOpen
  <2>6. QED
    BY <1>4, <2>2, <2>4, <2>5 DEF FileInv
<1>7. QED
  BY <1>5, <1>6 DEF SetChunk

LEMMA WriteHeaderInv ==
  ASSUME FileInv, HandlesBounded, WriteHeader
  PROVE  FileInv' /\ HandlesBounded'
<1> DEFINE r == Current
           h == [i \in 1..HeaderUnits |-> Zero]
<1>1. TypeOK /\ call \in Calling /\ r \in Region /\ units[r] = <<>> /\ r \in files
  BY CallFields DEF FileInv, WriteHeader, FilesWellFormed
<1>2. /\ call' \in Calling /\ call'.at = "open" /\ call'.cell = call.cell /\ Current' = r
  BY <1>1, NextStage DEF WriteHeader, Stage
<1>3. /\ handles' \subseteq handles \cup {r} /\ bad' \subseteq handles'
      /\ r \in handles' /\ r \notin bad' /\ HandlesBounded'
  BY <1>1, OpenedIsOpen DEF WriteHeader, Current
<1>4. h \in Seq(Content \cup {Zero}) /\ Len(h) = HeaderUnits
  BY Constants
<1>5. units' = [units EXCEPT ![r] = h] /\ UNCHANGED <<files, ptr, nonexistant>>
  BY DEF WriteHeader, Current
<1>6. units'[r] = h /\ \A q \in Region \ {r} : units'[q] = units[q]
  BY <1>1, <1>5 DEF TypeOK
<1> HIDE DEF r, h
<1>7. TypeOK'
  <2>1. units' \in [Region -> Seq(Content \cup {Zero})]
    BY <1>1, <1>4, <1>5 DEF TypeOK
  <2>2. QED
    BY <1>1, <1>2, <1>3, <1>5, <2>1 DEF TypeOK, Calling
<1>8. PointersInFile'
  <2> SUFFICES ASSUME NEW d \in Cell
               PROVE  ptr[d] <= Len(units'[RegionOf[d]]) /\ (ptr[d] # 0 => ptr[d] >= HeaderUnits)
    BY <1>5 DEF PointersInFile, Size
  <2>1. RegionOf[d] \in Region /\ ptr[d] \in Nat /\ ptr[d] <= Len(units[RegionOf[d]])
        /\ (ptr[d] # 0 => ptr[d] >= HeaderUnits)
    BY Constants DEF FileInv, TypeOK, PointersInFile, Size
  <2>2. CASE RegionOf[d] = r
    BY <1>1, <1>4, <1>6, <2>1, <2>2, Constants
  <2>3. CASE RegionOf[d] # r
    BY <1>6, <2>1, <2>3
  <2>4. QED
    BY <2>2, <2>3
<1>9. FilesWellFormed'
  <2>1. \A q \in Region : Len(units'[q]) = 0 \/ Len(units'[q]) >= HeaderUnits
    BY <1>4, <1>6, Constants DEF FileInv, FilesWellFormed, Size
  <2>2. \A q \in Region \ files : units'[q] = <<>>
    BY <1>1, <1>6 DEF FileInv, FilesWellFormed
  <2>3. QED
    BY <1>2, <1>5, <2>1, <2>2 DEF FilesWellFormed, Size
<1>10. MissingIsMissing' /\ CallIsOpen'
  BY <1>2, <1>3, <1>5 DEF FileInv, MissingIsMissing, CallIsOpen, IsOpen
<1>11. QED
  BY <1>3, <1>7, <1>8, <1>9, <1>10 DEF FileInv

LEMMA WritePointerInv ==
  ASSUME FileInv, HandlesBounded, WritePointer
  PROVE  FileInv' /\ HandlesBounded'
<1> DEFINE r == Current
<1>1. TypeOK /\ call \in Calling /\ r \in Region /\ call.cell \in Cell /\ Size(r) \in Nat
      /\ r \in handles /\ RegionOf[call.cell] = r
  BY CallFields, Sizes DEF FileInv, WritePointer, CallIsOpen, IsOpen, Current
<1>2. UNCHANGED <<files, units, handles, nonexistant>>
  BY DEF WritePointer
<1>3. HandlesBounded'
  BY <1>2 DEF HandlesBounded
<1>4. CASE /\ Size(r) = 0
           /\ bad' = bad \cup {r}
           /\ call' = Idle
           /\ UNCHANGED ptr
  <2>1. call'.at = "idle"
    BY <1>4 DEF Idle
  <2>2. TypeOK'
    BY <1>1, <1>2, <1>4 DEF TypeOK
  <2>3. QED
    BY <1>2, <1>3, <1>4, <2>1, <2>2 DEF FileInv, PointersInFile, FilesWellFormed,
          MissingIsMissing, CallIsOpen, Size
<1>5. CASE /\ Size(r) > 0
           /\ ptr' = [ptr EXCEPT ![call.cell] = IF @ = 0 THEN PlaceAtEnd(r) ELSE @]
           /\ call' = [call EXCEPT !.at = "placed"]
           /\ UNCHANGED bad
  <2>1. call' \in Calling /\ call'.at = "placed" /\ call'.cell = call.cell /\ Current' = r
    BY <1>1, <1>5, NextStage DEF Stage
  <2>2. Size(r) >= HeaderUnits /\ HeaderUnits \in Nat /\ HeaderUnits >= 1
    BY <1>1, <1>5, Constants DEF FileInv, FilesWellFormed
  <2>3. /\ ptr'[call.cell] = IF ptr[call.cell] = 0 THEN Size(r) ELSE ptr[call.cell]
        /\ \A d \in Cell \ {call.cell} : ptr'[d] = ptr[d]
        /\ ptr' \in [Cell -> Nat]
    BY <1>1, <1>5 DEF TypeOK, PlaceAtEnd
  <2>4. TypeOK'
    BY <1>1, <1>2, <1>5, <2>1, <2>3 DEF TypeOK, Calling
  <2>5. PointersInFile'
    BY <1>1, <1>2, <2>2, <2>3 DEF FileInv, PointersInFile, Size
  <2>6. FilesWellFormed'
    BY <1>1, <1>2, <2>1, <2>2, <2>3 DEF FileInv, FilesWellFormed, Size
  <2>7. MissingIsMissing' /\ CallIsOpen'
    BY <1>1, <1>2, <1>5, <2>1 DEF FileInv, MissingIsMissing, CallIsOpen, IsOpen, WritePointer
  <2>8. QED
    BY <1>3, <2>4, <2>5, <2>6, <2>7 DEF FileInv
<1>6. QED
  BY <1>4, <1>5 DEF WritePointer, Current

\* The data of a chunk, or a part of it, is written, and the call ends.
LEMMA WrittenInv ==
  ASSUME FileInv, call.at = "placed", NEW n \in 1..ChunkUnits,
         units' = Written(call.cell, call.content, n),
         call' = Idle, UNCHANGED <<files, ptr>>,
         handles' \subseteq handles, bad' \subseteq handles', nonexistant' \subseteq nonexistant
  PROVE  FileInv'
<1> DEFINE c == call.cell
           r == Current
<1>1. TypeOK /\ PointersInFile /\ call \in Calling /\ r \in Region /\ c \in Cell
      /\ call.content \in Content /\ RegionOf[c] = r
  BY CallFields DEF FileInv, Current
<1>2. Grown(c)
  BY <1>1, WrittenGrows
<1>3. PointersInFile'
  BY <1>1, <1>2, GrownFiles
<1>4. call'.at = "idle"
  BY DEF Idle
<1>5. ptr[c] # 0 /\ ptr[c] \in Nat /\ ptr[c] >= HeaderUnits /\ ptr[c] <= Size(r)
  BY <1>1 DEF FileInv, FilesWellFormed, PointersInFile, TypeOK
<1>6. Size(r) \in Nat /\ Size(r) > 0
  BY <1>1, <1>5, Sizes, Constants
<1>7. r \in files
  <2>1. units[r] # <<>>
    BY <1>6 DEF Size
  <2>2. QED
    BY <1>1, <2>1 DEF FileInv, FilesWellFormed
<1>8. TypeOK'
  BY <1>1, <1>2 DEF TypeOK, Grown
<1>9. FilesWellFormed'
  <2>1. \A q \in Region : Len(units'[q]) = 0 \/ Len(units'[q]) >= HeaderUnits
    <3>1. Len(units'[r]) >= Size(r) /\ Len(units'[r]) \in Nat
      BY <1>1, <1>2 DEF Grown
    <3>2. Len(units'[r]) >= HeaderUnits
      BY <1>5, <1>6, <3>1, Constants
    <3>3. \A q \in Region \ {r} : units'[q] = units[q]
      BY <1>1, <1>2 DEF Grown
    <3>4. QED
      BY <3>2, <3>3 DEF FileInv, FilesWellFormed, Size
  <2>2. \A q \in Region \ files : units'[q] = <<>>
    BY <1>1, <1>2, <1>7 DEF Grown, FileInv, FilesWellFormed
  <2>3. QED
    BY <1>4, <2>1, <2>2 DEF FilesWellFormed, Size
<1>10. MissingIsMissing' /\ CallIsOpen'
  BY <1>4 DEF FileInv, MissingIsMissing, CallIsOpen
<1>11. QED
  BY <1>3, <1>8, <1>9, <1>10 DEF FileInv

\* Steps that leave files and calls alone, or end a call.
LEMMA CachesInv ==
  ASSUME FileInv, UNCHANGED <<files, units, ptr>>, call' = Idle,
         handles' \subseteq files, bad' \subseteq handles',
         nonexistant' \subseteq Region \ files
  PROVE  FileInv'
<1>1. call'.at = "idle"
  BY DEF Idle
<1>2. TypeOK'
  BY DEF FileInv, TypeOK
<1>3. QED
  BY <1>1, <1>2 DEF FileInv, PointersInFile, FilesWellFormed, MissingIsMissing, CallIsOpen, Size

LEMMA GetChunkInv ==
  ASSUME FileInv, HandlesBounded, NEW c \in Cell, GetChunk(c)
  PROVE  FileInv' /\ HandlesBounded'
<1> DEFINE r == RegionOf[c]
<1>1. TypeOK /\ r \in Region /\ call' = Idle /\ UNCHANGED <<files, units, ptr>>
  BY Constants DEF FileInv, GetChunk, disk
<1>2. nonexistant \subseteq Region \ files /\ handles \subseteq files /\ bad \subseteq handles
  BY DEF FileInv, TypeOK, MissingIsMissing
<1>3. CASE /\ ~IsOpen(r) /\ r \notin files
           /\ nonexistant' \subseteq nonexistant \cup {r}
           /\ UNCHANGED <<handles, bad>>
  BY <1>1, <1>2, <1>3, CachesInv DEF HandlesBounded
<1>4. CASE /\ IsOpen(r) \/ r \in files
           /\ \E H \in IF IsOpen(r) THEN {handles} ELSE InsertedInto(handles \ {r}, r) :
                /\ handles' = H
                /\ bad' = (IF Size(r) = 0 THEN bad \cup {r} ELSE bad \ {r}) \cap H
           /\ UNCHANGED nonexistant
  <2>1. r \in files
    BY <1>2, <1>4 DEF IsOpen
  <2>2. handles' \subseteq handles \cup {r} /\ bad' \subseteq handles' /\ HandlesBounded'
    BY <1>1, <1>4, HandleChoice DEF HandlesBounded
  <2>3. QED
    BY <1>1, <1>2, <1>4, <2>1, <2>2, CachesInv
<1>5. QED
  BY <1>3, <1>4 DEF GetChunk

LEMMA EmptyCache == Cardinality({}) <= MaxHandles + 1
BY RegionAssumption, FS_EmptySet

LEMMA KilledInv ==
  ASSUME FileInv, Killed
  PROVE  FileInv' /\ HandlesBounded'
<1>1. /\ handles' = {} /\ bad' = {} /\ nonexistant' = {} /\ call' = Idle
      /\ UNCHANGED <<files, ptr>>
  BY DEF Killed
<1>2. HandlesBounded'
  BY <1>1, EmptyCache DEF HandlesBounded
<1>3. CASE UNCHANGED units
  BY <1>1, <1>2, <1>3, CachesInv
<1>4. CASE /\ call.at = "placed"
           /\ \E n \in 1..ChunkUnits : units' = Written(call.cell, call.content, n)
  BY <1>1, <1>2, <1>4, WrittenInv
<1>5. QED
  BY <1>2, <1>3, <1>4 DEF Killed

LEMMA FileStep == FileInv /\ HandlesBounded /\ [Next]_vars => FileInv' /\ HandlesBounded'
<1> SUFFICES ASSUME FileInv, HandlesBounded, [Next]_vars
             PROVE  FileInv' /\ HandlesBounded'
  OBVIOUS
<1>1. CASE WriteData
  <2>1. ChunkUnits \in 1..ChunkUnits
    BY Constants
  <2>2. FileInv'
    BY <1>1, <2>1, WrittenInv DEF WriteData, memory, FileInv, TypeOK
  <2>3. QED
    BY <1>1, <2>2 DEF WriteData, memory, HandlesBounded
<1>2. CASE Reopen
  BY <1>2, EmptyCache, CachesInv DEF Reopen, disk, HandlesBounded, FileInv, TypeOK
<1>3. CASE UNCHANGED vars
  BY <1>3 DEF vars, disk, memory, FileInv, TypeOK, PointersInFile, FilesWellFormed,
              MissingIsMissing, CallIsOpen, Size, IsOpen, Current, HandlesBounded
<1>4. QED
  BY <1>1, <1>2, <1>3, SetChunkInv, WriteHeaderInv, WritePointerInv, GetChunkInv, KilledInv
     DEF Next

LEMMA FileInit == Init => FileInv /\ HandlesBounded
<1> SUFFICES ASSUME Init
             PROVE  FileInv /\ HandlesBounded
  OBVIOUS
<1>1. \A r \in Region : units[r] = <<>> /\ Size(r) = 0
  <2>1. \A r \in Region : units[r] = <<>>
    BY DEF Init
  <2>2. QED
    BY <2>1 DEF Size
<1>2. TypeOK
  <2>1. <<>> \in Seq(Content \cup {Zero})
    OBVIOUS
  <2>2. units \in [Region -> Seq(Content \cup {Zero})] /\ ptr \in [Cell -> Nat]
    BY <2>1 DEF Init
  <2>3. QED
    BY <2>2 DEF Init, TypeOK
<1>3. call.at = "idle"
  BY DEF Init, Idle
<1>4. PointersInFile
  BY <1>1, Constants DEF Init, PointersInFile
<1>5. QED
  BY <1>1, <1>2, <1>3, <1>4, EmptyCache DEF Init, FileInv, FilesWellFormed,
        MissingIsMissing, CallIsOpen, HandlesBounded

LEMMA FileAlways == Spec => [](FileInv /\ HandlesBounded)
BY FileInit, FileStep, PTL DEF Spec

\* The types of files, pointers, caches and calls; open files exist (database.cpp).
THEOREM TypeCorrect == Spec => []TypeOK
<1>1. FileInv => TypeOK
  BY DEF FileInv
<1>2. QED
  BY <1>1, FileAlways, PTL

\* No pointer leads out of its file, whatever is killed between the writes of
\* set_chunk, so size - chunkpos never wraps (Database::get_chunk, set_chunk).
THEOREM PointersStay == Spec => []PointersInFile
<1>1. FileInv => PointersInFile
  BY DEF FileInv
<1>2. QED
  BY <1>1, FileAlways, PTL

\* get_chunk answers what is in the file, whatever handles were evicted or have
\* failed and whatever was missing (Database::get_handle, get_chunk).
THEOREM CachesHarmless == Spec => []CachesAreHarmless
<1>1. FileInv /\ HandlesBounded => CachesAreHarmless
  <2> SUFFICES ASSUME FileInv, HandlesBounded
               PROVE  CachesAreHarmless
    OBVIOUS
  <2>1. ASSUME NEW c \in Cell
        PROVE  Answer(c) = InFile(c)
    <3>1. RegionOf[c] \notin files => InFile(c) = Absent
      <4>1. RegionOf[c] \notin files => Size(RegionOf[c]) = 0
        BY Constants DEF FileInv, FilesWellFormed, Size
      <4>2. QED
        BY <4>1, Constants DEF InFile
    <3>2. QED
      BY <3>1 DEF Answer, FileInv, MissingIsMissing
  <2>2. QED
    BY <2>1 DEF CachesAreHarmless, FileInv, CallIsOpen, HandlesBounded, Current
<1>2. QED
  BY <1>1, FileAlways, PTL


-----------------------------------------------------------------------------
(* What the slots of the map are: nothing is found for a chunk without a     *)
(* place, or whose place does not end within the file.                       *)

Filled(c, v) == \A i \in Place(c) : units[RegionOf[c]][i] = v

InFileIsRight ==
  \A c \in Cell :
    /\ ptr[c] = 0 \/ ~Complete(c) => InFile(c) = Absent
    /\ ptr[c] # 0 /\ Complete(c) =>
         /\ InFile(c) = [i \in 1..ChunkUnits |-> units[RegionOf[c]][ptr[c] + i]]
         /\ InFile(c) # Absent

LEMMA InFileFacts == FileInv => InFileIsRight
<1> SUFFICES ASSUME FileInv, NEW c \in Cell
             PROVE  /\ ptr[c] = 0 \/ ~Complete(c) => InFile(c) = Absent
                    /\ ptr[c] # 0 /\ Complete(c) =>
                         /\ InFile(c) = [i \in 1..ChunkUnits |-> units[RegionOf[c]][ptr[c] + i]]
                         /\ InFile(c) # Absent
  BY DEF InFileIsRight
<1> DEFINE r == RegionOf[c]
           f == [i \in 1..ChunkUnits |-> units[r][ptr[c] + i]]
<1>1. r \in Region /\ Size(r) \in Nat /\ ptr[c] \in Nat /\ ptr[c] <= Size(r)
      /\ (ptr[c] # 0 => ptr[c] >= HeaderUnits)
  BY Constants, Sizes DEF FileInv, TypeOK, PointersInFile
<1>2. ptr[c] = 0 \/ ~Complete(c) => InFile(c) = Absent
  BY <1>1, Constants DEF InFile, Complete
<1>3. ptr[c] # 0 /\ Complete(c) => InFile(c) = f
  BY <1>1, Constants DEF InFile, Complete
<1>4. ASSUME ptr[c] # 0, Complete(c)
      PROVE  f # Absent
  <2>1. \A i \in 1..ChunkUnits : ptr[c] + i \in 1..Size(r)
    BY <1>1, <1>4, Constants DEF Complete
  <2>2. \A i \in 1..Size(r) : units[r][i] \in Content \cup {Zero}
    BY <1>1, Sizes DEF FileInv
  <2>3. f \in [1..ChunkUnits -> Content \cup {Zero}]
    BY <2>1, <2>2
  <2>4. QED
    BY <2>3, RegionAssumption
<1>5. QED
  BY <1>2, <1>3, <1>4

SlotsAreRight ==
  \A c \in Cell :
    /\ ptr[c] = 0 \/ ~Complete(c) => SlotOf(c) = Absent
    /\ ptr[c] # 0 /\ Complete(c) =>
         /\ SlotOf(c) \in Content \cup {Unknown}
         /\ SlotOf(c) \in {Unknown, units[RegionOf[c]][ptr[c] + 1]}
         /\ \A v \in Content : Filled(c, v) => SlotOf(c) = v

LEMMA SlotFacts == FileInv => SlotsAreRight
<1> SUFFICES ASSUME FileInv, NEW c \in Cell
             PROVE  /\ ptr[c] = 0 \/ ~Complete(c) => SlotOf(c) = Absent
                    /\ ptr[c] # 0 /\ Complete(c) =>
                         /\ SlotOf(c) \in Content \cup {Unknown}
                         /\ SlotOf(c) \in {Unknown, units[RegionOf[c]][ptr[c] + 1]}
                         /\ \A v \in Content : Filled(c, v) => SlotOf(c) = v
  BY DEF SlotsAreRight
<1>1. ptr[c] = 0 \/ ~Complete(c) => SlotOf(c) = Absent
  BY InFileFacts DEF InFileIsRight, SlotOf
<1>2. ASSUME ptr[c] # 0, Complete(c), NEW v \in Content, Filled(c, v)
      PROVE  SlotOf(c) = v
  <2>1. /\ InFile(c) = [i \in 1..ChunkUnits |-> units[RegionOf[c]][ptr[c] + i]]
        /\ InFile(c) # Absent
    BY <1>2, InFileFacts DEF InFileIsRight
  <2>2. \A i \in 1..ChunkUnits : units[RegionOf[c]][ptr[c] + i] = v
    <3>1. ptr[c] \in Nat /\ ChunkUnits \in Nat
      BY Constants DEF FileInv, TypeOK
    <3>2. \A i \in 1..ChunkUnits : ptr[c] + i \in Place(c)
      BY <3>1 DEF Place
    <3>3. QED
      BY <1>2, <3>2 DEF Filled
  <2>3. InFile(c) = [i \in 1..ChunkUnits |-> v]
    BY <2>1, <2>2
  <2>4. InFile(c)[1] = v
    BY <2>3, Constants
  <2>5. QED
    BY <1>2, <2>1, <2>3, <2>4 DEF SlotOf
<1>3. ASSUME ptr[c] # 0, Complete(c)
      PROVE  /\ SlotOf(c) \in Content \cup {Unknown}
             /\ SlotOf(c) \in {Unknown, units[RegionOf[c]][ptr[c] + 1]}
  <2>1. /\ InFile(c) = [i \in 1..ChunkUnits |-> units[RegionOf[c]][ptr[c] + i]]
        /\ InFile(c) # Absent
    BY <1>3, InFileFacts DEF InFileIsRight
  <2>2. InFile(c)[1] = units[RegionOf[c]][ptr[c] + 1]
    BY <2>1, Constants
  <2>3. CASE \E v \in Content : InFile(c) = [i \in 1..ChunkUnits |-> v]
    <3>1. PICK v \in Content : InFile(c) = [i \in 1..ChunkUnits |-> v]
      BY <2>3
    <3>2. InFile(c)[1] = v
      BY <3>1, Constants
    <3>3. SlotOf(c) = InFile(c)[1]
      BY <2>1, <2>3 DEF SlotOf
    <3>4. QED
      BY <2>2, <3>2, <3>3
  <2>4. CASE ~\E v \in Content : InFile(c) = [i \in 1..ChunkUnits |-> v]
    BY <2>1, <2>4 DEF SlotOf
  <2>5. QED
    BY <2>3, <2>4
<1>4. QED
  BY <1>1, <1>2, <1>3

LEMMA FactsNext == FileInv' => InFileIsRight' /\ SlotsAreRight'
BY InFileFacts, SlotFacts, PTL

\* What the slots and their places are as long as the files stay the same.
LEMMA SameMap ==
  ASSUME UNCHANGED <<units, ptr>>
  PROVE  Slots' = Slots /\ Loose' = Loose /\ Clash' = Clash
BY DEF Slots, Loose, Clash, SlotOf, InFile, Complete, Overlaps, Place, Size

\* Places are of one length: those that do not overlap follow each other.
LEMMA Disjoint ==
  ASSUME TypeOK, NEW c \in Cell, NEW d \in Cell, c # d, RegionOf[c] = RegionOf[d],
         ptr[c] # 0, ptr[d] # 0
  PROVE  Overlaps(c, d) <=> ptr[c] < ptr[d] + ChunkUnits /\ ptr[d] < ptr[c] + ChunkUnits
<1>1. ptr[c] \in Nat /\ ptr[d] \in Nat /\ ChunkUnits \in Nat /\ ChunkUnits >= 1
  BY Constants DEF TypeOK
<1>2. ASSUME ptr[c] < ptr[d] + ChunkUnits, ptr[d] < ptr[c] + ChunkUnits
      PROVE  Place(c) \cap Place(d) # {}
  <2>1. CASE ptr[c] <= ptr[d]
    <3>1. ptr[d] + 1 \in Place(c) /\ ptr[d] + 1 \in Place(d)
      BY <1>1, <1>2, <2>1 DEF Place
    <3>2. QED
      BY <3>1
  <2>2. CASE ptr[d] <= ptr[c]
    <3>1. ptr[c] + 1 \in Place(c) /\ ptr[c] + 1 \in Place(d)
      BY <1>1, <1>2, <2>2 DEF Place
    <3>2. QED
      BY <3>1
  <2>3. QED
    BY <1>1, <2>1, <2>2
<1>3. ASSUME ~(ptr[c] < ptr[d] + ChunkUnits /\ ptr[d] < ptr[c] + ChunkUnits)
      PROVE  Place(c) \cap Place(d) = {}
  BY <1>1, <1>3 DEF Place
<1>4. QED
  BY <1>2, <1>3 DEF Overlaps

\* Writing to the place of c leaves every slot as it was whose place is another.
LEMMA OtherSlots ==
  ASSUME FileInv, NEW c \in Cell, NEW v \in Content, NEW n \in 1..ChunkUnits, ptr[c] # 0,
         units' = Written(c, v, n), UNCHANGED ptr, NEW d \in Cell \ {c}, FileInv',
         ~Overlaps(c, d)
  PROVE  /\ SlotOf(d)' = SlotOf(d)
         /\ ptr[d] # 0 => (Complete(d)' <=> Complete(d))
<1> DEFINE r == RegionOf[d]
<1>1. TypeOK /\ PointersInFile
  BY DEF FileInv
<1>2. r \in Region /\ RegionOf[c] \in Region /\ ptr[c] \in Nat /\ ptr[d] \in Nat /\ n \in Nat
      /\ ptr'[d] = ptr[d] /\ Size(r) \in Nat /\ ChunkUnits \in Nat /\ n <= ChunkUnits
      /\ ptr[c] <= Size(RegionOf[c]) /\ ptr[d] <= Size(r)
  BY <1>1, Constants, Sizes DEF TypeOK, PointersInFile
<1>3. CASE RegionOf[c] # r
  <2>1. units'[r] = units[r]
    BY <1>1, <1>2, <1>3, WrittenUnits
  <2>2. InFile(d)' = InFile(d)
    BY <2>1 DEF InFile, Size
  <2>3. QED
    BY <2>1, <2>2 DEF SlotOf, Complete, Size
<1>4. CASE RegionOf[c] = r /\ ptr[d] = 0
  <2>1. InFile(d)' = InFile(d)
    BY <1>4 DEF InFile
  <2>2. QED
    BY <1>4, <2>1 DEF SlotOf
<1>5. CASE RegionOf[c] = r /\ ptr[d] # 0
  <2>1. ptr[d] + ChunkUnits <= ptr[c] \/ ptr[c] + ChunkUnits <= ptr[d]
    BY <1>1, <1>2, <1>5, Disjoint
  <2>2. /\ Len(units'[r]) \in Nat /\ Len(units'[r]) >= Size(r)
        /\ Len(units'[r]) = ptr[c] + n \/ Len(units'[r]) = Size(r)
        /\ \A i \in 1..Size(r) : i \notin ptr[c] + 1 .. ptr[c] + n => units'[r][i] = units[r][i]
    <3>1. Len(units'[r]) \in Nat
      BY <1>2 DEF FileInv, TypeOK
    <3>2. QED
      BY <1>1, <1>2, <1>5, <3>1, WrittenUnits
  <2>3. CASE Complete(d)
    <3>1. Complete(d)'
      BY <1>2, <2>2, <2>3 DEF Complete, Size
    <3>2. \A i \in 1..ChunkUnits : units'[r][ptr[d] + i] = units[r][ptr[d] + i]
      <4> SUFFICES ASSUME NEW i \in 1..ChunkUnits
                   PROVE  units'[r][ptr[d] + i] = units[r][ptr[d] + i]
        OBVIOUS
      <4>1. ptr[d] + i \in 1..Size(r)
        BY <1>2, <2>3 DEF Complete
      <4>2. ptr[d] + i \notin ptr[c] + 1 .. ptr[c] + n
        BY <1>2, <2>1
      <4>3. QED
        BY <2>2, <4>1, <4>2
    <3>3. InFile(d)' = [i \in 1..ChunkUnits |-> units'[r][ptr[d] + i]]
      BY <1>2, <1>5, <3>1, FactsNext DEF InFileIsRight
    <3>4. InFile(d) = [i \in 1..ChunkUnits |-> units[r][ptr[d] + i]]
      BY <1>5, <2>3, InFileFacts DEF InFileIsRight
    <3>5. InFile(d)' = InFile(d)
      BY <3>2, <3>3, <3>4
    <3>6. QED
      BY <2>3, <3>1, <3>5 DEF SlotOf
  <2>4. CASE ~Complete(d)
    <3>1. Len(units'[r]) = Size(r)
      BY <1>2, <1>5, <2>1, <2>2, <2>4 DEF Complete
    <3>2. ~Complete(d)'
      BY <1>2, <2>4, <3>1 DEF Complete, Size
    <3>3. InFile(d)' = InFile(d)
      BY <2>4, <3>2, InFileFacts, FactsNext DEF InFileIsRight
    <3>4. QED
      BY <2>4, <3>2, <3>3 DEF SlotOf
  <2>5. QED
    BY <2>3, <2>4
<1>6. QED
  BY <1>3, <1>4, <1>5

\* Files only grow: a place that is within its file stays there.
LEMMA StaysComplete ==
  ASSUME FileInv, NEW c \in Cell, NEW v \in Content, NEW n \in 1..ChunkUnits,
         units' = Written(c, v, n), UNCHANGED ptr, NEW d \in Cell, FileInv', Complete(d)
  PROVE  Complete(d)'
<1> DEFINE r == RegionOf[d]
<1>1. TypeOK /\ PointersInFile /\ r \in Region /\ ptr[d] \in Nat /\ Size(r) \in Nat
      /\ ChunkUnits \in Nat /\ Len(units'[r]) \in Nat
  BY Constants, Sizes DEF FileInv, TypeOK
<1>2. Len(units'[r]) >= Size(r)
  <2>1. CASE r = RegionOf[c]
    BY <1>1, <2>1, WrittenUnits
  <2>2. CASE r # RegionOf[c]
    <3>1. units'[r] = units[r]
      BY <1>1, <2>2, WrittenUnits
    <3>2. QED
      BY <1>1, <3>1 DEF Size
  <2>3. QED
    BY <2>1, <2>2
<1>3. ptr[d] + ChunkUnits <= Size(r)
  BY DEF Complete
<1>4. ptr'[d] + ChunkUnits <= Len(units'[r])
  BY <1>1, <1>2, <1>3
<1>5. QED
  BY <1>4 DEF Complete, Size

\* What becomes of the slot that is written.
LEMMA WrittenSlot ==
  ASSUME FileInv, NEW c \in Cell, NEW v \in Content, NEW n \in 1..ChunkUnits, ptr[c] # 0,
         units' = Written(c, v, n), UNCHANGED ptr, FileInv'
  PROVE  /\ SlotOf(c)' \in {SlotOf(c), v, Unknown}
         /\ n = ChunkUnits => SlotOf(c)' = v /\ Complete(c)'
<1> DEFINE r == RegionOf[c]
<1>1. TypeOK /\ PointersInFile /\ r \in Region /\ Size(r) \in Nat /\ ptr[c] \in Nat
      /\ ptr'[c] = ptr[c] /\ n \in Nat /\ n >= 1 /\ ChunkUnits \in Nat
  BY Constants, Sizes DEF FileInv, TypeOK
<1>2. /\ Len(units'[r]) >= ptr[c] + n /\ Len(units'[r]) >= Size(r)
      /\ \A i \in ptr[c] + 1 .. ptr[c] + n : units'[r][i] = v
  BY <1>1, WrittenUnits
<1>3. Len(units'[r]) \in Nat
  BY <1>1 DEF FileInv, TypeOK
<1>4. n = ChunkUnits => Complete(c)'
  BY <1>1, <1>2, <1>3 DEF Complete, Size
<1>5. ASSUME ~Complete(c)'
      PROVE  SlotOf(c)' = SlotOf(c)
  <2>1. ~Complete(c)
    BY <1>5, StaysComplete
  <2>2. QED
    BY <1>1, <1>5, <2>1, SlotFacts, FactsNext DEF SlotsAreRight
<1>6. ASSUME Complete(c)'
      PROVE  SlotOf(c)' \in {Unknown, v} /\ (n = ChunkUnits => SlotOf(c)' = v)
  <2>1. units'[r][ptr'[c] + 1] = v
    <3>1. PICK a \in Nat : a = ptr[c]
      BY <1>1
    <3>2. a + 1 \in a + 1 .. a + n
      BY <1>1
    <3>3. units'[r][a + 1] = v
      BY <1>2, <3>1, <3>2, Zenon
    <3>4. QED
      BY <1>1, <3>1, <3>3, Zenon
  <2>2. SlotOf(c)' \in {Unknown, units'[r][ptr'[c] + 1]}
    BY <1>1, <1>6, FactsNext DEF SlotsAreRight
  <2>3. n = ChunkUnits => Filled(c, v)'
    <3>1. Filled(c, v)' <=> \A i \in ptr'[c] + 1 .. ptr'[c] + ChunkUnits : units'[r][i] = v
      BY Zenon DEF Filled, Place, r
    <3>2. QED
      BY <1>1, <1>2, <3>1, Zenon
  <2>4. Filled(c, v)' => SlotOf(c)' = v
    BY <1>1, <1>6, FactsNext DEF SlotsAreRight
  <2>5. QED
    BY <2>1, <2>2, <2>3, <2>4
<1>7. QED
  BY <1>4, <1>5, <1>6

SlotsTyped == Slots \in [Cell -> Content \cup {Absent, Unknown}]

LEMMA SlotTypes == FileInv => SlotsTyped
<1> SUFFICES ASSUME FileInv, NEW c \in Cell
             PROVE  SlotOf(c) \in Content \cup {Absent, Unknown}
  BY DEF Slots, SlotsTyped
<1>1. QED
  BY SlotFacts DEF SlotsAreRight

LEMMA SlotTypesNext == FileInv' => SlotsTyped'
BY SlotTypes, PTL

\* A write to the place of a chunk is a write to its slot.
LEMMA WriteStep ==
  ASSUME FileInv, NEW c \in Cell, NEW v \in Content, NEW n \in 1..ChunkUnits, ptr[c] # 0,
         units' = Written(c, v, n), UNCHANGED ptr, FileInv', NEW R, SlotOf(c)' \in R
  PROVE  M!Write(c, R)
<1>1. Slots' \in [Cell -> Content \cup {Absent, Unknown}]
  BY SlotTypesNext DEF SlotsTyped
<1>2. Slots'[c] \in R
  BY DEF Slots
<1>3. Loose' \subseteq Loose
  BY StaysComplete DEF Loose
<1>4. ASSUME NEW d \in Cell \ {c}, <<c, d>> \notin Clash
      PROVE  Slots'[d] = Slots[d] /\ (d \in Loose => d \in Loose')
  <2>1. ~Overlaps(c, d)
    BY <1>4 DEF Clash
  <2>2. SlotOf(d)' = SlotOf(d) /\ (ptr[d] # 0 => (Complete(d)' <=> Complete(d)))
    BY <2>1, OtherSlots
  <2>3. QED
    BY <2>2 DEF Slots, Loose
<1>5. Clash' = Clash
  BY DEF Clash, Overlaps, Place
<1>6. QED
  BY <1>1, <1>2, <1>3, <1>4, <1>5 DEF M!Write

-----------------------------------------------------------------------------
(* Every step of the files is one of the map, or changes nothing of it. *)

MapStep == [M!MapNext]_(M!chunkMap)
CalmNext ==
  \/ \E c \in Cell, v \in Content : M!Begin(c, v)
  \/ M!Locate \/ M!Finish \/ M!Lose
CalmStep == [CalmNext]_(M!chunkMap)

LEMMA PuttingFacts ==
  ASSUME TypeOK
  PROVE  /\ call = Idle => Putting = Idle
         /\ call \in Calling => /\ Putting # Idle
                               /\ Putting.cell = call.cell /\ Putting.content = call.content
<1>1. [cell |-> call.cell, content |-> call.content] # Idle
  BY DEF Idle
<1>2. call \in Calling => call # Idle
  BY DEF Calling, Idle
<1>3. QED
  BY <1>1, <1>2 DEF Putting

LEMMA StutterStep ==
  ASSUME Slots' = Slots, Putting' = Putting, Loose' = Loose, Clash' = Clash, Dead' = Dead
  PROVE  CalmStep
BY DEF CalmStep, M!chunkMap

\* Nothing is dead or dies while no file is made and no header written.
LEMMA SameDead ==
  ASSUME UNCHANGED <<files, units>>, call.at # "made", call'.at # "made"
  PROVE  Dead' = Dead
BY DEF Dead, IsDead, Size

\* A file with a header is not dead.
LEMMA Alive ==
  ASSUME NEW c \in Cell, Size(RegionOf[c]) # 0
  PROVE  c \notin Dead
BY DEF Dead, IsDead

LEMMA BeginStep ==
  ASSUME FileInv, NEW c \in Cell, NEW v \in Content, SetChunk(c, v)
  PROVE  CalmStep
<1>1. /\ call = Idle /\ call.at # "made" /\ UNCHANGED <<units, ptr>>
      /\ call'.cell = c /\ call'.content = v /\ call' # Idle
  BY DEF SetChunk, Idle
<1>2. Putting = Idle /\ Putting' = [cell |-> c, content |-> v]
  BY <1>1 DEF Putting
<1>3. Dead' = Dead
  <2>1. CASE UNCHANGED files /\ call'.at = "open"
    BY <1>1, <2>1, SameDead
  <2>2. CASE files' = files \cup {RegionOf[c]} /\ RegionOf[c] \notin files /\ call'.at = "made"
    BY <1>1, <2>2 DEF Dead, IsDead, Size
  <2>3. QED
    BY <2>1, <2>2 DEF SetChunk
<1>4. M!Begin(c, v)
  BY <1>1, <1>2, <1>3, SameMap DEF M!Begin
<1>5. QED
  BY <1>4 DEF CalmStep, CalmNext

LEMMA HeaderStep ==
  ASSUME FileInv, FileInv', WriteHeader
  PROVE  CalmStep
<1>1. /\ TypeOK /\ call \in Calling /\ Current \in Region /\ Size(Current) = 0
      /\ call.at = "made" /\ UNCHANGED <<files, ptr>>
  BY CallFields DEF FileInv, WriteHeader, FilesWellFormed, Size
<1>2. call' \in Calling /\ call'.cell = call.cell /\ call'.content = call.content
      /\ call'.at = "open"
  BY <1>1, NextStage DEF WriteHeader, Stage
<1>3. Putting' = Putting
  BY <1>1, <1>2 DEF Putting, Calling, Idle
<1>4. /\ \A r \in Region \ {Current} : units'[r] = units[r]
      /\ Size(Current)' = HeaderUnits
  <2>1. units' = [units EXCEPT ![Current] = [i \in 1..HeaderUnits |-> Zero]]
    BY DEF WriteHeader, Current
  <2>2. units'[Current] = [i \in 1..HeaderUnits |-> Zero]
    BY <1>1, <2>1 DEF TypeOK
  <2>3. Len(units'[Current]) = HeaderUnits
    BY <2>2, Constants
  <2>4. Current' = Current
    BY <1>2 DEF Current
  <2>5. QED
    BY <1>1, <2>1, <2>3, <2>4 DEF TypeOK, Size
<1>5. ASSUME NEW c \in Cell
      PROVE  SlotOf(c)' = SlotOf(c) /\ (c \in Loose' <=> c \in Loose)
  <2>1. CASE ptr[c] = 0
    BY <1>1, <2>1 DEF InFile, SlotOf, Loose
  <2>2. CASE ptr[c] # 0
    <3>1. RegionOf[c] # Current /\ RegionOf[c] \in Region
      BY <1>1, <2>2, Constants DEF FileInv, PointersInFile, TypeOK
    <3>2. units'[RegionOf[c]] = units[RegionOf[c]]
      BY <1>4, <3>1
    <3>3. InFile(c)' = InFile(c) /\ (Complete(c)' <=> Complete(c))
      BY <1>1, <3>2 DEF InFile, Size, Complete
    <3>4. QED
      BY <1>1, <3>3 DEF SlotOf, Loose
  <2>3. QED
    BY <2>1, <2>2
<1>6. Slots' = Slots /\ Loose' = Loose
  BY <1>5 DEF Slots, Loose
<1>7. Clash' = Clash
  BY <1>1 DEF Clash, Overlaps, Place
<1>8. ASSUME NEW c \in Cell
      PROVE  c \in Dead' <=> c \in Dead
  <2>1. CASE RegionOf[c] = Current
    <3>1. c \notin Dead
      BY <1>1, <2>1 DEF Dead, IsDead, Current
    <3>2. Len(units'[RegionOf[c]]) # 0
      BY <1>2, <1>4, <2>1, Constants DEF Size, Current
    <3>3. c \notin Dead'
      BY <3>2 DEF Dead, IsDead, Size
    <3>4. QED
      BY <3>1, <3>3
  <2>2. CASE RegionOf[c] # Current
    <3>1. units'[RegionOf[c]] = units[RegionOf[c]]
      BY <1>4, <2>2, Constants
    <3>2. QED
      BY <1>1, <1>2, <2>2, <3>1 DEF Dead, IsDead, Size, Current
  <2>3. QED
    BY <2>1, <2>2
<1>9. Dead' = Dead
  BY <1>8 DEF Dead
<1>10. QED
  BY <1>3, <1>6, <1>7, <1>9, StutterStep

\* A place at the end of the file overlaps those of loose cells only.
LEMMA PlaceAtTheEnd ==
  ASSUME FileInv, NEW c \in Cell, ptr[c] = 0, ptr' = [ptr EXCEPT ![c] = Size(RegionOf[c])],
         Size(RegionOf[c]) > 0, UNCHANGED units, FileInv'
  PROVE  /\ Slots' = Slots /\ Loose' = Loose \cup {c}
         /\ \A d \in Cell : <<c, d>> \notin Clash
         /\ \E D \in SUBSET Loose : Clash' = Clash \cup ({c} \X D) \cup (D \X {c})
<1> DEFINE r == RegionOf[c]
           D == {d \in Cell : Overlaps(c, d)'}
<1>1. /\ TypeOK /\ PointersInFile /\ r \in Region /\ Size(r) \in Nat /\ Size(r)' = Size(r)
      /\ ptr'[c] = Size(r) /\ ChunkUnits \in Nat /\ ChunkUnits >= 1
      /\ \A e \in Cell \ {c} : ptr'[e] = ptr[e] /\ ptr[e] \in Nat
  BY Constants, Sizes DEF FileInv, TypeOK, Size
<1>2. ~Complete(c)' /\ ptr'[c] # 0
  <2>1. Complete(c)' <=> ptr'[c] + ChunkUnits <= Size(r)'
    BY DEF Complete
  <2>2. QED
    BY <1>1, <2>1
<1>3. \A e \in Cell \ {c} : Complete(e)' <=> Complete(e)
  BY <1>1 DEF Complete, Size
<1>4. Loose' = Loose \cup {c}
  BY <1>1, <1>2, <1>3 DEF Loose
<1>5. ASSUME NEW e \in Cell
      PROVE  SlotOf(e)' = SlotOf(e)
  <2>1. CASE e = c
    <3>1. SlotOf(c) = Absent
      BY SlotFacts DEF SlotsAreRight
    <3>2. SlotOf(c)' = Absent
      BY <1>2, FactsNext DEF SlotsAreRight
    <3>3. QED
      BY <2>1, <3>1, <3>2
  <2>2. CASE e # c
    BY <1>1, <2>2 DEF SlotOf, InFile, Size
  <2>3. QED
    BY <2>1, <2>2
<1>6. D \subseteq Loose
  <2> SUFFICES ASSUME NEW e \in Cell, Overlaps(c, e)'
               PROVE  ptr[e] # 0 /\ ~Complete(e)
    BY DEF Loose
  <2>1. RegionOf[e] = r /\ ptr[e] # 0 /\ e # c
    BY <1>1 DEF Overlaps
  <2>2. PICK i \in Size(r) + 1 .. Size(r) + ChunkUnits : i \in ptr[e] + 1 .. ptr[e] + ChunkUnits
    BY <1>1, <2>1 DEF Overlaps, Place
  <2>3. ptr[e] \in Nat /\ i > Size(r) /\ i <= ptr[e] + ChunkUnits
    BY <1>1, <2>1, <2>2
  <2>4. Complete(e) <=> ptr[e] + ChunkUnits <= Size(r)
    BY <2>1 DEF Complete
  <2>5. QED
    BY <1>1, <2>1, <2>3, <2>4
<1>7. \A e \in Cell : ~Overlaps(c, e) /\ ~Overlaps(e, c)
  BY DEF Overlaps
<1>8. \A e, f \in Cell \ {c} : Overlaps(e, f)' <=> Overlaps(e, f)
  BY <1>1 DEF Overlaps, Place
<1>9. \A e \in Cell : Overlaps(e, c)' <=> Overlaps(c, e)'
  BY DEF Overlaps
<1>10. ~Overlaps(c, c)'
  BY DEF Overlaps
<1>11. ASSUME NEW e \in Cell, NEW f \in Cell
       PROVE  Overlaps(e, f)' <=> Overlaps(e, f) \/ (e = c /\ f \in D) \/ (f = c /\ e \in D)
  BY <1>7, <1>8, <1>9, <1>10
<1> HIDE DEF D
<1>12. Clash' = Clash \cup ({c} \X D) \cup (D \X {c})
  <2>1. D \subseteq Cell
    BY DEF D
  <2>2. \A e, f \in Cell : <<e, f>> \in Clash' <=> Overlaps(e, f)'
    BY DEF Clash
  <2>3. \A e, f \in Cell : <<e, f>> \in Clash <=> Overlaps(e, f)
    BY DEF Clash
  <2>4. Clash \subseteq Cell \X Cell /\ Clash' \subseteq Cell \X Cell
    BY DEF Clash
  <2> HIDE DEF r
  <2>5. QED
    BY <1>11, <2>1, <2>2, <2>3, <2>4
<1>13. \A d \in Cell : <<c, d>> \notin Clash
  BY <1>7 DEF Clash
<1>14. Slots' = Slots
  BY <1>5 DEF Slots
<1>15. QED
  BY <1>4, <1>6, <1>12, <1>13, <1>14

LEMMA PointerStep ==
  ASSUME FileInv, FileInv', WritePointer
  PROVE  CalmStep
<1>1. PICK c \in Cell : c = call.cell
  BY CallFields DEF FileInv, WritePointer
<1>2. /\ TypeOK /\ call \in Calling /\ call.at = "open" /\ call # Idle
      /\ RegionOf[c] \in files /\ RegionOf[c] \in Region /\ UNCHANGED <<files, units>>
  BY <1>1, CallFields DEF WritePointer, FileInv, CallIsOpen, IsOpen, TypeOK, Current, Calling, Idle
<1>3. Size(RegionOf[c]) \in Nat
  BY <1>2, Sizes
<1>4. Putting # Idle /\ Putting.cell = c
  BY <1>1, <1>2, PuttingFacts
<1>5. CASE Size(RegionOf[c]) = 0
  <2>1. call' = Idle /\ UNCHANGED ptr
    BY <1>1, <1>3, <1>5 DEF WritePointer
  <2>2. Putting' = Idle /\ call'.at # "made"
    BY <2>1 DEF Putting, Idle
  <2>3. Dead' = Dead
    BY <1>2, <2>2, SameDead
  <2>4. c \in Dead
    BY <1>2, <1>5 DEF Dead, IsDead
  <2>5. M!Lose
    BY <1>2, <1>4, <2>1, <2>2, <2>3, <2>4, SameMap DEF M!Lose
  <2>6. QED
    BY <2>5 DEF CalmStep, CalmNext
<1>6. CASE Size(RegionOf[c]) # 0
  <2>1. /\ call' = [call EXCEPT !.at = "placed"]
        /\ ptr' = [ptr EXCEPT ![c] = IF @ = 0 THEN Size(RegionOf[c]) ELSE @]
    BY <1>1, <1>3, <1>6 DEF WritePointer, PlaceAtEnd
  <2>2. call' \in Calling /\ call'.cell = call.cell /\ call'.content = call.content
        /\ call'.at = "placed"
    BY <1>2, <2>1, NextStage DEF Stage
  <2>3. Putting' = Putting
    BY <1>2, <2>2 DEF Putting, Calling, Idle
  <2>4. Dead' = Dead
    BY <1>2, <2>2, SameDead
  <2>5. CASE ptr[c] # 0
    <3>1. UNCHANGED ptr
      BY <1>2, <2>1, <2>5 DEF TypeOK
    <3>2. QED
      BY <1>2, <2>3, <2>4, <3>1, SameMap, StutterStep
  <2>6. CASE ptr[c] = 0
    <3>1. ptr' = [ptr EXCEPT ![c] = Size(RegionOf[c])] /\ Size(RegionOf[c]) > 0
      BY <1>2, <1>3, <1>6, <2>1, <2>6 DEF TypeOK
    <3>2. /\ Slots' = Slots /\ Loose' = Loose \cup {c}
          /\ \A d \in Cell : <<c, d>> \notin Clash
          /\ \E D \in SUBSET Loose : Clash' = Clash \cup ({c} \X D) \cup (D \X {c})
      BY <1>2, <2>6, <3>1, PlaceAtTheEnd
    <3>3. Slots[c] = Absent /\ c \notin Loose
      BY <2>6, SlotFacts DEF SlotsAreRight, Slots, Loose
    <3>4. c \notin Dead
      BY <1>6, Alive
    <3>5. M!Locate
      BY <1>4, <2>3, <2>4, <3>2, <3>3, <3>4 DEF M!Locate
    <3>6. QED
      BY <3>5 DEF CalmStep, CalmNext
  <2>7. QED
    BY <2>5, <2>6
<1>7. QED
  BY <1>5, <1>6

\* A file in which a chunk has its place is not empty.
LEMMA PlacedAlive ==
  ASSUME FileInv, NEW c \in Cell, ptr[c] # 0
  PROVE  Size(RegionOf[c]) # 0
BY Constants, Sizes DEF FileInv, PointersInFile, TypeOK

\* Writing to a file that has a header makes none dead.
LEMMA WrittenDead ==
  ASSUME FileInv, NEW c \in Cell, NEW v \in Content, NEW n \in 1..ChunkUnits, ptr[c] # 0,
         units' = Written(c, v, n), UNCHANGED <<files, ptr>>, call.at # "made", call'.at # "made",
         FileInv'
  PROVE  Dead' = Dead
<1>1. TypeOK /\ PointersInFile
  BY DEF FileInv
<1>2. ASSUME NEW d \in Cell
      PROVE  d \in Dead' <=> d \in Dead
  <2>1. CASE RegionOf[d] = RegionOf[c]
    <3>1. Size(RegionOf[c]) # 0 /\ (Size(RegionOf[c]) # 0)'
      <4>1. Size(RegionOf[c]) # 0
        BY PlacedAlive
      <4>2. FileInv' /\ ptr'[c] # 0
        OBVIOUS
      <4>3. /\ Len(units'[RegionOf[c]]) >= Size(RegionOf[c])
            /\ Size(RegionOf[c]) \in Nat /\ Len(units'[RegionOf[c]]) \in Nat
        BY <1>1, WrittenUnits, Sizes, Constants DEF FileInv, TypeOK
      <4>4. QED
        BY <4>1, <4>3 DEF Size
    <3>2. QED
      BY <2>1, <3>1 DEF Dead, IsDead
  <2>2. CASE RegionOf[d] # RegionOf[c]
    <3>1. units'[RegionOf[d]] = units[RegionOf[d]]
      BY <1>1, <2>2, WrittenUnits, Constants
    <3>2. QED
      BY <3>1 DEF Dead, IsDead, Size
  <2>3. QED
    BY <2>1, <2>2
<1>3. QED
  BY <1>2 DEF Dead

LEMMA DataStep ==
  ASSUME FileInv, FileInv', WriteData
  PROVE  CalmStep
<1>0. PICK c \in Cell, v \in Content : c = call.cell /\ v = call.content
  BY CallFields DEF FileInv, WriteData
<1>1. /\ TypeOK /\ call \in Calling /\ ptr[c] # 0 /\ call.at = "placed" /\ call'.at = "idle"
      /\ units' = Written(c, v, ChunkUnits) /\ call' = Idle /\ UNCHANGED <<files, ptr>>
      /\ ChunkUnits \in 1..ChunkUnits
  BY <1>0, CallFields, Constants DEF WriteData, FileInv, FilesWellFormed, Idle
<1>2. SlotOf(c)' = v /\ Complete(c)'
  BY <1>1, WrittenSlot
<1>3. Putting # Idle /\ Putting.cell = c /\ Putting.content = v /\ Putting' = Idle
  BY <1>0, <1>1, PuttingFacts DEF Putting
<1>4. M!Write(c, {v})
  BY <1>1, <1>2, WriteStep
<1>5. Dead' = Dead
  BY <1>1, WrittenDead
<1>6. Slots[c] # Absent \/ c \in Loose
  <2>1. CASE Complete(c)
    <3>1. SlotOf(c) \in Content \cup {Unknown}
      BY <1>1, <2>1, SlotFacts DEF SlotsAreRight
    <3>2. QED
      BY <3>1, RegionAssumption DEF Slots
  <2>2. CASE ~Complete(c)
    BY <1>1, <2>2 DEF Loose
  <2>3. QED
    BY <2>1, <2>2
<1>7. c \notin Loose'
  BY <1>2 DEF Loose
<1>8. M!Finish
  BY <1>3, <1>4, <1>5, <1>6, <1>7 DEF M!Finish
<1>9. QED
  BY <1>8 DEF CalmStep, CalmNext

LEMMA KillStep ==
  ASSUME FileInv, FileInv', Killed
  PROVE  MapStep
<1>0. PICK c \in Cell, v \in Content : c = call.cell /\ v = call.content
  BY CallFields DEF FileInv, Killed, Stage
<1>1. /\ TypeOK /\ call \in Calling /\ call' = Idle /\ call'.at = "idle"
      /\ UNCHANGED <<files, ptr>>
  BY <1>0, CallFields DEF Killed, FileInv, Stage, Idle
<1>2. Putting # Idle /\ Putting.cell = c /\ Putting.content = v /\ Putting' = Idle
  BY <1>0, <1>1, PuttingFacts DEF Putting
<1>3. CASE UNCHANGED units /\ call.at # "made"
  <2>1. Dead' = Dead
    BY <1>1, <1>3, SameDead
  <2>2. Slots' = Slots /\ Loose' = Loose /\ Clash' = Clash
    BY <1>1, <1>3, SameMap
  <2>3. M!Write(c, {Slots[c], v, Unknown})
    BY <2>2, SlotTypes DEF SlotsTyped, M!Write
  <2>4. M!Kill
    BY <1>2, <2>1, <2>3 DEF M!Kill
  <2>5. QED
    BY <2>4 DEF MapStep, M!MapNext
<1>4. CASE UNCHANGED units /\ call.at = "made"
  <2> DEFINE D == {d \in Cell : RegionOf[d] = Current}
  <2>1. Slots' = Slots /\ Loose' = Loose /\ Clash' = Clash
    BY <1>1, <1>4, SameMap
  <2>2. Size(Current) = 0 /\ Current \in files
    BY <1>4 DEF FileInv, FilesWellFormed, Size
  <2>3. Dead' = Dead \cup D
    BY <1>1, <1>4, <2>2 DEF Dead, IsDead, Size, Current
  <2>4. ASSUME NEW d \in D
        PROVE  d \notin Loose /\ Slots[d] = Absent
    <3>1. ptr[d] = 0
      BY <2>2, PlacedAlive
    <3>2. QED
      BY <3>1, SlotFacts DEF SlotsAreRight, Slots, Loose
  <2>5. c \in D
    BY <1>0 DEF Current
  <2>6. D \in SUBSET {d \in Cell \ Loose : Slots[d] = Absent}
    BY <2>4
  <2> HIDE DEF D
  <2>7. M!Kill
    BY <1>2, <2>1, <2>3, <2>5, <2>6 DEF M!Kill
  <2>8. QED
    BY <2>7 DEF MapStep, M!MapNext
<1>5. ASSUME call.at = "placed", NEW n \in 1..ChunkUnits, units' = Written(c, v, n)
      PROVE  MapStep
  <2>1. ptr[c] # 0 /\ call.at # "made" /\ call'.at # "made"
    BY <1>0, <1>1, <1>5 DEF FileInv, FilesWellFormed
  <2>2. SlotOf(c)' \in {Slots[c], v, Unknown}
    BY <1>1, <1>5, <2>1, WrittenSlot DEF Slots
  <2>3. M!Write(c, {Slots[c], v, Unknown})
    BY <1>1, <1>5, <2>1, <2>2, WriteStep
  <2>4. Dead' = Dead
    BY <1>1, <1>5, <2>1, WrittenDead
  <2>5. M!Kill
    BY <1>2, <2>3, <2>4 DEF M!Kill
  <2>6. QED
    BY <2>5 DEF MapStep, M!MapNext
<1>6. QED
  BY <1>0, <1>3, <1>4, <1>5 DEF Killed

LEMMA CalmSteps == FileInv /\ FileInv' /\ [Next /\ ~Killed]_vars => CalmStep
<1> SUFFICES ASSUME FileInv, FileInv', [Next /\ ~Killed]_vars
             PROVE  CalmStep
  OBVIOUS
<1>1. ASSUME UNCHANGED <<files, units, ptr, call>>
      PROVE  CalmStep
  <2>1. Dead' = Dead /\ Putting' = Putting
    BY <1>1 DEF Dead, IsDead, Size, Putting
  <2>2. QED
    BY <1>1, <2>1, SameMap, StutterStep
<1>2. QED
  BY <1>1, BeginStep, HeaderStep, PointerStep, DataStep
     DEF Next, GetChunk, Reopen, vars, disk

LEMMA MapSteps == FileInv /\ FileInv' /\ [Next]_vars => MapStep
<1>1. CalmStep => MapStep
  BY DEF CalmStep, CalmNext, MapStep, M!MapNext
<1>2. QED
  BY <1>1, CalmSteps, KillStep

LEMMA MapStart == Init => M!MapInit
<1> SUFFICES ASSUME Init
             PROVE  M!MapInit
  OBVIOUS
<1>1. \A c \in Cell : SlotOf(c) = Absent
  BY DEF Init, SlotOf, InFile
<1>2. Slots = [c \in Cell |-> Absent]
  BY <1>1 DEF Slots
<1>3. Putting = Idle /\ Dead = {}
  BY DEF Init, Putting, Dead, IsDead
<1>4. Loose = {} /\ Clash = {}
  BY DEF Init, Loose, Clash, Overlaps
<1>5. QED
  BY <1>2, <1>3, <1>4 DEF M!MapInit

\* Whatever the caches forget and wherever a kill falls between the writes of
\* set_chunk, what is found for a chunk changes only by a put of the chunk itself
\* or of one whose place overlaps its own; and only chunks that a kill has left
\* without all their data ever get such places (Database::get_chunk, set_chunk).
THEOREM FilesKeepChunks == Spec => KeepsChunks
<1>1. Init => M!MapInit
  BY MapStart
<1>2. FileInv /\ FileInv' /\ [Next]_vars => [M!MapNext]_(M!chunkMap)
  BY MapSteps DEF MapStep
<1>3. QED
  BY <1>1, <1>2, FileAlways, PTL DEF Spec, KeepsChunks, M!MapSpec

\* Between calls no chunk is loose, and none clash.
Calm ==
  /\ Clash = {}
  /\ Putting = Idle => Loose = {}
  /\ Putting # Idle => Loose \subseteq {Putting.cell}

LEMMA StaysCalm == FileInv /\ Calm /\ CalmStep => Calm'
<1> SUFFICES ASSUME FileInv, Calm, CalmStep
             PROVE  Calm'
  OBVIOUS
<1>1. ASSUME NEW c \in Cell, NEW v \in Content, M!Begin(c, v)
      PROVE  Calm'
  BY <1>1 DEF M!Begin, Calm
<1>2. CASE M!Locate
  <2>1. Loose = {}
    BY <1>2 DEF M!Locate, Calm
  <2>2. Clash' = {} /\ Loose' = {Putting.cell} /\ Putting' = Putting /\ Putting # Idle
    BY <1>2, <2>1 DEF M!Locate, Calm
  <2>3. QED
    BY <2>2 DEF Calm
<1>3. CASE M!Finish
  BY <1>3 DEF M!Finish, M!Write, Calm
<1>4. CASE M!Lose
  <2>1. Putting.cell \in Dead /\ UNCHANGED <<Loose, Clash>> /\ Putting' = Idle
    BY <1>4 DEF M!Lose
  <2>2. Putting.cell \notin Loose
    BY <2>1, PlacedAlive DEF Loose, Dead, IsDead
  <2>3. QED
    BY <2>1, <2>2 DEF Calm
<1>5. CASE UNCHANGED M!chunkMap
  BY <1>5 DEF M!chunkMap, Calm
<1>6. QED
  BY <1>1, <1>2, <1>3, <1>4, <1>5 DEF CalmStep, CalmNext

\* As long as no set_chunk is killed, no two places overlap, so no put changes
\* what is found for another chunk (Database::set_chunk).
THEOREM NoneClashUnkilled == Init /\ [][Next /\ ~Killed]_vars => [](Clash = {})
<1>1. Init => Calm
  <2> SUFFICES ASSUME Init
               PROVE  Calm
    OBVIOUS
  <2>1. M!MapInit
    BY MapStart
  <2>2. QED
    BY <2>1 DEF M!MapInit, Calm
<1>2. FileInv /\ FileInv' /\ Calm /\ [Next /\ ~Killed]_vars => Calm'
  BY CalmSteps, StaysCalm
<1>3. [Next /\ ~Killed]_vars => [Next]_vars
  OBVIOUS
<1>4. Calm => Clash = {}
  BY DEF Calm
<1>5. QED
  BY <1>1, <1>2, <1>3, <1>4, FileAlways, PTL DEF Spec
=============================================================================
