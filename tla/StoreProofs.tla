----------------------------- MODULE StoreProofs -----------------------------
(***************************************************************************)
(* Proofs about WorldStore, for any World objects, chunks, regions,        *)
(* contents, properties and limits.                                        *)
(***************************************************************************)
EXTENDS WorldStore, FiniteSetTheorems, SequenceTheorems, TLAPS

-----------------------------------------------------------------------------
(* The inductive invariant.  An object is in use from Open until it is       *)
(* deleted, and in only one place; of the others nothing is left.            *)

Live == phase \in {"running", "closing"}

Elems(s) == {s[i] : i \in 1..Len(s)}
Once(s) == \A i, j \in 1..Len(s) : i # j => s[i] # s[j]
InUse == (Closing \cup {current}) \ {None}

ClosingOnce ==
  /\ Once(closing) /\ Once(due)
  /\ Elems(closing) \cap Elems(due) = {}
  /\ current # None => current \notin Listed
  /\ Saver \in Listed => saving
  /\ ~Live => closing = <<>> /\ current = None
  /\ phase = "closing" <=> due # <<>>

Blank(o) ==
  /\ data[o] = NothingLoaded /\ changed[o] = {} /\ nonexistant[o] = {}
  /\ created_dir[o] = FALSE /\ propChanged[o] = FALSE
UnusedAreBlank == \A o \in Obj \ InUse : Blank(o)

\* What is in a file is in a directory.
FilesHold ==
  /\ \A c \in Chunk : disk.slots[c] # Absent => RegionOf[c] \in disk.files
  /\ disk.files # {} => disk.dir
  /\ \A o \in Obj : created_dir[o] => disk.dir

\* Whoever may yet save a chunk can, the directory being its own or it the only
\* one to make it, unless rivals opened the world.
Active(o) == o = current \/ changed[o] # {}
DirIsOwned ==
  ~rivals =>
    /\ lost = {}
    /\ disk.dir => \A o \in Obj : Active(o) => created_dir[o]
    /\ ~disk.dir => \A o, p \in Obj : Active(o) /\ Active(p) => o = p

\* The newest content is in the objects that changed it, or else in the files.
NewestIsSomewhere ==
  Live =>
    \A c \in Chunk \ Doubtful :
      /\ \A o \in Obj : c \in changed[o] => data[o][c] = canvas[c]
      /\ (\A o \in Obj : c \notin changed[o]) => OnDisk(disk, c) = canvas[c]
SomethingKept ==
  \A c \in Chunk : /\ canvas[c] \in kept[c]
                   /\ c \notin Doubtful => OnDisk(disk, c) \in kept[c]

\* The current object has loaded nothing that waits elsewhere, and what it takes
\* for missing is.
CurrentSeesIt ==
  current # None =>
    \A c \in Chunk \ Doubtful :
      /\ c \in Loaded(current) => data[current][c] = canvas[c] /\ c \notin Waiting
      /\ RegionOf[c] \in nonexistant[current] => disk.slots[c] = Absent /\ c \notin Waiting

Shape == TypeOK /\ ClosingOnce /\ UnusedAreBlank /\ FilesHold
StoreInv == Shape /\ DirIsOwned /\ NewestIsSomewhere /\ SomethingKept /\ CurrentSeesIt

LEMMA Constants ==
  /\ None \notin Obj /\ Saver \notin Obj /\ Bg \in Content /\ Absent \notin Content /\ NoProps \in Prop
  /\ IsFiniteSet(Chunk) /\ \A c \in Chunk : RegionOf[c] \in Region
BY StoreAssumption

-----------------------------------------------------------------------------
(* Saving. *)

\* d is what the files become when o saves the chunks K.
IsStored(d, o, K) ==
  /\ d \in Disk /\ d.prop = disk.prop
  /\ K = {} \/ ~CanCreate(o) => d = disk
  /\ K # {} /\ CanCreate(o) =>
       /\ d.dir /\ d.files = disk.files \cup RegionsOf(K)
       /\ \A c \in K : d.slots[c] = data[o][c]
       /\ \A c \in Chunk \ K : d.slots[c] = disk.slots[c]

LEMMA StoredFacts ==
  ASSUME TypeOK, NEW o \in Obj, NEW K \in SUBSET changed[o], NEW d, d = Stored(o, K)
  PROVE  IsStored(d, o, K)
<1> DEFINE files == disk.files \cup RegionsOf(K)
           slots == [c \in Chunk |-> IF c \in K THEN data[o][c] ELSE disk.slots[c]]
<1>1. /\ disk \in Disk /\ data[o] \in [Chunk -> Content \cup {Absent}]
      /\ disk = [dir |-> disk.dir, files |-> disk.files, slots |-> disk.slots, prop |-> disk.prop]
  BY DEF TypeOK, Disk
<1>2. files \in SUBSET Region /\ slots \in [Chunk -> Content \cup {Absent}]
  <2>1. K \subseteq Chunk
    BY DEF TypeOK
  <2>2. QED
    BY <1>1, <2>1, Constants DEF Disk, RegionsOf
<1>3. CASE K = {} \/ ~CanCreate(o)
  BY <1>1, <1>3 DEF Stored, IsStored
<1>4. CASE K # {} /\ CanCreate(o)
  <2>1. d = [dir |-> TRUE, files |-> files, slots |-> slots, prop |-> disk.prop]
    BY <1>1, <1>4 DEF Stored, Disk
  <2>2. QED
    <3>1. d \in Disk
      BY <1>1, <1>2, <2>1 DEF Disk
    <3>2. K \subseteq Chunk
      BY DEF TypeOK
    <3>3. /\ \A c \in K : slots[c] = data[o][c]
          /\ \A c \in Chunk \ K : slots[c] = disk.slots[c]
      BY <3>2
    <3> HIDE DEF files, slots
    <3>4. d.dir /\ d.files = files /\ d.slots = slots /\ d.prop = disk.prop
      BY <2>1
    <3>5. QED
      BY <1>4, <3>1, <3>3, <3>4 DEF IsStored, files
<1>5. QED
  BY <1>3, <1>4

LEMMA PropsStoredFacts ==
  ASSUME TypeOK, NEW o \in Obj, NEW d \in Disk, NEW e, e = PropsStored(d, o)
  PROVE  e \in Disk /\ e.dir = d.dir /\ e.files = d.files /\ e.slots = d.slots
<1>1. d = [dir |-> d.dir, files |-> d.files, slots |-> d.slots, prop |-> d.prop]
      /\ prop[o] \in Prop
  BY DEF TypeOK, Disk
<1>2. e = d \/ e = [dir |-> d.dir, files |-> d.files, slots |-> d.slots, prop |-> prop[o]]
  BY <1>1 DEF PropsStored, Disk
<1>3. QED
  BY <1>1, <1>2 DEF Disk

\* The files d are as they must be.
Holds(d) ==
  /\ d \in Disk
  /\ \A c \in Chunk : d.slots[c] # Absent => RegionOf[c] \in d.files
  /\ d.files # {} => d.dir

LEMMA StoredHolds ==
  ASSUME Shape, NEW o \in Obj, NEW K \in SUBSET changed[o], NEW d, d = Stored(o, K)
  PROVE  Holds(d)
<1>1. TypeOK /\ K \in SUBSET Chunk /\ \A c \in K : data[o][c] # Absent
  BY DEF Shape, TypeOK
<1>2. IsStored(d, o, K)
  BY <1>1, StoredFacts
<1>3. QED
  BY <1>2 DEF IsStored, Holds, Shape, FilesHold, RegionsOf

\* Saving the changed chunks K of o: what becomes of the files.
LEMMA SavedFacts ==
  ASSUME StoreInv, NEW o \in Obj, NEW K \in SUBSET changed[o], NEW d, d = Stored(o, K)
  PROVE  /\ Holds(d) /\ d.prop = disk.prop
         /\ disk.dir => d.dir
         /\ d.dir /\ ~disk.dir => Creates(o, K)
         /\ Creates(o, K) => d.dir
         /\ created_dir[o] => Creates(o, K)
         /\ Creates(o, K) \in BOOLEAN
         /\ K # {} => (Creates(o, K) <=> CanCreate(o))
         /\ ~rivals /\ K # {} => CanCreate(o)
         /\ \A b \in Chunk : b \in K /\ CanCreate(o) => d.slots[b] = data[o][b]
         /\ \A b \in Chunk : b \notin K \/ ~CanCreate(o) => d.slots[b] = disk.slots[b]
<1>1. TypeOK /\ Shape
  BY DEF StoreInv, Shape
<1>2. Holds(d)
  BY <1>1, StoredHolds
<1>3. /\ d.prop = disk.prop
      /\ K = {} \/ ~CanCreate(o) => d = disk
      /\ K # {} /\ CanCreate(o) =>
           /\ d.dir
           /\ \A c \in K : d.slots[c] = data[o][c]
           /\ \A c \in Chunk \ K : d.slots[c] = disk.slots[c]
  <2>1. IsStored(d, o, K)
    BY <1>1, StoredFacts
  <2>2. QED
    BY <2>1 DEF IsStored
<1>4. created_dir[o] => disk.dir
  BY <1>1 DEF Shape, FilesHold
<1>5. ~rivals /\ K # {} => CanCreate(o)
  BY DEF StoreInv, DirIsOwned, CanCreate, Active
<1>6. created_dir[o] \in BOOLEAN /\ disk.dir \in BOOLEAN
  BY <1>1 DEF TypeOK, Disk
<1>7. /\ disk.dir => d.dir
      /\ d.dir /\ ~disk.dir => Creates(o, K)
      /\ Creates(o, K) => d.dir
      /\ created_dir[o] => Creates(o, K)
      /\ Creates(o, K) \in BOOLEAN
      /\ K # {} => (Creates(o, K) <=> CanCreate(o))
  BY <1>3, <1>4, <1>6 DEF Creates, CanCreate
<1>8. /\ \A b \in Chunk : b \in K /\ CanCreate(o) => d.slots[b] = data[o][b]
      /\ \A b \in Chunk : b \notin K \/ ~CanCreate(o) => d.slots[b] = disk.slots[b]
  BY <1>3
<1>9. QED
  BY <1>2, <1>3, <1>5, <1>7, <1>8

\* What the histories say of them.  The chunks K that are not saved are lost.
LEMMA SavedHistory ==
  ASSUME StoreInv, Live, NEW o \in Obj, NEW K \in SUBSET changed[o], NEW d, d = Stored(o, K)
  PROVE  /\ lost \subseteq LostAfter(o, K) /\ LostAfter(o, K) \subseteq lost \cup K
         /\ ~rivals => LostAfter(o, K) = {}
         /\ \A b \in Chunk : b \notin K => OnDisk(d, b) = OnDisk(disk, b)
         /\ \A b \in Chunk \ Doubtful : OnDisk(d, b) \in kept[b]
         /\ \A b \in Chunk \ (forked \cup LostAfter(o, K)) : b \in K => OnDisk(d, b) = canvas[b]
         /\ \A b \in Chunk \ (forked \cup LostAfter(o, K)) : OnDisk(d, b) \in KeptAfter(K)[b]
         /\ \A b \in Chunk : RegionOf[b] \in StillMissing(o, K) => d.slots[b] = disk.slots[b]
<1>1. /\ K # {} => (Creates(o, K) <=> CanCreate(o))
      /\ ~rivals /\ K # {} => CanCreate(o)
      /\ \A b \in Chunk : b \in K /\ CanCreate(o) => d.slots[b] = data[o][b]
      /\ \A b \in Chunk : b \notin K \/ ~CanCreate(o) => d.slots[b] = disk.slots[b]
  BY SavedFacts
<1>2. /\ TypeOK /\ K \in SUBSET Chunk /\ \A c \in K : data[o][c] # Absent
      /\ forked \subseteq Chunk /\ lost \subseteq Chunk
  BY DEF StoreInv, Shape, TypeOK
<1>3. lost \subseteq LostAfter(o, K) /\ LostAfter(o, K) \subseteq lost \cup K
  BY DEF LostAfter
<1>4. ~rivals => LostAfter(o, K) = {}
  BY <1>1 DEF LostAfter, StoreInv, DirIsOwned
<1>5. \A b \in Chunk : b \notin K \/ ~CanCreate(o) => OnDisk(d, b) = OnDisk(disk, b)
  BY <1>1 DEF OnDisk
<1>6. ASSUME NEW b \in Chunk \ Doubtful
      PROVE  /\ OnDisk(d, b) \in kept[b]
             /\ b \in K /\ CanCreate(o) => OnDisk(d, b) = canvas[b]
  <2>1. OnDisk(disk, b) \in kept[b] /\ canvas[b] \in kept[b]
    BY <1>6 DEF StoreInv, SomethingKept
  <2>2. b \in K => data[o][b] = canvas[b]
    BY <1>6 DEF StoreInv, NewestIsSomewhere
  <2>3. b \in K /\ CanCreate(o) => OnDisk(d, b) = data[o][b]
    BY <1>1, <1>2 DEF OnDisk
  <2>4. QED
    BY <1>5, <2>1, <2>2, <2>3
<1>7. ASSUME NEW b \in Chunk \ (forked \cup LostAfter(o, K))
      PROVE  /\ b \in K => OnDisk(d, b) = canvas[b]
             /\ OnDisk(d, b) \in KeptAfter(K)[b]
  <2>1. b \in Chunk \ Doubtful /\ (b \in K => CanCreate(o))
    BY <1>3, <1>7 DEF Doubtful, LostAfter
  <2>2. b \in K => OnDisk(d, b) = canvas[b]
    BY <1>6, <2>1
  <2>3. KeptAfter(K)[b] = IF b \in K THEN {canvas[b]} ELSE kept[b]
    BY DEF KeptAfter
  <2>4. QED
    BY <1>6, <2>1, <2>2, <2>3
<1>8. ASSUME NEW b \in Chunk, RegionOf[b] \in StillMissing(o, K)
      PROVE  d.slots[b] = disk.slots[b]
  BY <1>1, <1>8 DEF StillMissing, RegionsOf
<1>9. QED
  BY <1>3, <1>4, <1>5, <1>6, <1>7, <1>8

-----------------------------------------------------------------------------
(* The objects that are closing. *)

LEMMA ListedAre == Listed = Elems(closing) \cup Elems(due)
BY DEF Listed, Elems

LEMMA ElemsIn ==
  ASSUME NEW S, NEW s \in Seq(S)
  PROVE  Elems(s) \subseteq S
BY DEF Elems

LEMMA ClosingObjects ==
  ASSUME TypeOK
  PROVE  /\ Closing \subseteq Obj /\ InUse \subseteq Obj
         /\ Waiting \subseteq Chunk
         /\ \A c : c \in Waiting <=> \E o \in Closing : c \in changed[o]
<1>1. Elems(closing) \subseteq Obj \cup {Saver} /\ Elems(due) \subseteq Obj \cup {Saver}
  BY ElemsIn DEF TypeOK
<1>2. Closing \subseteq Obj
  BY <1>1, ListedAre DEF Closing
<1>3. QED
  BY <1>2 DEF TypeOK, Waiting, InUse

LEMMA NoElems == <<>> \in Seq(Obj \cup {Saver}) /\ Elems(<<>>) = {} /\ Once(<<>>)
BY DEF Elems, Once

LEMMA Pushed ==
  ASSUME NEW S, NEW x \in S, NEW s \in Seq(S), NEW t, t = <<x>> \o s
  PROVE  /\ t \in Seq(S) /\ t # <<>>
         /\ Elems(t) = Elems(s) \cup {x}
         /\ Once(s) /\ x \notin Elems(s) => Once(t)
<1>1. /\ t \in Seq(S) /\ Len(s) \in Nat
      /\ Len(t) = Len(s) + 1 /\ t[1] = x
      /\ \A i \in 1..Len(s) : t[i + 1] = s[i]
      /\ \A i \in 2..Len(t) : i - 1 \in 1..Len(s) /\ t[i] = s[i - 1]
  OBVIOUS
<1>2. Elems(t) = Elems(s) \cup {x}
  <2>1. \A y : y \in Elems(t) => y \in Elems(s) \cup {x}
    BY <1>1 DEF Elems
  <2>2. \A y : y \in Elems(s) => y \in Elems(t)
    BY <1>1 DEF Elems
  <2>3. x \in Elems(t)
    BY <1>1 DEF Elems
  <2>4. QED
    BY <2>1, <2>2, <2>3
<1>3. t # <<>>
  BY <1>1
<1>4. ASSUME Once(s), x \notin Elems(s), NEW i \in 1..Len(t), NEW j \in 1..Len(t), i # j
      PROVE  t[i] # t[j]
  <2>1. \A k \in 1..Len(s) : s[k] # x
    BY <1>4 DEF Elems
  <2>2. CASE i = 1
    BY <1>1, <1>4, <2>1, <2>2
  <2>3. CASE j = 1
    BY <1>1, <1>4, <2>1, <2>3
  <2>4. CASE i # 1 /\ j # 1
    <3>1. i - 1 # j - 1 /\ i \in 2..Len(t) /\ j \in 2..Len(t)
      BY <1>1, <1>4, <2>4
    <3>2. i - 1 \in 1..Len(s) /\ j - 1 \in 1..Len(s) /\ t[i] = s[i - 1] /\ t[j] = s[j - 1]
      BY <1>1, <3>1
    <3>3. s[i - 1] # s[j - 1]
      BY <1>4, <3>1, <3>2, Zenon DEF Once
    <3>4. QED
      BY <3>2, <3>3, Zenon
  <2>5. QED
    BY <2>2, <2>3, <2>4
<1>5. QED
  BY <1>1, <1>2, <1>3, <1>4 DEF Once

LEMMA PoppedOff ==
  ASSUME NEW S, NEW s \in Seq(S), s # <<>>, Once(s), NEW t, t = Tail(s)
  PROVE  /\ Head(s) \in S /\ Head(s) \in Elems(s) /\ t \in Seq(S)
         /\ Elems(t) = Elems(s) \ {Head(s)}
         /\ Once(t)
<1>1. /\ Len(s) \in Nat /\ Len(s) >= 1 /\ t \in Seq(S)
      /\ Len(t) = Len(s) - 1 /\ Head(s) = s[1]
      /\ \A i \in 1..Len(t) : i + 1 \in 1..Len(s) /\ t[i] = s[i + 1]
      /\ \A i \in 2..Len(s) : i - 1 \in 1..Len(t) /\ t[i - 1] = s[i]
  OBVIOUS
<1>2. Head(s) \in S /\ Head(s) \in Elems(s)
  BY <1>1 DEF Elems
<1>3. Elems(t) = Elems(s) \ {Head(s)}
  <2>1. \A y : y \in Elems(t) => y \in Elems(s) \ {Head(s)}
    BY <1>1 DEF Elems, Once
  <2>2. ASSUME NEW i \in 1..Len(s), s[i] # s[1]
        PROVE  s[i] \in Elems(t)
    <3>1. i \in 2..Len(s)
      BY <1>1, <2>2
    <3>2. i - 1 \in 1..Len(t) /\ t[i - 1] = s[i]
      BY <1>1, <3>1
    <3>3. QED
      BY <3>2 DEF Elems
  <2>3. \A y \in Elems(s) : \E i \in 1..Len(s) : y = s[i]
    BY DEF Elems
  <2>4. QED
    BY <1>1, <2>1, <2>2, <2>3
<1>4. Once(t)
  <2>1. \A i \in 1..Len(t), j \in 1..Len(t) : i # j => s[i + 1] # s[j + 1]
    BY <1>1 DEF Once
  <2>2. QED
    BY <1>1, <2>1 DEF Once
<1>5. QED
  BY <1>1, <1>2, <1>3, <1>4

-----------------------------------------------------------------------------
(* Steps that leave the files to others. *)

LEMMA OnDiskType ==
  ASSUME NEW d \in Disk, NEW c \in Chunk
  PROVE  OnDisk(d, c) \in Content
BY Constants DEF Disk, OnDisk

LEMMA AllStoredFacts ==
  ASSUME StoreInv, NEW o \in Obj, NEW d, d = Stored(o, changed[o]), NEW e, e = AllStored(o)
  PROVE  /\ e = PropsStored(d, o) /\ Holds(e)
         /\ e.dir = d.dir /\ e.files = d.files /\ e.slots = d.slots
         /\ \A b \in Chunk : OnDisk(e, b) = OnDisk(d, b)
<1>1. TypeOK /\ changed[o] \in SUBSET changed[o]
  BY DEF StoreInv, Shape
<1>2. Holds(d)
  BY <1>1, SavedFacts
<1>3. e = PropsStored(d, o)
  BY DEF AllStored
<1>4. e \in Disk /\ e.dir = d.dir /\ e.files = d.files /\ e.slots = d.slots
  BY <1>1, <1>2, <1>3, PropsStoredFacts DEF Holds
<1>5. QED
  BY <1>2, <1>3, <1>4 DEF Holds, OnDisk

\* The files in the middle of a handler.
LEMMA WritersAre ==
  ASSUME StoreInv, Live, NEW o \in Writers
  PROVE  o \in Obj
<1>1. TypeOK /\ ClosingOnce
  BY DEF StoreInv, Shape
<1>2. CASE phase = "running"
  BY <1>1, <1>2 DEF Writers, TypeOK
<1>3. CASE phase = "closing"
  <2>1. due # <<>> /\ due \in Seq(Obj \cup {Saver}) /\ Once(due)
    BY <1>1, <1>3 DEF ClosingOnce, TypeOK
  <2>2. \A t : t = Tail(due) => Head(due) \in Obj \cup {Saver}
    BY <2>1, PoppedOff
  <2>3. QED
    BY <1>3, <2>2 DEF Writers
<1>4. QED
  BY <1>2, <1>3 DEF Live

LEMMA PartialFacts ==
  ASSUME StoreInv, Live, NEW d \in Partial
  PROVE  Holds(d) /\ \A c \in Chunk \ Doubtful : OnDisk(d, c) \in kept[c]
<1>1. CASE d = disk
  BY <1>1 DEF StoreInv, Shape, TypeOK, FilesHold, Holds, SomethingKept
<1>2. ASSUME NEW o \in Writers, NEW K \in SUBSET changed[o], d = Stored(o, K)
      PROVE  Holds(d) /\ \A c \in Chunk \ Doubtful : OnDisk(d, c) \in kept[c]
  BY <1>2, WritersAre, SavedFacts, SavedHistory
<1>3. ASSUME NEW o \in Writers, d = AllStored(o)
      PROVE  Holds(d) /\ \A c \in Chunk \ Doubtful : OnDisk(d, c) \in kept[c]
  <2>1. o \in Obj /\ changed[o] \in SUBSET changed[o]
    BY WritersAre
  <2>2. \A e : e = Stored(o, changed[o]) =>
          Holds(d) /\ \A b \in Chunk : OnDisk(d, b) = OnDisk(e, b)
    BY <1>3, <2>1, AllStoredFacts
  <2>3. \A e : e = Stored(o, changed[o]) => \A b \in Chunk \ Doubtful : OnDisk(e, b) \in kept[b]
    BY <2>1, SavedHistory
  <2>4. QED
    BY <2>2, <2>3
<1>4. QED
  BY <1>1, <1>2, <1>3 DEF Partial

\* The process ends: only the files remain, and the histories tell of them.
LEMMA GoneInv ==
  ASSUME StoreInv, Live, NEW how \in {"exited", "killed"}, NEW d \in Partial, Gone(how, d)
  PROVE  StoreInv'
<1>1. /\ phase' = how /\ current' = None /\ closing' = <<>> /\ due' = <<>> /\ saving' = FALSE
      /\ disk' = d /\ UNCHANGED <<canvas, kept, forked, lost, rivals>>
  BY DEF Gone, history, doubts
<1>2. /\ data' = [o \in Obj |-> NothingLoaded] /\ changed' = [o \in Obj |-> {}]
      /\ nonexistant' = [o \in Obj |-> {}] /\ created_dir' = [o \in Obj |-> FALSE]
      /\ prop' = [o \in Obj |-> NoProps] /\ propChanged' = [o \in Obj |-> FALSE]
  BY DEF Gone, Forget
<1>3. /\ NothingLoaded \in [Chunk -> Content \cup {Absent}] /\ NoProps \in Prop
      /\ TypeOK
  BY Constants DEF NothingLoaded, StoreInv, Shape
<1>4. Holds(d) /\ \A c \in Chunk \ Doubtful : OnDisk(d, c) \in kept[c]
  BY PartialFacts
<1>5. TypeOK'
  <2>1. PICK q \in Seq(Obj \cup {Saver}) : q = <<>>
    BY NoElems
  <2>2. closing' = q /\ due' = q
    BY <1>1, <2>1
  <2>3. disk' \in Disk
    BY <1>1, <1>4 DEF Holds
  <2>4. closing' \in Seq(Obj \cup {Saver}) /\ due' \in Seq(Obj \cup {Saver})
    BY <2>2
  <2>5. QED
    BY <1>1, <1>2, <1>3, <2>3, <2>4 DEF TypeOK
<1>6. ClosingOnce'
  <2>1. Elems(closing)' = {} /\ Elems(due)' = {} /\ Once(closing)' /\ Once(due)'
    BY <1>1, NoElems
  <2>2. Listed' = {}
    BY <1>1 DEF Listed
  <2>3. QED
    BY <1>1, <2>1, <2>2 DEF ClosingOnce
<1>7. UnusedAreBlank'
  BY <1>2 DEF UnusedAreBlank, Blank
<1>8. FilesHold'
  BY <1>1, <1>2, <1>4 DEF FilesHold, Holds
<1>9. DirIsOwned' /\ CurrentSeesIt'
  <2>1. \A o \in Obj : ~Active(o)'
    BY <1>1, <1>2, Constants DEF Active
  <2>2. ~rivals' => lost' = {}
    BY <1>1 DEF StoreInv, DirIsOwned
  <2>3. QED
    BY <1>1, <2>1, <2>2 DEF DirIsOwned, CurrentSeesIt
<1>10. NewestIsSomewhere'
  BY <1>1 DEF NewestIsSomewhere, Live
<1>11. SomethingKept'
  BY <1>1, <1>4 DEF StoreInv, SomethingKept, Doubtful
<1>12. QED
  BY <1>5, <1>6, <1>7, <1>8, <1>9, <1>10, <1>11 DEF StoreInv, Shape

\* What is in memory and in the files stays, and the histories too.
LEMMA SameStore ==
  ASSUME StoreInv, UNCHANGED <<memory, disk, history>>,
         closing' \in Seq(Obj \cup {Saver}), due' \in Seq(Obj \cup {Saver}), saving' \in BOOLEAN,
         ClosingOnce', InUse' = InUse,
         phase' \in {"running", "closing", "exited", "killed"}, Live' => Live,
         current' = None \/ (current' = current /\ Waiting' = Waiting)
  PROVE  StoreInv'
<1>1. /\ UNCHANGED <<data, changed, nonexistant, created_dir, prop, propChanged, disk,
                     canvas, kept, forked, lost, rivals>>
      /\ TypeOK /\ current' \in Obj \cup {None}
  BY DEF memory, history, doubts, StoreInv, Shape, TypeOK
<1>2. TypeOK'
  BY <1>1 DEF TypeOK
<1>3. UnusedAreBlank'
  BY <1>1 DEF StoreInv, Shape, UnusedAreBlank, Blank
<1>4. FilesHold' /\ NewestIsSomewhere' /\ SomethingKept'
  BY <1>1 DEF StoreInv, Shape, FilesHold, NewestIsSomewhere, SomethingKept, Doubtful
<1>5. DirIsOwned'
  <2>1. \A o \in Obj : Active(o)' => Active(o)
    BY <1>1, Constants DEF Active
  <2>2. QED
    BY <1>1, <2>1 DEF StoreInv, DirIsOwned
<1>6. CurrentSeesIt'
  <2>1. CASE current' = None
    BY <2>1 DEF CurrentSeesIt
  <2>2. CASE current' = current /\ Waiting' = Waiting
    BY <1>1, <2>2 DEF StoreInv, CurrentSeesIt, Loaded, Doubtful
  <2>3. QED
    BY <2>1, <2>2
<1>7. QED
  BY <1>2, <1>3, <1>4, <1>5, <1>6 DEF StoreInv, Shape

LEMMA SamePlaces ==
  ASSUME UNCHANGED <<current, closing, due>>
  PROVE  Closing' = Closing /\ InUse' = InUse
BY DEF Closing, Listed, InUse

LEMMA SamePlacesOnce ==
  ASSUME ClosingOnce, UNCHANGED control
  PROVE  ClosingOnce'
BY DEF control, ClosingOnce, Elems, Once, Listed, Live

LEMMA SafedeleteInv ==
  ASSUME StoreInv, safedelete
  PROVE  StoreInv'
<1>1. /\ TypeOK /\ ClosingOnce /\ current \in Obj /\ current # None /\ current' = None
      /\ phase' = phase /\ phase = "running" /\ closing' = <<current>> \o closing
      /\ due' = due /\ saving' = saving
      /\ UNCHANGED <<memory, disk, history>> /\ current # Saver
  BY Constants DEF safedelete, StoreInv, Shape, TypeOK
<1>2. current \notin Elems(closing) /\ current \notin Elems(due)
  BY <1>1, ListedAre DEF ClosingOnce
<1>3. /\ closing' \in Seq(Obj \cup {Saver})
      /\ Elems(closing') = Elems(closing) \cup {current}
      /\ Once(closing')
  <2>1. current \in Obj \cup {Saver} /\ closing \in Seq(Obj \cup {Saver}) /\ Once(closing)
    BY <1>1 DEF TypeOK, ClosingOnce
  <2>2. QED
    BY <1>1, <1>2, <2>1, Pushed
<1>4. Listed' = Listed \cup {current}
  <2>1. Listed' = Elems(closing') \cup Elems(due')
    BY DEF Listed, Elems
  <2>2. QED
    BY <1>1, <1>3, <2>1, ListedAre
<1>5. ClosingOnce'
  <2>1. Elems(closing)' = Elems(closing') /\ Elems(due)' = Elems(due)
        /\ Once(closing)' = Once(closing') /\ Once(due)' = Once(due)
    BY <1>1 DEF Elems, Once
  <2>2. Elems(closing') \cap Elems(due) = {}
    BY <1>1, <1>2, <1>3 DEF ClosingOnce
  <2>3. QED
    BY <1>1, <1>3, <1>4, <2>1, <2>2 DEF ClosingOnce, Live
<1>6. InUse' = InUse
  BY <1>1, <1>4 DEF InUse, Closing
<1>7. QED
  BY <1>1, <1>3, <1>5, <1>6, SameStore DEF TypeOK, Live

LEMMA QuitInv ==
  ASSUME StoreInv, quit
  PROVE  StoreInv'
<1>1. Live /\ TypeOK /\ ClosingOnce
  BY DEF quit, Live, StoreInv, Shape
<1>2. CASE saving
  <2>1. PICK d \in Partial : Gone("exited", d)
    BY <1>2 DEF quit
  <2>2. QED
    BY <1>1, <2>1, GoneInv
<1>3. CASE ~saving
  <2>1. /\ phase' = phase /\ current' = current /\ due' = due /\ saving' = TRUE
        /\ closing' = <<Saver>> \o closing \/ closing' = closing
        /\ UNCHANGED <<memory, disk, history>>
    BY <1>3 DEF quit
  <2>2. Saver \notin Elems(closing) /\ Saver \notin Elems(due)
    BY <1>1, <1>3, ListedAre DEF ClosingOnce
  <2>3. /\ closing' \in Seq(Obj \cup {Saver}) /\ Once(closing')
        /\ Elems(closing') \in {Elems(closing), Elems(closing) \cup {Saver}}
    <3>1. Saver \in Obj \cup {Saver} /\ closing \in Seq(Obj \cup {Saver}) /\ Once(closing)
      BY <1>1 DEF TypeOK, ClosingOnce
    <3>2. CASE closing' = closing
      BY <3>1, <3>2
    <3>3. CASE closing' = <<Saver>> \o closing
      <4>1. /\ closing' \in Seq(Obj \cup {Saver}) /\ Once(closing')
            /\ Elems(closing') = Elems(closing) \cup {Saver}
        BY <2>2, <3>1, <3>3, Pushed
      <4>2. QED
        BY <4>1
    <3>4. QED
      BY <2>1, <3>2, <3>3
  <2>4. Listed' \in {Listed, Listed \cup {Saver}}
    <3>1. Listed' = Elems(closing') \cup Elems(due')
      BY DEF Listed, Elems
    <3>2. QED
      BY <2>1, <2>3, <3>1, ListedAre
  <2>5. ClosingOnce'
    <3>1. Elems(closing)' = Elems(closing') /\ Elems(due)' = Elems(due)
          /\ Once(closing)' = Once(closing') /\ Once(due)' = Once(due)
      BY <2>1 DEF Elems, Once
    <3>2. Elems(closing') \cap Elems(due) = {}
      BY <1>1, <2>2, <2>3 DEF ClosingOnce
    <3>3. current # None => current # Saver
      BY <1>1, Constants DEF TypeOK
    <3>4. Live'
      BY <1>1, <2>1 DEF Live
    <3>5. current # None => current \notin Listed'
      BY <1>1, <2>4, <3>3 DEF ClosingOnce
    <3>6. phase = "closing" <=> due # <<>>
      BY <1>1 DEF ClosingOnce
    <3>7. Once(due)
      BY <1>1 DEF ClosingOnce
    <3>8. QED
      BY <2>1, <2>3, <3>1, <3>2, <3>4, <3>5, <3>6, <3>7 DEF ClosingOnce
  <2>6. InUse' = InUse /\ Waiting' = Waiting
    BY <2>1, <2>4 DEF InUse, Closing, Waiting, memory
  <2>7. QED
    BY <1>1, <2>1, <2>3, <2>5, <2>6, SameStore DEF TypeOK
<1>4. QED
  BY <1>2, <1>3

LEMMA StartClosingInv ==
  ASSUME StoreInv, StartClosing
  PROVE  StoreInv'
<1>1. /\ phase = "running" /\ phase' = "closing" /\ closing # <<>> /\ due' = closing /\ closing' = <<>>
      /\ UNCHANGED <<current, saving, memory, disk, history>> /\ TypeOK /\ ClosingOnce
  BY DEF StartClosing, StoreInv, Shape
<1>2. due = <<>> /\ Elems(due) = {}
  BY <1>1, NoElems DEF ClosingOnce
<1>3. Elems(closing)' = {} /\ Elems(due)' = Elems(closing) /\ Once(closing)' /\ Once(due)' = Once(closing)
  BY <1>1, NoElems DEF Elems, Once
<1>4. Listed' = Listed
  <2>1. Listed' = Elems(closing)' \cup Elems(due)'
    BY DEF Listed, Elems
  <2>2. QED
    BY <1>2, <1>3, <2>1, ListedAre
<1>5. ClosingOnce'
  BY <1>1, <1>3, <1>4 DEF ClosingOnce, Live
<1>6. InUse' = InUse /\ Waiting' = Waiting
  BY <1>1, <1>4 DEF InUse, Closing, Waiting, memory
<1>7. closing' \in Seq(Obj \cup {Saver}) /\ due' \in Seq(Obj \cup {Saver}) /\ saving' \in BOOLEAN
  BY <1>1, NoElems DEF TypeOK
<1>8. QED
  BY <1>1, <1>5, <1>6, <1>7, SameStore DEF Live

LEMMA StutterInv ==
  ASSUME StoreInv, UNCHANGED vars
  PROVE  StoreInv'
<1>1. /\ UNCHANGED <<phase, current, closing, due, saving, memory, disk, history>>
      /\ UNCHANGED control /\ TypeOK /\ ClosingOnce
  BY DEF vars, control, StoreInv, Shape
<1>2. InUse' = InUse /\ Waiting' = Waiting
  BY <1>1, SamePlaces DEF Waiting, memory
<1>3. ClosingOnce'
  BY <1>1, SamePlacesOnce
<1>4. QED
  BY <1>1, <1>2, <1>3, SameStore DEF TypeOK, Live

LEMMA EndInv ==
  ASSUME StoreInv, Killed \/ exit
  PROVE  StoreInv'
<1>1. Live
  BY DEF Killed, exit, Live
<1>2. CASE Killed
  <2>1. PICK d \in Partial : Gone("killed", d)
    BY <1>2 DEF Killed
  <2>2. QED
    BY <1>1, <2>1, GoneInv
<1>3. CASE exit
  BY <1>1, <1>3, GoneInv DEF exit, Partial
<1>4. QED
  BY <1>2, <1>3

\* No object is in use, and the histories begin again with the files.
LEMMA FreshInv ==
  ASSUME Shape, InUse = {}, current = None,
         \A c \in Chunk : canvas[c] = OnDisk(disk, c) /\ kept[c] = {canvas[c]},
         forked = {} /\ lost = {}
  PROVE  StoreInv
<1>1. \A o \in Obj : Blank(o) /\ ~Active(o)
  BY Constants DEF Shape, UnusedAreBlank, Blank, Active
<1>2. DirIsOwned /\ CurrentSeesIt
  BY <1>1 DEF DirIsOwned, CurrentSeesIt
<1>3. NewestIsSomewhere /\ SomethingKept
  BY <1>1 DEF NewestIsSomewhere, SomethingKept, Blank
<1>4. QED
  BY <1>2, <1>3 DEF StoreInv

LEMMA RestartInv ==
  ASSUME StoreInv, Restart
  PROVE  StoreInv'
<1>1. /\ phase' = "running" /\ UNCHANGED <<current, closing, due, saving, memory, disk>>
      /\ ~Live /\ TypeOK /\ ClosingOnce
      /\ canvas' = [c \in Chunk |-> OnDisk(disk, c)] /\ kept' = [c \in Chunk |-> {canvas'[c]}]
      /\ forked' = {} /\ lost' = {} /\ rivals' = FALSE
  BY DEF Restart, Live, StoreInv, Shape
<1>2. closing = <<>> /\ due = <<>> /\ current = None
  BY <1>1 DEF ClosingOnce, Live
<1>3. InUse' = {} /\ InUse = {}
  BY <1>1, <1>2, NoElems, ListedAre DEF InUse, Closing, Listed
<1>4. UNCHANGED <<data, changed, nonexistant, created_dir, prop, propChanged>>
  BY <1>1 DEF memory
<1>5. TypeOK'
  <2>1. \A c \in Chunk : OnDisk(disk, c) \in Content
    BY <1>1, OnDiskType DEF TypeOK
  <2>2. canvas' \in [Chunk -> Content] /\ kept' \in [Chunk -> SUBSET Content]
    BY <1>1, <2>1
  <2>3. QED
    BY <1>1, <1>4, <2>2 DEF TypeOK
<1>6. ClosingOnce'
  <2>1. Listed' = Listed /\ Elems(closing)' = Elems(closing) /\ Elems(due)' = Elems(due)
        /\ Once(closing)' = Once(closing) /\ Once(due)' = Once(due)
    BY <1>1 DEF Listed, Elems, Once
  <2>2. QED
    BY <1>1, <1>2, <2>1 DEF ClosingOnce, Live
<1>7. Shape'
  BY <1>1, <1>3, <1>4, <1>5, <1>6 DEF Shape, StoreInv, UnusedAreBlank, Blank, FilesHold
<1>8. \A c \in Chunk : canvas'[c] = OnDisk(disk', c) /\ kept'[c] = {canvas'[c]}
  BY <1>1
<1>9. /\ Shape' /\ InUse' = {} /\ current' = None
      /\ (\A c \in Chunk : canvas[c] = OnDisk(disk, c) /\ kept[c] = {canvas[c]})'
      /\ (forked = {} /\ lost = {})'
  BY <1>1, <1>2, <1>3, <1>7, <1>8
<1>10. (Shape /\ InUse = {} /\ current = None
        /\ (\A c \in Chunk : canvas[c] = OnDisk(disk, c) /\ kept[c] = {canvas[c]})
        /\ forked = {} /\ lost = {} => StoreInv)'
  BY FreshInv, PTL
<1>11. QED
  BY <1>9, <1>10

-----------------------------------------------------------------------------
(* Steps of the current object. *)

LEMMA OpenInv ==
  ASSUME StoreInv, NEW o \in Obj, Open(o)
  PROVE  StoreInv'
<1>1. /\ phase = "running" /\ current = None /\ o \notin Closing /\ current' = o
      /\ created_dir' = [created_dir EXCEPT ![o] = disk.dir]
      /\ prop' = [prop EXCEPT ![o] = IF disk.dir THEN disk.prop ELSE NoProps]
      /\ rivals' = (rivals \/ (~disk.dir /\ Waiting # {}))
      /\ UNCHANGED <<phase, closing, due, saving, data, changed, nonexistant, propChanged,
                     disk, canvas, kept, forked, lost>>
      /\ TypeOK /\ ClosingOnce /\ UnusedAreBlank /\ FilesHold /\ o # None /\ o # Saver
  BY Constants DEF Open, StoreInv, Shape
<1>2. TypeOK'
  BY <1>1, Constants DEF TypeOK, Disk
<1>3. ClosingOnce'
  <2>1. o \notin Listed /\ Listed' = Listed
    BY <1>1 DEF Closing, Listed
  <2>2. QED
    BY <1>1, <2>1 DEF ClosingOnce, Once, Elems, Live
<1>4. Closing' = Closing /\ InUse' = InUse \cup {o} /\ o \notin InUse
  BY <1>1 DEF Closing, Listed, InUse
<1>5. UnusedAreBlank'
  <2> SUFFICES ASSUME NEW p \in Obj \ InUse'
               PROVE  Blank(p)'
    BY DEF UnusedAreBlank
  <2>1. p # o /\ Blank(p)
    BY <1>1, <1>4 DEF UnusedAreBlank
  <2>2. created_dir'[p] = created_dir[p]
    BY <1>1, <2>1 DEF TypeOK
  <2>3. QED
    BY <1>1, <2>1, <2>2 DEF Blank
<1>6. FilesHold'
  BY <1>1 DEF FilesHold, TypeOK, Disk
<1>7. Blank(o)
  BY <1>1, <1>4 DEF UnusedAreBlank
<1>8. DirIsOwned'
  <2>1. ASSUME disk.dir, ~rivals', NEW p \in Obj, Active(p)'
        PROVE  created_dir'[p]
    BY <1>1, <2>1 DEF StoreInv, DirIsOwned, Active, TypeOK
  <2>2. ASSUME ~disk.dir, ~rivals', NEW p \in Obj, Active(p)'
        PROVE  p = o
    <3>1. Waiting = {}
      BY <1>1, <2>2
    <3>2. changed[p] # {} => p \in Closing
      BY <1>1, <2>2 DEF UnusedAreBlank, Blank, InUse
    <3>3. changed[p] = {}
      BY <3>1, <3>2 DEF Waiting
    <3>4. QED
      BY <1>1, <2>2, <3>3 DEF Active
  <2>3. ~rivals' => lost' = {}
    BY <1>1 DEF StoreInv, DirIsOwned
  <2>4. QED
    BY <1>1, <2>1, <2>2, <2>3 DEF DirIsOwned
<1>9. NewestIsSomewhere' /\ SomethingKept'
  BY <1>1 DEF StoreInv, NewestIsSomewhere, SomethingKept, Doubtful, Live
<1>10. CurrentSeesIt'
  <2>1. Loaded(o)' = {} /\ nonexistant'[o] = {}
    BY <1>1, <1>7 DEF Loaded, Blank, NothingLoaded
  <2>2. \A c \in Chunk : c \notin Loaded(current)' /\ RegionOf[c] \notin nonexistant'[current']
    BY <1>1, <2>1 DEF Loaded
  <2>3. QED
    BY <2>2 DEF CurrentSeesIt
<1>11. QED
  BY <1>2, <1>3, <1>5, <1>6, <1>8, <1>9, <1>10 DEF StoreInv, Shape

\* What waits does so in the files' other writers, not in the current object.
LEMMA CurrentIsApart ==
  ASSUME Shape, NEW o \in Obj, o = current
  PROVE  /\ o \notin Closing /\ o # None /\ o \in InUse
         /\ \A p \in Obj \ {o} : \A c \in changed[p] : c \in Waiting
<1>1. o \notin Closing /\ o # None /\ o \in InUse
  BY Constants DEF Shape, ClosingOnce, Closing, InUse
<1>2. ASSUME NEW p \in Obj \ {o}, NEW c \in changed[p]
      PROVE  c \in Waiting
  <2>1. p \in Closing
    BY <1>2 DEF Shape, UnusedAreBlank, Blank, InUse
  <2>2. QED
    BY <1>2, <2>1 DEF Waiting
<1>3. QED
  BY <1>1, <1>2

LEMMA PropBecomesFacts ==
  ASSUME Shape, NEW p \in Prop, current # None, PropBecomes(p)
  PROVE  /\ prop' \in [Obj -> Prop] /\ propChanged' \in [Obj -> BOOLEAN]
         /\ \A o \in Obj \ InUse : propChanged'[o] = propChanged[o]
<1>1. current \in InUse /\ TypeOK
  BY DEF Shape, InUse
<1>2. QED
  BY <1>1 DEF PropBecomes, TypeOK

LEMMA SetPropInv ==
  ASSUME StoreInv, NEW p \in Prop, setProp(p)
  PROVE  StoreInv'
<1>1. /\ UNCHANGED <<phase, current, closing, due, saving, data, changed, nonexistant, created_dir,
                     disk, canvas, kept, forked, lost, rivals>>
      /\ UNCHANGED control /\ TypeOK /\ ClosingOnce /\ current # None
  BY DEF setProp, control, history, doubts, StoreInv, Shape
<1>2. Closing' = Closing /\ InUse' = InUse /\ Waiting' = Waiting
  BY <1>1, SamePlaces DEF Waiting
<1>3. /\ prop' \in [Obj -> Prop] /\ propChanged' \in [Obj -> BOOLEAN]
      /\ \A o \in Obj \ InUse : propChanged'[o] = propChanged[o]
  BY <1>1, PropBecomesFacts DEF setProp, StoreInv
<1>4. TypeOK' /\ ClosingOnce' /\ FilesHold'
  BY <1>1, <1>3, SamePlacesOnce DEF TypeOK, StoreInv, Shape, FilesHold
<1>5. UnusedAreBlank'
  BY <1>1, <1>2, <1>3 DEF StoreInv, Shape, UnusedAreBlank, Blank
<1>6. DirIsOwned' /\ NewestIsSomewhere' /\ SomethingKept'
  BY <1>1 DEF StoreInv, DirIsOwned, Active, NewestIsSomewhere, SomethingKept, Doubtful, Live
<1>7. CurrentSeesIt'
  BY <1>1, <1>2 DEF StoreInv, CurrentSeesIt, Loaded, Doubtful
<1>8. QED
  BY <1>4, <1>5, <1>6, <1>7 DEF StoreInv, Shape

\* The directory is still owned after o has saved the chunks K.
LEMMA StillOwned ==
  ASSUME StoreInv, Live, NEW o \in Obj, Active(o), NEW K \in SUBSET changed[o],
         NEW d, d = Stored(o, K), disk'.dir = d.dir,
         \A p \in Obj \ {o} : created_dir[p] => created_dir'[p],
         created_dir'[o] = Creates(o, K),
         \A p \in Obj : Active(p)' => Active(p),
         lost' = LostAfter(o, K), rivals' = rivals
  PROVE  DirIsOwned'
<1>1. /\ disk.dir => d.dir
      /\ d.dir /\ ~disk.dir => Creates(o, K)
      /\ created_dir[o] => Creates(o, K)
  BY SavedFacts
<1>2. ~rivals' => lost' = {}
  BY SavedHistory
<1>3. ASSUME ~rivals, disk'.dir, NEW p \in Obj, Active(p)'
      PROVE  created_dir'[p]
  <2>1. CASE disk.dir
    <3>1. created_dir[p]
      BY <1>3, <2>1 DEF StoreInv, DirIsOwned
    <3>2. QED
      BY <1>1, <3>1
  <2>2. CASE ~disk.dir
    <3>1. p = o
      BY <1>3, <2>2 DEF StoreInv, DirIsOwned
    <3>2. QED
      BY <1>1, <1>3, <2>2, <3>1
  <2>3. QED
    BY <2>1, <2>2
<1>4. ASSUME ~rivals, ~disk'.dir, NEW p \in Obj, NEW q \in Obj, Active(p)', Active(q)'
      PROVE  p = q
  BY <1>1, <1>4 DEF StoreInv, DirIsOwned
<1>5. QED
  BY <1>2, <1>3, <1>4 DEF DirIsOwned

\* The object's memory after get_chunk.
LEMMA GotFields ==
  ASSUME StoreInv, NEW o \in Obj, o = current, NEW c \in Chunk, NEW K \in Victims(o, c),
         NEW dirty \in BOOLEAN, NEW new, dirty => new \in Content,
         get_chunk(o, c, K, dirty, new), NEW S, S = K \cap changed[o],
         NEW d, d = Stored(o, S), NEW m, m = StillMissing(o, S)
  PROVE  /\ K \subseteq Loaded(o) /\ c \notin K /\ S \in SUBSET changed[o]
         /\ disk' = d /\ m \subseteq nonexistant[o]
         /\ created_dir' = [created_dir EXCEPT ![o] = Creates(o, S)]
         /\ \A p \in Obj \ {o} : data'[p] = data[p] /\ changed'[p] = changed[p]
                                 /\ nonexistant'[p] = nonexistant[p]
         /\ nonexistant'[o] \subseteq m
            \/ (nonexistant'[o] \subseteq m \cup {RegionOf[c]} /\ RegionOf[c] \notin d.files
                /\ \A b \in Waiting : RegionOf[b] = RegionOf[c] => b \in forked')
         /\ data' \in [Obj -> [Chunk -> Content \cup {Absent}]]
         /\ changed' \in [Obj -> SUBSET Chunk] /\ nonexistant' \in [Obj -> SUBSET Region]
         /\ changed'[o] = (changed[o] \ K) \cup (IF dirty THEN {c} ELSE {})
         /\ \A b \in Chunk \ {c} : data'[o][b] = IF b \in K THEN Absent ELSE data[o][b]
         /\ data'[o][c] \in Content
         /\ dirty => data'[o][c] = new
         /\ ~dirty /\ c \in Loaded(o) => data'[o][c] = data[o][c]
         /\ ~dirty /\ c \notin Loaded(o) =>
              data'[o][c] = IF RegionOf[c] \in m THEN Bg ELSE OnDisk(d, c)
         /\ forked \subseteq forked' /\ forked' \subseteq Chunk
         /\ c \notin Loaded(o) /\ c \in Waiting => c \in forked'
<1> DEFINE r == RegionOf[c]
           learns == c \notin Loaded(o) /\ r \notin m /\ r \notin d.files
           found == IF c \in Loaded(o) THEN data[o][c] ELSE IF r \in m THEN Bg ELSE OnDisk(d, c)
           f == [b \in Chunk |-> IF b = c THEN IF dirty THEN new ELSE found
                                 ELSE IF b \in K THEN Absent ELSE data[o][b]]
<1>1. /\ disk' = d
      /\ created_dir' = [created_dir EXCEPT ![o] = Creates(o, S)]
      /\ nonexistant' = [nonexistant EXCEPT ![o] =
           IF ~learns THEN m ELSE IF Cardinality(m) >= MaxNonexistant THEN {r} ELSE m \cup {r}]
      /\ data' = [data EXCEPT ![o] = f]
      /\ changed' = [changed EXCEPT ![o] = (changed[o] \ K) \cup (IF dirty THEN {c} ELSE {})]
      /\ forked' = forked \cup {b \in Waiting : \/ b = c /\ c \notin Loaded(o)
                                                \/ learns /\ RegionOf[b] = r}
  BY DEF get_chunk
<1>2. /\ TypeOK /\ r \in Region /\ data[o] \in [Chunk -> Content \cup {Absent}]
      /\ nonexistant[o] \in SUBSET Region /\ changed[o] \in SUBSET Chunk /\ forked \subseteq Chunk
  BY Constants DEF StoreInv, Shape, TypeOK
<1>3. K \subseteq Loaded(o) /\ c \notin K /\ S \in SUBSET changed[o] /\ K \subseteq Chunk
  BY <1>2 DEF Victims, Loaded
<1>4. m \subseteq nonexistant[o]
  BY DEF StillMissing
<1>5. d \in Disk
  BY <1>3, StoredHolds DEF StoreInv, Holds
<1>6. found \in Content
  BY <1>2, <1>5, Constants, OnDiskType DEF Loaded
<1>7. f \in [Chunk -> Content \cup {Absent}]
  BY <1>2, <1>6
<1>8. /\ f[c] = IF dirty THEN new ELSE found
      /\ \A b \in Chunk \ {c} : f[b] = IF b \in K THEN Absent ELSE data[o][b]
  OBVIOUS
<1>9. ~dirty /\ c \in Loaded(o) => found = data[o][c]
  OBVIOUS
<1>10. ~dirty /\ c \notin Loaded(o) => found = IF r \in m THEN Bg ELSE OnDisk(d, c)
  OBVIOUS
<1> HIDE DEF f, found
<1>11. /\ data' \in [Obj -> [Chunk -> Content \cup {Absent}]] /\ data'[o] = f
       /\ \A p \in Obj \ {o} : data'[p] = data[p]
  BY <1>1, <1>2, <1>7 DEF TypeOK
<1>12. /\ changed' \in [Obj -> SUBSET Chunk]
       /\ changed'[o] = (changed[o] \ K) \cup (IF dirty THEN {c} ELSE {})
       /\ \A p \in Obj \ {o} : changed'[p] = changed[p]
  BY <1>1, <1>2 DEF TypeOK
<1>13. /\ nonexistant' \in [Obj -> SUBSET Region]
       /\ \A p \in Obj \ {o} : nonexistant'[p] = nonexistant[p]
       /\ nonexistant'[o] \subseteq m
          \/ (nonexistant'[o] \subseteq m \cup {r} /\ r \notin d.files
              /\ \A b \in Waiting : RegionOf[b] = r => b \in forked')
  <2> DEFINE n == IF ~learns THEN m ELSE IF Cardinality(m) >= MaxNonexistant THEN {r} ELSE m \cup {r}
  <2>1. n \subseteq Region
    BY <1>2, <1>4
  <2>2. n \subseteq m \/ (n \subseteq m \cup {r} /\ learns)
    OBVIOUS
  <2>3. learns => \A b \in Waiting : RegionOf[b] = r => b \in forked'
    BY <1>1
  <2>4. nonexistant' = [nonexistant EXCEPT ![o] = n]
    BY <1>1
  <2>5. learns => r \notin d.files
    OBVIOUS
  <2> HIDE DEF n, learns
  <2>6. /\ nonexistant' \in [Obj -> SUBSET Region] /\ nonexistant'[o] = n
        /\ \A p \in Obj \ {o} : nonexistant'[p] = nonexistant[p]
    BY <1>2, <2>1, <2>4 DEF TypeOK
  <2>7. QED
    BY <2>2, <2>3, <2>5, <2>6
<1>14. /\ forked \subseteq forked' /\ forked' \subseteq Chunk
       /\ c \notin Loaded(o) /\ c \in Waiting => c \in forked'
  <2>1. forked \subseteq forked'
    BY <1>1
  <2>2. forked' \subseteq Chunk
    BY <1>1, <1>2, ClosingObjects
  <2>3. c \notin Loaded(o) /\ c \in Waiting => c \in forked'
    BY <1>1
  <2>4. QED
    BY <2>1, <2>2, <2>3
<1>15. data'[o][c] \in Content /\ (dirty => data'[o][c] = new)
       /\ (~dirty /\ c \in Loaded(o) => data'[o][c] = data[o][c])
       /\ (~dirty /\ c \notin Loaded(o) =>
             data'[o][c] = IF RegionOf[c] \in m THEN Bg ELSE OnDisk(d, c))
  BY <1>6, <1>8, <1>9, <1>10, <1>11
<1>16. \A b \in Chunk \ {c} : data'[o][b] = IF b \in K THEN Absent ELSE data[o][b]
  BY <1>8, <1>11
<1> HIDE DEF learns
<1>17. QED
  BY <1>1, <1>3, <1>4, <1>11, <1>12, <1>13, <1>14, <1>15, <1>16

\* The histories after get_chunk.
LEMMA GotHistory ==
  ASSUME StoreInv, NEW o \in Obj, NEW c \in Chunk, NEW K \in Victims(o, c),
         NEW dirty \in BOOLEAN, NEW new, dirty => new \in Content,
         get_chunk(o, c, K, dirty, new), NEW S, S = K \cap changed[o]
  PROVE  /\ lost' = LostAfter(o, S)
         /\ canvas' \in [Chunk -> Content] /\ kept' \in [Chunk -> SUBSET Content]
         /\ canvas'[c] = IF dirty THEN new ELSE canvas[c]
         /\ \A b \in Chunk \ {c} : canvas'[b] = canvas[b]
         /\ \A b \in Chunk : KeptAfter(S)[b] \subseteq kept'[b] /\ canvas'[b] \in kept'[b]
<1>1. /\ lost' = LostAfter(o, S)
      /\ canvas' = IF dirty THEN [canvas EXCEPT ![c] = new] ELSE canvas
      /\ kept' = [b \in Chunk |-> KeptAfter(S)[b] \cup (IF dirty /\ b = c THEN {new} ELSE {})]
  BY DEF get_chunk
<1>2. /\ canvas \in [Chunk -> Content] /\ kept \in [Chunk -> SUBSET Content]
      /\ \A b \in Chunk : canvas[b] \in kept[b]
  BY DEF StoreInv, Shape, TypeOK, SomethingKept
<1>3. \A b \in Chunk : canvas[b] \in KeptAfter(S)[b] /\ KeptAfter(S)[b] \subseteq Content
  <2>1. \A b \in Chunk : KeptAfter(S)[b] = IF b \in S THEN {canvas[b]} ELSE kept[b]
    BY DEF KeptAfter
  <2>2. QED
    BY <1>2, <2>1
<1>4. /\ canvas' \in [Chunk -> Content]
      /\ canvas'[c] = IF dirty THEN new ELSE canvas[c]
      /\ \A b \in Chunk \ {c} : canvas'[b] = canvas[b]
  BY <1>1, <1>2
<1>5. \A b \in Chunk : kept'[b] = KeptAfter(S)[b] \cup (IF dirty /\ b = c THEN {new} ELSE {})
  BY <1>1
<1>6. kept' \in [Chunk -> SUBSET Content]
  <2>1. \A b \in Chunk : KeptAfter(S)[b] \cup (IF dirty /\ b = c THEN {new} ELSE {}) \subseteq Content
    BY <1>3
  <2>2. QED
    BY <1>1, <2>1
<1>7. \A b \in Chunk : KeptAfter(S)[b] \subseteq kept'[b] /\ canvas'[b] \in kept'[b]
  BY <1>3, <1>4, <1>5
<1>8. QED
  BY <1>1, <1>4, <1>6, <1>7

LEMMA GetChunkInv ==
  ASSUME StoreInv, phase = "running", NEW o \in Obj, o = current, NEW c \in Chunk,
         NEW K \in Victims(o, c), NEW dirty \in BOOLEAN, NEW new, dirty => new \in Content,
         get_chunk(o, c, K, dirty, new), NEW S, S = K \cap changed[o],
         NEW d, d = Stored(o, S), NEW m, m = StillMissing(o, S),
         UNCHANGED <<control, rivals>>,
         prop' \in [Obj -> Prop], propChanged' \in [Obj -> BOOLEAN],
         \A p \in Obj \ InUse : propChanged'[p] = propChanged[p]
  PROVE  StoreInv'
<1>1. /\ K \subseteq Loaded(o) /\ c \notin K /\ S \in SUBSET changed[o]
      /\ disk' = d /\ m \subseteq nonexistant[o]
      /\ created_dir' = [created_dir EXCEPT ![o] = Creates(o, S)]
      /\ \A p \in Obj \ {o} : data'[p] = data[p] /\ changed'[p] = changed[p]
                              /\ nonexistant'[p] = nonexistant[p]
  BY GotFields
<1>2. /\ data' \in [Obj -> [Chunk -> Content \cup {Absent}]]
      /\ changed' \in [Obj -> SUBSET Chunk] /\ nonexistant' \in [Obj -> SUBSET Region]
      /\ changed'[o] = (changed[o] \ K) \cup (IF dirty THEN {c} ELSE {})
      /\ forked \subseteq forked' /\ forked' \subseteq Chunk
  BY GotFields
<1>3. /\ \A b \in Chunk \ {c} : data'[o][b] = IF b \in K THEN Absent ELSE data[o][b]
      /\ data'[o][c] \in Content
      /\ dirty => data'[o][c] = new
      /\ ~dirty /\ c \in Loaded(o) => data'[o][c] = data[o][c]
      /\ ~dirty /\ c \notin Loaded(o) =>
           data'[o][c] = IF RegionOf[c] \in m THEN Bg ELSE OnDisk(d, c)
  BY GotFields
<1>4. /\ c \notin Loaded(o) /\ c \in Waiting => c \in forked'
      /\ \/ nonexistant'[o] \subseteq m
         \/ nonexistant'[o] \subseteq m \cup {RegionOf[c]} /\ RegionOf[c] \notin d.files
            /\ \A b \in Waiting : RegionOf[b] = RegionOf[c] => b \in forked'
  BY GotFields
<1>5. /\ Shape /\ TypeOK /\ ClosingOnce /\ o \notin Closing /\ o # None /\ o \in InUse
      /\ Active(o) /\ Live
      /\ \A p \in Obj \ {o} : \A b \in changed[p] : b \in Waiting
  BY CurrentIsApart DEF StoreInv, Shape, Active, Live
<1>6. Holds(d) /\ (disk.dir => d.dir) /\ (Creates(o, S) => d.dir) /\ Creates(o, S) \in BOOLEAN
  BY <1>1, SavedFacts
<1>7. /\ lost \subseteq LostAfter(o, S) /\ LostAfter(o, S) \subseteq lost \cup S
      /\ \A b \in Chunk : b \notin S => OnDisk(d, b) = OnDisk(disk, b)
      /\ \A b \in Chunk \ (forked \cup LostAfter(o, S)) : b \in S => OnDisk(d, b) = canvas[b]
      /\ \A b \in Chunk \ (forked \cup LostAfter(o, S)) : OnDisk(d, b) \in KeptAfter(S)[b]
      /\ \A b \in Chunk : RegionOf[b] \in m => d.slots[b] = disk.slots[b]
  BY <1>1, <1>5, SavedHistory
<1>8. /\ UNCHANGED <<phase, current, closing, due, saving, rivals>> /\ UNCHANGED control
      /\ Closing' = Closing /\ InUse' = InUse
  BY SamePlaces DEF control
<1>9. Waiting' = Waiting
  <2>1. \A p \in Closing : changed'[p] = changed[p]
    BY <1>1, <1>5, ClosingObjects
  <2>2. QED
    BY <1>8, <2>1 DEF Waiting
<1>10. /\ lost' = LostAfter(o, S)
       /\ canvas' \in [Chunk -> Content] /\ kept' \in [Chunk -> SUBSET Content]
       /\ canvas'[c] = IF dirty THEN new ELSE canvas[c]
       /\ \A b \in Chunk \ {c} : canvas'[b] = canvas[b]
       /\ \A b \in Chunk : KeptAfter(S)[b] \subseteq kept'[b] /\ canvas'[b] \in kept'[b]
  <2>1. /\ lost' = LostAfter(o, S)
        /\ canvas' \in [Chunk -> Content] /\ kept' \in [Chunk -> SUBSET Content]
    BY GotHistory
  <2>2. /\ canvas'[c] = IF dirty THEN new ELSE canvas[c]
        /\ \A b \in Chunk \ {c} : canvas'[b] = canvas[b]
    BY GotHistory
  <2>3. \A b \in Chunk : KeptAfter(S)[b] \subseteq kept'[b] /\ canvas'[b] \in kept'[b]
    BY GotHistory
  <2>4. QED
    BY <2>1, <2>2, <2>3
<1>11. TypeOK'
  <2>1. \A p \in Obj : \A b \in changed'[p] : data'[p][b] # Absent
    <3>1. ASSUME NEW p \in Obj \ {o}, NEW b \in changed'[p]
          PROVE  data'[p][b] # Absent
      BY <1>1, <1>5, <3>1 DEF TypeOK
    <3>2. ASSUME NEW b \in changed'[o]
          PROVE  data'[o][b] # Absent
      <4>1. CASE b = c
        BY <1>3, <4>1, Constants
      <4>2. CASE b # c
        <5>1. b \in changed[o] \ K /\ b \in Chunk
          BY <1>2, <1>5, <3>2, <4>2 DEF TypeOK
        <5>2. QED
          BY <1>3, <1>5, <4>2, <5>1 DEF TypeOK
      <4>3. QED
        BY <4>1, <4>2
    <3>3. QED
      BY <3>1, <3>2
  <2>2. created_dir' \in [Obj -> BOOLEAN]
    BY <1>1, <1>5, <1>6 DEF TypeOK
  <2>3. lost' \subseteq Chunk
    BY <1>1, <1>5, <1>7, <1>10 DEF TypeOK
  <2>4. disk' \in Disk
    BY <1>1, <1>6 DEF Holds
  <2>5. QED
    BY <1>2, <1>5, <1>8, <1>10, <2>1, <2>2, <2>3, <2>4 DEF TypeOK
<1>12. ClosingOnce'
  BY <1>5, <1>8, SamePlacesOnce
<1>13. UnusedAreBlank'
  <2> SUFFICES ASSUME NEW p \in Obj \ InUse
               PROVE  Blank(p)'
    BY <1>8 DEF UnusedAreBlank
  <2>1. p # o /\ Blank(p)
    BY <1>5 DEF Shape, UnusedAreBlank
  <2>2. created_dir'[p] = created_dir[p]
    BY <1>1, <1>5, <2>1 DEF TypeOK
  <2>3. QED
    BY <1>1, <2>1, <2>2 DEF Blank
<1>14. FilesHold'
  <2>1. \A p \in Obj : created_dir'[p] => d.dir
    BY <1>1, <1>5, <1>6 DEF Shape, FilesHold, TypeOK
  <2>2. QED
    BY <1>1, <1>6, <2>1 DEF FilesHold, Holds
<1>15. DirIsOwned'
  <2>1. \A p \in Obj : Active(p)' => Active(p)
    BY <1>1, <1>5, <1>8 DEF Active
  <2>2. /\ \A p \in Obj \ {o} : created_dir[p] => created_dir'[p]
        /\ created_dir'[o] = Creates(o, S)
    BY <1>1, <1>5 DEF TypeOK
  <2>3. disk'.dir = d.dir /\ lost' = LostAfter(o, S) /\ rivals' = rivals
    BY <1>1, <1>8, <1>10
  <2>4. QED
    BY <1>1, <1>5, <2>1, <2>2, <2>3, StillOwned
<1>16. \A b : b \in Chunk \ Doubtful' =>
          b \in Chunk \ Doubtful /\ b \in Chunk \ (forked \cup LostAfter(o, S)) /\ b \notin forked'
  BY <1>2, <1>7, <1>10 DEF Doubtful
<1>17. c \notin Doubtful' => c \notin Waiting
  BY <1>4, <1>5, <1>16 DEF StoreInv, CurrentSeesIt
<1>18. NewestIsSomewhere'
  <2>1. ASSUME NEW b \in Chunk \ Doubtful', b \in changed'[o]
        PROVE  data'[o][b] = canvas'[b]
    <3>1. b \in changed[o] => data[o][b] = canvas[b] /\ b \in Loaded(o)
      BY <1>5, <1>16, <2>1 DEF StoreInv, NewestIsSomewhere, TypeOK, Loaded
    <3>2. CASE b = c
      BY <1>2, <1>3, <1>10, <2>1, <3>1, <3>2
    <3>3. CASE b # c
      BY <1>2, <1>3, <1>10, <2>1, <3>1, <3>3
    <3>4. QED
      BY <3>2, <3>3
  <2>2. ASSUME NEW b \in Chunk \ Doubtful', NEW p \in Obj \ {o}, b \in changed'[p]
        PROVE  data'[p][b] = canvas'[b]
    <3>1. b \in Waiting /\ b \in changed[p]
      BY <1>1, <1>5, <2>2
    <3>2. b # c
      BY <1>17, <2>2, <3>1
    <3>3. QED
      BY <1>1, <1>5, <1>10, <1>16, <2>2, <3>1, <3>2 DEF StoreInv, NewestIsSomewhere
  <2>3. ASSUME NEW b \in Chunk \ Doubtful', \A p \in Obj : b \notin changed'[p]
        PROVE  OnDisk(d, b) = canvas'[b]
    <3>1. canvas'[b] = canvas[b]
      BY <1>2, <1>10, <2>3
    <3>2. \A p \in Obj \ {o} : b \notin changed[p]
      BY <1>1, <2>3
    <3>3. b \in changed[o] => b \in S
      BY <1>2, <2>3
    <3>4. CASE b \in S
      BY <1>7, <1>16, <2>3, <3>1, <3>4
    <3>5. CASE b \notin S
      BY <1>5, <1>7, <1>16, <2>3, <3>1, <3>2, <3>3, <3>5 DEF StoreInv, NewestIsSomewhere
    <3>6. QED
      BY <3>4, <3>5
  <2>4. QED
    BY <1>1, <2>1, <2>2, <2>3 DEF NewestIsSomewhere
<1>19. SomethingKept'
  <2>1. \A b \in Chunk : b \notin Doubtful' => OnDisk(d, b) \in kept'[b]
    BY <1>7, <1>10, <1>16
  <2>2. QED
    BY <1>1, <1>10, <2>1 DEF SomethingKept
<1>20. CurrentSeesIt'
  <2>1. ASSUME NEW b \in Chunk \ Doubtful', data'[o][b] # Absent
        PROVE  data'[o][b] = canvas'[b] /\ b \notin Waiting
    <3>1. b \in Loaded(o) => data[o][b] = canvas[b] /\ b \notin Waiting
      BY <1>5, <1>16, <2>1 DEF StoreInv, CurrentSeesIt
    <3>2. CASE b # c
      BY <1>3, <1>10, <2>1, <3>1, <3>2 DEF Loaded
    <3>3. CASE b = c /\ (dirty \/ c \in Loaded(o))
      BY <1>3, <1>10, <1>17, <2>1, <3>1, <3>3
    <3>4. CASE b = c /\ ~dirty /\ c \notin Loaded(o)
      <4>1. c \notin changed[o]
        BY <1>5, <3>4 DEF TypeOK, Loaded
      <4>2. \A p \in Obj : c \notin changed[p]
        BY <1>5, <1>17, <2>1, <3>4, <4>1
      <4>3. OnDisk(disk, c) = canvas[c]
        BY <1>5, <1>16, <2>1, <3>4, <4>2 DEF StoreInv, NewestIsSomewhere
      <4>4. RegionOf[c] \in m => OnDisk(disk, c) = Bg
        <5>1. RegionOf[c] \in m => disk.slots[c] = Absent
          BY <1>1, <1>5, <1>16, <2>1, <3>4 DEF StoreInv, CurrentSeesIt
        <5>2. QED
          BY <5>1 DEF OnDisk
      <4>5. OnDisk(d, c) = OnDisk(disk, c)
        BY <1>7, <4>1
      <4>6. QED
        BY <1>3, <1>10, <1>17, <2>1, <3>4, <4>3, <4>4, <4>5
    <3>5. QED
      BY <3>2, <3>3, <3>4
  <2>2. ASSUME NEW b \in Chunk \ Doubtful', RegionOf[b] \in nonexistant'[o]
        PROVE  d.slots[b] = Absent /\ b \notin Waiting
    <3>1. CASE RegionOf[b] \in m
      <4>1. disk.slots[b] = Absent /\ b \notin Waiting
        BY <1>1, <1>5, <1>16, <2>2, <3>1 DEF StoreInv, CurrentSeesIt
      <4>2. QED
        BY <1>7, <3>1, <4>1
    <3>2. CASE RegionOf[b] \notin m
      <4>1. RegionOf[b] = RegionOf[c] /\ RegionOf[b] \notin d.files /\ b \notin Waiting
        BY <1>4, <1>16, <2>2, <3>2
      <4>2. QED
        BY <1>6, <4>1 DEF Holds
    <3>3. QED
      BY <3>1, <3>2
  <2>3. QED
    BY <1>1, <1>8, <1>9, <2>1, <2>2 DEF CurrentSeesIt, Loaded
<1>21. QED
  BY <1>11, <1>12, <1>13, <1>14, <1>15, <1>18, <1>19, <1>20 DEF StoreInv, Shape

LEMMA GetChunkSteps ==
  ASSUME StoreInv, NEW c \in Chunk,
         \/ ReadChunk(c) \/ \E v \in Content : Draw(c, v)
         \/ \E p \in Prop : setChunkProtection(c, p)
  PROVE  StoreInv'
<1>1. phase = "running" /\ current # None /\ Shape /\ TypeOK
  BY DEF ReadChunk, Draw, setChunkProtection, StoreInv, Shape
<1>2. PICK o \in Obj : o = current
  BY <1>1 DEF TypeOK
<1>3. PICK K \in Victims(o, c), dirty \in BOOLEAN, new \in Content \cup {Absent} :
        (dirty => new \in Content) /\ get_chunk(o, c, K, dirty, new)
  <2>1. CASE \E v \in Content : Draw(c, v)
    BY <1>2, <2>1 DEF Draw
  <2>2. CASE ReadChunk(c) \/ \E p \in Prop : setChunkProtection(c, p)
    BY <1>2, <2>2 DEF ReadChunk, setChunkProtection
  <2>3. QED
    BY <2>1, <2>2
<1>4. UNCHANGED <<control, rivals>>
  BY DEF ReadChunk, Draw, setChunkProtection
<1>5. /\ prop' \in [Obj -> Prop] /\ propChanged' \in [Obj -> BOOLEAN]
      /\ \A p \in Obj \ InUse : propChanged'[p] = propChanged[p]
  <2>1. CASE UNCHANGED <<prop, propChanged>>
    BY <1>1, <2>1 DEF TypeOK
  <2>2. CASE \E p \in Prop : PropBecomes(p)
    BY <1>1, <2>2, PropBecomesFacts
  <2>3. QED
    BY <2>1, <2>2 DEF ReadChunk, Draw, setChunkProtection
<1>6. \A S, d, m : S = K \cap changed[o] /\ d = Stored(o, S) /\ m = StillMissing(o, S) => StoreInv'
  BY <1>1, <1>2, <1>3, <1>4, <1>5, GetChunkInv
<1>7. QED
  BY <1>6

LEMMA SaveNowInv ==
  ASSUME StoreInv, NEW o \in Obj, o = current, save_now,
         NEW K, K = changed[o], NEW d, d = Stored(o, K)
  PROVE  StoreInv'
<1>1. /\ disk' = AllStored(o) /\ changed' = [changed EXCEPT ![o] = {}]
      /\ nonexistant' = [nonexistant EXCEPT ![o] = StillMissing(o, K)]
      /\ created_dir' = [created_dir EXCEPT ![o] = Creates(o, K)]
      /\ propChanged' = [propChanged EXCEPT ![o] = FALSE]
      /\ lost' = LostAfter(o, K) /\ kept' = KeptAfter(K)
      /\ UNCHANGED <<phase, current, closing, due, saving, data, prop, canvas, forked, rivals>>
      /\ UNCHANGED control /\ phase = "running"
  BY DEF save_now, control
<1>2. /\ Shape /\ TypeOK /\ ClosingOnce /\ o \notin Closing /\ o # None /\ o \in InUse
      /\ Active(o) /\ Live
      /\ \A p \in Obj \ {o} : \A b \in changed[p] : b \in Waiting
  BY <1>1, CurrentIsApart DEF StoreInv, Shape, Active, Live
<1>3. /\ Holds(d) /\ (disk.dir => d.dir) /\ (Creates(o, K) => d.dir) /\ Creates(o, K) \in BOOLEAN
  BY SavedFacts
<1>4. /\ lost \subseteq LostAfter(o, K) /\ LostAfter(o, K) \subseteq lost \cup K
      /\ \A b \in Chunk : b \notin K => OnDisk(d, b) = OnDisk(disk, b)
      /\ \A b \in Chunk \ (forked \cup LostAfter(o, K)) : b \in K => OnDisk(d, b) = canvas[b]
      /\ \A b \in Chunk \ (forked \cup LostAfter(o, K)) : OnDisk(d, b) \in KeptAfter(K)[b]
      /\ \A b \in Chunk : RegionOf[b] \in StillMissing(o, K) => d.slots[b] = disk.slots[b]
  BY <1>2, SavedHistory
<1>5. /\ Holds(disk') /\ disk'.dir = d.dir /\ disk'.slots = d.slots
      /\ \A b \in Chunk : OnDisk(disk', b) = OnDisk(d, b)
  BY <1>1, AllStoredFacts
<1>6. /\ changed'[o] = {} /\ nonexistant'[o] = StillMissing(o, K) /\ created_dir'[o] = Creates(o, K)
      /\ \A p \in Obj \ {o} : /\ changed'[p] = changed[p] /\ nonexistant'[p] = nonexistant[p]
                              /\ created_dir'[p] = created_dir[p] /\ propChanged'[p] = propChanged[p]
  BY <1>1, <1>2 DEF TypeOK
<1>7. Closing' = Closing /\ InUse' = InUse /\ Waiting' = Waiting
  <2>1. Closing' = Closing /\ InUse' = InUse
    BY <1>1, SamePlaces
  <2>2. \A p \in Closing : changed'[p] = changed[p]
    BY <1>2, <1>6, ClosingObjects
  <2>3. QED
    BY <2>1, <2>2 DEF Waiting
<1>8. StillMissing(o, K) \subseteq nonexistant[o]
  BY DEF StillMissing
<1>9. \A b \in Chunk : KeptAfter(K)[b] = IF b \in K THEN {canvas[b]} ELSE kept[b]
  BY DEF KeptAfter
<1>10. TypeOK'
  <2>1. changed' \in [Obj -> SUBSET Chunk] /\ nonexistant' \in [Obj -> SUBSET Region]
        /\ created_dir' \in [Obj -> BOOLEAN] /\ propChanged' \in [Obj -> BOOLEAN]
    BY <1>1, <1>2, <1>3, <1>8 DEF TypeOK
  <2>2. \A p \in Obj : \A c \in changed'[p] : data[p][c] # Absent
    BY <1>2, <1>6 DEF TypeOK
  <2>3. kept' \in [Chunk -> SUBSET Content]
    BY <1>1, <1>2 DEF TypeOK, KeptAfter
  <2>4. lost' \subseteq Chunk /\ disk' \in Disk
    BY <1>1, <1>2, <1>4, <1>5 DEF TypeOK, Holds
  <2>5. QED
    BY <1>1, <1>2, <2>1, <2>2, <2>3, <2>4 DEF TypeOK
<1>11. ClosingOnce'
  BY <1>1, <1>2, SamePlacesOnce
<1>12. UnusedAreBlank'
  <2> SUFFICES ASSUME NEW p \in Obj \ InUse
               PROVE  Blank(p)'
    BY <1>7 DEF UnusedAreBlank
  <2>1. p # o /\ Blank(p)
    BY <1>2 DEF Shape, UnusedAreBlank
  <2>2. QED
    BY <1>1, <1>6, <2>1 DEF Blank
<1>13. FilesHold'
  <2>1. \A p \in Obj : created_dir'[p] => d.dir
    BY <1>2, <1>3, <1>6 DEF Shape, FilesHold
  <2>2. QED
    BY <1>5, <2>1 DEF FilesHold, Holds
<1>14. DirIsOwned'
  <2>1. \A p \in Obj : Active(p)' => Active(p)
    BY <1>1, <1>6 DEF Active
  <2>2. QED
    BY <1>1, <1>2, <1>5, <1>6, <2>1, StillOwned
<1>15. \A b : b \in Chunk \ Doubtful' =>
          b \in Chunk \ Doubtful /\ b \in Chunk \ (forked \cup LostAfter(o, K))
  BY <1>1, <1>4 DEF Doubtful
<1>16. NewestIsSomewhere'
  <2>1. ASSUME NEW b \in Chunk \ Doubtful', NEW p \in Obj, b \in changed'[p]
        PROVE  data[p][b] = canvas[b]
    BY <1>2, <1>6, <1>15, <2>1 DEF StoreInv, NewestIsSomewhere
  <2>2. ASSUME NEW b \in Chunk \ Doubtful', \A p \in Obj : b \notin changed'[p]
        PROVE  OnDisk(d, b) = canvas[b]
    BY <1>2, <1>4, <1>6, <1>15, <2>2 DEF StoreInv, NewestIsSomewhere
  <2>3. QED
    BY <1>1, <1>5, <2>1, <2>2 DEF NewestIsSomewhere
<1>17. SomethingKept'
  <2>1. \A b \in Chunk : b \notin Doubtful' => OnDisk(d, b) \in kept'[b]
    BY <1>1, <1>4, <1>15
  <2>2. \A b \in Chunk : canvas[b] \in kept'[b]
    BY <1>1, <1>9 DEF StoreInv, SomethingKept
  <2>3. QED
    BY <1>1, <1>5, <2>1, <2>2 DEF SomethingKept
<1>18. CurrentSeesIt'
  <2>1. ASSUME NEW b \in Chunk \ Doubtful', RegionOf[b] \in nonexistant'[o]
        PROVE  d.slots[b] = Absent /\ b \notin Waiting
    <3>1. RegionOf[b] \in nonexistant[o] /\ RegionOf[b] \in StillMissing(o, K)
      BY <1>6, <1>8, <2>1
    <3>2. disk.slots[b] = Absent /\ b \notin Waiting
      BY <1>2, <1>15, <2>1, <3>1 DEF StoreInv, CurrentSeesIt
    <3>3. QED
      BY <1>4, <3>1, <3>2
  <2>2. ASSUME NEW b \in Chunk \ Doubtful', data[o][b] # Absent
        PROVE  data[o][b] = canvas[b] /\ b \notin Waiting
    BY <1>2, <1>15, <2>2 DEF StoreInv, CurrentSeesIt, Loaded
  <2>3. QED
    BY <1>1, <1>5, <1>7, <2>1, <2>2 DEF CurrentSeesIt, Loaded
<1>19. QED
  BY <1>10, <1>11, <1>12, <1>13, <1>14, <1>16, <1>17, <1>18 DEF StoreInv, Shape

-----------------------------------------------------------------------------
(* An object that is closing is deleted. *)

LEMMA DeleteWorldInv ==
  ASSUME StoreInv, DeleteWorld, NEW o, o = Head(due), NEW K, K = changed[o],
         NEW d, d = Stored(o, K)
  PROVE  StoreInv'
<1> DEFINE alone == current = None /\ Closing = {o}
           doubtful == forked \cup LostAfter(o, K)
<1>1. /\ phase = "closing" /\ o # Saver /\ due' = Tail(due) /\ current' = current
      /\ closing' = closing /\ saving' = saving
      /\ phase' = IF Tail(due) = <<>> THEN "running" ELSE "closing"
      /\ disk' = AllStored(o)
      /\ alone => /\ canvas' = [c \in Chunk |-> IF c \in doubtful THEN OnDisk(disk', c) ELSE canvas[c]]
                  /\ kept' = [c \in Chunk |-> {canvas'[c]}]
                  /\ forked' = {} /\ lost' = {} /\ rivals' = FALSE
      /\ ~alone => /\ kept' = KeptAfter(K) /\ lost' = LostAfter(o, K)
                   /\ UNCHANGED <<canvas, forked, rivals>>
  BY DEF DeleteWorld
<1>2. /\ data' = [p \in Obj |-> IF p \in {o} THEN NothingLoaded ELSE data[p]]
      /\ changed' = [p \in Obj |-> IF p \in {o} THEN {} ELSE changed[p]]
      /\ nonexistant' = [p \in Obj |-> IF p \in {o} THEN {} ELSE nonexistant[p]]
      /\ created_dir' = [p \in Obj |-> IF p \in {o} THEN FALSE ELSE created_dir[p]]
      /\ prop' = [p \in Obj |-> IF p \in {o} THEN NoProps ELSE prop[p]]
      /\ propChanged' = [p \in Obj |-> IF p \in {o} THEN FALSE ELSE propChanged[p]]
  BY DEF DeleteWorld, Forget
<1> HIDE DEF alone, doubtful
<1>3. /\ Shape /\ TypeOK /\ ClosingOnce /\ Live /\ phase' \in {"running", "closing"} /\ Live'
      /\ due # <<>> /\ due \in Seq(Obj \cup {Saver}) /\ Once(due)
  BY <1>1 DEF StoreInv, Shape, ClosingOnce, TypeOK, Live
<1>4. /\ o \in Obj \cup {Saver} /\ o \in Elems(due) /\ due' \in Seq(Obj \cup {Saver})
      /\ Elems(due') = Elems(due) \ {o}
      /\ Once(due')
  BY <1>1, <1>3, PoppedOff
<1>5. o \in Obj /\ o \in Closing /\ o # None /\ o # current /\ o \notin Elems(closing)
  <2>1. o \in Obj /\ o \in Closing /\ o \in Listed
    BY <1>1, <1>4, ListedAre DEF Closing
  <2>2. o # None
    BY <2>1, Constants
  <2>3. o # current /\ o \notin Elems(closing)
    BY <1>3, <1>4, <2>1, <2>2 DEF ClosingOnce
  <2>4. QED
    BY <2>1, <2>2, <2>3
<1>6. Listed' = Listed \ {o} /\ Closing' = Closing \ {o} /\ InUse' = InUse \ {o}
  <2>1. Listed' = Elems(closing') \cup Elems(due')
    BY DEF Listed, Elems
  <2>2. Listed' = Listed \ {o}
    BY <1>1, <1>4, <1>5, <2>1, ListedAre
  <2>3. QED
    BY <1>1, <1>5, <2>2 DEF Closing, InUse
<1>7. /\ changed'[o] = {} /\ data'[o] = NothingLoaded /\ created_dir'[o] = FALSE /\ Blank(o)'
      /\ \A p \in Obj \ {o} : /\ changed'[p] = changed[p] /\ nonexistant'[p] = nonexistant[p]
                              /\ created_dir'[p] = created_dir[p] /\ propChanged'[p] = propChanged[p]
                              /\ data'[p] = data[p]
  BY <1>2, <1>5 DEF Blank
<1>8. Holds(d) /\ (disk.dir => d.dir)
  BY <1>5, SavedFacts
<1>9. /\ Holds(disk') /\ disk'.dir = d.dir /\ disk'.files = d.files /\ disk'.slots = d.slots
      /\ \A b \in Chunk : OnDisk(disk', b) = OnDisk(d, b)
  BY <1>1, <1>5, AllStoredFacts
<1>10. /\ lost \subseteq LostAfter(o, K) /\ LostAfter(o, K) \subseteq lost \cup K
       /\ ~rivals => LostAfter(o, K) = {}
       /\ \A b \in Chunk : b \notin K => OnDisk(d, b) = OnDisk(disk, b)
       /\ \A b \in Chunk \ (forked \cup LostAfter(o, K)) : b \in K => OnDisk(d, b) = canvas[b]
       /\ \A b \in Chunk \ (forked \cup LostAfter(o, K)) : OnDisk(d, b) \in KeptAfter(K)[b]
  BY <1>3, <1>5, SavedHistory
<1>11. \A b \in Chunk : b \notin K => d.slots[b] = disk.slots[b]
  BY <1>5, SavedFacts
<1>12. \A b : b \in Chunk \ doubtful => b \in Chunk \ Doubtful /\ b \in Chunk \ (forked \cup LostAfter(o, K))
  BY <1>10 DEF doubtful, Doubtful
<1>13. K \subseteq Chunk /\ doubtful \subseteq Chunk
  BY <1>3, <1>5, <1>10 DEF TypeOK, doubtful
<1>14. \A b \in Chunk : KeptAfter(K)[b] = IF b \in K THEN {canvas[b]} ELSE kept[b]
  BY DEF KeptAfter
<1>15. TypeOK'
  <2>1. \A b \in Chunk : OnDisk(disk', b) \in Content
    BY <1>9, OnDiskType DEF Holds
  <2>2. /\ canvas' \in [Chunk -> Content] /\ kept' \in [Chunk -> SUBSET Content]
        /\ forked' \subseteq Chunk /\ lost' \subseteq Chunk /\ rivals' \in BOOLEAN
    <3>1. CASE alone
      <4>1. canvas' = [c \in Chunk |-> IF c \in doubtful THEN OnDisk(disk', c) ELSE canvas[c]]
            /\ kept' = [c \in Chunk |-> {canvas'[c]}] /\ forked' = {} /\ lost' = {} /\ rivals' = FALSE
        BY <1>1, <3>1
      <4>2. canvas' \in [Chunk -> Content]
        BY <1>3, <2>1, <4>1 DEF TypeOK
      <4>3. QED
        BY <4>1, <4>2
    <3>2. CASE ~alone
      <4>1. kept' \in [Chunk -> SUBSET Content]
        BY <1>1, <1>3, <3>2 DEF TypeOK, KeptAfter
      <4>2. lost' \subseteq Chunk
        BY <1>1, <1>3, <1>10, <1>13, <3>2 DEF TypeOK
      <4>3. QED
        BY <1>1, <1>3, <3>2, <4>1, <4>2 DEF TypeOK
    <3>3. QED
      BY <3>1, <3>2
  <2>3. NothingLoaded \in [Chunk -> Content \cup {Absent}] /\ NoProps \in Prop
    BY Constants DEF NothingLoaded
  <2>4. /\ data' \in [Obj -> [Chunk -> Content \cup {Absent}]] /\ changed' \in [Obj -> SUBSET Chunk]
        /\ nonexistant' \in [Obj -> SUBSET Region] /\ created_dir' \in [Obj -> BOOLEAN]
        /\ prop' \in [Obj -> Prop] /\ propChanged' \in [Obj -> BOOLEAN]
    BY <1>2, <1>3, <2>3 DEF TypeOK
  <2>5. \A p \in Obj : \A c \in changed'[p] : data'[p][c] # Absent
    BY <1>3, <1>7 DEF TypeOK
  <2>6. disk' \in Disk
    BY <1>9 DEF Holds
  <2>7. QED
    BY <1>1, <1>3, <1>4, <2>2, <2>4, <2>5, <2>6 DEF TypeOK
<1>16. ClosingOnce'
  <2>1. Elems(closing)' = Elems(closing) /\ Elems(due)' = Elems(due')
        /\ Once(closing)' = Once(closing) /\ Once(due)' = Once(due')
    BY <1>1 DEF Elems, Once
  <2>2. Elems(closing) \cap Elems(due') = {}
    BY <1>3, <1>4 DEF ClosingOnce
  <2>3. phase' = "closing" <=> due' # <<>>
    BY <1>1
  <2>4. QED
    BY <1>1, <1>3, <1>4, <1>6, <2>1, <2>2, <2>3 DEF ClosingOnce
<1>17. UnusedAreBlank'
  <2> SUFFICES ASSUME NEW p \in Obj \ InUse'
               PROVE  Blank(p)'
    BY DEF UnusedAreBlank
  <2>1. CASE p = o
    BY <1>7, <2>1
  <2>2. CASE p # o
    <3>1. Blank(p)
      BY <1>3, <1>6, <2>2 DEF Shape, UnusedAreBlank
    <3>2. QED
      BY <1>7, <2>2, <3>1 DEF Blank
  <2>3. QED
    BY <2>1, <2>2
<1>18. FilesHold'
  <2>1. \A p \in Obj : created_dir'[p] => d.dir
    BY <1>3, <1>7, <1>8 DEF Shape, FilesHold
  <2>2. QED
    BY <1>9, <2>1 DEF FilesHold, Holds
<1>19. alone => \A p \in Obj : ~Active(p)'
  BY <1>1, <1>6, <1>17, Constants DEF Active, UnusedAreBlank, Blank, InUse, alone
<1>20. \A p \in Obj : Active(p)' => Active(p) /\ p # o
  BY <1>1, <1>5, <1>7 DEF Active
<1>21. DirIsOwned'
  <2>1. CASE alone
    BY <1>1, <1>19, <2>1 DEF DirIsOwned
  <2>2. ASSUME ~alone, ~rivals, d.dir, NEW p \in Obj, Active(p)'
        PROVE  created_dir'[p]
    <3>1. Active(p) /\ p # o
      BY <1>20, <2>2
    <3>2. CASE disk.dir
      BY <1>7, <2>2, <3>1, <3>2 DEF StoreInv, DirIsOwned
    <3>3. CASE ~disk.dir
      <4>1. ~Active(o)
        BY <1>5, <2>2, <3>1, <3>3 DEF StoreInv, DirIsOwned
      <4>2. d = disk
        BY <4>1 DEF Active, Stored
      <4>3. QED
        BY <2>2, <3>3, <4>2
    <3>4. QED
      BY <3>2, <3>3
  <2>3. ASSUME ~alone, ~rivals, ~d.dir, NEW p \in Obj, NEW q \in Obj, Active(p)', Active(q)'
        PROVE  p = q
    BY <1>8, <1>20, <2>3 DEF StoreInv, DirIsOwned
  <2>4. CASE ~alone
    BY <1>1, <1>9, <1>10, <2>2, <2>3, <2>4 DEF DirIsOwned
  <2>5. QED
    BY <2>1, <2>4
<1>22. ASSUME NEW b \in Chunk \ doubtful
       PROVE  /\ \A p \in Obj : b \in changed'[p] => data'[p][b] = canvas[b]
              /\ (\A p \in Obj : b \notin changed'[p]) => OnDisk(d, b) = canvas[b]
  <2>1. \A p \in Obj : b \in changed'[p] => data'[p][b] = canvas[b]
    BY <1>3, <1>7, <1>12, <1>22 DEF StoreInv, NewestIsSomewhere
  <2>2. ASSUME \A p \in Obj : b \notin changed'[p]
        PROVE  OnDisk(d, b) = canvas[b]
    BY <1>3, <1>7, <1>10, <1>12, <1>22, <2>2 DEF StoreInv, NewestIsSomewhere
  <2>3. QED
    BY <2>1, <2>2
<1>23. ASSUME alone, NEW b \in Chunk
       PROVE  canvas'[b] = OnDisk(d, b) /\ kept'[b] = {canvas'[b]} /\ \A p \in Obj : b \notin changed'[p]
  <2>1. \A p \in Obj : b \notin changed'[p]
    BY <1>19, <1>23 DEF Active
  <2>2. canvas'[b] = (IF b \in doubtful THEN OnDisk(d, b) ELSE canvas[b]) /\ kept'[b] = {canvas'[b]}
    BY <1>1, <1>9, <1>23
  <2>3. QED
    BY <1>22, <2>1, <2>2
<1>24. ~alone => Doubtful' = doubtful
  BY <1>1 DEF Doubtful, doubtful
<1>25. NewestIsSomewhere'
  <2>1. CASE alone
    BY <1>9, <1>23, <2>1 DEF NewestIsSomewhere
  <2>2. CASE ~alone
    BY <1>1, <1>9, <1>22, <1>24, <2>2 DEF NewestIsSomewhere
  <2>3. QED
    BY <2>1, <2>2
<1>26. SomethingKept'
  <2>1. CASE alone
    BY <1>9, <1>23, <2>1 DEF SomethingKept
  <2>2. CASE ~alone
    <3>1. \A b \in Chunk : b \notin Doubtful' => OnDisk(d, b) \in kept'[b]
      BY <1>1, <1>10, <1>12, <1>24, <2>2
    <3>2. \A b \in Chunk : canvas'[b] \in kept'[b]
      BY <1>1, <1>14, <2>2 DEF StoreInv, SomethingKept
    <3>3. QED
      BY <1>9, <3>1, <3>2 DEF SomethingKept
  <2>3. QED
    BY <2>1, <2>2
<1>27. CurrentSeesIt'
  <2> SUFFICES ASSUME current # None, NEW b \in Chunk \ Doubtful'
               PROVE  /\ data'[current][b] # Absent =>
                           data'[current][b] = canvas'[b] /\ b \notin Waiting'
                      /\ RegionOf[b] \in nonexistant'[current] =>
                           d.slots[b] = Absent /\ b \notin Waiting'
    BY <1>1, <1>9 DEF CurrentSeesIt, Loaded
  <2>1. ~alone
    BY DEF alone
  <2>2. b \in Chunk \ Doubtful /\ canvas'[b] = canvas[b]
    BY <1>1, <1>12, <1>24, <2>1
  <2>3. current \in Obj \ {o}
    BY <1>3, <1>5 DEF TypeOK
  <2>4. data'[current] = data[current] /\ nonexistant'[current] = nonexistant[current]
    BY <1>7, <2>3
  <2>5. Waiting' \subseteq Waiting /\ K \subseteq Waiting
    <3>1. \A p \in Closing' : p \in Closing /\ changed'[p] = changed[p]
      BY <1>3, <1>6, <1>7, ClosingObjects
    <3>2. QED
      BY <1>5, <3>1 DEF Waiting
  <2>6. /\ b \in Loaded(current) => data[current][b] = canvas[b] /\ b \notin Waiting
        /\ RegionOf[b] \in nonexistant[current] => disk.slots[b] = Absent /\ b \notin Waiting
    BY <2>2 DEF StoreInv, CurrentSeesIt
  <2>7. b \notin Waiting => d.slots[b] = disk.slots[b]
    BY <1>11, <2>2, <2>5
  <2>8. QED
    BY <2>2, <2>4, <2>5, <2>6, <2>7 DEF Loaded
<1>28. QED
  BY <1>15, <1>16, <1>17, <1>18, <1>21, <1>25, <1>26, <1>27 DEF StoreInv, Shape

-----------------------------------------------------------------------------
LEMMA StoreStep == StoreInv /\ [Next]_vars => StoreInv'
<1> SUFFICES ASSUME StoreInv, [Next]_vars
             PROVE  StoreInv'
  OBVIOUS
<1>1. ASSUME save_now
      PROVE  StoreInv'
  <2>1. PICK o \in Obj : o = current
    BY <1>1 DEF save_now, StoreInv, Shape, TypeOK
  <2>2. \A K, d : K = changed[o] /\ d = Stored(o, K) => StoreInv'
    BY <1>1, <2>1, SaveNowInv
  <2>3. QED
    BY <2>2
<1>2. ASSUME DeleteWorld
      PROVE  StoreInv'
  <2>1. \A o, K, d : o = Head(due) /\ K = changed[o] /\ d = Stored(o, K) => StoreInv'
    BY <1>2, DeleteWorldInv
  <2>2. QED
    BY <2>1
<1>3. QED
  BY <1>1, <1>2, OpenInv, GetChunkSteps, SetPropInv, SafedeleteInv, QuitInv,
     StartClosingInv, EndInv, RestartInv, StutterInv DEF Next

LEMMA StoreStart == Init => StoreInv
<1> SUFFICES ASSUME Init
             PROVE  StoreInv
  OBVIOUS
<1>1. /\ phase = "running" /\ current = None /\ closing = <<>> /\ due = <<>> /\ saving = FALSE
      /\ forked = {} /\ lost = {} /\ rivals = FALSE
      /\ data = [o \in Obj |-> NothingLoaded] /\ changed = [o \in Obj |-> {}]
      /\ nonexistant = [o \in Obj |-> {}] /\ created_dir = [o \in Obj |-> FALSE]
      /\ prop = [o \in Obj |-> NoProps] /\ propChanged = [o \in Obj |-> FALSE]
      /\ canvas = [c \in Chunk |-> OnDisk(disk, c)] /\ kept = [c \in Chunk |-> {canvas[c]}]
      /\ disk \in {EmptyDisk} \cup {Drawn(v) : v \in Content}
  BY DEF Init
<1>2. Holds(disk)
  <2>1. CASE disk = EmptyDisk
    BY <2>1, Constants DEF EmptyDisk, NothingLoaded, Holds, Disk
  <2>2. ASSUME NEW v \in Content, disk = Drawn(v)
        PROVE  Holds(disk)
    BY <2>2, Constants DEF Drawn, Holds, Disk
  <2>3. QED
    BY <1>1, <2>1, <2>2
<1>3. /\ closing \in Seq(Obj \cup {Saver}) /\ due \in Seq(Obj \cup {Saver})
      /\ Elems(closing) = {} /\ Elems(due) = {} /\ Once(closing) /\ Once(due)
  BY <1>1, NoElems
<1>4. /\ NothingLoaded \in [Chunk -> Content \cup {Absent}] /\ NoProps \in Prop
      /\ \A c \in Chunk : OnDisk(disk, c) \in Content
  BY <1>2, Constants, OnDiskType DEF NothingLoaded, Holds
<1>5. TypeOK
  BY <1>1, <1>2, <1>3, <1>4 DEF TypeOK, Holds
<1>6. Listed = {} /\ InUse = {}
  BY <1>1, <1>3, ListedAre DEF InUse, Closing
<1>7. ClosingOnce /\ UnusedAreBlank
  BY <1>1, <1>3, <1>6 DEF ClosingOnce, UnusedAreBlank, Blank, Live
<1>8. FilesHold
  BY <1>1, <1>2 DEF FilesHold, Holds
<1>9. QED
  BY <1>1, <1>5, <1>6, <1>7, <1>8, FreshInv DEF Shape

LEMMA StoreAlways == Spec => []StoreInv
BY StoreStart, StoreStep, PTL DEF Spec

\* The types of worlds, caches and files; only loaded chunks are changed
\* (world.cpp, database.cpp).
THEOREM TypeCorrect == Spec => []TypeOK
<1>1. StoreInv => TypeOK
  BY DEF StoreInv, Shape
<1>2. QED
  BY <1>1, StoreAlways, PTL

\* While the process lives a player is shown what was last drawn, or it waits in
\* an object that is closing; but for the chunks a reopened world read too early,
\* and those whose save failed (World::get_chunk, Database::get_handle, ~World).
THEOREM NothingForgotten == Spec => []NothingDrawnIsForgotten
<1>1. StoreInv => NothingDrawnIsForgotten
  <2> SUFFICES ASSUME StoreInv, Live, NEW c \in Chunk \ Doubtful
               PROVE  IF c \in Waiting
                      THEN \A o \in Closing : c \in changed[o] => data[o][c] = canvas[c]
                      ELSE canvas[c] = IF current # None THEN Shows(current, c) ELSE OnDisk(disk, c)
    BY DEF NothingDrawnIsForgotten, Live
  <2>1. Closing \subseteq Obj /\ TypeOK
    BY ClosingObjects DEF StoreInv, Shape
  <2>2. c \in Waiting => \A o \in Closing : c \in changed[o] => data[o][c] = canvas[c]
    BY <2>1 DEF StoreInv, NewestIsSomewhere
  <2>3. ASSUME c \notin Waiting, c \notin changed[current] \/ current = None
        PROVE  OnDisk(disk, c) = canvas[c]
    <3>1. \A o \in Obj : c \notin changed[o]
      BY <2>1, <2>3, ClosingObjects, Constants DEF StoreInv, Shape, UnusedAreBlank, Blank, InUse
    <3>2. QED
      BY <3>1 DEF StoreInv, NewestIsSomewhere
  <2>4. ASSUME c \notin Waiting, current # None
        PROVE  canvas[c] = Shows(current, c)
    <3>1. current \in Obj
      BY <2>1, <2>4 DEF TypeOK
    <3>2. CASE c \in Loaded(current)
      BY <2>4, <3>2 DEF StoreInv, CurrentSeesIt, Shows
    <3>3. CASE c \notin Loaded(current)
      <4>1. c \notin changed[current]
        BY <2>1, <3>1, <3>3 DEF TypeOK, Loaded
      <4>2. OnDisk(disk, c) = canvas[c]
        BY <2>3, <2>4, <4>1
      <4>3. RegionOf[c] \in nonexistant[current] => OnDisk(disk, c) = Bg
        BY <2>4 DEF StoreInv, CurrentSeesIt, OnDisk
      <4>4. QED
        BY <3>3, <4>2, <4>3 DEF Shows
    <3>4. QED
      BY <3>2, <3>3
  <2>5. QED
    BY <2>2, <2>3, <2>4
<1>2. QED
  BY <1>1, StoreAlways, PTL

\* A save fails at mkdir only after the world was opened without a directory
\* while an older object of it had chunks to save (Database::get_handle).
THEOREM OnlyRivalsLose == Spec => []SavesFailOnlyForRivals
<1>1. StoreInv => SavesFailOnlyForRivals
  BY DEF StoreInv, DirIsOwned, SavesFailOnlyForRivals
<1>2. QED
  BY <1>1, StoreAlways, PTL

\* At every moment, and after a death or an exit in the middle of a save, the
\* files hold for each chunk a content that it had at or after its last save, with
\* the same exceptions (Server::save_now, Chunk::save, ~World, World::get_chunk).
THEOREM DeathLosesLittle == Spec => []DeathLosesOnlyTheUnsaved
<1>1. StoreInv => DeathLosesOnlyTheUnsaved
  BY DEF StoreInv, SomethingKept, DeathLosesOnlyTheUnsaved
<1>2. QED
  BY <1>1, StoreAlways, PTL

\* Properties that leave memory are in the files, if there is a directory or a
\* chunk saved with them makes one (World::save, ~World, Database::save).
PropsSaved ==
  \A o \in Obj :
    propChanged[o] /\ ~propChanged'[o] /\ phase' \in {"running", "closing"}
      /\ (disk.dir \/ changed[o] # {})
    => disk'.prop = prop[o]

LEMMA SavedProps ==
  ASSUME Shape, NEW o \in Obj, propChanged[o], disk.dir \/ changed[o] # {}
  PROVE  AllStored(o).prop = prop[o]
<1>1. IsStored(Stored(o, changed[o]), o, changed[o])
  BY StoredFacts DEF Shape
<1>2. Stored(o, changed[o]).dir /\ Stored(o, changed[o]) \in Disk
  BY <1>1 DEF IsStored, CanCreate
<1>3. AllStored(o) = [Stored(o, changed[o]) EXCEPT !.prop = prop[o]]
  BY <1>2 DEF AllStored, PropsStored
<1>4. QED
  BY <1>2, <1>3 DEF Disk

LEMMA PropsStep == StoreInv /\ [Next]_vars => PropsSaved
<1> SUFFICES ASSUME StoreInv, [Next]_vars, NEW o \in Obj,
                    propChanged[o], ~propChanged'[o], phase' \in {"running", "closing"},
                    disk.dir \/ changed[o] # {}
             PROVE  disk'.prop = prop[o]
  BY DEF PropsSaved
<1>1. Shape /\ TypeOK
  BY DEF StoreInv, Shape
<1>2. CASE save_now
  <2>1. o = current
    BY <1>1, <1>2 DEF save_now, TypeOK
  <2>2. disk' = AllStored(o)
    BY <1>2, <2>1 DEF save_now
  <2>3. QED
    BY <1>1, <2>2, SavedProps
<1>3. CASE DeleteWorld
  <2>1. o = Head(due)
    BY <1>1, <1>3 DEF DeleteWorld, Forget, TypeOK
  <2>2. disk' = AllStored(o)
    BY <1>3, <2>1 DEF DeleteWorld
  <2>3. QED
    BY <1>1, <2>2, SavedProps
<1>4. \A how \in {"exited", "killed"} : \A d : ~Gone(how, d)
  BY DEF Gone
<1>5. CASE UNCHANGED propChanged
  BY <1>5
<1>6. ASSUME NEW p \in Prop, PropBecomes(p)
      PROVE  FALSE
  BY <1>1, <1>6 DEF PropBecomes, TypeOK
<1>7. ASSUME NEW p \in Prop, setProp(p) \/ \E c \in Chunk : setChunkProtection(c, p)
      PROVE  FALSE
  BY <1>6, <1>7 DEF setProp, setChunkProtection
<1>8. QED
  BY <1>2, <1>3, <1>4, <1>5, <1>7
     DEF Next, vars, memory, Open, ReadChunk, Draw, safedelete, quit, StartClosing, exit, Killed, Restart

\* Changed properties leave memory, or their flag is dropped, only for a file
\* that has them, unless the world has neither a directory nor a chunk to make
\* one with (World::save, World::~World, Database::save).
THEOREM PropsAreSaved == Spec => PropsFollowChunks
<1>1. StoreInv /\ [Next]_vars => [PropsSaved]_vars
  BY PropsStep
<1>2. QED
  BY <1>1, StoreAlways, PTL DEF Spec, PropsFollowChunks, PropsSaved
=============================================================================
