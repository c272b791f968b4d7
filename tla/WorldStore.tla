----------------------------- MODULE WorldStore -----------------------------
(***************************************************************************)
(* How the drawing of one world name survives (src/world.cpp,              *)
(* src/database.cpp, Server::quit): World objects cache chunks and the     *)
(* names of missing region files, save what changed, and are deleted only  *)
(* in the closing phase of the event loop, after the server has forgotten  *)
(* them; a player who joins before that opens a second World on the same   *)
(* files.  A signal may come at any point of a handler, and the process    *)
(* may be killed at any point of a save.                                   *)
(*                                                                         *)
(* A chunk's content is one value.  Every access to the files is made by   *)
(* the loop thread and flushed; here a death comes between the chunks of a *)
(* save, and RegionFile says what one in the middle of a chunk does.       *)
(***************************************************************************)
EXTENDS Integers, Sequences, FiniteSets

CONSTANTS
  Obj,             \* World objects, each used again after it is deleted
  None,            \* no object
  Saver,           \* Server::save_hdl among the handles that are closing
  Chunk,           \* chunks of the world
  Region,          \* region files
  RegionOf,        \* the region of each chunk
  Content, Bg,     \* contents of a chunk, and of one that was never drawn on
  Absent,          \* no content: not loaded, or no slot in the file
  Prop,            \* values of all properties and protections together
  NoProps,         \* those of a world without property files
  MaxLoaded,       \* WORLD_MAX_CHUNKS_LOADED
  MaxNonexistant   \* the limit of Database::nonexistant (512)

ASSUME StoreAssumption ==
  /\ IsFiniteSet(Obj) /\ None \notin Obj /\ Saver \notin Obj
  /\ IsFiniteSet(Chunk) /\ RegionOf \in [Chunk -> Region]
  /\ Bg \in Content /\ Absent \notin Content
  /\ NoProps \in Prop
  /\ MaxLoaded \in Nat /\ MaxNonexistant \in Nat

VARIABLES
  phase,        \* "running", "closing" (the loop's last phase), "exited", "killed"
  current,      \* the object in Server::worlds
  closing,      \* loop->closing_handles: uv_close'd handles, newest first
  due,          \* of those, the ones the closing phase is calling back
  saving,       \* uv_is_closing(save_hdl)
  data,         \* World::chunks of each object, by chunk
  changed,      \* the loaded chunks with Chunk::changed
  nonexistant,  \* Database::nonexistant
  created_dir,  \* Database::created_dir
  prop,         \* Database::worldProps and rankedChunks
  propChanged,  \* Database::changedPropsOrProtects
  disk,         \* the directory, its region files, their chunks, its property files
  canvas,       \* history: what was last drawn on each chunk
  kept,         \* history: the contents of each chunk since it was last saved
  forked,       \* history: chunks a second object read while the first had yet to save
  lost,         \* history: chunks whose save failed for want of a directory
  rivals        \* history: a world was opened without a directory while an
                \* older object had chunks to save

control == <<phase, current, closing, due, saving>>
memory == <<data, changed, nonexistant, created_dir, prop, propChanged>>
doubts == <<forked, lost, rivals>>
history == <<canvas, kept, doubts>>
vars == <<control, memory, disk, history>>

Disk == [dir : BOOLEAN, files : SUBSET Region,
         slots : [Chunk -> Content \cup {Absent}], prop : Prop]

\* Types; only loaded chunks are changed.
TypeOK ==
  /\ phase \in {"running", "closing", "exited", "killed"}
  /\ current \in Obj \cup {None}
  /\ closing \in Seq(Obj \cup {Saver}) /\ due \in Seq(Obj \cup {Saver})
  /\ saving \in BOOLEAN
  /\ data \in [Obj -> [Chunk -> Content \cup {Absent}]]
  /\ changed \in [Obj -> SUBSET Chunk]
  /\ \A o \in Obj : \A c \in changed[o] : data[o][c] # Absent
  /\ nonexistant \in [Obj -> SUBSET Region]
  /\ created_dir \in [Obj -> BOOLEAN]
  /\ prop \in [Obj -> Prop]
  /\ propChanged \in [Obj -> BOOLEAN]
  /\ disk \in Disk
  /\ canvas \in [Chunk -> Content]
  /\ kept \in [Chunk -> SUBSET Content]
  /\ forked \subseteq Chunk /\ lost \subseteq Chunk
  /\ rivals \in BOOLEAN

OnDisk_unchecked(d, c) == d.slots[c]  \* Mutant: a chunk without a slot is read.
OnDisk(d, c) == IF d.slots[c] = Absent THEN Bg ELSE d.slots[c]

NothingLoaded == [c \in Chunk |-> Absent]
EmptyDisk == [dir |-> FALSE, files |-> {}, slots |-> NothingLoaded, prop |-> NoProps]

\* A world drawn on in an earlier run, whatever was drawn.
Drawn(v) == [dir |-> TRUE, files |-> {RegionOf[c] : c \in Chunk},
             slots |-> [c \in Chunk |-> v], prop |-> NoProps]

\* The objects O are deleted; of an object that is not in use nothing counts.
Forget(O) ==
  /\ data' = [o \in Obj |-> IF o \in O THEN NothingLoaded ELSE data[o]]
  /\ changed' = [o \in Obj |-> IF o \in O THEN {} ELSE changed[o]]
  /\ nonexistant' = [o \in Obj |-> IF o \in O THEN {} ELSE nonexistant[o]]
  /\ created_dir' = [o \in Obj |-> IF o \in O THEN FALSE ELSE created_dir[o]]
  /\ prop' = [o \in Obj |-> IF o \in O THEN NoProps ELSE prop[o]]
  /\ propChanged' = [o \in Obj |-> IF o \in O THEN FALSE ELSE propChanged[o]]

Init ==
  /\ phase = "running" /\ current = None
  /\ closing = <<>> /\ due = <<>> /\ saving = FALSE
  /\ data = [o \in Obj |-> NothingLoaded]
  /\ changed = [o \in Obj |-> {}]
  /\ nonexistant = [o \in Obj |-> {}]
  /\ created_dir = [o \in Obj |-> FALSE]
  /\ prop = [o \in Obj |-> NoProps]
  /\ propChanged = [o \in Obj |-> FALSE]
  /\ disk \in {EmptyDisk} \cup {Drawn(v) : v \in Content}
  /\ canvas = [c \in Chunk |-> OnDisk(disk, c)]
  /\ kept = [c \in Chunk |-> {canvas[c]}]
  /\ forked = {} /\ lost = {} /\ rivals = FALSE

-----------------------------------------------------------------------------
Listed == {closing[i] : i \in 1..Len(closing)} \cup {due[i] : i \in 1..Len(due)}
Closing == Listed \ {Saver}
Loaded(o) == {c \in Chunk : data[o][c] # Absent}
RegionsOf(K) == {RegionOf[c] : c \in K}

\* Chunks whose latest content waits in an object that is closing.
Waiting == UNION {changed[o] : o \in Closing}

\* get_handle(create): mkdir fails when another object made the directory.
CanCreate_never(o) == created_dir[o]  \* Mutant: nobody makes the directory.
CanCreate(o) == created_dir[o] \/ ~disk.dir

\* Chunk::save of the chunks K of o: without a handle they are lost.
Stored_trunc(o, K) ==  \* Mutant: a region file that is opened is emptied.
  IF K = {} \/ ~CanCreate(o) THEN disk
  ELSE [disk EXCEPT !.dir = TRUE,
                    !.files = @ \cup RegionsOf(K),
                    !.slots = [c \in Chunk |-> IF c \in K THEN data[o][c]
                                               ELSE IF RegionOf[c] \in RegionsOf(K) THEN Absent
                                               ELSE @[c]]]
Stored(o, K) ==
  IF K = {} \/ ~CanCreate(o) THEN disk
  ELSE [disk EXCEPT !.dir = TRUE,
                    !.files = @ \cup RegionsOf(K),
                    !.slots = [c \in Chunk |-> IF c \in K THEN data[o][c] ELSE @[c]]]

Creates(o, K) == created_dir[o] \/ (K # {} /\ CanCreate(o))
StillMissing_all(o, K) == nonexistant[o]  \* Mutant: a made file stays missing.
StillMissing(o, K) == IF Creates(o, K) THEN nonexistant[o] \ RegionsOf(K)
                                       ELSE nonexistant[o]

\* Database::save, with the files in state d: it fails without a directory.
PropsStored(d, o) == IF propChanged[o] /\ d.dir THEN [d EXCEPT !.prop = prop[o]] ELSE d

\* World::save and the end of ~World: the chunks, then the properties.
AllStored_props_first(o) ==  \* Mutant: in the other order.
  [Stored(o, changed[o]) EXCEPT !.prop = PropsStored(disk, o).prop]
AllStored(o) == PropsStored(Stored(o, changed[o]), o)

\* The histories after o has saved the chunks K, or failed to.
LostAfter(o, K) == IF CanCreate(o) THEN lost ELSE lost \cup K
KeptAfter(K) == [c \in Chunk |-> IF c \in K THEN {canvas[c]} ELSE kept[c]]

-----------------------------------------------------------------------------
\* join_world makes a World: its Database reads the property files.
Open(o) ==
  /\ phase = "running" /\ current = None /\ o \notin Closing
  /\ current' = o
  /\ created_dir' = [created_dir EXCEPT ![o] = disk.dir]
  /\ prop' = [prop EXCEPT ![o] = IF disk.dir THEN disk.prop ELSE NoProps]
  /\ rivals' = (rivals \/ (~disk.dir /\ Waiting # {}))
  /\ UNCHANGED <<phase, closing, due, saving, data, changed, nonexistant, propChanged,
                 disk, canvas, kept, forked, lost>>

\* The chunk World::get_chunk evicts first, if it loads one over the limit.
Victims(o, c) ==
  IF c \in Loaded(o) \/ Cardinality(Loaded(o)) <= MaxLoaded
  THEN {{}} ELSE {{v} : v \in Loaded(o)}

\* World::get_chunk(c) after evicting K; if dirty, its content is then new and
\* it is changed.
get_chunk(o, c, K, dirty, new) ==
  LET saved == K \cap changed[o]
      d == Stored(o, saved)
      missing == StillMissing(o, saved)
      r == RegionOf[c]
      learns == c \notin Loaded(o) /\ r \notin missing /\ r \notin d.files
      found == IF c \in Loaded(o) THEN data[o][c]
               ELSE IF r \in missing THEN Bg ELSE OnDisk(d, c)
  IN /\ disk' = d
     /\ created_dir' = [created_dir EXCEPT ![o] = Creates(o, saved)]
     /\ nonexistant' = [nonexistant EXCEPT ![o] =
          IF ~learns THEN missing
          ELSE IF Cardinality(missing) >= MaxNonexistant THEN {r} ELSE missing \cup {r}]
     /\ data' = [data EXCEPT ![o] = [b \in Chunk |->
          IF b = c THEN IF dirty THEN new ELSE found
          ELSE IF b \in K THEN Absent ELSE data[o][b]]]
     /\ changed' = [changed EXCEPT ![o] = (@ \ K) \cup (IF dirty THEN {c} ELSE {})]
     /\ forked' = forked \cup {b \in Waiting : \/ b = c /\ c \notin Loaded(o)
                                               \/ learns /\ RegionOf[b] = r}
     /\ lost' = LostAfter(o, saved)
     /\ canvas' = IF dirty THEN [canvas EXCEPT ![c] = new] ELSE canvas
     /\ kept' = [b \in Chunk |-> KeptAfter(saved)[b]
                                 \cup (IF dirty /\ b = c THEN {new} ELSE {})]

\* A player asks for a chunk.
ReadChunk(c) ==
  /\ phase = "running" /\ current # None
  /\ \E K \in Victims(current, c) : get_chunk(current, c, K, FALSE, Absent)
  /\ UNCHANGED <<control, prop, propChanged, rivals>>

\* World::put_px with another colour, del_chunk and paste_chunk.
Draw(c, v) ==
  /\ phase = "running" /\ current # None
  /\ \E K \in Victims(current, c) : get_chunk(current, c, K, TRUE, v)
  /\ UNCHANGED <<control, prop, propChanged, rivals>>

\* Database::setProp.
PropBecomes(p) ==
  /\ prop' = [prop EXCEPT ![current] = p]
  /\ propChanged' = [propChanged EXCEPT ![current] = TRUE]

setProp(p) ==
  /\ phase = "running" /\ current # None
  /\ PropBecomes(p)
  /\ UNCHANGED <<control, data, changed, nonexistant, created_dir, disk, history>>

\* World::setChunkProtection, which then loads the chunk.
setChunkProtection(c, p) ==
  /\ phase = "running" /\ current # None
  /\ PropBecomes(p)
  /\ \E K \in Victims(current, c) : get_chunk(current, c, K, FALSE, Absent)
  /\ UNCHANGED <<control, rivals>>

\* Server::save_now, by the timer or by /save: the worlds of the table.
save_now ==
  /\ phase = "running" /\ current # None
  /\ disk' = AllStored(current)
  /\ changed' = [changed EXCEPT ![current] = {}]
  /\ LET K == changed[current] IN
       /\ nonexistant' = [nonexistant EXCEPT ![current] = StillMissing(current, K)]
       /\ created_dir' = [created_dir EXCEPT ![current] = Creates(current, K)]
       /\ lost' = LostAfter(current, K)
       /\ kept' = KeptAfter(K)
  /\ propChanged' = [propChanged EXCEPT ![current] = FALSE]
  /\ UNCHANGED <<control, data, prop, canvas, forked, rivals>>

\* The last player leaves: the server forgets the world and uv_closes it.
safedelete ==
  /\ phase = "running" /\ current # None
  /\ current' = None
  /\ closing' = <<current>> \o closing
  /\ UNCHANGED <<phase, due, saving, memory, disk, history>>

-----------------------------------------------------------------------------
\* The files at any point of the handler that is running: of those that write,
\* the ones that save chunks of the world of the table or, in the closing
\* phase, of the object that is being deleted.
Writers == IF phase = "running" THEN {current} \ {None} ELSE {Head(due)} \ {Saver}
Partial == {disk} \cup {AllStored(o) : o \in Writers}
                 \cup (UNION {{Stored(o, K) : K \in SUBSET changed[o]} : o \in Writers})

\* The process is gone and leaves the files d.
Gone(how, d) ==
  /\ phase' = how /\ current' = None
  /\ closing' = <<>> /\ due' = <<>> /\ saving' = FALSE
  /\ Forget(Obj)
  /\ disk' = d
  /\ UNCHANGED history

\* SIGINT, in the middle of any handler: uv_close of the save timer.  In the
\* middle of another uv_close, or as the loop takes the list, it is not listed.
\* A second signal deletes the Server, whose worlds are not saved, and exits.
quit ==
  /\ phase \in {"running", "closing"}
  /\ IF saving THEN \E d \in Partial : Gone("exited", d)
     ELSE /\ saving' = TRUE
          /\ \/ closing' = <<Saver>> \o closing
             \/ phase = "running" /\ UNCHANGED closing
          /\ UNCHANGED <<phase, current, due, memory, disk, history>>

\* The loop reaches its last phase, takes the list and runs the callbacks,
\* newest first.
StartClosing ==
  /\ phase = "running" /\ closing # <<>>
  /\ phase' = "closing"
  /\ due' = closing /\ closing' = <<>>
  /\ UNCHANGED <<current, saving, memory, disk, history>>

\* ~World saves the object's chunks, ~Database its properties.
DeleteWorld ==
  /\ phase = "closing" /\ Head(due) # Saver
  /\ LET o == Head(due)
         K == changed[o]
         alone == current = None /\ Closing = {o}
         doubtful == forked \cup LostAfter(o, K)
     IN /\ due' = Tail(due)
        /\ phase' = IF Tail(due) = <<>> THEN "running" ELSE "closing"
        /\ disk' = AllStored(o)
        /\ Forget({o})
        \* with no object left, the files are all there is
        /\ IF alone
           THEN /\ canvas' = [c \in Chunk |-> IF c \in doubtful THEN OnDisk(disk', c)
                                                                ELSE canvas[c]]
                /\ kept' = [c \in Chunk |-> {canvas'[c]}]
                /\ forked' = {} /\ lost' = {} /\ rivals' = FALSE
           ELSE /\ kept' = KeptAfter(K)
                /\ lost' = LostAfter(o, K)
                /\ UNCHANGED <<canvas, forked, rivals>>
  /\ UNCHANGED <<current, closing, saving>>

\* save_hdl's callback deletes the Server, which uv_closes the worlds of its
\* last players, and exits before their callbacks run.
exit ==
  /\ phase = "closing" /\ Head(due) = Saver
  /\ Gone("exited", disk)

\* The process is killed, perhaps in the middle of a save.
Killed ==
  /\ phase \in {"running", "closing"}
  /\ \E d \in Partial : Gone("killed", d)

\* Players find what the files hold.
Restart ==
  /\ phase \in {"exited", "killed"}
  /\ phase' = "running"
  /\ canvas' = [c \in Chunk |-> OnDisk(disk, c)]
  /\ kept' = [c \in Chunk |-> {canvas'[c]}]
  /\ forked' = {} /\ lost' = {} /\ rivals' = FALSE
  /\ UNCHANGED <<current, closing, due, saving, memory, disk>>

Next ==
  \/ \E o \in Obj : Open(o)
  \/ \E c \in Chunk : ReadChunk(c) \/ \E v \in Content : Draw(c, v)
  \/ \E p \in Prop : setProp(p) \/ \E c \in Chunk : setChunkProtection(c, p)
  \/ save_now \/ safedelete
  \/ quit \/ StartClosing \/ DeleteWorld \/ exit \/ Killed \/ Restart

Spec == Init /\ [][Next]_vars

-----------------------------------------------------------------------------
\* The chunks that the properties except.
Doubtful == forked \cup lost

\* What a player who opens the world and asks for chunk c would be shown.
Shows(o, c) ==
  IF c \in Loaded(o) THEN data[o][c]
  ELSE IF RegionOf[c] \in nonexistant[o] THEN Bg ELSE OnDisk(disk, c)

\* Nothing drawn is forgotten while the process lives: through eviction, saves,
\* missing regions and reopened worlds, a player sees what was last drawn.  The
\* exceptions are two: chunks that waited in a closing object when a reopened
\* world read them, or found their region missing (forked), and chunks whose
\* save failed at mkdir (lost), of which SavesFailOnlyForRivals says when
\* (World::get_chunk, Database::get_handle, ~World).
NothingDrawnIsForgotten ==
  phase \in {"running", "closing"} =>
    \A c \in Chunk \ Doubtful :
      IF c \in Waiting
      THEN \A o \in Closing : c \in changed[o] => data[o][c] = canvas[c]
      ELSE canvas[c] = IF current # None THEN Shows(current, c) ELSE OnDisk(disk, c)

\* mkdir fails, and the chunks are lost, only in a world that was opened while
\* it had no directory and an older object of it had chunks to save: whichever
\* of the two saves second finds the directory of the other (get_handle).
SavesFailOnlyForRivals == lost # {} => rivals

\* The files hold for each chunk a content that it had at or after its last
\* save, with the same exceptions; so they do when the process has died or
\* exited in the middle of a save (save_now, Chunk::save, ~World, get_chunk).
DeathLosesOnlyTheUnsaved ==
  \A c \in Chunk \ Doubtful : OnDisk(disk, c) \in kept[c]

\* Properties that a save or an unloading drops from memory are in the files if
\* the directory was there or a chunk saved just before made it: the chunks go
\* first (World::save, ~World).
PropsFollowChunks ==
  [][\A o \in Obj :
       propChanged[o] /\ ~propChanged'[o] /\ phase' \in {"running", "closing"}
         /\ (disk.dir \/ changed[o] # {})
       => disk'.prop = prop[o]]_vars

\* "Saving worlds and exiting...": when save_hdl's callback ends the process,
\* every drawing is in the files.
ExitSavesWorlds ==
  [][exit => \A c \in Chunk \ Doubtful : OnDisk(disk', c) = canvas[c]]_vars
=============================================================================
