SPECIFICATION Spec
CONSTANTS
  Obj = {o1, o2}
  None = None
  Saver = Saver
  Chunk = {c1, c2}
  Region = {r}
  RegionOf <- OneRegion
  Content = {white, red}
  Bg = white
  Absent = Absent
  Prop = {p0, p1}
  NoProps = p0
  MaxLoaded = 0
  MaxNonexistant = 512
SYMMETRY Symmetry
VIEW View
INVARIANTS
  TypeOK
  NothingDrawnIsForgotten
  SavesFailOnlyForRivals
  DeathLosesOnlyTheUnsaved
PROPERTIES
  PropsFollowChunks
