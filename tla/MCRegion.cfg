SPECIFICATION Spec
CONSTANTS
  r1 = r1
  r2 = r2
  c1 = c1
  c2 = c2
  c3 = c3
  c4 = c4
  Region <- Regions
  Cell <- Cells
  RegionOf <- TwoRegions
  Content = {red, blue}
  Zero = Zero
  Absent = Absent
  Unknown = Unknown
  HeaderUnits = 1
  ChunkUnits = 2
  MaxHandles = 0
  MaxNonexistant = 1
SYMMETRY Symmetry
INVARIANTS
  TypeOK
  PointersInFile
  CachesAreHarmless
PROPERTIES
  KeepsChunks
