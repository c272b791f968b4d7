SPECIFICATION FairSpec
CONSTANTS
  Addr = {1, 2, 3}
  MaxId = 3
  Pos = {p0, p1}
  StartPos = p0
  Pixel = {}
  Chunk <- OneChunk
  Colour = {white}
  Bg = white
  Nothing = Nothing
  PendingBound = 0
  MaxPlayerUpdates = 1
  MaxPlayerLeft = 1
  MaxPixelUpdates = 1
INVARIANTS
  TypeOK
  WorkIsScheduled
  IdsTellPlayersApart
  PlayersKnowEachOther
PROPERTIES
  NoGhostReturns
  KeepsPresence
  DeparturesAnnounced
  LowAddressesServed
