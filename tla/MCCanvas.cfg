SPECIFICATION Spec
CONSTANTS
  Addr = {1, 2}
  MaxId = 2
  Pos = {p0}
  StartPos = p0
  Pixel = {x, y}
  Chunk <- OneChunk
  Colour = {white, red}
  Bg = white
  Nothing = Nothing
  PendingBound = 3
  MaxPlayerUpdates = 2
  MaxPlayerLeft = 2
  MaxPixelUpdates = 2
  MaxPixels = 10
INVARIANTS
  PlayersSeeTheCanvas
  ChunkArrives
