CONSTANTS
  Handles = {h1, h2}
  Sizes <- MCSizes
  ChunkSize = 4
  MaxChunks = 3
SYMMETRY Symmetry
SPECIFICATION Spec
INVARIANT TypeOK
INVARIANT BlocksDisjoint
INVARIANT BlocksInChunk
INVARIANT ChunksReachable
PROPERTY ChunkAdvances
CHECK_DEADLOCK FALSE
