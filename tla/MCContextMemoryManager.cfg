SPECIFICATION Spec
CONSTANTS
    Chunks = {c1, c2, c3, c4, c5}
    ChunkSize = 2
    MaxFreeChunks = 1
    MaxRegions = 3
    MaxBlocks = 2
SYMMETRY Symmetry
INVARIANTS TypeOK BlocksDisjoint BlocksHeld ChunksOwnedOnce
