\* Two threads, chunks of two objects, four objects in use at once.
SPECIFICATION Spec
CONSTANTS
    Threads = {t1, t2}
    Chunks = {c1, c2, c3, c4, c5}
    CHUNK_SIZE = 2
    MaxHeld = 4
    NoChunk = NoChunk
SYMMETRY Symmetry
CHECK_DEADLOCK FALSE
INVARIANTS
    ChunksOwned
    ObjectsAccounted
    MemoryBounded
