SPECIFICATION IdsSpec
CONSTANTS
    t1 = t1
    t2 = t2
    Threads <- MapThreads
    Chunk = 2
    Word = 4
    MaxStored = 4
    MaxId = 5
INVARIANTS IdsTypeOK CollidesOnlyAtChunk NextIsLowest
