SPECIFICATION Spec
CONSTANTS
    a = a
    b = b
    Byte <- MCByte
    Patterns <- MCPatterns
    MaxPatternLen = 4
    MaxBuffer = 3
    Overlapping = TRUE
    Chunks <- MCChunks
    MaxStream = 8
INVARIANT TypeOK
INVARIANT ChunkingIndependent
PROPERTY ResultsOnlyAdvance
PROPERTY ImplementsSearch
