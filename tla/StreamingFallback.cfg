SPECIFICATION Spec
CONSTANTS
    a = a
    b = b
    Byte <- MCByte
    Patterns <- MCPatterns
    MaxPatternLen = 4
    MaxBuffer = 2
    Overlapping = FALSE
    Chunks <- MCChunks
    MaxStream = 8
INVARIANT Precision
INVARIANT CancelIffOccurred
