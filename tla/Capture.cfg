\* A record alone, and one with the beginning of another behind it.
SPECIFICATION CaptureSpec
CONSTANTS
    Bodies <- MCBodies
    ChunkLens <- MCChunkLens
    Trailings = {0, 6}
INVARIANTS
    CaptureIsRecord
PROPERTIES
    OnlyLastChunkIsCut
    CaptureHappens
\* The client has sent everything in the end.
CHECK_DEADLOCK FALSE
