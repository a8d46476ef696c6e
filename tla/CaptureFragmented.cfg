SPECIFICATION CaptureSpec
CONSTANTS
    Bodies <- MCBodies
    ChunkLens <- MCChunkLens
    Trailings = {0}
INVARIANTS
    RobustToFragmentation
\* The client has sent everything in the end.
CHECK_DEADLOCK FALSE
