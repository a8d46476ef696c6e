SPECIFICATION ParsersSpec
CONSTANTS
    Hellos <- SampleHellos
    Buffers <- SampleBuffers
INVARIANTS
    TruncatedRejected
\* The calls have returned.
CHECK_DEADLOCK FALSE
