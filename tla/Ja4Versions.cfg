SPECIFICATION ParsersSpec
CONSTANTS
    Hellos <- SampleHellos
    Buffers <- SampleBuffers
INVARIANTS
    VersionsAreBytes
\* The calls have returned.
CHECK_DEADLOCK FALSE
