SPECIFICATION ParsersSpec
CONSTANTS
    Hellos <- SampleHellos
    Buffers <- SampleBuffers
INVARIANTS
    TypeOK
    NothingMisread
    IntactAccepted
    PartRejected
    Ja3MatchesHello
    Ja4WithinJa3
    FingerprintOfMessage
    AccessorsAgree
    TagTellsClientsApart
PROPERTIES
    AllTerminate
\* The calls have returned.
CHECK_DEADLOCK FALSE
