SPECIFICATION Spec
CONSTANTS
    NaN = NaN
    SentSettings <- MCSentSettings
    Http2Profiles <- MCHttp2Profiles
    HeaderSets <- MCHeaderSets
    HeaderOrders <- MCHeaderOrders
    Requests <- MCRequests
    Connections <- MCConnections
    Runs <- MCRuns
    Subjects <- MCSubjects
INVARIANTS
    Http2VerdictIsRight
    Http1VerdictIsRight
    FingerprintsTellApart
    PercentilesAreRanks
    CertificateReadsBack
\* A state is one call.
CHECK_DEADLOCK FALSE
