\* The second call comes after the first one was rejected while the connection
\* was still sending its ClientHello.
SPECIFICATION Spec
CONSTANTS
    Callers = {w1, w2}
    Conns = {c1}
    Stoppers = {s1}
PROPERTIES
    LaterCallsReject
\* Every call, connection and stop is used up in the end.
CHECK_DEADLOCK FALSE
