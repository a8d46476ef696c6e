\* The instance of Sink. What the two servers share of slot, closures and
\* connections is checked there: here is what the write in between could break.
SPECIFICATION Spec
CONSTANTS
    Callers = {w1, w2}
    Conns = {c1, c2}
    Stoppers = {s1, s2}
INVARIANTS
    CompletedIsReported
PROPERTIES
    OnlyResponseRevives
    EveryCallSettles
    ImplementsClosedContract
\* Every call, connection and stop is used up in the end.
CHECK_DEADLOCK FALSE
