\* Two calls that may wait together, a second client behind the first, and a
\* stop() repeated.
SPECIFICATION Spec
CONSTANTS
    Callers = {w1, w2}
    Conns = {c1, c2}
    Stoppers = {s1, s2}
INVARIANTS
    TypeOK
    NoLostCall
    OneResult
    NotStranded
    CompletedIsReported
    SingleShot
    StopMeansDrained
PROPERTIES
    DoneIsFinal
    OnlyGuardedRevives
    EveryCallSettles
    StopSettles
    ImplementsContract
\* Every call, connection and stop is used up in the end.
CHECK_DEADLOCK FALSE
