\* Three callers, so that one can wait while one stops and one starts.  No
\* symmetry: liveness and refinement.
SPECIFICATION FairSpec
CONSTANTS
    Callers = {c1, c2, c3}
    Workers = {w1, w2}
    None = None
INVARIANTS
    SingleWorker
    StopIsComplete
PROPERTIES
    FlagRaisedOnlyWhenDrained
    ImplementsHookService
    LockReleased
    Settles
