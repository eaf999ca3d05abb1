\* One caller that starts and stops, one worker thread at a time, one address
\* that every VM comes to; ticks that wrap after three.  No symmetry: liveness
\* and refinement.
SPECIFICATION Spec
CONSTANTS
    Callers = {c1}
    Workers = {w1}
    None = None
    Addresses = {a1}
    Null = Null
    W = 4
    Settle = 1
    Backoff = 1
    NativeCount = 1
    ClosureCount = 1
INVARIANTS
    QuietWhenStopped
PROPERTIES
    ImplementsLifecycle
    ImplementsRegistration
    EventuallyRegistered
