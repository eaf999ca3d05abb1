\* The comment that ReusedVmIsRegistered states does not hold of the code.
SPECIFICATION Spec
CONSTANTS
    Addresses = {a1, a2}
    Null = Null
    W = 7
    Settle = 2
    Backoff = 3
    NativeCount = 2
    ClosureCount = 2
SYMMETRY Symmetry
INVARIANT ReusedVmIsRegistered
