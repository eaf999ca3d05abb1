\* Two addresses, so that a VM can be replaced in place and elsewhere; ticks that
\* wrap several times; two natives and two closures, so that an attempt can fail
\* or lose its VM between any two.
SPECIFICATION Spec
CONSTANTS
    Addresses = {a1, a2}
    Null = Null
    W = 7
    Settle = 2
    Backoff = 3
    NativeCount = 2
    ClosureCount = 2
SYMMETRY Symmetry
INVARIANTS
    CompleteUnlessReused
    PathsOfThisVm
PROPERTIES
    SettledUnlessReused
    BackoffUnlessDueAtZero
    OwnPathsKept
