\* Three threads, so that one can register and one clear while a third is
\* between two lookups; an index allowed without looking, and one that is not.
SPECIFICATION Spec
CONSTANTS
    Threads = {t1, t2, t3}
    Indices = {i, f}
    Fixed = {f}
    Strings = {p, q}
    None = None
SYMMETRY Symmetry
INVARIANTS
    AllowedHasPath
    WaiterHoldsNothing
PROPERTY
    ImplementsPathMap
