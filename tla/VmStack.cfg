\* A native inside a function that a native has called; arguments from none to
\* three: too few for each native, exactly enough, and two to tell apart.
SPECIFICATION Spec
CONSTANTS
    Names = {n1}
    Args = {a, b}
    MaxExtra = 2
    MaxDepth = 2
    MaxStraddles = 1
INVARIANTS
    OneResultUnlessStraddled
    ArgumentsForwarded
    OuterStackKept
PROPERTIES
    WorkerLeavesStack
    AnswerHolds
SYMMETRY Symmetry
CHECK_DEADLOCK FALSE
