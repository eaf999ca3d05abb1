\* Five addresses: with null, the smallest space in which an offset can wrap to a
\* place that is not null.
SPECIFICATION OffsetSpec
CONSTANTS
    Size = 5
    up = up
    down = down
    Numbers = {up, down}
    ValueOf <- MCValueOf
    Paths <- MCPaths
INVARIANTS
    ParsedOrThrown
    WalksAgree
\* A path that throws, or that all walks have followed, is the end.
CHECK_DEADLOCK FALSE
