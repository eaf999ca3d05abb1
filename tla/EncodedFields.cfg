\* Two entries that can be each other's mirror, their own, or have none; three
\* keys for four fields, so that fields share keys in every way.
SPECIFICATION Spec
CONSTANTS
    Bits <- MCBits
    Keys = {k1, k2, k3}
    e1 = e1
    e2 = e2
    Entries = {e1, e2}
    Offsets = {x}
    Words <- MCWords
    Table <- MCTable
    None = None
SYMMETRY Symmetry
INVARIANTS
    ReadsAsSet
    CheckFits
    MirrorAgrees
