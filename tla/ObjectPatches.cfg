\* Another plugin that patches three of the six sites, one of each kind: a call, the
\* branch, and the last one written.
SPECIFICATION PatchSpec
CONSTANT ForeignSites <- Shared
INVARIANTS
    Restorable
    BranchAfterTargets
    CleanWhenOff
 
