--------------------------- MODULE MCObjectPaths ---------------------------
(* No thread and no path is special.                                       *)
EXTENDS ObjectPaths, TLC

Symmetry == Permutations(Threads) \cup Permutations(Strings)
=============================================================================
