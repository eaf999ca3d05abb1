-------------------------- MODULE MCSkillDataStore --------------------------
(***************************************************************************)
(* Two names whose escaped forms end alike: the byte 1A and the last byte  *)
(* of U+00B0 both become x110.  Clients are interchangeable, and so are    *)
(* the values they save.                                                   *)
(***************************************************************************)
EXTENDS SkillDataStore, TLC

MCCharacters == {<<26>>, <<194, 176>>}
Symmetry == Permutations(Clients) \cup Permutations(Values)
=============================================================================
