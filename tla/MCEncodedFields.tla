-------------------------- MODULE MCEncodedFields --------------------------
(* Half words of two bits; a table with two entries, at indices 0 and 1.   *)
EXTENDS EncodedFields, TLC

CONSTANTS e1, e2

MCBits == {0, 1}
MCWords == {<<{}, {1}>>, <<{0, 1}, {0}>>}
MCTable == [index \in (SUBSET MCBits) \X (SUBSET MCBits) |->
                CASE index = <<{}, {}>>  -> e1
                  [] index = <<{}, {0}>> -> e2
                  [] OTHER -> None]

Symmetry == Permutations(Keys)
=============================================================================
