----------------------------- MODULE MCVmStack -----------------------------
(* Arguments are told apart but none is special.                           *)
EXTENDS VmStack, TLC

Symmetry == Permutations(Args)
=============================================================================
