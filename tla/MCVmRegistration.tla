-------------------------- MODULE MCVmRegistration --------------------------
(* The two addresses are interchangeable: no property is about one of them. *)
EXTENDS VmRegistration, TLC

Symmetry == Permutations(Addresses)
=============================================================================
