-------------------------- MODULE MCObjectPatches --------------------------
(* The sites the other plugin shares with us, for the runs of ObjectPatches. *)
EXTENDS ObjectPatches

Shared == {AllowedCall, Branch, Additional}
=============================================================================
