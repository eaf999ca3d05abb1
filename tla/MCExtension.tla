----------------------------- MODULE MCExtension -----------------------------
(* The constants are those of the two components, and so are the            *)
(* assumptions about them.                                                  *)
EXTENDS Extension

ASSUME L!ThreadsAssumption
ASSUME V!AddressesAssumption /\ V!TicksAssumption /\ V!CountsAssumption
=============================================================================
