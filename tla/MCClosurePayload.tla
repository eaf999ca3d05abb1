------------------------- MODULE MCClosurePayload -------------------------
(***************************************************************************)
(* Payloads of up to 30 bytes with two records, words of two bytes and     *)
(* names of two or three bytes; sizes wrap at 32.                          *)
(***************************************************************************)
EXTENDS ClosurePayload

MCIds == {1, 10}
MCNameLength == [id \in MCIds |-> IF id < 10 THEN 2 ELSE 3]
=============================================================================
