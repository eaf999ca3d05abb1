---------------------------- MODULE MCOffsetPath ----------------------------
(* One offset up and one down, so that an address can leave the address    *)
(* space at both ends; every text of up to five items, which is three      *)
(* numbers and the pluses between them.                                    *)
EXTENDS OffsetPath, TLC

CONSTANTS up, down

MCValueOf == (up :> 2) @@ (down :> -3)

MCPaths ==
    {text \in UNION {[1 .. n -> Items] : n \in 0 .. 5} :
        \A i \in 2 .. Len(text) : ~{text[i - 1], text[i]} \subseteq Numbers}
=============================================================================
