---------------------------- MODULE MCNativeCalls ----------------------------
(* The instance of NativeCalls that TLC checks.                            *)
EXTENDS NativeCalls

\* Both signs, the widths, and values that do and do not fit a byte or a word.
MCNumbers == {-3, 0, 1, 2, 3}
=============================================================================
