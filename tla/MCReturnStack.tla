---------------------------- MODULE MCReturnStack ----------------------------
(***************************************************************************)
(* Instances of ReturnStack for TLC.  With two initial cells a limit of 0  *)
(* never allocates, 1 and 2 never grow, 3 grows to a size that is not a    *)
(* power of two and 5 grows twice.                                         *)
(***************************************************************************)
EXTENDS ReturnStack

CONSTANTS a1, a2

MCAddr == {a1, a2}
MCMaxes == {0, 1, 2, 3, 5}
=============================================================================
