--------------------------- MODULE MCBalanceCache ---------------------------
(***************************************************************************)
(* Instances of BalanceCache for TLC.                                      *)
(***************************************************************************)
EXTENDS BalanceCache

CONSTANTS r1, r2, c1, c2
=============================================================================
