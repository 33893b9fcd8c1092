---------------------------- MODULE MCChainGuard ----------------------------
(***************************************************************************)
(* Instances of ChainGuard for TLC: the sessions of one botpay process and *)
(* the guard beside them.                                                  *)
(***************************************************************************)
EXTENDS MCWalletStore, ChainGuard
=============================================================================
