--------------------------- MODULE MCConversation ---------------------------
(***************************************************************************)
(* Instances of Conversation for TLC.                                      *)
(***************************************************************************)
EXTENDS Conversation, TLC

CONSTANTS u1, boss, a1, a2, q1, q2, g1, g2

Same == Permutations(Goroutines)
=============================================================================
