---------------------------- MODULE MCConsensus ----------------------------
(***************************************************************************)
(* Instances of Consensus for TLC: a deposit alone with the four workers   *)
(* and a restart, or a deposit and a deduction verified side by side.      *)
(***************************************************************************)
EXTENDS Consensus

CONSTANTS d1, p1, hmac, ed25519, aes, merkle

\* 5 stands for an amount above the HMAC worker's limit and below the Merkle
\* worker's; the AES worker does not look at the amount.  The Ed25519 worker
\* admits nothing: its private key is 64 random bytes whose halves do not belong
\* together, so the signature it makes never verifies against its own public key.
Values == [t \in Txs |-> IF t = p1 THEN 5 ELSE 1]
AdmitsOf == [w \in Workers |-> CASE w = hmac -> 1..3 [] w = ed25519 -> {}
                                   [] w = aes -> 0..9 [] w = merkle -> 1..9]
=============================================================================
