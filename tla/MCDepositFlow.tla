--------------------------- MODULE MCDepositFlow ---------------------------
(***************************************************************************)
(* Instances of DepositFlow for TLC: a payment of half the price and one   *)
(* of the price, the first with the code of one invoice, the second with   *)
(* the code, the handle of another user or something else.                 *)
(***************************************************************************)
EXTENDS DepositFlow

CONSTANTS t1, t2, i1, w1, w2, hmac, aes, merkle

OwnerOf == [i \in Invoices |-> w1]
PriceOf == [i \in Invoices |-> 4]
CommentsOf == [t \in Txs |-> IF t = t1 THEN {i1} ELSE {i1, w2, None}]

ValueOf == [t \in Txs |-> IF t = t2 THEN 4 ELSE 2]
AdmitsOf == [w \in Workers |-> IF w = aes THEN 0..5 ELSE 1..5]
=============================================================================
