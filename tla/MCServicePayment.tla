------------------------- MODULE MCServicePayment -------------------------
(***************************************************************************)
(* Instances of ServicePayment for TLC: purchases of one user with one     *)
(* reason and different prices, one with a ref and one with only an        *)
(* idempotency key.  The price of 3 nano stands for one that TONToNano     *)
(* turns into 2.  The funds of the user cover either of them, or the       *)
(* cheaper one twice, but not both.                                        *)
(***************************************************************************)
EXTENDS ServicePayment

CONSTANTS o1, o2, u1, p1, p2, bot, ref, key, reason

UserOf == [o \in Orders |-> u1]
ServiceOf == [o \in Orders |-> bot]
PriceOf == [o \in Orders |-> IF o = o1 THEN 3 ELSE 1]
RefOf == [o \in Orders |-> IF o = o1 THEN ref ELSE NoText]
IdempotencyKeyOf == [o \in Orders |-> IF o = o2 THEN key ELSE NoText]
ReasonOf == [o \in Orders |-> reason]
FundsOf == [u \in Users |-> 2]
===========================================================================
