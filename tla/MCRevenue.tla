----------------------------- MODULE MCRevenue -----------------------------
(***************************************************************************)
(* Instances of Revenue for TLC: earnings of 20 nano, of which 75 percent  *)
(* are 15 nano, an amount that loses a nano on its way through floats, as  *)
(* do the 30 nano of 150 percent.  The platform's 150 percent of an        *)
(* earning without an owner are the rest of an owner's -50.                *)
(* Events e1 and e2 carry one reference, the second being the first        *)
(* reported again; e3 is of a type whose rule may be missing, and without  *)
(* reference or owner.                                                     *)
(***************************************************************************)
EXTENDS Revenue

CONSTANTS e1, e2, e3, r1, t1, t2, nats, worker

RefR1 == [e \in Events |-> IF e = e3 THEN NoRef ELSE r1]
Totals == [e \in Events |-> 20]
PercentsOf == [t \in Types |-> IF t = t1 THEN {75, 150} ELSE {-50, NoRule}]
TypePair == [e \in Events |-> IF e = e3 THEN t2 ELSE t1]
=============================================================================
