--------------------------- MODULE RevenueProofs ---------------------------
(***************************************************************************)
(* Why revenue-service pays an earning out once: TLAPS proofs about        *)
(* Revenue for any earnings, goroutines, rules, batch limit and faults.    *)
(*                                                                         *)
(* MarkProcessing is the lock of a payout.  The invariant says what its    *)
(* holder has asked botpay for so far, and that the messages of an earning *)
(* that are under way or booked all stem from one split of its total.      *)
(***************************************************************************)
EXTENDS Revenue, TLAPS, FiniteSetTheorems

(* The holder of the lock is known from the earning.                       *)
PayersOK == \A g \in Goroutines : Paying(g) => earning[cur[g]].status = "processing"

(* A share is what some rule of the type gives the owner of the earning,   *)
(* and an owner is asked for who gets something.                           *)
Shares(total, type) == {OwnerShare(total, p) : p \in Percents[type] \ {NoRule}}

SharesOf(n) == Shares(earning[n].total, earning[n].type)

SharesOK ==
    \A g \in Goroutines :
        /\ pc[g] = "claim" \/ Paying(g) => share[g] \in SharesOf(cur[g])
        /\ pc[g] = "owner" => share[g] > 0

(* Messages are about earnings there are, botpay answers what it booked    *)
(* and books a reference once.                                             *)
Asked == requests \cup replies \cup credits

MessagesOK ==
    /\ \A m \in Asked : m.id \in DOMAIN earning /\ earning[m.id].status # "pending"
    /\ \A m \in replies : \E c \in credits : c.id = m.id /\ c.role = m.role
    /\ \A c, d \in credits : c.id = d.id /\ c.role = d.role => c = d

(* A payout with an owner's share goes on to the platform's share, and to  *)
(* its end, after the owner was paid.                                      *)
OwnerPaid(n) == \E c \in credits : c.id = n /\ c.role = "owner"

OwnersOK ==
    /\ \A g \in Goroutines :
          /\ pc[g] \in {"platform", "awaitPlatform", "done"}
          /\ share[g] > 0 /\ earning[cur[g]].hasOwner
          => OwnerPaid(cur[g])
    /\ \A n \in DOMAIN earning :
          earning[n].status = "done" /\ earning[n].hasOwner /\ earning[n].owner > 0 => OwnerPaid(n)

(* What was asked for earning n: a share s of the owner that a rule gives, *)
(* and the rest for one other wallet r.  The holder of the lock splits by  *)
(* its own share, and has not asked for the rest before its time.          *)
SplitBy(n, s, r) ==
    \A m \in requests \cup credits : m.id = n =>
        /\ s \in SharesOf(n)
        /\ \/ m.role = "owner" /\ s - m.amount \in {0, 1}
           \/ m.role = r /\ (earning[n].total - s) - m.amount \in {0, 1}

SplitsOK ==
    /\ \A n \in DOMAIN earning :
          \E s \in Int, r \in {"platform", "zero"} :
              /\ SplitBy(n, s, r)
              /\ \A g \in Goroutines : Paying(g) /\ cur[g] = n => s = share[g]
    /\ \A g \in Goroutines : pc[g] \in {"owner", "awaitOwner", "platform"} =>
          \A m \in requests \cup credits : m.id = cur[g] => m.role = "owner"

PayoutInv ==
    /\ TypeOK /\ PayersOK /\ OnePayer /\ StrandedByFault
    /\ SharesOK /\ MessagesOK /\ OwnersOK /\ SplitsOK

-----------------------------------------------------------------------------
(* The earnings table.                                                     *)

LEMMA EarningFields ==
    ASSUME TypeOK, NEW n \in DOMAIN earning
    PROVE  /\ earning[n] \in Earnings /\ n \in Nat /\ n \in 1..Len(earning)
           /\ earning[n].ref \in {RefOf[e] : e \in Events}
           /\ earning[n].total \in Nat /\ earning[n].type \in Types
           /\ earning[n].hasOwner \in BOOLEAN
           /\ earning[n].status \in {"pending", "processing", "done", "failed"}
           /\ earning[n].owner \in Int /\ earning[n].platform \in Int
  <1>1. earning \in Seq(Earnings)
    BY DEF TypeOK
  <1>2. earning[n] \in Earnings /\ n \in Nat /\ n \in 1..Len(earning)
    BY <1>1
  <1>. QED  BY <1>2 DEF Earnings

(* CreateEarning adds one pending row.                                     *)
LEMMA NewFacts ==
    ASSUME TypeOK, NEW e \in Events, earning' = WithNew(e)
    PROVE  /\ earning' \in Seq(Earnings) /\ NewId \notin DOMAIN earning
           /\ DOMAIN earning' = DOMAIN earning \cup {NewId} /\ NewId \in Nat
           /\ \A n \in DOMAIN earning : earning'[n] = earning[n]
           /\ earning'[NewId].status = "pending" /\ earning'[NewId].ref = RefOf[e]
           /\ earning'[NewId].total = TotalOf[e] /\ TotalOf[e] \in Nat
  <1>. DEFINE r == [ref |-> RefOf[e], total |-> TotalOf[e], type |-> TypeOf[e],
                    hasOwner |-> e \in HasOwner, status |-> "pending", owner |-> 0, platform |-> 0]
  <1>1. earning \in Seq(Earnings)
    BY DEF TypeOK
  <1>2. r \in Earnings
    <2>1. TotalOf[e] \in Nat
      BY RevenueAssumption
    <2>2. TypeOf[e] \in Types
      BY DEF Types
    <2>3. (e \in HasOwner) \in BOOLEAN
      OBVIOUS
    <2>. QED  BY <2>1, <2>2, <2>3 DEF Earnings
  <1>3. r.status = "pending" /\ r.ref = RefOf[e] /\ r.total = TotalOf[e] /\ TotalOf[e] \in Nat
    BY RevenueAssumption
  <1>4. earning' = Append(earning, r)
    BY DEF WithNew
  <1>. HIDE DEF r
  <1>5. /\ earning' \in Seq(Earnings) /\ Len(earning') = Len(earning) + 1 /\ Len(earning) \in Nat
        /\ \A n \in 1..Len(earning) : earning'[n] = earning[n]
        /\ earning'[Len(earning) + 1] = r
    BY <1>1, <1>2, <1>4
  <1>6. DOMAIN earning = 1..Len(earning) /\ DOMAIN earning' = 1..Len(earning')
    BY <1>1, <1>5
  <1>. QED  BY <1>3, <1>5, <1>6 DEF NewId

(* MarkProcessing and MarkFailed change the status of one row.             *)
LEMMA StatusFacts ==
    ASSUME TypeOK, NEW n \in DOMAIN earning,
           NEW st \in {"pending", "processing", "done", "failed"}, earning' = WithStatus(n, st)
    PROVE  /\ earning' \in Seq(Earnings) /\ DOMAIN earning' = DOMAIN earning
           /\ \A k \in DOMAIN earning : k # n => earning'[k] = earning[k]
           /\ earning'[n].status = st
           /\ \A k \in DOMAIN earning : /\ earning'[k].total = earning[k].total
                                        /\ earning'[k].ref = earning[k].ref
                                        /\ earning'[k].hasOwner = earning[k].hasOwner
                                        /\ earning'[k].owner = earning[k].owner
                                        /\ earning'[k].type = earning[k].type
  <1>1. earning \in Seq(Earnings) /\ earning[n] \in Earnings
    BY EarningFields DEF TypeOK
  <1>2. PICK r \in Earnings : r = [earning[n] EXCEPT !.status = st]
    BY <1>1 DEF Earnings
  <1>3. /\ r.status = st /\ r.total = earning[n].total /\ r.ref = earning[n].ref
        /\ r.hasOwner = earning[n].hasOwner /\ r.owner = earning[n].owner
        /\ r.type = earning[n].type
    BY <1>1, <1>2 DEF Earnings
  <1>4. earning' = [earning EXCEPT ![n] = r]
    BY <1>2 DEF WithStatus
  <1>5. /\ earning' \in Seq(Earnings) /\ DOMAIN earning' = DOMAIN earning /\ earning'[n] = r
        /\ \A k \in DOMAIN earning : k # n => earning'[k] = earning[k]
    BY <1>1, <1>4
  <1>. QED  BY <1>3, <1>5

(* MarkDone writes the result into one row.                                *)
LEMMA ResultFacts ==
    ASSUME TypeOK, NEW n \in DOMAIN earning, NEW s \in Int,
           earning' = WithResult(n, s)
    PROVE  /\ earning' \in Seq(Earnings) /\ DOMAIN earning' = DOMAIN earning
           /\ \A k \in DOMAIN earning : k # n => earning'[k] = earning[k]
           /\ earning'[n].status = "done" /\ earning'[n].owner = s
           /\ \A k \in DOMAIN earning : /\ earning'[k].total = earning[k].total
                                        /\ earning'[k].ref = earning[k].ref
                                        /\ earning'[k].hasOwner = earning[k].hasOwner
                                        /\ earning'[k].type = earning[k].type
  <1>1. /\ earning \in Seq(Earnings) /\ earning[n] \in Earnings
        /\ earning[n].total \in Nat
    BY EarningFields DEF TypeOK
  <1>2. earning[n].total - s \in Int
    BY <1>1
  <1>3. PICK r \in Earnings : r = [earning[n] EXCEPT !.status = "done", !.owner = s,
                                                     !.platform = earning[n].total - s]
    BY <1>1, <1>2 DEF Earnings
  <1>4. /\ r.status = "done" /\ r.total = earning[n].total /\ r.ref = earning[n].ref
        /\ r.hasOwner = earning[n].hasOwner /\ r.owner = s /\ r.type = earning[n].type
    BY <1>1, <1>3 DEF Earnings
  <1>5. earning' = [earning EXCEPT ![n] = r]
    BY <1>3 DEF WithResult
  <1>6. /\ earning' \in Seq(Earnings) /\ DOMAIN earning' = DOMAIN earning /\ earning'[n] = r
        /\ \A k \in DOMAIN earning : k # n => earning'[k] = earning[k]
    BY <1>1, <1>5
  <1>. QED  BY <1>4, <1>6

(* The owner's share is an amount, and between nothing and the total when  *)
(* the percentage is one.                                                  *)
LEMMA ShareIsInt ==
    ASSUME NEW total \in Nat, NEW p \in Int
    PROVE  OwnerShare(total, p) \in Int
  <1>1. total * p \in Int /\ total * (-p) \in Int
    OBVIOUS
  <1>2. (total * p) \div 100 \in Int /\ (total * (-p)) \div 100 \in Int
    BY <1>1
  <1>. QED  BY <1>2 DEF OwnerShare

LEMMA ShareBounds ==
    ASSUME NEW total \in Nat, NEW p \in 0..100
    PROVE  OwnerShare(total, p) \in 0..total
  <1>1. total * p \in Nat /\ total * p <= total * 100
    OBVIOUS
  <1>2. (total * p) \div 100 \in 0..total
    BY <1>1
  <1>. QED  BY <1>2 DEF OwnerShare

LEMMA SharesAreInts ==
    ASSUME TypeOK, NEW n \in DOMAIN earning
    PROVE  SharesOf(n) \subseteq Int
  <1>1. earning[n].total \in Nat /\ earning[n].type \in Types
    BY EarningFields
  <1>2. Percents[earning[n].type] \subseteq Int \cup {NoRule}
    BY <1>1, RevenueAssumption
  <1>. QED  BY <1>1, <1>2, ShareIsInt DEF SharesOf, Shares

(* The share that ReadRule computes.                                       *)
LEMMA RuleShare ==
    ASSUME TypeOK, NEW n \in DOMAIN earning, RuleOf(n) # NoRule
    PROVE  OwnerShare(earning[n].total, RuleOf(n)) \in SharesOf(n)
  <1>1. rule \in Rules /\ earning[n].type \in Types
    BY EarningFields DEF TypeOK
  <1>2. rule[earning[n].type] \in Percents[earning[n].type]
    BY <1>1 DEF Rules
  <1>. QED  BY <1>2 DEF RuleOf, SharesOf, Shares

-----------------------------------------------------------------------------
(* The steps, by what they do to the earnings, the goroutines and the      *)
(* messages.                                                               *)

Others(g) ==
    \A h \in Goroutines : h # g => pc'[h] = pc[h] /\ cur'[h] = cur[h] /\ share'[h] = share[h]

PayingLabels == {"owner", "awaitOwner", "platform", "awaitPlatform", "done", "fail"}

(* g works on something it has not claimed.                                *)
Before(g) ==
    /\ pc[g] \notin PayingLabels /\ pc'[g] \notin PayingLabels /\ Others(g)
    /\ pc'[g] = "claim" => cur'[g] \in DOMAIN earning /\ share'[g] \in SharesOf(cur'[g])
    /\ UNCHANGED <<earning, netVars>>

Creates(g) ==
    /\ pc[g] = "create" /\ pc'[g] \in {"rule", "idle"} /\ Others(g)
    /\ event[g] \in Events /\ earning' = WithNew(event[g])
    /\ UNCHANGED netVars

(* g takes the lock, or takes it and fails.                                *)
Locks(g) ==
    /\ pc[g] = "claim" /\ earning[cur[g]].status = "pending"
    /\ earning' = WithStatus(cur[g], "processing")
    /\ \/ pc'[g] = "owner" /\ share[g] > 0
       \/ pc'[g] = "platform" /\ ~(share[g] > 0 /\ earning[cur[g]].hasOwner)
       \/ pc'[g] = "idle" /\ faults' > 0
    /\ Others(g) /\ UNCHANGED <<cur, share, netVars>>

(* The holder of the lock asks for a share.                                *)
Asks(g) ==
    /\ \/ /\ pc[g] = "owner" /\ pc'[g] = "awaitOwner" /\ Ask(g, "owner", share[g])
       \/ /\ pc[g] = "platform" /\ pc'[g] = "awaitPlatform"
          /\ Rest(g) > 0 /\ \E role \in {"platform", "zero"} : Ask(g, role, Rest(g))
    /\ Others(g) /\ UNCHANGED <<earning, cur, share>>

(* The holder of the lock goes on, or fails and leaves it behind.          *)
Goes(g) ==
    /\ \/ pc[g] = "awaitOwner" /\ Answered(g, {"owner"}) /\ pc'[g] = "platform"
       \/ pc[g] = "awaitOwner" /\ pc'[g] = "fail"
       \/ pc[g] \in {"platform", "awaitPlatform"} /\ pc'[g] = "done"
       \/ pc[g] \in {"fail", "done"} /\ pc'[g] = "idle" /\ faults' > 0
    /\ Others(g) /\ UNCHANGED <<earning, cur, share, netVars>>

(* The holder of the lock ends the payout.                                 *)
Ends(g) ==
    /\ \/ pc[g] = "fail" /\ earning' = WithStatus(cur[g], "failed")
       \/ pc[g] = "done" /\ earning' = WithResult(cur[g], share[g])
    /\ pc'[g] = "idle" /\ Others(g) /\ UNCHANGED <<cur, share, netVars>>

StepKind ==
    /\ faults \in Nat /\ faults' \in Nat /\ faults' >= faults
    /\ \/ \E g \in Goroutines : Before(g) \/ Creates(g) \/ Locks(g) \/ Asks(g) \/ Goes(g) \/ Ends(g)
       \/ \E m \in requests : Serve(m) \/ Lose(m)
       \/ UNCHANGED <<earning, pc, cur, share, netVars>>
       \/ Crash

LEMMA GotoFacts ==
    ASSUME TypeOK, NEW g \in Goroutines, NEW l, Goto(g, l), cur' = cur, share' = share
    PROVE  pc'[g] = l /\ Others(g)
  BY DEF TypeOK, Goto, Others

LEMMA ProcessKinds ==
    ASSUME TypeOK, NEW g \in Goroutines, Process(g)
    PROVE  StepKind
  <1>. DEFINE K == Before(g) \/ Creates(g) \/ Locks(g) \/ Asks(g) \/ Goes(g) \/ Ends(g)
  <1>0. /\ pc \in [Goroutines -> Labels] /\ cur \in [Goroutines -> Nat]
        /\ share \in [Goroutines -> Int] /\ event[g] \in Events /\ faults \in Nat
        /\ pc[g] \notin {"idle", "lookup", "create"} => cur[g] \in DOMAIN earning
    BY DEF TypeOK
  <1>1. ASSUME Lookup(g)  PROVE K
    <2>1. PICK l \in {"idle", "create"} : Goto(g, l)
      BY <1>1 DEF Lookup
    <2>2. pc[g] = "lookup" /\ UNCHANGED <<earning, cur, share, netVars>>
      BY <1>1 DEF Lookup, tableVars
    <2>3. pc'[g] = l /\ Others(g)
      BY <2>1, <2>2, GotoFacts
    <2>. QED  BY <2>1, <2>2, <2>3 DEF Before, PayingLabels
  <1>2. ASSUME Create(g)  PROVE K
    <2>1. /\ pc[g] = "create" /\ earning' = WithNew(event[g]) /\ UNCHANGED <<share, netVars>>
          /\ pc' = [pc EXCEPT ![g] = "rule"] /\ cur' = [cur EXCEPT ![g] = NewId]
      BY <1>2 DEF Create, Goto
    <2>2. pc'[g] = "rule" /\ Others(g)
      BY <1>0, <2>1 DEF Others
    <2>. QED  BY <1>0, <2>1, <2>2 DEF Creates, PayingLabels
  <1>3. ASSUME ReadRule(g)  PROVE K
    <2>1. pc[g] = "rule" /\ UNCHANGED <<earning, cur, netVars>> /\ cur[g] \in DOMAIN earning
      BY <1>0, <1>3 DEF ReadRule, tableVars
    <2>2. CASE RuleOf(cur[g]) = NoRule
      <3>1. Goto(g, "idle") /\ share' = share
        BY <1>3, <2>2 DEF ReadRule
      <3>2. pc'[g] = "idle" /\ Others(g)
        BY <2>1, <3>1, GotoFacts
      <3>. QED  BY <2>1, <3>2 DEF Before, PayingLabels
    <2>3. CASE RuleOf(cur[g]) # NoRule
      <3>1. PICK s \in SharesOf(cur[g]) :
               s = OwnerShare(earning[cur[g]].total, RuleOf(cur[g]))
        BY <2>1, <2>3, RuleShare
      <3>2. share' = [share EXCEPT ![g] = s] /\ pc' = [pc EXCEPT ![g] = "claim"]
        BY <1>3, <2>3, <3>1 DEF ReadRule, Goto
      <3>3. pc'[g] = "claim" /\ share'[g] \in SharesOf(cur[g]) /\ Others(g)
        BY <1>0, <2>1, <3>1, <3>2 DEF Others
      <3>. QED  BY <2>1, <3>3 DEF Before, PayingLabels
    <2>. QED  BY <2>2, <2>3
  <1>4. ASSUME Claim(g)  PROVE K
    <2>1. pc[g] = "claim" /\ UNCHANGED <<cur, share, netVars>> /\ cur[g] \in DOMAIN earning
      BY <1>0, <1>4 DEF Claim
    <2>2. CASE Claimable(cur[g])
      <3>1. PICK l \in {"owner", "platform"} : /\ Goto(g, l)
               /\ l = IF share[g] > 0 /\ earning[cur[g]].hasOwner THEN "owner" ELSE "platform"
        BY <1>4, <2>2 DEF Claim
      <3>2. pc'[g] = l /\ Others(g)
        BY <2>1, <3>1, GotoFacts
      <3>3. earning' = WithStatus(cur[g], "processing") /\ earning[cur[g]].status = "pending"
        BY <1>4, <2>2 DEF Claim, Claimable
      <3>. QED  BY <2>1, <3>1, <3>2, <3>3 DEF Locks
    <2>3. CASE ~Claimable(cur[g])
      <3>1. Goto(g, "idle") /\ earning' = earning
        BY <1>4, <2>3 DEF Claim
      <3>2. pc'[g] = "idle" /\ Others(g)
        BY <2>1, <3>1, GotoFacts
      <3>. QED  BY <2>1, <3>1, <3>2 DEF Before, PayingLabels
    <2>. QED  BY <2>2, <2>3
  <1>5. ASSUME PayOwner(g)  PROVE K
    <2>1. /\ pc[g] = "owner" /\ UNCHANGED <<earning, cur, share>>
          /\ Ask(g, "owner", share[g]) /\ Goto(g, "awaitOwner")
      BY <1>5 DEF PayOwner, tableVars
    <2>2. pc'[g] = "awaitOwner" /\ Others(g)
      BY <2>1, GotoFacts
    <2>. QED  BY <2>1, <2>2 DEF Asks
  <1>6. ASSUME PayPlatform(g)  PROVE K
    <2>1. pc[g] = "platform" /\ UNCHANGED <<earning, cur, share>>
      BY <1>6 DEF PayPlatform, tableVars
    <2>2. CASE Rest(g) > 0 /\ platform
      <3>1. Ask(g, "platform", Rest(g)) /\ Goto(g, "awaitPlatform")
        BY <1>6, <2>2 DEF PayPlatform
      <3>2. pc'[g] = "awaitPlatform" /\ Others(g)
        BY <2>1, <3>1, GotoFacts
      <3>. QED  BY <2>1, <2>2, <3>1, <3>2 DEF Asks
    <2>3. CASE ~(Rest(g) > 0 /\ platform)
      <3>1. UNCHANGED netVars /\ Goto(g, "done")
        BY <1>6, <2>3 DEF PayPlatform
      <3>2. pc'[g] = "done" /\ Others(g)
        BY <2>1, <3>1, GotoFacts
      <3>. QED  BY <2>1, <3>1, <3>2 DEF Goes
    <2>. QED  BY <2>2, <2>3
  <1>7. ASSUME Receive(g) \/ GiveUp(g)  PROVE K
    <2>1. UNCHANGED <<earning, cur, share, netVars>>
      BY <1>7 DEF Receive, GiveUp, tableVars
    <2>2. \/ pc[g] = "awaitOwner" /\ Answered(g, {"owner"}) /\ Goto(g, "platform")
          \/ pc[g] = "awaitOwner" /\ Goto(g, "fail")
          \/ pc[g] \in {"platform", "awaitPlatform"} /\ Goto(g, "done")
      BY <1>7 DEF Receive, GiveUp
    <2>3. \A l : Goto(g, l) => pc'[g] = l /\ Others(g)
      BY <2>1, GotoFacts
    <2>. QED  BY <2>1, <2>2, <2>3 DEF Goes
  <1>8. ASSUME MarkFailed(g) \/ MarkDone(g)  PROVE K
    <2>1. UNCHANGED <<cur, share, netVars>> /\ Goto(g, "idle")
      BY <1>8 DEF MarkFailed, MarkDone
    <2>2. \/ pc[g] = "fail" /\ earning' = WithStatus(cur[g], "failed")
          \/ pc[g] = "done" /\ earning' = WithResult(cur[g], share[g])
      BY <1>8 DEF MarkFailed, MarkDone
    <2>3. pc'[g] = "idle" /\ Others(g)
      BY <2>1, GotoFacts
    <2>. QED  BY <2>1, <2>2, <2>3 DEF Ends
  <1>9. faults' = faults
    BY DEF Process, Lookup, Create, ReadRule, Claim, PayOwner, PayPlatform, Receive, GiveUp,
           MarkFailed, MarkDone, boundVars
  <1>. HIDE DEF K
  <1>10. K
    BY <1>1, <1>2, <1>3, <1>4, <1>5, <1>6, <1>7, <1>8 DEF Process
  <1>. QED  BY <1>0, <1>9, <1>10 DEF StepKind, K

LEMMA FaultKinds ==
    ASSUME TypeOK, NEW g \in Goroutines, CallFails(g) \/ WalletUnread(g)
    PROVE  StepKind
  <1>. DEFINE K == Before(g) \/ Creates(g) \/ Locks(g) \/ Asks(g) \/ Goes(g) \/ Ends(g)
  <1>0. faults \in Nat /\ event[g] \in Events /\ faults' = faults + 1 /\ faults' > 0
    BY DEF TypeOK, CallFails, WalletUnread
  <1>1. ASSUME CallFails(g)  PROVE K
    <2>1. UNCHANGED <<cur, share, netVars>> /\ Goto(g, "idle")
          /\ pc[g] \in {"lookup", "create", "rule", "claim", "fail", "done"}
      BY <1>1 DEF CallFails
    <2>2. pc'[g] = "idle" /\ Others(g)
      BY <2>1, GotoFacts
    <2>3. CASE earning' = earning
      <3>1. CASE pc[g] \in {"fail", "done"}
        BY <1>0, <2>1, <2>2, <2>3, <3>1 DEF Goes
      <3>2. CASE pc[g] \notin {"fail", "done"}
        BY <2>1, <2>2, <2>3, <3>2 DEF Before, PayingLabels
      <3>. QED  BY <3>1, <3>2
    <2>4. CASE pc[g] = "create" /\ earning' = WithNew(event[g])
      BY <1>0, <2>1, <2>2, <2>4 DEF Creates, PayingLabels
    <2>5. CASE pc[g] = "claim" /\ Claimable(cur[g]) /\ earning' = WithStatus(cur[g], "processing")
      BY <1>0, <2>1, <2>2, <2>5 DEF Locks, Claimable
    <2>6. CASE \/ pc[g] = "fail" /\ earning' = WithStatus(cur[g], "failed")
               \/ pc[g] = "done" /\ earning' = WithResult(cur[g], share[g])
      BY <2>1, <2>2, <2>6 DEF Ends
    <2>. QED  BY <1>1, <2>3, <2>4, <2>5, <2>6 DEF CallFails
  <1>2. ASSUME WalletUnread(g)  PROVE K
    <2>1. /\ pc[g] = "platform" /\ UNCHANGED <<earning, cur, share>>
          /\ Rest(g) > 0 /\ Ask(g, "zero", Rest(g)) /\ Goto(g, "awaitPlatform")
      BY <1>2 DEF WalletUnread, tableVars
    <2>2. pc'[g] = "awaitPlatform" /\ Others(g)
      BY <2>1, GotoFacts
    <2>. QED  BY <2>1, <2>2 DEF Asks
  <1>. HIDE DEF K
  <1>3. K
    BY <1>1, <1>2
  <1>. QED  BY <1>0, <1>3 DEF StepKind, K

LEMMA StepKinds ==
    ASSUME TypeOK, [Next]_vars
    PROVE  StepKind
  <1>0. /\ pc \in [Goroutines -> Labels] /\ cur \in [Goroutines -> Nat]
        /\ share \in [Goroutines -> Int] /\ faults \in Nat
        /\ batch \subseteq DOMAIN earning /\ Worker \in Goroutines
    BY DEF TypeOK, Goroutines
  <1>1. ASSUME NEW g \in Listeners, NEW e \in Events, Deliver(g, e)  PROVE StepKind
    <2>1. g \in Goroutines /\ pc[g] = "idle" /\ UNCHANGED <<earning, cur, share, netVars, faults>>
      BY <1>1 DEF Deliver, tableVars, Goroutines
    <2>2. PICK l \in {"create", "lookup"} : Goto(g, l)
      BY <1>1 DEF Deliver
    <2>3. pc'[g] = l /\ Others(g)
      BY <2>1, <2>2, GotoFacts
    <2>4. Before(g)
      BY <2>1, <2>2, <2>3 DEF Before, PayingLabels
    <2>. QED  BY <1>0, <2>1, <2>4 DEF StepKind
  <1>2. ASSUME ListBatch \/ Administer \/ UNCHANGED vars  PROVE StepKind
    <2>1. UNCHANGED <<earning, pc, cur, share, netVars, faults>>
      BY <1>2 DEF ListBatch, Administer, vars, tableVars, localVars, boundVars
    <2>. QED  BY <1>0, <2>1 DEF StepKind
  <1>3. ASSUME TakeEarning  PROVE StepKind
    <2>1. PICK n \in batch : cur' = [cur EXCEPT ![Worker] = n]
      BY <1>3 DEF TakeEarning
    <2>2. /\ pc[Worker] = "idle" /\ pc' = [pc EXCEPT ![Worker] = "rule"]
          /\ UNCHANGED <<earning, share, netVars, faults>>
      BY <1>3 DEF TakeEarning, Goto, tableVars, boundVars
    <2>3. pc'[Worker] = "rule" /\ Others(Worker)
      BY <1>0, <2>1, <2>2 DEF Others
    <2>4. Before(Worker)
      BY <2>2, <2>3 DEF Before, PayingLabels
    <2>. QED  BY <1>0, <2>2, <2>4 DEF StepKind
  <1>4. ASSUME NEW m \in requests, Serve(m) \/ Lose(m)  PROVE StepKind
    <2>1. faults' = faults
      BY <1>4 DEF Serve, Lose, boundVars
    <2>. QED  BY <1>0, <1>4, <2>1 DEF StepKind
  <1>5. ASSUME Crash  PROVE StepKind
    <2>1. faults' = faults + 1
      BY <1>5 DEF Crash
    <2>. QED  BY <1>0, <1>5, <2>1 DEF StepKind
  <1>. QED  BY <1>1, <1>2, <1>3, <1>4, <1>5, ProcessKinds, FaultKinds DEF Next

-----------------------------------------------------------------------------
(* Types.                                                                  *)

(* No step takes an earning away or changes what it is about.              *)
LEMMA TableGrows ==
    ASSUME TypeOK, SharesOK, StepKind
    PROVE  /\ earning' \in Seq(Earnings) /\ DOMAIN earning \subseteq DOMAIN earning'
           /\ \A n \in DOMAIN earning : /\ earning'[n].total = earning[n].total
                                        /\ earning'[n].ref = earning[n].ref
                                        /\ earning'[n].hasOwner = earning[n].hasOwner
                                        /\ earning'[n].type = earning[n].type
           /\ \A n \in DOMAIN earning' \ DOMAIN earning :
                 earning'[n].status = "pending" /\ earning'[n].total \in Nat
  <1>1. CASE earning' = earning
    BY <1>1 DEF TypeOK
  <1>2. ASSUME NEW g \in Goroutines, Creates(g)
        PROVE  /\ earning' \in Seq(Earnings) /\ DOMAIN earning \subseteq DOMAIN earning'
               /\ \A n \in DOMAIN earning : earning'[n] = earning[n]
               /\ \A n \in DOMAIN earning' \ DOMAIN earning :
                     earning'[n].status = "pending" /\ earning'[n].total \in Nat
    <2>1. event[g] \in Events /\ earning' = WithNew(event[g])
      BY <1>2 DEF Creates
    <2>. QED  BY <2>1, NewFacts
  <1>3. ASSUME NEW g \in Goroutines, Locks(g) \/ Ends(g)
        PROVE  /\ earning' \in Seq(Earnings) /\ DOMAIN earning' = DOMAIN earning
               /\ \A n \in DOMAIN earning : /\ earning'[n].total = earning[n].total
                                            /\ earning'[n].ref = earning[n].ref
                                            /\ earning'[n].hasOwner = earning[n].hasOwner
                                            /\ earning'[n].type = earning[n].type
    <2>1. /\ pc[g] \in {"claim", "fail", "done"}
          /\ \/ earning' = WithStatus(cur[g], "processing")
             \/ earning' = WithStatus(cur[g], "failed")
             \/ pc[g] = "done" /\ earning' = WithResult(cur[g], share[g])
      BY <1>3 DEF Locks, Ends
    <2>2. cur[g] \in DOMAIN earning
      BY <2>1 DEF TypeOK
    <2>3. share[g] \in Int
      BY DEF TypeOK
    <2>4. CASE earning' = WithStatus(cur[g], "processing")
      BY <2>2, <2>4, StatusFacts
    <2>5. CASE earning' = WithStatus(cur[g], "failed")
      BY <2>2, <2>5, StatusFacts
    <2>6. CASE pc[g] = "done" /\ earning' = WithResult(cur[g], share[g])
      BY <2>2, <2>3, <2>6, ResultFacts
    <2>. QED  BY <2>1, <2>4, <2>5, <2>6
  <1>4. \/ earning' = earning
        \/ \E g \in Goroutines : Creates(g) \/ Locks(g) \/ Ends(g)
    BY DEF StepKind, Before, Asks, Goes, Serve, Lose, Crash, tableVars
  <1>. QED  BY <1>1, <1>2, <1>3, <1>4

(* What the goroutines are at has its type.                                *)
LocalType(p, e, c, s) ==
    /\ p \in [Goroutines -> Labels] /\ e \in [Goroutines -> Events]
    /\ c \in [Goroutines -> Nat] /\ s \in [Goroutines -> Int]

LEMMA LocalStep ==
    ASSUME TypeOK, [Next]_vars
    PROVE  LocalType(pc', event', cur', share')
  <1>0. LocalType(pc, event, cur, share) /\ Worker \in Goroutines /\ Listeners \subseteq Goroutines
    BY DEF LocalType, TypeOK, Goroutines
  <1>1. ASSUME NEW g \in Goroutines, NEW l \in Labels, Goto(g, l)
        PROVE  pc' \in [Goroutines -> Labels]
    BY <1>0, <1>1 DEF Goto, LocalType
  <1>2. ASSUME NEW g \in Listeners, NEW e \in Events, Deliver(g, e)
        PROVE  LocalType(pc', event', cur', share')
    <2>1. PICK l \in {"create", "lookup"} : Goto(g, l)
      BY <1>2 DEF Deliver
    <2>2. pc' \in [Goroutines -> Labels]
      BY <1>0, <1>1, <2>1 DEF Labels
    <2>3. event' = [event EXCEPT ![g] = e] /\ UNCHANGED <<cur, share>>
      BY <1>2 DEF Deliver
    <2>. QED  BY <1>0, <2>2, <2>3 DEF LocalType
  <1>3. ASSUME ListBatch \/ Administer \/ UNCHANGED vars \/ \E m \in requests : Serve(m) \/ Lose(m)
        PROVE  LocalType(pc', event', cur', share')
    <2>1. UNCHANGED <<pc, event, cur, share>>
      BY <1>3 DEF ListBatch, Administer, vars, localVars, Serve, Lose
    <2>. QED  BY <1>0, <2>1
  <1>4. ASSUME TakeEarning  PROVE LocalType(pc', event', cur', share')
    <2>1. PICK n \in batch : cur' = [cur EXCEPT ![Worker] = n]
      BY <1>4 DEF TakeEarning
    <2>2. n \in Nat
      BY <2>1, EarningFields DEF TypeOK
    <2>3. pc' \in [Goroutines -> Labels] /\ UNCHANGED <<event, share>>
      BY <1>0, <1>1, <1>4 DEF TakeEarning, Labels
    <2>. QED  BY <1>0, <2>1, <2>2, <2>3 DEF LocalType
  <1>5. ASSUME Crash  PROVE LocalType(pc', event', cur', share')
    <2>1. pc' = [g \in Goroutines |-> "idle"] /\ UNCHANGED <<event, cur, share>>
      BY <1>5 DEF Crash
    <2>. QED  BY <1>0, <2>1 DEF LocalType, Labels
  <1>6. ASSUME NEW g \in Goroutines, Create(g)  PROVE LocalType(pc', event', cur', share')
    <2>1. /\ cur' = [cur EXCEPT ![g] = NewId] /\ UNCHANGED <<event, share>>
          /\ Goto(g, "rule")
      BY <1>6 DEF Create
    <2>2. NewId \in Nat
      BY DEF TypeOK, NewId
    <2>3. pc' \in [Goroutines -> Labels]
      BY <1>1, <2>1 DEF Labels
    <2>. QED  BY <1>0, <2>1, <2>2, <2>3 DEF LocalType
  <1>7. ASSUME NEW g \in Goroutines, ReadRule(g)  PROVE LocalType(pc', event', cur', share')
    <2>1. UNCHANGED <<event, cur>> /\ pc[g] = "rule" /\ cur[g] \in DOMAIN earning
      BY <1>7 DEF ReadRule, TypeOK
    <2>2. \/ Goto(g, "idle") /\ share' = share
          \/ /\ Goto(g, "claim") /\ RuleOf(cur[g]) # NoRule
             /\ share' = [share EXCEPT ![g] = OwnerShare(earning[cur[g]].total, RuleOf(cur[g]))]
      BY <1>7 DEF ReadRule
    <2>3. RuleOf(cur[g]) # NoRule => OwnerShare(earning[cur[g]].total, RuleOf(cur[g])) \in Int
      BY <2>1, RuleShare, SharesAreInts
    <2>4. share' \in [Goroutines -> Int]
      BY <1>0, <2>2, <2>3 DEF LocalType
    <2>5. pc' \in [Goroutines -> Labels]
      BY <1>1, <2>2 DEF Labels
    <2>. QED  BY <1>0, <2>1, <2>4, <2>5 DEF LocalType
  <1>8. ASSUME NEW g \in Goroutines,
               \/ Lookup(g) \/ Claim(g) \/ PayOwner(g) \/ PayPlatform(g) \/ Receive(g) \/ GiveUp(g)
               \/ MarkFailed(g) \/ MarkDone(g) \/ CallFails(g) \/ WalletUnread(g)
        PROVE  LocalType(pc', event', cur', share')
    <2>1. UNCHANGED <<event, cur, share>>
      BY <1>8 DEF Lookup, Claim, PayOwner, PayPlatform, Receive, GiveUp, MarkFailed, MarkDone,
                  CallFails, WalletUnread
    <2>2. \E l \in Labels : Goto(g, l)
      <3>1. CASE Lookup(g)
        BY <3>1 DEF Lookup, Labels
      <3>2. CASE Claim(g)
        BY <3>2 DEF Claim, Labels
      <3>3. CASE PayOwner(g) \/ PayPlatform(g) \/ WalletUnread(g)
        BY <3>3 DEF PayOwner, PayPlatform, WalletUnread, Labels
      <3>4. CASE Receive(g) \/ GiveUp(g)
        BY <3>4 DEF Receive, GiveUp, Labels
      <3>5. CASE MarkFailed(g) \/ MarkDone(g) \/ CallFails(g)
        BY <3>5 DEF MarkFailed, MarkDone, CallFails, Labels
      <3>. QED  BY <1>8, <3>1, <3>2, <3>3, <3>4, <3>5
    <2>3. pc' \in [Goroutines -> Labels]
      BY <1>1, <2>2
    <2>. QED  BY <1>0, <2>1, <2>3 DEF LocalType
  <1>. QED  BY <1>2, <1>3, <1>4, <1>5, <1>6, <1>7, <1>8 DEF Next, Process

(* A goroutine past "create" works on an earning there is.                 *)
LEMMA CurStep ==
    ASSUME TypeOK, SharesOK, [Next]_vars
    PROVE  \A h \in Goroutines : pc'[h] \notin {"idle", "lookup", "create"} =>
              cur'[h] \in DOMAIN earning'
  <1>0. StepKind /\ DOMAIN earning \subseteq DOMAIN earning'
    BY StepKinds, TableGrows
  <1>1. \A h \in Goroutines : pc[h] \notin {"idle", "lookup", "create"} => cur[h] \in DOMAIN earning'
    BY <1>0 DEF TypeOK
  <1>2. ASSUME NEW g \in Goroutines, Others(g),
               pc'[g] \notin {"idle", "lookup", "create"} => cur'[g] \in DOMAIN earning'
        PROVE  \A h \in Goroutines : pc'[h] \notin {"idle", "lookup", "create"} =>
                  cur'[h] \in DOMAIN earning'
    BY <1>1, <1>2 DEF Others
  <1>3. ASSUME NEW g \in Goroutines, Create(g)
        PROVE  Others(g) /\ cur'[g] \in DOMAIN earning'
    <2>1. /\ pc' = [pc EXCEPT ![g] = "rule"] /\ cur' = [cur EXCEPT ![g] = NewId]
          /\ share' = share /\ earning' = WithNew(event[g])
      BY <1>3 DEF Create, Goto
    <2>2. event[g] \in Events
      BY DEF TypeOK
    <2>3. NewId \in DOMAIN earning'
      BY <2>1, <2>2, NewFacts
    <2>. QED  BY <2>1, <2>3 DEF Others, TypeOK
  <1>4. ASSUME TakeEarning
        PROVE  Worker \in Goroutines /\ Others(Worker) /\ cur'[Worker] \in DOMAIN earning'
    <2>1. PICK n \in batch : cur' = [cur EXCEPT ![Worker] = n]
      BY <1>4 DEF TakeEarning
    <2>2. /\ pc' = [pc EXCEPT ![Worker] = "rule"] /\ share' = share /\ Worker \in Goroutines
      BY <1>4 DEF TakeEarning, Goto, Goroutines
    <2>3. n \in DOMAIN earning'
      BY <1>0, <2>1 DEF TypeOK
    <2>. QED  BY <2>1, <2>2, <2>3 DEF Others, TypeOK
  <1>5. ASSUME NEW g \in Goroutines,
               \/ Lookup(g) \/ ReadRule(g) \/ Claim(g) \/ PayOwner(g) \/ PayPlatform(g)
               \/ Receive(g) \/ GiveUp(g) \/ MarkFailed(g) \/ MarkDone(g) \/ CallFails(g)
               \/ WalletUnread(g) \/ (g \in Listeners /\ \E e \in Events : Deliver(g, e))
        PROVE  \A h \in Goroutines : pc'[h] \notin {"idle", "lookup", "create"} =>
                  cur'[h] \in DOMAIN earning'
    <2>1. cur' = cur
      BY <1>5 DEF Lookup, ReadRule, Claim, PayOwner, PayPlatform, Receive, GiveUp, MarkFailed,
                  MarkDone, CallFails, WalletUnread, Deliver
    <2>2. \/ \E l \in {"idle", "lookup", "create"} : Goto(g, l)
          \/ pc[g] \notin {"idle", "lookup", "create"} /\ \E l : Goto(g, l)
      <3>1. CASE Lookup(g) \/ \E e \in Events : Deliver(g, e)
        BY <3>1 DEF Lookup, Deliver
      <3>2. CASE ReadRule(g) \/ Claim(g)
        BY <3>2 DEF ReadRule, Claim
      <3>3. CASE PayOwner(g) \/ PayPlatform(g) \/ WalletUnread(g)
        BY <3>3 DEF PayOwner, PayPlatform, WalletUnread
      <3>4. CASE Receive(g) \/ GiveUp(g)
        BY <3>4 DEF Receive, GiveUp
      <3>5. CASE MarkFailed(g) \/ MarkDone(g) \/ CallFails(g)
        BY <3>5 DEF MarkFailed, MarkDone, CallFails
      <3>. QED  BY <1>5, <3>1, <3>2, <3>3, <3>4, <3>5
    <2>3. pc \in [Goroutines -> Labels]
      BY DEF TypeOK
    <2>4. /\ \A h \in Goroutines : h # g => pc'[h] = pc[h]
          /\ pc'[g] \in {"idle", "lookup", "create"} \/ pc[g] \notin {"idle", "lookup", "create"}
      BY <2>2, <2>3 DEF Goto
    <2>. QED  BY <1>1, <2>1, <2>4
  <1>6. ASSUME ListBatch \/ Administer \/ UNCHANGED vars \/ \E m \in requests : Serve(m) \/ Lose(m)
        PROVE  UNCHANGED <<pc, cur>>
    BY <1>6 DEF ListBatch, Administer, vars, localVars, Serve, Lose
  <1>7. ASSUME Crash  PROVE \A h \in Goroutines : pc'[h] = "idle"
    BY <1>7 DEF Crash
  <1>8. Listeners \subseteq Goroutines
    BY DEF Goroutines
  <1>. QED  BY <1>1, <1>2, <1>3, <1>4, <1>5, <1>6, <1>7, <1>8 DEF Next, Process

(* A credit asked for is the share it is about, but for one nano.          *)
LEMMA CreditBounds ==
    ASSUME NEW n \in Nat \ {0}, NEW role \in {"owner", "platform", "zero"}, NEW a \in Nat
    PROVE  /\ Credit(n, role, a) \in Credits /\ Credit(n, role, a).id = n
           /\ Credit(n, role, a).role = role /\ a - Credit(n, role, a).amount \in {0, 1}
  <1>1. PICK b \in Nat : a - b \in {0, 1} /\ b = IF a \in Lossy THEN a - 1 ELSE a
    BY RevenueAssumption
  <1>2. Credit(n, role, a) = [id |-> n, role |-> role, amount |-> b]
    BY <1>1 DEF Credit
  <1>. QED  BY <1>1, <1>2 DEF Credits

(* What the holder of the lock asks for.                                   *)
LEMMA AsksFacts ==
    ASSUME TypeOK, SharesOK, NEW g \in Goroutines, Asks(g)
    PROVE  /\ cur[g] \in DOMAIN earning /\ share[g] \in SharesOf(cur[g])
           /\ UNCHANGED <<earning, cur, share, replies, credits>> /\ Others(g)
           /\ pc[g] \in {"owner", "platform"}
           /\ \E m \in Credits, role \in {"platform", "zero"} :
                 /\ requests' = requests \cup {m} /\ m.id = cur[g]
                 /\ \/ /\ pc[g] = "owner" /\ pc'[g] = "awaitOwner"
                       /\ m.role = "owner" /\ share[g] - m.amount \in {0, 1}
                    \/ /\ pc[g] = "platform" /\ pc'[g] = "awaitPlatform"
                       /\ m.role = role /\ (earning[cur[g]].total - share[g]) - m.amount \in {0, 1}
  <1>1. /\ pc[g] \in {"owner", "platform"} /\ Others(g) /\ UNCHANGED <<earning, cur, share>>
        /\ UNCHANGED <<replies, credits>>
    BY DEF Asks, Ask
  <1>2. cur[g] \in DOMAIN earning /\ share[g] \in SharesOf(cur[g]) /\ share[g] \in Int
    BY <1>1 DEF TypeOK, SharesOK, Paying
  <1>3. cur[g] \in Nat \ {0} /\ earning[cur[g]].total \in Nat
    BY <1>2, EarningFields
  <1>4. CASE pc[g] = "owner"
    <2>1. /\ requests' = requests \cup {Credit(cur[g], "owner", share[g])}
          /\ pc'[g] = "awaitOwner"
      BY <1>4 DEF Asks, Ask
    <2>0. share[g] \in Nat
      BY <1>2, <1>4 DEF SharesOK
    <2>2. PICK m \in Credits : /\ m = Credit(cur[g], "owner", share[g]) /\ m.id = cur[g]
                               /\ m.role = "owner" /\ share[g] - m.amount \in {0, 1}
      BY <1>3, <2>0, CreditBounds
    <2>3. share[g] - m.amount \in {0, 1}
      BY <2>0, <2>2
    <2>. QED  BY <1>1, <1>2, <1>4, <2>1, <2>2, <2>3
  <1>5. CASE pc[g] = "platform"
    <2>0. Rest(g) > 0 /\ \E role \in {"platform", "zero"} : Ask(g, role, Rest(g))
      BY <1>5 DEF Asks
    <2>1. PICK role \in {"platform", "zero"} :
             requests' = requests \cup {Credit(cur[g], role, Rest(g))}
      BY <2>0 DEF Ask
    <2>2. Rest(g) \in Nat /\ Rest(g) = earning[cur[g]].total - share[g]
      BY <1>2, <1>3, <2>0 DEF Rest
    <2>3. PICK m \in Credits : /\ m = Credit(cur[g], role, Rest(g)) /\ m.id = cur[g]
                               /\ m.role = role /\ Rest(g) - m.amount \in {0, 1}
      BY <1>3, <2>2, CreditBounds
    <2>4. (earning[cur[g]].total - share[g]) - m.amount \in {0, 1} /\ pc'[g] = "awaitPlatform"
      BY <1>5, <2>2, <2>3 DEF Asks
    <2>. QED  BY <1>1, <1>2, <1>5, <2>1, <2>3, <2>4
  <1>. QED  BY <1>1, <1>4, <1>5

(* Messages only come from the holder of a lock.                           *)
LEMMA NetKinds ==
    ASSUME TypeOK, SharesOK, StepKind
    PROVE  \/ \E g \in Goroutines : Asks(g)
           \/ UNCHANGED netVars
           \/ \E m \in requests : Serve(m) \/ Lose(m)
           \/ replies' = {} /\ UNCHANGED <<requests, credits>>
  BY DEF StepKind, Before, Creates, Locks, Goes, Ends, Crash

LEMMA MessageTypes ==
    ASSUME TypeOK, SharesOK, StepKind
    PROVE  requests' \subseteq Credits /\ replies' \subseteq Credits /\ credits' \subseteq Credits
  <1>0. requests \subseteq Credits /\ replies \subseteq Credits /\ credits \subseteq Credits
    BY DEF TypeOK
  <1>1. ASSUME NEW g \in Goroutines, Asks(g)
        PROVE  requests' \subseteq Credits /\ UNCHANGED <<replies, credits>>
    BY <1>0, <1>1, AsksFacts
  <1>2. ASSUME NEW m \in requests, Serve(m) \/ Lose(m)
        PROVE  requests' \subseteq Credits /\ replies' \subseteq Credits /\ credits' \subseteq Credits
    <2>1. requests' \subseteq requests /\ replies' \subseteq replies \cup {m}
          /\ credits' \subseteq credits \cup {m}
      BY <1>2 DEF Serve, Lose
    <2>. QED  BY <1>0, <1>2, <2>1
  <1>3. CASE UNCHANGED netVars
    BY <1>0, <1>3 DEF netVars
  <1>4. CASE replies' = {} /\ UNCHANGED <<requests, credits>>
    BY <1>0, <1>4
  <1>. QED  BY <1>0, <1>1, <1>2, <1>3, <1>4, NetKinds

LEMMA TypeStep ==
    ASSUME TypeOK, SharesOK, [Next]_vars
    PROVE  TypeOK'
  <1>0. StepKind
    BY StepKinds
  <1>1. earning' \in Seq(Earnings) /\ DOMAIN earning \subseteq DOMAIN earning'
    BY <1>0, TableGrows
  <1>2. LocalType(pc', event', cur', share')
    BY LocalStep
  <1>3. rule' \in Rules /\ platform' \in BOOLEAN
    <2>0. rule \in Rules /\ platform \in BOOLEAN
      BY DEF TypeOK
    <2>1. \/ UNCHANGED <<rule, platform>>
          \/ platform' = ~platform /\ UNCHANGED rule
          \/ UNCHANGED platform /\ \E t \in Types : \E p \in Percents[t] : rule' = [rule EXCEPT ![t] = p]
      BY DEF Next, Process, Lookup, Create, ReadRule, Claim, PayOwner, PayPlatform, Receive, GiveUp,
             MarkFailed, MarkDone, CallFails, WalletUnread, Deliver, ListBatch, TakeEarning, Serve,
             Lose, Administer, Crash, tableVars, vars
    <2>2. ASSUME NEW t \in Types, NEW p \in Percents[t], rule' = [rule EXCEPT ![t] = p]
          PROVE  rule' \in Rules
      <3>1. p \in UNION {Percents[k] : k \in Types}
        OBVIOUS
      <3>2. rule' \in [Types -> UNION {Percents[k] : k \in Types}]
        BY <2>0, <2>2, <3>1 DEF Rules
      <3>3. \A k \in Types : rule'[k] \in Percents[k]
        BY <2>0, <2>2 DEF Rules
      <3>. QED  BY <3>2, <3>3 DEF Rules
    <2>. QED  BY <2>0, <2>1, <2>2
  <1>4. batch' \subseteq DOMAIN earning'
    <2>1. batch' \subseteq batch \/ batch' \subseteq ListPending
      BY DEF Next, Process, Lookup, Create, ReadRule, Claim, PayOwner, PayPlatform, Receive, GiveUp,
             MarkFailed, MarkDone, CallFails, WalletUnread, Deliver, ListBatch, TakeEarning, Serve,
             Lose, Administer, Crash, vars
    <2>. QED  BY <1>1, <2>1 DEF TypeOK, ListPending
  <1>5. requests' \subseteq Credits /\ replies' \subseteq Credits /\ credits' \subseteq Credits
    BY <1>0, MessageTypes
  <1>6. delivered' \in [Events -> Nat] /\ changes' \in Nat /\ faults' \in Nat
    <2>0. delivered \in [Events -> Nat] /\ changes \in Nat
      BY DEF TypeOK
    <2>1. /\ delivered' = delivered \/ \E e \in Events : delivered' = [delivered EXCEPT ![e] = @ + 1]
          /\ changes' = changes \/ changes' = changes + 1
      BY DEF Next, Process, Lookup, Create, ReadRule, Claim, PayOwner, PayPlatform, Receive, GiveUp,
             MarkFailed, MarkDone, CallFails, WalletUnread, Deliver, ListBatch, TakeEarning, Serve,
             Lose, Administer, Crash, boundVars, vars
    <2>. QED  BY <1>0, <2>0, <2>1 DEF StepKind
  <1>7. \A g \in Goroutines : pc'[g] \notin {"idle", "lookup", "create"} =>
           cur'[g] \in DOMAIN earning'
    BY CurStep
  <1>. QED  BY <1>1, <1>2, <1>3, <1>4, <1>5, <1>6, <1>7 DEF TypeOK, LocalType

-----------------------------------------------------------------------------
(* The lock.                                                               *)

Keeps(h) == cur'[h] = cur[h] /\ share'[h] = share[h]

(* Who pays after a step paid before it, or takes the lock with it.        *)
LEMMA PayerSource ==
    ASSUME TypeOK, StepKind, NEW h \in Goroutines, pc'[h] \in PayingLabels
    PROVE  Keeps(h) /\ (pc[h] \in PayingLabels \/ Locks(h))
  <1>1. ASSUME NEW g \in Goroutines, Before(g) \/ Creates(g)
        PROVE  Keeps(h) /\ pc[h] \in PayingLabels
    BY <1>1 DEF Before, Creates, Others, Keeps, PayingLabels
  <1>2. ASSUME NEW g \in Goroutines, Locks(g)
        PROVE  Keeps(h) /\ (pc[h] \in PayingLabels \/ Locks(h))
    <2>1. Keeps(h) /\ (h # g => pc'[h] = pc[h])
      BY <1>2 DEF Locks, Others, Keeps
    <2>. QED  BY <1>2, <2>1
  <1>3. ASSUME NEW g \in Goroutines, Asks(g) \/ Goes(g) \/ Ends(g)
        PROVE  Keeps(h) /\ pc[h] \in PayingLabels
    <2>1. Keeps(h) /\ (h # g => pc'[h] = pc[h])
      BY <1>3 DEF Asks, Goes, Ends, Others, Keeps
    <2>2. pc[g] \in PayingLabels
      BY <1>3 DEF Asks, Goes, Ends, PayingLabels
    <2>. QED  BY <2>1, <2>2
  <1>4. ASSUME (\E m \in requests : Serve(m) \/ Lose(m)) \/ UNCHANGED <<earning, pc, cur, share, netVars>>
        PROVE  Keeps(h) /\ pc[h] \in PayingLabels
    BY <1>4 DEF Serve, Lose, localVars, Keeps
  <1>5. ASSUME Crash  PROVE FALSE
    BY <1>5 DEF Crash, PayingLabels
  <1>. QED  BY <1>1, <1>2, <1>3, <1>4, <1>5 DEF StepKind

(* Who pays before a step goes on, ends the payout, or meets a fault.      *)
LEMMA PayerFate ==
    ASSUME TypeOK, StepKind, NEW h \in Goroutines, pc[h] \in PayingLabels
    PROVE  (pc'[h] \in PayingLabels /\ Keeps(h)) \/ Ends(h) \/ faults' > 0
  <1>1. ASSUME NEW g \in Goroutines, Before(g) \/ Creates(g) \/ Locks(g)
        PROVE  pc'[h] \in PayingLabels /\ Keeps(h)
    <2>1. pc[g] \notin PayingLabels /\ Others(g)
      BY <1>1 DEF Before, Creates, Locks, PayingLabels
    <2>. QED  BY <2>1 DEF Others, Keeps
  <1>2. ASSUME NEW g \in Goroutines, Asks(g) \/ Goes(g)
        PROVE  (pc'[h] \in PayingLabels /\ Keeps(h)) \/ faults' > 0
    <2>1. Keeps(h) /\ (h # g => pc'[h] = pc[h])
      BY <1>2 DEF Asks, Goes, Others, Keeps
    <2>2. pc'[g] \in PayingLabels \/ faults' > 0
      BY <1>2 DEF Asks, Goes, PayingLabels
    <2>. QED  BY <2>1, <2>2
  <1>3. ASSUME NEW g \in Goroutines, Ends(g)
        PROVE  (pc'[h] \in PayingLabels /\ Keeps(h)) \/ Ends(h)
    <2>1. Keeps(h) /\ (h # g => pc'[h] = pc[h])
      BY <1>3 DEF Ends, Others, Keeps
    <2>. QED  BY <1>3, <2>1
  <1>4. ASSUME (\E m \in requests : Serve(m) \/ Lose(m)) \/ UNCHANGED <<earning, pc, cur, share, netVars>>
        PROVE  pc'[h] \in PayingLabels /\ Keeps(h)
    BY <1>4 DEF Serve, Lose, localVars, Keeps
  <1>5. ASSUME Crash  PROVE faults' > 0
    BY <1>5 DEF Crash, TypeOK
  <1>. QED  BY <1>1, <1>2, <1>3, <1>4, <1>5 DEF StepKind

(* Only the lock and its holder change the row of an earning.              *)
LEMMA RowChanges ==
    ASSUME TypeOK, SharesOK, StepKind, NEW n \in DOMAIN earning
    PROVE  \/ earning'[n] = earning[n]
           \/ \E g \in Goroutines : Locks(g) /\ cur[g] = n /\ earning'[n].status = "processing"
                                    /\ earning[n].status = "pending"
                                    /\ earning'[n].owner = earning[n].owner
           \/ \E g \in Goroutines : Ends(g) /\ cur[g] = n /\ pc[g] = "fail"
                                    /\ earning'[n].status = "failed"
           \/ \E g \in Goroutines : Ends(g) /\ cur[g] = n /\ pc[g] = "done"
                                    /\ earning'[n].status = "done" /\ earning'[n].owner = share[g]
  <1>1. ASSUME NEW g \in Goroutines, Creates(g)  PROVE earning'[n] = earning[n]
    <2>1. event[g] \in Events /\ earning' = WithNew(event[g])
      BY <1>1 DEF Creates
    <2>. QED  BY <2>1, NewFacts
  <1>2. ASSUME NEW g \in Goroutines, Locks(g)
        PROVE  \/ earning'[n] = earning[n]
               \/ /\ cur[g] = n /\ earning'[n].status = "processing" /\ earning[n].status = "pending"
                  /\ earning'[n].owner = earning[n].owner
    <2>1. /\ cur[g] \in DOMAIN earning /\ earning' = WithStatus(cur[g], "processing")
          /\ earning[cur[g]].status = "pending"
      BY <1>2 DEF Locks, TypeOK
    <2>. QED  BY <2>1, StatusFacts
  <1>3. ASSUME NEW g \in Goroutines, Ends(g)
        PROVE  \/ earning'[n] = earning[n]
               \/ cur[g] = n /\ pc[g] = "fail" /\ earning'[n].status = "failed"
               \/ /\ cur[g] = n /\ pc[g] = "done"
                  /\ earning'[n].status = "done" /\ earning'[n].owner = share[g]
    <2>1. /\ pc[g] \in {"fail", "done"}
          /\ \/ pc[g] = "fail" /\ earning' = WithStatus(cur[g], "failed")
             \/ pc[g] = "done" /\ earning' = WithResult(cur[g], share[g])
      BY <1>3 DEF Ends
    <2>2. cur[g] \in DOMAIN earning /\ share[g] \in Int
      BY <2>1 DEF TypeOK
    <2>3. CASE pc[g] = "fail" /\ earning' = WithStatus(cur[g], "failed")
      BY <2>2, <2>3, StatusFacts
    <2>4. CASE pc[g] = "done" /\ earning' = WithResult(cur[g], share[g])
      BY <2>2, <2>4, ResultFacts
    <2>. QED  BY <2>1, <2>3, <2>4
  <1>4. \/ earning' = earning
        \/ \E g \in Goroutines : Creates(g) \/ Locks(g) \/ Ends(g)
    BY DEF StepKind, Before, Asks, Goes, Serve, Lose, Crash, tableVars
  <1>. QED  BY <1>1, <1>2, <1>3, <1>4

LEMMA EndsPays ==
    ASSUME NEW g \in Goroutines, Ends(g)
    PROVE  Paying(g) /\ pc'[g] = "idle"
  BY DEF Ends, Paying

LEMMA LockStep ==
    ASSUME TypeOK, PayersOK, OnePayer, SharesOK, StepKind
    PROVE  PayersOK' /\ OnePayer'
  <1>1. ASSUME NEW h \in Goroutines, pc'[h] \in PayingLabels
        PROVE  earning'[cur'[h]].status = "processing"
    <2>1. Keeps(h) /\ (pc[h] \in PayingLabels \/ Locks(h))
      BY <1>1, PayerSource
    <2>2. CASE Locks(h)
      <3>1. /\ cur[h] \in DOMAIN earning /\ earning' = WithStatus(cur[h], "processing")
        BY <2>2 DEF Locks, TypeOK
      <3>2. earning'[cur[h]].status = "processing"
        BY <3>1, StatusFacts
      <3>. QED  BY <2>1, <3>2 DEF Keeps
    <2>3. CASE pc[h] \in PayingLabels
      <3>1. Paying(h) /\ earning[cur[h]].status = "processing" /\ cur[h] \in DOMAIN earning
        BY <2>3 DEF Paying, PayingLabels, PayersOK, TypeOK
      <3>2. ASSUME NEW g \in Goroutines, Ends(g), cur[g] = cur[h]  PROVE FALSE
        <4>1. g = h
          BY <3>1, <3>2, EndsPays DEF OnePayer
        <4>. QED  BY <1>1, <3>2, <4>1, EndsPays DEF PayingLabels
      <3>3. earning'[cur[h]].status = "processing"
        BY <3>1, <3>2, RowChanges
      <3>. QED  BY <2>1, <3>3 DEF Keeps
    <2>. QED  BY <2>1, <2>2, <2>3
  <1>2. ASSUME NEW g \in Goroutines, NEW h \in Goroutines, g # h,
               pc'[g] \in PayingLabels, pc'[h] \in PayingLabels, cur'[g] = cur'[h]
        PROVE  FALSE
    <2>1. /\ cur[g] = cur[h] /\ (pc[g] \in PayingLabels \/ Locks(g))
          /\ (pc[h] \in PayingLabels \/ Locks(h))
      BY <1>2, PayerSource DEF Keeps
    <2>2. ASSUME NEW k \in Goroutines, pc[k] \in PayingLabels
          PROVE  Paying(k) /\ earning[cur[k]].status = "processing"
      BY <2>2 DEF Paying, PayingLabels, PayersOK
    <2>3. ASSUME NEW k \in Goroutines, Locks(k)
          PROVE  earning[cur[k]].status = "pending" /\ pc[k] = "claim" /\ Others(k)
      BY <2>3 DEF Locks
    <2>4. ~(pc[g] \in PayingLabels /\ pc[h] \in PayingLabels)
      BY <1>2, <2>1, <2>2 DEF OnePayer
    <2>5. Locks(g) /\ Locks(h)
      BY <2>1, <2>2, <2>3, <2>4
    <2>6. pc'[h] = "claim"
      BY <1>2, <2>3, <2>5 DEF Others
    <2>. QED  BY <1>2, <2>6 DEF PayingLabels
  <1>3. \A g \in Goroutines : Paying(g)' <=> pc'[g] \in PayingLabels
    BY DEF Paying, PayingLabels
  <1>4. PayersOK'
    BY <1>1, <1>3 DEF PayersOK
  <1>5. OnePayer'
    BY <1>2, <1>3 DEF OnePayer
  <1>. QED  BY <1>4, <1>5

LEMMA StrandedStep ==
    ASSUME TypeOK, StrandedByFault, SharesOK, StepKind
    PROVE  StrandedByFault'
  <1>1. SUFFICES ASSUME NEW n \in DOMAIN earning', earning'[n].status = "processing",
                        ~(faults' > 0)
                 PROVE  \E g \in Goroutines : pc'[g] \in PayingLabels /\ cur'[g] = n
    BY DEF StrandedByFault, Paying, PayingLabels
  <1>2. n \in DOMAIN earning
    BY <1>1, TableGrows
  <1>3. ~(faults > 0)
    BY <1>1 DEF StepKind
  <1>4. ASSUME NEW g \in Goroutines, Locks(g), cur[g] = n
        PROVE  pc'[g] \in PayingLabels /\ cur'[g] = n
    BY <1>1, <1>4 DEF Locks, PayingLabels
  <1>5. CASE earning'[n] = earning[n]
    <2>1. PICK g \in Goroutines : Paying(g) /\ cur[g] = n
      BY <1>1, <1>2, <1>3, <1>5 DEF StrandedByFault
    <2>2. pc[g] \in PayingLabels /\ cur[g] \in DOMAIN earning
      BY <1>2, <2>1 DEF Paying, PayingLabels
    <2>3. ~Ends(g)
      <3>1. SUFFICES ASSUME Ends(g)  PROVE FALSE
        OBVIOUS
      <3>2. CASE pc[g] = "fail" /\ earning' = WithStatus(cur[g], "failed")
        BY <1>1, <2>1, <2>2, <3>2, StatusFacts
      <3>3. CASE pc[g] = "done" /\ earning' = WithResult(cur[g], share[g])
        <4>1. share[g] \in Int
          BY DEF TypeOK
        <4>. QED  BY <1>1, <2>1, <2>2, <3>3, <4>1, ResultFacts
      <3>. QED  BY <3>1, <3>2, <3>3 DEF Ends
    <2>. QED  BY <1>1, <2>1, <2>2, <2>3, PayerFate DEF Keeps
  <1>6. CASE earning'[n] # earning[n]
    BY <1>1, <1>2, <1>4, <1>6, RowChanges
  <1>. QED  BY <1>5, <1>6

(* A payer that still pays stays where it is, asks, or goes on.            *)
LEMMA MoveSource ==
    ASSUME TypeOK, StepKind, NEW h \in Goroutines,
           pc[h] \in PayingLabels, pc'[h] \in PayingLabels
    PROVE  pc'[h] = pc[h] \/ Asks(h) \/ Goes(h)
  <1>1. ASSUME NEW g \in Goroutines, Before(g) \/ Creates(g) \/ Locks(g) \/ Ends(g)
        PROVE  pc'[h] = pc[h]
    <2>1. Others(g) /\ (pc[g] \notin PayingLabels \/ pc'[g] \notin PayingLabels)
      BY <1>1 DEF Before, Creates, Locks, Ends, PayingLabels
    <2>. QED  BY <2>1 DEF Others
  <1>2. ASSUME NEW g \in Goroutines, Asks(g) \/ Goes(g), g # h  PROVE pc'[h] = pc[h]
    BY <1>2 DEF Asks, Goes, Others
  <1>3. ASSUME (\E m \in requests : Serve(m) \/ Lose(m)) \/ UNCHANGED <<earning, pc, cur, share, netVars>>
        PROVE  pc'[h] = pc[h]
    BY <1>3 DEF Serve, Lose, localVars
  <1>4. ~Crash
    BY DEF Crash, PayingLabels
  <1>. QED  BY <1>1, <1>2, <1>3, <1>4 DEF StepKind

LEMMA SharesStep ==
    ASSUME TypeOK, SharesOK, StepKind
    PROVE  SharesOK'
  <1>0. \A n \in DOMAIN earning : SharesOf(n)' = SharesOf(n)
    BY TableGrows DEF SharesOf
  <1>1. ASSUME NEW h \in Goroutines, pc'[h] \in PayingLabels
        PROVE  share'[h] \in Shares(earning'[cur'[h]].total, earning'[cur'[h]].type)
    <2>1. Keeps(h) /\ (pc[h] \in PayingLabels \/ pc[h] = "claim")
      BY <1>1, PayerSource DEF Locks
    <2>2. cur[h] \in DOMAIN earning /\ share[h] \in SharesOf(cur[h])
      BY <2>1 DEF TypeOK, SharesOK, Paying, PayingLabels
    <2>. QED  BY <1>0, <2>1, <2>2 DEF Keeps, SharesOf
  <1>2. ASSUME NEW h \in Goroutines, pc'[h] = "claim"
        PROVE  share'[h] \in Shares(earning'[cur'[h]].total, earning'[cur'[h]].type)
    <2>1. ASSUME NEW g \in Goroutines, Before(g), g = h  PROVE share'[h] \in Shares(earning'[cur'[h]].total, earning'[cur'[h]].type)
      BY <1>0, <1>2, <2>1 DEF Before, SharesOf
    <2>2. ASSUME NEW g \in Goroutines, Others(g), g # h  PROVE pc[h] = "claim" /\ Keeps(h)
      BY <1>2, <2>2 DEF Others, Keeps
    <2>3. ASSUME NEW g \in Goroutines, Creates(g) \/ Locks(g) \/ Asks(g) \/ Goes(g) \/ Ends(g)
          PROVE  Others(g) /\ g # h
      BY <1>2, <2>3 DEF Creates, Locks, Asks, Goes, Ends
    <2>4. ASSUME NEW g \in Goroutines, Before(g)  PROVE Others(g)
      BY <2>4 DEF Before
    <2>5. ASSUME (\E m \in requests : Serve(m) \/ Lose(m)) \/ UNCHANGED <<earning, pc, cur, share, netVars>>
          PROVE  pc[h] = "claim" /\ Keeps(h)
      BY <1>2, <2>5 DEF Serve, Lose, localVars, Keeps
    <2>6. ~Crash
      BY <1>2 DEF Crash
    <2>7. ASSUME pc[h] = "claim", Keeps(h)  PROVE share'[h] \in Shares(earning'[cur'[h]].total, earning'[cur'[h]].type)
      <3>1. cur[h] \in DOMAIN earning /\ share[h] \in SharesOf(cur[h])
        BY <2>7 DEF TypeOK, SharesOK
      <3>. QED  BY <1>0, <2>7, <3>1 DEF Keeps, SharesOf
    <2>. QED  BY <2>1, <2>2, <2>3, <2>4, <2>5, <2>6, <2>7 DEF StepKind
  <1>3. ASSUME NEW h \in Goroutines, pc'[h] = "owner"  PROVE share'[h] > 0
    <2>1. Keeps(h) /\ (pc[h] \in PayingLabels \/ Locks(h)) /\ pc'[h] \in PayingLabels
      BY <1>3, PayerSource DEF PayingLabels
    <2>2. CASE Locks(h)
      BY <1>3, <2>1, <2>2 DEF Locks, Keeps
    <2>3. CASE pc[h] \in PayingLabels
      <3>1. pc'[h] = pc[h] \/ Asks(h) \/ Goes(h)
        BY <2>1, <2>3, MoveSource
      <3>2. pc[h] = "owner"
        BY <1>3, <3>1 DEF Asks, Goes
      <3>. QED  BY <2>1, <3>2 DEF SharesOK, Keeps
    <2>. QED  BY <2>1, <2>2, <2>3
  <1>. QED  BY <1>1, <1>2, <1>3 DEF SharesOK, Paying, PayingLabels, SharesOf

-----------------------------------------------------------------------------
(* The messages.                                                           *)

(* A message that was not there before is what a payer asks for.           *)
LEMMA MessageSource ==
    ASSUME TypeOK, SharesOK, StepKind, NEW m \in requests' \cup credits'
    PROVE  \/ m \in requests \cup credits
           \/ \E g \in Goroutines : Asks(g) /\ requests' = requests \cup {m}
  <1>1. ASSUME NEW g \in Goroutines, Asks(g)
        PROVE  m \in requests \cup credits \/ requests' = requests \cup {m}
    BY <1>1, AsksFacts
  <1>2. ASSUME NEW k \in requests, Serve(k) \/ Lose(k)  PROVE m \in requests \cup credits
    BY <1>2 DEF Serve, Lose
  <1>3. CASE UNCHANGED netVars \/ UNCHANGED <<requests, credits>>
    BY <1>3 DEF netVars
  <1>. QED  BY <1>1, <1>2, <1>3, NetKinds

LEMMA CreditsStay ==
    ASSUME TypeOK, SharesOK, StepKind
    PROVE  credits \subseteq credits'
  <1>1. ASSUME NEW g \in Goroutines, Asks(g)  PROVE credits' = credits
    BY <1>1, AsksFacts
  <1>2. ASSUME NEW m \in requests, Serve(m) \/ Lose(m)  PROVE credits \subseteq credits'
    BY <1>2 DEF Serve, Lose
  <1>. QED  BY <1>1, <1>2, NetKinds DEF netVars

(* An earning that was claimed is never pending again.                     *)
LEMMA ClaimedStays ==
    ASSUME TypeOK, SharesOK, StepKind, NEW n \in DOMAIN earning, earning[n].status # "pending"
    PROVE  n \in DOMAIN earning' /\ earning'[n].status # "pending"
  BY RowChanges, TableGrows

LEMMA AskerPays ==
    ASSUME TypeOK, PayersOK, SharesOK, NEW g \in Goroutines, Asks(g)
    PROVE  Paying(g) /\ earning[cur[g]].status = "processing"
  <1>1. Paying(g)
    BY DEF Asks, Paying
  <1>. QED  BY <1>1 DEF PayersOK

LEMMA MessagesStep ==
    ASSUME TypeOK, PayersOK, SharesOK, MessagesOK, StepKind
    PROVE  MessagesOK'
  <1>1. ASSUME NEW m \in Asked'
        PROVE  m.id \in DOMAIN earning' /\ earning'[m.id].status # "pending"
    <2>1. CASE m \in Asked
      BY <2>1, ClaimedStays DEF MessagesOK
    <2>2. ASSUME NEW g \in Goroutines, Asks(g), requests' = requests \cup {m}
          PROVE  m.id \in DOMAIN earning' /\ earning'[m.id].status # "pending"
      <3>1. /\ cur[g] \in DOMAIN earning /\ earning' = earning
            /\ \E k \in Credits : requests' = requests \cup {k} /\ k.id = cur[g]
        BY <2>2, AsksFacts
      <3>2. m \in requests \/ m.id = cur[g]
        BY <2>2, <3>1
      <3>3. earning[cur[g]].status = "processing"
        BY <2>2, AskerPays
      <3>. QED  BY <2>1, <3>1, <3>2, <3>3 DEF Asked
    <2>3. CASE m \in replies'
      <3>1. replies' \subseteq replies \cup requests
        <4>1. ASSUME NEW g \in Goroutines, Asks(g)  PROVE replies' = replies
          BY <4>1, AsksFacts
        <4>2. ASSUME NEW k \in requests, Serve(k) \/ Lose(k)
              PROVE  replies' \subseteq replies \cup requests
          BY <4>2 DEF Serve, Lose
        <4>. QED  BY <4>1, <4>2, NetKinds DEF netVars
      <3>. QED  BY <2>1, <2>3, <3>1 DEF Asked
    <2>4. CASE m \in requests' \cup credits'
      BY <2>1, <2>2, <2>4, MessageSource DEF Asked
    <2>. QED  BY <1>1, <2>3, <2>4 DEF Asked
  <1>. DEFINE Backed(q) == \E c \in credits' : c.id = q.id /\ c.role = q.role
              Single == \A c, d \in credits' : c.id = d.id /\ c.role = d.role => c = d
  <1>2. (\A q \in replies : Backed(q)) /\ (credits' = credits => Single)
    BY CreditsStay DEF MessagesOK
  <1>3. ASSUME NEW g \in Goroutines, Asks(g)  PROVE UNCHANGED <<replies, credits>>
    BY <1>3, AsksFacts
  <1>4. ASSUME NEW m \in requests, Serve(m)  PROVE (\A q \in replies' : Backed(q)) /\ Single
    <2>1. replies' = replies \cup {m}
      BY <1>4 DEF Serve
    <2>2. CASE \E c \in credits : c.id = m.id /\ c.role = m.role
      <3>1. credits' = credits
        BY <1>4, <2>2 DEF Serve
      <3>. QED  BY <1>2, <2>1, <2>2, <3>1
    <2>3. CASE ~\E c \in credits : c.id = m.id /\ c.role = m.role
      <3>1. credits' = credits \cup {m}
        BY <1>4, <2>3 DEF Serve
      <3>2. Single
        BY <2>3, <3>1 DEF MessagesOK
      <3>3. Backed(m)
        BY <3>1
      <3>. QED  BY <1>2, <2>1, <3>2, <3>3
    <2>. QED  BY <2>2, <2>3
  <1>5. ASSUME NEW m \in requests, Lose(m)  PROVE UNCHANGED <<replies, credits>>
    BY <1>5 DEF Lose
  <1>6. (\A q \in replies' : Backed(q)) /\ Single
    <2>1. UNCHANGED <<replies, credits>> => (\A q \in replies' : Backed(q)) /\ Single
      BY <1>2
    <2>2. replies' = {} /\ credits' = credits => (\A q \in replies' : Backed(q)) /\ Single
      BY <1>2
    <2>. HIDE DEF Backed, Single
    <2>. QED  BY <1>3, <1>4, <1>5, <2>1, <2>2, NetKinds DEF netVars
  <1>. QED  BY <1>1, <1>6 DEF MessagesOK

LEMMA OwnersStep ==
    ASSUME TypeOK, PayersOK, SharesOK, MessagesOK, OwnersOK, StepKind
    PROVE  OwnersOK'
  <1>1. \A n : OwnerPaid(n) => OwnerPaid(n)'
    BY CreditsStay DEF OwnerPaid
  <1>2. \A n \in DOMAIN earning : earning'[n].hasOwner = earning[n].hasOwner
    BY TableGrows
  <1>3. ASSUME NEW h \in Goroutines, pc'[h] \in {"platform", "awaitPlatform", "done"},
               share'[h] > 0, earning'[cur'[h]].hasOwner
        PROVE  OwnerPaid(cur[h]) /\ cur'[h] = cur[h]
    <2>1. Keeps(h) /\ (pc[h] \in PayingLabels \/ Locks(h)) /\ pc'[h] \in PayingLabels
      BY <1>3, PayerSource DEF PayingLabels
    <2>2. cur[h] \in DOMAIN earning
      BY <2>1 DEF TypeOK, Locks, PayingLabels
    <2>3. share[h] > 0 /\ earning[cur[h]].hasOwner
      BY <1>2, <1>3, <2>1, <2>2 DEF Keeps
    <2>4. ~Locks(h)
      BY <1>3, <2>3 DEF Locks
    <2>5. pc'[h] = pc[h] \/ Asks(h) \/ Goes(h)
      BY <2>1, <2>4, MoveSource
    <2>6. CASE pc[h] \in {"platform", "awaitPlatform", "done"}
      BY <2>1, <2>3, <2>6 DEF OwnersOK, Keeps
    <2>7. CASE pc[h] \notin {"platform", "awaitPlatform", "done"}
      <3>1. Answered(h, {"owner"})
        BY <1>3, <2>5, <2>7 DEF Asks, Goes
      <3>2. PICK m \in replies : m.id = cur[h] /\ m.role = "owner"
        BY <3>1 DEF Answered
      <3>. QED  BY <2>1, <3>2 DEF MessagesOK, OwnerPaid, Keeps
    <2>. QED  BY <2>6, <2>7
  <1>4. ASSUME NEW n \in DOMAIN earning', earning'[n].status = "done", earning'[n].hasOwner,
               earning'[n].owner > 0
        PROVE  OwnerPaid(n)
    <2>1. n \in DOMAIN earning
      BY <1>4, TableGrows
    <2>2. CASE earning'[n] = earning[n]
      BY <1>4, <2>1, <2>2 DEF OwnersOK
    <2>3. ASSUME NEW g \in Goroutines, cur[g] = n, pc[g] = "done", earning'[n].owner = share[g]
          PROVE  OwnerPaid(n)
      BY <1>2, <1>4, <2>1, <2>3 DEF OwnersOK
    <2>. QED  BY <1>4, <2>1, <2>2, <2>3, RowChanges
  <1>. QED  BY <1>1, <1>3, <1>4 DEF OwnersOK

(* What was asked for an earning is one split of its total: requests that  *)
(* are served after their sender gave up belong to it too.                 *)
LEMMA SplitsStep ==
    ASSUME TypeOK, PayersOK, OnePayer, SharesOK, MessagesOK, SplitsOK, StepKind, OnePayer'
    PROVE  SplitsOK'
  <1>. DEFINE Part(m, n, s, r) == /\ s \in SharesOf(n)
                                  /\ \/ m.role = "owner" /\ s - m.amount \in {0, 1}
                                     \/ m.role = r /\ (earning[n].total - s) - m.amount \in {0, 1}
              New == requests' \cup credits'
              Old == requests \cup credits
  <1>1. ASSUME NEW m \in New
        PROVE  \/ m \in Old /\ m.id \in DOMAIN earning /\ earning[m.id].status # "pending"
               \/ \E g \in Goroutines : Asks(g) /\ requests' = requests \cup {m} /\ m \notin Old
    BY MessageSource DEF MessagesOK, Asked
  <1>2. ASSUME NEW g \in Goroutines, Asks(g)
        PROVE  /\ cur[g] \in DOMAIN earning /\ Paying(g) /\ earning[cur[g]].status = "processing"
               /\ share[g] \in SharesOf(cur[g])
               /\ \E role \in {"platform", "zero"} : \A m : requests' = requests \cup {m} /\ m \notin Old =>
                     /\ m.id = cur[g]
                     /\ \/ pc[g] = "owner" /\ pc'[g] = "awaitOwner"
                           /\ m.role = "owner" /\ share[g] - m.amount \in {0, 1}
                        \/ pc[g] = "platform" /\ pc'[g] = "awaitPlatform"
                           /\ m.role = role /\ (earning[cur[g]].total - share[g]) - m.amount \in {0, 1}
    <2>1. PICK k \in Credits, role \in {"platform", "zero"} :
             /\ requests' = requests \cup {k} /\ k.id = cur[g]
             /\ \/ /\ pc[g] = "owner" /\ pc'[g] = "awaitOwner"
                   /\ k.role = "owner" /\ share[g] - k.amount \in {0, 1}
                \/ /\ pc[g] = "platform" /\ pc'[g] = "awaitPlatform"
                   /\ k.role = role /\ (earning[cur[g]].total - share[g]) - k.amount \in {0, 1}
      BY <1>2, AsksFacts
    <2>2. \A m : requests' = requests \cup {m} /\ m \notin Old => m = k
      BY <2>1
    <2>3. /\ cur[g] \in DOMAIN earning /\ Paying(g) /\ earning[cur[g]].status = "processing"
          /\ share[g] \in SharesOf(cur[g])
      BY <1>2, AsksFacts, AskerPays
    <2>. QED  BY <2>1, <2>2, <2>3
  <1>3. \A n \in DOMAIN earning : earning'[n].total = earning[n].total /\ SharesOf(n)' = SharesOf(n)
    BY TableGrows DEF SharesOf
  <1>4. ASSUME NEW h \in Goroutines, pc'[h] \in PayingLabels
        PROVE  /\ Keeps(h) /\ cur[h] \in DOMAIN earning
               /\ pc[h] \in PayingLabels \/ Locks(h)
    BY <1>4, PayerSource DEF TypeOK, PayingLabels, Locks
  <1>5. ASSUME NEW h \in Goroutines, pc'[h] \in {"owner", "awaitOwner", "platform"},
               NEW m \in New, m.id = cur'[h]
        PROVE  m.role = "owner"
    <2>1. /\ Keeps(h) /\ cur[h] \in DOMAIN earning /\ m.id = cur[h]
          /\ pc'[h] \in PayingLabels /\ (pc[h] \in PayingLabels \/ Locks(h))
      BY <1>4, <1>5 DEF PayingLabels, Keeps
    <2>2. CASE Locks(h)
      <3>1. earning[cur[h]].status = "pending" /\ requests' = requests /\ credits' = credits
        BY <2>2 DEF Locks, netVars
      <3>. QED  BY <1>5, <2>1, <3>1 DEF MessagesOK, Asked
    <2>3. CASE pc[h] \in PayingLabels
      <3>1. pc[h] \in {"owner", "awaitOwner", "platform"} /\ Paying(h)
        <4>1. pc'[h] = pc[h] \/ Asks(h) \/ Goes(h)
          BY <2>1, <2>3, MoveSource
        <4>2. pc[h] \in {"owner", "awaitOwner", "platform"}
          BY <1>5, <4>1 DEF Asks, Goes
        <4>. QED  BY <4>2 DEF Paying
      <3>2. CASE m \in Old
        BY <2>1, <3>1, <3>2 DEF SplitsOK
      <3>3. ASSUME NEW g \in Goroutines, Asks(g), requests' = requests \cup {m}, m \notin Old
            PROVE  m.role = "owner"
        <4>1. g = h
          BY <1>2, <2>1, <3>1, <3>3 DEF OnePayer
        <4>. QED  BY <1>2, <1>5, <3>3, <4>1
      <3>. QED  BY <1>1, <3>2, <3>3
    <2>. QED  BY <2>1, <2>2, <2>3
  <1>6. ASSUME NEW n \in DOMAIN earning',
               NEW s \in Int, NEW r \in {"platform", "zero"},
               \A m \in New : m.id = n => /\ s \in SharesOf(n)'
                                          /\ \/ m.role = "owner" /\ s - m.amount \in {0, 1}
                                             \/ m.role = r /\ (earning'[n].total - s) - m.amount \in {0, 1},
               \A g \in Goroutines : pc'[g] \in PayingLabels /\ cur'[g] = n => s = share'[g]
        PROVE  \E t \in Int, q \in {"platform", "zero"} :
                  /\ SplitBy(n, t, q)'
                  /\ \A g \in Goroutines : Paying(g)' /\ cur'[g] = n => t = share'[g]
    <2>1. SplitBy(n, s, r)'
      BY <1>6 DEF SplitBy
    <2>2. \A g \in Goroutines : Paying(g)' /\ cur'[g] = n => s = share'[g]
      BY <1>6 DEF Paying, PayingLabels
    <2>. QED  BY <2>1, <2>2
  <1>7. ASSUME NEW n \in DOMAIN earning'
        PROVE  \E s \in Int, r \in {"platform", "zero"} :
                  /\ SplitBy(n, s, r)'
                  /\ \A g \in Goroutines : Paying(g)' /\ cur'[g] = n => s = share'[g]
    <2>1. CASE n \notin DOMAIN earning
      <3>2. \A m \in New : m.id # n
        BY <1>1, <1>2, <2>1
      <3>3. \A g \in Goroutines : pc'[g] \in PayingLabels => cur'[g] # n
        BY <1>4, <2>1 DEF Keeps
      <3>4. 0 \in Int
        OBVIOUS
      <3>. QED  BY <1>6, <3>2, <3>3, <3>4
    <2>2. ASSUME NEW g \in Goroutines, Locks(g), cur[g] = n
          PROVE  \E s \in Int, r \in {"platform", "zero"} :
                    /\ SplitBy(n, s, r)'
                    /\ \A h \in Goroutines : Paying(h)' /\ cur'[h] = n => s = share'[h]
      <3>1. /\ n \in DOMAIN earning /\ earning[n].status = "pending"
            /\ requests' = requests /\ credits' = credits
            /\ Keeps(g) /\ Others(g) /\ pc[g] = "claim"
        BY <2>2 DEF Locks, netVars, TypeOK, Keeps
      <3>2. share[g] \in Int
        BY DEF TypeOK
      <3>3. \A m \in New : m.id # n
        BY <3>1 DEF MessagesOK, Asked
      <3>4. ASSUME NEW h \in Goroutines, pc'[h] \in PayingLabels, cur'[h] = n
            PROVE  h = g
        <4>1. SUFFICES ASSUME h # g  PROVE FALSE
          OBVIOUS
        <4>2. pc[h] \in PayingLabels /\ cur[h] = n
          BY <3>1, <3>4, <4>1 DEF Others
        <4>3. earning[n].status = "processing"
          BY <4>2 DEF PayersOK, Paying, PayingLabels
        <4>. QED  BY <3>1, <4>3
      <3>5. \A h \in Goroutines : pc'[h] \in PayingLabels /\ cur'[h] = n => share[g] = share'[h]
        BY <3>1, <3>4 DEF Keeps
      <3>. QED  BY <1>6, <3>2, <3>3, <3>5
    <2>3. ASSUME n \in DOMAIN earning, \A g \in Goroutines : Locks(g) => cur[g] # n
          PROVE  \E s \in Int, r \in {"platform", "zero"} :
                    /\ SplitBy(n, s, r)'
                    /\ \A h \in Goroutines : Paying(h)' /\ cur'[h] = n => s = share'[h]
      <3>1. PICK s \in Int, r \in {"platform", "zero"} :
               /\ SplitBy(n, s, r)
               /\ \A g \in Goroutines : Paying(g) /\ cur[g] = n => s = share[g]
        BY <2>3 DEF SplitsOK
      <3>2. \A h \in Goroutines : pc'[h] \in PayingLabels /\ cur'[h] = n => s = share'[h]
        BY <1>4, <2>3, <3>1 DEF Keeps, Paying, PayingLabels
      <3>3. SharesOf(n)' = SharesOf(n) /\ earning'[n].total = earning[n].total
        BY <1>3, <2>3
      <3>4. \A m \in Old : m.id = n => Part(m, n, s, r)
        BY <3>1 DEF SplitBy
      <3>5. CASE \A g \in Goroutines : Asks(g) => cur[g] # n
        <4>1. \A m \in New : m.id = n => m \in Old
          BY <1>1, <1>2, <3>5
        <4>2. \A m \in New : m.id = n => Part(m, n, s, r)
          BY <3>4, <4>1
        <4>. QED  BY <1>6, <3>2, <3>3, <4>2
      <3>6. ASSUME NEW g \in Goroutines, Asks(g), cur[g] = n
            PROVE  \E t \in Int, q \in {"platform", "zero"} :
                      /\ SplitBy(n, t, q)'
                      /\ \A h \in Goroutines : Paying(h)' /\ cur'[h] = n => t = share'[h]
        <4>1. s = share[g] /\ s \in SharesOf(n) /\ pc[g] \in {"owner", "platform"}
          BY <1>2, <3>1, <3>6, AsksFacts
        <4>2. \A h \in Goroutines : Asks(h) /\ cur[h] = n => h = g
          BY <1>2, <3>6 DEF OnePayer
        <4>3. PICK role \in {"platform", "zero"} :
                 \A m : requests' = requests \cup {m} /\ m \notin Old =>
                     \/ pc[g] = "owner" /\ m.role = "owner" /\ share[g] - m.amount \in {0, 1}
                     \/ /\ pc[g] = "platform" /\ m.role = role
                        /\ (earning[n].total - share[g]) - m.amount \in {0, 1}
          BY <1>2, <3>6
        <4>4. ASSUME NEW m \in New, m.id = n
              PROVE  m \in Old \/ (requests' = requests \cup {m} /\ m \notin Old)
          BY <1>1
        <4>5. CASE pc[g] = "owner"
          <5>1. \A m \in New : m.id = n => Part(m, n, s, r)
            BY <3>4, <4>1, <4>3, <4>4, <4>5
          <5>. QED  BY <1>6, <3>2, <3>3, <5>1
        <4>6. CASE pc[g] = "platform"
          <5>1. \A m \in Old : m.id = n => m.role = "owner" /\ Part(m, n, s, role)
            BY <3>4, <3>6, <4>6 DEF SplitsOK
          <5>2. \A m \in New : m.id = n => Part(m, n, s, role)
            BY <4>1, <4>3, <4>4, <4>6, <5>1
          <5>. QED  BY <1>6, <3>2, <3>3, <5>2
        <4>. QED  BY <4>1, <4>5, <4>6
      <3>. QED  BY <3>5, <3>6
    <2>. QED  BY <2>1, <2>2, <2>3
  <1>8. \A g \in Goroutines : pc'[g] \in {"owner", "awaitOwner", "platform"} =>
           \A m \in New : m.id = cur'[g] => m.role = "owner"
    BY <1>5
  <1>. QED  BY <1>7, <1>8 DEF SplitsOK

-----------------------------------------------------------------------------
(* The sum of the credits of a set with at most two of them.               *)

SumStep(S, it) ==
    it = [s \in SUBSET S |-> IF s = {} THEN 0
                             ELSE (CHOOSE x \in s : TRUE).amount + it[s \ {CHOOSE x \in s : TRUE}]]

LEMMA SumIsChosen ==
    ASSUME NEW S
    PROVE  MapThenSumSet(LAMBDA c : c.amount, S) = (CHOOSE it : SumStep(S, it))[S]
  BY DEF MapThenSumSet, MapThenFoldSet, SumStep

LEMMA SumOfTwo ==
    ASSUME NEW a, NEW b, a # b, a.amount \in Nat, b.amount \in Nat, NEW S \in SUBSET {a, b}
    PROVE  MapThenSumSet(LAMBDA c : c.amount, S) =
              (IF a \in S THEN a.amount ELSE 0) + (IF b \in S THEN b.amount ELSE 0)
  <1>. DEFINE Sum(s) == (IF a \in s THEN a.amount ELSE 0) + (IF b \in s THEN b.amount ELSE 0)
              pick(s) == CHOOSE x \in s : TRUE
              w == [s \in SUBSET S |-> Sum(s)]
  <1>1. ASSUME NEW s \in SUBSET S, s # {}
        PROVE  /\ pick(s) \in s /\ pick(s) \in {a, b} /\ s \ {pick(s)} \in SUBSET S
               /\ Sum(s) = pick(s).amount + Sum(s \ {pick(s)})
    <2>1. pick(s) \in s
      BY <1>1
    <2>2. pick(s) \in {a, b} /\ s \ {pick(s)} \in SUBSET S
      BY <2>1
    <2>. HIDE DEF pick
    <2>3. CASE pick(s) = a
      BY <2>1, <2>3
    <2>4. CASE pick(s) = b
      BY <2>1, <2>4
    <2>. QED  BY <2>1, <2>2, <2>3, <2>4
  <1>2. Sum({}) = 0
    OBVIOUS
  <1>3. \E it : SumStep(S, it)
    <2>1. ASSUME NEW s \in SUBSET S
          PROVE  w[s] = IF s = {} THEN 0 ELSE pick(s).amount + w[s \ {pick(s)}]
      <3>. HIDE DEF Sum, pick
      <3>. QED  BY <1>1, <1>2
    <2>2. w = [s \in SUBSET S |-> IF s = {} THEN 0 ELSE pick(s).amount + w[s \ {pick(s)}]]
      <3>. HIDE DEF Sum, pick
      <3>. QED  BY <2>1
    <2>3. SumStep(S, w)
      <3>. HIDE DEF w
      <3>. QED  BY <2>2 DEF SumStep
    <2>. HIDE DEF w
    <2>. QED  BY <2>3
  <1>4. PICK it : it = (CHOOSE f : SumStep(S, f)) /\ SumStep(S, it)
    BY <1>3
  <1>5. ASSUME NEW s \in SUBSET S
        PROVE  it[s] = IF s = {} THEN 0 ELSE pick(s).amount + it[s \ {pick(s)}]
    <2>1. it = [t \in SUBSET S |-> IF t = {} THEN 0 ELSE pick(t).amount + it[t \ {pick(t)}]]
      BY <1>4 DEF SumStep
    <2>. HIDE DEF pick
    <2>. QED  BY <2>1
  <1>. HIDE DEF Sum, pick
  <1>6. ASSUME NEW s \in SUBSET S, s = {} \/ s \ {pick(s)} = {}
        PROVE  it[s] = Sum(s)
    BY <1>1, <1>2, <1>5, <1>6
  <1>7. it[S] = Sum(S)
    <2>1. CASE S = {} \/ S \ {pick(S)} = {}
      BY <1>6, <2>1
    <2>2. CASE S # {} /\ S \ {pick(S)} # {}
      <3>1. pick(S) \in {a, b} /\ S \ {pick(S)} \in SUBSET S
        BY <1>1, <2>2
      <3>2. \A x, y \in S \ {pick(S)} : x = y
        BY <3>1
      <3>3. pick(S \ {pick(S)}) \in S \ {pick(S)}
        BY <1>1, <2>2, <3>1
      <3>4. (S \ {pick(S)}) \ {pick(S \ {pick(S)})} = {}
        BY <3>2, <3>3
      <3>5. it[S \ {pick(S)}] = Sum(S \ {pick(S)})
        BY <1>6, <3>1, <3>4
      <3>. QED  BY <1>1, <1>5, <2>2, <3>5
    <2>. QED  BY <2>1, <2>2
  <1>8. MapThenSumSet(LAMBDA c : c.amount, S) = it[S]
    BY <1>4, SumIsChosen
  <1>. QED  BY <1>7, <1>8 DEF Sum

-----------------------------------------------------------------------------
(* The invariant.                                                          *)

LEMMA PayoutInit ==
    ASSUME Init
    PROVE  PayoutInv
  <1>1. /\ earning = << >> /\ DOMAIN earning = {} /\ \A g \in Goroutines : pc[g] = "idle"
        /\ batch = {} /\ requests = {} /\ replies = {} /\ credits = {}
    BY DEF Init
  <1>2. TypeOK
    <2>1. (CHOOSE e \in Events : TRUE) \in Events
      BY RevenueAssumption
    <2>2. event \in [Goroutines -> Events]
      BY <2>1 DEF Init
    <2>3. /\ earning \in Seq(Earnings) /\ rule \in Rules /\ platform \in BOOLEAN
      BY DEF Init
    <2>4. /\ pc \in [Goroutines -> Labels] /\ cur \in [Goroutines -> Nat]
          /\ share \in [Goroutines -> Int]
      BY DEF Init, Labels
    <2>5. delivered \in [Events -> Nat] /\ changes \in Nat /\ faults \in Nat
      BY DEF Init
    <2>. QED  BY <1>1, <2>2, <2>3, <2>4, <2>5 DEF TypeOK
  <1>3. PayersOK /\ OnePayer /\ StrandedByFault /\ SharesOK
    BY <1>1 DEF PayersOK, OnePayer, StrandedByFault, SharesOK, Paying
  <1>4. MessagesOK /\ OwnersOK
    BY <1>1 DEF MessagesOK, OwnersOK, Asked
  <1>5. SplitsOK
    BY <1>1 DEF SplitsOK
  <1>. QED  BY <1>2, <1>3, <1>4, <1>5 DEF PayoutInv

LEMMA PayoutStep ==
    ASSUME PayoutInv, [Next]_vars
    PROVE  PayoutInv'
  <1>1. /\ TypeOK /\ PayersOK /\ OnePayer /\ StrandedByFault /\ SharesOK /\ MessagesOK /\ OwnersOK
        /\ SplitsOK
    BY DEF PayoutInv
  <1>2. StepKind
    BY <1>1, StepKinds
  <1>3. TypeOK'
    BY <1>1, TypeStep
  <1>4. PayersOK' /\ OnePayer'
    BY <1>1, <1>2, LockStep
  <1>5. StrandedByFault'
    BY <1>1, <1>2, StrandedStep
  <1>6. SharesOK'
    BY <1>1, <1>2, SharesStep
  <1>7. MessagesOK'
    BY <1>1, <1>2, MessagesStep
  <1>8. OwnersOK'
    BY <1>1, <1>2, OwnersStep
  <1>9. SplitsOK'
    BY <1>1, <1>2, <1>4, SplitsStep
  <1>. QED  BY <1>3, <1>4, <1>5, <1>6, <1>7, <1>8, <1>9 DEF PayoutInv

LEMMA PayoutAlways == Spec => []PayoutInv
  <1>1. Init => PayoutInv
    BY PayoutInit
  <1>2. PayoutInv /\ [Next]_vars => PayoutInv'
    BY PayoutStep
  <1>. QED  BY <1>1, <1>2, PTL DEF Spec

(* Every variable keeps its type, and goroutines work on earnings there    *)
(* are, although the worker's batch is stale when it is processed.         *)
THEOREM RevenueTypeCorrect == Spec => []TypeOK
  <1>1. PayoutInv => TypeOK
    BY DEF PayoutInv
  <1>. QED  BY <1>1, PayoutAlways, PTL

(* MarkProcessing is a lock: one goroutine at a time pays an earning out.  *)
THEOREM PayoutIsExclusive == Spec => []OnePayer
  <1>1. PayoutInv => OnePayer
    BY DEF PayoutInv
  <1>. QED  BY <1>1, PayoutAlways, PTL

(* An earning stays in processing with nobody at work only after a fault.  *)
THEOREM OnlyFaultsStrand == Spec => []StrandedByFault
  <1>1. PayoutInv => StrandedByFault
    BY DEF PayoutInv
  <1>. QED  BY <1>1, PayoutAlways, PTL

(* MarkDone follows the owner's credit: a done earning has paid its owner. *)
THEOREM DoneHasPaid == Spec => []DoneIsPaid
  <1>1. PayoutInv => DoneIsPaid
    BY DEF PayoutInv, OwnersOK, OwnerPaid, DoneIsPaid, CreditsOf
  <1>. QED  BY <1>1, PayoutAlways, PTL

(* Asked for in two credits that may be lost, late or given up, perhaps    *)
(* sent to the wallet of id zero, while the rule changes: what was         *)
(* credited for an earning is its split by one rule, whatever the rule is. *)
THEOREM SplitExplainsPayout == Spec => []PaidBySplit
  <1>1. ASSUME PayoutInv  PROVE PaidBySplit
    <2>1. TypeOK /\ MessagesOK /\ SplitsOK
      BY <1>1 DEF PayoutInv
    <2>2. SUFFICES ASSUME NEW n \in DOMAIN earning
          PROVE  /\ \A c, d \in CreditsOf(n) : (c.role = "owner") = (d.role = "owner") => c = d
                 /\ CreditsOf(n) # {} =>
                       \E percent \in Percents[earning[n].type] \ {NoRule} :
                           \A c \in CreditsOf(n) : PartOf(n, percent, c.role) - c.amount \in {0, 1}
      BY DEF PaidBySplit
    <2>3. PICK s \in Int, r \in {"platform", "zero"} : SplitBy(n, s, r)
      BY <2>1 DEF SplitsOK
    <2>4. ASSUME NEW c \in CreditsOf(n)
          PROVE  /\ c.id = n /\ c \in credits /\ s \in SharesOf(n)
                 /\ \/ c.role = "owner" /\ s - c.amount \in {0, 1}
                    \/ c.role = r /\ (earning[n].total - s) - c.amount \in {0, 1}
      BY <2>3, <2>4 DEF CreditsOf, SplitBy
    <2>5. ASSUME NEW c \in CreditsOf(n), NEW d \in CreditsOf(n), (c.role = "owner") = (d.role = "owner")
          PROVE  c = d
      <3>1. c.role = d.role /\ c.id = d.id /\ c \in credits /\ d \in credits
        BY <2>3, <2>4, <2>5
      <3>. QED  BY <2>1, <3>1 DEF MessagesOK
    <2>6. ASSUME CreditsOf(n) # {}
          PROVE  \E percent \in Percents[earning[n].type] \ {NoRule} :
                     \A c \in CreditsOf(n) : PartOf(n, percent, c.role) - c.amount \in {0, 1}
      <3>1. PICK percent \in Percents[earning[n].type] \ {NoRule} :
               s = OwnerShare(earning[n].total, percent)
        BY <2>4, <2>6 DEF SharesOf, Shares
      <3>2. ASSUME NEW c \in CreditsOf(n)
            PROVE  PartOf(n, percent, c.role) - c.amount \in {0, 1}
        <4>1. PartOf(n, percent, c.role) = IF c.role = "owner" THEN s ELSE earning[n].total - s
          BY <3>1 DEF PartOf
        <4>. QED  BY <2>3, <2>4, <4>1
      <3>. QED  BY <3>1, <3>2
    <2>. QED  BY <2>5, <2>6
  <1>. QED  BY <1>1, PayoutAlways, PTL

(* The owner's part of a rule is a percentage.  updateRule only checks     *)
(* that the two parts add up to 100.                                       *)
PartsArePercentages == \A t \in Types : Percents[t] \subseteq (0..100) \cup {NoRule}

(* Under rules that give each side a percentage, the payout of an earning  *)
(* never exceeds its total; a rule of 150 and -50 breaks that.             *)
THEOREM PayoutWithinTotal ==
    ASSUME PartsArePercentages
    PROVE  Spec => []PaidWithinTotal
  <1>1. ASSUME PayoutInv  PROVE PaidWithinTotal
    <2>1. TypeOK /\ MessagesOK /\ SplitsOK
      BY <1>1 DEF PayoutInv
    <2>2. SUFFICES ASSUME NEW n \in DOMAIN earning
                   PROVE  MapThenSumSet(LAMBDA c : c.amount, CreditsOf(n)) <= earning[n].total
      BY DEF PaidWithinTotal
    <2>0. earning[n].total \in Nat /\ earning[n].type \in Types
      BY <2>1, EarningFields
    <2>3. PICK s \in 0..earning[n].total, r \in {"platform", "zero"} :
             \A c \in CreditsOf(n) : \/ c.role = "owner" /\ s - c.amount \in {0, 1}
                                     \/ c.role = r /\ (earning[n].total - s) - c.amount \in {0, 1}
      <3>1. PICK s \in Int, r \in {"platform", "zero"} : SplitBy(n, s, r)
        BY <2>1 DEF SplitsOK
      <3>2. ASSUME NEW c \in CreditsOf(n)
            PROVE  /\ s \in SharesOf(n)
                   /\ \/ c.role = "owner" /\ s - c.amount \in {0, 1}
                      \/ c.role = r /\ (earning[n].total - s) - c.amount \in {0, 1}
        BY <3>1, <3>2 DEF CreditsOf, SplitBy
      <3>3. \A p \in Percents[earning[n].type] \ {NoRule} : OwnerShare(earning[n].total, p) \in 0..earning[n].total
        BY <2>0, ShareBounds DEF PartsArePercentages
      <3>4. SharesOf(n) \subseteq 0..earning[n].total
        BY <3>3 DEF SharesOf, Shares
      <3>5. CASE CreditsOf(n) = {}
        <4>1. 0 \in 0..earning[n].total
          BY <2>0
        <4>. QED  BY <3>5, <4>1
      <3>6. CASE CreditsOf(n) # {}
        BY <3>2, <3>4, <3>6
      <3>. QED  BY <3>5, <3>6
    <2>4. earning[n].total \in Nat /\ s \in Nat /\ earning[n].total - s \in Nat
      BY <2>0, <2>3
    <2>5. ASSUME NEW c \in CreditsOf(n)
          PROVE  /\ c \in Credits /\ c.amount \in Nat /\ c.id = n /\ c \in credits
                 /\ \/ c.role = "owner" /\ c.amount <= s
                    \/ c.role = r /\ c.amount <= earning[n].total - s
      <3>1. c \in credits /\ c.id = n /\ c \in Credits
        BY <2>1, <2>5 DEF CreditsOf, TypeOK
      <3>2. c.amount \in Nat
        BY <3>1 DEF Credits
      <3>3. \/ c.role = "owner" /\ c.amount <= s
            \/ c.role = r /\ c.amount <= earning[n].total - s
        BY <2>3, <2>4, <2>5, <3>2
      <3>. QED  BY <3>1, <3>2, <3>3
    <2>. DEFINE none == [id |-> 0, role |-> "none", amount |-> 0]
                other == [id |-> 0, role |-> "other", amount |-> 0]
    <2>6. none # other /\ none.amount = 0 /\ other.amount = 0 /\ none.id = 0 /\ other.id = 0
      <3>1. none.role # other.role
        OBVIOUS
      <3>. QED  BY <3>1
    <2>. HIDE DEF none, other
    <2>7. PICK a : /\ a = none \/ (a \in CreditsOf(n) /\ a.role = "owner")
                   /\ a.amount \in 0..s
                   /\ \A c \in CreditsOf(n) : c.role = "owner" => c = a
      <3>1. CASE \E c \in CreditsOf(n) : c.role = "owner"
        <4>1. PICK a \in CreditsOf(n) : a.role = "owner"
          BY <3>1
        <4>2. \A c \in CreditsOf(n) : c.role = "owner" => c = a
          BY <2>1, <2>5, <4>1 DEF MessagesOK
        <4>3. a.amount \in 0..s
          BY <2>3, <2>4, <2>5, <4>1
        <4>. QED  BY <4>1, <4>2, <4>3
      <3>2. CASE ~\E c \in CreditsOf(n) : c.role = "owner"
        BY <2>4, <2>6, <3>2
      <3>. QED  BY <3>1, <3>2
    <2>8. PICK b : /\ b \in CreditsOf(n) \cup {other} /\ b.amount \in 0..(earning[n].total - s)
                   /\ b # a
                   /\ \A c \in CreditsOf(n) : c.role = r => c = b
      <3>0. CreditsOf(n) \cap {none, other} = {}
        <4>1. n # 0
          BY <2>1, EarningFields
        <4>. QED  BY <2>5, <2>6, <4>1
      <3>1. CASE \E c \in CreditsOf(n) : c.role = r
        <4>1. PICK b \in CreditsOf(n) : b.role = r
          BY <3>1
        <4>2. \A c \in CreditsOf(n) : c.role = r => c = b
          BY <2>1, <2>5, <4>1 DEF MessagesOK
        <4>3. b.amount \in 0..(earning[n].total - s)
          <5>1. r # "owner"
            BY <2>3
          <5>2. b.amount <= earning[n].total - s /\ b.amount \in Nat
            BY <2>5, <4>1, <5>1
          <5>. QED  BY <2>4, <5>2
        <4>4. b # a
          BY <2>3, <2>7, <3>0, <4>1
        <4>. QED  BY <4>1, <4>2, <4>3, <4>4
      <3>2. CASE ~\E c \in CreditsOf(n) : c.role = r
        BY <2>4, <2>6, <2>7, <3>0, <3>2
      <3>. QED  BY <3>1, <3>2
    <2>9. CreditsOf(n) \in SUBSET {a, b}
      BY <2>5, <2>7, <2>8
    <2>10. a.amount \in Nat /\ b.amount \in Nat /\ a.amount + b.amount <= earning[n].total
      BY <2>4, <2>7, <2>8
    <2>11. MapThenSumSet(LAMBDA c : c.amount, CreditsOf(n)) =
              (IF a \in CreditsOf(n) THEN a.amount ELSE 0) + (IF b \in CreditsOf(n) THEN b.amount ELSE 0)
      BY <2>8, <2>9, <2>10, SumOfTwo
    <2>. QED  BY <2>4, <2>10, <2>11
  <1>. QED  BY <1>1, PayoutAlways, PTL

-----------------------------------------------------------------------------
(* One earning per reference: the lookup and the insert of                 *)
(* CreateAndProcess are two calls, so it takes one goroutine to make them. *)
OneListener == \A g, h \in Listeners : g = h

RefsOK ==
    /\ pc[Worker] \notin {"lookup", "create"}
    /\ \A g \in Listeners :
          pc[g] = "create" /\ RefOf[event[g]] # NoRef => ~Known(RefOf[event[g]])
    /\ EarningOncePerRef

(* A listener comes to "create" with a reference it did not find.          *)
LEMMA CreateSource ==
    ASSUME TypeOK, [Next]_vars, NEW g \in Goroutines, pc'[g] \in {"lookup", "create"}
    PROVE  /\ g = Worker => pc[g] \in {"lookup", "create"}
           /\ pc'[g] = "create" =>
                 \/ pc[g] = "create" /\ event'[g] = event[g]
                 \/ RefOf[event'[g]] = NoRef
                 \/ event'[g] = event[g] /\ ~Known(RefOf[event[g]]) /\ earning' = earning
  <1>. DEFINE Goal == /\ g = Worker => pc[g] \in {"lookup", "create"}
                      /\ pc'[g] = "create" =>
                           \/ pc[g] = "create" /\ event'[g] = event[g]
                           \/ RefOf[event'[g]] = NoRef
                           \/ event'[g] = event[g] /\ ~Known(RefOf[event[g]]) /\ earning' = earning
  <1>0. /\ pc \in [Goroutines -> Labels] /\ event \in [Goroutines -> Events]
        /\ Worker \notin Listeners /\ Listeners \subseteq Goroutines /\ Worker \in Goroutines
    BY RevenueAssumption DEF TypeOK, Goroutines
  <1>1. ASSUME pc'[g] = pc[g], event'[g] = event[g]  PROVE Goal
    BY <1>1
  <1>2. ASSUME NEW h \in Goroutines, NEW l, Goto(h, l)
        PROVE  /\ h # g => pc'[g] = pc[g]
               /\ h = g => pc'[g] = l
    BY <1>0, <1>2 DEF Goto
  <1>3. ASSUME NEW h \in Listeners, NEW e \in Events, Deliver(h, e)  PROVE Goal
    <2>1. /\ Goto(h, IF RefOf[e] = NoRef THEN "create" ELSE "lookup")
          /\ event' = [event EXCEPT ![h] = e] /\ h \in Goroutines
      BY <1>0, <1>3 DEF Deliver
    <2>2. CASE h # g
      BY <1>0, <1>1, <1>2, <2>1, <2>2
    <2>3. CASE h = g
      <3>1. g # Worker /\ event'[g] = e
        BY <1>0, <2>1, <2>3
      <3>2. pc'[g] = IF RefOf[e] = NoRef THEN "create" ELSE "lookup"
        BY <1>2, <2>1, <2>3
      <3>. QED  BY <3>1, <3>2
    <2>. QED  BY <2>2, <2>3
  <1>4. ASSUME NEW h \in Goroutines, Lookup(h)  PROVE Goal
    <2>1. /\ Goto(h, IF Known(RefOf[event[h]]) THEN "idle" ELSE "create") /\ pc[h] = "lookup"
          /\ event' = event /\ earning' = earning
      BY <1>4 DEF Lookup, tableVars
    <2>2. CASE h # g
      BY <1>1, <1>2, <2>1, <2>2
    <2>3. CASE h = g
      <3>1. pc'[g] = IF Known(RefOf[event[g]]) THEN "idle" ELSE "create"
        BY <1>2, <2>1, <2>3
      <3>. QED  BY <2>1, <2>3, <3>1
    <2>. QED  BY <2>2, <2>3
  <1>5. ASSUME NEW h \in Goroutines,
               \/ Create(h) \/ ReadRule(h) \/ Claim(h) \/ PayOwner(h) \/ PayPlatform(h) \/ Receive(h)
               \/ GiveUp(h) \/ MarkFailed(h) \/ MarkDone(h) \/ CallFails(h) \/ WalletUnread(h)
        PROVE  Goal
    <2>1. event' = event
      BY <1>5 DEF Create, ReadRule, Claim, PayOwner, PayPlatform, Receive, GiveUp, MarkFailed,
                  MarkDone, CallFails, WalletUnread
    <2>2. \E l \in Labels \ {"lookup", "create"} : Goto(h, l)
      <3>1. CASE Create(h) \/ ReadRule(h)
        BY <3>1 DEF Create, ReadRule, Labels
      <3>2. CASE Claim(h)
        BY <3>2 DEF Claim, Labels
      <3>3. CASE PayOwner(h) \/ PayPlatform(h) \/ WalletUnread(h)
        BY <3>3 DEF PayOwner, PayPlatform, WalletUnread, Labels
      <3>4. CASE Receive(h) \/ GiveUp(h)
        BY <3>4 DEF Receive, GiveUp, Labels
      <3>5. CASE MarkFailed(h) \/ MarkDone(h) \/ CallFails(h)
        BY <3>5 DEF MarkFailed, MarkDone, CallFails, Labels
      <3>. QED  BY <1>5, <3>1, <3>2, <3>3, <3>4, <3>5
    <2>3. h # g
      BY <1>2, <2>2
    <2>. QED  BY <1>1, <1>2, <2>1, <2>2, <2>3
  <1>6. ASSUME ListBatch \/ Administer \/ UNCHANGED vars \/ \E m \in requests : Serve(m) \/ Lose(m)
        PROVE  Goal
    <2>1. UNCHANGED <<pc, event>>
      BY <1>6 DEF ListBatch, Administer, vars, localVars, Serve, Lose
    <2>. QED  BY <1>1, <2>1
  <1>7. ASSUME TakeEarning  PROVE Goal
    <2>1. Goto(Worker, "rule") /\ event' = event
      BY <1>7 DEF TakeEarning
    <2>2. Worker # g
      BY <1>0, <1>2, <2>1
    <2>. QED  BY <1>0, <1>1, <1>2, <2>1, <2>2
  <1>8. ~Crash
    BY DEF Crash
  <1>. HIDE DEF Goal
  <1>9. Goal
    BY <1>3, <1>4, <1>5, <1>6, <1>7, <1>8 DEF Next, Process
  <1>. QED  BY <1>9 DEF Goal

LEMMA RefsStep ==
    ASSUME OneListener, PayoutInv, RefsOK, [Next]_vars
    PROVE  RefsOK'
  <1>0. /\ TypeOK /\ SharesOK /\ StepKind /\ Worker \in Goroutines /\ Listeners \subseteq Goroutines
        /\ Goroutines = Listeners \cup {Worker}
    BY StepKinds DEF PayoutInv, Goroutines
  <1>1. pc'[Worker] \notin {"lookup", "create"}
    BY <1>0, CreateSource DEF RefsOK
  <1>2. ASSUME NEW g \in Goroutines, Creates(g)
        PROVE  /\ g \in Listeners /\ event[g] \in Events /\ pc'[g] # "create"
               /\ DOMAIN earning' = DOMAIN earning \cup {NewId}
               /\ \A n \in DOMAIN earning : earning'[n] = earning[n]
               /\ earning'[NewId].ref = RefOf[event[g]]
               /\ RefOf[event[g]] # NoRef => ~Known(RefOf[event[g]])
    <2>1. /\ pc[g] = "create" /\ event[g] \in Events /\ earning' = WithNew(event[g])
          /\ pc'[g] # "create"
      BY <1>2 DEF Creates
    <2>2. g \in Listeners
      BY <1>0, <2>1 DEF RefsOK
    <2>. QED  BY <1>0, <2>1, <2>2, NewFacts DEF RefsOK
  <1>3. ASSUME ~\E g \in Goroutines : Creates(g)
        PROVE  /\ DOMAIN earning' = DOMAIN earning
               /\ \A n \in DOMAIN earning : earning'[n].ref = earning[n].ref
    <2>1. \A n \in DOMAIN earning : earning'[n].ref = earning[n].ref
      BY <1>0, TableGrows
    <2>2. \/ earning' = earning
          \/ \E g \in Goroutines : Locks(g) \/ Ends(g)
      BY <1>0, <1>3 DEF StepKind, Before, Asks, Goes, Serve, Lose, Crash, tableVars
    <2>3. ASSUME NEW g \in Goroutines, Locks(g) \/ Ends(g)  PROVE DOMAIN earning' = DOMAIN earning
      <3>1. \/ earning' = WithStatus(cur[g], "processing")
            \/ earning' = WithStatus(cur[g], "failed")
            \/ earning' = WithResult(cur[g], share[g])
        BY <2>3 DEF Locks, Ends
      <3>. QED  BY <3>1 DEF WithStatus, WithResult
    <2>. QED  BY <2>1, <2>2, <2>3
  <1>4. EarningOncePerRef'
    <2>1. CASE \E g \in Goroutines : Creates(g)
      <3>1. PICK g \in Goroutines : Creates(g)
        BY <2>1
      <3>2. ASSUME NEW m \in DOMAIN earning', NEW n \in DOMAIN earning',
                   earning'[m].ref = earning'[n].ref, earning'[m].ref # NoRef
            PROVE  m = n
        BY <1>2, <3>1, <3>2 DEF RefsOK, EarningOncePerRef, Known
      <3>. QED  BY <3>2 DEF EarningOncePerRef
    <2>2. CASE ~\E g \in Goroutines : Creates(g)
      BY <1>3, <2>2 DEF RefsOK, EarningOncePerRef
    <2>. QED  BY <2>1, <2>2
  <1>5. ASSUME NEW g \in Listeners, pc'[g] = "create", RefOf[event'[g]] # NoRef,
               NEW ref, ref = RefOf[event'[g]]
        PROVE  \A n \in DOMAIN earning' : earning'[n].ref # ref
    <2>1. \/ pc[g] = "create" /\ event'[g] = event[g]
          \/ event'[g] = event[g] /\ ~Known(RefOf[event[g]]) /\ earning' = earning
      BY <1>0, <1>5, CreateSource
    <2>2. ~Known(ref)
      BY <1>5, <2>1 DEF RefsOK
    <2>3. ~\E h \in Goroutines : Creates(h)
      BY <1>2, <1>5 DEF OneListener
    <2>. QED  BY <1>3, <2>2, <2>3 DEF Known
  <1>6. \A g \in Listeners : pc'[g] = "create" /\ RefOf[event'[g]] # NoRef =>
           ~\E n \in DOMAIN earning' : earning'[n].ref = RefOf[event'[g]]
    BY <1>5
  <1>. QED  BY <1>1, <1>4, <1>6 DEF RefsOK, Known

(* FindEarningByRefID: with one goroutine that creates earnings, an event  *)
(* that is reported again, after a crash or a call that failed, makes no   *)
(* second earning of its reference.                                        *)
THEOREM EarningOnce ==
    ASSUME OneListener
    PROVE  Spec => []EarningOncePerRef
  <1>. DEFINE Inv == PayoutInv /\ RefsOK
  <1>1. Init => Inv
    <2>1. ASSUME Init  PROVE RefsOK
      <3>1. DOMAIN earning = {} /\ \A g \in Goroutines : pc[g] = "idle"
        BY <2>1 DEF Init
      <3>. QED  BY <3>1 DEF RefsOK, EarningOncePerRef, Goroutines
    <2>. QED  BY <2>1, PayoutInit
  <1>2. Inv /\ [Next]_vars => Inv'
    BY PayoutStep, RefsStep
  <1>3. Inv => EarningOncePerRef
    BY DEF RefsOK
  <1>. QED  BY <1>1, <1>2, <1>3, PTL DEF Spec

-----------------------------------------------------------------------------
(* What is recorded as the owner's share is what the owner was asked for:  *)
(* the rule may change and requests may be served late, but an earning has *)
(* one payer and its payer one share.                                      *)
OwnerAsked(n, s) ==
    \A m \in requests \cup credits : m.id = n /\ m.role = "owner" => m = Credit(n, "owner", s)

RecordOK ==
    /\ \A g \in Goroutines : Paying(g) => OwnerAsked(cur[g], share[g])
    /\ \A n \in DOMAIN earning : earning[n].status = "done" => OwnerAsked(n, earning[n].owner)

(* A new message to an owner is the payer's share of its earning.          *)
LEMMA OwnerSource ==
    ASSUME TypeOK, PayersOK, SharesOK, StepKind, NEW m \in requests' \cup credits',
           m \notin requests \cup credits, m.role = "owner"
    PROVE  \E g \in Goroutines :
              /\ Paying(g) /\ earning[cur[g]].status = "processing"
              /\ m = Credit(cur[g], "owner", share[g]) /\ m.id = cur[g]
              /\ UNCHANGED earning
  <1>1. PICK g \in Goroutines : Asks(g) /\ requests' = requests \cup {m}
    BY MessageSource
  <1>2. Paying(g) /\ earning[cur[g]].status = "processing"
    BY <1>1, AskerPays
  <1>3. ASSUME NEW role, NEW a, Ask(g, role, a)  PROVE m = Credit(cur[g], role, a)
    BY <1>1, <1>3 DEF Ask
  <1>4. ASSUME NEW role, NEW a, m = Credit(cur[g], role, a)  PROVE m.role = role /\ m.id = cur[g]
    BY <1>4 DEF Credit
  <1>5. ~\E role \in {"platform", "zero"} : Ask(g, role, Rest(g))
    BY <1>3, <1>4
  <1>6. Ask(g, "owner", share[g]) /\ UNCHANGED earning
    BY <1>1, <1>5 DEF Asks
  <1>. QED  BY <1>2, <1>3, <1>4, <1>6

LEMMA RecordStep ==
    ASSUME TypeOK, PayersOK, OnePayer, SharesOK, MessagesOK, RecordOK, StepKind
    PROVE  RecordOK'
  <1>. DEFINE New == requests' \cup credits'
              Old == requests \cup credits
  <1>1. ASSUME NEW h \in Goroutines, Paying(h)', NEW m \in New, m.id = cur'[h], m.role = "owner"
        PROVE  m = Credit(cur'[h], "owner", share'[h])
    <2>1. pc'[h] \in PayingLabels
      BY <1>1 DEF Paying, PayingLabels
    <2>2. Keeps(h) /\ (pc[h] \in PayingLabels \/ Locks(h))
      BY <2>1, PayerSource
    <2>3. CASE Locks(h)
      <3>1. m \in Old /\ earning[cur[h]].status = "pending"
        BY <1>1, <2>3 DEF Locks, netVars
      <3>2. m.id = cur[h]
        BY <1>1, <2>2 DEF Keeps
      <3>. QED  BY <3>1, <3>2 DEF MessagesOK, Asked
    <2>4. CASE pc[h] \in PayingLabels
      <3>1. Paying(h) /\ m.id = cur[h]
        BY <1>1, <2>2, <2>4 DEF Paying, PayingLabels, Keeps
      <3>2. CASE m \in Old
        BY <1>1, <2>2, <3>1, <3>2 DEF RecordOK, OwnerAsked, Keeps
      <3>3. CASE m \notin Old
        <4>1. PICK g \in Goroutines :
                 Paying(g) /\ m = Credit(cur[g], "owner", share[g]) /\ m.id = cur[g]
          BY <1>1, <3>3, OwnerSource
        <4>2. g = h
          BY <3>1, <4>1 DEF OnePayer
        <4>. QED  BY <2>2, <4>1, <4>2 DEF Keeps
      <3>. QED  BY <3>2, <3>3
    <2>. QED  BY <2>2, <2>3, <2>4
  <1>2. ASSUME NEW n \in DOMAIN earning', earning'[n].status = "done",
               NEW m \in New, m.id = n, m.role = "owner"
        PROVE  m = Credit(n, "owner", earning'[n].owner)
    <2>1. n \in DOMAIN earning
      BY <1>2, TableGrows
    <2>2. CASE earning'[n] = earning[n]
      <3>1. earning[n].status = "done"
        BY <1>2, <2>2
      <3>2. m \in Old
        BY <1>2, <3>1, OwnerSource
      <3>. QED  BY <1>2, <2>1, <2>2, <3>1, <3>2 DEF RecordOK, OwnerAsked
    <2>3. ASSUME NEW g \in Goroutines, Ends(g), cur[g] = n, earning'[n].owner = share[g]
          PROVE  m = Credit(n, "owner", earning'[n].owner)
      <3>1. Paying(g) /\ m \in Old
        BY <1>2, <2>3, EndsPays DEF Ends, netVars
      <3>. QED  BY <1>2, <2>3, <3>1 DEF RecordOK, OwnerAsked
    <2>. QED  BY <1>2, <2>1, <2>2, <2>3, RowChanges
  <1>. QED  BY <1>1, <1>2 DEF RecordOK, OwnerAsked, Credit, Paying

(* The owner of a done earning was credited the share that MarkDone wrote  *)
(* down, but for the nano the float may lose on its way.                   *)
PaidAsRecorded ==
    \A n \in DOMAIN earning, c \in credits :
        c.id = n /\ c.role = "owner" /\ earning[n].status = "done"
        => c.amount = IF earning[n].owner \in Lossy THEN earning[n].owner - 1 ELSE earning[n].owner

(* OwnerNano is what the owner was credited, to the float's rounding: a    *)
(* changed rule, a late answer or a fault never makes the two diverge.     *)
THEOREM RecordFollowsPayment == Spec => []PaidAsRecorded
  <1>. DEFINE Inv == PayoutInv /\ RecordOK
  <1>1. Init => Inv
    <2>1. ASSUME Init  PROVE RecordOK
      <3>1. DOMAIN earning = {} /\ \A g \in Goroutines : pc[g] = "idle"
        BY <2>1 DEF Init
      <3>. QED  BY <3>1 DEF RecordOK, Paying
    <2>. QED  BY <2>1, PayoutInit
  <1>2. Inv /\ [Next]_vars => Inv'
    <2>1. ASSUME Inv, [Next]_vars  PROVE RecordOK'
      <3>1. StepKind
        BY <2>1, StepKinds DEF PayoutInv
      <3>. QED  BY <2>1, <3>1, RecordStep DEF PayoutInv
    <2>. QED  BY <2>1, PayoutStep
  <1>3. Inv => PaidAsRecorded
    BY DEF RecordOK, OwnerAsked, PaidAsRecorded, Credit
  <1>. QED  BY <1>1, <1>2, <1>3, PTL DEF Spec

(* Where no amount suffers from its way through a float of TON, OwnerNano  *)
(* is what the owner was credited.                                         *)
THEOREM RecordIsPayment ==
    ASSUME Lossy = {}
    PROVE  Spec => []RecordedIsPaid
  <1>1. PaidAsRecorded => RecordedIsPaid
    BY DEF PaidAsRecorded, RecordedIsPaid
  <1>. QED  BY <1>1, RecordFollowsPayment, PTL
=============================================================================
