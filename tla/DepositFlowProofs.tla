------------------------- MODULE DepositFlowProofs -------------------------
(***************************************************************************)
(* Why an invoice counts only money that arrived: TLAPS proofs about       *)
(* DepositFlow for any payments, invoices, workers, windows, faults and    *)
(* restarts.                                                               *)
(*                                                                         *)
(* The deposit path is the consensus engine with a client, so what is      *)
(* proved of Consensus holds here: an id is approved once, ever.  A hash   *)
(* that is booked was approved, therefore the handler that has just been   *)
(* given an approval finds its hash not booked, and its receipt comes with *)
(* a deposit of its own.                                                   *)
(***************************************************************************)
EXTENDS DepositFlow, ConsensusProofs, WellFoundedInduction

(* A set of natural numbers that is not empty has a least one.             *)
LEMMA LeastNat ==
    ASSUME NEW S, S \subseteq Nat, S # {}
    PROVE  \E x \in S : \A y \in S : x <= y
  <1>. DEFINE R == OpToRel(<, Nat)
  <1>1. PICK x \in S : \A y \in S : <<y, x>> \notin R
    <2>. HIDE DEF R
    <2>1. IsWellFoundedOn(R, Nat)
      BY NatLessThanWellFounded DEF R
    <2>. QED  BY <2>1, WFMin
  <1>2. ASSUME NEW y \in S  PROVE x <= y
    <2>1. <<y, x>> \in Nat \X Nat /\ x \in Nat /\ y \in Nat
      OBVIOUS
    <2>2. ~(y < x)
      BY <1>1, <2>1 DEF OpToRel
    <2>. QED  BY <2>1, <2>2
  <1>. QED  BY <1>2

-----------------------------------------------------------------------------
(* The equation of the sums in Total.                                      *)
Adds(f, c, n) == f = [k \in 0..n |-> IF k = 0 THEN 0 ELSE f[k-1] + c[k]]

(* It has a solution: take the least n for which it had none.              *)
LEMMA SumExists ==
    ASSUME NEW c, NEW n \in Nat
    PROVE  \E f : Adds(f, c, n)
  <1>. DEFINE Bad == {m \in Nat : ~\E f : Adds(f, c, m)}
  <1>1. SUFFICES ASSUME Bad # {}  PROVE FALSE
    OBVIOUS
  <1>2. Bad \subseteq Nat
    OBVIOUS
  <1>3. PICK m \in Bad : \A j \in Bad : m <= j
    <2>. HIDE DEF Bad
    <2>. QED  BY <1>1, <1>2, LeastNat
  <1>4. m # 0
    <2>. DEFINE z == [k \in 0..0 |-> 0]
    <2>1. Adds(z, c, 0)
      BY DEF Adds
    <2>. QED  BY <1>3, <2>1
  <1>5. m \in Nat /\ m-1 \in Nat /\ m-1 \notin Bad
    BY <1>3, <1>4
  <1>6. PICK f : Adds(f, c, m-1)
    BY <1>5
  <1>. DEFINE g == [k \in 0..m |-> IF k = m THEN f[m-1] + c[m] ELSE f[k]]
  <1>7. \A k \in 0..(m-1) : f[k] = IF k = 0 THEN 0 ELSE f[k-1] + c[k]
    BY <1>5, <1>6 DEF Adds
  <1>8. \A k \in 0..m : g[k] = IF k = 0 THEN 0 ELSE g[k-1] + c[k]
    BY <1>4, <1>5, <1>7
  <1>9. Adds(g, c, m)
    BY <1>5, <1>8 DEF Adds
  <1>. QED  BY <1>3, <1>9

(* Total is the last value of a solution.                                  *)
LEMMA TotalIs ==
    ASSUME NEW c, NEW n \in Nat
    PROVE  \E f : Adds(f, c, n) /\ Total(c, n) = f[n]
  <1>. DEFINE sum == CHOOSE f : Adds(f, c, n)
  <1>1. Adds(sum, c, n)
    BY SumExists
  <1>2. Total(c, n) = sum[n]
    BY DEF Total, Adds
  <1>. QED  BY <1>1, <1>2

(* Solutions for sequences that agree agree.                               *)
LEMMA SumsAgree ==
    ASSUME NEW c, NEW d, NEW f, NEW g, NEW n \in Nat,
           Adds(f, c, n), Adds(g, d, n), \A k \in 1..n : c[k] = d[k]
    PROVE  f[n] = g[n]
  <1>. DEFINE Bad == {k \in 0..n : f[k] # g[k]}
  <1>1. \A k \in 0..n : f[k] = IF k = 0 THEN 0 ELSE f[k-1] + c[k]
    BY DEF Adds
  <1>2. \A k \in 0..n : g[k] = IF k = 0 THEN 0 ELSE g[k-1] + d[k]
    BY DEF Adds
  <1>3. SUFFICES ASSUME Bad # {}  PROVE FALSE
    OBVIOUS
  <1>4. Bad \subseteq Nat
    OBVIOUS
  <1>5. PICK k \in Bad : \A j \in Bad : k <= j
    <2>. HIDE DEF Bad
    <2>. QED  BY <1>3, <1>4, LeastNat
  <1>6. k # 0
    BY <1>1, <1>2, <1>5
  <1>7. k \in 0..n /\ k \in 1..n /\ k-1 \in 0..n /\ f[k-1] = g[k-1]
    BY <1>5, <1>6
  <1>. QED  BY <1>1, <1>2, <1>5, <1>6, <1>7

LEMMA TotalSame ==
    ASSUME NEW c, NEW d, NEW n \in Nat, \A k \in 1..n : c[k] = d[k]
    PROVE  Total(c, n) = Total(d, n)
  <1>1. PICK f : Adds(f, c, n) /\ Total(c, n) = f[n]
    BY TotalIs
  <1>2. PICK g : Adds(g, d, n) /\ Total(d, n) = g[n]
    BY TotalIs
  <1>. QED  BY <1>1, <1>2, SumsAgree

LEMMA TotalStep ==
    ASSUME NEW c, NEW d, NEW n \in Nat, NEW m \in Nat, m = n + 1, \A k \in 1..n : c[k] = d[k]
    PROVE  Total(d, m) = Total(c, n) + d[m]
  <1>1. PICK f : Adds(f, c, n) /\ Total(c, n) = f[n]
    BY TotalIs
  <1>2. PICK g : Adds(g, d, m) /\ Total(d, m) = g[m]
    BY TotalIs
  <1>3. f[n] = g[n]
    <2>. DEFINE h == [k \in 0..n |-> g[k]]
    <2>1. \A k \in 0..n : h[k] = IF k = 0 THEN 0 ELSE h[k-1] + d[k]
      BY <1>2 DEF Adds
    <2>2. Adds(h, d, n)
      BY <2>1 DEF Adds
    <2>3. h[n] = g[n]
      OBVIOUS
    <2>. HIDE DEF h
    <2>4. f[n] = h[n]
      BY <1>1, <2>2, SumsAgree
    <2>. QED  BY <2>3, <2>4
  <1>4. g[m] = g[n] + d[m]
    BY <1>2 DEF Adds
  <1>. QED  BY <1>1, <1>2, <1>3, <1>4

LEMMA TotalNat ==
    ASSUME NEW c, NEW n \in Nat, \A k \in 1..n : c[k] \in Nat
    PROVE  Total(c, n) \in Nat
  <1>1. PICK f : Adds(f, c, n) /\ Total(c, n) = f[n]
    BY TotalIs
  <1>. DEFINE Bad == {k \in 0..n : f[k] \notin Nat}
  <1>2. \A k \in 0..n : f[k] = IF k = 0 THEN 0 ELSE f[k-1] + c[k]
    BY <1>1 DEF Adds
  <1>3. SUFFICES ASSUME Bad # {}  PROVE FALSE
    BY <1>1
  <1>4. Bad \subseteq Nat
    OBVIOUS
  <1>5. PICK k \in Bad : \A j \in Bad : k <= j
    <2>. HIDE DEF Bad
    <2>. QED  BY <1>3, <1>4, LeastNat
  <1>6. k # 0
    BY <1>2, <1>5
  <1>7. k \in 0..n /\ k \in 1..n /\ k-1 \in 0..n /\ f[k-1] \in Nat
    BY <1>5, <1>6
  <1>. QED  BY <1>2, <1>5, <1>6, <1>7

-----------------------------------------------------------------------------
(* Every step of the deposit path is a step of the consensus engine or     *)
(* leaves it alone.                                                        *)
LEMMA FlowIsConsensus ==
    ASSUME FlowTypeOK, step = "match" => cur \in Txs, [FlowNext]_vars
    PROVE  [Next]_consensusVars
  <1>1. ASSUME NEW t \in Txs, Collect(t) \/ \E w \in Workers : Examine(t, w) \/ Record(t, w)
        PROVE  Next
    BY <1>1 DEF Next
  <1>2. CASE Votings
    BY <1>1, <1>2 DEF Votings
  <1>3. ASSUME NEW t \in Txs, TimesOut(t)  PROVE Next
    BY <1>3 DEF TimesOut, Next
  <1>4. CASE Match
    BY <1>4 DEF Match, Next
  <1>5. CASE Restart
    BY <1>5 DEF Restart, Next
  <1>6. CASE UNCHANGED vars
    BY <1>6 DEF vars
  <1>7. ASSUME NEW i \in Invoices, CreateInvoice(i)  PROVE UNCHANGED consensusVars
    BY <1>7 DEF CreateInvoice
  <1>8. ASSUME NEW t \in Txs, NEW c \in Comments[t], Arrive(t, c)  PROVE UNCHANGED consensusVars
    BY <1>8 DEF Arrive
  <1>9. CASE Poll \/ PassOver \/ TakeTx \/ Verdict \/ Deposit \/ AddInvoiceReceipt \/ Announce
            \/ CallFails
    BY <1>9 DEF Poll, PassOver, TakeTx, Verdict, Deposit, AddInvoiceReceipt, Announce, CallFails
  <1>. QED  BY <1>2, <1>3, <1>4, <1>5, <1>6, <1>7, <1>8, <1>9 DEF FlowNext, Handler

-----------------------------------------------------------------------------
(* What is handled or booked came with a transaction of the chain, whose   *)
(* comment no longer changes.                                              *)
ChainOK ==
    /\ \A k \in DOMAIN batch : batch[k] \in ToSet(onchain)
    /\ step # "idle" => cur \in ToSet(onchain)
    /\ \A n \in DOMAIN rows : rows[n].hash \in ToSet(onchain)

(* What the handler knows of its transaction.                              *)
HandlerOK ==
    /\ step # "idle" => cur \in Txs /\ Value[cur] > 0
    /\ step \notin {"idle", "match"} =>
          /\ dest \in Wallets
          /\ found \in Invoices => dest = Owner[found] /\ comment[cur] = found
    /\ step \in {"receipt", "announce"} => found \in Invoices
    /\ step = "deposit" => phase[cur] = "approved"

(* A booked hash was approved, and one that has just been approved is not  *)
(* booked yet.                                                             *)
BookingOK ==
    /\ \A n \in DOMAIN rows : approvals[rows[n].hash] > 0
    /\ step \in {"verify", "deposit"} /\ phase[cur] = "approved" => ~Booked(cur)

Covered(i) == Funded(i) >= Price[i] /\ Funded(i) > 0

(* A receipt that is about to be added has its deposit, and an invoice     *)
(* that is about to be announced is covered.                               *)
ReceiptOK ==
    \A i \in Invoices : found = i =>
        /\ step = "receipt" => invoice[i].received + Value[cur] <= Funded(i)
        /\ step = "announce" => Covered(i)

FlowInv ==
    /\ ConsensusInv /\ FlowTypeOK /\ ChainOK /\ HandlerOK /\ BookingOK
    /\ ReceiptOK /\ InvoiceBacked /\ AnnouncedIsFunded

-----------------------------------------------------------------------------
(* Types.                                                                  *)

Deposited == [hash : Txs, wallet : Wallets, amount : Nat]

Invoiced == [status : {"none", "pending", "paid"}, received : Nat]

Steps == {"idle", "match", "verify", "deposit", "receipt", "announce"}

LEMMA FetchedType ==
    ASSUME onchain \in Seq(Txs)
    PROVE  Fetched \in Seq(Txs) /\ \A k \in DOMAIN Fetched : Fetched[k] \in ToSet(onchain)
  <1>. DEFINE n == Len(onchain)
              m == IF n < Window THEN n ELSE Window
  <1>1. n \in Nat /\ m \in Nat /\ m <= n /\ DOMAIN onchain = 1..n
    BY FlowAssumption
  <1>2. Fetched = [k \in 1..m |-> onchain[n - k + 1]]
    BY DEF Fetched
  <1>. HIDE DEF n, m
  <1>3. ASSUME NEW k \in 1..m
        PROVE  onchain[n - k + 1] \in Txs /\ onchain[n - k + 1] \in ToSet(onchain)
    <2>1. n - k + 1 \in DOMAIN onchain
      BY <1>1
    <2>. QED  BY <2>1 DEF ToSet
  <1>. QED  BY <1>1, <1>2, <1>3

LEMMA BookedRowsType ==
    ASSUME FlowTypeOK, HandlerOK, step = "deposit"
    PROVE  BookedRows \in Seq(Deposited)
  <1>1. [hash |-> cur, wallet |-> dest, amount |-> Value[cur]] \in Deposited
    BY ConsensusAssumption DEF HandlerOK, Deposited
  <1>2. rows \in Seq(Deposited)
    BY DEF FlowTypeOK, Deposited
  <1>. QED  BY <1>1, <1>2 DEF BookedRows

LEMMA ReceiptType ==
    ASSUME FlowTypeOK, HandlerOK, step = "receipt"
    PROVE  ReceiptAdded \in [Invoices -> Invoiced]
  <1>1. found \in Invoices /\ Value[cur] \in Nat /\ invoice \in [Invoices -> Invoiced]
    BY ConsensusAssumption DEF HandlerOK, FlowTypeOK, Invoiced
  <1>. QED  BY <1>1 DEF ReceiptAdded, Invoiced

(* The variables of the watcher when a handler returns.                    *)
HandlerTypes ==
    /\ step \in Steps
    /\ cur \in Txs \cup {None} /\ found \in Invoices \cup {None} /\ dest \in Wallets \cup {None}

LEMMA FlowTypeStep ==
    ASSUME FlowTypeOK, HandlerOK, [FlowNext]_vars
    PROVE  FlowTypeOK'
  <1>0. TypeOK'
    BY FlowIsConsensus, TypeStep DEF FlowTypeOK, HandlerOK
  <1>. USE DEF FlowTypeOK
  <1>1. ASSUME NEW i \in Invoices, CreateInvoice(i)  PROVE FlowTypeOK'
    BY <1>0, <1>1 DEF CreateInvoice, chainVars, watcherVars
  <1>2. ASSUME NEW t \in Txs, NEW c \in Comments[t], Arrive(t, c)  PROVE FlowTypeOK'
    <2>1. c \in Invoices \cup Wallets \cup {None}
      BY FlowAssumption
    <2>. QED  BY <1>0, <1>2, <2>1 DEF Arrive, watcherVars, tableVars
  <1>3. CASE Poll
    BY <1>0, <1>3, FetchedType DEF Poll, chainVars, tableVars
  <1>4. CASE PassOver
    BY <1>0, <1>4 DEF PassOver, chainVars, tableVars
  <1>5. CASE TakeTx
    <2>1. Head(batch) \in Txs /\ Tail(batch) \in Seq(Txs)
      BY <1>5 DEF TakeTx
    <2>. QED  BY <1>0, <1>5, <2>1 DEF TakeTx, chainVars, tableVars
  <1>6. CASE Match
    <2>1. HandlerTypes'
      BY <1>6, FlowAssumption DEF Match, HandlerReturns, HandlerTypes, Steps
    <2>. QED  BY <1>0, <1>6, <2>1 DEF Match, chainVars, tableVars, HandlerTypes, Steps
  <1>7. CASE Verdict
    BY <1>0, <1>7 DEF Verdict, HandlerReturns, chainVars, tableVars
  <1>8. CASE Deposit
    <2>1. HandlerTypes'
      BY <1>8 DEF Deposit, HandlerReturns, HandlerTypes, Steps
    <2>2. rows' \in Seq(Deposited)
      BY <1>8, BookedRowsType DEF Deposit
    <2>. QED  BY <1>0, <1>8, <2>1, <2>2 DEF Deposit, chainVars, HandlerTypes, Steps, Deposited
  <1>9. CASE AddInvoiceReceipt
    <2>1. HandlerTypes'
      BY <1>9 DEF AddInvoiceReceipt, AfterReceipt, HandlerReturns, HandlerTypes, Steps
    <2>2. invoice' \in [Invoices -> Invoiced]
      BY <1>9, ReceiptType DEF AddInvoiceReceipt
    <2>. QED  BY <1>0, <1>9, <2>1, <2>2 DEF AddInvoiceReceipt, chainVars, HandlerTypes, Steps, Invoiced
  <1>10. CASE Announce
    <2>1. announced' \in [Invoices -> Nat]
      BY <1>10 DEF Announce, HandlerOK
    <2>. QED  BY <1>0, <1>10, <2>1 DEF Announce, HandlerReturns, chainVars, tableVars
  <1>11. CASE Votings
    BY <1>0, <1>11 DEF Votings, flowVars, chainVars, watcherVars, tableVars
  <1>12. ASSUME NEW t \in Txs, TimesOut(t)  PROVE FlowTypeOK'
    BY <1>0, <1>12 DEF TimesOut, chainVars, watcherVars, tableVars
  <1>13. CASE CallFails
    <2>1. HandlerTypes'
      BY <1>13 DEF CallFails, AfterReceipt, HandlerReturns, HandlerTypes, Steps
    <2>2. rows' \in Seq(Deposited)
      <3>1. rows \in Seq(Deposited)
        BY DEF Deposited
      <3>. QED  BY <1>13, <3>1, BookedRowsType DEF CallFails, tableVars
    <2>3. invoice' \in [Invoices -> Invoiced]
      <3>1. invoice \in [Invoices -> Invoiced]
        BY DEF Invoiced
      <3>. QED  BY <1>13, <3>1, ReceiptType DEF CallFails, tableVars
    <2>4. faults' \in 0..MaxFaults /\ hurt' \subseteq Txs
      BY <1>13, FlowAssumption DEF CallFails, HandlerOK
    <2>. QED  BY <1>0, <1>13, <2>1, <2>2, <2>3, <2>4
              DEF CallFails, chainVars, HandlerTypes, Steps, Deposited, Invoiced
  <1>14. CASE Restart
    <2>1. hurt' \subseteq Txs
      BY <1>14 DEF Restart
    <2>. QED  BY <1>0, <1>14, <2>1 DEF Restart, HandlerReturns, chainVars, tableVars
  <1>15. CASE UNCHANGED vars
    BY <1>0, <1>15 DEF vars, flowVars, chainVars, watcherVars, tableVars
  <1>. QED  BY <1>1, <1>2, <1>3, <1>4, <1>5, <1>6, <1>7, <1>8, <1>9, <1>10, <1>11, <1>12, <1>13,
               <1>14, <1>15 DEF FlowNext, Handler

-----------------------------------------------------------------------------
(* What a step does to the verdict on t: approvals are not taken back, an  *)
(* approval is the first, and it stands until the process ends.            *)
LEMMA VerdictMoves ==
    ASSUME ConsensusInv, ConsensusInv', [Next]_consensusVars, NEW t \in Txs
    PROVE  /\ approvals[t] > 0 => approvals'[t] > 0
           /\ phase'[t] = "approved" => phase[t] = "approved" \/ approvals[t] = 0
           /\ phase[t] = "approved" => phase'[t] = "approved" \/ ForgetVotes
  <1>. DEFINE Goal == /\ approvals[t] > 0 => approvals'[t] > 0
                      /\ phase'[t] = "approved" => phase[t] = "approved" \/ approvals[t] = 0
                      /\ phase[t] = "approved" => phase'[t] = "approved" \/ ForgetVotes
  <1>1. /\ approvals \in [Txs -> Nat] /\ approvals' \in [Txs -> Nat]
        /\ phase \in [Txs -> Phases]
        /\ approvals'[t] > 0 => approvals'[t] = 1
    BY DEF ConsensusInv, TypeOK, ApprovalBars
  <1>2. ASSUME NEW x \in Txs, StartVerify(x)  PROVE Goal
    BY <1>1, <1>2 DEF StartVerify
  <1>3. ASSUME NEW x \in Txs, Decide(x)  PROVE Goal
    BY <1>1, <1>3 DEF Decide
  <1>4. CASE ForgetVotes
    <2>1. phase' = [x \in Txs |-> "idle"] /\ approvals' = approvals
      BY <1>4, FlowAssumption DEF ForgetVotes
    <2>. QED  BY <1>4, <2>1
  <1>5. CASE UNCHANGED <<phase, approvals>>
    BY <1>5
  <1>6. ASSUME NEW x \in Txs, NEW w \in Workers,
               Expire(x) \/ TakeVote(x, w) \/ TakeTimeout(x) \/ Examine(x, w) \/ Record(x, w)
        PROVE  UNCHANGED <<phase, approvals>>
    BY <1>6 DEF Expire, TakeVote, TakeTimeout, Examine, Record, engineVars
  <1>7. ASSUME NEW x \in Txs, Expire(x) \/ TakeTimeout(x)  PROVE UNCHANGED <<phase, approvals>>
    BY <1>7 DEF Expire, TakeTimeout
  <1>8. CASE UNCHANGED consensusVars
    BY <1>5, <1>8 DEF consensusVars, engineVars
  <1>. QED  BY <1>2, <1>3, <1>4, <1>5, <1>6, <1>7, <1>8 DEF Next, Collect

(* Steps that concern the engine alone.                                    *)
Quiet == UNCHANGED <<chainVars, watcherVars, tableVars, announced>>

LEMMA QuietSteps ==
    ASSUME Votings \/ (\E t \in Txs : TimesOut(t)) \/ UNCHANGED vars
    PROVE  Quiet
  BY DEF Votings, TimesOut, Quiet, vars, flowVars

(* What is booked in a step: nothing, or the transaction at hand.          *)
LEMMA RowsMove ==
    ASSUME [FlowNext]_vars
    PROVE  \/ rows' = rows
           \/ (Deposit \/ CallFails) /\ step = "deposit" /\ rows' = BookedRows /\ comment' = comment
  <1>1. ASSUME NEW i \in Invoices, CreateInvoice(i)  PROVE rows' = rows
    BY <1>1 DEF CreateInvoice
  <1>2. ASSUME NEW t \in Txs, NEW c \in Comments[t], Arrive(t, c)  PROVE rows' = rows
    BY <1>2 DEF Arrive, tableVars
  <1>3. CASE Poll \/ PassOver \/ TakeTx \/ Match \/ Verdict \/ AddInvoiceReceipt \/ Announce \/ Restart
    BY <1>3 DEF Poll, PassOver, TakeTx, Match, Verdict, AddInvoiceReceipt, Announce, Restart, tableVars
  <1>4. CASE Deposit \/ CallFails
    BY <1>4 DEF Deposit, CallFails, tableVars, chainVars
  <1>5. ASSUME Votings \/ (\E t \in Txs : TimesOut(t)) \/ UNCHANGED vars  PROVE rows' = rows
    BY <1>5, QuietSteps DEF Quiet, tableVars
  <1>. QED  BY <1>1, <1>2, <1>3, <1>4, <1>5 DEF FlowNext, Handler

(* What comes into the chain in a step: nothing, or a new transaction.     *)
LEMMA ChainMoves ==
    ASSUME FlowTypeOK, [FlowNext]_vars
    PROVE  /\ ToSet(onchain) \subseteq ToSet(onchain')
           /\ \A x \in ToSet(onchain) : comment'[x] = comment[x]
  <1>1. ASSUME NEW t \in Txs, NEW c \in Comments[t], Arrive(t, c)
        PROVE  /\ ToSet(onchain) \subseteq ToSet(onchain')
               /\ \A x \in ToSet(onchain) : comment'[x] = comment[x]
    <2>1. onchain \in Seq(Txs) /\ onchain' = Append(onchain, t) /\ t \notin ToSet(onchain)
          /\ comment' = [comment EXCEPT ![t] = c] /\ comment \in [Txs -> Invoices \cup Wallets \cup {None}]
      BY <1>1 DEF Arrive, FlowTypeOK
    <2>2. \A k \in DOMAIN onchain : onchain[k] \in Txs /\ k \in DOMAIN onchain' /\ onchain'[k] = onchain[k]
      BY <2>1
    <2>. QED  BY <2>1, <2>2 DEF ToSet
  <1>2. ASSUME UNCHANGED chainVars
        PROVE  /\ ToSet(onchain) \subseteq ToSet(onchain')
               /\ \A x \in ToSet(onchain) : comment'[x] = comment[x]
    BY <1>2 DEF chainVars
  <1>3. ASSUME NEW i \in Invoices, CreateInvoice(i)  PROVE UNCHANGED chainVars
    BY <1>3 DEF CreateInvoice
  <1>4. ASSUME Poll \/ Handler \/ CallFails \/ Restart  PROVE UNCHANGED chainVars
    BY <1>4 DEF Poll, Handler, PassOver, TakeTx, Match, Verdict, Deposit, AddInvoiceReceipt, Announce,
                CallFails, Restart
  <1>5. ASSUME Votings \/ (\E t \in Txs : TimesOut(t)) \/ UNCHANGED vars  PROVE UNCHANGED chainVars
    BY <1>5, QuietSteps DEF Quiet
  <1>. QED  BY <1>1, <1>2, <1>3, <1>4, <1>5 DEF FlowNext

-----------------------------------------------------------------------------
LEMMA RowFields ==
    ASSUME FlowTypeOK
    PROVE  /\ Len(rows) \in Nat /\ DOMAIN rows = 1..Len(rows)
           /\ \A n \in DOMAIN rows : rows[n].hash \in Txs /\ rows[n].amount \in Nat
  <1>1. rows \in Seq(Deposited)
    BY DEF FlowTypeOK, Deposited
  <1>2. \A n \in DOMAIN rows : rows[n] \in Deposited
    BY <1>1
  <1>. QED  BY <1>1, <1>2 DEF Deposited

(* The row that BookedRows appends when the hash is new.                   *)
NewRow == [hash |-> cur, wallet |-> dest, amount |-> Value[cur]]

LEMMA RowsAppended ==
    ASSUME FlowTypeOK, HandlerOK, step = "deposit", rows' = BookedRows, ~Booked(cur)
    PROVE  /\ Len(rows') = Len(rows) + 1 /\ DOMAIN rows' = 1..(Len(rows) + 1)
           /\ \A n \in DOMAIN rows : rows'[n] = rows[n]
           /\ rows'[Len(rows) + 1] = NewRow
  <1>1. NewRow \in Deposited
    BY ConsensusAssumption DEF HandlerOK, Deposited, NewRow
  <1>2. rows \in Seq(Deposited)
    BY DEF FlowTypeOK, Deposited
  <1>3. rows' = Append(rows, NewRow)
    BY DEF BookedRows, NewRow
  <1>. QED  BY <1>1, <1>2, <1>3

LEMMA ChainStep ==
    ASSUME FlowTypeOK, HandlerOK, ChainOK, [FlowNext]_vars
    PROVE  ChainOK'
  <1>0. /\ ToSet(onchain) \subseteq ToSet(onchain')
    BY ChainMoves
  <1>1. \A n \in DOMAIN rows' : rows'[n].hash \in ToSet(onchain')
    <2>1. CASE rows' = rows
      BY <1>0, <2>1 DEF ChainOK
    <2>2. CASE step = "deposit" /\ rows' = BookedRows /\ ~Booked(cur)
      <3>1. /\ DOMAIN rows' = 1..(Len(rows) + 1) /\ DOMAIN rows = 1..Len(rows) /\ Len(rows) \in Nat
            /\ \A n \in DOMAIN rows : rows'[n] = rows[n]
            /\ rows'[Len(rows) + 1] = NewRow
        BY <2>2, RowsAppended, RowFields
      <3>2. cur \in ToSet(onchain) /\ NewRow.hash = cur
        BY <2>2 DEF ChainOK, NewRow
      <3>3. ASSUME NEW n \in DOMAIN rows'  PROVE rows'[n].hash \in ToSet(onchain)
        <4>1. n \in DOMAIN rows \/ n = Len(rows) + 1
          BY <3>1
        <4>. QED  BY <3>1, <3>2, <4>1 DEF ChainOK
      <3>. QED  BY <1>0, <3>3
    <2>. QED  BY <2>1, <2>2, RowsMove DEF BookedRows
  <1>2. \A k \in DOMAIN batch' : batch'[k] \in ToSet(onchain')
    <2>1. batch \in Seq(Txs)
      BY DEF FlowTypeOK
    <2>2. CASE batch' = batch
      BY <1>0, <2>2 DEF ChainOK
    <2>3. CASE batch # << >> /\ batch' = Tail(batch)
      BY <1>0, <2>1, <2>3 DEF ChainOK
    <2>4. CASE batch' = << >>
      BY <2>4
    <2>5. CASE batch' = Fetched
      BY <1>0, <2>5, FetchedType DEF FlowTypeOK
    <2>6. ASSUME NEW i \in Invoices, CreateInvoice(i)  PROVE batch' = batch
      BY <2>6 DEF CreateInvoice, watcherVars
    <2>7. ASSUME NEW t \in Txs, NEW c \in Comments[t], Arrive(t, c)  PROVE batch' = batch
      BY <2>7 DEF Arrive, watcherVars
    <2>8. ASSUME Match \/ Verdict \/ Deposit \/ AddInvoiceReceipt \/ Announce \/ CallFails
          PROVE  batch' = batch
      BY <2>8 DEF Match, Verdict, Deposit, AddInvoiceReceipt, Announce, CallFails
    <2>9. ASSUME Votings \/ (\E t \in Txs : TimesOut(t)) \/ UNCHANGED vars  PROVE batch' = batch
      BY <2>9, QuietSteps DEF Quiet, watcherVars
    <2>10. ASSUME PassOver \/ TakeTx  PROVE batch # << >> /\ batch' = Tail(batch)
      BY <2>10 DEF PassOver, TakeTx
    <2>. QED  BY <2>2, <2>3, <2>4, <2>5, <2>6, <2>7, <2>8, <2>9, <2>10
              DEF FlowNext, Handler, Poll, Restart
  <1>3. step' # "idle" => cur' \in ToSet(onchain')
    <2>1. CASE step # "idle" /\ cur' = cur
      BY <1>0, <2>1 DEF ChainOK
    <2>2. CASE UNCHANGED <<step, cur>>
      BY <1>0, <2>2 DEF ChainOK
    <2>3. CASE HandlerReturns
      BY <2>3 DEF HandlerReturns
    <2>4. CASE TakeTx
      <3>1. batch \in Seq(Txs) /\ batch # << >> /\ cur' = Head(batch)
        BY <2>4 DEF TakeTx, FlowTypeOK
      <3>2. 1 \in DOMAIN batch /\ Head(batch) = batch[1]
        BY <3>1
      <3>. QED  BY <1>0, <3>1, <3>2 DEF ChainOK
    <2>5. ASSUME NEW i \in Invoices, CreateInvoice(i)  PROVE UNCHANGED <<step, cur>>
      BY <2>5 DEF CreateInvoice, watcherVars
    <2>6. ASSUME NEW t \in Txs, NEW c \in Comments[t], Arrive(t, c)  PROVE UNCHANGED <<step, cur>>
      BY <2>6 DEF Arrive, watcherVars
    <2>7. ASSUME Votings \/ (\E t \in Txs : TimesOut(t)) \/ UNCHANGED vars
          PROVE  UNCHANGED <<step, cur>>
      BY <2>7, QuietSteps DEF Quiet, watcherVars
    <2>8. ASSUME Poll \/ PassOver  PROVE UNCHANGED <<step, cur>>
      BY <2>8 DEF Poll, PassOver
    <2>9. ASSUME Match \/ Verdict \/ Deposit \/ AddInvoiceReceipt \/ Announce \/ CallFails \/ Restart
          PROVE  HandlerReturns \/ (step # "idle" /\ cur' = cur)
      BY <2>9 DEF Match, Verdict, Deposit, AddInvoiceReceipt, AfterReceipt, Announce, CallFails, Restart
    <2>. QED  BY <2>1, <2>2, <2>3, <2>4, <2>5, <2>6, <2>7, <2>8, <2>9 DEF FlowNext, Handler
  <1>. QED  BY <1>1, <1>2, <1>3 DEF ChainOK

(* Only Restart ends the process.                                          *)
LEMMA RestartOnly ==
    ASSUME FlowTypeOK, [FlowNext]_vars, ~Restart
    PROVE  ~ForgetVotes
  <1>1. ASSUME restarts' = restarts  PROVE ~ForgetVotes
    BY <1>1 DEF ForgetVotes, FlowTypeOK, TypeOK
  <1>2. CASE UNCHANGED consensusVars
    BY <1>1, <1>2 DEF consensusVars, engineVars
  <1>3. ASSUME NEW t \in Txs, StartVerify(t) \/ Expire(t) \/ Collect(t)  PROVE restarts' = restarts
    BY <1>3 DEF StartVerify, Expire, Collect, TakeVote, TakeTimeout, Decide, engineVars
  <1>4. ASSUME NEW t \in Txs, NEW w \in Workers, Examine(t, w) \/ Record(t, w)
        PROVE  restarts' = restarts
    BY <1>4 DEF Examine, Record, engineVars
  <1>5. CASE Votings
    BY <1>1, <1>3, <1>4, <1>5 DEF Votings
  <1>6. ASSUME NEW t \in Txs, TimesOut(t)  PROVE restarts' = restarts
    BY <1>3, <1>6 DEF TimesOut
  <1>7. CASE Match
    BY <1>1, <1>2, <1>7 DEF Match, StartVerify
  <1>8. ASSUME NEW i \in Invoices, CreateInvoice(i)  PROVE UNCHANGED consensusVars
    BY <1>8 DEF CreateInvoice
  <1>9. ASSUME NEW t \in Txs, NEW c \in Comments[t], Arrive(t, c)  PROVE UNCHANGED consensusVars
    BY <1>9 DEF Arrive
  <1>10. CASE Poll \/ PassOver \/ TakeTx \/ Verdict \/ Deposit \/ AddInvoiceReceipt \/ Announce
            \/ CallFails
    BY <1>2, <1>10 DEF Poll, PassOver, TakeTx, Verdict, Deposit, AddInvoiceReceipt, Announce, CallFails
  <1>11. CASE UNCHANGED vars
    BY <1>2, <1>11 DEF vars
  <1>. QED  BY <1>1, <1>2, <1>5, <1>6, <1>7, <1>8, <1>9, <1>10, <1>11 DEF FlowNext, Handler

(* Steps that do not move the handler.                                     *)
HandlerRests == UNCHANGED <<step, cur, found, dest>>

LEMMA RestingSteps ==
    ASSUME \/ \E i \in Invoices : CreateInvoice(i)
           \/ \E t \in Txs : TimesOut(t) \/ \E c \in Comments[t] : Arrive(t, c)
           \/ Poll \/ PassOver \/ Votings \/ UNCHANGED vars
    PROVE  HandlerRests
  <1>1. ASSUME NEW i \in Invoices, CreateInvoice(i)  PROVE HandlerRests
    BY <1>1 DEF CreateInvoice, watcherVars, HandlerRests
  <1>2. ASSUME NEW t \in Txs, NEW c \in Comments[t], Arrive(t, c)  PROVE HandlerRests
    BY <1>2 DEF Arrive, watcherVars, HandlerRests
  <1>3. CASE Poll \/ PassOver
    BY <1>3 DEF Poll, PassOver, HandlerRests
  <1>4. ASSUME Votings \/ (\E t \in Txs : TimesOut(t)) \/ UNCHANGED vars  PROVE HandlerRests
    BY <1>4, QuietSteps DEF Quiet, watcherVars, HandlerRests
  <1>. QED  BY <1>1, <1>2, <1>3, <1>4

LEMMA HandlerStep ==
    ASSUME FlowTypeOK, ConsensusInv, ConsensusInv', HandlerOK, ChainOK, [FlowNext]_vars
    PROVE  HandlerOK'
  <1>0. [Next]_consensusVars
    BY FlowIsConsensus DEF HandlerOK
  <1>1. CASE HandlerReturns
    BY <1>1 DEF HandlerReturns, HandlerOK
  <1>2. ASSUME HandlerRests, ~Restart  PROVE HandlerOK'
    <2>1. step # "idle" => comment'[cur] = comment[cur]
      BY ChainMoves DEF ChainOK
    <2>2. step = "deposit" => phase'[cur] = "approved"
      BY <1>0, <1>2, VerdictMoves, RestartOnly DEF HandlerOK
    <2>. QED  BY <1>2, <2>1, <2>2 DEF HandlerRests, HandlerOK
  <1>3. CASE TakeTx
    <2>1. Head(batch) \in Txs
      BY <1>3 DEF TakeTx, FlowTypeOK
    <2>. QED  BY <1>3, <2>1 DEF TakeTx, HandlerOK
  <1>4. CASE Match
    <2>1. CASE HandlerReturns
      BY <1>1, <2>1
    <2>2. CASE ~HandlerReturns
      BY <1>4, <2>2, FlowAssumption DEF Match, HandlerOK, chainVars
    <2>. QED  BY <2>1, <2>2
  <1>5. CASE Verdict
    <2>1. CASE HandlerReturns
      BY <1>1, <2>1
    <2>2. CASE ~HandlerReturns
      BY <1>5, <2>2 DEF Verdict, HandlerOK, chainVars, consensusVars, engineVars
    <2>. QED  BY <2>1, <2>2
  <1>6. CASE Deposit
    <2>1. CASE HandlerReturns
      BY <1>1, <2>1
    <2>2. CASE ~HandlerReturns
      BY <1>6, <2>2 DEF Deposit, HandlerOK, chainVars, FlowTypeOK
    <2>. QED  BY <2>1, <2>2
  <1>7. ASSUME step = "receipt", AfterReceipt, UNCHANGED chainVars  PROVE HandlerOK'
    <2>1. CASE HandlerReturns
      BY <1>1, <2>1
    <2>2. CASE ~HandlerReturns
      BY <1>7, <2>2 DEF AfterReceipt, HandlerOK, chainVars
    <2>. QED  BY <2>1, <2>2
  <1>8. CASE AddInvoiceReceipt
    BY <1>7, <1>8 DEF AddInvoiceReceipt
  <1>9. CASE CallFails
    BY <1>1, <1>7, <1>9 DEF CallFails
  <1>10. CASE Announce \/ Restart
    BY <1>1, <1>10 DEF Announce, Restart
  <1>11. CASE ~Restart /\ HandlerRests
    BY <1>2, <1>11
  <1>. QED  BY <1>3, <1>4, <1>5, <1>6, <1>8, <1>9, <1>10, <1>11, RestingSteps DEF FlowNext, Handler

LEMMA BookingStep ==
    ASSUME FlowTypeOK, ConsensusInv, ConsensusInv', HandlerOK, BookingOK, [FlowNext]_vars
    PROVE  BookingOK'
  <1>0. [Next]_consensusVars
    BY FlowIsConsensus DEF HandlerOK
  <1>1. ASSUME NEW t \in Txs, approvals[t] > 0  PROVE approvals'[t] > 0
    BY <1>0, <1>1, VerdictMoves
  <1>2. \A n \in DOMAIN rows' : approvals'[rows'[n].hash] > 0
    <2>1. CASE rows' = rows
      BY <1>1, <2>1, RowFields DEF BookingOK
    <2>2. CASE step = "deposit" /\ rows' = BookedRows /\ ~Booked(cur)
      <3>1. /\ DOMAIN rows' = 1..(Len(rows) + 1) /\ DOMAIN rows = 1..Len(rows) /\ Len(rows) \in Nat
            /\ \A n \in DOMAIN rows : rows'[n] = rows[n]
            /\ rows'[Len(rows) + 1] = NewRow
        BY <2>2, RowsAppended, RowFields
      <3>2. NewRow.hash = cur /\ cur \in Txs /\ approvals[cur] > 0
        BY <2>2 DEF NewRow, HandlerOK, ConsensusInv, ApprovedCounts
      <3>3. ASSUME NEW n \in DOMAIN rows'  PROVE approvals'[rows'[n].hash] > 0
        <4>1. n \in DOMAIN rows \/ n = Len(rows) + 1
          BY <3>1
        <4>2. CASE n \in DOMAIN rows
          BY <1>1, <3>1, <4>2, RowFields DEF BookingOK
        <4>3. CASE n = Len(rows) + 1
          BY <1>1, <3>1, <3>2, <4>3
        <4>. QED  BY <4>1, <4>2, <4>3
      <3>. QED  BY <3>3
    <2>. QED  BY <2>1, <2>2, RowsMove DEF BookedRows
  <1>. DEFINE Fresh == step' \in {"verify", "deposit"} /\ phase'[cur'] = "approved" =>
                          \A n \in DOMAIN rows' : rows'[n].hash # cur'
  <1>. SUFFICES Fresh
    BY <1>2 DEF BookingOK, Booked
  <1>3. ASSUME rows' = rows, cur' = cur, step' = step \/ (step = "verify" /\ step' = "deposit")
        PROVE  Fresh
    <2>1. CASE phase[cur] = "approved"
      BY <1>3, <2>1 DEF BookingOK, Booked
    <2>2. CASE step # "idle" /\ phase[cur] # "approved" /\ phase'[cur] = "approved"
      <3>1. cur \in Txs
        BY <2>2 DEF HandlerOK
      <3>2. approvals[cur] = 0
        BY <1>0, <2>2, <3>1, VerdictMoves
      <3>3. ~Booked(cur)
        <4>1. SUFFICES ASSUME NEW n \in DOMAIN rows, rows[n].hash = cur  PROVE FALSE
          BY DEF Booked
        <4>. QED  BY <3>2, <4>1 DEF BookingOK
      <3>. QED  BY <1>3, <3>3 DEF Booked
    <2>. QED  BY <1>3, <2>1, <2>2
  <1>4. ASSUME step' \notin {"verify", "deposit"}  PROVE Fresh
    BY <1>4
  <1>5. CASE Match
    <2>1. CASE HandlerReturns
      BY <1>4, <2>1 DEF HandlerReturns
    <2>2. CASE ~HandlerReturns
      <3>1. cur' = cur /\ cur \in Txs /\ phase' = [phase EXCEPT ![cur] = "open"]
        BY <1>5, <2>2 DEF Match, StartVerify, HandlerOK
      <3>2. phase'[cur'] = "open"
        BY <3>1 DEF FlowTypeOK, TypeOK
      <3>. QED  BY <3>2
    <2>. QED  BY <2>1, <2>2
  <1>6. CASE Verdict
    <2>1. CASE HandlerReturns
      BY <1>4, <2>1 DEF HandlerReturns
    <2>2. CASE ~HandlerReturns
      BY <1>3, <1>6, <2>2 DEF Verdict, tableVars
    <2>. QED  BY <2>1, <2>2
  <1>7. CASE TakeTx \/ Deposit \/ AddInvoiceReceipt \/ Announce \/ CallFails \/ Restart
    BY <1>4, <1>7 DEF TakeTx, Deposit, AddInvoiceReceipt, AfterReceipt, Announce, CallFails, Restart,
                      HandlerReturns
  <1>8. CASE \/ \E i \in Invoices : CreateInvoice(i)
             \/ \E t \in Txs : TimesOut(t) \/ \E c \in Comments[t] : Arrive(t, c)
             \/ Poll \/ PassOver \/ Votings \/ UNCHANGED vars
    <2>1. HandlerRests
      BY <1>8, RestingSteps
    <2>2. CASE rows' = rows
      BY <1>3, <2>1, <2>2 DEF HandlerRests
    <2>3. CASE Deposit \/ CallFails
      BY <1>7, <2>3
    <2>. QED  BY <2>2, <2>3, RowsMove
  <1>. QED  BY <1>5, <1>6, <1>7, <1>8 DEF FlowNext, Handler

-----------------------------------------------------------------------------
(* The money behind an invoice.                                            *)

(* What row n counts for invoice i.                                        *)
LEMMA FundsAre ==
    ASSUME FlowTypeOK, NEW i
    PROVE  \A n \in 1..Len(rows) :
              /\ Funds(i)[n] \in Nat
              /\ Funds(i)[n] = IF comment[rows[n].hash] = i /\ rows[n].wallet = Owner[i]
                               THEN rows[n].amount ELSE 0
  BY RowFields DEF Funds

LEMMA FundedNat ==
    ASSUME FlowTypeOK, NEW i
    PROVE  Funded(i) \in Nat
  <1>1. Len(rows) \in Nat /\ \A n \in 1..Len(rows) : Funds(i)[n] \in Nat
    BY FundsAre, RowFields
  <1>. QED  BY <1>1, TotalNat DEF Funded

(* A step that books nothing leaves it, although comments are written.     *)
LEMMA FundedSame ==
    ASSUME FlowTypeOK, ChainOK, [FlowNext]_vars, rows' = rows, NEW i
    PROVE  Funded(i)' = Funded(i)
  <1>1. Len(rows) \in Nat /\ DOMAIN rows = 1..Len(rows)
    BY RowFields
  <1>2. \A n \in DOMAIN rows : comment'[rows[n].hash] = comment[rows[n].hash]
    BY ChainMoves DEF ChainOK
  <1>3. Funds(i)' = [n \in DOMAIN rows |->
                       IF comment'[rows[n].hash] = i /\ rows[n].wallet = Owner[i]
                       THEN rows[n].amount ELSE 0]
    BY DEF Funds
  <1>4. \A n \in 1..Len(rows) : Funds(i)'[n] = Funds(i)[n]
    BY <1>1, <1>2, <1>3 DEF Funds
  <1>5. Total(Funds(i)', Len(rows)) = Total(Funds(i), Len(rows))
    BY <1>1, <1>4, TotalSame
  <1>6. Funded(i)' = Total(Funds(i)', Len(rows'))
    BY DEF Funded
  <1>. QED  BY <1>5, <1>6 DEF Funded

(* A deposit adds its amount to the invoice it was matched with.           *)
LEMMA FundedDeposit ==
    ASSUME FlowTypeOK, HandlerOK, step = "deposit", rows' = BookedRows, ~Booked(cur),
           comment' = comment, NEW i
    PROVE  /\ Funded(i)' \in Nat /\ Funded(i)' >= Funded(i)
           /\ found = i /\ i \in Invoices => Funded(i)' = Funded(i) + Value[cur]
  <1>. DEFINE n == Len(rows)
              m == n + 1
  <1>1. /\ n \in Nat /\ DOMAIN rows = 1..n /\ Len(rows') = m /\ DOMAIN rows' = 1..m
        /\ \A k \in DOMAIN rows : rows'[k] = rows[k]
        /\ rows'[m] = NewRow
    BY RowFields, RowsAppended
  <1>2. Funds(i)' = [k \in DOMAIN rows' |->
                       IF comment[rows'[k].hash] = i /\ rows'[k].wallet = Owner[i]
                       THEN rows'[k].amount ELSE 0]
    BY DEF Funds
  <1>3. \A k \in 1..n : Funds(i)[k] = Funds(i)'[k]
    <2>1. ASSUME NEW k \in 1..n  PROVE Funds(i)[k] = Funds(i)'[k]
      <3>1. k \in DOMAIN rows /\ k \in DOMAIN rows' /\ rows'[k] = rows[k]
        BY <1>1
      <3>. QED  BY <1>2, <3>1 DEF Funds
    <2>. QED  BY <2>1
  <1>4. m \in Nat /\ m \in DOMAIN rows'
    BY <1>1
  <1>5. Funds(i)'[m] = IF comment[cur] = i /\ dest = Owner[i] THEN Value[cur] ELSE 0
    BY <1>1, <1>2, <1>4 DEF NewRow
  <1>6. Funded(i)' = Total(Funds(i)', m)
    BY <1>1 DEF Funded
  <1>7. Total(Funds(i)', m) = Total(Funds(i), n) + Funds(i)'[m]
    <2>1. m = n + 1 /\ n \in Nat
      BY <1>1
    <2>. HIDE DEF m, n
    <2>. QED  BY <1>3, <1>4, <2>1, TotalStep
  <1>8. Funded(i) \in Nat /\ Funded(i) = Total(Funds(i), n)
    BY FundedNat DEF Funded
  <1>9. Value[cur] \in Nat /\ (found = i /\ i \in Invoices => comment[cur] = i /\ dest = Owner[i])
    BY ConsensusAssumption DEF HandlerOK
  <1>. QED  BY <1>5, <1>6, <1>7, <1>8, <1>9

(* Money that is booked stays booked.                                      *)
LEMMA FundedGrows ==
    ASSUME FlowTypeOK, HandlerOK, ChainOK, [FlowNext]_vars, NEW i
    PROVE  Funded(i)' \in Nat /\ Funded(i) \in Nat /\ Funded(i)' >= Funded(i)
  <1>1. Funded(i) \in Nat
    BY FundedNat
  <1>2. CASE rows' = rows
    BY <1>1, <1>2, FundedSame
  <1>3. CASE step = "deposit" /\ rows' = BookedRows /\ comment' = comment /\ ~Booked(cur)
    BY <1>1, <1>3, FundedDeposit
  <1>. QED  BY <1>2, <1>3, RowsMove DEF BookedRows

-----------------------------------------------------------------------------
LEMMA InvoiceFields ==
    ASSUME FlowTypeOK, NEW i \in Invoices
    PROVE  invoice[i].received \in Nat /\ Price[i] \in Nat
  BY FlowAssumption DEF FlowTypeOK

(* The payment that fills an invoice covers it.                            *)
LEMMA FillsCovers ==
    ASSUME FlowTypeOK, HandlerOK, ReceiptOK, step = "receipt", Fills
    PROVE  Covered(found)
  <1>1. found \in Invoices /\ Value[cur] \in Nat /\ Value[cur] > 0
    BY ConsensusAssumption DEF HandlerOK
  <1>2. invoice[found].received \in Nat /\ Price[found] \in Nat /\ Funded(found) \in Nat
    BY <1>1, InvoiceFields, FundedNat
  <1>3. invoice[found].received + Value[cur] <= Funded(found)
    BY <1>1 DEF ReceiptOK
  <1>. QED  BY <1>1, <1>2, <1>3 DEF Fills, Covered

(* What happens to the invoices in a step.                                 *)
LEMMA InvoicesMove ==
    ASSUME [FlowNext]_vars
    PROVE  \/ invoice' = invoice
           \/ \E i \in Invoices : CreateInvoice(i)
           \/ step = "receipt" /\ invoice' = ReceiptAdded
  <1>1. ASSUME NEW t \in Txs, NEW c \in Comments[t], Arrive(t, c)  PROVE invoice' = invoice
    BY <1>1 DEF Arrive, tableVars
  <1>2. CASE Poll \/ PassOver \/ TakeTx \/ Match \/ Verdict \/ Deposit \/ Announce \/ Restart
    BY <1>2 DEF Poll, PassOver, TakeTx, Match, Verdict, Deposit, Announce, Restart, tableVars
  <1>3. CASE AddInvoiceReceipt \/ CallFails
    BY <1>3 DEF AddInvoiceReceipt, CallFails, tableVars
  <1>4. ASSUME Votings \/ (\E t \in Txs : TimesOut(t)) \/ UNCHANGED vars  PROVE invoice' = invoice
    BY <1>4, QuietSteps DEF Quiet, tableVars
  <1>. QED  BY <1>1, <1>2, <1>3, <1>4 DEF FlowNext, Handler

LEMMA CoveredStays ==
    ASSUME FlowTypeOK, HandlerOK, ChainOK, [FlowNext]_vars, NEW i \in Invoices, Covered(i)
    PROVE  Covered(i)'
  <1>1. Funded(i)' \in Nat /\ Funded(i) \in Nat /\ Funded(i)' >= Funded(i) /\ Price[i] \in Nat
    BY FundedGrows, InvoiceFields
  <1>2. Covered(i)' <=> (Funded(i)' >= Price[i] /\ Funded(i)' > 0)
    BY DEF Covered
  <1>. QED  BY <1>1, <1>2 DEF Covered

LEMMA BackedStep ==
    ASSUME FlowTypeOK, HandlerOK, ChainOK, ReceiptOK, InvoiceBacked, [FlowNext]_vars
    PROVE  InvoiceBacked'
  <1>1. SUFFICES ASSUME NEW i \in Invoices
                 PROVE  /\ invoice'[i].received <= Funded(i)'
                        /\ invoice'[i].status = "paid" => Covered(i)'
    BY DEF InvoiceBacked, Covered
  <1>2. /\ Funded(i)' \in Nat /\ Funded(i) \in Nat /\ Funded(i)' >= Funded(i)
        /\ invoice[i].received \in Nat
    BY FundedGrows, InvoiceFields
  <1>3. invoice[i].received <= Funded(i) /\ (invoice[i].status = "paid" => Covered(i))
    BY DEF InvoiceBacked, Covered
  <1>4. ASSUME invoice'[i].received = invoice[i].received,
               invoice'[i].status = "paid" => invoice[i].status = "paid"
        PROVE  /\ invoice'[i].received <= Funded(i)'
               /\ invoice'[i].status = "paid" => Covered(i)'
    BY <1>2, <1>3, <1>4, CoveredStays
  <1>5. CASE invoice' = invoice
    BY <1>4, <1>5
  <1>6. ASSUME NEW j \in Invoices, CreateInvoice(j)
        PROVE  /\ invoice'[i].received = invoice[i].received
               /\ invoice'[i].status = "paid" => invoice[i].status = "paid"
    BY <1>6 DEF CreateInvoice, FlowTypeOK
  <1>7. CASE step = "receipt" /\ invoice' = ReceiptAdded
    <2>1. found \in Invoices /\ Value[cur] \in Nat
      BY <1>7, ConsensusAssumption DEF HandlerOK
    <2>2. CASE i # found
      <3>1. invoice'[i] = invoice[i]
        BY <1>7, <2>1, <2>2 DEF ReceiptAdded, FlowTypeOK
      <3>. QED  BY <1>4, <3>1
    <2>3. CASE i = found
      <3>1. /\ invoice'[i].received = invoice[i].received + Value[cur]
            /\ invoice'[i].status = IF Fills THEN "paid" ELSE invoice[i].status
        BY <1>7, <2>1, <2>3 DEF ReceiptAdded, FlowTypeOK
      <3>2. invoice[i].received + Value[cur] <= Funded(i)
        BY <1>7, <2>3 DEF ReceiptOK
      <3>3. invoice'[i].status = "paid" => Covered(i)
        BY <1>3, <1>7, <2>3, <3>1, FillsCovers
      <3>. QED  BY <1>2, <2>1, <3>1, <3>2, <3>3, CoveredStays
    <2>. QED  BY <2>2, <2>3
  <1>. QED  BY <1>4, <1>5, <1>6, <1>7, InvoicesMove

LEMMA ReceiptStep ==
    ASSUME FlowTypeOK, HandlerOK, ChainOK, BookingOK, ReceiptOK, InvoiceBacked, [FlowNext]_vars
    PROVE  ReceiptOK'
  <1>1. SUFFICES ASSUME NEW i \in Invoices, found' = i
                 PROVE  /\ step' = "receipt" => invoice'[i].received + Value[cur'] <= Funded(i)'
                        /\ step' = "announce" => Covered(i)'
    BY DEF ReceiptOK
  <1>. DEFINE Goal == /\ step' = "receipt" => invoice'[i].received + Value[cur'] <= Funded(i)'
                      /\ step' = "announce" => Covered(i)'
  <1>2. /\ Funded(i)' \in Nat /\ Funded(i) \in Nat /\ Funded(i)' >= Funded(i)
        /\ invoice[i].received \in Nat
    BY FundedGrows, InvoiceFields
  <1>3. ASSUME step' \notin {"receipt", "announce"}  PROVE Goal
    BY <1>3
  <1>4. CASE Deposit
    <2>1. CASE HandlerReturns
      BY <1>3, <2>1 DEF HandlerReturns
    <2>2. CASE ~HandlerReturns
      <3>1. /\ step = "deposit" /\ rows' = BookedRows /\ comment' = comment /\ invoice' = invoice
            /\ step' = "receipt" /\ cur' = cur /\ found = i
        BY <1>1, <1>4, <2>2 DEF Deposit, chainVars
      <3>2. ~Booked(cur)
        BY <3>1 DEF BookingOK, HandlerOK
      <3>3. Funded(i)' = Funded(i) + Value[cur]
        BY <3>1, <3>2, FundedDeposit
      <3>4. invoice[i].received <= Funded(i) /\ Value[cur] \in Nat
        BY <3>1, ConsensusAssumption DEF InvoiceBacked, HandlerOK
      <3>. QED  BY <1>2, <3>1, <3>3, <3>4
    <2>. QED  BY <2>1, <2>2
  <1>5. ASSUME step = "receipt", AfterReceipt  PROVE Goal
    <2>1. CASE HandlerReturns
      BY <1>3, <2>1 DEF HandlerReturns
    <2>2. CASE ~HandlerReturns
      <3>1. step' = "announce" /\ Fills /\ found = i
        BY <1>1, <1>5, <2>2 DEF AfterReceipt
      <3>2. Covered(i)
        BY <1>5, <3>1, FillsCovers
      <3>. QED  BY <3>1, <3>2, CoveredStays
    <2>. QED  BY <2>1, <2>2
  <1>6. CASE AddInvoiceReceipt
    BY <1>5, <1>6 DEF AddInvoiceReceipt
  <1>7. CASE CallFails
    BY <1>3, <1>5, <1>7 DEF CallFails, HandlerReturns
  <1>8. CASE TakeTx \/ Match \/ Verdict \/ Announce \/ Restart
    BY <1>3, <1>8 DEF TakeTx, Match, Verdict, Announce, Restart, HandlerReturns
  <1>9. CASE \/ \E j \in Invoices : CreateInvoice(j)
             \/ \E t \in Txs : TimesOut(t) \/ \E c \in Comments[t] : Arrive(t, c)
             \/ Poll \/ PassOver \/ Votings \/ UNCHANGED vars
    <2>1. HandlerRests
      BY <1>9, RestingSteps
    <2>2. step' = step /\ cur' = cur /\ found = i
      BY <1>1, <2>1 DEF HandlerRests
    <2>3. step' = "announce" => Covered(i)'
      BY <2>2, CoveredStays DEF ReceiptOK
    <2>4. step' = "receipt" => Value[cur] \in Nat /\ invoice[i].received + Value[cur] <= Funded(i)
      BY <2>2, ConsensusAssumption DEF ReceiptOK, HandlerOK
    <2>5. CASE invoice'[i].received = invoice[i].received
      BY <1>2, <2>2, <2>3, <2>4, <2>5
    <2>6. ASSUME NEW j \in Invoices, CreateInvoice(j)
          PROVE  invoice'[i].received = invoice[i].received
      BY <2>6 DEF CreateInvoice, FlowTypeOK
    <2>7. ASSUME NEW t \in Txs, NEW c \in Comments[t], Arrive(t, c)  PROVE invoice' = invoice
      BY <2>7 DEF Arrive, tableVars
    <2>8. ASSUME Votings \/ (\E t \in Txs : TimesOut(t)) \/ UNCHANGED vars  PROVE invoice' = invoice
      BY <2>8, QuietSteps DEF Quiet, tableVars
    <2>9. ASSUME Poll \/ PassOver  PROVE invoice' = invoice
      BY <2>9 DEF Poll, PassOver, tableVars
    <2>. QED  BY <1>9, <2>5, <2>6, <2>7, <2>8, <2>9
  <1>. QED  BY <1>4, <1>6, <1>7, <1>8, <1>9 DEF FlowNext, Handler

LEMMA AnnouncedStep ==
    ASSUME FlowTypeOK, HandlerOK, ChainOK, ReceiptOK, AnnouncedIsFunded, [FlowNext]_vars
    PROVE  AnnouncedIsFunded'
  <1>1. SUFFICES ASSUME NEW i \in Invoices, announced'[i] > 0  PROVE Covered(i)'
    BY DEF AnnouncedIsFunded, Covered
  <1>2. CASE announced'[i] = announced[i]
    BY <1>1, <1>2, CoveredStays DEF AnnouncedIsFunded, Covered
  <1>3. CASE Announce
    <2>1. CASE found = i
      <3>1. Covered(i)
        BY <1>3, <2>1 DEF Announce, ReceiptOK
      <3>. QED  BY <3>1, CoveredStays
    <2>2. CASE found # i
      BY <1>2, <1>3, <2>2 DEF Announce, HandlerOK, FlowTypeOK
    <2>. QED  BY <2>1, <2>2
  <1>4. ASSUME NEW j \in Invoices, CreateInvoice(j)  PROVE announced' = announced
    BY <1>4 DEF CreateInvoice
  <1>5. ASSUME NEW t \in Txs, NEW c \in Comments[t], Arrive(t, c)  PROVE announced' = announced
    BY <1>5 DEF Arrive
  <1>6. ASSUME Poll \/ PassOver \/ TakeTx \/ Match \/ Verdict \/ Deposit \/ AddInvoiceReceipt
               \/ CallFails \/ Restart
        PROVE  announced' = announced
    BY <1>6 DEF Poll, PassOver, TakeTx, Match, Verdict, Deposit, AddInvoiceReceipt, CallFails, Restart
  <1>7. ASSUME Votings \/ (\E t \in Txs : TimesOut(t)) \/ UNCHANGED vars  PROVE announced' = announced
    BY <1>7, QuietSteps DEF Quiet
  <1>. QED  BY <1>2, <1>3, <1>4, <1>5, <1>6, <1>7 DEF FlowNext, Handler

-----------------------------------------------------------------------------
LEMMA FlowStarts == Init => FlowInv
  <1>1. SUFFICES ASSUME Init  PROVE FlowInv
    OBVIOUS
  <1>2. ConsensusInv /\ TypeOK
    BY <1>1, InitEstablishes DEF Init, ConsensusInv
  <1>3. FlowTypeOK
    BY <1>1, <1>2, FlowAssumption DEF Init, FlowTypeOK
  <1>4. DOMAIN rows = {} /\ DOMAIN batch = {} /\ step = "idle"
    BY <1>1 DEF Init
  <1>5. ChainOK /\ HandlerOK /\ BookingOK /\ ReceiptOK
    BY <1>4 DEF ChainOK, HandlerOK, BookingOK, ReceiptOK
  <1>6. \A i \in Invoices : Funded(i) \in Nat
    BY <1>3, FundedNat
  <1>7. InvoiceBacked /\ AnnouncedIsFunded
    BY <1>1, <1>6 DEF Init, InvoiceBacked, AnnouncedIsFunded
  <1>. QED  BY <1>2, <1>3, <1>5, <1>7 DEF FlowInv

LEMMA FlowStep == FlowInv /\ [FlowNext]_vars => FlowInv'
  <1>. SUFFICES ASSUME FlowInv, [FlowNext]_vars  PROVE FlowInv'
    OBVIOUS
  <1>1. /\ ConsensusInv /\ FlowTypeOK /\ ChainOK /\ HandlerOK /\ BookingOK
        /\ ReceiptOK /\ InvoiceBacked /\ AnnouncedIsFunded
    BY DEF FlowInv
  <1>2. [Next]_consensusVars
    BY <1>1, FlowIsConsensus DEF HandlerOK
  <1>3. ConsensusInv'
    BY <1>1, <1>2, InvStep
  <1>4. FlowTypeOK'
    BY <1>1, FlowTypeStep
  <1>5. ChainOK'
    BY <1>1, ChainStep
  <1>6. HandlerOK' /\ BookingOK'
    BY <1>1, <1>3, HandlerStep, BookingStep
  <1>7. ReceiptOK' /\ InvoiceBacked' /\ AnnouncedIsFunded'
    BY <1>1, ReceiptStep, BackedStep, AnnouncedStep
  <1>. QED  BY <1>3, <1>4, <1>5, <1>6, <1>7 DEF FlowInv

LEMMA FlowAlways == FlowSpec => []FlowInv
  BY FlowStarts, FlowStep, PTL DEF FlowSpec

(* Watcher, handler and tables keep their types: a deposit is booked to a  *)
(* wallet there is, whatever was matched and wherever a call failed.       *)
THEOREM FlowTypeCorrect == FlowSpec => []FlowTypeOK
  <1>1. FlowInv => FlowTypeOK
    BY DEF FlowInv
  <1>. QED  BY <1>1, FlowAlways, PTL

(* The deposit path uses the engine as Consensus describes it: every       *)
(* behaviour of the watcher and HandleDeposit is one of Consensus.         *)
THEOREM FlowImplementsConsensus == FlowSpec => Spec
  <1>1. Init => ConsensusInit
    BY DEF Init
  <1>2. FlowInv /\ [FlowNext]_vars => [Next]_consensusVars
    BY FlowIsConsensus DEF FlowInv, HandlerOK
  <1>. QED  BY <1>1, <1>2, FlowAlways, PTL DEF FlowSpec, Spec

(* Store.AddInvoiceReceipt and Store.Deposit are two transactions and only *)
(* the second is idempotent; still an invoice never counts money that is   *)
(* not in its owner's wallet, and is paid only for its full price.         *)
THEOREM InvoicesAreBacked == FlowSpec => []InvoiceBacked
  <1>1. FlowInv => InvoiceBacked
    BY DEF FlowInv
  <1>. QED  BY <1>1, FlowAlways, PTL

(* A service is told of a payment only when the whole price is booked to   *)
(* the owner's wallet, although the receipt itself may have failed.        *)
THEOREM AnnouncedAreFunded == FlowSpec => []AnnouncedIsFunded
  <1>1. FlowInv => AnnouncedIsFunded
    BY DEF FlowInv
  <1>. QED  BY <1>1, FlowAlways, PTL

-----------------------------------------------------------------------------
(* What a failed receipt must not do, and does when its transaction fails  *)
(* after its result was set: go on to the announcement unbooked.           *)
ReceiptTold == step = "receipt" /\ step' = "announce" => invoice' = ReceiptAdded

(* A service hears of an invoice once.                                     *)
AnnouncedOnce == \A i \in Invoices : announced[i] <= 1

(* What was announced is paid, and what is about to be is paid and was not *)
(* announced before.                                                       *)
ToldOK ==
    \A i \in Invoices :
        /\ announced[i] > 0 => invoice[i].status = "paid" /\ announced[i] = 1
        /\ step = "announce" /\ found = i => invoice[i].status = "paid" /\ announced[i] = 0

LEMMA AnnouncedMoves ==
    ASSUME [FlowNext]_vars
    PROVE  announced' = announced \/ Announce
  <1>1. ASSUME NEW j \in Invoices, CreateInvoice(j)  PROVE announced' = announced
    BY <1>1 DEF CreateInvoice
  <1>2. ASSUME NEW t \in Txs, NEW c \in Comments[t], Arrive(t, c)  PROVE announced' = announced
    BY <1>2 DEF Arrive
  <1>3. ASSUME Poll \/ PassOver \/ TakeTx \/ Match \/ Verdict \/ Deposit \/ AddInvoiceReceipt
               \/ CallFails \/ Restart
        PROVE  announced' = announced
    BY <1>3 DEF Poll, PassOver, TakeTx, Match, Verdict, Deposit, AddInvoiceReceipt, CallFails, Restart
  <1>4. ASSUME Votings \/ (\E t \in Txs : TimesOut(t)) \/ UNCHANGED vars  PROVE announced' = announced
    BY <1>4, QuietSteps DEF Quiet
  <1>. QED  BY <1>1, <1>2, <1>3, <1>4 DEF FlowNext, Handler

(* The handler comes to the announcement from a receipt that fills.        *)
LEMMA AnnounceSource ==
    ASSUME FlowTypeOK, [FlowNext]_vars, step' = "announce"
    PROVE  \/ step = "announce" /\ found' = found /\ announced' = announced
           \/ step = "receipt" /\ Fills /\ found' = found /\ announced' = announced
  <1>1. ~HandlerReturns
    BY DEF HandlerReturns
  <1>2. ~Announce /\ ~Restart /\ announced' = announced
    BY <1>1, AnnouncedMoves DEF Announce, Restart
  <1>3. ~TakeTx /\ ~Match /\ ~Verdict /\ ~Deposit
    BY <1>1 DEF TakeTx, Match, Verdict, Deposit
  <1>4. ASSUME AddInvoiceReceipt \/ CallFails  PROVE step = "receipt" /\ Fills /\ found' = found
    BY <1>1, <1>4 DEF AddInvoiceReceipt, CallFails, AfterReceipt
  <1>5. ASSUME HandlerRests  PROVE step = "announce" /\ found' = found
    BY <1>5 DEF HandlerRests
  <1>. QED  BY <1>2, <1>3, <1>4, <1>5, RestingSteps DEF FlowNext, Handler

(* A paid invoice stays paid.                                              *)
LEMMA PaidStays ==
    ASSUME FlowTypeOK, HandlerOK, [FlowNext]_vars, NEW i \in Invoices, invoice[i].status = "paid"
    PROVE  invoice'[i].status = "paid"
  <1>1. invoice \in [Invoices -> Invoiced]
    BY DEF FlowTypeOK, Invoiced
  <1>2. CASE invoice' = invoice
    BY <1>2
  <1>3. ASSUME NEW j \in Invoices, CreateInvoice(j)  PROVE invoice'[i].status = "paid"
    <2>1. i # j
      BY <1>3 DEF CreateInvoice
    <2>. QED  BY <1>1, <1>3, <2>1 DEF CreateInvoice
  <1>4. CASE step = "receipt" /\ invoice' = ReceiptAdded
    <2>1. found \in Invoices
      BY <1>4 DEF HandlerOK
    <2>2. CASE found # i
      BY <1>1, <1>4, <2>1, <2>2 DEF ReceiptAdded
    <2>3. CASE found = i
      BY <1>1, <1>4, <2>1, <2>3 DEF ReceiptAdded
    <2>. QED  BY <2>2, <2>3
  <1>. QED  BY <1>2, <1>3, <1>4, InvoicesMove

LEMMA ToldStep ==
    ASSUME FlowTypeOK, HandlerOK, ToldOK, [FlowNext]_vars, ReceiptTold \/ UNCHANGED vars
    PROVE  ToldOK'
  <1>0. /\ invoice \in [Invoices -> Invoiced] /\ announced \in [Invoices -> Nat]
    BY DEF FlowTypeOK, Invoiced
  <1>1. SUFFICES ASSUME NEW i \in Invoices
                 PROVE  /\ announced'[i] > 0 => invoice'[i].status = "paid" /\ announced'[i] = 1
                        /\ step' = "announce" /\ found' = i =>
                              invoice'[i].status = "paid" /\ announced'[i] = 0
    BY DEF ToldOK
  <1>2. ASSUME announced'[i] > 0  PROVE invoice'[i].status = "paid" /\ announced'[i] = 1
    <2>1. CASE announced'[i] = announced[i]
      BY <1>2, <2>1, PaidStays DEF ToldOK
    <2>2. CASE Announce /\ found = i
      <3>1. invoice[i].status = "paid" /\ announced[i] = 0
        BY <2>2 DEF Announce, ToldOK
      <3>2. announced'[i] = 1
        BY <1>0, <2>2, <3>1 DEF Announce
      <3>. QED  BY <3>1, <3>2, PaidStays
    <2>3. ASSUME Announce, found # i  PROVE announced'[i] = announced[i]
      BY <1>0, <2>3 DEF Announce
    <2>. QED  BY <2>1, <2>2, <2>3, AnnouncedMoves
  <1>3. ASSUME step' = "announce", found' = i
        PROVE  invoice'[i].status = "paid" /\ announced'[i] = 0
    <2>1. CASE step = "announce" /\ found = i /\ announced' = announced
      BY <2>1, PaidStays DEF ToldOK
    <2>2. CASE step = "receipt" /\ Fills /\ found = i /\ announced' = announced
      <3>1. invoice' = ReceiptAdded
        BY <1>3, <2>2 DEF ReceiptTold, vars, flowVars, watcherVars
      <3>2. invoice[i].status = "pending"
        BY <2>2 DEF Fills
      <3>3. ~(announced[i] > 0)
        BY <3>2 DEF ToldOK
      <3>4. invoice'[i].status = "paid"
        BY <1>0, <2>2, <3>1 DEF ReceiptAdded
      <3>. QED  BY <1>0, <2>2, <3>3, <3>4
    <2>. QED  BY <1>3, <2>1, <2>2, AnnounceSource
  <1>. QED  BY <1>2, <1>3

LEMMA ToldAlways == FlowSpec /\ [][ReceiptTold]_vars => []ToldOK
  <1>1. Init => ToldOK
    BY DEF Init, ToldOK
  <1>2. FlowInv /\ ToldOK /\ [FlowNext]_vars /\ [ReceiptTold]_vars => ToldOK'
    BY ToldStep DEF FlowInv
  <1>. QED  BY <1>1, <1>2, FlowAlways, PTL DEF FlowSpec

(* HandleDeposit's comment holds as long as the result of a receipt is     *)
(* acted upon only when the receipt was booked, across restarts, repeated  *)
(* hashes, timeouts and every other failed call: the one fault that run    *)
(* told_unpaid finds is the only one that breaks it.                       *)
THEOREM BookedReceiptsAnnouncePaid == FlowSpec /\ [][ReceiptTold]_vars => []AnnouncedIsPaid
  <1>1. ToldOK => AnnouncedIsPaid
    BY DEF ToldOK, AnnouncedIsPaid
  <1>. QED  BY <1>1, ToldAlways, PTL

(* ... and the service is told of each invoice at most once.               *)
THEOREM BookedReceiptsAnnounceOnce == FlowSpec /\ [][ReceiptTold]_vars => []AnnouncedOnce
  <1>1. FlowInv /\ ToldOK => AnnouncedOnce
    <2>1. SUFFICES ASSUME FlowInv, ToldOK, NEW i \in Invoices  PROVE announced[i] <= 1
      BY DEF AnnouncedOnce
    <2>2. announced[i] \in Nat
      BY <2>1 DEF FlowInv, FlowTypeOK
    <2>. QED  BY <2>1, <2>2 DEF ToldOK
  <1>. QED  BY <1>1, FlowAlways, ToldAlways, PTL
=============================================================================
