---------------------------- MODULE DepositFlow ----------------------------
(***************************************************************************)
(* How an on-chain payment reaches a wallet: ton.Watcher polls the master  *)
(* address, hands every new transaction to Service.HandleDeposit, which    *)
(* matches its comment, has the consensus workers vote, books the deposit, *)
(* adds it to the invoice and announces a paid invoice.  The watcher is    *)
(* one goroutine; users, workers and restarts interleave with it.          *)
(*                                                                         *)
(* A store method is one step here: WalletStore shows that its methods     *)
(* amount to that.                                                         *)
(***************************************************************************)
EXTENDS Consensus, SequencesExt

CONSTANTS
    Wallets,
    Invoices,
    Owner,      \* Owner[i]: the wallet of invoice i
    Price,      \* Price[i]: the amount of invoice i, 0 for any amount
    Comments,   \* Comments[t]: the comments that t may carry, each the code of an
                \* invoice, the handle of a wallet, or None for anything else
    Window,     \* how many transactions one request to the TON API returns
    MaxFaults,  \* bound: how many database calls fail
    None

ASSUME FlowAssumption ==
    /\ Deposits = Txs
    /\ Owner \in [Invoices -> Wallets] /\ Price \in [Invoices -> Nat]
    /\ Comments \in [Txs -> SUBSET (Invoices \cup Wallets \cup {None})]
    /\ Window \in Nat \ {0} /\ MaxFaults \in Nat
    /\ None \notin Invoices \cup Wallets \cup Txs

VARIABLES
    onchain,   \* the transactions of the master address, oldest first
    comment,   \* the comment that the payer of each transaction wrote
    seenTx,    \* Watcher.seenTx, in memory
    batch,     \* what is left of the current poll
    step,      \* where HandleDeposit is, or "idle"
    cur,       \* the transaction being handled
    found,     \* the pending invoice it matched, or None
    dest,      \* the wallet it goes to
    rows,      \* the deposits of the transactions table
    invoice,   \* the invoices table
    announced, \* announced[i]: paid events published for i
    hurt,      \* history: transactions whose handling a fault cut short
    faults     \* failed database calls so far

watcherVars == <<seenTx, batch, step, cur, found, dest>>
tableVars == <<rows, invoice>>
chainVars == <<onchain, comment>>
flowVars == <<chainVars, watcherVars, tableVars, announced, hurt, faults>>
vars == <<consensusVars, flowVars>>

Init ==
    /\ ConsensusInit
    /\ onchain = << >> /\ comment = [t \in Txs |-> None]
    /\ seenTx = {} /\ batch = << >>
    /\ step = "idle" /\ cur = None /\ found = None /\ dest = None
    /\ rows = << >>
    /\ invoice = [i \in Invoices |-> [status |-> "none", received |-> 0]]
    /\ announced = [i \in Invoices |-> 0]
    /\ hurt = {} /\ faults = 0

Booked(t) == \E n \in DOMAIN rows : rows[n].hash = t

-----------------------------------------------------------------------------
(* Service.CreateDepositInvoice.                                           *)
CreateInvoice(i) ==
    /\ invoice[i].status = "none"
    /\ invoice' = [invoice EXCEPT ![i].status = "pending"]
    /\ UNCHANGED <<consensusVars, chainVars, watcherVars, rows, announced, hurt, faults>>

(* A user pays; the code of an invoice is known once it exists.            *)
Arrive(t, c) ==
    /\ t \notin ToSet(onchain)
    /\ c \in Invoices => invoice[c].status # "none"
    /\ onchain' = Append(onchain, t)
    /\ comment' = [comment EXCEPT ![t] = c]
    /\ UNCHANGED <<consensusVars, watcherVars, tableVars, announced, hurt, faults>>

(* The newest Window transactions, newest first.                           *)
Fetched ==
    LET n == Len(onchain)
    IN  [k \in 1..(IF n < Window THEN n ELSE Window) |-> onchain[n - k + 1]]

(* Watcher.poll, up to its loop.                                           *)
Poll ==
    /\ step = "idle" /\ batch = << >>
    /\ Fetched # << >>
    /\ batch' = Fetched
    /\ UNCHANGED <<consensusVars, chainVars, seenTx, step, cur, found, dest, tableVars,
                   announced, hurt, faults>>

(* The loop passes over transactions without a value and those it has seen *)
(* since the process started ...                                           *)
PassOver ==
    /\ step = "idle" /\ batch # << >>
    /\ Value[Head(batch)] = 0 \/ Head(batch) \in seenTx
    /\ batch' = Tail(batch)
    /\ UNCHANGED <<consensusVars, chainVars, seenTx, step, cur, found, dest, tableVars,
                   announced, hurt, faults>>

(* ... and marks any other as seen and only then handles it.               *)
TakeTx ==
    /\ step = "idle" /\ batch # << >>
    /\ Value[Head(batch)] > 0 /\ Head(batch) \notin seenTx
    /\ cur' = Head(batch) /\ batch' = Tail(batch)
    /\ seenTx' = seenTx \cup {Head(batch)}
    /\ step' = "match"
    /\ UNCHANGED <<consensusVars, chainVars, found, dest, tableVars, announced, hurt, faults>>

HandlerReturns == step' = "idle" /\ cur' = None /\ found' = None /\ dest' = None

\* Mutant: no check that a wallet was found.
MatchNoNilCheck ==
    LET c == comment[cur]
        open == c \in Invoices /\ invoice[c].status = "pending"
    IN  /\ step = "match"
        /\ found' = (IF open THEN c ELSE None)
        /\ dest' = (IF open THEN Owner[c] ELSE IF c \in Wallets THEN c ELSE None)
        /\ step' = "verify"
        /\ StartVerify(cur)
        /\ UNCHANGED <<cur, chainVars, seenTx, batch, tableVars, announced, hurt, faults>>

(* HandleDeposit looks for a pending invoice with the code, then for the   *)
(* wallet with the handle, and ignores what matches neither: a payment     *)
(* with the code of an invoice that is already paid is such a payment.     *)
(* What matches goes to Guard.CheckDeposit.                                *)
Match ==
    LET c == comment[cur]
        open == c \in Invoices /\ invoice[c].status = "pending"
    IN  /\ step = "match"
        /\ \/ /\ open \/ c \in Wallets
              /\ found' = (IF open THEN c ELSE None)
              /\ dest' = (IF open THEN Owner[c] ELSE c)
              /\ step' = "verify"
              /\ StartVerify(cur)
              /\ UNCHANGED cur
           \/ /\ ~open /\ c \notin Wallets
              /\ HandlerReturns
              /\ UNCHANGED consensusVars
        /\ UNCHANGED <<chainVars, seenTx, batch, tableVars, announced, hurt, faults>>

(* CheckDeposit returns.  A rejection ends the handler; the watcher logs   *)
(* the error and does not come back to the transaction.                    *)
Verdict ==
    /\ step = "verify" /\ phase[cur] \in {"approved", "rejected"}
    /\ \/ /\ phase[cur] = "approved"
          /\ step' = "deposit"
          /\ UNCHANGED <<cur, found, dest>>
       \/ phase[cur] = "rejected" /\ HandlerReturns
    /\ UNCHANGED <<consensusVars, chainVars, seenTx, batch, tableVars, announced, hurt, faults>>

(* Store.Deposit, idempotent in the hash.                                  *)
BookedRows ==
    IF Booked(cur) THEN rows
    ELSE Append(rows, [hash |-> cur, wallet |-> dest, amount |-> Value[cur]])

Deposit ==
    /\ step = "deposit"
    /\ rows' = BookedRows
    /\ IF found # None THEN step' = "receipt" /\ UNCHANGED <<cur, found, dest>>
                       ELSE HandlerReturns
    /\ UNCHANGED <<consensusVars, chainVars, seenTx, batch, invoice, announced, hurt, faults>>

\* Mutant: any receipt fills the invoice.
FillsAny == invoice[found].status = "pending"

(* The payment at hand fills the pending invoice it was matched with.      *)
Fills ==
    /\ invoice[found].status = "pending"
    /\ Price[found] = 0 \/ invoice[found].received + Value[cur] >= Price[found]

(* Store.AddInvoiceReceipt: the amount is added whether or not Deposit     *)
(* found the hash booked already; the payment that fills a pending invoice *)
(* makes it paid.                                                          *)
ReceiptAdded ==
    [invoice EXCEPT ![found] = [status |-> IF Fills THEN "paid" ELSE @.status,
                                received |-> @.received + Value[cur]]]

AfterReceipt ==
    IF Fills THEN step' = "announce" /\ UNCHANGED <<cur, found, dest>> ELSE HandlerReturns

AddInvoiceReceipt ==
    /\ step = "receipt"
    /\ invoice' = ReceiptAdded
    /\ AfterReceipt
    /\ UNCHANGED <<consensusVars, chainVars, seenTx, batch, rows, announced, hurt, faults>>

(* The requesting service is told, by a message that is not stored.        *)
Announce ==
    /\ step = "announce"
    /\ announced' = [announced EXCEPT ![found] = @ + 1]
    /\ HandlerReturns
    /\ UNCHANGED <<consensusVars, chainVars, seenTx, batch, tableVars, hurt, faults>>

-----------------------------------------------------------------------------
(* The votes of the round under way, and late ones of earlier rounds.      *)
Votings ==
    /\ \E t \in Txs : Collect(t) \/ \E w \in Workers : Examine(t, w) \/ Record(t, w)
    /\ UNCHANGED flowVars

TimesOut(t) ==
    /\ Expire(t)
    /\ hurt' = hurt \cup {t}
    /\ UNCHANGED <<chainVars, watcherVars, tableVars, announced, faults>>

(* A database call returns an error.  HandleDeposit gives up when a lookup *)
(* or Deposit fails.  A failed receipt is only logged, and when it failed  *)
(* after AddInvoiceReceipt had set its result, the result is acted upon.   *)
(* When the commit's answer is what got lost, the transaction took effect. *)
CallFails ==
    /\ faults < MaxFaults
    /\ faults' = faults + 1
    /\ hurt' = hurt \cup {cur}
    /\ \/ step = "match" /\ HandlerReturns /\ UNCHANGED tableVars
       \/ /\ step = "deposit" /\ HandlerReturns
          /\ rows' \in {rows, BookedRows} /\ UNCHANGED invoice
       \/ /\ step = "receipt"
          /\ \/ HandlerReturns /\ UNCHANGED invoice
             \/ AfterReceipt /\ invoice' \in {invoice, ReceiptAdded}
          /\ UNCHANGED rows
    /\ UNCHANGED <<consensusVars, chainVars, seenTx, batch, announced>>

(* The process dies and is restarted; seenTx starts empty, so the next     *)
(* poll hands over again whatever the window still shows.                  *)
Restart ==
    /\ ForgetVotes
    /\ seenTx' = {} /\ batch' = << >>
    /\ HandlerReturns
    /\ hurt' = (IF cur # None THEN hurt \cup {cur} ELSE hurt)
    /\ UNCHANGED <<chainVars, tableVars, announced, faults>>

Handler == PassOver \/ TakeTx \/ Match \/ Verdict \/ Deposit \/ AddInvoiceReceipt \/ Announce

FlowNext ==
    \/ \E i \in Invoices : CreateInvoice(i)
    \/ \E t \in Txs : TimesOut(t) \/ \E c \in Comments[t] : Arrive(t, c)
    \/ Poll \/ Handler \/ Votings \/ CallFails \/ Restart

FlowSpec == Init /\ [][FlowNext]_vars

(* The ticker keeps polling, the handler keeps running, the engine keeps   *)
(* collecting and the workers, which only compute and write a local file,  *)
(* keep answering.  Timeouts, failures and restarts are not owed.          *)
FairFlowSpec ==
    /\ FlowSpec
    /\ WF_vars(Poll) /\ WF_vars(Handler) /\ WF_vars(Votings)

-----------------------------------------------------------------------------
FlowTypeOK ==
    /\ TypeOK
    /\ onchain \in Seq(Txs) /\ comment \in [Txs -> Invoices \cup Wallets \cup {None}]
    /\ seenTx \subseteq Txs /\ batch \in Seq(Txs)
    /\ step \in {"idle", "match", "verify", "deposit", "receipt", "announce"}
    /\ cur \in Txs \cup {None} /\ found \in Invoices \cup {None}
    /\ dest \in Wallets \cup {None}
    /\ rows \in Seq([hash : Txs, wallet : Wallets, amount : Nat])
    /\ invoice \in [Invoices -> [status : {"none", "pending", "paid"}, received : Nat]]
    /\ announced \in [Invoices -> Nat]
    /\ hurt \subseteq Txs /\ faults \in 0..MaxFaults

(* c[1] + ... + c[n].                                                      *)
Total(c, n) ==
    LET sum[k \in 0..n] == IF k = 0 THEN 0 ELSE sum[k-1] + c[k]
    IN  sum[n]

(* What the booked deposits with the code of i put into the owner's wallet.*)
Funds(i) ==
    [n \in DOMAIN rows |->
        IF comment[rows[n].hash] = i /\ rows[n].wallet = Owner[i] THEN rows[n].amount ELSE 0]

Funded(i) == Total(Funds(i), Len(rows))

(* An invoice never counts money that is not in its owner's wallet, and is *)
(* paid only for its full price, although Deposit forgives a repeated hash *)
(* and AddInvoiceReceipt does not, and every restart hands old hashes over *)
(* again.  It is the workers' memory that keeps the two in step.           *)
InvoiceBacked ==
    \A i \in Invoices :
        /\ invoice[i].received <= Funded(i)
        /\ invoice[i].status = "paid" => Funded(i) >= Price[i] /\ Funded(i) > 0

(* Whatever fails on the way, a service hears of a payment only when the   *)
(* whole price is in the owner's wallet.                                   *)
AnnouncedIsFunded ==
    \A i \in Invoices : announced[i] > 0 => Funded(i) >= Price[i] /\ Funded(i) > 0

(* HandleDeposit's comment: the requesting service is told only when the   *)
(* invoice is fully paid.                                                  *)
AnnouncedIsPaid ==
    \A i \in Invoices : announced[i] > 0 => invoice[i].status = "paid"

(* The workers would approve t and its comment names someone.              *)
Expected(t) ==
    /\ comment[t] # None /\ Value[t] > 0
    /\ Cardinality({w \in Workers : Value[t] \in Admits[w]}) >= Threshold

PushedOut(t) == t \in ToSet(onchain) /\ t \notin ToSet(Fetched)

(* Every payment is booked in the end, unless its own handling was cut     *)
(* short by a timeout, a failed call or a restart, newer payments pushed   *)
(* it out of the window, or its invoice was paid before it came.  Faults   *)
(* in the handling of one payment never cost another its booking.          *)
DepositsArrive ==
    \A t \in Txs :
        (t \in ToSet(onchain) /\ Expected(t)) ~>
            \/ Booked(t) \/ t \in hurt \/ PushedOut(t)
            \/ comment[t] \in Invoices /\ invoice[comment[t]].status = "paid"
=============================================================================
