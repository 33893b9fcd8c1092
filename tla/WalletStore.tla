---------------------------- MODULE WalletStore ----------------------------
(***************************************************************************)
(* botpay/internal/store, statement by statement.  A session is one        *)
(* goroutine that calls a store method; every method is one database       *)
(* transaction, and the sessions interleave between its statements.        *)
(*                                                                         *)
(* The database is PostgreSQL at READ COMMITTED: a plain SELECT sees the   *)
(* committed rows of the moment it runs, SELECT ... FOR UPDATE and UPDATE  *)
(* wait for the row lock and see the row as it is then, and a row lock     *)
(* lasts until the transaction ends.  The writes of a transaction become   *)
(* visible in its commit step; no other session can change the locked rows *)
(* in between.  A second block with the same seq is refused by the unique  *)
(* index of ledger_entries and the whole transaction rolls back.           *)
(***************************************************************************)
EXTENDS Money

CONSTANTS
    Sessions,     \* goroutines with a store call in progress
    Calls,        \* the calls the sessions may make
    Serves,       \* Serves[s]: the methods session s calls
    NetworkFee,   \* wallet.NetworkFeeNano
    MinWithdraw,  \* wallet.MinWithdrawNano
    MaxStarts,    \* bound: how many calls a behaviour makes
    None

VARIABLES
    wallet,   \* wallet[w]: the committed row of w
    txs,      \* the transactions table; a row's id is its index
    ledger,   \* the ledger_entries table in insertion order
    reqs,     \* the withdraw_requests table; a row's id is its index
    lock,     \* lock[w]: the session that holds the row lock of w, or None
    pc,       \* pc[s]: the statement s runs next, or "idle"
    call,     \* call[s]: the arguments of the method s is in
    snap,     \* snap[s]: the row of call[s].wallet as s read it
    toSnap,   \* toSnap[s]: the row of call[s].to as s read it
    tip,      \* tip[s]: the end of the chain as s read it
    started   \* calls made so far

tables == <<wallet, txs, ledger, reqs>>
vars == <<wallet, txs, ledger, reqs, lock, pc, call, snap, toSnap, tip, started>>

Ops == {"Deposit", "Deduct", "AddCredit", "Transfer",
        "CreateWithdraw", "CompleteWithdraw", "RejectWithdraw"}

Settles == {"CompleteWithdraw", "RejectWithdraw"}

Job == [op : Ops, wallet : Wallets, to : Wallets, amount : Int,
        key : Keys \cup {NoKey}, req : Nat]

NoCall == [op |-> None, wallet |-> None, to |-> None, amount |-> 0,
           key |-> NoKey, req |-> 0]

Steps == {"idle", "find", "lock", "lockTo", "read", "check", "freeze",
          "release", "tip", "commit"}

(* An on-chain hash comes with a deposit and with the admin's confirmation *)
(* of a withdrawal.                                                        *)
ASSUME StoreAssumption ==
    /\ Calls \subseteq Job
    /\ \A c \in Calls : c.op \in {"Deposit", "CompleteWithdraw"} => c.key \in Keys
    /\ Serves \in [Sessions -> SUBSET Ops]
    /\ NetworkFee \in Nat /\ MinWithdraw \in Nat \ {0} /\ MaxStarts \in Nat
    /\ None \notin Sessions /\ None \notin Wallets /\ None \notin Ops

-----------------------------------------------------------------------------
(* What a method refuses before it opens its transaction: the checks of    *)
(* the method and of its only callers, Service.Transfer (no transfer to    *)
(* oneself), Service.RequestWithdraw (the minimum) and ton.Watcher.poll    *)
(* (a value above zero).  A settlement names a row that exists; neither    *)
(* settlement looks at the row's status.                                   *)
Accepts(c) ==
    /\ c.op \in {"Deposit", "Deduct", "AddCredit", "Transfer"} => c.amount > 0
    /\ c.op = "AddCredit" => c.key # NoKey
    /\ c.op = "Transfer" => c.wallet # c.to
    /\ c.op = "CreateWithdraw" => c.amount >= MinWithdraw
    /\ c.op \in Settles => c.req \in DOMAIN reqs

(* The settlements take wallet and amount from the request row, and the    *)
(* row's amount, fee and wallet never change.                              *)
Arguments(c) ==
    IF c.op \in Settles
    THEN [c EXCEPT !.wallet = reqs[c.req].wallet, !.amount = Total(reqs[c.req])]
    ELSE c

\* Mutants of the order of statements: a look-up, a lock or a check is left out.
FirstStepNoDeductLookup(c) ==
    CASE c.op = "Deposit" -> "find"
      [] c.op = "CreateWithdraw" -> "read"
      [] c.op = "RejectWithdraw" -> "release"
      [] OTHER -> "lock"

FirstStepNoDepositLookup(c) ==
    CASE c.op = "Deduct" -> IF c.key # NoKey THEN "find" ELSE "lock"
      [] c.op = "CreateWithdraw" -> "read"
      [] c.op = "RejectWithdraw" -> "release"
      [] OTHER -> "lock"

AfterLockNoRecipient(c) ==
    CASE c.op = "AddCredit" -> "find"
      [] c.op \in {"Transfer", "Deduct"} -> "check"
      [] OTHER -> "tip"

AfterLockNoCheck(c) ==
    CASE c.op = "AddCredit" -> "find"
      [] c.op = "Transfer" -> "lockTo"
      [] OTHER -> "tip"

AfterLockNoLookup(c) ==
    CASE c.op = "Transfer" -> "lockTo"
      [] c.op = "Deduct" -> "check"
      [] OTHER -> "tip"

(* The order of the statements of each method.                             *)
FirstStep(c) ==
    CASE c.op = "Deposit" -> "find"
      [] c.op = "Deduct" -> IF c.key # NoKey THEN "find" ELSE "lock"
      [] c.op = "CreateWithdraw" -> "read"
      [] c.op = "RejectWithdraw" -> "release"
      [] OTHER -> "lock"

AfterFind(c) == IF c.op = "AddCredit" THEN "tip" ELSE "lock"

AfterLock(c) ==
    CASE c.op = "AddCredit" -> "find"
      [] c.op = "Transfer" -> "lockTo"
      [] c.op = "Deduct" -> "check"
      [] OTHER -> "tip"

AfterCheck(c) == IF c.op = "CreateWithdraw" THEN "freeze" ELSE "tip"

(* What the balance must cover.                                            *)
Needed(c) == IF c.op = "CreateWithdraw" THEN c.amount + NetworkFee ELSE c.amount

Duplicate(c) ==
    \E i \in DOMAIN txs :
        CASE c.op = "Deposit" -> SameHash(txs[i], c.key)
          [] c.op = "Deduct" -> SameRef(txs[i], "payment", c.wallet, c.key)
          [] OTHER -> SameRef(txs[i], "credit_add", c.wallet, c.key)

-----------------------------------------------------------------------------
Init ==
    /\ wallet = [w \in Wallets |-> EmptyRow]
    /\ txs = << >> /\ ledger = << >> /\ reqs = << >>
    /\ lock = [w \in Wallets |-> None]
    /\ pc = [s \in Sessions |-> "idle"]
    /\ call = [s \in Sessions |-> NoCall]
    /\ snap = [s \in Sessions |-> EmptyRow]
    /\ toSnap = [s \in Sessions |-> EmptyRow]
    /\ tip = [s \in Sessions |-> GenesisTip]
    /\ started = 0

Goto(s, step) == pc' = [pc EXCEPT ![s] = step]

\* Mutant: the row locks outlive the transaction.
FinishKeepsLocks(s) ==
    /\ Goto(s, "idle")
    /\ call' = [call EXCEPT ![s] = NoCall]
    /\ snap' = [snap EXCEPT ![s] = EmptyRow]
    /\ toSnap' = [toSnap EXCEPT ![s] = EmptyRow]
    /\ tip' = [tip EXCEPT ![s] = GenesisTip]
    /\ UNCHANGED <<lock, started>>

(* The transaction ends, committed or rolled back: its locks are free.     *)
Finish(s) ==
    /\ Goto(s, "idle")
    /\ lock' = [w \in Wallets |-> IF lock[w] = s THEN None ELSE lock[w]]
    /\ call' = [call EXCEPT ![s] = NoCall]
    /\ snap' = [snap EXCEPT ![s] = EmptyRow]
    /\ toSnap' = [toSnap EXCEPT ![s] = EmptyRow]
    /\ tip' = [tip EXCEPT ![s] = GenesisTip]
    /\ UNCHANGED started

Begin(s, c) ==
    /\ pc[s] = "idle"
    /\ started < MaxStarts
    /\ c.op \in Serves[s]
    /\ Accepts(c)
    /\ call' = [call EXCEPT ![s] = Arguments(c)]
    /\ Goto(s, FirstStep(c))
    /\ started' = started + 1
    /\ UNCHANGED <<tables, lock, snap, toSnap, tip>>

(* The look-up of an earlier transaction with the same key.  Deposit and   *)
(* Deduct make it before they lock the wallet, AddCredit after.            *)
FindDuplicate(s) ==
    /\ pc[s] = "find"
    /\ \/ /\ Duplicate(call[s])
          /\ Finish(s)
       \/ /\ ~Duplicate(call[s])
          /\ Goto(s, AfterFind(call[s]))
          /\ UNCHANGED <<lock, call, snap, toSnap, tip, started>>
    /\ UNCHANGED tables

\* Mutant: a plain SELECT, as CreateWithdraw's turns out to be.
LockWalletPlainRead(s) ==
    /\ pc[s] = "lock"
    /\ snap' = [snap EXCEPT ![s] = wallet[call[s].wallet]]
    /\ Goto(s, AfterLock(call[s]))
    /\ UNCHANGED <<tables, lock, call, toSnap, tip, started>>

(* SELECT ... FOR UPDATE of the wallet row.                                *)
LockWallet(s) ==
    LET w == call[s].wallet IN
    /\ pc[s] = "lock"
    /\ lock[w] = None
    /\ lock' = [lock EXCEPT ![w] = s]
    /\ snap' = [snap EXCEPT ![s] = wallet[w]]
    /\ Goto(s, AfterLock(call[s]))
    /\ UNCHANGED <<tables, call, toSnap, tip, started>>

(* Transfer's second SELECT ... FOR UPDATE: sender first, then receiver.   *)
LockRecipient(s) ==
    LET w == call[s].to IN
    /\ pc[s] = "lockTo"
    /\ lock[w] = None
    /\ lock' = [lock EXCEPT ![w] = s]
    /\ toSnap' = [toSnap EXCEPT ![s] = wallet[w]]
    /\ Goto(s, "check")
    /\ UNCHANGED <<tables, call, snap, tip, started>>

(* CreateWithdraw's read: "gorm:query_option" is not an option of the gorm *)
(* version the module uses, so the SELECT takes no lock and waits for none.*)
ReadWallet(s) ==
    /\ pc[s] = "read"
    /\ snap' = [snap EXCEPT ![s] = wallet[call[s].wallet]]
    /\ Goto(s, "check")
    /\ UNCHANGED <<tables, lock, call, toSnap, tip, started>>

CheckEnough(s) ==
    /\ pc[s] = "check"
    /\ \/ /\ HasEnough(snap[s], Needed(call[s]))
          /\ Goto(s, AfterCheck(call[s]))
          /\ UNCHANGED <<lock, call, snap, toSnap, tip, started>>
       \/ /\ ~HasEnough(snap[s], Needed(call[s]))
          /\ Finish(s)
    /\ UNCHANGED tables

(* appendLedger reads the end of the chain, without a lock either.         *)
ReadTip(s) ==
    /\ pc[s] = "tip"
    /\ tip' = [tip EXCEPT ![s] = TipOf(ledger)]
    /\ Goto(s, "commit")
    /\ UNCHANGED <<tables, lock, call, snap, toSnap, started>>

-----------------------------------------------------------------------------
(* The last statements and the commit.                                     *)

\* Mutant: ledger_entries.seq has no unique index.
SeqFreeNoIndex(s) == TRUE

(* The unique index on seq lets the block after tip[s] in.                 *)
SeqFree(s) == \A i \in DOMAIN ledger : ledger[i].content.seq # tip[s].seq + 1

\* Mutant: the method forgets appendLedger.
PostWithoutBlock(s, row, type, entryType) ==
    LET c == call[s] IN
    /\ wallet' = [wallet EXCEPT ![c.wallet] = row]
    /\ txs' = Append(txs, NewTx(type, c.wallet, c.key,
                               IF entryType = "credit" THEN c.amount ELSE -c.amount))
    /\ UNCHANGED ledger

(* A committing method that moves the balance of one wallet.               *)
Post(s, row, type, entryType) ==
    LET c == call[s]
        amount == IF entryType = "credit" THEN c.amount ELSE -c.amount
    IN  /\ wallet' = [wallet EXCEPT ![c.wallet] = row]
        /\ txs' = Append(txs, NewTx(type, c.wallet, c.key, amount))
        /\ ledger' = Append(ledger,
               LinkEntry(tip[s], Len(txs) + 1, c.wallet, entryType, c.amount,
                         Realized(snap[s]) + amount))

CommitDeposit(s) ==
    LET c == call[s] IN
    /\ pc[s] = "commit" /\ c.op = "Deposit" /\ SeqFree(s)
    /\ Post(s, AddTon(wallet[c.wallet], c.amount), "deposit", "credit")
    /\ Finish(s)
    /\ UNCHANGED reqs

CommitDeduct(s) ==
    LET c == call[s] IN
    /\ pc[s] = "commit" /\ c.op = "Deduct" /\ SeqFree(s)
    /\ Post(s, Charge(wallet[c.wallet], snap[s], c.amount), "payment", "debit")
    /\ Finish(s)
    /\ UNCHANGED reqs

CommitCredit(s) ==
    LET c == call[s] IN
    /\ pc[s] = "commit" /\ c.op = "AddCredit" /\ SeqFree(s)
    /\ Post(s, GiveCredit(wallet[c.wallet], c.amount), "credit_add", "credit")
    /\ Finish(s)
    /\ UNCHANGED reqs

CommitComplete(s) ==
    LET c == call[s] IN
    /\ pc[s] = "commit" /\ c.op = "CompleteWithdraw" /\ SeqFree(s)
    /\ Post(s, PayOut(wallet[c.wallet], c.amount), "withdraw", "debit")
    /\ reqs' = [reqs EXCEPT ![c.req].status = "done"]
    /\ Finish(s)

(* A transfer writes both rows, two transactions and two blocks; the       *)
(* second block is linked to the first.                                    *)
CommitTransfer(s) ==
    LET c == call[s]
        out == LinkEntry(tip[s], Len(txs) + 1, c.wallet, "debit", c.amount,
                         Realized(snap[s]) - c.amount)
        in == LinkEntry([seq |-> out.content.seq, hash |-> out.hash], Len(txs) + 2,
                        c.to, "credit", c.amount, Realized(toSnap[s]) + c.amount)
    IN
    /\ pc[s] = "commit" /\ c.op = "Transfer" /\ SeqFree(s)
    /\ wallet' = [wallet EXCEPT
                     ![c.wallet] = Charge(@, snap[s], c.amount),
                     ![c.to] = Receive(@, snap[s], c.amount)]
    /\ txs' = Append(Append(txs, NewTx("payment", c.wallet, NoKey, -c.amount)),
                     NewTx("deposit", c.to, NoKey, c.amount))
    /\ ledger' = Append(Append(ledger, out), in)
    /\ Finish(s)
    /\ UNCHANGED reqs

(* The block's seq is taken: the insert fails and everything rolls back.   *)
SeqConflict(s) ==
    /\ pc[s] = "commit" /\ ~SeqFree(s)
    /\ Finish(s)
    /\ UNCHANGED tables

(* CreateWithdraw's UPDATE waits for the row lock, adds to frozen whatever *)
(* it is by now, and the request row is inserted.                          *)
Freeze(s) ==
    LET c == call[s] IN
    /\ pc[s] = "freeze"
    /\ lock[c.wallet] = None
    /\ wallet' = [wallet EXCEPT ![c.wallet] = Hold(@, c.amount + NetworkFee)]
    /\ reqs' = Append(reqs, [wallet |-> c.wallet, amount |-> c.amount,
                             fee |-> NetworkFee, status |-> "pending"])
    /\ Finish(s)
    /\ UNCHANGED <<txs, ledger>>

(* RejectWithdraw: the hold is released and a zero refund recorded.        *)
Release(s) ==
    LET c == call[s] IN
    /\ pc[s] = "release"
    /\ lock[c.wallet] = None
    /\ wallet' = [wallet EXCEPT ![c.wallet] = Hold(@, -c.amount)]
    /\ txs' = Append(txs, NewTx("refund", c.wallet, NoKey, 0))
    /\ reqs' = [reqs EXCEPT ![c.req].status = "rejected"]
    /\ Finish(s)
    /\ UNCHANGED ledger

-----------------------------------------------------------------------------
(* The database's own moves.                                               *)

WaitsFor(s) ==
    CASE pc[s] \in {"lock", "freeze", "release"} -> lock[call[s].wallet]
      [] pc[s] = "lockTo" -> lock[call[s].to]
      [] OTHER -> None

(* Sessions that wait for each other in a circle: PostgreSQL cancels one.  *)
DeadlockVictim(s) ==
    /\ \E circle \in SUBSET Sessions :
          s \in circle /\ {WaitsFor(t) : t \in circle} = circle
    /\ Finish(s)
    /\ UNCHANGED tables

(* A statement fails (context cancelled, connection lost): rollback.       *)
Abort(s) ==
    /\ pc[s] # "idle"
    /\ Finish(s)
    /\ UNCHANGED tables

Step(s) ==
    \/ FindDuplicate(s) \/ LockWallet(s) \/ LockRecipient(s) \/ ReadWallet(s)
    \/ CheckEnough(s) \/ ReadTip(s)
    \/ CommitDeposit(s) \/ CommitDeduct(s) \/ CommitCredit(s)
    \/ CommitComplete(s) \/ CommitTransfer(s) \/ SeqConflict(s)
    \/ Freeze(s) \/ Release(s) \/ DeadlockVictim(s)

(* All calls made and answered.                                            *)
Done ==
    /\ started = MaxStarts
    /\ \A s \in Sessions : pc[s] = "idle"
    /\ UNCHANGED vars

Next ==
    \/ \E s \in Sessions : Step(s) \/ Abort(s) \/ \E c \in Calls : Begin(s, c)
    \/ Done

Spec == Init /\ [][Next]_vars

(* A call in progress keeps executing; aborts and new calls are not owed.  *)
FairSpec == Spec /\ \A s \in Sessions : WF_vars(Step(s))

-----------------------------------------------------------------------------
(* Every variable has the type the schema and the methods give it.         *)
TypeOK ==
    /\ wallet \in [Wallets -> Row]
    /\ txs \in Seq(Tx)
    /\ ledger \in Seq(Entry)
    /\ reqs \in Seq(Request)
    /\ lock \in [Wallets -> Sessions \cup {None}]
    /\ pc \in [Sessions -> Steps]
    /\ call \in [Sessions -> Job \cup {NoCall}]
    /\ snap \in [Sessions -> Row]
    /\ toSnap \in [Sessions -> Row]
    /\ tip \in [Sessions -> Tip]
    /\ started \in Nat

(* Store.VerifyChain finds nothing wrong in any state the methods can      *)
(* reach: although appendLedger reads the tip without a lock, racing       *)
(* appends never fork the chain or leave a gap in it.                      *)
ChainValid == VerifyChain(ledger)

(* The realized balance the first n blocks give wallet w.                  *)
BookBalance(w, n) ==
    LET sum[i \in 0..n] ==
            IF i = 0 THEN 0
            ELSE sum[i-1] + IF ledger[i].content.wallet = w THEN Delta(ledger[i]) ELSE 0
    IN  sum[n]

(* Store.VerifyLedgerBalance answers true for every wallet in every state: *)
(* credits minus debits are the realized balance.                          *)
LedgerBalanced ==
    \A w \in Wallets : BookBalance(w, Len(ledger)) = Realized(wallet[w])

(* The same fact block by block, for a chain and the rows it explains: the *)
(* newest block of a wallet carries its balance, a wallet without blocks   *)
(* is empty, and each block differs by its own amount from the wallet's    *)
(* block before it, or from zero if there is none.                         *)
Apart(chain, w, m, n) == \A i \in DOMAIN chain : m < i /\ i < n => chain[i].content.wallet # w

Explains(chain, rows) ==
    /\ \A n \in DOMAIN chain : LET w == chain[n].content.wallet IN
          /\ Apart(chain, w, n, Len(chain) + 1) =>
                chain[n].content.balanceAfter = Realized(rows[w])
          /\ Apart(chain, w, 0, n) => chain[n].content.balanceAfter = Delta(chain[n])
          /\ \A m \in DOMAIN chain :
                m < n /\ chain[m].content.wallet = w /\ Apart(chain, w, m, n) =>
                    chain[n].content.balanceAfter
                        = chain[m].content.balanceAfter + Delta(chain[n])
    /\ \A w \in Wallets : Apart(chain, w, 0, Len(chain) + 1) => Realized(rows[w]) = 0

(* The ledger explains every balance: balance_after, computed from a row   *)
(* read earlier in the transaction, is never stale when it is written.     *)
AuditTrail == Explains(ledger, wallet)

(* Every transaction that moves money has exactly one block, with its      *)
(* wallet and amount (ledger.go: the balance never changes without one).   *)
(* The comment at models.go:209-211 speaks of two per transaction and of a *)
(* sum of zero, DoubleEntry below; every method writes one entry for each  *)
(* transaction, and LedgerBalanced says what the entries sum up to.        *)
EveryMovementBooked ==
    \A i \in DOMAIN txs : txs[i].type # "refund" =>
        \E n \in DOMAIN ledger :
            /\ ledger[n].content.tx = i
            /\ ledger[n].content.wallet = txs[i].wallet
            /\ Delta(ledger[n]) = txs[i].amount
            /\ \A m \in DOMAIN ledger \ {n} : ledger[m].content.tx # i

(* Not kept by the code: what models.go:210 says of the ledger, a debit    *)
(* and a credit for each transaction.                                      *)
DoubleEntry ==
    \A i \in DOMAIN txs : txs[i].type # "refund" =>
        {ledger[n].content.type : n \in {m \in DOMAIN ledger : ledger[m].content.tx = i}}
            = EntryType

(* AddCredit is idempotent: two concurrent credits with one (service, ref) *)
(* never both reach the wallet, because the look-up is made under the lock.*)
CreditOncePerRef ==
    \A i, j \in DOMAIN txs :
        /\ txs[i].type = "credit_add" /\ txs[j].type = "credit_add"
        /\ txs[i].wallet = txs[j].wallet /\ txs[i].key = txs[j].key
        => i = j

(* Deduct's comment: a repeated (service, ref) is not charged again.       *)
PaymentOncePerRef ==
    \A i, j \in DOMAIN txs :
        /\ txs[i].type = "payment" /\ txs[j].type = "payment"
        /\ txs[i].wallet = txs[j].wallet
        /\ txs[i].key = txs[j].key /\ txs[i].key # NoKey
        => i = j

(* Deposit's comment: idempotent in tx_hash.                               *)
DepositOncePerHash ==
    \A i, j \in DOMAIN txs :
        /\ txs[i].type = "deposit" /\ txs[j].type = "deposit"
        /\ txs[i].key = txs[j].key /\ txs[i].key # NoKey
        => i = j

(* The split of a payment or transfer between credit and TON is computed   *)
(* from a row read before the update: it never takes credit below zero.    *)
CreditNonNegative == \A w \in Wallets : wallet[w].credit >= 0

Available(row) == Realized(row) - row.frozen

PaysFromAvailable ==
    \A w \in Wallets :
        (\E i \in DOMAIN txs' \ DOMAIN txs : txs'[i].type = "payment" /\ txs'[i].wallet = w)
        => Available(wallet'[w]) >= 0

(* A payment or a transfer never spends money that is held or not there:   *)
(* whatever freezes, settlements and other payments commit around it, the  *)
(* sender's available balance is not below zero after it.                  *)
SpendCovered == [][PaysFromAvailable]_vars

(* CreateWithdraw's comment: the check and the hold cannot be separated by *)
(* another request, so holds never exceed the balance.                     *)
AvailableNonNegative == \A w \in Wallets : Available(wallet[w]) >= 0

(* README: internal credit is not withdrawable.                            *)
TonNonNegative == \A w \in Wallets : wallet[w].ton >= 0

(* models.go: frozen is what awaits confirmation, the pending requests.    *)
FrozenIsPending ==
    \A w \in Wallets :
        LET held[i \in 0..Len(reqs)] ==
                IF i = 0 THEN 0
                ELSE held[i-1] + IF reqs[i].wallet = w /\ reqs[i].status = "pending"
                                 THEN Total(reqs[i]) ELSE 0
        IN  wallet[w].frozen = held[Len(reqs)]

(* No call waits forever: locks are released on every path and a circle of *)
(* opposite transfers is broken by the database.                           *)
CallsEnd == \A s \in Sessions : pc[s] # "idle" ~> pc[s] = "idle"

-----------------------------------------------------------------------------
(* The inductive invariant behind the theorems of WalletStoreProofs.       *)

(* The steps at which s has locked, and read, the row of its wallet ...    *)
Owns(s) ==
    \/ pc[s] \in {"lockTo", "tip", "commit"}
    \/ pc[s] = "check" /\ call[s].op # "CreateWithdraw"
    \/ pc[s] = "find" /\ call[s].op = "AddCredit"

(* ... and also the row of the receiver.                                   *)
OwnsTo(s) == call[s].op = "Transfer" /\ pc[s] \in {"check", "tip", "commit"}

(* The arguments passed the checks made before the transaction, and the    *)
(* step is one the method has.                                             *)
CallOK(s) ==
    LET c == call[s] IN
    /\ pc[s] # "idle" => c \in Job
    /\ c.op \in {"Deposit", "Deduct", "AddCredit", "Transfer"} => c.amount > 0
    /\ c.op \notin Settles /\ c.op # None => c \in Calls
    /\ c.op \in {"AddCredit", "Deposit", "CompleteWithdraw"} => c.key \in Keys
    /\ c.op = "Transfer" => c.wallet # c.to
    /\ c.op = "CreateWithdraw" => c.amount >= MinWithdraw
    /\ c.op \in Settles => /\ c.req \in DOMAIN reqs
                           /\ c.wallet = reqs[c.req].wallet
                           /\ c.amount = Total(reqs[c.req])
    /\ pc[s] = "find" => c.op \in {"Deposit", "Deduct", "AddCredit"}
    /\ pc[s] \in {"lock", "tip", "commit"} =>
          c.op \in {"Deposit", "Deduct", "AddCredit", "Transfer", "CompleteWithdraw"}
    /\ pc[s] = "lockTo" => c.op = "Transfer"
    /\ pc[s] = "check" => c.op \in {"Deduct", "Transfer", "CreateWithdraw"}
    /\ pc[s] \in {"read", "freeze"} => c.op = "CreateWithdraw"
    /\ pc[s] = "release" => c.op = "RejectWithdraw"

(* What s read under a lock is still true.                                 *)
ReadsFresh(s) ==
    LET c == call[s] IN
    /\ Owns(s) => lock[c.wallet] = s /\ snap[s] = wallet[c.wallet]
    /\ OwnsTo(s) => lock[c.to] = s /\ toSnap[s] = wallet[c.to]

(* What s checked is still true.                                           *)
ChecksHold(s) ==
    LET c == call[s] IN
    pc[s] \in {"tip", "commit"} =>
        /\ c.op \in {"Deduct", "Transfer"} => HasEnough(snap[s], c.amount)
        /\ c.op = "AddCredit" =>
              \A i \in DOMAIN txs : ~SameRef(txs[i], "credit_add", c.wallet, c.key)

(* The tip s read is the end of the chain or strictly inside it.           *)
TipOK(s) ==
    pc[s] = "commit" =>
        /\ tip[s].seq \in 0..Len(ledger)
        /\ tip[s].seq = Len(ledger) => tip[s].hash = TipOf(ledger).hash

(* Blocks are numbered by their place.                                     *)
SeqOK == \A i \in DOMAIN ledger : ledger[i].content.seq = i

(* The state of the calls in progress agrees with the tables, and the      *)
(* tables with each other.                                                 *)
SessionsOK ==
    /\ SeqOK
    /\ \A s \in Sessions : CallOK(s) /\ ReadsFresh(s) /\ ChecksHold(s) /\ TipOK(s)

-----------------------------------------------------------------------------
(* The book of AtomicWallet is the ledger without its chaining.            *)
Book == [n \in DOMAIN ledger |->
            [wallet |-> ledger[n].content.wallet, delta |-> Delta(ledger[n]),
             balance |-> ledger[n].content.balanceAfter]]

Atomic == INSTANCE AtomicWallet WITH Amounts <- {c.amount : c \in Calls}, book <- Book

(* The interleaved statements of all sessions, with their reads before the *)
(* locks, amount to a sequence of indivisible store methods.               *)
AtomicSpec == Atomic!Spec
=============================================================================
