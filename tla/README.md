# botpay in TLA+

A model of `botpay`, the TON wallet and payment core of a family of Telegram bots, and of
`revenue-service`, which splits earnings and pays them out through botpay. The modules follow
the Go code; `PROJECT.json` maps every definition to the lines it stands for.

## 1. The system

| Component | State it keeps | Operations |
|---|---|---|
| Wallet store (`internal/store`) | PostgreSQL: wallets (`ton_balance`, `credit`, `frozen`), transactions, hash-chained `ledger_entries`, withdraw requests, invoices | `Deposit`, `Deduct`, `AddCredit`, `Transfer`, `CreateWithdraw`, `CompleteWithdraw`, `RejectWithdraw`, `appendLedger`, `VerifyChain`, `AddInvoiceReceipt` |
| Wallet service (`internal/wallet`) | none | checks before the store, `HandleDeposit`, `CreateDepositInvoice`, notifications |
| TON watcher (`internal/ton`) | `seenTx`, in memory | poll the newest 20 transactions of the master address, hand each new one over |
| Consensus (`internal/consensus`) | one SQLite file per worker; the Merkle worker's chain in memory | `Engine.Verify` with four workers, 3 of 4, a timeout of 5 s |
| Pay responder (`internal/payresponder`) | a Redis key per wallet | authorisation; `pay.deduct`, `pay.credit`, `pay.transfer`, `pay.balance`, invoices, over NATS request/reply |
| natspayclient (`shared/natspayclient`) | the same Redis key | `Balance`, `Deduct`, `DeductForService`, `Credit`, `RefundService`, `SubscribeWalletUpdates`, `SubscribePayCompleted` |
| Revenue service | earnings, rules, platform wallets | `CreateAndProcess`, `ProcessEarning`, `RunWorker`, REST administration |
| Telegram bot (`internal/tgbot`) | conversations, in memory; messages with buttons in the chats | seven multi-step conversations, admin pages |
| Chain guard (`internal/chainguard`) | `healthy`, in memory | `VerifyChain` every 30 s, alert |

How they interact: the watcher calls `HandleDeposit`, which asks the consensus engine, books the
deposit, adds it to the invoice in a second transaction and publishes an event. Services ask
over NATS; the responder calls the wallet service, which asks the engine for payments and then
the store, rewrites the Redis key and publishes `wallet.updated`, on which clients delete the
key. The bot calls the service directly. The revenue service asks for credits over NATS.

What is hard in it: database transactions that read before they lock and share the end of one
chain; a process that dies between two of its writes and is handed the same work again; requests
that time out and are served all the same; a cache with two kinds of writers and lossy deletions;
handlers of one user that run at the same time. The list, line by line, is `hazards` in
`PROJECT.json`, each with the properties that watch it.

What makes each part correct:

* store: the ledger is one unbroken chain and explains every balance; no movement without its
  block; a retried call is booked once; nothing is spent that is not there; every call ends;
* consensus: an id is approved once, ever; the engine answers whatever the workers do;
* deposit path: an invoice counts only money that arrived; a service is told only of that; a
  payment on the chain reaches its wallet;
* revenue: one earning per reference, one payer per earning, and what is paid is the split of one rule;
* purchase: what a service was told is paid was paid, once; a refund gives back what was charged; the
  purchase ends;
* cache: a stale balance does not last;
* chain guard: no alarm about a chain nobody touched, an alarm about one that somebody did;
* bot: what is carried out is the conversation begun last, as it was entered, once, by who may do it.

## 2. Modules

| Module | Models | Notes |
|---|---|---|
| `Money` | `models.go`, `chain.go` | wallet rows, transactions, requests, ledger blocks; the arithmetic of each method; linking and `VerifyChain` as pure operators |
| `WalletStore` | the seven store methods | one action per SQL statement or group of statements that nothing can separate |
| `AtomicWallet` | what the store promises | every method one step; `WalletStore` implements it (`AtomicSpec`) |
| `ChainGuard` | `chainguard`, `Store.VerifyChain` | extends `WalletStore`; one action per batch that is read |
| `Consensus` | `Engine.Verify`, workers, their files | one action per worker decision, record, received vote, timeout |
| `DepositFlow` | watcher, `HandleDeposit`, invoices | extends `Consensus`; a store method is one step |
| `Revenue` | `engine`, `store`, `api` of revenue-service; botpay's side of a credit | one action per database call and message |
| `ServicePayment` | a purchase from the client of a service to the store and back | one action per message, read before the lock, and commit |
| `BalanceCache` | the Redis key of one wallet | a balance is the number of changes made to it |
| `Conversation` | the bot's conversations | a goroutine is the list of effects its handler still has to make |
| `MC...` | instances for TLC | |
| `...Proofs` | | theorems about the module of that name (section 4); `WalletBookProofs` is the second part of `WalletStoreProofs` |

### Money and WalletStore

`wallet`, `txs`, `ledger` and `reqs` are the tables; an index of a sequence is a row id. Per
session (`pc`, `call`, `snap`, `toSnap`, `tip`) stands what a goroutine inside a method has read.
`lock` holds the row locks. The actions are the statements: `Begin` (the checks before the
transaction, arguments), `FindDuplicate`, `LockWallet`, `LockRecipient`, `ReadWallet`,
`CheckEnough`, `ReadTip`, then one commit per method (`CommitDeposit`, ..., `Freeze`, `Release`),
`SeqConflict` (the unique index refuses a second block with one `seq`), `Abort` (any statement
fails and `gorm` rolls back) and `DeadlockVictim` (PostgreSQL breaks a circle of waits). The order
of the statements of each method is `FirstStep`, `AfterFind`, `AfterLock` and `AfterCheck`.

Decisions:

* The database runs at READ COMMITTED, PostgreSQL's default, which nothing in the repository
  changes. The writes of a transaction become visible in its commit step; the rows involved are
  locked by then, so no other session could have seen or changed them earlier.
* `CreateWithdraw` asks for its lock with `Set("gorm:query_option", "FOR UPDATE")`. gorm v2, the
  imported one, ignores that option, so `ReadWallet` takes no lock. The other methods use
  `clause.Locking`, which works.
* SHA-256 is injective: a hash is the block it was computed from (`Hash`), which is what makes
  `VerifyChain` a statement about the blocks.
* Wallets exist from the start: `GetOrCreateWallet` only adds an empty row. The checks that
  `Service.Pay`, `RequestWithdraw` and `Transfer` make on an earlier read only refuse more and are
  left out; those on the arguments are `Accepts`.
* The ledger is one entry per transaction. The comment of `LedgerEntry` (`models.go:209-211`) says that
  every transaction has two, a debit and a credit, and that all entries sum up to zero; every method
  writes one for each transaction, so the sum is what the wallets hold. `EveryMovementBooked` and
  `LedgerBalanced` state what the code does, and the disagreement is among the findings.
* `WithdrawStatus` has the statuses the code assigns; `approved` and `processing` are declared in
  `models.go` and never assigned.

### ChainGuard

`WalletStore` with a goroutine beside its sessions. `StartCheck` is a tick; `ReadBatch` is one `SELECT`
with its comparisons, carrying place and hash to the next one (`scan`); an empty batch ends the check.
`CheckFails` is a failing `SELECT`. `Tamper` changes the amount of a block, as someone with access to
the database could, `Repair` puts it back; both are external. An alarm is a check that sets
`healthy` to `FALSE`. The code reads the first time with `healthy` as `New` leaves it, `TRUE`.

What the guard cannot notice is not a property here: the newest blocks deleted, or a chain rewritten
with new hashes, is accepted by `VerifyChain`. The package comment says that the consensus workers
sign the tip of the chain; no code does that.

### Consensus and DepositFlow

`vote[t][w]` follows the goroutine of worker `w`: asked, decided, recorded and sent, received.
A deposit's id is derived from its hash and survives a restart; a deduction's id is random. The
cryptography of a worker is its decision: it looks up the id in its file, tests the amount
(`Admits`) and records its vote. Errors of the SQLite calls are ignored by the code: a worker in
`Unreliable` may forget. That a service is named, which the AES worker asks, is
true of every call. The engine takes votes and timeouts in any order, as `select` does.

The Ed25519 worker admits nothing. `NewEd25519Worker` takes 64 random bytes as its private key, so the
public half does not belong to the private one, its signature fails its own check (`workers.go:170`)
and it votes no. Its test of the length of the sender (`workers.go:154`), which a short Telegram
id (`tg-` and fewer than seven digits) fails, decides nothing any more. An approval therefore takes the
votes of HMAC, AES and Merkle together: 3 of 4 leaves no room for a missing vote. `consensus_replay` has
this worker as it is; `deposit_restart`, where two workers stand for those that can approve, asks for both.
The theorems hold for any `Admits`.

`DepositFlow` runs the watcher goroutine: `Poll`, `PassOver` (no value, or seen before), `TakeTx`
(the hash is marked as seen before it is handled), `Match`, the votes, `Deposit`,
`AddInvoiceReceipt`, `Announce`. `CallFails` fails the database call of the current step, before or
after its effect; `Restart` may come at any point.
The TON API is taken to give every transaction a hash, as the code assumes.

### Revenue

Listeners (NATS, REST) and the worker loop run `Lookup`, `Create`, `ReadRule`, `Claim`, `PayOwner`,
`PayPlatform`, `MarkDone`, `MarkFailed`. A credit is a request that is served, lost or served after
its sender stopped waiting; botpay books one reference once (that is `CreditOncePerRef` of
`WalletStore`). Amounts cross the wire as `float64` TON: `Credit` takes a nano from the amounts in
`Lossy`; 15 is such an amount, and so is 1001000000. The owner's share is an integer division; the
code multiplies in floating point, which is exact while total times percentage is
below 2^53. Rules are kept
per type; an event of a type without a rule (four of the declared types have none by default) makes
an earning that stays pending. A percentage is any integer (the column is a float; a
fraction of a percent adds nothing to the properties): `updateRule` (`api.go:139`) only checks that
the two of a rule add up to 100, so 150 and -50 is a rule, and `ProcessEarning` then pays the owner
one and a half times the total and skips the platform. The run has such rules. `WalletUnread` is what a failing
`GetPlatformWallet` does: it returns an empty wallet with the error, `ProcessEarning` drops the error,
and the platform's share is credited to Telegram id 0.

### ServicePayment

The client side: `Deduct`, `RefundService`, `Receive`, `TimeOut`, `PayCompleted`; `Provision` is the
service's own business and external. A timed out purchase is asked again with the same fields, a
refund until it is confirmed or refused as unauthorized, as the comment of `Deduct` and the refund's
reference provide for. The server side: per process and subject one callback at a time (`work`),
`Take` (authorisation, validation), then for a payment `CheckBalance` (`Service.Pay`'s own look at the
balance), `FindPayment` (the look-up of the key, before the lock), `CommitDeduct` (the rest, under the
lock); for a refund `CommitCredit`; then `Respond`: notification, events, answer. Faults: a lost
request or answer, a failing call, a lost confirmation of a commit, a rejection by the consensus, a
bot that cannot be looked up, a deleted bot, a process that dies.

Decisions:

* `Price` is the amount asked for, in nano; what is charged and refunded is `Nano`, the price after
  `TONToNano` (`responder.go:272`), which cuts a nano off the prices in `Lossy`: 1.001 TON is charged as
  1000999999 nano. A price below one nano passes `validAmount` and is refused further in (`Payable`).
* A store method from its first lock on is one step: that is what `AtomicSpec` shows of it. How an
  amount is split between credit and TON belongs to `WalletStore`; here a balance is what can be spent.
* A message of an order names it. The events and answers of two orders are told apart by the code
  through inboxes and refs, so an event of an order without a ref is not recognised (`Announces`).
* `overlapped` is history: keys that two callbacks worked on at a time. The excuse in `ChargedOnce` is
  exactly the case the code leaves open, a queue group of more than one process.
* An order without ref and idempotency key falls back to its reason. Such orders are in the model
  (`Identified`) and in the proofs, and in no run; properties that need a key of one's own say so.

### BalanceCache

Responders pay, reread, write the key and publish; clients miss, ask and put; deletions, expiry and
changes that are not announced (deposits, settlements, transfers made in the bot) come in between.
`Faulty` adds failing Redis calls and lost messages: a read that fails is a miss (`client.go:79`), a
write that fails is ignored (`client.go:111`).

### Conversation

telebot runs every update in a goroutine (`Settings.Synchronous` is not set in `cmd/main.go`). A
handler reads its user's conversation once; what follows, writing or deleting the conversation,
sending the confirmation, calling the wallet service, removing the buttons, is a list of effects
that other handlers interleave with. A message that cannot be sent, an edit that fails and a call
that is refused are outcomes of the effect. `born`, `meant`, `latest` and `crossed` are history:
`crossed` has the conversations that a handler had in hand when another handler of the same user
read. Addresses, recipients and request ids are all the `target` of a conversation.

## 3. Runs

Passing runs:

| Run | Bounds | Shows |
|---|---|---|
| `store_core` | 2 wallets, 2 sessions, 5 calls out of 13, all methods | `ChainValid`, `LedgerBalanced` (the books add up), `AuditTrail` (no `balance_after` is stale), `EveryMovementBooked`, `CreditOncePerRef`, `CreditNonNegative`, `SpendCovered` (nothing is paid out of money that is held or absent), `SessionsOK` (the inductive invariant), `AtomicSpec` (refinement) |
| `store_one_process` | 3 sessions: one for `Deduct`, one for `Deposit` and the rest, one for the rest; 4 calls, opposite transfers; the guard with batches of 2, a changed block, a failing check | `PaymentOncePerRef`, `DepositOncePerHash`: with one botpay process a retried payment or deposit is booked once, since nats.go runs the callbacks of one subscription one at a time and there is one watcher; `CallsEnd`: every call ends, although transfers lock in opposite orders; `NoFalseAlarm`, `TamperNoticed` of the guard, whose batches commits come between |
| `consensus_replay` | 4 workers, one with a failing file, 2 restarts | `ApprovedOnce`, `ApprovalRemembered`, and `VerifyEnds` without any fairness of the workers |
| `deposit_restart` | 2 payments, 1 invoice, a window of 1, a restart, a fault, a failing file | `InvoiceBacked`, `AnnouncedIsFunded`, `DepositsArrive` |
| `revenue_payout` | 3 events, two with one reference, 2 types, one with the rules of 75 and 150 percent, one with -50 percent or none, totals of 20 nano of which the shares 15 and 30 lose a nano, the listener and the worker, a batch of 1, a change, a fault | `OnePayer`, `PaidBySplit` (at most one credit to the owner and one other, the shares of one rule but for the lost nano), `DoneIsPaid`, `StrandedByFault` (only a fault leaves a claimed earning with nobody at work on it), `EarningOncePerRef`, `PendingIsProcessed` |
| `cache_heals` | 2 responders, 2 clients, 2 payments, a silent change, faults | `CacheHeals` |
| `talk` | all 7 kinds, 2 users, 2 handlers at a time, 5 updates, a restart | `CallsAsEntered`: no interleaving mixes the data of two conversations; `OwnerOnly`; `ExecutedOnce` and `NewestExecuted`: a conversation is carried out once, and it is the newest of its user, unless handlers of the user overlapped over it |
| `purchase` | 2 purchases of one user, prices 3 (of which 2 arrive) and 1 out of 2, one with a ref and one with an idempotency key, 2 processes, a timeout of a request under way, a fault | `SuccessIsPaid` (paid at its price but for the lost nano), `ChargedOnce`, `RefundBacked` (once, and exactly what was charged), `FirstRefusalIsFinal`, `ToldPerPayment` (the user hears of a payment, not of its retry), `PurchaseEnds` |

Why the bounds are enough to meet the hazards: two sessions suffice for every race between a read
and a lock, three for a circle with a bystander; five calls reach a deposit, a credit, a hold and its
settlement around a payment; two restarts let a transaction be voted on three times; a window of one
pushes a payment out with the second; two earnings and a batch of one make the second wait behind
the first, for ever when the first has no rule (`OutOfReach`); five updates are a conversation with
its confirmation and one that crosses it, or two taps on one button; a timeout and a fault are the
least that makes a retry meet its original or its lost commit, with funds for only one of the
purchases; three blocks and batches of two make a check span a commit. Every
property has a mutant in `PROJECT.json`, a plausible slip in a mapped definition that the run catches.

Violations: each checks what a comment, a document or a text of the program says, and TLC finds a
behaviour of the code that contradicts it. The quotations are in `findings`.

| Run | What happens |
|---|---|
| `overdrawn_hold` | two withdrawal requests check one balance before either holds its part |
| `credit_withdrawn` | a hold is admitted against TON plus credit and paid from TON: TON goes below zero |
| `settled_twice` | a withdrawal request is settled again: no settlement looks at its status |
| `told_unpaid` | the receipt's transaction fails after its result was set: a service is told of an invoice that is still pending |

The models show more of these, which are not kept as runs. Each is found by the instance of a run
above with the change named here:

| Property | Instance | What happens |
|---|---|---|
| `PaymentOncePerRef`, `DepositOncePerHash` | `store_one_process` with `Serves <- AnyServe`, two botpay processes (the responders form a queue group) | a retry is booked twice: the look-up precedes the lock and no unique index backs it (`wallet_repo.go:105`, `:152` say otherwise) |
| `EarningOncePerRef` | `revenue_payout` with a second listener (REST beside NATS) | one reference makes two earnings: look-up and creation are two steps |
| `PaidWithinTotal` | `revenue_payout` | a rule of 150 and -50 percent, which `updateRule` accepts, pays the owner 30 of 20 |
| `DoubleEntry` | `store_core` | a deposit has a credit and no debit, against the comment at `models.go:210` |
| `PaidInFull` | `purchase` | a purchase of 1.001 TON is charged 1000999999 nano: `TONToNano` truncates |
| `RecordedIsPaid` | `revenue_payout` | the recorded share is a nano more than the credit that arrived: `TONToNano` truncates |
| `RefusedIsUncharged` | `purchase` | a payment is made, its answer comes too late, and the retry is told that the balance does not suffice: `Pay` looks at the balance (`wallet.go:251`) before `Deduct` looks for the payment, which the comment at `wallet_repo.go:152` promises to return |
| `ChargedOnce` without `overlapped` | `purchase` | a retry in the second process is charged beside its original |
| no credit of role `zero` | `revenue_payout` | the platform's share goes to Telegram id 0 |
| `MerkleChainComplete` | `consensus_replay` with `d1` and `p1` verified side by side by `hmac` and `merkle` | both extend the same Merkle hash and one is lost (`workers.go:358` takes verifications to be serial) |
| `FreshWhenQuiet` | `cache_heals` without faults | a client caches an answer older than the deletion that overtook it |
| `ExecutedOnce` without `crossed` | `talk` | two taps on one confirm button carry out one conversation twice |
| `ConfirmedAsShown` | `talk` with one goroutine, 7 updates, withdrawals only | the button of an older confirmation carries out the newer conversation |

What the properties excuse. Some properties of the passing runs except, by name, a case in which the
code does go wrong. They show that nothing else goes wrong; they do not catch the case itself, which
the hazards that name them say as well.

| Property | Excuse | What happens then |
|---|---|---|
| `DepositsArrive` | `hurt`: the handling of this very payment was cut short | its hash is marked as seen, so it is not tried again, or after a restart the workers' files have its id, so it is not approved again |
| `DepositsArrive` | `PushedOut`: newer payments filled the window first | never read |
| `DepositsArrive` | its invoice was paid in the meantime | matched by nothing, logged and dropped |
| `StrandedByFault` | `faults > 0` | an earning claimed before a crash stays in processing |
| `PendingIsProcessed` | `OutOfReach`: no rule, or older earnings without one fill the batch | pending for ever |
| `EarningOncePerRef` | none, but the run has one listener | see the table above for REST beside NATS |
| `ChargedOnce` | `overlapped`: two processes worked on the key at a time | charged twice |
| `ExecutedOnce`, `NewestExecuted` | `crossed`: handlers of the user overlapped | carried out twice, or an older one |
| `NewestExecuted` | none for it | an old button or a late text acts on the newest conversation, which need not be the one the user saw |

Every module states the types of its variables; `store_core`, `deposit_restart` (with the types of
`Consensus`) and `purchase` check theirs, the other runs spend their time on what can go wrong.

`CHECK_DEADLOCK FALSE` is set where the bounded system may come to rest (all payments handled, all
updates used); `WalletStore` has an explicit step for that and is checked for deadlock.

### Fairness

* `store_one_process`: weak fairness of every session's steps: a goroutine goes on, and the database
  gives a freed lock to someone and detects deadlocks. No call is owed a success.
  The guard's ticker and the loop over its batches; nothing is assumed about tampering or repair.
* `purchase`: the service acts on what it is told, a request ends with its answer or, when nothing is
  under way any more, its timeout, and callbacks run to their end. No message is owed a delivery.
* `consensus_replay`: the engine's loop and its timer. Nothing of the workers.
* `deposit_restart`: the ticker, the handler, the votes. Not timeouts, failures or restarts; the
  property excuses the payment whose own handling one of them cut short.
* `revenue_payout`: the worker's ticker and the goroutines' steps; a request ends with its answer or
  its timeout.
* `cache_heals`: handlers end and keys expire. Deletions are not owed.

## 4. Proofs

Every safety property that a passing run checks is proved by TLAPS, for every value of the constants
that the modules' assumptions admit and for behaviours of any length; the bounds of the runs
(`MaxRestarts`, `MaxFaults`, ...) are arbitrary numbers there. None of the properties is inductive.
Each module defines the invariant it needs; TLC has checked that invariant on the instance of the run,
with a range for `Nat` where the invariant quantifies over it, before it was proved. The proofs have one lemma per part of the invariant and one step per action.

### WalletStore

From `MoneyAssumption` and `StoreAssumption` (the keys, the form of the calls, natural numbers for fee
and minimum, `None` distinct from the rest):

| Theorem | Statement |
|---|---|
| `StoreTypeCorrect` | `Spec => [](TypeOK /\ CallsOK)` |
| `StoreInvariant` | `Spec => []StoreInv` |
| `ChainAlwaysValid` | `Spec => []ChainValid` |
| `LedgerExplainsBalances` | `Spec => []AuditTrail` |
| `CreditIdempotent` | `Spec => []CreditOncePerRef` |
| `CreditNeverNegative` | `Spec => []CreditNonNegative` |
| `PaymentsCovered` | `Spec => SpendCovered` |
| `SessionsAlwaysOK` | `Spec => []SessionsOK` |
| `MovementsBooked` | `Spec => []EveryMovementBooked` |
| `LedgerAlwaysBalanced` | `Spec => []LedgerBalanced` |
| `StoreImplementsAtomic` | `Spec => AtomicSpec` |
| `PaymentOnce` | `SoleServer("Deduct")` implies `Spec => []PaymentOncePerRef` |
| `DepositOnce` | `SoleServer("Deposit")` implies `Spec => []DepositOncePerHash` |
| `HoldsWithinBalance` | `HoldsAlone` implies `Spec => []AvailableNonNegative` |
| `PendingSettlementsKeepHolds` | `Spec /\ [][SettlesPending]_vars => []FrozenIsPending` |
| `TonCoversWithdrawals` | `HoldsAlone` and `NoCreditGiven` imply `Spec /\ [][SettlesPending]_vars => []TonNonNegative` |

`StoreInv` adds what the sessions know:

* `FreshInv`: a row read under its lock is still what the session read (`ReadsFresh`). It rests on
  `WritesOwnRows`: a step changes only rows that it has locked or that nobody has locked. From it
  `balance_after` is true at commit, which is `AuditTrail`.
* `CheckInv`: what was checked under the lock, the balance and the absence of an earlier credit,
  still holds at commit (`ChecksHold`): the first gives `SpendCovered` and, with the way the credit
  is used first, `CreditNonNegative`; the second `CreditOncePerRef`.
* `ChainInv`: blocks are numbered by their place, and a tip that was read is the end of the chain
  or strictly inside it (`TipOK`). A session whose `seq` is free therefore links to the real end
  (`CommitTip`, `ChainExtends`): without a lock, the unique index alone keeps the chain whole.

`EveryMovementBooked` needs that a block names a transaction there is, so that the next id is new to
the ledger (`Books`). `LedgerBalanced` is a sum over the whole ledger; the balance written into the
newest block of a wallet satisfies the equation of that sum, because of `AuditTrail`. The refinement
maps every commit to the step of `AtomicWallet` of its method and everything else to a stutter; the
reads under the lock (`FreshInv`) are what makes a commit the method applied to the present state.

`SoleServer(op)` says that at most one session serves `op`: one botpay process, whose subscription runs
its callbacks one at a time, and one watcher. Without it both properties are false, as section 3 shows.

The last three are about properties that violation runs refute; "What the violations come down to"
below explains their premises. `HoldInv` carries what a withdrawal checked to the step that holds it
(`HoldCovered`). `HeldOK` says that the holds of the pending requests of a wallet have running sums
that end in its `frozen`; a settlement of a pending request takes its own hold out of them
(`SettleStep`), a second one would take what belongs to another request.

### ChainGuard

`GuardTypeCorrect` (`GuardSpec => []GuardTypeOK`) and `NoAlarmWithoutTampering`
(`GuardSpec => []NoFalseAlarm`). `GuardInv`: what a check has read is a prefix of the ledger and it
remembers the last block of it (`ScanFollows`). The store only appends (`LedgerGrows`), so the prefix
is still there at the next batch, and by the theorem on `WalletStore` the rest is linked to it.

### Consensus and DepositFlow

| Theorem | Statement |
|---|---|
| `ConsensusTypeCorrect` | `Spec => []TypeOK` |
| `ApprovedAtMostOnce` | `Spec => []ApprovedOnce` |
| `ApprovalIsRemembered` | `Spec => []ApprovalRemembered` |
| `SerialChainComplete` | `Spec /\ []SerialMerkle => []MerkleChainComplete` |
| `FlowTypeCorrect` | `FlowSpec => []FlowTypeOK` |
| `FlowImplementsConsensus` | `FlowSpec => Spec` of `Consensus` |
| `InvoicesAreBacked` | `FlowSpec => []InvoiceBacked` |
| `AnnouncedAreFunded` | `FlowSpec => []AnnouncedIsFunded` |
| `BookedReceiptsAnnouncePaid` | `FlowSpec /\ [][ReceiptTold]_vars => []AnnouncedIsPaid` |
| `BookedReceiptsAnnounceOnce` | `FlowSpec /\ [][ReceiptTold]_vars => []AnnouncedOnce` |

`ConsensusAssumption` says how many workers may be unreliable: twice the threshold exceeds the number
of workers plus that of the unreliable ones. With 3 of 4, one worker may lose its file. After a
restart nothing in memory says that an id was approved, so `ConsensusInv` counts the reliable workers
that hold it and have no yes for it under way (`Barred`); a second quorum would have to meet them
(`QuorumsMeet`).

The deposit path is `Consensus` with a client. `FlowInv` ties the two together: a booked hash was
approved (`BookingOK`), so a handler that has just got an approval, the only one there ever is, finds
its hash not booked; its receipt comes with a deposit of its own (`ReceiptOK`), and that deposit
counts for the invoice because the comment of a transaction on the chain no longer changes
(`ChainOK`, `ChainMoves`). `ToldOK` adds that an invoice about to be announced is paid and has not
been announced, since only the receipt that completes an invoice leads to the announcement.

### ServicePayment

| Theorem | Statement |
|---|---|
| `PurchaseTypeCorrect` | `Spec => []TypeOK` |
| `ChargesAreSingle` | `Spec => []ChargedOnce` |
| `ToldOncePerPayment` | `Spec => []ToldPerPayment` |
| `RefundsAreBacked` | `OwnKeys` implies `Spec => []RefundBacked` |
| `SuccessIsBacked` | `OwnKeys` implies `Spec => []SuccessIsPaid` |
| `PriceIsPaid` | `OwnKeys` and `Lossy = {}` imply `Spec => []PaidInFull` |
| `FirstRefusalSettles` | `OwnKeys` implies `Spec => []FirstRefusalIsFinal` |
| `OneProcessChargesOnce` | `OneProcess` implies `Spec => []NeverChargedTwice` |

The invariant says what requests under way already know: a callback that will answer "success" has
its row, a refund is asked for only by an order that was paid, and of an order that was tried once the
only request is in one place. Every row of a key carries the nano of its order (`PricesOK`), so a refund
is the charge it gives back. `OwnKeys` says that an order with a ref or an idempotency key shares it
with no other order, which is what the caller of `DeductForService` has to see to: with a shared key
the second order is answered with the first one's payment.

### Revenue

| Theorem | Statement |
|---|---|
| `RevenueTypeCorrect` | `Spec => []TypeOK` |
| `PayoutIsExclusive` | `Spec => []OnePayer` |
| `OnlyFaultsStrand` | `Spec => []StrandedByFault` |
| `DoneHasPaid` | `Spec => []DoneIsPaid` |
| `SplitExplainsPayout` | `Spec => []PaidBySplit` |
| `PayoutWithinTotal` | `PartsArePercentages` implies `Spec => []PaidWithinTotal` |
| `EarningOnce` | `OneListener` implies `Spec => []EarningOncePerRef` |
| `RecordFollowsPayment` | `Spec => []PaidAsRecorded` |
| `RecordIsPayment` | `Lossy = {}` implies `Spec => []RecordedIsPaid` |

`PayoutInv` says what the holder of an earning has asked botpay for so far, and that all messages
about an earning, under way or booked, stem from one split of its total by a rule of its type
(`SplitsOK`); botpay books a reference once, so there is one credit for the owner and one for the rest.
With percentages between 0 and 100 (`PartsArePercentages`) both parts lie within the total and their sum
is at most the total. `OneListener`: one
goroutine creates earnings. That is the case of the NATS subscription alone; REST requests run in
goroutines of their own, and then the property is false (section 3). `PaidAsRecorded` allows for the
nano that `TONToNano` may cut off, and for nothing else: `RecordOK` says that every message to an
owner, under way or booked, asks for the share its payer will record.

### Conversation

| Theorem | Statement |
|---|---|
| `TalkTypeCorrect` | `Spec => []TypeOK` |
| `CallsCarryOneConversation` | `Spec => []CallsAsEntered` |
| `SettlementsAreTheOwners` | `Spec => []OwnerOnly` |
| `ConversationsExecuteOnce` | `Spec => []ExecutedOnce` |
| `NewestIsExecuted` | `Spec => NewestExecuted` |
| `SerialConversationsExecuteOnce` | `Spec /\ []OneHandler => []NeverExecutedTwice` |
| `SerialConversationsAreNewest` | `Spec /\ []OneHandler => AlwaysNewest` |

The invariant says of every conversation that is stored, that a handler is about to store, and that a
call is about to be made from, that its user entered it (`StoredOK`, `PlannedOK`), and of one that no
second handler crossed, that one handler has it in hand.

### What the violations come down to

Section 3 lists properties that a comment or a text promises and the code does not keep. A
counterexample shows one way to fail; the theorems below show that there is no other: under the
premise named here, which the code does not establish in general, the property holds in every
behaviour, with all the other faults, restarts and races of the model.

| Property | Premise | What the code lacks |
|---|---|---|
| `AvailableNonNegative` | `HoldsAlone`: a session that serves withdrawals is the only one that takes money | `CreateWithdraw` checks the balance without a lock |
| `FrozenIsPending` | `SettlesPending`: a settlement commits only for a request that is pending | `CompleteWithdraw` and `RejectWithdraw` do not look at the status |
| `TonNonNegative` | both, and `NoCreditGiven`: there is no internal credit | a hold is admitted against TON plus credit and paid from TON |
| `AnnouncedIsPaid` | `ReceiptTold`: a receipt that goes on to the announcement was booked | the result is set before the transaction commits |
| `PaymentOncePerRef`, `DepositOncePerHash` | `SoleServer`: one session serves the method | the look-up precedes the lock and no unique index backs it |
| `NeverChargedTwice` | `OneProcess`: one process serves the queue group | the same, seen from the buyer |
| `EarningOncePerRef` | `OneListener`: one goroutine creates earnings | look-up and creation are two steps |
| `PaidWithinTotal` | `PartsArePercentages`: percentages lie between 0 and 100 | `updateRule` checks only their sum |
| `RecordedIsPaid`, `PaidInFull` | `Lossy = {}`: no amount loses a nano as a float of TON | `TONToNano` truncates |
| `MerkleChainComplete` | `SerialMerkle`: the worker handles one transaction at a time | the end of the chain is read and written in two steps |
| `NeverExecutedTwice`, `AlwaysNewest` | `OneHandler`: handlers of one user do not overlap | every update gets a goroutine of its own |

The premises on constants (`HoldsAlone`, `NoCreditGiven`, `SoleServer`, `OneProcess`, `OneListener`,
`PartsArePercentages`, `Lossy = {}`) restrict how the service is deployed and used. The others select behaviours of the unchanged specification,
as a check in the code would. Each has behaviours that use the feature it is about: withdrawals that
are requested and settled, invoices that are paid and announced, approvals that are chained,
conversations that are confirmed.

### What is only model-checked

* Liveness: `CallsEnd`, `TamperNoticed`, `VerifyEnds`, `DepositsArrive`, `PendingIsProcessed`,
  `PurchaseEnds` and, with it all of `BalanceCache`, `CacheHeals`. TLAPS does not reason about fairness
  and `ENABLED` here.
* That the operators compute what the code does, which is what the map and the mutants are for.

Two techniques stand in for induction, which the installed provers cannot instantiate. A fact about all
places of a sequence is proved at the least place where it would fail (`LeastNat`, from the
well-foundedness of the natural numbers); `DepositFlowProofs` shows in this way that a recursive sum
has a value, that it depends only on its terms, and what one more term does. A sum over a set of
credits is taken apart by showing that the set has at most two members (`SumOfTwo`). And where a sum
is part of an invariant, the invariant says that some function satisfies the equations of the running
sum (`HeldOK`): each step gives the next function from the last one, and nothing is summed anew.

## 5. Not modelled

* Texts, keyboards, translations, pages that only show something; logging and metrics.
* The tokens and the encryption of `shared/pkg/auth`, and `Authorize` and the invoice queries of
  `natspayclient`: they keep no state or have no caller here.
* Notifications about anything but a payment.
* `ConfirmInvoice`, `ExpireOldInvoices`, `CheckWithdraw`, `ProcessGroupRevenue`,
  `SubscribeWithRetry` and the dead letter queue: nothing in the two services calls them.
* Message structs of `shared/protocol` for services outside the repository.

## 6. Plan

Done: `Money`, `WalletStore`, `AtomicWallet`, `ChainGuard`, `Consensus`, `DepositFlow`, `Revenue`,
`ServicePayment`, `BalanceCache`, `Conversation`, and proofs of their safety properties. Next:

1. A safety property of `BalanceCache` that can be proved: how far behind a cached balance can be.
2. A composition of `Conversation` with the store's withdrawals, so that a second tap or a second
   settlement is followed to the balance.
3. `WalletStore` as the client of `Consensus` for payments, as `DepositFlow` is for deposits.
