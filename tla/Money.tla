------------------------------- MODULE Money -------------------------------
(***************************************************************************)
(* The value-level part of botpay/internal/store: what a wallet row can    *)
(* pay, how a payment is split between its two balances, and what a ledger *)
(* block contains.  No state: the modules that move money extend it.       *)
(* Amounts are nano-TON; the types are Int because the code subtracts      *)
(* without a floor and a balance below zero is a reachable value.          *)
(***************************************************************************)
EXTENDS Integers, Sequences

CONSTANTS
    Wallets,  \* ids of the wallet rows
    Keys,     \* idempotency keys: on-chain hashes, and (service, ref) pairs
    NoKey     \* an empty ref, or a hash generated per call and never repeated

\* The sentinel of an absent key is not a key, and wallets exist.
ASSUME MoneyAssumption == NoKey \notin Keys /\ Wallets # {}

\* store.Wallet: the withdrawable TON, the internal credit, the held part.
Row == [ton : Int, credit : Int, frozen : Int]

EmptyRow == [ton |-> 0, credit |-> 0, frozen |-> 0]

\* The balance the ledger tracks: ton_balance + credit, "realized".
Realized(row) == row.ton + row.credit

\* Mutant: the held part counts as available.
HasEnoughHeld(row, amount) == Realized(row) >= amount

HasEnough(row, amount) == Realized(row) - row.frozen >= amount

\* Mutant: the whole amount is taken from the credit.
CreditUsedAll(row, amount) == amount

(* A payment takes credit first and TON for the rest.                      *)
CreditUsed(row, amount) == IF row.credit >= amount THEN amount ELSE row.credit

TonUsed(row, amount) == amount - CreditUsed(row, amount)

(* The updates of the code are relative ("credit - ?"): current is the row *)
(* they are applied to, read the row the split was computed from.          *)
Charge(current, read, amount) ==
    [ton |-> current.ton - TonUsed(read, amount),
     credit |-> current.credit - CreditUsed(read, amount), frozen |-> current.frozen]

\* Mutant: the receiver gets the TON part only.
ReceiveTonOnly(current, read, amount) == [current EXCEPT !.ton = @ + TonUsed(read, amount)]

(* Transfer gives the receiver the same mix the sender paid with.          *)
Receive(current, read, amount) ==
    [ton |-> current.ton + TonUsed(read, amount),
     credit |-> current.credit + CreditUsed(read, amount), frozen |-> current.frozen]

(* The other updates of a row, each relative to it.                        *)
AddTon(row, n) == [row EXCEPT !.ton = @ + n]

GiveCredit(row, n) == [row EXCEPT !.credit = @ + n]

Hold(row, n) == [row EXCEPT !.frozen = @ + n]

(* CompleteWithdraw: the money leaves and so does the hold on it.          *)
PayOut(row, n) ==
    [ton |-> row.ton - n, credit |-> row.credit, frozen |-> row.frozen - n]

-----------------------------------------------------------------------------
(* store.Transaction, reduced to what the code looks rows up by.           *)
TxType == {"deposit", "payment", "credit_add", "withdraw", "refund"}

Tx == [type : TxType, wallet : Wallets, key : Keys \cup {NoKey}, amount : Int]

\* Mutant: key and wallet swapped.
NewTxSwapped(type, wallet, key, amount) ==
    [type |-> type, wallet |-> key, key |-> wallet, amount |-> amount]

NewTx(type, wallet, key, amount) ==
    [type |-> type, wallet |-> wallet, key |-> key, amount |-> amount]

(* Deposit looks for the tx_hash among all rows: deposits and completed    *)
(* withdrawals carry an on-chain hash, every other row a fresh "int-" one. *)
SameHash(tx, key) == tx.type \in {"deposit", "withdraw"} /\ tx.key = key

(* Deduct and AddCredit look for (wallet, service, ref, type).             *)
SameRef(tx, type, wallet, key) ==
    tx.type = type /\ tx.wallet = wallet /\ tx.key = key

(* store.WithdrawRequest.                                                  *)
WithdrawStatus == {"pending", "done", "rejected"}

Request == [wallet : Wallets, amount : Int, fee : Int, status : WithdrawStatus]

Total(req) == req.amount + req.fee

-----------------------------------------------------------------------------
(* store.LedgerEntry.  SHA-256 is modelled by an injective function: the   *)
(* hash of a block is the sequence of the contents of the chain up to it,  *)
(* so two blocks have one hash only if they agree on every hashed field    *)
(* and on the whole history before them.                                   *)
EntryType == {"debit", "credit"}

Content == [seq : Int, tx : Int, wallet : Wallets, type : EntryType,
            amount : Int, balanceAfter : Int]

Hash == Seq(Content)

GenesisHash == << >>

Entry == [content : Content, prevHash : Hash, hash : Hash]

ComputeHash(content, prevHash) == Append(prevHash, content)

(* The tip of the chain as lastChainEntryTx returns it.                    *)
Tip == [seq : Int, hash : Hash]

GenesisTip == [seq |-> 0, hash |-> GenesisHash]

TipOf(chain) ==
    IF chain = << >> THEN GenesisTip
    ELSE [seq |-> chain[Len(chain)].content.seq, hash |-> chain[Len(chain)].hash]

(* linkEntry: the block after a tip.                                       *)
LinkEntry(tip, tx, wallet, type, amount, balanceAfter) ==
    LET content == [seq |-> tip.seq + 1, tx |-> tx, wallet |-> wallet, type |-> type,
                    amount |-> amount, balanceAfter |-> balanceAfter]
    IN  [content |-> content, prevHash |-> tip.hash,
         hash |-> ComputeHash(content, tip.hash)]

(* Store.VerifyChain: contiguous seq, linked hashes, recomputed hashes.    *)
Before(chain, i) ==
    IF i = 1 THEN GenesisTip
    ELSE [seq |-> chain[i-1].content.seq, hash |-> chain[i-1].hash]

VerifyChain(chain) ==
    \A i \in DOMAIN chain :
        /\ chain[i].content.seq = Before(chain, i).seq + 1
        /\ chain[i].prevHash = Before(chain, i).hash
        /\ chain[i].hash = ComputeHash(chain[i].content, chain[i].prevHash)

(* What a block adds to the realized balance of its wallet.                *)
Delta(entry) ==
    IF entry.content.type = "credit" THEN entry.content.amount
    ELSE -entry.content.amount

=============================================================================
