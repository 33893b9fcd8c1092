---------------------------- MODULE AtomicWallet ----------------------------
(***************************************************************************)
(* What botpay/internal/store promises its callers: every method is one    *)
(* indivisible step on the tables, with the checks made on the very row it *)
(* changes and the balance written into the book true at that moment.      *)
(* WalletStore, with its locks and stale reads, implements it.  It states  *)
(* what the code guarantees and no more: the key of a Deposit or Deduct    *)
(* may repeat, a hold is not limited by the balance, and a request may be  *)
(* settled again.                                                          *)
(***************************************************************************)
EXTENDS Money

CONSTANTS
    Amounts,      \* what callers ask for
    NetworkFee,
    MinWithdraw

VARIABLES
    wallet,  \* wallet[w]: the row of w
    txs,     \* the transactions so far
    book,    \* the movements so far: wallet, change and balance after it
    reqs     \* the withdrawal requests

vars == <<wallet, txs, book, reqs>>

Init ==
    /\ wallet = [w \in Wallets |-> EmptyRow]
    /\ txs = << >> /\ book = << >> /\ reqs = << >>

Line(w, delta, balance) == [wallet |-> w, delta |-> delta, balance |-> balance]

(* One wallet's row changes by delta and the book says so.                 *)
Move(w, row, type, key, delta) ==
    /\ wallet' = [wallet EXCEPT ![w] = row]
    /\ txs' = Append(txs, NewTx(type, w, key, delta))
    /\ book' = Append(book, Line(w, delta, Realized(row)))

Deposit(w, n, k) ==
    /\ n > 0
    /\ Move(w, AddTon(wallet[w], n), "deposit", k, n)
    /\ UNCHANGED reqs

Deduct(w, n, k) ==
    /\ n > 0
    /\ HasEnough(wallet[w], n)
    /\ Move(w, Charge(wallet[w], wallet[w], n), "payment", k, -n)
    /\ UNCHANGED reqs

AddCredit(w, n, k) ==
    /\ n > 0
    /\ \A i \in DOMAIN txs : ~SameRef(txs[i], "credit_add", w, k)
    /\ Move(w, GiveCredit(wallet[w], n), "credit_add", k, n)
    /\ UNCHANGED reqs

Transfer(v, w, n) ==
    /\ v # w /\ n > 0
    /\ HasEnough(wallet[v], n)
    /\ wallet' = [wallet EXCEPT ![v] = Charge(wallet[v], wallet[v], n),
                                ![w] = Receive(wallet[w], wallet[v], n)]
    /\ txs' = Append(Append(txs, NewTx("payment", v, NoKey, -n)),
                     NewTx("deposit", w, NoKey, n))
    /\ book' = Append(Append(book, Line(v, -n, Realized(wallet[v]) - n)),
                      Line(w, n, Realized(wallet[w]) + n))
    /\ UNCHANGED reqs

CreateWithdraw(w, n) ==
    /\ n >= MinWithdraw
    /\ wallet' = [wallet EXCEPT ![w] = Hold(@, n + NetworkFee)]
    /\ reqs' = Append(reqs, [wallet |-> w, amount |-> n, fee |-> NetworkFee,
                             status |-> "pending"])
    /\ UNCHANGED <<txs, book>>

CompleteWithdraw(i, k) ==
    LET w == reqs[i].wallet
        n == Total(reqs[i])
    IN  /\ Move(w, PayOut(wallet[w], n), "withdraw", k, -n)
        /\ reqs' = [reqs EXCEPT ![i].status = "done"]

RejectWithdraw(i) ==
    LET w == reqs[i].wallet IN
    /\ wallet' = [wallet EXCEPT ![w] = Hold(@, -Total(reqs[i]))]
    /\ txs' = Append(txs, NewTx("refund", w, NoKey, 0))
    /\ reqs' = [reqs EXCEPT ![i].status = "rejected"]
    /\ UNCHANGED book

Next ==
    \/ \E w \in Wallets, n \in Amounts, k \in Keys :
          Deposit(w, n, k) \/ AddCredit(w, n, k)
    \/ \E w \in Wallets, n \in Amounts, k \in Keys \cup {NoKey} : Deduct(w, n, k)
    \/ \E v, w \in Wallets, n \in Amounts : Transfer(v, w, n)
    \/ \E w \in Wallets, n \in Amounts : CreateWithdraw(w, n)
    \/ \E i \in DOMAIN reqs, k \in Keys : CompleteWithdraw(i, k)
    \/ \E i \in DOMAIN reqs : RejectWithdraw(i)

Spec == Init /\ [][Next]_vars
=============================================================================
