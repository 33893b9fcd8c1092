---------------------------- MODULE BalanceCache ----------------------------
(***************************************************************************)
(* The balance of one wallet as other services see it: the row in botpay's *)
(* database, the Redis key wallet:<telegram id> that botpay's responders   *)
(* and natspayclient both write, and the wallet.updated events that delete *)
(* it.  The handlers of pay.deduct, pay.credit, pay.transfer and           *)
(* pay.balance are NATS subscriptions of their own and run side by side.   *)
(*                                                                         *)
(* A balance is a version: the number of changes made to the row.          *)
(***************************************************************************)
EXTENDS Integers

CONSTANTS
    Responders,    \* goroutines of botpay that serve a payment
    Clients,       \* services that call natspayclient.Balance
    MaxPayments,   \* bound: payments served
    MaxSilent,     \* bound: changes that are not announced
    Faulty,        \* whether Redis calls fail and messages get lost
    None

ASSUME CacheAssumption ==
    /\ MaxPayments \in Nat /\ MaxSilent \in Nat
    /\ None \notin Nat /\ Faulty \in BOOLEAN
    /\ Responders \cap Clients = {}

VARIABLES
    balance,   \* the row
    cache,     \* the Redis key, or None
    pc, got,   \* per goroutine: where it is, the balance it read
    deletes,   \* deletions of the key under way: wallet.updated deliveries
               \* and the paying client's own
    payments, silent

vars == <<balance, cache, pc, got, deletes, payments, silent>>

Processes == Responders \cup Clients

Init ==
    /\ balance = 0 /\ cache = None
    /\ pc = [p \in Processes |-> "idle"] /\ got = [p \in Processes |-> 0]
    /\ deletes = 0 /\ payments = 0 /\ silent = 0

Goto(p, label) == pc' = [pc EXCEPT ![p] = label]

-----------------------------------------------------------------------------
(* handleDeduct and handleCredit: the store books the payment, or finds it *)
(* booked already; a refused payment changes nothing and ends there.       *)
Pay(r) ==
    /\ pc[r] = "idle" /\ payments < MaxPayments
    /\ payments' = payments + 1
    /\ balance' \in {balance, balance + 1}
    /\ Goto(r, "reread")
    /\ UNCHANGED <<cache, got, deletes, silent>>

(* handleTransfer writes no cache.                                         *)
Transfer(r) ==
    /\ pc[r] = "idle" /\ payments < MaxPayments
    /\ payments' = payments + 1
    /\ balance' = balance + 1
    /\ Goto(r, "publish")
    /\ UNCHANGED <<cache, got, deletes, silent>>

(* The row is read again for the answer, outside any transaction.          *)
Reread(r) ==
    /\ pc[r] = "reread"
    /\ got' = [got EXCEPT ![r] = balance]
    /\ Goto(r, "write")
    /\ UNCHANGED <<balance, cache, deletes, payments, silent>>

(* writeBalanceCache; an error of Redis is ignored.                        *)
WriteCache(r) ==
    /\ pc[r] = "write"
    /\ \/ cache' = got[r]
       \/ Faulty /\ UNCHANGED cache
    /\ Goto(r, "publish")
    /\ UNCHANGED <<balance, got, deletes, payments, silent>>

(* publishWalletUpdated and the reply: the subscriber deletes the key, and *)
(* so does a client of Deduct or Credit that still waits for the answer.   *)
Publish(r) ==
    /\ pc[r] = "publish"
    /\ deletes' \in {deletes + 1, deletes + 2}
    /\ Goto(r, "idle")
    /\ UNCHANGED <<balance, cache, got, payments, silent>>

(* A deletion arrives, or its message is lost on the way.                  *)
Delete ==
    /\ deletes > 0
    /\ deletes' = deletes - 1
    /\ \/ cache' = None
       \/ Faulty /\ UNCHANGED cache
    /\ UNCHANGED <<balance, pc, got, payments, silent>>

(* Deposits, settled and rejected withdrawals, transfers and credits made  *)
(* in the bot change the row and publish no wallet.updated.                *)
ChangeSilently ==
    /\ silent < MaxSilent
    /\ silent' = silent + 1
    /\ balance' = balance + 1
    /\ UNCHANGED <<cache, pc, got, deletes, payments>>

-----------------------------------------------------------------------------
(* natspayclient.Balance: the cached balance if there is one that can be   *)
(* read, else botpay is asked and the answer cached.                       *)
Miss(c) ==
    /\ pc[c] = "idle" /\ (cache = None \/ Faulty)
    /\ Goto(c, "ask")
    /\ UNCHANGED <<balance, cache, got, deletes, payments, silent>>

(* handleBalance answers, or the request times out.                        *)
Ask(c) ==
    /\ pc[c] = "ask"
    /\ \/ got' = [got EXCEPT ![c] = balance] /\ Goto(c, "put")
       \/ Goto(c, "idle") /\ UNCHANGED got
    /\ UNCHANGED <<balance, cache, deletes, payments, silent>>

(* Again an error of Redis is ignored.                                     *)
Put(c) ==
    /\ pc[c] = "put"
    /\ \/ cache' = got[c]
       \/ Faulty /\ UNCHANGED cache
    /\ Goto(c, "idle")
    /\ UNCHANGED <<balance, got, deletes, payments, silent>>

\* Mutant: the key is set without a time to live.
ExpireNever == FALSE /\ UNCHANGED vars

(* Both writers set the key with a time to live.                           *)
Expire ==
    /\ cache # None
    /\ cache' = None
    /\ UNCHANGED <<balance, pc, got, deletes, payments, silent>>

Step(p) ==
    \/ p \in Responders /\ (Reread(p) \/ WriteCache(p) \/ Publish(p))
    \/ p \in Clients /\ (Ask(p) \/ Put(p))

Next ==
    \/ \E r \in Responders : Pay(r) \/ Transfer(r)
    \/ \E p \in Processes : Step(p)
    \/ \E c \in Clients : Miss(c)
    \/ Delete \/ ChangeSilently \/ Expire

Spec == Init /\ [][Next]_vars

(* Handlers end and keys expire.  Deletions are not owed.                  *)
FairSpec == Spec /\ WF_vars(Expire) /\ \A p \in Processes : WF_vars(Step(p))

-----------------------------------------------------------------------------
(* Every variable has its type, and no value is ahead of the balance.      *)
TypeOK ==
    /\ balance \in 0..(MaxPayments + MaxSilent)
    /\ cache \in {None} \cup 0..balance
    /\ pc \in [Processes -> {"idle", "reread", "write", "publish", "ask", "put"}]
    /\ got \in [Processes -> 0..balance]
    /\ deletes \in Nat /\ payments \in 0..MaxPayments /\ silent \in 0..MaxSilent

(* When the balance stops changing, the cache ends up right and stays so,  *)
(* whichever writes came out of order and whichever deletions were lost:   *)
(* every stale value expires and no goroutine can bring one back.          *)
CacheHeals == <>[](cache \in {None, balance})

Quiet == deletes = 0 /\ \A p \in Processes : pc[p] = "idle"

(* SubscribeWalletUpdates' comment: with the subscription the balance that *)
(* is shown is always fresh.  Said of the moments when no handler runs and *)
(* every event has been handled.                                           *)
FreshWhenQuiet == Quiet => cache \in {None, balance}
=============================================================================
