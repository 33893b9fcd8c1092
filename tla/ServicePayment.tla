--------------------------- MODULE ServicePayment ---------------------------
(***************************************************************************)
(* A purchase from end to end.  A service (a shop bot of a customer, or a  *)
(* central service) asks botpay over NATS to deduct the price, provisions  *)
(* what was bought and asks for a refund when that fails: natspayclient,   *)
(* the request/reply of the NATS adapter, payresponder, Service.Pay and    *)
(* Service.Credit.                                                         *)
(*                                                                         *)
(* The client waits 3 seconds and the handler works for up to 5: a request *)
(* may be served after its sender stopped waiting, and a retry may reach   *)
(* another process of the queue group while the first one still works on   *)
(* it.  A process runs the callbacks of one subject one at a time.         *)
(*                                                                         *)
(* A store method is one step from its first row lock on, as AtomicWallet  *)
(* states; what Pay and Deduct read before that lock are steps of their    *)
(* own.  How a payment is split between credit and TON is WalletStore's.   *)
(***************************************************************************)
EXTENDS Integers, Sequences, FiniteSets

CONSTANTS
    Orders,      \* purchases
    Users,
    Services,
    Processes,   \* botpay processes in the queue group
    User, Service, Ref, IdempotencyKey, Reason,  \* the fields of an order's request
    Price,       \* Price[o]: its amount of TON in nano, rounded up to whole ones
    Lossy,       \* prices of which TONToNano leaves one nano less: 1.001 TON are 1000999999
    NoText,      \* an empty ref or idempotency key
    Keyed,       \* services that present the HMAC of their own id
    Bots,        \* services whose id starts with "bot_"
    MaxAmount,   \* validAmount's maxTON
    Funds,       \* Funds[u]: the available balance at the start
    MaxTimeOuts, \* bound: timeouts of a request still under way
    MaxFaults    \* bound: losses, failed calls, rejections, crashes and deleted bots

(* A reason is never empty, and a purchase made with DeductForService has  *)
(* an attempt id in its ref, so that no other purchase has the same.       *)
ASSUME PaymentAssumption ==
    /\ User \in [Orders -> Users] /\ Service \in [Orders -> Services]
    /\ Price \in [Orders -> Int] /\ Lossy \subseteq Nat \ {0}
    /\ DOMAIN Ref = Orders /\ DOMAIN IdempotencyKey = Orders /\ DOMAIN Reason = Orders
    /\ \A o \in Orders : Reason[o] # NoText
    /\ Keyed \subseteq Services /\ Bots \subseteq Services
    /\ Funds \in [Users -> Nat]
    /\ MaxAmount \in Nat /\ MaxTimeOuts \in Nat /\ MaxFaults \in Nat

VARIABLES
    order,       \* order[o]: how far the service is with o
    tries,       \* tries[o]: requests sent for o
    reply,       \* reply[o]: the answer in the inbox of the waiting request
    event,       \* orders with a pay.completed event under way
    queue,       \* queue[p][j]: requests delivered to p and not started
    work,        \* work[p][j]: the request p's callback of subject j is in
    live,        \* the bots whose row in bot_instances is not deleted
    balance,     \* balance[u]: what u can spend
    payments,    \* rows of type payment with a ref: <<user, service, ref, amount>>
    refunds,     \* rows of type credit_add
    notified,    \* notified[k]: messages to the user about a payment with key k
    overlapped,  \* history: keys that two callbacks worked on at a time
    timeouts, faults

clientVars == <<order, tries, reply, event>>
storeVars == <<balance, payments, refunds>>
vars == <<order, tries, reply, event, queue, work, live, balance, payments, refunds,
          notified, overlapped, timeouts, faults>>

Jobs == {"deduct", "credit"}

(* paying, refunding: Request has not returned; unsure: it timed out;      *)
(* owed: the provisioning failed and the refund is not confirmed; refused: *)
(* told that the balance does not suffice; failed, stranded: told of an    *)
(* error the caller does not try again after.                              *)
Phases == {"new", "paying", "unsure", "paid", "served", "owed", "refunding",
           "refunded", "refused", "failed", "stranded"}

Codes == {"success", "unauthorized", "insufficient", "internal"}

Idle == [step |-> "idle"]

\* Mutant: the reason comes first.
KeyByReason(o) == <<User[o], Service[o], Reason[o]>>

(* The key of handleDeduct: the ref, else the idempotency key, else the    *)
(* reason; Deduct looks it up per wallet and service.                      *)
Key(o) ==
    <<User[o], Service[o],
      IF Ref[o] # NoText THEN Ref[o]
      ELSE IF IdempotencyKey[o] # NoText THEN IdempotencyKey[o] ELSE Reason[o]>>

KeySet == {Key(o) : o \in Orders}

Identified(o) == Ref[o] # NoText \/ IdempotencyKey[o] # NoText

(* A refund's ref is "refund:" followed by the ref of the payment.         *)
Charges(o) == {i \in DOMAIN payments : payments[i].key = Key(o)}

Credits(o) == {i \in DOMAIN refunds : refunds[i].key = Key(o)}

(* The service's key is the HMAC of its id.  HMAC-SHA256 is taken to be    *)
(* unforgeable.                                                            *)
ValidateServiceKey(s) == s \in Keyed

(* A customer's bot is in bot_instances and not deleted.                   *)
ValidateBotInstance(s) == s \in live

Authorized(o) ==
    /\ ValidateServiceKey(Service[o])
    /\ Service[o] \in Bots => ValidateBotInstance(Service[o])

ValidAmount(n) == 0 < n /\ n <= MaxAmount

(* A float of TON becomes nano by cutting off what is left of the product. *)
TONToNano(n) == IF n \in Lossy THEN n - 1 ELSE n

Nano(o) == TONToNano(Price[o])

(* What the handlers accept.  Less than a nano passes validAmount and is   *)
(* refused further in, with the same answer and before the wallet is       *)
(* written: by the workers of the guard, store.Deduct and store.AddCredit. *)
Payable(o) == ValidAmount(Price[o]) /\ Nano(o) > 0

Init ==
    /\ order = [o \in Orders |-> "new"]
    /\ tries = [o \in Orders |-> 0]
    /\ reply = [o \in Orders |-> "none"]
    /\ event = {}
    /\ queue = [p \in Processes |-> [j \in Jobs |-> << >>]]
    /\ work = [p \in Processes |-> [j \in Jobs |-> Idle]]
    /\ live = Bots
    /\ balance = Funds
    /\ payments = << >> /\ refunds = << >>
    /\ notified = [k \in KeySet |-> 0] /\ overlapped = {}
    /\ timeouts = 0 /\ faults = 0

Fault == faults < MaxFaults /\ faults' = faults + 1

-----------------------------------------------------------------------------
(* The service and natspayclient.                                          *)

(* Request: the message goes to one process of the queue group, and the    *)
(* client waits for the answer to this message only.                       *)
Send(o, j, phase) ==
    /\ \E p \in Processes :
          queue' = [queue EXCEPT ![p][j] = Append(@, [order |-> o, try |-> tries[o] + 1])]
    /\ tries' = [tries EXCEPT ![o] = @ + 1]
    /\ order' = [order EXCEPT ![o] = phase]

(* DeductWithMeta, and the same call again after a timeout.                *)
Deduct(o) ==
    /\ order[o] \in {"new", "unsure"}
    /\ Send(o, "deduct", "paying")
    /\ UNCHANGED <<reply, event, work, live, storeVars, notified, overlapped, timeouts, faults>>

(* RefundService, and the same call again after an error or a timeout.     *)
RefundService(o) ==
    /\ order[o] = "owed"
    /\ Send(o, "credit", "refunding")
    /\ UNCHANGED <<reply, event, work, live, storeVars, notified, overlapped, timeouts, faults>>

(* What the answer means to the caller.                                    *)
Outcome(o) ==
    IF order[o] = "paying"
    THEN CASE reply[o] = "success" -> "paid"
           [] reply[o] = "insufficient" -> "refused"
           [] OTHER -> "failed"
    ELSE CASE reply[o] = "success" -> "refunded"
           [] reply[o] = "unauthorized" -> "stranded"
           [] OTHER -> "owed"

Waiting(o) == order[o] \in {"paying", "refunding"}

Receive(o) ==
    /\ Waiting(o) /\ reply[o] # "none"
    /\ order' = [order EXCEPT ![o] = Outcome(o)]
    /\ reply' = [reply EXCEPT ![o] = "none"]
    /\ UNCHANGED <<tries, event, queue, work, live, storeVars, notified, overlapped, timeouts, faults>>

(* The request the client waits for is queued, being served or answered.   *)
UnderWay(o) ==
    \/ reply[o] # "none"
    \/ \E p \in Processes, j \in Jobs :
          \/ work[p][j] # Idle /\ work[p][j].order = o /\ work[p][j].try = tries[o]
          \/ \E i \in DOMAIN queue[p][j] : queue[p][j][i] = [order |-> o, try |-> tries[o]]

(* The client stops waiting; its inbox is gone, with an answer that came   *)
(* too late.                                                               *)
TimeOut(o) ==
    /\ Waiting(o)
    /\ \/ UnderWay(o) /\ timeouts < MaxTimeOuts /\ timeouts' = timeouts + 1
       \/ ~UnderWay(o) /\ UNCHANGED timeouts
    /\ order' = [order EXCEPT ![o] = IF @ = "paying" THEN "unsure" ELSE "owed"]
    /\ reply' = [reply EXCEPT ![o] = "none"]
    /\ UNCHANGED <<tries, event, queue, work, live, storeVars, notified, overlapped, faults>>

(* SubscribePayCompleted: the service learns that a payment it does not    *)
(* know of, or was refused, has been made.                                 *)
PayCompleted(o) ==
    /\ o \in event
    /\ order[o] \in {"unsure", "refused", "failed"}
    /\ order' = [order EXCEPT ![o] = "paid"]
    /\ event' = event \ {o}
    /\ UNCHANGED <<tries, reply, queue, work, live, storeVars, notified, overlapped, timeouts, faults>>

Provision(o) ==
    /\ order[o] = "paid"
    /\ \E phase \in {"served", "owed"} : order' = [order EXCEPT ![o] = phase]
    /\ UNCHANGED <<tries, reply, event, queue, work, live, storeVars, notified, overlapped,
                   timeouts, faults>>

-----------------------------------------------------------------------------
(* payresponder: the callback of one subject in one process.               *)

At(p, j, step) == work[p][j].step = step

Goto(p, j, step) == work' = [work EXCEPT ![p][j].step = step]

\* Mutant: every error is taken for an insufficient balance.
AnswerInsufficient(p, j, code) ==
    work' = [work EXCEPT ![p][j].step = "answer",
                         ![p][j].code = IF code = "internal" THEN "insufficient" ELSE code]

(* The handler returns: what is left is the answer.                        *)
Answer(p, j, code) == work' = [work EXCEPT ![p][j].code = code, ![p][j].step = "answer"]

(* The callback takes its next message: Unmarshal, and the checks before   *)
(* the wallet service is called.                                           *)
Begin(p, j, authorized) ==
    LET r == Head(queue[p][j])
        o == r.order
        start == [order |-> o, try |-> r.try, created |-> FALSE, code |-> "none", step |->
                    IF j = "deduct" THEN "check" ELSE "commit"]
    IN
    /\ queue' = [queue EXCEPT ![p][j] = Tail(@)]
    /\ work' = [work EXCEPT ![p][j] =
          CASE ~authorized -> [start EXCEPT !.step = "answer", !.code = "unauthorized"]
            [] authorized /\ ~Payable(o) ->
                  [start EXCEPT !.step = "answer", !.code = "internal"]
            [] OTHER -> start]
    /\ overlapped' = overlapped \cup
          {Key(o) : q \in {q \in Processes : /\ j = "deduct" /\ work[q][j] # Idle
                                            /\ Key(work[q][j].order) = Key(o)}}
    /\ UNCHANGED <<clientVars, live, storeVars, notified, timeouts>>

Free(p, j) == work[p][j] = Idle /\ queue[p][j] # << >>

Take(p, j) ==
    /\ Free(p, j)
    /\ Begin(p, j, Authorized(Head(queue[p][j]).order))
    /\ UNCHANGED faults

(* ValidateBotInstance does not look at the error of its query: a bot that *)
(* cannot be looked up is unauthorized.                                    *)
BotUnread(p, j) ==
    /\ Free(p, j) /\ Service[Head(queue[p][j]).order] \in Bots
    /\ Fault
    /\ Begin(p, j, FALSE)

(* Service.Pay: a first look at the balance, without a lock and before the *)
(* look-up of the key.                                                     *)
CheckBalance(p) ==
    LET o == work[p]["deduct"].order IN
    /\ At(p, "deduct", "check")
    /\ \/ balance[User[o]] < Nano(o) /\ Answer(p, "deduct", "insufficient")
       \/ balance[User[o]] >= Nano(o) /\ Goto(p, "deduct", "find")
    /\ UNCHANGED <<clientVars, queue, live, storeVars, notified, overlapped, timeouts, faults>>

(* Guard.CheckDeduct rejects.                                              *)
Reject(p) ==
    /\ At(p, "deduct", "find")
    /\ Fault
    /\ Answer(p, "deduct", "internal")
    /\ UNCHANGED <<clientVars, queue, live, storeVars, notified, overlapped, timeouts>>

\* Mutant: no look-up.
FindPaymentNever(p) ==
    /\ At(p, "deduct", "find")
    /\ Goto(p, "deduct", "commit")
    /\ UNCHANGED <<clientVars, queue, live, storeVars, notified, overlapped, timeouts, faults>>

(* Guard.CheckDeduct approves, and store.Deduct looks for a payment with   *)
(* this key: if there is one that is the result.                           *)
FindPayment(p) ==
    /\ At(p, "deduct", "find")
    /\ \/ Charges(work[p]["deduct"].order) # {} /\ Answer(p, "deduct", "success")
       \/ Charges(work[p]["deduct"].order) = {} /\ Goto(p, "deduct", "commit")
    /\ UNCHANGED <<clientVars, queue, live, storeVars, notified, overlapped, timeouts, faults>>

\* Mutant: the balance is not checked again under the lock.
CommitDeductUnchecked(p) ==
    LET o == work[p]["deduct"].order IN
    /\ At(p, "deduct", "commit")
    /\ balance' = [balance EXCEPT ![User[o]] = @ - Nano(o)]
    /\ payments' = Append(payments, [key |-> Key(o), amount |-> Nano(o)])
    /\ Answer(p, "deduct", "success")
    /\ UNCHANGED <<refunds, clientVars, queue, live, notified, overlapped, timeouts, faults>>

(* The rest of store.Deduct under the lock of the wallet.  An insufficient *)
(* balance is not ErrInsufficientBalance here: the code is "internal".  A  *)
(* commit whose confirmation is lost is an error to the caller.            *)
CommitDeduct(p) ==
    LET o == work[p]["deduct"].order
        u == User[o]
    IN
    /\ At(p, "deduct", "commit")
    /\ \/ /\ balance[u] < Nano(o)
          /\ Answer(p, "deduct", "internal")
          /\ UNCHANGED <<storeVars, faults>>
       \/ /\ balance[u] >= Nano(o)
          /\ balance' = [balance EXCEPT ![u] = @ - Nano(o)]
          /\ payments' = Append(payments, [key |-> Key(o), amount |-> Nano(o)])
          /\ \/ /\ work' = [work EXCEPT ![p]["deduct"].code = "success",
                                        ![p]["deduct"].created = TRUE,
                                        ![p]["deduct"].step = "answer"]
                /\ UNCHANGED faults
             \/ Fault /\ Answer(p, "deduct", "internal")
          /\ UNCHANGED refunds
    /\ UNCHANGED <<clientVars, queue, live, notified, overlapped, timeouts>>

\* Mutant: a repeated refund is booked again.
CommitCreditAlways(p) ==
    LET o == work[p]["credit"].order IN
    /\ At(p, "credit", "commit")
    /\ balance' = [balance EXCEPT ![User[o]] = @ + Nano(o)]
    /\ refunds' = Append(refunds, [key |-> Key(o), amount |-> Nano(o)])
    /\ Answer(p, "credit", "success")
    /\ UNCHANGED <<payments, clientVars, queue, live, notified, overlapped, timeouts, faults>>

(* Service.Credit and store.AddCredit: the look-up is made under the lock. *)
CommitCredit(p) ==
    LET o == work[p]["credit"].order IN
    /\ At(p, "credit", "commit")
    /\ \/ Credits(o) # {} /\ UNCHANGED <<balance, refunds>>
       \/ /\ Credits(o) = {}
          /\ balance' = [balance EXCEPT ![User[o]] = @ + Nano(o)]
          /\ refunds' = Append(refunds, [key |-> Key(o), amount |-> Nano(o)])
    /\ \/ Answer(p, "credit", "success") /\ UNCHANGED faults
       \/ Fault /\ Answer(p, "credit", "internal")
    /\ UNCHANGED <<payments, clientVars, queue, live, notified, overlapped, timeouts>>

(* A database call fails or the 5 seconds are over before the commit.      *)
CallFails(p, j) ==
    /\ \/ At(p, j, "check") \/ At(p, j, "find") \/ At(p, j, "commit")
    /\ Fault
    /\ Answer(p, j, "internal")
    /\ UNCHANGED <<clientVars, queue, live, storeVars, notified, overlapped, timeouts>>

\* Mutant: a retry is announced to the user like a payment.
NotifiesAlways(p, j) ==
    IF work[p][j].code = "success" /\ j = "deduct"
    THEN [notified EXCEPT ![Key(work[p][j].order)] = @ + 1] ELSE notified

(* Pay tells the user of a new payment and not of a repeated one.          *)
Notifies(p, j) ==
    IF work[p][j].created THEN [notified EXCEPT ![Key(work[p][j].order)] = @ + 1] ELSE notified

(* pay.completed names the ref of the request, not its key: an order       *)
(* without a ref cannot be recognised in it.                               *)
Announces(w, j) == w.code = "success" /\ j = "deduct" /\ Ref[w.order] # NoText

\* Mutant: the callback does not return.
RespondAndHang(p, j) ==
    LET w == work[p][j] IN
    /\ At(p, j, "answer")
    /\ notified' = Notifies(p, j)
    /\ event' = IF Announces(w, j) THEN event \cup {w.order} ELSE event
    /\ reply' = IF Waiting(w.order) /\ tries[w.order] = w.try
                THEN [reply EXCEPT ![w.order] = w.code] ELSE reply
    /\ Goto(p, j, "hang")
    /\ UNCHANGED <<order, tries, queue, live, storeVars, overlapped, timeouts, faults>>

(* After the call: the notification, the events and the answer, which NATS *)
(* drops when its request is no longer waited for.                         *)
Respond(p, j) ==
    LET w == work[p][j] IN
    /\ At(p, j, "answer")
    /\ notified' = Notifies(p, j)
    /\ event' = IF Announces(w, j) THEN event \cup {w.order} ELSE event
    /\ reply' = IF Waiting(w.order) /\ tries[w.order] = w.try
                THEN [reply EXCEPT ![w.order] = w.code] ELSE reply
    /\ work' = [work EXCEPT ![p][j] = Idle]
    /\ UNCHANGED <<order, tries, queue, live, storeVars, overlapped, timeouts, faults>>

-----------------------------------------------------------------------------
(* The surroundings.                                                       *)

(* Core NATS delivers at most once: a request is lost ...                  *)
LoseRequest(p, j) ==
    /\ queue[p][j] # << >> /\ Fault
    /\ queue' = [queue EXCEPT ![p][j] = Tail(@)]
    /\ UNCHANGED <<clientVars, work, live, storeVars, notified, overlapped, timeouts>>

(* ... or an answer.                                                       *)
LoseReply(o) ==
    /\ reply[o] # "none" /\ Fault
    /\ reply' = [reply EXCEPT ![o] = "none"]
    /\ UNCHANGED <<order, tries, event, queue, work, live, storeVars, notified, overlapped, timeouts>>

(* A process dies with the requests it has; its transaction rolls back.    *)
Crash(p) ==
    /\ Fault
    /\ queue' = [queue EXCEPT ![p] = [j \in Jobs |-> << >>]]
    /\ work' = [work EXCEPT ![p] = [j \in Jobs |-> Idle]]
    /\ UNCHANGED <<clientVars, live, storeVars, notified, overlapped, timeouts>>

(* The row of a bot becomes "deleted", by the service that manages bots.   *)
DeleteBot(s) ==
    /\ s \in live /\ Fault
    /\ live' = live \ {s}
    /\ UNCHANGED <<clientVars, queue, work, storeVars, notified, overlapped, timeouts>>

ClientStep(o) == Deduct(o) \/ RefundService(o) \/ Receive(o) \/ Provision(o)

Serve(p, j) == Take(p, j) \/ Respond(p, j)

ServeDeduct(p) == Serve(p, "deduct") \/ CheckBalance(p) \/ FindPayment(p) \/ CommitDeduct(p)

ServeCredit(p) == Serve(p, "credit") \/ CommitCredit(p)

Next ==
    \/ \E o \in Orders : ClientStep(o) \/ TimeOut(o) \/ PayCompleted(o) \/ LoseReply(o)
    \/ \E p \in Processes :
          \/ ServeDeduct(p) \/ ServeCredit(p) \/ Reject(p) \/ Crash(p)
          \/ \E j \in Jobs : CallFails(p, j) \/ BotUnread(p, j) \/ LoseRequest(p, j)
    \/ \E s \in Services : DeleteBot(s)

Spec == Init /\ [][Next]_vars

(* The service acts on what it is told, a request ends with its answer or  *)
(* its timeout, and callbacks run to their end.                            *)
FairSpec ==
    /\ Spec
    /\ \A o \in Orders : WF_vars(ClientStep(o)) /\ WF_vars(~UnderWay(o) /\ TimeOut(o))
    /\ \A p \in Processes : WF_vars(ServeDeduct(p)) /\ WF_vars(ServeCredit(p))

-----------------------------------------------------------------------------
Request == [order : Orders, try : Nat]

(* Every variable has its type.                                            *)
TypeOK ==
    /\ order \in [Orders -> Phases] /\ tries \in [Orders -> Nat]
    /\ reply \in [Orders -> Codes \cup {"none"}] /\ event \subseteq Orders
    /\ queue \in [Processes -> [Jobs -> Seq(Request)]]
    /\ \A p \in Processes, j \in Jobs :
          work[p][j] = Idle \/
          /\ work[p][j].step \in {"check", "find", "commit", "answer"}
          /\ work[p][j].order \in Orders /\ work[p][j].try \in 1..tries[work[p][j].order]
          /\ work[p][j].step = "answer" => work[p][j].code \in Codes
    /\ live \subseteq Bots /\ balance \in [Users -> Nat]
    /\ payments \in Seq([key : KeySet, amount : Nat])
    /\ refunds \in Seq([key : KeySet, amount : Nat])
    /\ notified \in [KeySet -> Nat] /\ overlapped \subseteq KeySet
    /\ timeouts \in 0..MaxTimeOuts /\ faults \in 0..MaxFaults

Confirmed == {"paid", "served", "owed", "refunding", "refunded", "stranded"}

(* What a service was told is paid was paid: by a row with the key of the  *)
(* order and, if the order brought a key of its own, of its price to the   *)
(* nano that TONToNano may cut off, however many answers, retries and      *)
(* events of it and of other orders crossed.                               *)
SuccessIsPaid ==
    \A o \in Orders : order[o] \in Confirmed =>
        \E i \in Charges(o) : Identified(o) => Price[o] - payments[i].amount \in {0, 1}

(* Deduct's comment on retries after a timeout: no second charge, unless   *)
(* two processes worked on the retry and its original at the same time.    *)
ChargedOnce ==
    \A o \in Orders : Cardinality(Charges(o)) > 1 => Key(o) \in overlapped

(* A refund comes back once, only for what was charged, in the amount that *)
(* was charged for an order with a key of its own, and never for an order  *)
(* that was served; an order closed as refunded has its money back.        *)
RefundBacked ==
    \A o \in Orders :
        /\ Cardinality(Credits(o)) <= 1
        /\ \A i \in Credits(o) : \E j \in Charges(o) :
              Identified(o) => refunds[i].amount = payments[j].amount
        /\ order[o] = "refunded" => Credits(o) # {}
        /\ order[o] = "served" /\ Identified(o) => Credits(o) = {}

(* "Insufficient balance" in answer to the first request of an order means *)
(* that nothing was or will be charged for it.                             *)
FirstRefusalIsFinal ==
    \A o \in Orders :
        order[o] = "refused" /\ tries[o] = 1 /\ Identified(o) => Charges(o) = {}

(* Pay's comment: the user hears of a new deduction, not of a retry.       *)
ToldPerPayment ==
    \A o \in Orders : notified[Key(o)] <= Cardinality(Charges(o))

Ended == {"served", "refunded", "refused", "failed", "stranded"}

(* A purchase ends: served, refunded, or refused with an error.            *)
PurchaseEnds == \A o \in Orders : order[o] # "new" ~> order[o] \in Ended

(* What was charged is the price.  A float of TON does not keep it.        *)
PaidInFull ==
    \A o \in Orders : order[o] \in Confirmed /\ Identified(o) =>
        \E i \in Charges(o) : payments[i].amount = Price[o]

(* Deduct's comment: the retry of a payment that was made after a timeout  *)
(* gets that payment.                                                      *)
RefusedIsUncharged ==
    \A o \in Orders : order[o] = "refused" /\ Identified(o) => Charges(o) = {}
=============================================================================
