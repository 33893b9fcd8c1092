----------------------- MODULE ServicePaymentProofs -----------------------
(***************************************************************************)
(* Why a purchase is safe: TLAPS proofs about ServicePayment for any       *)
(* number of orders, users, services and processes and any number of       *)
(* timeouts and faults.                                                    *)
(*                                                                         *)
(* The invariant says what the requests under way already know: a callback *)
(* that will answer "success" has its row, a refund is only asked for by   *)
(* an order that was paid, and the only request of an order that was tried *)
(* once is in one place.                                                   *)
(***************************************************************************)
EXTENDS ServicePayment, TLAPS, FiniteSetTheorems

(* A callback at work.                                                     *)
Callback == [order : Orders, try : Nat, created : BOOLEAN, code : Codes \cup {"none"},
             step : {"check", "find", "commit", "answer"}]

Booking == [key : KeySet, amount : Nat]

Shape ==
    /\ order \in [Orders -> Phases] /\ tries \in [Orders -> Nat]
    /\ reply \in [Orders -> Codes \cup {"none"}] /\ event \subseteq Orders
    /\ queue \in [Processes -> [Jobs -> Seq(Request)]]
    /\ work \in [Processes -> [Jobs -> Callback \cup {Idle}]]
    /\ live \subseteq Bots /\ balance \in [Users -> Nat]
    /\ payments \in Seq(Booking) /\ refunds \in Seq(Booking)
    /\ notified \in [KeySet -> Nat] /\ overlapped \subseteq KeySet
    /\ timeouts \in 0..MaxTimeOuts /\ faults \in 0..MaxFaults

(* The rows of a key; Charges(o) and Credits(o) are those of o's key.      *)
RowsOf(rows, k) == {i \in DOMAIN rows : rows[i].key = k}

Paid(o) == RowsOf(payments, Key(o)) # {}

Repaid(o) == RowsOf(refunds, Key(o)) # {}

Queued(p, j, o, t) == \E i \in DOMAIN queue[p][j] : queue[p][j][i] = [order |-> o, try |-> t]

Works(p, j, o) == work[p][j] # Idle /\ work[p][j].order = o

(* No request is from the future.                                          *)
TriesOK ==
    \A p \in Processes, j \in Jobs :
        /\ \A o \in Orders, t \in Nat : Queued(p, j, o, t) => t \in 1..tries[o]
        /\ work[p][j] # Idle => work[p][j].try \in 1..tries[work[p][j].order]

(* The callback's own state is the one its steps leave.                    *)
WorkOK ==
    \A p \in Processes, j \in Jobs : LET w == work[p][j] IN w # Idle =>
        /\ w.step # "answer" => Payable(w.order) /\ ~w.created
        /\ w.step = "answer" => w.code \in Codes
        /\ j = "credit" => ~w.created /\ w.step \in {"commit", "answer"}
        /\ w.created => w.code = "success"
        /\ w.step = "answer" /\ w.code = "success" =>
              IF j = "deduct" THEN Paid(w.order) ELSE Repaid(w.order)

(* Where an order stands once a refund was asked for.                      *)
Returning == {"owed", "refunding", "refunded", "stranded"}

(* A refund is only under way for an order that asked for it, and the      *)
(* request an order waits for is of the kind it waits for.                 *)
KindsOK ==
    \A p \in Processes, o \in Orders :
        /\ (\E t \in Nat : Queued(p, "credit", o, t)) => order[o] \in Returning
        /\ Works(p, "credit", o) => order[o] \in Returning
        /\ order[o] = "refunding" => ~Queued(p, "deduct", o, tries[o])
        /\ order[o] = "refunding" /\ Works(p, "deduct", o) =>
              work[p]["deduct"].try # tries[o]

(* What the client was told, or will read in its inbox, is so.             *)
ToldOK ==
    \A o \in Orders :
        /\ ~Waiting(o) => reply[o] = "none"
        /\ order[o] = "paying" /\ reply[o] = "success" => Paid(o)
        /\ order[o] = "refunding" /\ reply[o] = "success" => Repaid(o)
        /\ order[o] \in Confirmed => Paid(o)
        /\ o \in event => Paid(o)
        /\ order[o] = "refunded" => Repaid(o)

(* A key is refunded once, after its payment.                              *)
RefundsOK ==
    /\ \A i, j \in DOMAIN refunds : refunds[i].key = refunds[j].key => i = j
    /\ \A o \in Orders : Repaid(o) => Paid(o)

(* A key no two callbacks met on has one callback and one row at most.     *)
OverlapOK ==
    \A k \in KeySet \ overlapped :
        /\ \A p, q \in Processes :
              /\ work[p]["deduct"] # Idle /\ Key(work[p]["deduct"].order) = k
              /\ work[q]["deduct"] # Idle /\ Key(work[q]["deduct"].order) = k
              => p = q
        /\ \A p \in Processes :
              At(p, "deduct", "commit") /\ Key(work[p]["deduct"].order) = k
              => RowsOf(payments, k) = {}
        /\ \A i, j \in RowsOf(payments, k) : i = j

(* The processes that will tell the user of a payment with key k.          *)
Telling(k) ==
    {p \in Processes : /\ work[p]["deduct"] # Idle /\ work[p]["deduct"].created
                       /\ Key(work[p]["deduct"].order) = k}

TellingOK ==
    \A k \in KeySet :
        /\ IsFiniteSet(Telling(k))
        /\ notified[k] + Cardinality(Telling(k)) <= Cardinality(RowsOf(payments, k))

PurchaseInv ==
    /\ Shape /\ TriesOK /\ WorkOK /\ KindsOK /\ ToldOK /\ RefundsOK /\ OverlapOK /\ TellingOK

-----------------------------------------------------------------------------
(* Orders with a ref or an idempotency key of their own: DeductForService  *)
(* puts an attempt id into the ref.                                        *)
OwnKeys == \A o, q \in Orders : Identified(o) /\ Key(q) = Key(o) => q = o

(* The rows of an order with its own key, of payment and of refund, have   *)
(* its price as TONToNano leaves it, and its refund is the one it asked    *)
(* for.                                                                    *)
PricesOK ==
    \A o \in Orders : Identified(o) =>
        /\ \A i \in RowsOf(payments, Key(o)) : payments[i].amount = Nano(o)
        /\ \A i \in RowsOf(refunds, Key(o)) : refunds[i].amount = Nano(o)
        /\ Repaid(o) => order[o] \in Returning

(* Place i of a queue holds a request of o.                                *)
Holds(p, j, i, o) == i \in DOMAIN queue[p][j] /\ queue[p][j][i].order = o

(* The only request of an order is queued once, or served by one callback, *)
(* or answered.                                                            *)
OneRequest(o) ==
    /\ \A p, q \in Processes, j, k \in Jobs, i, l \in Nat :
          Holds(p, j, i, o) /\ Holds(q, k, l, o) => p = q /\ j = k /\ i = l
    /\ \A p, q \in Processes, j, k \in Jobs :
          Works(p, j, o) /\ Works(q, k, o) => p = q /\ j = k
    /\ \A p, q \in Processes, j, k \in Jobs, i \in Nat :
          Holds(p, j, i, o) => ~Works(q, k, o) /\ reply[o] = "none" /\ order[o] # "refused"
    /\ \A p \in Processes, j \in Jobs :
          Works(p, j, o) => reply[o] = "none" /\ order[o] # "refused"

(* Nothing is charged before it is served, nor if it is refused.           *)
Uncharged(o) ==
    /\ \A p \in Processes, j \in Jobs, i \in Nat : Holds(p, j, i, o) => ~Paid(o)
    /\ \A p \in Processes, j \in Jobs :
          Works(p, j, o) /\ (work[p][j].step # "answer" \/ work[p][j].code = "insufficient")
          => ~Paid(o)
    /\ reply[o] = "insufficient" \/ order[o] = "refused" => ~Paid(o)

FirstOK ==
    \A o \in Orders :
        /\ tries[o] = 1 => OneRequest(o)
        /\ tries[o] = 0 /\ Identified(o) => ~Paid(o)
        /\ tries[o] = 1 /\ Identified(o) => Uncharged(o)

OwnKeyInv == PurchaseInv /\ PricesOK /\ FirstOK

-----------------------------------------------------------------------------
(* The steps, reduced to what they do to the requests and the rows.        *)

Puts(p, j, w) == work' = [work EXCEPT ![p][j] = w]

(* The callback of p goes on with what it has.                             *)
Resumes(p, j, w) ==
    /\ work[p][j] \in Callback /\ w \in Callback
    /\ w.order = work[p][j].order /\ w.try = work[p][j].try
    /\ Puts(p, j, w)

(* A request is sent.                                                      *)
Sends(o, p, j) ==
    /\ \/ j = "deduct" /\ order[o] \in {"new", "unsure"}
          /\ order' = [order EXCEPT ![o] = "paying"]
       \/ j = "credit" /\ order[o] = "owed"
          /\ order' = [order EXCEPT ![o] = "refunding"]
    /\ queue' = [queue EXCEPT ![p][j] = Append(@, [order |-> o, try |-> tries[o] + 1])]
    /\ tries' = [tries EXCEPT ![o] = @ + 1]
    /\ UNCHANGED <<reply, event, work, live, storeVars, notified, overlapped, timeouts, faults>>

(* The client goes on.                                                     *)
Turns(o) ==
    /\ Receive(o) \/ TimeOut(o) \/ PayCompleted(o) \/ Provision(o) \/ LoseReply(o)
    /\ UNCHANGED <<tries, queue, work, live, storeVars, notified, overlapped>>

(* A request leaves its queue.                                             *)
Drops(p, j) ==
    /\ queue[p][j] # << >>
    /\ queue' = [queue EXCEPT ![p][j] = Tail(@)]

(* A callback takes a request.                                             *)
Starts(p, j, w) ==
    /\ Drops(p, j) /\ work[p][j] = Idle
    /\ w \in Callback /\ Puts(p, j, w)
    /\ [order |-> w.order, try |-> w.try] = Head(queue[p][j])
    /\ ~w.created
    /\ w.step = "answer" => w.code \in {"unauthorized", "internal"}
    /\ w.step # "answer" => /\ Payable(w.order) /\ w.code = "none"
                            /\ w.step = IF j = "deduct" THEN "check" ELSE "commit"
    /\ overlapped' = overlapped \cup
          {Key(w.order) : q \in {q \in Processes : /\ j = "deduct" /\ work[q][j] # Idle
                                                  /\ Key(work[q][j].order) = Key(w.order)}}
    /\ UNCHANGED <<clientVars, live, storeVars, notified, timeouts>>

(* A callback goes on without a write.                                     *)
Advances(p, j, w) ==
    /\ Resumes(p, j, w) /\ work[p][j].step # "answer" /\ w.created = work[p][j].created
    /\ \/ w.step = "answer" /\ w.code = "internal"
       \/ w.step = "answer" /\ w.code = "insufficient" /\ j = "deduct"
       \/ w.step = "answer" /\ w.code = "success" /\ j = "deduct" /\ Paid(w.order)
       \/ w.step = "find" /\ j = "deduct"
       \/ w.step = "commit" /\ j = "deduct" /\ ~Paid(w.order)
    /\ UNCHANGED <<clientVars, queue, live, storeVars, notified, overlapped, timeouts>>

(* A deduction commits.                                                    *)
Deducts(p, w) ==
    /\ Resumes(p, "deduct", w) /\ work[p]["deduct"].step = "commit" /\ w.step = "answer"
    /\ \/ w.code = "success" /\ w.created
       \/ w.code = "internal" /\ w.created = work[p]["deduct"].created
    /\ balance[User[w.order]] >= Nano(w.order)
    /\ balance' = [balance EXCEPT ![User[w.order]] = @ - Nano(w.order)]
    /\ payments' = Append(payments, [key |-> Key(w.order), amount |-> Nano(w.order)])
    /\ UNCHANGED <<refunds, clientVars, queue, live, notified, overlapped, timeouts>>

(* A refund commits, or is found to be there.                              *)
Repays(p, w) ==
    /\ Resumes(p, "credit", w) /\ work[p]["credit"].step = "commit" /\ w.step = "answer"
    /\ w.code \in {"success", "internal"} /\ w.created = work[p]["credit"].created
    /\ \/ Repaid(w.order) /\ UNCHANGED <<balance, refunds>>
       \/ /\ ~Repaid(w.order)
          /\ balance' = [balance EXCEPT ![User[w.order]] = @ + Nano(w.order)]
          /\ refunds' = Append(refunds, [key |-> Key(w.order), amount |-> Nano(w.order)])
    /\ UNCHANGED <<payments, clientVars, queue, live, notified, overlapped, timeouts>>

StepKind ==
    \/ \E o \in Orders, p \in Processes, j \in Jobs : Sends(o, p, j)
    \/ \E o \in Orders : Turns(o)
    \/ \E p \in Processes, j \in Jobs, w \in Callback : Starts(p, j, w)
    \/ \E p \in Processes, j \in Jobs, w \in Callback : Advances(p, j, w)
    \/ \E p \in Processes, w \in Callback : Deducts(p, w)
    \/ \E p \in Processes, w \in Callback : Repays(p, w)
    \/ \E p \in Processes, j \in Jobs : Respond(p, j)
    \/ \E p \in Processes, j \in Jobs : LoseRequest(p, j)
    \/ \E p \in Processes : Crash(p)
    \/ UNCHANGED <<clientVars, queue, work, storeVars, notified, overlapped, timeouts>>

LEMMA RowsAre ==
    \A o \in Orders : Charges(o) = RowsOf(payments, Key(o)) /\ Credits(o) = RowsOf(refunds, Key(o))
  BY DEF Charges, Credits, RowsOf

(* A slot whose step is one of a handler holds a callback.                 *)
LEMMA SlotIs ==
    ASSUME Shape, NEW p \in Processes, NEW j \in Jobs
    PROVE  /\ work[p][j] \in Callback \cup {Idle}
           /\ work[p][j] \in Callback => work[p][j] # Idle
           /\ work[p][j].step # "idle" => work[p][j] \in Callback
           /\ Idle.step = "idle" /\ Idle \notin Callback
  <1>1. work[p][j] \in Callback \cup {Idle}
    BY DEF Shape
  <1>2. Idle.step = "idle"
    BY DEF Idle
  <1>3. \A w \in Callback : w.step # "idle"
    BY DEF Callback
  <1>. QED  BY <1>1, <1>2, <1>3

LEMMA GotoPuts ==
    ASSUME Shape, NEW p \in Processes, NEW j \in Jobs, work[p][j].step # "idle",
           NEW step \in {"check", "find", "commit", "answer"}, Goto(p, j, step)
    PROVE  LET w == [work[p][j] EXCEPT !.step = step] IN
           /\ Resumes(p, j, w) /\ w.created = work[p][j].created
           /\ w.code = work[p][j].code /\ w.step = step /\ w \in Callback
  <1>1. work[p][j] \in Callback
    BY SlotIs
  <1>2. work \in [Processes -> [Jobs -> Callback \cup {Idle}]]
    BY DEF Shape
  <1>3. Puts(p, j, [work[p][j] EXCEPT !.step = step])
    BY DEF Goto, Puts
  <1>. QED  BY <1>1, <1>3 DEF Resumes, Callback

LEMMA AnswerPuts ==
    ASSUME Shape, NEW p \in Processes, NEW j \in Jobs, work[p][j].step # "idle",
           NEW code \in Codes, Answer(p, j, code)
    PROVE  LET w == [work[p][j] EXCEPT !.code = code, !.step = "answer"] IN
           /\ Resumes(p, j, w) /\ w.created = work[p][j].created
           /\ w.code = code /\ w.step = "answer" /\ w \in Callback
  <1>1. work[p][j] \in Callback
    BY SlotIs
  <1>2. work \in [Processes -> [Jobs -> Callback \cup {Idle}]]
    BY DEF Shape
  <1>. DEFINE w == [work[p][j] EXCEPT !.code = code, !.step = "answer"]
  <1>3. Puts(p, j, w)
    BY <1>2 DEF Answer, Puts
  <1>. QED  BY <1>1, <1>3 DEF Resumes, Callback

LEMMA BeginStarts ==
    ASSUME Shape, NEW p \in Processes, NEW j \in Jobs, NEW a \in BOOLEAN,
           Free(p, j), Begin(p, j, a)
    PROVE  \E w \in Callback : Starts(p, j, w)
  <1>. DEFINE r == Head(queue[p][j])
              o == r.order
              start == [order |-> o, try |-> r.try, created |-> FALSE, code |-> "none",
                        step |-> IF j = "deduct" THEN "check" ELSE "commit"]
              w == CASE ~a -> [start EXCEPT !.step = "answer", !.code = "unauthorized"]
                     [] a /\ ~Payable(o) ->
                          [start EXCEPT !.step = "answer", !.code = "internal"]
                     [] OTHER -> start
  <1>1. queue[p][j] \in Seq(Request) /\ queue[p][j] # << >> /\ work[p][j] = Idle
    BY DEF Shape, Free
  <1>2. r \in Request /\ o \in Orders /\ r.try \in Nat
    <2>1. r \in Request
      BY <1>1
    <2>. QED  BY <2>1 DEF Request
  <1>3. w \in {[start EXCEPT !.step = "answer", !.code = "unauthorized"],
               [start EXCEPT !.step = "answer", !.code = "internal"], start}
        /\ (w = start => Payable(o))
    <2>1. CASE ~a
      BY <2>1
    <2>2. CASE a /\ ~Payable(o)
      BY <2>2
    <2>3. CASE a /\ Payable(o)
      BY <2>3
    <2>. QED  BY <2>1, <2>2, <2>3
  <1>4. start \in Callback
    BY <1>2 DEF Callback
  <1>5. /\ w \in Callback /\ w.order = o /\ w.try = r.try /\ ~w.created
        /\ w.step = "answer" => w.code \in {"unauthorized", "internal"}
        /\ w.step # "answer" => /\ Payable(w.order) /\ w.code = "none"
                                /\ w.step = IF j = "deduct" THEN "check" ELSE "commit"
    <2>1. CASE w = start
      BY <1>2, <1>3, <1>4, <2>1 DEF Callback
    <2>2. CASE w = [start EXCEPT !.step = "answer", !.code = "unauthorized"]
      BY <1>2, <2>2 DEF Callback, Codes
    <2>3. CASE w = [start EXCEPT !.step = "answer", !.code = "internal"]
      BY <1>2, <2>3 DEF Callback, Codes
    <2>. QED  BY <1>3, <2>1, <2>2, <2>3
  <1>6. Puts(p, j, w)
    BY DEF Begin, Puts
  <1>7. /\ queue' = [queue EXCEPT ![p][j] = Tail(@)]
        /\ overlapped' = overlapped \cup
             {Key(o) : q \in {q \in Processes : /\ j = "deduct" /\ work[q][j] # Idle
                                               /\ Key(work[q][j].order) = Key(o)}}
        /\ UNCHANGED <<clientVars, live, storeVars, notified, timeouts>>
    BY DEF Begin
  <1>. HIDE DEF w
  <1>8. [order |-> w.order, try |-> w.try] = Head(queue[p][j])
    BY <1>2, <1>5 DEF Request
  <1>9. Starts(p, j, w)
    BY <1>1, <1>5, <1>6, <1>7, <1>8 DEF Starts, Drops
  <1>. QED  BY <1>5, <1>9

(* The callbacks that go on without a write.                               *)
LEMMA HandlerAdvances ==
    ASSUME Shape, NEW p \in Processes, NEW j \in Jobs,
           \/ j = "deduct" /\ (CheckBalance(p) \/ Reject(p) \/ FindPayment(p))
           \/ CallFails(p, j)
    PROVE  \E w \in Callback : Advances(p, j, w)
  <1>. DEFINE o == work[p][j].order
              A(code) == [work[p][j] EXCEPT !.code = code, !.step = "answer"]
              G(step) == [work[p][j] EXCEPT !.step = step]
  <1>0. {"insufficient", "success", "internal"} \subseteq Codes /\ "deduct" \in Jobs
    BY DEF Codes, Jobs
  <1>1. work[p][j].step # "idle" /\ work[p][j].step # "answer"
    BY DEF CheckBalance, Reject, FindPayment, CallFails, At
  <1>2. work[p][j] \in Callback
    BY <1>1, SlotIs
  <1>3. UNCHANGED <<clientVars, queue, live, storeVars, notified, overlapped, timeouts>>
    BY DEF CheckBalance, Reject, FindPayment, CallFails
  <1>4. ASSUME Answer(p, j, "internal")  PROVE \E w \in Callback : Advances(p, j, w)
    <2>1. /\ Resumes(p, j, A("internal")) /\ A("internal").created = work[p][j].created
          /\ A("internal").code = "internal" /\ A("internal").step = "answer"
          /\ A("internal") \in Callback
      BY <1>0, <1>1, <1>4, AnswerPuts
    <2>. HIDE DEF A
    <2>. QED  BY <1>1, <1>3, <2>1 DEF Advances
  <1>5. ASSUME Answer(p, j, "insufficient"), j = "deduct"
        PROVE  \E w \in Callback : Advances(p, j, w)
    <2>0. Answer(p, j, "insufficient")
      BY <1>5
    <2>1. /\ Resumes(p, j, A("insufficient")) /\ A("insufficient").created = work[p][j].created
          /\ A("insufficient").code = "insufficient" /\ A("insufficient").step = "answer"
          /\ A("insufficient") \in Callback
      BY <1>0, <1>1, <2>0, AnswerPuts
    <2>. HIDE DEF A
    <2>. QED  BY <1>1, <1>3, <1>5, <2>1 DEF Advances
  <1>6. ASSUME Answer(p, j, "success"), j = "deduct", Charges(o) # {}
        PROVE  \E w \in Callback : Advances(p, j, w)
    <2>0. Answer(p, j, "success")
      BY <1>6
    <2>1. /\ Resumes(p, j, A("success")) /\ A("success").created = work[p][j].created
          /\ A("success").code = "success" /\ A("success").step = "answer"
          /\ A("success") \in Callback
      BY <1>0, <1>1, <2>0, AnswerPuts
    <2>2. A("success").order = o /\ o \in Orders
      BY <1>2 DEF Callback
    <2>. HIDE DEF A, o
    <2>3. Paid(A("success").order)
      BY <1>6, <2>2, RowsAre DEF Paid
    <2>. QED  BY <1>1, <1>3, <1>6, <2>1, <2>3 DEF Advances
  <1>7. ASSUME Goto(p, j, "find"), j = "deduct"
        PROVE  \E w \in Callback : Advances(p, j, w)
    <2>1. /\ Resumes(p, j, G("find")) /\ G("find").created = work[p][j].created
          /\ G("find").step = "find" /\ G("find") \in Callback
      BY <1>1, <1>7, GotoPuts
    <2>. HIDE DEF G
    <2>. QED  BY <1>1, <1>3, <1>7, <2>1 DEF Advances
  <1>8. ASSUME Goto(p, j, "commit"), j = "deduct", Charges(o) = {}
        PROVE  \E w \in Callback : Advances(p, j, w)
    <2>1. /\ Resumes(p, j, G("commit")) /\ G("commit").created = work[p][j].created
          /\ G("commit").step = "commit" /\ G("commit") \in Callback
      BY <1>1, <1>8, GotoPuts
    <2>2. G("commit").order = o /\ o \in Orders
      BY <1>2 DEF Callback
    <2>. HIDE DEF G, o
    <2>3. ~Paid(G("commit").order)
      BY <1>8, <2>2, RowsAre DEF Paid
    <2>. QED  BY <1>1, <1>3, <1>8, <2>1, <2>3 DEF Advances
  <1>. QED
    BY <1>4, <1>5, <1>6, <1>7, <1>8 DEF CheckBalance, Reject, FindPayment, CallFails

LEMMA CommitKinds ==
    ASSUME Shape, NEW p \in Processes
    PROVE  /\ CommitDeduct(p) => \E w \in Callback : Deducts(p, w) \/ Advances(p, "deduct", w)
           /\ CommitCredit(p) => \E w \in Callback : Repays(p, w)
  <1>0. {"insufficient", "success", "internal"} \subseteq Codes /\ {"deduct", "credit"} = Jobs
    BY DEF Codes, Jobs
  <1>1. ASSUME CommitDeduct(p)
        PROVE  \E w \in Callback : Deducts(p, w) \/ Advances(p, "deduct", w)
    <2>. DEFINE v == work[p]["deduct"]
                o == v.order
                A(code) == [v EXCEPT !.code = code, !.step = "answer"]
                Books == /\ balance[User[o]] >= Nano(o)
                         /\ balance' = [balance EXCEPT ![User[o]] = @ - Nano(o)]
                         /\ payments' = Append(payments, [key |-> Key(o), amount |-> Nano(o)])
                         /\ UNCHANGED refunds
    <2>1. v.step = "commit" /\ v.step # "idle" /\ v.step # "answer"
      BY <1>1 DEF CommitDeduct, At
    <2>2. v \in Callback /\ work \in [Processes -> [Jobs -> Callback \cup {Idle}]]
      BY <1>0, <2>1, SlotIs DEF Shape
    <2>3. UNCHANGED <<clientVars, queue, live, notified, overlapped, timeouts>>
      BY <1>1 DEF CommitDeduct
    <2>4. ASSUME Answer(p, "deduct", "internal")
          PROVE  /\ Resumes(p, "deduct", A("internal")) /\ A("internal").created = v.created
                 /\ A("internal").code = "internal" /\ A("internal").step = "answer"
                 /\ A("internal") \in Callback /\ A("internal").order = o
      <3>1. /\ Resumes(p, "deduct", A("internal")) /\ A("internal").created = v.created
            /\ A("internal").code = "internal" /\ A("internal").step = "answer"
            /\ A("internal") \in Callback
        BY <1>0, <2>1, <2>4, AnswerPuts
      <3>2. A("internal").order = o
        BY <2>2 DEF Callback
      <3>. QED  BY <3>1, <3>2
    <2>5. CASE Answer(p, "deduct", "internal") /\ UNCHANGED storeVars
      <3>1. Advances(p, "deduct", A("internal"))
        <4>. HIDE DEF A
        <4>. QED  BY <2>1, <2>3, <2>4, <2>5 DEF Advances
      <3>. QED  BY <2>4, <2>5, <3>1
    <2>6. CASE Answer(p, "deduct", "internal") /\ Books
      <3>1. Deducts(p, A("internal"))
        <4>. HIDE DEF A
        <4>. QED  BY <2>1, <2>3, <2>4, <2>6 DEF Deducts
      <3>. QED  BY <2>4, <2>6, <3>1
    <2>7. CASE /\ work' = [work EXCEPT ![p]["deduct"].code = "success",
                                       ![p]["deduct"].created = TRUE,
                                       ![p]["deduct"].step = "answer"]
               /\ Books
      <3>. DEFINE w == [v EXCEPT !.code = "success", !.created = TRUE, !.step = "answer"]
      <3>1. w \in Callback
        BY <1>0, <2>2 DEF Callback
      <3>2. Puts(p, "deduct", w)
        <4>1. work' = [work EXCEPT ![p]["deduct"].code = "success",
                                   ![p]["deduct"].created = TRUE,
                                   ![p]["deduct"].step = "answer"]
          BY <2>7
        <4>. QED  BY <1>0, <2>2, <4>1 DEF Puts
      <3>3. Resumes(p, "deduct", w)
        BY <2>2, <3>1, <3>2 DEF Resumes, Callback
      <3>4. w.order = o /\ w.step = "answer" /\ w.code = "success" /\ w.created
        BY <2>2 DEF Callback
      <3>. HIDE DEF w
      <3>5. Deducts(p, w)
        BY <2>1, <2>3, <2>7, <3>3, <3>4 DEF Deducts
      <3>. QED  BY <3>1, <3>5
    <2>. HIDE DEF A
    <2>. QED  BY <1>1, <2>5, <2>6, <2>7 DEF CommitDeduct
  <1>2. ASSUME CommitCredit(p)  PROVE \E w \in Callback : Repays(p, w)
    <2>. DEFINE v == work[p]["credit"]
                o == v.order
                A(code) == [v EXCEPT !.code = code, !.step = "answer"]
    <2>1. v.step = "commit" /\ v.step # "idle"
      BY <1>2 DEF CommitCredit, At
    <2>2. v \in Callback
      BY <1>0, <2>1, SlotIs
    <2>3. PICK code \in {"success", "internal"} : Answer(p, "credit", code)
      BY <1>2 DEF CommitCredit
    <2>4. /\ Resumes(p, "credit", A(code)) /\ A(code).created = v.created
          /\ A(code).code = code /\ A(code).step = "answer" /\ A(code) \in Callback
      <3>1. code \in Codes
        BY <1>0
      <3>. QED  BY <1>0, <2>1, <2>3, <3>1, AnswerPuts
    <2>5. A(code).order = o /\ o \in Orders
      BY <2>2 DEF Callback
    <2>6. /\ \/ Credits(o) # {} /\ UNCHANGED <<balance, refunds>>
             \/ /\ Credits(o) = {}
                /\ balance' = [balance EXCEPT ![User[o]] = @ + Nano(o)]
                /\ refunds' = Append(refunds, [key |-> Key(o), amount |-> Nano(o)])
          /\ UNCHANGED <<payments, clientVars, queue, live, notified, overlapped, timeouts>>
      BY <1>2 DEF CommitCredit
    <2>. HIDE DEF A, o
    <2>7. Credits(o) # {} <=> Repaid(A(code).order)
      BY <2>5, RowsAre DEF Repaid
    <2>8. Repays(p, A(code))
      BY <2>1, <2>4, <2>5, <2>6, <2>7 DEF Repays
    <2>. QED  BY <2>4, <2>8
  <1>. QED  BY <1>1, <1>2

(* Every step is of one of these kinds.                                    *)
LEMMA StepKinds == Shape /\ [Next]_vars => StepKind
  <1>1. SUFFICES ASSUME Shape, [Next]_vars  PROVE StepKind
    OBVIOUS
  <1>0. "deduct" \in Jobs /\ "credit" \in Jobs
    BY DEF Jobs
  <1>2. ASSUME NEW o \in Orders, ClientStep(o) \/ TimeOut(o) \/ PayCompleted(o) \/ LoseReply(o)
        PROVE  StepKind
    <2>1. CASE Deduct(o)
      <3>1. PICK p \in Processes : queue' = [queue EXCEPT ![p]["deduct"] =
                                       Append(@, [order |-> o, try |-> tries[o] + 1])]
        BY <2>1 DEF Deduct, Send
      <3>2. Sends(o, p, "deduct")
        BY <2>1, <3>1 DEF Deduct, Send, Sends
      <3>. QED  BY <1>0, <3>2 DEF StepKind
    <2>2. CASE RefundService(o)
      <3>1. PICK p \in Processes : queue' = [queue EXCEPT ![p]["credit"] =
                                       Append(@, [order |-> o, try |-> tries[o] + 1])]
        BY <2>2 DEF RefundService, Send
      <3>2. Sends(o, p, "credit")
        BY <2>2, <3>1 DEF RefundService, Send, Sends
      <3>. QED  BY <1>0, <3>2 DEF StepKind
    <2>3. CASE Receive(o) \/ Provision(o) \/ TimeOut(o) \/ PayCompleted(o) \/ LoseReply(o)
      <3>1. Turns(o)
        BY <2>3 DEF Turns, Receive, Provision, TimeOut, PayCompleted, LoseReply
      <3>. QED  BY <3>1 DEF StepKind
    <2>. QED  BY <1>2, <2>1, <2>2, <2>3 DEF ClientStep
  <1>3. ASSUME NEW p \in Processes, NEW j \in Jobs, Serve(p, j) \/ BotUnread(p, j)
        PROVE  StepKind
    <2>1. CASE Take(p, j)
      <3>1. Free(p, j) /\ Begin(p, j, Authorized(Head(queue[p][j]).order))
        BY <2>1 DEF Take
      <3>2. Authorized(Head(queue[p][j]).order) \in BOOLEAN
        BY DEF Authorized
      <3>. QED  BY <1>1, <3>1, <3>2, BeginStarts DEF StepKind
    <2>2. CASE BotUnread(p, j)
      BY <1>1, <2>2, BeginStarts DEF BotUnread, StepKind
    <2>3. CASE Respond(p, j)
      BY <2>3 DEF StepKind
    <2>. QED  BY <1>3, <2>1, <2>2, <2>3 DEF Serve
  <1>4. ASSUME NEW p \in Processes, CheckBalance(p) \/ FindPayment(p) \/ Reject(p)
        PROVE  StepKind
    <2>1. \E w \in Callback : Advances(p, "deduct", w)
      BY <1>0, <1>1, <1>4, HandlerAdvances
    <2>. QED  BY <1>0, <2>1 DEF StepKind
  <1>5. ASSUME NEW p \in Processes, NEW j \in Jobs, CallFails(p, j)  PROVE StepKind
    BY <1>1, <1>5, HandlerAdvances DEF StepKind
  <1>6. ASSUME NEW p \in Processes, CommitDeduct(p) \/ CommitCredit(p)  PROVE StepKind
    BY <1>0, <1>1, <1>6, CommitKinds DEF StepKind
  <1>7. ASSUME NEW s \in Services, DeleteBot(s)  PROVE StepKind
    BY <1>7 DEF DeleteBot, StepKind
  <1>8. CASE UNCHANGED vars
    BY <1>8 DEF vars, StepKind, clientVars, storeVars
  <1>9. CASE \/ \E p \in Processes : Crash(p)
             \/ \E p \in Processes, j \in Jobs : LoseRequest(p, j)
    BY <1>9 DEF StepKind
  <1>. QED
    BY <1>0, <1>1, <1>2, <1>3, <1>4, <1>5, <1>6, <1>7, <1>8, <1>9
       DEF Next, ServeDeduct, ServeCredit

-----------------------------------------------------------------------------
(* What the kinds of steps do to slots, queues and rows.                   *)

LEMMA SlotFrame ==
    ASSUME Shape, NEW p \in Processes, NEW j \in Jobs, NEW w, Puts(p, j, w)
    PROVE  /\ work'[p][j] = w
           /\ \A q \in Processes, k \in Jobs : q # p \/ k # j => work'[q][k] = work[q][k]
           /\ w \in Callback \cup {Idle} =>
                 work' \in [Processes -> [Jobs -> Callback \cup {Idle}]]
  <1>1. work \in [Processes -> [Jobs -> Callback \cup {Idle}]]
    BY DEF Shape
  <1>. QED  BY <1>1 DEF Puts

LEMMA DropFrame ==
    ASSUME Shape, NEW p \in Processes, NEW j \in Jobs, Drops(p, j)
    PROVE  /\ queue' \in [Processes -> [Jobs -> Seq(Request)]]
           /\ queue'[p][j] = Tail(queue[p][j])
           /\ \A q \in Processes, k \in Jobs : q # p \/ k # j => queue'[q][k] = queue[q][k]
           /\ \A q \in Processes, k \in Jobs : \A o, t : Queued(q, k, o, t)' => Queued(q, k, o, t)
           /\ \A o, t : [order |-> o, try |-> t] = Head(queue[p][j]) => Queued(p, j, o, t)
  <1>1. /\ queue \in [Processes -> [Jobs -> Seq(Request)]]
        /\ queue[p][j] \in Seq(Request) /\ queue[p][j] # << >>
    BY DEF Shape, Drops
  <1>2. Tail(queue[p][j]) \in Seq(Request)
    BY <1>1
  <1>3. queue' = [queue EXCEPT ![p][j] = Tail(queue[p][j])]
    BY DEF Drops
  <1>4. /\ queue' \in [Processes -> [Jobs -> Seq(Request)]]
        /\ queue'[p][j] = Tail(queue[p][j])
        /\ \A q \in Processes, k \in Jobs : q # p \/ k # j => queue'[q][k] = queue[q][k]
    BY <1>1, <1>2, <1>3
  <1>5. ASSUME NEW q \in Processes, NEW k \in Jobs, NEW o, NEW t, Queued(q, k, o, t)'
        PROVE  Queued(q, k, o, t)
    <2>1. CASE q = p /\ k = j
      <3>1. PICK i \in DOMAIN Tail(queue[p][j]) :
                    Tail(queue[p][j])[i] = [order |-> o, try |-> t]
        BY <1>4, <1>5, <2>1 DEF Queued
      <3>2. i + 1 \in DOMAIN queue[p][j] /\ Tail(queue[p][j])[i] = queue[p][j][i + 1]
        BY <1>1, <3>1
      <3>. QED  BY <2>1, <3>1, <3>2 DEF Queued
    <2>2. CASE q # p \/ k # j
      BY <1>4, <1>5, <2>2 DEF Queued
    <2>. QED  BY <2>1, <2>2
  <1>6. ASSUME NEW o, NEW t, [order |-> o, try |-> t] = Head(queue[p][j])
        PROVE  Queued(p, j, o, t)
    <2>1. 1 \in DOMAIN queue[p][j] /\ Head(queue[p][j]) = queue[p][j][1]
      BY <1>1
    <2>. QED  BY <1>6, <2>1 DEF Queued
  <1>. QED  BY <1>4, <1>5, <1>6

LEMMA SendFrame ==
    ASSUME Shape, NEW o \in Orders, NEW p \in Processes, NEW j \in Jobs, Sends(o, p, j)
    PROVE  /\ queue' \in [Processes -> [Jobs -> Seq(Request)]]
           /\ queue'[p][j] = Append(queue[p][j], [order |-> o, try |-> tries[o] + 1])
           /\ \A q \in Processes, k \in Jobs : q # p \/ k # j => queue'[q][k] = queue[q][k]
           /\ tries' \in [Orders -> Nat] /\ tries'[o] = tries[o] + 1
           /\ \A x \in Orders \ {o} : tries'[x] = tries[x]
  <1>. DEFINE r == [order |-> o, try |-> tries[o] + 1]
  <1>1. /\ queue \in [Processes -> [Jobs -> Seq(Request)]] /\ queue[p][j] \in Seq(Request)
        /\ tries \in [Orders -> Nat]
    BY DEF Shape
  <1>2. r \in Request
    BY <1>1 DEF Request
  <1>3. queue' = [queue EXCEPT ![p][j] = Append(queue[p][j], r)]
    BY DEF Sends
  <1>. HIDE DEF r
  <1>4. /\ queue' \in [Processes -> [Jobs -> Seq(Request)]]
        /\ queue'[p][j] = Append(queue[p][j], r)
        /\ \A q \in Processes, k \in Jobs : q # p \/ k # j => queue'[q][k] = queue[q][k]
    <2>1. Append(queue[p][j], r) \in Seq(Request)
      BY <1>1, <1>2
    <2>. QED  BY <1>1, <1>3, <2>1
  <1>5. /\ tries' \in [Orders -> Nat] /\ tries'[o] = tries[o] + 1
        /\ \A x \in Orders \ {o} : tries'[x] = tries[x]
    BY <1>1 DEF Sends
  <1>. QED  BY <1>4, <1>5 DEF r

LEMMA SendQueued ==
    ASSUME Shape, NEW o \in Orders, NEW p \in Processes, NEW j \in Jobs, Sends(o, p, j),
           NEW q \in Processes, NEW k \in Jobs, NEW x \in Orders, NEW t \in Nat,
           Queued(q, k, x, t)'
    PROVE  Queued(q, k, x, t) \/ (q = p /\ k = j /\ x = o /\ t = tries[o] + 1)
  <1>. DEFINE r == [order |-> o, try |-> tries[o] + 1]
  <1>0. queue[p][j] \in Seq(Request) /\ tries[o] \in Nat
    BY DEF Shape
  <1>1. queue[p][j] \in Seq(Request) /\ r \in Request
    BY <1>0 DEF Request
  <1>2. /\ queue'[p][j] = Append(queue[p][j], r)
        /\ (q # p \/ k # j) => queue'[q][k] = queue[q][k]
    BY SendFrame
  <1>. HIDE DEF r
  <1>3. CASE q = p /\ k = j
    <2>1. PICK i \in DOMAIN Append(queue[p][j], r) :
                    Append(queue[p][j], r)[i] = [order |-> x, try |-> t]
      BY <1>2, <1>3 DEF Queued
    <2>2. CASE i = Len(queue[p][j]) + 1
      <3>1. r = [order |-> x, try |-> t]
        BY <1>1, <2>1, <2>2
      <3>. QED  BY <1>3, <3>1 DEF r
    <2>3. CASE i # Len(queue[p][j]) + 1
      <3>1. i \in DOMAIN queue[p][j] /\ Append(queue[p][j], r)[i] = queue[p][j][i]
        BY <1>1, <2>1, <2>3
      <3>. QED  BY <1>3, <2>1, <3>1 DEF Queued
    <2>. QED  BY <2>2, <2>3
  <1>4. CASE q # p \/ k # j
    BY <1>2, <1>4 DEF Queued
  <1>. QED  BY <1>3, <1>4

LEMMA RowsAppend ==
    ASSUME NEW rows \in Seq(Booking), NEW r \in Booking
    PROVE  /\ Append(rows, r) \in Seq(Booking)
           /\ \A k : IsFiniteSet(RowsOf(rows, k)) /\ Len(rows) + 1 \notin RowsOf(rows, k)
           /\ \A k : RowsOf(Append(rows, r), k) =
                        IF r.key = k THEN RowsOf(rows, k) \cup {Len(rows) + 1}
                        ELSE RowsOf(rows, k)
           /\ \A i \in DOMAIN rows : Append(rows, r)[i] = rows[i]
           /\ DOMAIN Append(rows, r) = DOMAIN rows \cup {Len(rows) + 1}
           /\ Append(rows, r)[Len(rows) + 1] = r
  <1>. DEFINE n == Len(rows)
              a == Append(rows, r)
  <1>1. /\ n \in Nat /\ DOMAIN rows = 1..n /\ a \in Seq(Booking)
        /\ DOMAIN a = 1..(n + 1) /\ a[n + 1] = r /\ \A i \in 1..n : a[i] = rows[i]
    OBVIOUS
  <1>. HIDE DEF n, a
  <1>2. 1..(n + 1) = 1..n \cup {n + 1} /\ n + 1 \notin 1..n
    BY <1>1
  <1>3. ASSUME NEW k  PROVE IsFiniteSet(RowsOf(rows, k)) /\ n + 1 \notin RowsOf(rows, k)
    <2>1. RowsOf(rows, k) \subseteq 1..n
      BY <1>1 DEF RowsOf
    <2>2. IsFiniteSet(1..n)
      BY <1>1, FS_Interval
    <2>3. IsFiniteSet(RowsOf(rows, k))
      BY <2>1, <2>2, FS_Subset
    <2>. QED  BY <1>2, <2>1, <2>3
  <1>4. ASSUME NEW k
        PROVE  RowsOf(a, k) = IF r.key = k THEN RowsOf(rows, k) \cup {n + 1}
                              ELSE RowsOf(rows, k)
    BY <1>1, <1>2 DEF RowsOf
  <1>. QED  BY <1>1, <1>2, <1>3, <1>4 DEF n, a

-----------------------------------------------------------------------------
(* Types.                                                                  *)

LEMMA BoundsStep ==
    ASSUME Shape, [Next]_vars
    PROVE  live' \subseteq Bots /\ timeouts' \in 0..MaxTimeOuts /\ faults' \in 0..MaxFaults
  <1>. USE DEF Fault
  <1>0. /\ MaxTimeOuts \in Nat /\ MaxFaults \in Nat
        /\ live \subseteq Bots /\ timeouts \in 0..MaxTimeOuts /\ faults \in 0..MaxFaults
    BY PaymentAssumption DEF Shape
  <1>1. ASSUME NEW o \in Orders, ClientStep(o) \/ PayCompleted(o) \/ LoseReply(o)
        PROVE  live' = live /\ timeouts' = timeouts /\ faults' \in 0..MaxFaults
    BY <1>0, <1>1 DEF ClientStep, Deduct, RefundService, Receive, Provision, PayCompleted, LoseReply
  <1>2. ASSUME NEW o \in Orders, TimeOut(o)
        PROVE  live' = live /\ timeouts' \in 0..MaxTimeOuts /\ faults' = faults
    BY <1>0, <1>2 DEF TimeOut
  <1>3. ASSUME NEW p \in Processes, NEW j \in Jobs,
               Serve(p, j) \/ CallFails(p, j) \/ BotUnread(p, j) \/ LoseRequest(p, j)
        PROVE  live' = live /\ timeouts' = timeouts /\ faults' \in 0..MaxFaults
    <2>1. CASE Serve(p, j)
      <3>1. CASE Take(p, j)
        BY <1>0, <3>1 DEF Take, Begin
      <3>2. CASE Respond(p, j)
        BY <1>0, <3>2 DEF Respond
      <3>. QED  BY <2>1, <3>1, <3>2 DEF Serve
    <2>2. CASE CallFails(p, j)
      BY <1>0, <2>2 DEF CallFails, Respond
    <2>3. CASE BotUnread(p, j)
      BY <1>0, <2>3 DEF BotUnread, Begin
    <2>4. CASE LoseRequest(p, j)
      BY <1>0, <2>4 DEF LoseRequest, Take
    <2>. QED  BY <1>3, <2>1, <2>2, <2>3, <2>4
  <1>4. ASSUME NEW p \in Processes,
               \/ CheckBalance(p) \/ FindPayment(p) \/ CommitDeduct(p) \/ CommitCredit(p)
               \/ Reject(p) \/ Crash(p)
        PROVE  live' = live /\ timeouts' = timeouts /\ faults' \in 0..MaxFaults
    <2>1. CASE CheckBalance(p)
      BY <1>0, <2>1 DEF CheckBalance
    <2>6. CASE FindPayment(p)
      BY <1>0, <2>6 DEF FindPayment
    <2>2. CASE CommitDeduct(p)
      <3>. HIDE DEF Fault
      <3>1. live' = live /\ timeouts' = timeouts /\ (faults' = faults \/ Fault)
        BY <2>2 DEF CommitDeduct
      <3>. QED  BY <1>0, <3>1 DEF Fault
    <2>3. CASE CommitCredit(p)
      BY <1>0, <2>3 DEF CommitCredit
    <2>4. CASE Reject(p)
      BY <1>0, <2>4 DEF Reject
    <2>5. CASE Crash(p)
      BY <1>0, <2>5 DEF Crash
    <2>. QED  BY <1>4, <2>1, <2>2, <2>3, <2>4, <2>5, <2>6
  <1>5. ASSUME NEW s \in Services, DeleteBot(s)
        PROVE  live' \subseteq Bots /\ timeouts' = timeouts /\ faults' \in 0..MaxFaults
    BY <1>0, <1>5 DEF DeleteBot
  <1>6. CASE UNCHANGED vars
    BY <1>0, <1>6 DEF vars
  <1>7. "deduct" \in Jobs /\ "credit" \in Jobs
    BY DEF Jobs
  <1>. QED
    BY <1>0, <1>1, <1>2, <1>3, <1>4, <1>5, <1>6, <1>7 DEF Next, ServeDeduct, ServeCredit

(* TONToNano cuts off a nano at most.                                      *)
LEMMA NanoIs ==
    ASSUME NEW o \in Orders
    PROVE  Price[o] \in Int /\ Nano(o) \in Int /\ Price[o] - Nano(o) \in {0, 1}
  <1>1. Price[o] \in Int
    BY PaymentAssumption
  <1>. QED  BY <1>1 DEF Nano, TONToNano

LEMMA BookingIs ==
    ASSUME Shape, WorkOK, NEW p \in Processes, NEW j \in Jobs, work[p][j].step = "commit"
    PROVE  LET o == work[p][j].order IN
           /\ o \in Orders /\ Nano(o) \in Nat /\ User[o] \in Users /\ Key(o) \in KeySet
           /\ [key |-> Key(o), amount |-> Nano(o)] \in Booking
  <1>. DEFINE o == work[p][j].order
  <1>1. work[p][j] \in Callback /\ work[p][j] # Idle
    BY SlotIs
  <1>2. o \in Orders
    BY <1>1 DEF Callback
  <1>3. Payable(o) /\ Nano(o) \in Int /\ User[o] \in Users
    BY <1>1, <1>2, NanoIs, PaymentAssumption DEF WorkOK
  <1>4. Nano(o) \in Nat /\ Key(o) \in KeySet
    BY <1>2, <1>3 DEF Payable, KeySet
  <1>. QED  BY <1>2, <1>3, <1>4 DEF Booking

LEMMA RespondFacts ==
    ASSUME Shape, NEW p \in Processes, NEW j \in Jobs, Respond(p, j)
    PROVE  LET w == work[p][j] IN
           /\ w \in Callback /\ w # Idle /\ w.step = "answer" /\ Puts(p, j, Idle)
           /\ w.order \in Orders
           /\ notified' = IF w.created THEN [notified EXCEPT ![Key(w.order)] = @ + 1] ELSE notified
           /\ event' = IF Announces(w, j) THEN event \cup {w.order} ELSE event
           /\ reply' = IF Waiting(w.order) /\ tries[w.order] = w.try
                       THEN [reply EXCEPT ![w.order] = w.code] ELSE reply
           /\ UNCHANGED <<order, tries, queue, live, storeVars, overlapped, timeouts>>
  <1>1. work[p][j].step = "answer"
    BY DEF Respond, At
  <1>2. work[p][j] \in Callback /\ work[p][j] # Idle
    BY <1>1, SlotIs
  <1>3. work[p][j].order \in Orders
    BY <1>2 DEF Callback
  <1>. QED  BY <1>1, <1>2, <1>3 DEF Respond, Puts, Notifies

LEMMA CrashFacts ==
    ASSUME Shape, NEW p \in Processes, Crash(p)
    PROVE  /\ queue' \in [Processes -> [Jobs -> Seq(Request)]]
           /\ work' \in [Processes -> [Jobs -> Callback \cup {Idle}]]
           /\ \A q \in Processes, k \in Jobs : work'[q][k] = IF q = p THEN Idle ELSE work[q][k]
           /\ \A q \in Processes, k \in Jobs :
                 queue'[q][k] = IF q = p THEN << >> ELSE queue[q][k]
           /\ \A q \in Processes, k \in Jobs : \A o, t : Queued(q, k, o, t)' => Queued(q, k, o, t)
           /\ UNCHANGED <<clientVars, live, storeVars, notified, overlapped, timeouts>>
  <1>1. /\ queue \in [Processes -> [Jobs -> Seq(Request)]]
        /\ work \in [Processes -> [Jobs -> Callback \cup {Idle}]]
    BY DEF Shape
  <1>2. /\ queue' = [queue EXCEPT ![p] = [j \in Jobs |-> << >>]]
        /\ work' = [work EXCEPT ![p] = [j \in Jobs |-> Idle]]
        /\ UNCHANGED <<clientVars, live, storeVars, notified, overlapped, timeouts>>
    BY DEF Crash
  <1>3. << >> \in Seq(Request) /\ Idle \in Callback \cup {Idle}
    OBVIOUS
  <1>4. queue' \in [Processes -> [Jobs -> Seq(Request)]]
    BY <1>1, <1>2, <1>3
  <1>5. work' \in [Processes -> [Jobs -> Callback \cup {Idle}]]
    BY <1>1, <1>2, <1>3
  <1>6. \A q \in Processes, k \in Jobs :
            /\ work'[q][k] = IF q = p THEN Idle ELSE work[q][k]
            /\ queue'[q][k] = IF q = p THEN << >> ELSE queue[q][k]
    BY <1>1, <1>2
  <1>7. ASSUME NEW q \in Processes, NEW k \in Jobs, NEW o, NEW t, Queued(q, k, o, t)'
        PROVE  Queued(q, k, o, t)
    <2>1. CASE q = p
      <3>1. queue'[q][k] = << >>
        BY <1>6, <2>1
      <3>2. DOMAIN queue'[q][k] = {}
        BY <3>1
      <3>. QED  BY <1>7, <3>2 DEF Queued
    <2>2. CASE q # p
      BY <1>6, <1>7, <2>2 DEF Queued
    <2>. QED  BY <2>1, <2>2
  <1>. QED  BY <1>2, <1>4, <1>5, <1>6, <1>7

(* What a step of the client leaves.                                       *)
LEMMA TurnFacts ==
    ASSUME Shape, NEW o \in Orders, Turns(o)
    PROVE  /\ order' \in [Orders -> Phases] /\ reply' \in [Orders -> Codes \cup {"none"}]
           /\ event' \subseteq event
           /\ \A x \in Orders \ {o} : order'[x] = order[x] /\ reply'[x] = reply[x]
           /\ UNCHANGED <<tries, queue, work, live, balance, payments, refunds, notified, overlapped>>
           /\ \/ order'[o] = order[o] /\ reply'[o] = "none"
              \/ Waiting(o) /\ reply[o] # "none" /\ order'[o] = Outcome(o) /\ reply'[o] = "none"
              \/ /\ Waiting(o) /\ reply'[o] = "none"
                 /\ order'[o] = IF order[o] = "paying" THEN "unsure" ELSE "owed"
              \/ /\ o \in event /\ order[o] \in {"unsure", "refused", "failed"}
                 /\ order'[o] = "paid" /\ reply'[o] = reply[o]
              \/ order[o] = "paid" /\ order'[o] \in {"served", "owed"} /\ reply'[o] = reply[o]
  <1>1. /\ order \in [Orders -> Phases] /\ reply \in [Orders -> Codes \cup {"none"}]
        /\ Outcome(o) \in Phases
    BY DEF Shape, Outcome, Phases
  <1>2. UNCHANGED <<tries, queue, work, live, balance, payments, refunds, notified, overlapped>>
    BY DEF Turns, storeVars
  <1>3. CASE Receive(o)
    BY <1>1, <1>2, <1>3 DEF Receive
  <1>4. CASE TimeOut(o)
    <2>1. {"unsure", "owed"} \subseteq Phases
      BY DEF Phases
    <2>. QED  BY <1>1, <1>2, <1>4, <2>1 DEF TimeOut
  <1>5. CASE PayCompleted(o)
    BY <1>1, <1>2, <1>5 DEF PayCompleted, Phases
  <1>6. CASE Provision(o)
    BY <1>1, <1>2, <1>6 DEF Provision, Phases
  <1>7. CASE LoseReply(o)
    BY <1>1, <1>2, <1>7 DEF LoseReply
  <1>. QED  BY <1>3, <1>4, <1>5, <1>6, <1>7 DEF Turns

LEMMA ShapeStep ==
    ASSUME Shape, WorkOK, [Next]_vars
    PROVE  Shape'
  <1>1. live' \subseteq Bots /\ timeouts' \in 0..MaxTimeOuts /\ faults' \in 0..MaxFaults
    BY BoundsStep
  <1>. DEFINE Client == /\ order' \in [Orders -> Phases] /\ tries' \in [Orders -> Nat]
                        /\ reply' \in [Orders -> Codes \cup {"none"}] /\ event' \subseteq Orders
              Server == /\ queue' \in [Processes -> [Jobs -> Seq(Request)]]
                        /\ work' \in [Processes -> [Jobs -> Callback \cup {Idle}]]
              Store == /\ balance' \in [Users -> Nat]
                       /\ payments' \in Seq(Booking) /\ refunds' \in Seq(Booking)
              Hist == notified' \in [KeySet -> Nat] /\ overlapped' \subseteq KeySet
  <1>0. /\ UNCHANGED clientVars => Client
        /\ UNCHANGED storeVars => Store
        /\ UNCHANGED <<notified, overlapped>> => Hist
        /\ UNCHANGED <<queue, work>> => Server
    BY DEF clientVars, storeVars, Shape
  <1>2. ASSUME NEW o \in Orders, NEW p \in Processes, NEW j \in Jobs, Sends(o, p, j)
        PROVE  Client /\ Server /\ Store /\ Hist
    <2>1. queue' \in [Processes -> [Jobs -> Seq(Request)]] /\ tries' \in [Orders -> Nat]
      BY <1>2, SendFrame
    <2>2. order' \in [Orders -> Phases]
      BY <1>2 DEF Sends, Shape, Phases
    <2>. QED  BY <1>0, <1>2, <2>1, <2>2 DEF Sends, Shape
  <1>3. ASSUME NEW o \in Orders, Turns(o)
        PROVE  Client /\ Server /\ Store /\ Hist
    BY <1>3, TurnFacts DEF Shape
  <1>4. ASSUME NEW p \in Processes, NEW j \in Jobs, NEW w \in Callback, Starts(p, j, w)
        PROVE  Client /\ Server /\ Store /\ Hist
    <2>1. Server
      BY <1>4, SlotFrame, DropFrame DEF Starts
    <2>2. Key(w.order) \in KeySet
      BY DEF KeySet, Callback
    <2>3. overlapped' \subseteq KeySet
      BY <1>4, <2>2 DEF Starts, Shape
    <2>. QED  BY <1>0, <1>4, <2>1, <2>3 DEF Starts, Shape
  <1>5. ASSUME NEW p \in Processes, NEW j \in Jobs, NEW w \in Callback, Advances(p, j, w)
        PROVE  Client /\ Server /\ Store /\ Hist
    <2>1. Server
      BY <1>5, SlotFrame DEF Advances, Resumes, Shape
    <2>. QED  BY <1>0, <1>5, <2>1 DEF Advances
  <1>6. ASSUME NEW p \in Processes, NEW w \in Callback, Deducts(p, w)
        PROVE  Client /\ Server /\ Store /\ Hist
    <2>1. Server
      BY <1>6, SlotFrame DEF Deducts, Resumes, Shape, Jobs
    <2>2. /\ Nano(w.order) \in Nat /\ User[w.order] \in Users
          /\ [key |-> Key(w.order), amount |-> Nano(w.order)] \in Booking
      BY <1>6, BookingIs DEF Deducts, Resumes, Jobs
    <2>3. payments' \in Seq(Booking)
      BY <1>6, <2>2 DEF Deducts, Shape
    <2>4. balance' \in [Users -> Nat]
      <3>1. balance \in [Users -> Nat]
        BY DEF Shape
      <3>2. /\ balance[User[w.order]] >= Nano(w.order)
            /\ balance' = [balance EXCEPT ![User[w.order]] = @ - Nano(w.order)]
        BY <1>6 DEF Deducts
      <3>. QED  BY <2>2, <3>1, <3>2
    <2>. QED  BY <1>0, <1>6, <2>1, <2>3, <2>4 DEF Deducts, Shape
  <1>7. ASSUME NEW p \in Processes, NEW w \in Callback, Repays(p, w)
        PROVE  Client /\ Server /\ Store /\ Hist
    <2>1. Server
      BY <1>7, SlotFrame DEF Repays, Resumes, Shape, Jobs
    <2>2. /\ Nano(w.order) \in Nat /\ User[w.order] \in Users
          /\ [key |-> Key(w.order), amount |-> Nano(w.order)] \in Booking
      BY <1>7, BookingIs DEF Repays, Resumes, Jobs
    <2>3. refunds' \in Seq(Booking)
      <3>1. refunds \in Seq(Booking)
        BY DEF Shape
      <3>2. \/ refunds' = refunds
            \/ refunds' = Append(refunds, [key |-> Key(w.order), amount |-> Nano(w.order)])
        BY <1>7 DEF Repays
      <3>. QED  BY <2>2, <3>1, <3>2
    <2>4. balance' \in [Users -> Nat]
      <3>1. balance \in [Users -> Nat]
        BY DEF Shape
      <3>2. \/ balance' = balance
            \/ balance' = [balance EXCEPT ![User[w.order]] = @ + Nano(w.order)]
        BY <1>7 DEF Repays
      <3>. QED  BY <2>2, <3>1, <3>2
    <2>. QED  BY <1>0, <1>7, <2>1, <2>3, <2>4 DEF Repays, Shape
  <1>8. ASSUME NEW p \in Processes, NEW j \in Jobs, Respond(p, j)
        PROVE  Client /\ Server /\ Store /\ Hist
    <2>. DEFINE w == work[p][j]
    <2>1. /\ w \in Callback /\ Puts(p, j, Idle) /\ w.order \in Orders
          /\ notified' = IF w.created THEN [notified EXCEPT ![Key(w.order)] = @ + 1] ELSE notified
          /\ event' = IF Announces(w, j) THEN event \cup {w.order} ELSE event
          /\ reply' = IF Waiting(w.order) /\ tries[w.order] = w.try
                      THEN [reply EXCEPT ![w.order] = w.code] ELSE reply
          /\ UNCHANGED <<order, tries, queue, live, storeVars, overlapped, timeouts>>
      BY <1>8, RespondFacts
    <2>2. Server
      BY <2>1, SlotFrame DEF Shape
    <2>3. reply' \in [Orders -> Codes \cup {"none"}] /\ event' \subseteq Orders
      BY <2>1 DEF Shape, Callback
    <2>4. notified' \in [KeySet -> Nat]
      <3>1. notified \in [KeySet -> Nat] /\ Key(w.order) \in KeySet
        BY <2>1 DEF Shape, KeySet
      <3>2. notified' = notified \/ notified' = [notified EXCEPT ![Key(w.order)] = @ + 1]
        BY <2>1
      <3>. HIDE DEF w
      <3>. QED  BY <3>1, <3>2
    <2>. QED  BY <1>0, <2>1, <2>2, <2>3, <2>4 DEF Shape
  <1>9. ASSUME NEW p \in Processes, NEW j \in Jobs, LoseRequest(p, j)
        PROVE  Client /\ Server /\ Store /\ Hist
    <2>1. Drops(p, j)
      BY <1>9 DEF LoseRequest, Drops
    <2>2. queue' \in [Processes -> [Jobs -> Seq(Request)]]
      BY <2>1, DropFrame
    <2>. QED  BY <1>0, <1>9, <2>2 DEF LoseRequest, Shape
  <1>10. ASSUME NEW p \in Processes, Crash(p)
         PROVE  Client /\ Server /\ Store /\ Hist
    BY <1>0, <1>10, CrashFacts
  <1>11. ASSUME UNCHANGED <<clientVars, queue, work, storeVars, notified, overlapped, timeouts>>
         PROVE  Client /\ Server /\ Store /\ Hist
    BY <1>0, <1>11
  <1>. HIDE DEF Client, Server, Store, Hist
  <1>12. Client /\ Server /\ Store /\ Hist
    BY <1>2, <1>3, <1>4, <1>5, <1>6, <1>7, <1>8, <1>9, <1>10, <1>11, StepKinds DEF StepKind
  <1>. QED  BY <1>1, <1>12 DEF Client, Server, Store, Hist, Shape

(* Rows are never deleted.                                                 *)
LEMMA RowsStay ==
    ASSUME Shape, WorkOK, StepKind
    PROVE  \A o \in Orders : (Paid(o) => Paid(o)') /\ (Repaid(o) => Repaid(o)')
  <1>1. \/ UNCHANGED <<payments, refunds>>
        \/ \E r \in Booking : payments' = Append(payments, r) /\ UNCHANGED refunds
        \/ \E r \in Booking : refunds' = Append(refunds, r) /\ UNCHANGED payments
    <2>1. ASSUME NEW p \in Processes, NEW w \in Callback, Deducts(p, w)
          PROVE  \E r \in Booking : payments' = Append(payments, r) /\ UNCHANGED refunds
      <3>1. [key |-> Key(w.order), amount |-> Nano(w.order)] \in Booking
        BY <2>1, BookingIs DEF Deducts, Resumes, Jobs
      <3>. QED  BY <2>1, <3>1 DEF Deducts
    <2>2. ASSUME NEW p \in Processes, NEW w \in Callback, Repays(p, w)
          PROVE  \/ UNCHANGED <<payments, refunds>>
                 \/ \E r \in Booking : refunds' = Append(refunds, r) /\ UNCHANGED payments
      <3>1. [key |-> Key(w.order), amount |-> Nano(w.order)] \in Booking
        BY <2>2, BookingIs DEF Repays, Resumes, Jobs
      <3>. QED  BY <2>2, <3>1 DEF Repays
    <2>3. CASE UNCHANGED storeVars
      BY <2>3 DEF storeVars
    <2>. QED
      BY <2>1, <2>2, <2>3 DEF StepKind, Sends, Turns, Starts, Advances, Respond, LoseRequest, Crash
  <1>2. ASSUME NEW rows \in Seq(Booking), NEW r \in Booking, NEW k, RowsOf(rows, k) # {}
        PROVE  RowsOf(Append(rows, r), k) # {}
    BY <1>2, RowsAppend
  <1>3. payments \in Seq(Booking) /\ refunds \in Seq(Booking)
    BY DEF Shape
  <1>4. ASSUME NEW o \in Orders  PROVE (Paid(o) => Paid(o)') /\ (Repaid(o) => Repaid(o)')
    <2>1. Key(o)' = Key(o)
      BY DEF Key
    <2>. QED  BY <1>1, <1>2, <1>3, <2>1 DEF Paid, Repaid
  <1>. QED  BY <1>4

-----------------------------------------------------------------------------
(* Where a request comes from.                                             *)

LEMMA QueueSource ==
    ASSUME Shape, StepKind, NEW q \in Processes, NEW k \in Jobs, NEW o \in Orders, NEW t \in Nat,
           Queued(q, k, o, t)'
    PROVE  Queued(q, k, o, t) \/ (Sends(o, q, k) /\ t = tries[o] + 1)
  <1>1. ASSUME NEW x \in Orders, NEW p \in Processes, NEW j \in Jobs, Sends(x, p, j)
        PROVE  Queued(q, k, o, t) \/ (Sends(o, q, k) /\ t = tries[o] + 1)
    <2>1. \/ Queued(q, k, o, t)
          \/ q = p /\ k = j /\ o = x /\ t = tries[x] + 1
      BY <1>1, SendQueued
    <2>. QED  BY <1>1, <2>1, Zenon
  <1>2. ASSUME NEW p \in Processes, NEW j \in Jobs, Drops(p, j)  PROVE Queued(q, k, o, t)
    BY <1>2, DropFrame
  <1>3. ASSUME NEW p \in Processes, Crash(p)  PROVE Queued(q, k, o, t)
    BY <1>3, CrashFacts
  <1>4. CASE UNCHANGED queue
    BY <1>4 DEF Queued
  <1>. QED
    BY <1>1, <1>2, <1>3, <1>4 DEF StepKind, Turns, Starts, Advances, Deducts, Repays, Respond,
       LoseRequest, Drops

LEMMA WorkSource ==
    ASSUME Shape, StepKind, NEW q \in Processes, NEW k \in Jobs, work'[q][k] # Idle
    PROVE  \/ /\ work[q][k] # Idle
              /\ work'[q][k].order = work[q][k].order /\ work'[q][k].try = work[q][k].try
           \/ /\ work[q][k] = Idle
              /\ Queued(q, k, work'[q][k].order, work'[q][k].try)
              /\ \E w \in Callback : w = work'[q][k] /\ Starts(q, k, w)
  <1>. DEFINE Kept == /\ work[q][k] # Idle
                      /\ work'[q][k].order = work[q][k].order
                      /\ work'[q][k].try = work[q][k].try
              New == /\ work[q][k] = Idle
                     /\ Queued(q, k, work'[q][k].order, work'[q][k].try)
                     /\ \E w \in Callback : w = work'[q][k] /\ Starts(q, k, w)
  <1>1. CASE work'[q][k] = work[q][k]
    BY <1>1
  <1>2. ASSUME NEW p \in Processes, NEW j \in Jobs, NEW w \in Callback, Starts(p, j, w)
        PROVE  Kept \/ New
    <2>1. CASE q = p /\ k = j
      <3>1. Puts(q, k, w) /\ Drops(q, k) /\ work[q][k] = Idle
            /\ [order |-> w.order, try |-> w.try] = Head(queue[q][k])
        BY <1>2, <2>1 DEF Starts
      <3>2. work'[q][k] = w
        BY <3>1, SlotFrame
      <3>3. Queued(q, k, w.order, w.try)
        BY <3>1, DropFrame, Zenon
      <3>. QED  BY <1>2, <2>1, <3>1, <3>2, <3>3
    <2>2. CASE q # p \/ k # j
      BY <1>1, <1>2, <2>2, SlotFrame DEF Starts
    <2>. QED  BY <2>1, <2>2
  <1>3. ASSUME NEW p \in Processes, NEW j \in Jobs, NEW w \in Callback, Resumes(p, j, w)
        PROVE  Kept \/ New
    <2>1. CASE q = p /\ k = j
      BY <1>3, <2>1, SlotFrame, SlotIs DEF Resumes
    <2>2. CASE q # p \/ k # j
      BY <1>1, <1>3, <2>2, SlotFrame DEF Resumes
    <2>. QED  BY <2>1, <2>2
  <1>4. ASSUME NEW p \in Processes, NEW j \in Jobs, Respond(p, j)  PROVE Kept \/ New
    <2>1. Puts(p, j, Idle)
      BY <1>4, RespondFacts
    <2>. QED  BY <1>1, <2>1, SlotFrame
  <1>5. ASSUME NEW p \in Processes, Crash(p)  PROVE Kept \/ New
    BY <1>1, <1>5, CrashFacts
  <1>6. ASSUME UNCHANGED work  PROVE Kept \/ New
    BY <1>1, <1>6
  <1>7. "deduct" \in Jobs /\ "credit" \in Jobs
    BY DEF Jobs
  <1>. HIDE DEF Kept, New
  <1>8. Kept \/ New
    <2>1. ASSUME NEW p \in Processes, NEW w \in Callback,
                 \/ Deducts(p, w) \/ Repays(p, w)
                 \/ \E j \in Jobs : Advances(p, j, w)
          PROVE  Kept \/ New
      BY <1>3, <1>7, <2>1 DEF Deducts, Repays, Advances
    <2>2. ASSUME \/ \E o \in Orders, p \in Processes, j \in Jobs : Sends(o, p, j)
                 \/ \E o \in Orders : Turns(o)
                 \/ \E p \in Processes, j \in Jobs : LoseRequest(p, j)
                 \/ UNCHANGED <<clientVars, queue, work, storeVars, notified, overlapped, timeouts>>
          PROVE  Kept \/ New
      BY <1>6, <2>2 DEF Sends, Turns, LoseRequest
    <2>. QED  BY <1>2, <1>4, <1>5, <2>1, <2>2 DEF StepKind
  <1>. QED  BY <1>8 DEF Kept, New

LEMMA ClientSource ==
    ASSUME Shape, StepKind, NEW o \in Orders
    PROVE  /\ tries'[o] \in Nat /\ tries[o] \in Nat /\ tries[o] <= tries'[o]
           /\ \/ order'[o] = order[o] /\ tries'[o] = tries[o]
              \/ Turns(o) /\ tries'[o] = tries[o]
              \/ /\ tries'[o] = tries[o] + 1
                 /\ \E p \in Processes, j \in Jobs : Sends(o, p, j)
  <1>0. tries \in [Orders -> Nat] /\ order \in [Orders -> Phases]
    BY DEF Shape
  <1>1. ASSUME NEW x \in Orders, NEW p \in Processes, NEW j \in Jobs, Sends(x, p, j)
        PROVE  /\ x # o => order'[o] = order[o] /\ tries'[o] = tries[o]
               /\ x = o => tries'[o] = tries[o] + 1
    BY <1>0, <1>1 DEF Sends
  <1>2. ASSUME NEW x \in Orders, Turns(x)
        PROVE  tries'[o] = tries[o] /\ (x # o => order'[o] = order[o])
    BY <1>2, TurnFacts
  <1>3. CASE UNCHANGED <<order, tries>>
    BY <1>0, <1>3
  <1>4. CASE \E x \in Orders, p \in Processes, j \in Jobs : Sends(x, p, j)
    BY <1>0, <1>1, <1>4
  <1>5. CASE \E x \in Orders : Turns(x)
    BY <1>0, <1>2, <1>5
  <1>. QED
    BY <1>3, <1>4, <1>5 DEF StepKind, Starts, Advances, Deducts, Repays, Respond, LoseRequest,
       Crash, clientVars

LEMMA TriesStep ==
    ASSUME Shape, TriesOK, StepKind, Shape'
    PROVE  TriesOK'
  <1>1. ASSUME NEW p \in Processes, NEW j \in Jobs, NEW o \in Orders, NEW t \in Nat,
               Queued(p, j, o, t)'
        PROVE  t \in 1..tries'[o]
    <2>1. CASE Queued(p, j, o, t)
      BY <2>1, ClientSource DEF TriesOK
    <2>2. CASE Sends(o, p, j) /\ t = tries[o] + 1
      <3>1. tries'[o] = tries[o] + 1
        BY <2>2, SendFrame
      <3>2. tries[o] \in Nat
        BY DEF Shape
      <3>. QED  BY <2>2, <3>1, <3>2
    <2>. QED  BY <1>1, <2>1, <2>2, QueueSource
  <1>2. ASSUME NEW p \in Processes, NEW j \in Jobs, work'[p][j] # Idle
        PROVE  work'[p][j].try \in 1..tries'[work'[p][j].order]
    <2>. DEFINE w == work'[p][j]
    <2>1. w \in Callback
      BY <1>2 DEF Shape
    <2>2. w.order \in Orders /\ w.try \in Nat
      BY <2>1 DEF Callback
    <2>3. w.try \in 1..tries[w.order]
      BY <1>2, <2>2, WorkSource DEF TriesOK
    <2>. HIDE DEF w
    <2>4. tries[w.order] \in Nat /\ tries'[w.order] \in Nat /\ tries[w.order] <= tries'[w.order]
      BY <2>2, ClientSource
    <2>5. w.try \in 1..tries'[w.order]
      BY <2>2, <2>3, <2>4
    <2>. QED  BY <2>5 DEF w
  <1>. QED  BY <1>1, <1>2 DEF TriesOK

LEMMA KindsStep ==
    ASSUME Shape, TriesOK, KindsOK, StepKind, Shape'
    PROVE  KindsOK'
  <1>0. "deduct" \in Jobs /\ "credit" \in Jobs /\ "deduct" # "credit"
    BY DEF Jobs
  <1>1. ASSUME NEW o \in Orders, order[o] \in Returning  PROVE order'[o] \in Returning
    <2>1. ASSUME Turns(o)  PROVE order'[o] \in Returning
      BY <1>1, <2>1, TurnFacts DEF Returning, Outcome, Waiting
    <2>2. ASSUME NEW p \in Processes, NEW j \in Jobs, Sends(o, p, j)
          PROVE  order'[o] \in Returning
      BY <1>1, <2>2 DEF Sends, Returning, Shape
    <2>. QED  BY <1>1, <2>1, <2>2, ClientSource
  <1>2. ASSUME NEW p \in Processes, NEW o \in Orders, NEW t \in Nat, Queued(p, "credit", o, t)'
        PROVE  order'[o] \in Returning
    <2>1. CASE Queued(p, "credit", o, t)
      BY <1>1, <2>1 DEF KindsOK
    <2>2. CASE Sends(o, p, "credit")
      BY <1>0, <2>2 DEF Sends, Returning, Shape
    <2>. QED  BY <1>0, <1>2, <2>1, <2>2, QueueSource
  <1>3. ASSUME NEW p \in Processes, NEW o \in Orders, Works(p, "credit", o)'
        PROVE  order'[o] \in Returning
    <2>1. work'[p]["credit"] \in Callback /\ work'[p]["credit"].order = o
      BY <1>0, <1>3 DEF Shape, Works
    <2>2. work'[p]["credit"].try \in Nat
      BY <2>1 DEF Callback
    <2>3. order[o] \in Returning
      BY <1>0, <1>3, <2>1, <2>2, WorkSource DEF KindsOK, Works
    <2>. QED  BY <1>1, <2>3
  <1>4. ASSUME NEW o \in Orders, order'[o] = "refunding"
        PROVE  \/ order[o] = "refunding" /\ tries'[o] = tries[o]
               \/ /\ tries'[o] = tries[o] + 1
                  /\ \A p \in Processes : ~Sends(o, p, "deduct")
    <2>1. ASSUME Turns(o)  PROVE order[o] = "refunding"
      BY <1>4, <2>1, TurnFacts DEF Outcome
    <2>2. ASSUME NEW p \in Processes, Sends(o, p, "deduct")  PROVE FALSE
      BY <1>4, <2>2 DEF Sends, Shape
    <2>. QED  BY <1>4, <2>1, <2>2, ClientSource
  <1>5. ASSUME NEW p \in Processes, NEW o \in Orders, order'[o] = "refunding"
        PROVE  ~Queued(p, "deduct", o, tries[o])'
    <2>1. tries[o] \in Nat /\ tries'[o] \in Nat
      BY ClientSource
    <2>2. SUFFICES ASSUME NEW t \in Nat, t = tries'[o], Queued(p, "deduct", o, t)'
                   PROVE  FALSE
      BY <2>1 DEF Queued
    <2>3. Queued(p, "deduct", o, t) \/ Sends(o, p, "deduct")
      BY <1>0, <2>2, QueueSource
    <2>4. CASE order[o] = "refunding" /\ tries'[o] = tries[o]
      <3>1. ~Sends(o, p, "deduct")
        BY <2>4 DEF Sends
      <3>. QED  BY <2>2, <2>3, <2>4, <3>1 DEF KindsOK
    <2>5. CASE tries'[o] = tries[o] + 1 /\ ~Sends(o, p, "deduct")
      <3>1. t \in 1..tries[o]
        BY <1>0, <2>3, <2>5 DEF TriesOK
      <3>. QED  BY <2>1, <2>2, <2>5, <3>1
    <2>. QED  BY <1>4, <1>5, <2>4, <2>5
  <1>6. ASSUME NEW p \in Processes, NEW o \in Orders, order'[o] = "refunding",
               Works(p, "deduct", o)'
        PROVE  work'[p]["deduct"].try # tries'[o]
    <2>. DEFINE t == work'[p]["deduct"].try
    <2>1. work'[p]["deduct"] \in Callback /\ work'[p]["deduct"].order = o
      BY <1>0, <1>6 DEF Shape, Works
    <2>2. t \in Nat /\ tries[o] \in Nat
      BY <2>1, ClientSource DEF Callback
    <2>3. \/ Works(p, "deduct", o) /\ work[p]["deduct"].try = t
          \/ Queued(p, "deduct", o, t)
      BY <1>0, <1>6, <2>1, WorkSource DEF Works
    <2>4. t \in 1..tries[o]
      BY <1>0, <2>2, <2>3 DEF TriesOK, Works
    <2>5. order[o] = "refunding" => t # tries[o]
      BY <2>3 DEF KindsOK
    <2>. HIDE DEF t
    <2>6. t # tries'[o]
      BY <1>4, <1>6, <2>2, <2>4, <2>5
    <2>. QED  BY <2>6 DEF t
  <1>7. ASSUME NEW p \in Processes, NEW o \in Orders
        PROVE  /\ (\E t \in Nat : Queued(p, "credit", o, t)') => order'[o] \in Returning
               /\ Works(p, "credit", o)' => order'[o] \in Returning
               /\ order'[o] = "refunding" => ~Queued(p, "deduct", o, tries[o])'
               /\ order'[o] = "refunding" /\ Works(p, "deduct", o)' =>
                     work'[p]["deduct"].try # tries'[o]
    BY <1>2, <1>3, <1>5, <1>6
  <1>. QED  BY <1>7 DEF KindsOK

(* A commit leaves its row.                                                *)
LEMMA CommitRows ==
    ASSUME Shape, WorkOK, NEW p \in Processes, NEW w \in Callback
    PROVE  /\ Deducts(p, w) => Paid(w.order)'
           /\ Repays(p, w) => Repaid(w.order)'
  <1>0. payments \in Seq(Booking) /\ refunds \in Seq(Booking) /\ "deduct" \in Jobs /\ "credit" \in Jobs
    BY DEF Shape, Jobs
  <1>. DEFINE r == [key |-> Key(w.order), amount |-> Nano(w.order)]
  <1>1. ASSUME Deducts(p, w)  PROVE Paid(w.order)'
    <2>1. r \in Booking /\ payments' = Append(payments, r) /\ r.key = Key(w.order)
      BY <1>0, <1>1, BookingIs DEF Deducts, Resumes
    <2>. HIDE DEF r
    <2>2. Len(payments) + 1 \in RowsOf(payments', Key(w.order))
      BY <1>0, <2>1, RowsAppend
    <2>. QED  BY <2>2 DEF Paid
  <1>2. ASSUME Repays(p, w)  PROVE Repaid(w.order)'
    <2>1. CASE Repaid(w.order) /\ UNCHANGED refunds
      BY <2>1 DEF Repaid
    <2>2. CASE refunds' = Append(refunds, r)
      <3>1. r \in Booking /\ r.key = Key(w.order)
        BY <1>0, <1>2, BookingIs DEF Repays, Resumes
      <3>. HIDE DEF r
      <3>2. Len(refunds) + 1 \in RowsOf(refunds', Key(w.order))
        BY <1>0, <2>2, <3>1, RowsAppend
      <3>. QED  BY <3>2 DEF Repaid
    <2>. QED  BY <1>2, <2>1, <2>2 DEF Repays
  <1>. QED  BY <1>1, <1>2

LEMMA WorkStep ==
    ASSUME Shape, WorkOK, StepKind, Shape'
    PROVE  WorkOK'
  <1>. DEFINE OK(w, k) ==
                 /\ w.step # "answer" => Payable(w.order) /\ ~w.created
                 /\ w.step = "answer" => w.code \in Codes
                 /\ k = "credit" => ~w.created /\ w.step \in {"commit", "answer"}
                 /\ w.created => w.code = "success"
                 /\ w.step = "answer" /\ w.code = "success" =>
                       IF k = "deduct" THEN Paid(w.order)' ELSE Repaid(w.order)'
  <1>0. "deduct" \in Jobs /\ "credit" \in Jobs /\ "deduct" # "credit"
        /\ \A j \in Jobs : j = "deduct" \/ j = "credit"
    BY DEF Jobs
  <1>1. SUFFICES ASSUME NEW q \in Processes, NEW k \in Jobs, NEW v, v = work'[q][k], v # Idle
                 PROVE  OK(v, k)
    BY DEF WorkOK, ValidAmount, Paid, Repaid, Key
  <1>2. ASSUME work'[q][k] = work[q][k]  PROVE OK(v, k)
    <2>1. work[q][k] \in Callback
      BY <1>1, <1>2, SlotIs
    <2>2. work[q][k].order \in Orders
      BY <2>1 DEF Callback
    <2>3. /\ Paid(v.order) => Paid(v.order)'
          /\ Repaid(v.order) => Repaid(v.order)'
      BY <1>1, <1>2, <2>2, RowsStay
    <2>. QED  BY <1>1, <1>2, <2>3 DEF WorkOK
  <1>3. ASSUME NEW p \in Processes, NEW j \in Jobs, NEW w \in Callback, Starts(p, j, w)
        PROVE  OK(v, k)
    <2>1. CASE q = p /\ k = j
      <3>1. v = w
        BY <1>1, <1>3, <2>1, SlotFrame DEF Starts
      <3>. QED  BY <1>0, <1>3, <2>1, <3>1 DEF Starts, Codes
    <2>2. CASE q # p \/ k # j
      BY <1>2, <1>3, <2>2, SlotFrame DEF Starts
    <2>. QED  BY <2>1, <2>2
  <1>4. ASSUME NEW p \in Processes, NEW j \in Jobs, NEW w \in Callback, Advances(p, j, w)
        PROVE  OK(v, k)
    <2>1. CASE q = p /\ k = j
      <3>1. v = w /\ work[q][k] \in Callback /\ work[q][k] # Idle
        BY <1>1, <1>4, <2>1, SlotFrame, SlotIs DEF Advances, Resumes
      <3>2. Payable(w.order) /\ ~w.created
        BY <1>4, <2>1, <3>1 DEF WorkOK, Advances, Resumes
      <3>3. w.step = "answer" /\ w.code = "success" => k = "deduct" /\ Paid(w.order)
        BY <1>4, <2>1 DEF Advances
      <3>4. Paid(w.order) => Paid(w.order)'
        BY RowsStay DEF Callback
      <3>5. /\ w.step = "answer" => w.code \in Codes
            /\ k = "credit" => w.step = "answer"
        BY <1>0, <1>4, <2>1 DEF Advances, Codes
      <3>. QED  BY <3>1, <3>2, <3>3, <1>1, <3>4, <3>5
    <2>2. CASE q # p \/ k # j
      BY <1>2, <1>4, <2>2, SlotFrame DEF Advances, Resumes
    <2>. QED  BY <2>1, <2>2
  <1>5. ASSUME NEW p \in Processes, NEW w \in Callback, Deducts(p, w)  PROVE OK(v, k)
    <2>1. CASE q = p /\ k = "deduct"
      <3>0. Puts(p, "deduct", w) /\ work[p]["deduct"] \in Callback
        BY <1>5 DEF Deducts, Resumes
      <3>1. v = w /\ work[q][k] \in Callback /\ work[q][k] # Idle
        <4>1. work'[p]["deduct"] = w
          BY <1>0, <3>0, SlotFrame
        <4>2. work[p]["deduct"] # Idle
          BY <1>0, <3>0, SlotIs
        <4>. QED  BY <1>1, <2>1, <3>0, <4>1, <4>2
      <3>2. /\ w.step = "answer" /\ w.code \in Codes /\ (w.created => w.code = "success")
        BY <1>0, <1>5, <2>1, <3>1 DEF Deducts, WorkOK, Codes
      <3>3. Paid(v.order)'
        BY <1>5, <3>1, CommitRows
      <3>. QED  BY <1>0, <1>1, <2>1, <3>1, <3>2, <3>3
    <2>2. CASE q # p \/ k # "deduct"
      <3>1. Puts(p, "deduct", w)
        BY <1>5 DEF Deducts, Resumes
      <3>2. work'[q][k] = work[q][k]
        BY <1>0, <2>2, <3>1, SlotFrame
      <3>. QED  BY <1>2, <3>2
    <2>. QED  BY <2>1, <2>2
  <1>6. ASSUME NEW p \in Processes, NEW w \in Callback, Repays(p, w)  PROVE OK(v, k)
    <2>1. CASE q = p /\ k = "credit"
      <3>0. Puts(p, "credit", w) /\ work[p]["credit"] \in Callback
        BY <1>6 DEF Repays, Resumes
      <3>1. v = w /\ work[q][k] \in Callback /\ work[q][k] # Idle
        <4>1. work'[p]["credit"] = w
          BY <1>0, <3>0, SlotFrame
        <4>2. work[p]["credit"] # Idle
          BY <1>0, <3>0, SlotIs
        <4>. QED  BY <1>1, <2>1, <3>0, <4>1, <4>2
      <3>2. w.step = "answer" /\ w.code \in Codes /\ ~w.created
        BY <1>0, <1>6, <2>1, <3>1 DEF Repays, WorkOK, Codes
      <3>3. Repaid(v.order)'
        BY <1>6, <3>1, CommitRows
      <3>. QED  BY <1>0, <1>1, <2>1, <3>1, <3>2, <3>3
    <2>2. CASE q # p \/ k # "credit"
      <3>1. Puts(p, "credit", w)
        BY <1>6 DEF Repays, Resumes
      <3>2. work'[q][k] = work[q][k]
        BY <1>0, <2>2, <3>1, SlotFrame
      <3>. QED  BY <1>2, <3>2
    <2>. QED  BY <2>1, <2>2
  <1>7. ASSUME NEW p \in Processes, NEW j \in Jobs, Respond(p, j)  PROVE OK(v, k)
    <2>1. Puts(p, j, Idle)
      BY <1>7, RespondFacts
    <2>. HIDE DEF OK
    <2>. QED  BY <1>1, <1>2, <2>1, SlotFrame
  <1>8. ASSUME NEW p \in Processes, Crash(p)  PROVE OK(v, k)
    <2>. HIDE DEF OK
    <2>. QED  BY <1>1, <1>2, <1>8, CrashFacts
  <1>9. ASSUME UNCHANGED work  PROVE OK(v, k)
    <2>. HIDE DEF OK
    <2>. QED  BY <1>2, <1>9
  <1>. HIDE DEF OK
  <1>10. ASSUME \/ \E o \in Orders, p \in Processes, j \in Jobs : Sends(o, p, j)
                \/ \E o \in Orders : Turns(o)
                \/ \E p \in Processes, j \in Jobs : LoseRequest(p, j)
                \/ UNCHANGED <<clientVars, queue, work, storeVars, notified, overlapped, timeouts>>
         PROVE  OK(v, k)
    BY <1>9, <1>10 DEF Sends, Turns, LoseRequest
  <1>. QED  BY <1>3, <1>4, <1>5, <1>6, <1>7, <1>8, <1>10 DEF StepKind

(* What the client is told is so.                                          *)
LEMMA ToldStep ==
    ASSUME Shape, WorkOK, KindsOK, ToldOK, StepKind, Shape'
    PROVE  ToldOK'
  <1>. DEFINE Told(o) ==
                 /\ order'[o] \notin {"paying", "refunding"} => reply'[o] = "none"
                 /\ order'[o] = "paying" /\ reply'[o] = "success" => Paid(o)'
                 /\ order'[o] = "refunding" /\ reply'[o] = "success" => Repaid(o)'
                 /\ order'[o] \in Confirmed => Paid(o)'
                 /\ o \in event' => Paid(o)'
                 /\ order'[o] = "refunded" => Repaid(o)'
  <1>0. order \in [Orders -> Phases] /\ reply \in [Orders -> Codes \cup {"none"}]
        /\ "deduct" \in Jobs /\ "credit" \in Jobs /\ \A j \in Jobs : j = "deduct" \/ j = "credit"
    BY DEF Shape, Jobs
  <1>1. SUFFICES ASSUME NEW o \in Orders  PROVE Told(o)
    BY DEF ToldOK, Waiting
  <1>2. (Paid(o) => Paid(o)') /\ (Repaid(o) => Repaid(o)')
    BY RowsStay
  <1>3. /\ order[o] \notin {"paying", "refunding"} => reply[o] = "none"
        /\ order[o] = "paying" /\ reply[o] = "success" => Paid(o)
        /\ order[o] = "refunding" /\ reply[o] = "success" => Repaid(o)
        /\ order[o] \in Confirmed => Paid(o)
        /\ o \in event => Paid(o)
        /\ order[o] = "refunded" => Repaid(o)
    BY DEF ToldOK, Waiting
  <1>4. ASSUME order'[o] = order[o], reply'[o] \in {reply[o], "none"}, event' \subseteq event
        PROVE  Told(o)
    BY <1>2, <1>3, <1>4
  <1>5. ASSUME NEW x \in Orders, NEW p \in Processes, NEW j \in Jobs, Sends(x, p, j)
        PROVE  Told(o)
    <2>1. reply'[o] = reply[o] /\ event' = event
      BY <1>5 DEF Sends
    <2>2. CASE o # x
      <3>1. order'[o] = order[o]
        BY <1>0, <1>5, <2>2 DEF Sends
      <3>. QED  BY <1>4, <2>1, <3>1
    <2>3. CASE o = x
      <3>1. \/ order[o] \in {"new", "unsure"} /\ order'[o] = "paying"
            \/ order[o] = "owed" /\ order'[o] = "refunding"
        BY <1>0, <1>5, <2>3 DEF Sends
      <3>. QED  BY <1>2, <1>3, <2>1, <3>1 DEF Confirmed
    <2>. QED  BY <2>2, <2>3
  <1>6. ASSUME NEW x \in Orders, Turns(x)  PROVE Told(o)
    <2>1. event' \subseteq event
      BY <1>6, TurnFacts
    <2>2. CASE o # x
      <3>1. order'[o] = order[o] /\ reply'[o] = reply[o]
        BY <1>6, <2>2, TurnFacts
      <3>. QED  BY <1>4, <2>1, <3>1
    <2>3. CASE o = x
      <3>. DEFINE Told1 == \/ order'[o] = order[o] /\ reply'[o] = "none"
                  Told2 == Waiting(o) /\ reply[o] # "none" /\ order'[o] = Outcome(o) /\ reply'[o] = "none"
                  Told3 == /\ Waiting(o) /\ reply'[o] = "none"
                           /\ order'[o] = IF order[o] = "paying" THEN "unsure" ELSE "owed"
                  Told4 == /\ o \in event /\ order[o] \in {"unsure", "refused", "failed"}
                           /\ order'[o] = "paid" /\ reply'[o] = reply[o]
                  Told5 == order[o] = "paid" /\ order'[o] \in {"served", "owed"} /\ reply'[o] = reply[o]
      <3>0. Told1 \/ Told2 \/ Told3 \/ Told4 \/ Told5
        BY <1>6, <2>3, TurnFacts
      <3>1. CASE Told1
        BY <1>4, <2>1, <3>1
      <3>2. CASE Told2
        <4>1. \/ order[o] = "paying" /\ reply[o] = "success" /\ order'[o] = "paid"
              \/ order[o] = "paying" /\ order'[o] \in {"refused", "failed"}
              \/ order[o] = "refunding" /\ reply[o] = "success" /\ order'[o] = "refunded"
              \/ order[o] = "refunding" /\ order'[o] \in {"stranded", "owed"}
          <5>1. order[o] = "paying" \/ order[o] = "refunding"
            BY <3>2 DEF Waiting
          <5>2. order'[o] = Outcome(o)
            BY <3>2
          <5>3. CASE order[o] = "paying"
            <6>1. CASE reply[o] = "success"
              BY <5>2, <5>3, <6>1 DEF Outcome
            <6>2. CASE reply[o] = "insufficient"
              BY <5>2, <5>3, <6>2 DEF Outcome
            <6>3. CASE reply[o] \notin {"success", "insufficient"}
              BY <5>2, <5>3, <6>3 DEF Outcome
            <6>. QED  BY <5>3, <6>1, <6>2, <6>3
          <5>4. CASE order[o] = "refunding"
            BY <5>2, <5>4 DEF Outcome
          <5>. QED  BY <5>1, <5>3, <5>4
        <4>. QED  BY <1>2, <1>3, <2>1, <3>2, <4>1 DEF Confirmed
      <3>3. CASE Told3
        <4>1. \/ order'[o] = "unsure"
              \/ order[o] = "refunding" /\ order'[o] = "owed"
          BY <3>3 DEF Waiting
        <4>. QED  BY <1>2, <1>3, <2>1, <3>3, <4>1 DEF Confirmed
      <3>4. CASE Told4
        BY <1>2, <1>3, <2>1, <3>4 DEF Confirmed
      <3>5. CASE Told5
        BY <1>2, <1>3, <2>1, <3>5 DEF Confirmed
      <3>. QED  BY <3>0, <3>1, <3>2, <3>3, <3>4, <3>5
    <2>. QED  BY <2>2, <2>3
  <1>7. ASSUME NEW p \in Processes, NEW j \in Jobs, Respond(p, j)  PROVE Told(o)
    <2>. DEFINE w == work[p][j]
    <2>1. /\ w \in Callback /\ w # Idle /\ w.step = "answer" /\ w.order \in Orders
          /\ event' = IF Announces(w, j) THEN event \cup {w.order} ELSE event
          /\ reply' = IF Waiting(w.order) /\ tries[w.order] = w.try
                      THEN [reply EXCEPT ![w.order] = w.code] ELSE reply
          /\ order' = order /\ tries' = tries
      BY <1>7, RespondFacts
    <2>2. w.code = "success" => IF j = "deduct" THEN Paid(w.order) ELSE Repaid(w.order)
      BY <2>1 DEF WorkOK
    <2>3. w.order = o /\ w.code = "success" /\ Waiting(o) /\ tries[o] = w.try =>
             \/ order[o] = "paying" /\ Paid(o)
             \/ order[o] = "refunding" /\ Repaid(o)
      <3>1. CASE j = "deduct"
        BY <2>1, <2>2, <3>1 DEF KindsOK, Works, Waiting
      <3>2. CASE j = "credit"
        <4>1. "paying" \notin Returning
          BY DEF Returning
        <4>2. w.order = o => order[o] \in Returning
          BY <2>1, <3>2 DEF KindsOK, Works
        <4>. QED  BY <2>2, <3>2, <4>1, <4>2 DEF Waiting
      <3>. QED  BY <1>0, <3>1, <3>2
    <2>4. o \in event' => Paid(o)'
      BY <1>2, <1>3, <2>1, <2>2 DEF Announces
    <2>. HIDE DEF w
    <2>5. \/ reply'[o] = reply[o]
          \/ w.order = o /\ Waiting(o) /\ tries[o] = w.try /\ reply'[o] = w.code
      BY <1>0, <2>1
    <2>6. order'[o] = order[o]
      BY <2>1
    <2>. QED  BY <1>2, <1>3, <2>3, <2>4, <2>5, <2>6 DEF Waiting
  <1>8. ASSUME UNCHANGED clientVars  PROVE Told(o)
    <2>1. order'[o] = order[o] /\ reply'[o] = reply[o] /\ event' = event
      BY <1>8 DEF clientVars
    <2>. QED  BY <1>4, <2>1
  <1>. HIDE DEF Told
  <1>9. ASSUME \/ \E p \in Processes, j \in Jobs, w \in Callback : Starts(p, j, w)
               \/ \E p \in Processes, j \in Jobs, w \in Callback : Advances(p, j, w)
               \/ \E p \in Processes, w \in Callback : Deducts(p, w)
               \/ \E p \in Processes, w \in Callback : Repays(p, w)
               \/ \E p \in Processes, j \in Jobs : LoseRequest(p, j)
               \/ \E p \in Processes : Crash(p)
        PROVE  UNCHANGED clientVars
    BY <1>9 DEF Starts, Advances, Deducts, Repays, LoseRequest, Crash
  <1>. QED  BY <1>5, <1>6, <1>7, <1>8, <1>9 DEF StepKind

(* A refund is booked once, and only after its payment.                    *)
LEMMA RefundsStep ==
    ASSUME Shape, WorkOK, KindsOK, ToldOK, RefundsOK, StepKind
    PROVE  RefundsOK'
  <1>0. refunds \in Seq(Booking) /\ payments \in Seq(Booking) /\ "credit" \in Jobs
    BY DEF Shape, Jobs
  <1>1. ASSUME UNCHANGED refunds  PROVE RefundsOK'
    <2>1. \A i, j \in DOMAIN refunds' : refunds'[i].key = refunds'[j].key => i = j
      BY <1>1 DEF RefundsOK
    <2>2. \A o \in Orders : Repaid(o)' => Repaid(o)
      BY <1>1 DEF Repaid
    <2>3. \A o \in Orders : Repaid(o)' => Paid(o)'
      BY <2>2, RowsStay DEF RefundsOK
    <2>. QED  BY <2>1, <2>3 DEF RefundsOK
  <1>2. ASSUME NEW p \in Processes, NEW w \in Callback, Repays(p, w), ~UNCHANGED refunds
        PROVE  RefundsOK'
    <2>. DEFINE r == [key |-> Key(w.order), amount |-> Nano(w.order)]
    <2>1. /\ r \in Booking /\ refunds' = Append(refunds, r) /\ r.key = Key(w.order)
          /\ ~Repaid(w.order) /\ w.order \in Orders
      BY <1>0, <1>2, BookingIs DEF Repays, Resumes
    <2>2. Paid(w.order)
      <3>1. work[p]["credit"] # Idle /\ work[p]["credit"].order = w.order
        BY <1>0, <1>2, SlotIs DEF Repays, Resumes
      <3>2. order[w.order] \in Returning
        BY <2>1, <3>1 DEF KindsOK, Works
      <3>3. Returning \subseteq Confirmed
        BY DEF Returning, Confirmed
      <3>. QED  BY <2>1, <3>2, <3>3 DEF ToldOK
    <2>. HIDE DEF r
    <2>3. /\ \A k : RowsOf(refunds', k) = IF r.key = k THEN RowsOf(refunds, k) \cup {Len(refunds) + 1}
                                         ELSE RowsOf(refunds, k)
          /\ \A i \in DOMAIN refunds : refunds'[i] = refunds[i]
          /\ DOMAIN refunds' = DOMAIN refunds \cup {Len(refunds) + 1}
          /\ refunds'[Len(refunds) + 1] = r
      BY <1>0, <2>1, RowsAppend
    <2>4. \A i \in DOMAIN refunds : refunds[i].key # r.key
      BY <2>1 DEF Repaid, RowsOf
    <2>5. \A i, j \in DOMAIN refunds' : refunds'[i].key = refunds'[j].key => i = j
      BY <2>3, <2>4 DEF RefundsOK
    <2>6. ASSUME NEW o \in Orders, Repaid(o)'  PROVE Paid(o)'
      <3>1. CASE Key(o) = Key(w.order)
        <4>1. Paid(o)
          BY <2>2, <3>1 DEF Paid
        <4>. QED  BY <4>1, RowsStay
      <3>2. CASE Key(o) # Key(w.order)
        <4>1. Repaid(o)
          BY <2>1, <2>3, <2>6, <3>2 DEF Repaid
        <4>. QED  BY <4>1, RowsStay DEF RefundsOK
      <3>. QED  BY <3>1, <3>2
    <2>. QED  BY <2>5, <2>6 DEF RefundsOK
  <1>3. UNCHANGED refunds \/ \E p \in Processes, w \in Callback : Repays(p, w)
    BY DEF StepKind, Sends, Turns, Starts, Advances, Deducts, Respond, LoseRequest, Crash, storeVars
  <1>. QED  BY <1>1, <1>2, <1>3

(* What a step may do to one slot.                                         *)
LEMMA SlotStep ==
    ASSUME Shape, StepKind, NEW q \in Processes, NEW k \in Jobs
    PROVE  \/ work'[q][k] = work[q][k]
           \/ work'[q][k] = Idle /\ (Respond(q, k) \/ Crash(q))
           \/ \E w \in Callback : /\ w = work'[q][k]
                                  /\ \/ Starts(q, k, w) \/ Advances(q, k, w)
                                     \/ k = "deduct" /\ Deducts(q, w)
                                     \/ k = "credit" /\ Repays(q, w)
  <1>. DEFINE Moved(w) == \/ Starts(q, k, w) \/ Advances(q, k, w)
                          \/ k = "deduct" /\ Deducts(q, w)
                          \/ k = "credit" /\ Repays(q, w)
              Goal == \/ work'[q][k] = work[q][k]
                      \/ work'[q][k] = Idle /\ (Respond(q, k) \/ Crash(q))
                      \/ \E w \in Callback : w = work'[q][k] /\ Moved(w)
  <1>0. "deduct" \in Jobs /\ "credit" \in Jobs
    BY DEF Jobs
  <1>1. ASSUME NEW p \in Processes, NEW j \in Jobs, NEW w \in Callback, Puts(p, j, w),
               q = p /\ k = j => Moved(w)
        PROVE  Goal
    <2>. HIDE DEF Moved
    <2>1. CASE q = p /\ k = j
      BY <1>1, <2>1, SlotFrame
    <2>2. CASE q # p \/ k # j
      BY <1>1, <2>2, SlotFrame
    <2>. QED  BY <2>1, <2>2
  <1>2. ASSUME NEW p \in Processes, NEW j \in Jobs, NEW w \in Callback,
               Starts(p, j, w) \/ Advances(p, j, w)
        PROVE  Goal
    <2>1. Puts(p, j, w)
      BY <1>2 DEF Starts, Advances, Resumes
    <2>2. q = p /\ k = j => Moved(w)
      BY <1>2
    <2>. HIDE DEF Goal, Moved
    <2>. QED  BY <1>1, <2>1, <2>2
  <1>3. ASSUME NEW p \in Processes, NEW w \in Callback, Deducts(p, w)
        PROVE  Goal
    <2>1. Puts(p, "deduct", w)
      BY <1>3 DEF Deducts, Resumes
    <2>2. q = p /\ k = "deduct" => Moved(w)
      BY <1>3
    <2>. HIDE DEF Goal, Moved
    <2>. QED  BY <1>0, <1>1, <2>1, <2>2
  <1>4. ASSUME NEW p \in Processes, NEW w \in Callback, Repays(p, w)
        PROVE  Goal
    <2>1. Puts(p, "credit", w)
      BY <1>4 DEF Repays, Resumes
    <2>2. q = p /\ k = "credit" => Moved(w)
      BY <1>4
    <2>. HIDE DEF Goal, Moved
    <2>. QED  BY <1>0, <1>1, <2>1, <2>2
  <1>. HIDE DEF Moved
  <1>5. ASSUME NEW p \in Processes, NEW j \in Jobs, Respond(p, j)  PROVE Goal
    <2>1. Puts(p, j, Idle)
      BY <1>5, RespondFacts
    <2>. QED  BY <1>5, <2>1, SlotFrame
  <1>6. ASSUME NEW p \in Processes, Crash(p)  PROVE Goal
    <2>1. work'[q][k] = IF q = p THEN Idle ELSE work[q][k]
      BY <1>6, CrashFacts
    <2>. QED  BY <1>6, <2>1
  <1>7. ASSUME \/ \E o \in Orders, p \in Processes, j \in Jobs : Sends(o, p, j)
               \/ \E o \in Orders : Turns(o)
               \/ \E p \in Processes, j \in Jobs : LoseRequest(p, j)
               \/ UNCHANGED <<clientVars, queue, work, storeVars, notified, overlapped, timeouts>>
        PROVE  Goal
    BY <1>7 DEF Sends, Turns, LoseRequest
  <1>8. Goal
    <2>. HIDE DEF Goal
    <2>. QED  BY <1>2, <1>3, <1>4, <1>5, <1>6, <1>7 DEF StepKind
  <1>. QED  BY <1>8 DEF Moved

(* The keys two callbacks met on are never forgotten, and payments only    *)
(* grow by a deduction.                                                    *)
LEMMA BookStep ==
    ASSUME Shape, StepKind
    PROVE  /\ overlapped \subseteq overlapped'
           /\ UNCHANGED payments \/ \E p \in Processes, w \in Callback : Deducts(p, w)
  <1>1. UNCHANGED payments \/ \E p \in Processes, w \in Callback : Deducts(p, w)
    BY DEF StepKind, Sends, Turns, Starts, Advances, Repays, Respond, LoseRequest, Crash, storeVars
  <1>2. overlapped \subseteq overlapped'
    BY DEF StepKind, Sends, Turns, Starts, Advances, Deducts, Repays, Respond, LoseRequest, Crash
  <1>. QED  BY <1>1, <1>2

(* A commit adds one row to its key and ends in its slot.                  *)
LEMMA DeductFacts ==
    ASSUME Shape, WorkOK, NEW q \in Processes, NEW w \in Callback, Deducts(q, w)
    PROVE  /\ work[q]["deduct"] \in Callback /\ work[q]["deduct"] # Idle
           /\ work[q]["deduct"].step = "commit" /\ work[q]["deduct"].order = w.order
           /\ work'[q]["deduct"] = w
           /\ \A p \in Processes : p # q => work'[p]["deduct"] = work[p]["deduct"]
           /\ \A k : Len(payments) + 1 \notin RowsOf(payments, k) /\ IsFiniteSet(RowsOf(payments, k))
           /\ \A k : RowsOf(payments', k) =
                        IF k = Key(w.order) THEN RowsOf(payments, k) \cup {Len(payments) + 1}
                        ELSE RowsOf(payments, k)
  <1>. DEFINE r == [key |-> Key(w.order), amount |-> Nano(w.order)]
  <1>0. "deduct" \in Jobs /\ payments \in Seq(Booking)
    BY DEF Shape, Jobs
  <1>1. /\ work[q]["deduct"] \in Callback /\ work[q]["deduct"].step = "commit"
        /\ work[q]["deduct"].order = w.order /\ Puts(q, "deduct", w)
    BY DEF Deducts, Resumes
  <1>2. r \in Booking /\ payments' = Append(payments, r) /\ r.key = Key(w.order)
    BY <1>0, <1>1, BookingIs DEF Deducts
  <1>. HIDE DEF r
  <1>3. /\ \A k : Len(payments) + 1 \notin RowsOf(payments, k) /\ IsFiniteSet(RowsOf(payments, k))
        /\ \A k : RowsOf(payments', k) =
                     IF k = Key(w.order) THEN RowsOf(payments, k) \cup {Len(payments) + 1}
                     ELSE RowsOf(payments, k)
    BY <1>0, <1>2, RowsAppend
  <1>4. work[q]["deduct"] # Idle
    BY <1>0, <1>1, SlotIs
  <1>5. work'[q]["deduct"] = w
        /\ \A p \in Processes : p # q => work'[p]["deduct"] = work[p]["deduct"]
    BY <1>0, <1>1, SlotFrame
  <1>. QED  BY <1>1, <1>3, <1>4, <1>5

LEMMA OverlapStep ==
    ASSUME Shape, WorkOK, OverlapOK, StepKind
    PROVE  OverlapOK'
  <1>0. "deduct" \in Jobs /\ payments \in Seq(Booking)
    BY DEF Shape, Jobs
  <1>1. SUFFICES ASSUME NEW k \in KeySet \ overlapped'
                 PROVE  /\ \A p, q \in Processes :
                              /\ work'[p]["deduct"] # Idle /\ Key(work'[p]["deduct"].order) = k
                              /\ work'[q]["deduct"] # Idle /\ Key(work'[q]["deduct"].order) = k
                              => p = q
                        /\ \A p \in Processes :
                              work'[p]["deduct"].step = "commit" /\ Key(work'[p]["deduct"].order) = k
                              => RowsOf(payments', k) = {}
                        /\ \A i, j \in RowsOf(payments', k) : i = j
    BY DEF OverlapOK, At, Key
  <1>2. k \in KeySet \ overlapped
    BY BookStep
  <1>3. /\ \A p, q \in Processes :
              /\ work[p]["deduct"] # Idle /\ Key(work[p]["deduct"].order) = k
              /\ work[q]["deduct"] # Idle /\ Key(work[q]["deduct"].order) = k
              => p = q
        /\ \A p \in Processes :
              work[p]["deduct"].step = "commit" /\ Key(work[p]["deduct"].order) = k
              => RowsOf(payments, k) = {}
        /\ \A i, j \in RowsOf(payments, k) : i = j
    BY <1>2 DEF OverlapOK, At
  <1>4. ASSUME NEW p \in Processes, NEW q \in Processes, p # q,
               work'[p]["deduct"] # Idle, Key(work'[p]["deduct"].order) = k,
               work'[q]["deduct"] # Idle, Key(work'[q]["deduct"].order) = k,
               NEW w \in Callback, w = work'[p]["deduct"], Starts(p, "deduct", w)
        PROVE  FALSE
    <2>1. work'[q]["deduct"] = work[q]["deduct"]
      BY <1>0, <1>4, SlotFrame DEF Starts
    <2>2. k \in {Key(w.order) : x \in {x \in Processes :
                                          /\ "deduct" = "deduct" /\ work[x]["deduct"] # Idle
                                          /\ Key(work[x]["deduct"].order) = Key(w.order)}}
      BY <1>4, <2>1
    <2>3. k \in overlapped'
      BY <1>4, <2>2 DEF Starts
    <2>. QED  BY <2>3
  <1>5. ASSUME NEW p \in Processes, NEW q \in Processes,
               work'[p]["deduct"] # Idle, Key(work'[p]["deduct"].order) = k,
               work'[q]["deduct"] # Idle, Key(work'[q]["deduct"].order) = k, p # q
        PROVE  FALSE
    <2>1. work[p]["deduct"] # Idle /\ work'[p]["deduct"].order = work[p]["deduct"].order
      BY <1>0, <1>4, <1>5, WorkSource
    <2>2. work[q]["deduct"] # Idle /\ work'[q]["deduct"].order = work[q]["deduct"].order
      BY <1>0, <1>4, <1>5, WorkSource
    <2>. QED  BY <1>3, <1>5, <2>1, <2>2
  <1>6. ASSUME NEW q \in Processes, NEW w \in Callback, Deducts(q, w)
        PROVE  /\ work[q]["deduct"] \in Callback /\ work[q]["deduct"] # Idle
               /\ work[q]["deduct"].step = "commit" /\ work[q]["deduct"].order = w.order
               /\ work'[q]["deduct"] = w /\ w.step = "answer"
               /\ \A x : RowsOf(payments', x) =
                            IF x = Key(w.order) THEN RowsOf(payments, x) \cup {Len(payments) + 1}
                            ELSE RowsOf(payments, x)
    BY <1>6, DeductFacts DEF Deducts
  <1>7. ASSUME NEW p \in Processes, work'[p]["deduct"].step = "commit",
               Key(work'[p]["deduct"].order) = k
        PROVE  RowsOf(payments', k) = {}
    <2>1. CASE work'[p]["deduct"] = work[p]["deduct"]
      <3>1. RowsOf(payments, k) = {} /\ work[p]["deduct"] # Idle
        BY <1>0, <1>3, <1>7, <2>1, SlotIs
      <3>2. CASE UNCHANGED payments
        BY <3>1, <3>2
      <3>3. ASSUME NEW q \in Processes, NEW w \in Callback, Deducts(q, w)
            PROVE  RowsOf(payments', k) = {}
        <4>1. q # p
          BY <1>6, <1>7, <3>3
        <4>2. Key(w.order) # k
          BY <1>3, <1>6, <1>7, <2>1, <3>1, <3>3, <4>1
        <4>. QED  BY <1>6, <3>1, <3>3, <4>2
      <3>. QED  BY <3>2, <3>3, BookStep
    <2>2. CASE work'[p]["deduct"] = Idle
      BY <1>0, <1>7, <2>2, SlotIs
    <2>3. ASSUME NEW w \in Callback, w = work'[p]["deduct"], Starts(p, "deduct", w)  PROVE FALSE
      BY <1>7, <2>3 DEF Starts
    <2>4. ASSUME NEW w \in Callback, w = work'[p]["deduct"], Advances(p, "deduct", w)
          PROVE  RowsOf(payments', k) = {}
      <3>1. ~Paid(w.order) /\ UNCHANGED payments
        BY <1>7, <2>4 DEF Advances, storeVars
      <3>. QED  BY <1>7, <2>4, <3>1 DEF Paid
    <2>5. ASSUME NEW w \in Callback, w = work'[p]["deduct"], Deducts(p, w)  PROVE FALSE
      BY <1>7, <2>5 DEF Deducts
    <2>. QED  BY <1>0, <2>1, <2>2, <2>3, <2>4, <2>5, SlotStep
  <1>8. ASSUME NEW i \in RowsOf(payments', k), NEW j \in RowsOf(payments', k)
        PROVE  i = j
    <2>1. CASE UNCHANGED payments
      BY <1>3, <1>8, <2>1
    <2>2. ASSUME NEW q \in Processes, NEW w \in Callback, Deducts(q, w)  PROVE i = j
      <3>1. CASE Key(w.order) = k
        BY <1>3, <1>6, <1>8, <2>2, <3>1
      <3>2. CASE Key(w.order) # k
        BY <1>3, <1>6, <1>8, <2>2, <3>2
      <3>. QED  BY <3>1, <3>2
    <2>. QED  BY <2>1, <2>2, BookStep
  <1>. QED  BY <1>5, <1>7, <1>8

(* Counting: a set that grows by at most one element.                      *)
LEMMA GrowsByOne ==
    ASSUME NEW S, IsFiniteSet(S), NEW x, NEW T \in SUBSET (S \cup {x})
    PROVE  IsFiniteSet(T) /\ Cardinality(T) <= Cardinality(S) + 1
  <1>1. /\ IsFiniteSet(S \cup {x})
        /\ Cardinality(S \cup {x}) \in {Cardinality(S), Cardinality(S) + 1}
    BY FS_AddElement
  <1>2. IsFiniteSet(T) /\ Cardinality(T) <= Cardinality(S \cup {x})
    BY <1>1, FS_Subset
  <1>3. Cardinality(S) \in Nat /\ Cardinality(T) \in Nat
    BY <1>2, FS_CardinalityType
  <1>. QED  BY <1>1, <1>2, <1>3

LEMMA ShrinksByOne ==
    ASSUME NEW S, IsFiniteSet(S), NEW x \in S, NEW T \in SUBSET (S \ {x})
    PROVE  IsFiniteSet(T) /\ Cardinality(T) + 1 <= Cardinality(S)
  <1>1. IsFiniteSet(S \ {x}) /\ Cardinality(S \ {x}) = Cardinality(S) - 1
    BY FS_RemoveElement
  <1>2. IsFiniteSet(T) /\ Cardinality(T) <= Cardinality(S \ {x})
    BY <1>1, FS_Subset
  <1>3. Cardinality(S) \in Nat /\ Cardinality(T) \in Nat
    BY <1>2, FS_CardinalityType
  <1>. QED  BY <1>1, <1>2, <1>3

LEMMA TellingStep ==
    ASSUME Shape, WorkOK, TellingOK, StepKind, Shape'
    PROVE  TellingOK'
  <1>0. /\ "deduct" \in Jobs /\ "credit" \in Jobs /\ payments \in Seq(Booking)
        /\ notified \in [KeySet -> Nat] /\ notified' \in [KeySet -> Nat]
    BY DEF Shape, Jobs
  <1>1. SUFFICES ASSUME NEW k \in KeySet
                 PROVE  /\ IsFiniteSet(Telling(k)')
                        /\ notified'[k] + Cardinality(Telling(k)') <= Cardinality(RowsOf(payments', k))
    BY DEF TellingOK
  <1>2. /\ IsFiniteSet(Telling(k))
        /\ notified[k] + Cardinality(Telling(k)) <= Cardinality(RowsOf(payments, k))
    BY DEF TellingOK
  <1>3. IsFiniteSet(RowsOf(payments, k))
    <2>1. [key |-> k, amount |-> 0] \in Booking
      BY DEF Booking
    <2>. QED  BY <1>0, <2>1, RowsAppend
  <1>4. /\ notified[k] \in Nat /\ notified'[k] \in Nat
        /\ Cardinality(Telling(k)) \in Nat /\ Cardinality(RowsOf(payments, k)) \in Nat
    BY <1>0, <1>2, <1>3, FS_CardinalityType
  <1>5. ASSUME NEW q \in Processes, q \in Telling(k)', q \notin Telling(k)
        PROVE  \E w \in Callback : Deducts(q, w)
    <2>1. /\ work'[q]["deduct"] # Idle /\ work'[q]["deduct"].created
          /\ Key(work'[q]["deduct"].order) = k
      BY <1>5 DEF Telling, Key
    <2>2. work'[q]["deduct"] # work[q]["deduct"]
      BY <1>5, <2>1 DEF Telling
    <2>3. ASSUME NEW w \in Callback, w = work'[q]["deduct"], Starts(q, "deduct", w)  PROVE FALSE
      BY <2>1, <2>3 DEF Starts
    <2>4. ASSUME NEW w \in Callback, w = work'[q]["deduct"], Advances(q, "deduct", w)  PROVE FALSE
      <3>1. work[q]["deduct"] \in Callback /\ work[q]["deduct"] # Idle
            /\ work[q]["deduct"].step # "answer" /\ work[q]["deduct"].created
        BY <1>0, <2>1, <2>4, SlotIs DEF Advances, Resumes
      <3>. QED  BY <1>0, <3>1 DEF WorkOK
    <2>. QED  BY <1>0, <2>1, <2>2, <2>3, <2>4, SlotStep
  <1>6. ASSUME NEW q \in Processes, NEW w \in Callback, Deducts(q, w)
        PROVE  /\ IsFiniteSet(Telling(k)')
               /\ notified'[k] + Cardinality(Telling(k)') <= Cardinality(RowsOf(payments', k))
    <2>0. notified'[k] = notified[k]
      BY <1>6 DEF Deducts
    <2>1. Telling(k)' \subseteq Telling(k) \cup {q}
      BY <1>6, DeductFacts DEF Telling, Key
    <2>2. CASE Key(w.order) = k
      <3>1. IsFiniteSet(Telling(k)') /\ Cardinality(Telling(k)') <= Cardinality(Telling(k)) + 1
        BY <1>2, <2>1, GrowsByOne
      <3>2. /\ RowsOf(payments', k) = RowsOf(payments, k) \cup {Len(payments) + 1}
            /\ Len(payments) + 1 \notin RowsOf(payments, k)
        BY <1>6, <2>2, DeductFacts
      <3>3. Cardinality(RowsOf(payments', k)) = Cardinality(RowsOf(payments, k)) + 1
        BY <1>3, <3>2, FS_AddElement
      <3>4. Cardinality(Telling(k)') \in Nat
        BY <3>1, FS_CardinalityType
      <3>. QED  BY <1>2, <1>4, <2>0, <3>1, <3>3, <3>4
    <2>3. CASE Key(w.order) # k
      <3>1. q \notin Telling(k)'
        BY <1>6, <2>3, DeductFacts DEF Telling, Key
      <3>2. Telling(k)' \subseteq Telling(k)
        BY <2>1, <3>1
      <3>3. IsFiniteSet(Telling(k)') /\ Cardinality(Telling(k)') <= Cardinality(Telling(k))
        BY <1>2, <3>2, FS_Subset
      <3>4. RowsOf(payments', k) = RowsOf(payments, k)
        BY <1>6, <2>3, DeductFacts
      <3>5. Cardinality(Telling(k)') \in Nat
        BY <3>3, FS_CardinalityType
      <3>. QED  BY <1>2, <1>4, <2>0, <3>3, <3>4, <3>5
    <2>. QED  BY <2>2, <2>3
  <1>7. ASSUME ~\E q \in Processes, w \in Callback : Deducts(q, w)
        PROVE  Telling(k)' \subseteq Telling(k) /\ UNCHANGED payments
    <2>1. UNCHANGED payments
      BY <1>7, BookStep
    <2>2. \A q \in Telling(k)' : q \in Processes
      BY DEF Telling
    <2>. QED  BY <1>5, <1>7, <2>1, <2>2
  <1>8. ASSUME Telling(k)' \subseteq Telling(k), UNCHANGED payments, notified'[k] = notified[k]
        PROVE  /\ IsFiniteSet(Telling(k)')
               /\ notified'[k] + Cardinality(Telling(k)') <= Cardinality(RowsOf(payments', k))
    <2>1. IsFiniteSet(Telling(k)') /\ Cardinality(Telling(k)') <= Cardinality(Telling(k))
      BY <1>2, <1>8, FS_Subset
    <2>2. Cardinality(Telling(k)') \in Nat
      BY <2>1, FS_CardinalityType
    <2>3. RowsOf(payments', k) = RowsOf(payments, k)
      BY <1>8
    <2>. QED  BY <1>2, <1>4, <1>8, <2>1, <2>2, <2>3
  <1>9. ASSUME NEW p \in Processes, NEW j \in Jobs, Respond(p, j),
               ~\E q \in Processes, w \in Callback : Deducts(q, w)
        PROVE  /\ IsFiniteSet(Telling(k)')
               /\ notified'[k] + Cardinality(Telling(k)') <= Cardinality(RowsOf(payments', k))
    <2>. DEFINE w == work[p][j]
    <2>1. /\ w \in Callback /\ w # Idle /\ Puts(p, j, Idle) /\ w.order \in Orders
          /\ notified' = IF w.created THEN [notified EXCEPT ![Key(w.order)] = @ + 1] ELSE notified
      BY <1>9, RespondFacts
    <2>2. CASE w.created /\ Key(w.order) = k
      <3>1. j = "deduct"
        BY <2>1, <2>2 DEF WorkOK, Jobs
      <3>2. p \in Telling(k)
        BY <2>1, <2>2, <3>1 DEF Telling
      <3>3. p \notin Telling(k)'
        <4>1. work'[p]["deduct"] = Idle
          BY <1>0, <2>1, <3>1, SlotFrame
        <4>. QED  BY <4>1 DEF Telling
      <3>4. Telling(k)' \in SUBSET (Telling(k) \ {p})
        BY <1>7, <1>9, <3>3
      <3>5. IsFiniteSet(Telling(k)') /\ Cardinality(Telling(k)') + 1 <= Cardinality(Telling(k))
        BY <1>2, <3>2, <3>4, ShrinksByOne
      <3>6. notified'[k] = notified[k] + 1
        BY <1>0, <2>1, <2>2
      <3>7. Cardinality(Telling(k)') \in Nat /\ RowsOf(payments', k) = RowsOf(payments, k)
        BY <1>7, <1>9, <3>5, FS_CardinalityType
      <3>. QED  BY <1>2, <1>4, <3>5, <3>6, <3>7
    <2>3. CASE ~w.created \/ Key(w.order) # k
      <3>1. notified'[k] = notified[k]
        BY <1>0, <2>1, <2>3
      <3>. QED  BY <1>7, <1>8, <1>9, <3>1
    <2>. QED  BY <2>2, <2>3
  <1>10. UNCHANGED notified \/ \E p \in Processes, j \in Jobs : Respond(p, j)
    BY DEF StepKind, Sends, Turns, Starts, Advances, Deducts, Repays, LoseRequest, Crash
  <1>. QED  BY <1>6, <1>7, <1>8, <1>9, <1>10

-----------------------------------------------------------------------------
(* Orders with a key of their own.                                         *)

(* Once a refund was asked for an order stays so.                          *)
LEMMA ReturningStays ==
    ASSUME Shape, StepKind, NEW o \in Orders, order[o] \in Returning
    PROVE  order'[o] \in Returning
  <1>1. ASSUME Turns(o)  PROVE order'[o] \in Returning
    BY <1>1, TurnFacts DEF Returning, Outcome, Waiting
  <1>2. ASSUME NEW p \in Processes, NEW j \in Jobs, Sends(o, p, j)
        PROVE  order'[o] \in Returning
    BY <1>2 DEF Sends, Returning, Shape
  <1>. QED  BY <1>1, <1>2, ClientSource

(* The first row of such an order is the work of one of its requests.      *)
LEMMA PaidSource ==
    ASSUME OwnKeys, Shape, WorkOK, StepKind, NEW o \in Orders, Identified(o), Paid(o)', ~Paid(o)
    PROVE  \E q \in Processes, w \in Callback :
              Deducts(q, w) /\ w.order = o /\ Works(q, "deduct", o)
  <1>1. PICK q \in Processes, w \in Callback : Deducts(q, w)
    <2>1. ~UNCHANGED payments
      BY DEF Paid
    <2>. QED  BY <2>1, BookStep
  <1>2. Key(w.order) = Key(o)
    BY <1>1, DeductFacts DEF Paid
  <1>3. w.order \in Orders
    BY DEF Callback
  <1>4. w.order = o
    BY <1>2, <1>3 DEF OwnKeys
  <1>5. Works(q, "deduct", o)
    BY <1>1, <1>4, DeductFacts DEF Works
  <1>. QED  BY <1>1, <1>4, <1>5

LEMMA PricesStep ==
    ASSUME OwnKeys, Shape, WorkOK, KindsOK, PricesOK, StepKind
    PROVE  PricesOK'
  <1>0. payments \in Seq(Booking) /\ refunds \in Seq(Booking)
        /\ "deduct" \in Jobs /\ "credit" \in Jobs
    BY DEF Shape, Jobs
  <1>1. SUFFICES ASSUME NEW o \in Orders, Identified(o)
                 PROVE  /\ \A i \in RowsOf(payments', Key(o)) : payments'[i].amount = Nano(o)
                        /\ \A i \in RowsOf(refunds', Key(o)) : refunds'[i].amount = Nano(o)
                        /\ Repaid(o)' => order'[o] \in Returning
    BY DEF PricesOK
  <1>2. /\ \A i \in RowsOf(payments, Key(o)) : payments[i].amount = Nano(o)
        /\ \A i \in RowsOf(refunds, Key(o)) : refunds[i].amount = Nano(o)
        /\ Repaid(o) => order[o] \in Returning
    BY <1>1 DEF PricesOK
  <1>3. ASSUME NEW x \in Orders, Key(x) = Key(o)  PROVE x = o
    BY <1>1, <1>3 DEF OwnKeys
  <1>4. ASSUME NEW q \in Processes, NEW w \in Callback, Deducts(q, w)
        PROVE  \A i \in RowsOf(payments', Key(o)) : payments'[i].amount = Nano(o)
    <2>. DEFINE r == [key |-> Key(w.order), amount |-> Nano(w.order)]
    <2>1. /\ r \in Booking /\ payments' = Append(payments, r)
          /\ r.key = Key(w.order) /\ r.amount = Nano(w.order) /\ w.order \in Orders
      BY <1>0, <1>4, BookingIs DEF Deducts, Resumes
    <2>. HIDE DEF r
    <2>2. /\ \A i \in DOMAIN payments : payments'[i] = payments[i]
          /\ DOMAIN payments' = DOMAIN payments \cup {Len(payments) + 1}
          /\ payments'[Len(payments) + 1] = r
      BY <1>0, <2>1, RowsAppend
    <2>3. SUFFICES ASSUME NEW i \in DOMAIN payments', payments'[i].key = Key(o)
                   PROVE  payments'[i].amount = Nano(o)
      BY DEF RowsOf
    <2>4. CASE i \in DOMAIN payments
      BY <1>2, <2>2, <2>3, <2>4 DEF RowsOf
    <2>5. CASE i = Len(payments) + 1
      BY <1>3, <2>1, <2>2, <2>3, <2>5
    <2>. QED  BY <2>2, <2>4, <2>5
  <1>5. ASSUME NEW p \in Processes, NEW w \in Callback, Repays(p, w), Repaid(o)', ~Repaid(o)
        PROVE  order'[o] \in Returning
    <2>. DEFINE r == [key |-> Key(w.order), amount |-> Nano(w.order)]
    <2>1. /\ work[p]["credit"] \in Callback /\ work[p]["credit"].step = "commit"
          /\ work[p]["credit"].order = w.order
      BY <1>5 DEF Repays, Resumes
    <2>2. refunds' = Append(refunds, r) /\ r.key = Key(w.order)
      BY <1>5 DEF Repays, Repaid
    <2>3. r \in Booking /\ w.order \in Orders
      BY <1>0, <2>1, BookingIs
    <2>. HIDE DEF r
    <2>4. Key(w.order) = Key(o)
      BY <1>0, <1>5, <2>2, <2>3, RowsAppend DEF Repaid
    <2>5. w.order = o
      BY <1>3, <2>3, <2>4
    <2>6. Works(p, "credit", o)
      BY <1>0, <2>1, <2>5, SlotIs DEF Works
    <2>. QED  BY <2>6, ReturningStays DEF KindsOK
  <1>6. UNCHANGED refunds \/ \E p \in Processes, w \in Callback : Repays(p, w)
    BY DEF StepKind, Sends, Turns, Starts, Advances, Deducts, Respond, LoseRequest, Crash, storeVars
  <1>7. Repaid(o)' => order'[o] \in Returning
    <2>1. CASE Repaid(o)
      BY <1>2, <2>1, ReturningStays
    <2>2. CASE ~Repaid(o)
      <3>1. Repaid(o)' => ~UNCHANGED refunds
        BY <2>2 DEF Repaid
      <3>. QED  BY <1>5, <1>6, <2>2, <3>1
    <2>. QED  BY <2>1, <2>2
  <1>8. \A i \in RowsOf(payments', Key(o)) : payments'[i].amount = Nano(o)
    <2>1. CASE UNCHANGED payments
      BY <1>2, <2>1
    <2>. QED  BY <1>4, <2>1, BookStep
  <1>9. ASSUME NEW p \in Processes, NEW w \in Callback, Repays(p, w), refunds' # refunds
        PROVE  \A i \in RowsOf(refunds', Key(o)) : refunds'[i].amount = Nano(o)
    <2>. DEFINE r == [key |-> Key(w.order), amount |-> Nano(w.order)]
    <2>1. /\ work[p]["credit"].step = "commit" /\ work[p]["credit"].order = w.order
          /\ refunds' = Append(refunds, r)
      BY <1>9 DEF Repays, Resumes
    <2>2. r \in Booking /\ r.key = Key(w.order) /\ r.amount = Nano(w.order) /\ w.order \in Orders
      BY <1>0, <2>1, BookingIs
    <2>. HIDE DEF r
    <2>3. /\ \A i \in DOMAIN refunds : refunds'[i] = refunds[i]
          /\ DOMAIN refunds' = DOMAIN refunds \cup {Len(refunds) + 1}
          /\ refunds'[Len(refunds) + 1] = r
      BY <1>0, <2>1, <2>2, RowsAppend
    <2>4. SUFFICES ASSUME NEW i \in DOMAIN refunds', refunds'[i].key = Key(o)
                   PROVE  refunds'[i].amount = Nano(o)
      BY DEF RowsOf
    <2>5. CASE i \in DOMAIN refunds
      BY <1>2, <2>3, <2>4, <2>5 DEF RowsOf
    <2>6. CASE i = Len(refunds) + 1
      BY <1>3, <2>2, <2>3, <2>4, <2>6
    <2>. QED  BY <2>3, <2>5, <2>6
  <1>10. \A i \in RowsOf(refunds', Key(o)) : refunds'[i].amount = Nano(o)
    <2>1. CASE refunds' = refunds
      BY <1>2, <2>1
    <2>. QED  BY <1>6, <1>9, <2>1
  <1>. QED  BY <1>7, <1>8, <1>10

(* The places of the requests of o, before and after a step.               *)
LEMMA DropHolds ==
    ASSUME Shape, NEW p \in Processes, NEW j \in Jobs, Drops(p, j),
           NEW q \in Processes, NEW k \in Jobs, NEW i \in Nat, NEW o, Holds(q, k, i, o)'
    PROVE  Holds(q, k, IF q = p /\ k = j THEN i + 1 ELSE i, o) /\ i > 0
  <1>1. queue[p][j] \in Seq(Request) /\ queue[p][j] # << >> /\ queue[q][k] \in Seq(Request)
    BY DEF Shape, Drops
  <1>2. i \in DOMAIN queue'[q][k] /\ queue'[q][k][i].order = o
    BY DEF Holds
  <1>3. CASE q = p /\ k = j
    <2>1. queue'[q][k] = Tail(queue[p][j])
      BY <1>3, DropFrame
    <2>2. /\ i + 1 \in DOMAIN queue[p][j] /\ i > 0
          /\ Tail(queue[p][j])[i] = queue[p][j][i + 1]
      BY <1>1, <1>2, <2>1
    <2>. QED  BY <1>2, <1>3, <2>1, <2>2 DEF Holds
  <1>4. CASE q # p \/ k # j
    <2>1. queue'[q][k] = queue[q][k]
      BY <1>4, DropFrame
    <2>2. i > 0
      BY <1>1, <1>2, <2>1
    <2>. QED  BY <1>2, <1>4, <2>1, <2>2 DEF Holds
  <1>. QED  BY <1>3, <1>4

LEMMA SendHolds ==
    ASSUME Shape, NEW x \in Orders, NEW p \in Processes, NEW j \in Jobs, Sends(x, p, j),
           NEW q \in Processes, NEW k \in Jobs, NEW i \in Nat, NEW o, Holds(q, k, i, o)'
    PROVE  Holds(q, k, i, o) \/ (o = x /\ q = p /\ k = j /\ i = Len(queue[p][j]) + 1)
  <1>. DEFINE r == [order |-> x, try |-> tries[x] + 1]
  <1>0. queue[p][j] \in Seq(Request) /\ tries[x] \in Nat
    BY DEF Shape
  <1>1. queue[p][j] \in Seq(Request) /\ r \in Request /\ r.order = x
    BY <1>0 DEF Request
  <1>5. /\ queue'[p][j] = Append(queue[p][j], r)
        /\ (q # p \/ k # j) => queue'[q][k] = queue[q][k]
    BY SendFrame
  <1>. HIDE DEF r
  <1>2. i \in DOMAIN queue'[q][k] /\ queue'[q][k][i].order = o
    BY DEF Holds
  <1>3. CASE q = p /\ k = j
    <2>1. queue'[q][k] = Append(queue[p][j], r)
      BY <1>3, <1>5
    <2>2. CASE i = Len(queue[p][j]) + 1
      <3>1. Append(queue[p][j], r)[i] = r
        BY <1>1, <2>2
      <3>. QED  BY <1>1, <1>2, <1>3, <2>1, <2>2, <3>1
    <2>3. CASE i # Len(queue[p][j]) + 1
      <3>1. i \in DOMAIN queue[p][j] /\ Append(queue[p][j], r)[i] = queue[p][j][i]
        BY <1>1, <1>2, <2>1, <2>3
      <3>. QED  BY <1>2, <1>3, <2>1, <3>1 DEF Holds
    <2>. QED  BY <2>2, <2>3
  <1>4. CASE q # p \/ k # j
    <2>1. queue'[q][k] = queue[q][k]
      BY <1>4, <1>5
    <2>. QED  BY <1>2, <2>1 DEF Holds
  <1>. QED  BY <1>3, <1>4

(* Unless a request of o is sent, each place of one had one before.        *)
LEMMA HoldsSource ==
    ASSUME Shape, StepKind, NEW o \in Orders, tries'[o] = tries[o]
    PROVE  \E d \in [Processes -> [Jobs -> Nat]] :
              /\ \A q \in Processes, k \in Jobs, i \in Nat :
                    Holds(q, k, i, o)' => Holds(q, k, i + d[q][k], o) /\ i > 0
              /\ \A p \in Processes, j \in Jobs, w \in Callback :
                    Starts(p, j, w) => d[p][j] = 1
  <1>0. /\ tries \in [Orders -> Nat]
        /\ \A q \in Processes, k \in Jobs : queue[q][k] \in Seq(Request)
    BY DEF Shape
  <1>. DEFINE Kept == [q \in Processes |-> [k \in Jobs |-> 0]]
              Shift(p, j) == [q \in Processes |-> [k \in Jobs |-> IF q = p /\ k = j THEN 1 ELSE 0]]
              Moves(d) == \A q \in Processes, k \in Jobs, i \in Nat :
                             Holds(q, k, i, o)' => Holds(q, k, i + d[q][k], o) /\ i > 0
              Taken(d) == \A p \in Processes, j \in Jobs, w \in Callback :
                             Starts(p, j, w) => d[p][j] = 1
  <1>1. \A q \in Processes, k \in Jobs, i \in Nat : Holds(q, k, i, o) => i > 0
    BY <1>0 DEF Holds
  <1>2. ASSUME \A q \in Processes, k \in Jobs, i \in Nat : Holds(q, k, i, o)' => Holds(q, k, i, o)
        PROVE  Moves(Kept)
    BY <1>1, <1>2
  <1>3. ASSUME NEW p \in Processes, NEW j \in Jobs, Drops(p, j)
        PROVE  Moves(Shift(p, j)) /\ Shift(p, j)[p][j] = 1
    <2>1. ASSUME NEW q \in Processes, NEW k \in Jobs, NEW i \in Nat, Holds(q, k, i, o)'
          PROVE  Holds(q, k, i + Shift(p, j)[q][k], o) /\ i > 0
      <3>1. Holds(q, k, IF q = p /\ k = j THEN i + 1 ELSE i, o) /\ i > 0
        BY <1>3, <2>1, DropHolds
      <3>2. i + Shift(p, j)[q][k] = IF q = p /\ k = j THEN i + 1 ELSE i
        OBVIOUS
      <3>. QED  BY <3>1, <3>2
    <2>. QED  BY <2>1
  <1>4. Kept \in [Processes -> [Jobs -> Nat]]
        /\ \A p \in Processes, j \in Jobs : Shift(p, j) \in [Processes -> [Jobs -> Nat]]
    OBVIOUS
  <1>. HIDE DEF Kept, Shift
  <1>. DEFINE Goal == \E d \in [Processes -> [Jobs -> Nat]] : Moves(d) /\ Taken(d)
  <1>5. ASSUME NEW p \in Processes, NEW j \in Jobs, NEW w \in Callback, Starts(p, j, w)
        PROVE  Goal
    <2>1. Moves(Shift(p, j)) /\ Shift(p, j)[p][j] = 1
      BY <1>3, <1>5 DEF Starts
    <2>2. ASSUME NEW q \in Processes, NEW k \in Jobs, NEW v \in Callback, Starts(q, k, v)
          PROVE  q = p /\ k = j
      <3>1. work'[q][k] = v /\ work[q][k] = Idle
        BY <2>2, SlotFrame DEF Starts
      <3>2. q # p \/ k # j => work'[q][k] = work[q][k]
        BY <1>5, SlotFrame DEF Starts
      <3>. QED  BY <3>1, <3>2, SlotIs
    <2>3. Taken(Shift(p, j))
      BY <2>1, <2>2
    <2>. HIDE DEF Moves, Taken
    <2>. QED  BY <1>4, <2>1, <2>3
  <1>6. ASSUME ~\E p \in Processes, j \in Jobs, w \in Callback : Starts(p, j, w),
               NEW d \in [Processes -> [Jobs -> Nat]], Moves(d)
        PROVE  Goal
    <2>1. Taken(d)
      BY <1>6
    <2>. HIDE DEF Moves, Taken
    <2>. QED  BY <1>6, <2>1
  <1>7. \/ \E p \in Processes, j \in Jobs, w \in Callback : Starts(p, j, w)
        \/ \E d \in [Processes -> [Jobs -> Nat]] : Moves(d)
    <2>. DEFINE M == \E d \in [Processes -> [Jobs -> Nat]] : Moves(d)
    <2>1. ASSUME NEW x \in Orders, NEW p \in Processes, NEW j \in Jobs, Sends(x, p, j)  PROVE M
      <3>0. tries'[x] = tries[x] + 1
        BY <2>1, SendFrame
      <3>1. x # o
        BY <1>0, <3>0
      <3>. HIDE DEF Moves, Taken, Goal, M
      <3>2. ASSUME NEW q \in Processes, NEW k \in Jobs, NEW i \in Nat, Holds(q, k, i, o)'
            PROVE  Holds(q, k, i, o)
        <4>1. Holds(q, k, i, o) \/ o = x
          BY <2>1, <3>2, SendHolds
        <4>. QED  BY <3>1, <4>1
      <3>. USE DEF M
      <3>. QED  BY <1>2, <1>4, <3>2
    <2>2. ASSUME NEW p \in Processes, NEW j \in Jobs, LoseRequest(p, j)  PROVE M
      <3>1. Moves(Shift(p, j))
        BY <1>3, <2>2 DEF LoseRequest, Drops
      <3>. HIDE DEF Moves
      <3>. QED  BY <1>4, <3>1
    <2>3. ASSUME NEW p \in Processes, Crash(p)  PROVE M
      <3>1. ASSUME NEW q \in Processes, NEW k \in Jobs, NEW i \in Nat, Holds(q, k, i, o)'
            PROVE  Holds(q, k, i, o)
        <4>1. queue'[q][k] = IF q = p THEN << >> ELSE queue[q][k]
          BY <2>3, CrashFacts
        <4>2. i \in DOMAIN queue'[q][k] /\ queue'[q][k][i].order = o
          BY <3>1 DEF Holds
        <4>3. DOMAIN << >> = {}
          OBVIOUS
        <4>. QED  BY <4>1, <4>2, <4>3 DEF Holds
      <3>. HIDE DEF Moves
      <3>. QED  BY <1>2, <1>4, <3>1
    <2>4. ASSUME UNCHANGED queue  PROVE M
      <3>1. \A q \in Processes, k \in Jobs, i \in Nat : Holds(q, k, i, o)' => Holds(q, k, i, o)
        BY <2>4 DEF Holds
      <3>. HIDE DEF Moves
      <3>. QED  BY <1>2, <1>4, <3>1
    <2>. HIDE DEF M
    <2>5. ASSUME \/ \E x \in Orders : Turns(x)
                 \/ \E p \in Processes, j \in Jobs, w \in Callback : Advances(p, j, w)
                 \/ \E p \in Processes, w \in Callback : Deducts(p, w)
                 \/ \E p \in Processes, w \in Callback : Repays(p, w)
                 \/ \E p \in Processes, j \in Jobs : Respond(p, j)
                 \/ UNCHANGED <<clientVars, queue, work, storeVars, notified, overlapped, timeouts>>
          PROVE  M
      BY <2>4, <2>5 DEF Turns, Advances, Deducts, Repays, Respond
    <2>6. M \/ \E p \in Processes, j \in Jobs, w \in Callback : Starts(p, j, w)
      BY <2>1, <2>2, <2>3, <2>5 DEF StepKind
    <2>. QED  BY <2>6 DEF M
  <1>8. Goal
    <2>. HIDE DEF Goal, Moves
    <2>. QED  BY <1>5, <1>6, <1>7
  <1>. QED  BY <1>8

(* A reply comes from a callback that answers, and a refusal from a reply. *)
LEMMA ReplySource ==
    ASSUME Shape, StepKind, NEW o \in Orders
    PROVE  /\ \/ reply'[o] \in {reply[o], "none"}
              \/ \E p \in Processes, j \in Jobs : Respond(p, j) /\ work[p][j].order = o
           /\ order'[o] = "refused" => order[o] = "refused" \/ reply[o] = "insufficient"
  <1>0. reply \in [Orders -> Codes \cup {"none"}] /\ order \in [Orders -> Phases]
    BY DEF Shape
  <1>1. ASSUME NEW x \in Orders, Turns(x)
        PROVE  /\ reply'[o] \in {reply[o], "none"}
               /\ order'[o] = "refused" => order[o] = "refused" \/ reply[o] = "insufficient"
    <2>1. CASE x = o
      <3>1. reply'[o] \in {reply[o], "none"}
        BY <1>1, <2>1, TurnFacts
      <3>2. order'[o] = "refused" => order[o] = "refused" \/ reply[o] = "insufficient"
        BY <1>1, <2>1, TurnFacts DEF Outcome
      <3>. QED  BY <3>1, <3>2
    <2>2. CASE x # o
      BY <1>1, <2>2, TurnFacts
    <2>. QED  BY <2>1, <2>2
  <1>2. ASSUME NEW p \in Processes, NEW j \in Jobs, Respond(p, j)
        PROVE  /\ reply'[o] = reply[o] \/ work[p][j].order = o
               /\ order'[o] = order[o]
    <2>. DEFINE w == work[p][j]
    <2>1. /\ w.order \in Orders /\ order' = order
          /\ reply' = IF Waiting(w.order) /\ tries[w.order] = w.try
                      THEN [reply EXCEPT ![w.order] = w.code] ELSE reply
      BY <1>2, RespondFacts
    <2>. QED  BY <1>0, <2>1
  <1>3. ASSUME NEW x \in Orders, NEW p \in Processes, NEW j \in Jobs, Sends(x, p, j)
        PROVE  reply'[o] = reply[o] /\ (order'[o] = "refused" => order[o] = "refused")
    BY <1>0, <1>3 DEF Sends
  <1>4. ASSUME \/ \E p \in Processes, j \in Jobs, w \in Callback : Starts(p, j, w)
               \/ \E p \in Processes, j \in Jobs, w \in Callback : Advances(p, j, w)
               \/ \E p \in Processes, w \in Callback : Deducts(p, w)
               \/ \E p \in Processes, w \in Callback : Repays(p, w)
               \/ \E p \in Processes, j \in Jobs : LoseRequest(p, j)
               \/ \E p \in Processes : Crash(p)
               \/ UNCHANGED <<clientVars, queue, work, storeVars, notified, overlapped, timeouts>>
        PROVE  reply'[o] = reply[o] /\ order'[o] = order[o]
    BY <1>4 DEF Starts, Advances, Deducts, Repays, LoseRequest, Crash, clientVars
  <1>. QED  BY <1>1, <1>2, <1>3, <1>4 DEF StepKind

(* The only request of an order stays the only one.                        *)
LEMMA OneRequestStep ==
    ASSUME Shape, StepKind, NEW o \in Orders, tries'[o] = tries[o], OneRequest(o)
    PROVE  OneRequest(o)'
  <1>. DEFINE Somewhere == \/ \E p \in Processes, j \in Jobs : Works(p, j, o)
                           \/ \E p \in Processes, j \in Jobs, i \in Nat : Holds(p, j, i, o)
  <1>1. PICK d \in [Processes -> [Jobs -> Nat]] :
           /\ \A q \in Processes, k \in Jobs, i \in Nat :
                 Holds(q, k, i, o)' => Holds(q, k, i + d[q][k], o) /\ i > 0
           /\ \A p \in Processes, j \in Jobs, w \in Callback : Starts(p, j, w) => d[p][j] = 1
    BY HoldsSource
  <1>2. ASSUME NEW q \in Processes, NEW k \in Jobs, NEW i \in Nat, Holds(q, k, i, o)'
        PROVE  Holds(q, k, i + d[q][k], o) /\ i > 0 /\ i + d[q][k] \in Nat
    BY <1>1, <1>2
  <1>3. ASSUME NEW q \in Processes, NEW k \in Jobs, Works(q, k, o)', ~Works(q, k, o)
        PROVE  Holds(q, k, 1, o) /\ d[q][k] = 1
    <2>1. PICK w \in Callback : w = work'[q][k] /\ Starts(q, k, w) /\ w.order = o
      BY <1>3, WorkSource DEF Works
    <2>2. d[q][k] = 1
      BY <1>1, <2>1
    <2>3. Drops(q, k) /\ queue[q][k] \in Seq(Request) /\ queue[q][k] # << >>
      BY <2>1 DEF Starts, Drops, Shape
    <2>4. [order |-> w.order, try |-> w.try] = Head(queue[q][k])
      BY <2>1 DEF Starts
    <2>5. 1 \in DOMAIN queue[q][k] /\ queue[q][k][1] = Head(queue[q][k])
      BY <2>3
    <2>. QED  BY <2>1, <2>2, <2>4, <2>5 DEF Holds
  <1>4. ASSUME NEW p \in Processes, NEW q \in Processes, NEW j \in Jobs, NEW k \in Jobs,
               NEW i \in Nat, NEW l \in Nat, Holds(p, j, i, o)', Holds(q, k, l, o)'
        PROVE  p = q /\ j = k /\ i = l
    <2>1. /\ Holds(p, j, i + d[p][j], o) /\ i + d[p][j] \in Nat
          /\ Holds(q, k, l + d[q][k], o) /\ l + d[q][k] \in Nat
      BY <1>2, <1>4
    <2>2. p = q /\ j = k /\ i + d[p][j] = l + d[q][k]
      BY <2>1 DEF OneRequest
    <2>. QED  BY <2>2
  <1>5. ASSUME NEW p \in Processes, NEW q \in Processes, NEW j \in Jobs, NEW k \in Jobs,
               NEW i \in Nat, Holds(p, j, i, o)', Works(q, k, o)'
        PROVE  FALSE
    <2>1. Holds(p, j, i + d[p][j], o) /\ i + d[p][j] \in Nat /\ i > 0 /\ d[p][j] \in Nat
      BY <1>2, <1>5
    <2>2. ~Works(q, k, o)
      BY <2>1 DEF OneRequest
    <2>3. Holds(q, k, 1, o) /\ d[q][k] = 1
      BY <1>3, <1>5, <2>2
    <2>4. p = q /\ j = k /\ i + d[p][j] = 1
      BY <2>1, <2>3 DEF OneRequest
    <2>. QED  BY <2>1, <2>3, <2>4
  <1>6. ASSUME NEW p \in Processes, NEW q \in Processes, NEW j \in Jobs, NEW k \in Jobs,
               Works(p, j, o)', Works(q, k, o)'
        PROVE  p = q /\ j = k
    <2>1. CASE Works(p, j, o) /\ Works(q, k, o)
      BY <2>1 DEF OneRequest
    <2>2. CASE ~Works(p, j, o)
      <3>1. Holds(p, j, 1, o)
        BY <1>3, <1>6, <2>2
      <3>2. ~Works(q, k, o)
        BY <3>1 DEF OneRequest
      <3>3. Holds(q, k, 1, o)
        BY <1>3, <1>6, <3>2
      <3>. QED  BY <3>1, <3>3 DEF OneRequest
    <2>3. CASE Works(p, j, o) /\ ~Works(q, k, o)
      <3>1. Holds(q, k, 1, o)
        BY <1>3, <1>6, <2>3
      <3>. QED  BY <2>3, <3>1 DEF OneRequest
    <2>. QED  BY <2>1, <2>2, <2>3
  <1>7. Somewhere => reply[o] = "none" /\ order[o] # "refused"
    BY DEF OneRequest
  <1>8. ASSUME \/ \E p \in Processes, j \in Jobs : Works(p, j, o)'
               \/ \E p \in Processes, j \in Jobs, i \in Nat : Holds(p, j, i, o)'
        PROVE  reply'[o] = "none" /\ order'[o] # "refused"
    <2>1. Somewhere
      BY <1>2, <1>3, <1>8
    <2>2. reply[o] = "none" /\ order'[o] # "refused"
      BY <1>7, <2>1, ReplySource
    <2>3. ASSUME NEW p \in Processes, NEW j \in Jobs, Respond(p, j), work[p][j].order = o
          PROVE  FALSE
      <3>1. Works(p, j, o) /\ work'[p][j] = Idle
        BY <2>3, RespondFacts, SlotFrame DEF Works
      <3>2. ~Works(p, j, o)'
        BY <3>1 DEF Works
      <3>3. ASSUME NEW q \in Processes, NEW k \in Jobs, Works(q, k, o)'  PROVE FALSE
        <4>1. CASE Works(q, k, o)
          BY <3>1, <3>2, <3>3, <4>1 DEF OneRequest
        <4>2. CASE ~Works(q, k, o)
          BY <1>3, <3>1, <3>3, <4>2 DEF OneRequest
        <4>. QED  BY <4>1, <4>2
      <3>4. ASSUME NEW q \in Processes, NEW k \in Jobs, NEW i \in Nat, Holds(q, k, i, o)'
            PROVE  FALSE
        BY <1>2, <3>1, <3>4 DEF OneRequest
      <3>. QED  BY <1>8, <3>3, <3>4
    <2>4. reply'[o] \in {reply[o], "none"}
      BY <2>3, ReplySource
    <2>. QED  BY <2>2, <2>4
  <1>. QED  BY <1>4, <1>5, <1>6, <1>8 DEF OneRequest

(* ... and nothing is charged for it behind its back.                      *)
LEMMA UnchargedStep ==
    ASSUME OwnKeys, Shape, WorkOK, StepKind, NEW o \in Orders, Identified(o),
           tries'[o] = tries[o], OneRequest(o), Uncharged(o)
    PROVE  Uncharged(o)'
  <1>1. ASSUME ~Paid(o), Paid(o)'
        PROVE  \E q \in Processes, w \in Callback :
                  /\ Deducts(q, w) /\ w.order = o /\ Works(q, "deduct", o)
                  /\ work'[q]["deduct"] = w /\ w.step = "answer" /\ w.code # "insufficient"
    <2>1. PICK q \in Processes, w \in Callback : Deducts(q, w) /\ w.order = o /\ Works(q, "deduct", o)
      BY <1>1, PaidSource
    <2>2. work'[q]["deduct"] = w /\ w.step = "answer" /\ w.code # "insufficient"
      BY <2>1, DeductFacts DEF Deducts
    <2>. QED  BY <2>1, <2>2
  <1>2. ASSUME NEW p \in Processes, NEW j \in Jobs, NEW i \in Nat, Holds(p, j, i, o)'
        PROVE  ~Paid(o)'
    <2>1. PICK l \in Nat : Holds(p, j, l, o)
      BY <1>2, HoldsSource
    <2>2. ~Paid(o) /\ \A q \in Processes, k \in Jobs : ~Works(q, k, o)
      BY <2>1 DEF Uncharged, OneRequest
    <2>. QED  BY <1>1, <2>2 DEF Jobs
  <1>3. ASSUME NEW q \in Processes, NEW k \in Jobs, Works(q, k, o)', NEW v, v = work'[q][k],
               v.step # "answer" \/ v.code = "insufficient"
        PROVE  ~Paid(o)'
    <2>0. v # Idle /\ v.order = o
      BY <1>3 DEF Works
    <2>1. CASE v = work[q][k]
      <3>1. Works(q, k, o) /\ ~Paid(o)
        BY <1>3, <2>0, <2>1 DEF Works, Uncharged
      <3>2. SUFFICES ASSUME Paid(o)'  PROVE FALSE
        OBVIOUS
      <3>3. PICK x \in Processes, w \in Callback :
                  /\ Works(x, "deduct", o)
                  /\ work'[x]["deduct"] = w /\ w.step = "answer" /\ w.code # "insufficient"
        BY <1>1, <3>1, <3>2
      <3>4. x = q /\ k = "deduct"
        BY <3>1, <3>3 DEF OneRequest, Jobs
      <3>. QED  BY <1>3, <3>3, <3>4
    <2>2. ASSUME NEW w \in Callback, w = v, Starts(q, k, w)  PROVE ~Paid(o)'
      <3>1. queue[q][k] \in Seq(Request) /\ queue[q][k] # << >>
            /\ [order |-> w.order, try |-> w.try] = Head(queue[q][k])
        BY <2>2 DEF Starts, Drops, Shape
      <3>2. 1 \in DOMAIN queue[q][k] /\ queue[q][k][1] = Head(queue[q][k])
        BY <3>1
      <3>3. Holds(q, k, 1, o)
        BY <2>0, <2>2, <3>1, <3>2 DEF Holds
      <3>4. ~Paid(o) /\ UNCHANGED payments
        BY <2>2, <3>3 DEF Uncharged, Starts, storeVars
      <3>. QED  BY <3>4 DEF Paid
    <2>3. ASSUME NEW w \in Callback, w = v, Advances(q, k, w)  PROVE ~Paid(o)'
      <3>1. Works(q, k, o) /\ work[q][k].step # "answer" /\ UNCHANGED payments
        BY <2>0, <2>3, SlotIs DEF Advances, Resumes, Works, storeVars
      <3>2. ~Paid(o)
        BY <3>1 DEF Uncharged
      <3>. QED  BY <3>1, <3>2 DEF Paid
    <2>4. ASSUME NEW w \in Callback, w = v, Deducts(q, w)  PROVE FALSE
      BY <1>3, <2>4 DEF Deducts
    <2>5. ASSUME NEW w \in Callback, w = v, Repays(q, w)  PROVE FALSE
      BY <1>3, <2>5 DEF Repays
    <2>. QED  BY <1>3, <2>0, <2>1, <2>2, <2>3, <2>4, <2>5, SlotStep
  <1>4. ASSUME reply[o] = "insufficient" \/ order[o] = "refused"  PROVE ~Paid(o)'
    <2>1. ~Paid(o)
      BY <1>4 DEF Uncharged
    <2>2. \A q \in Processes, k \in Jobs : ~Works(q, k, o)
      BY <1>4 DEF OneRequest
    <2>. QED  BY <1>1, <2>1, <2>2 DEF Jobs
  <1>5. ASSUME NEW p \in Processes, NEW j \in Jobs, Respond(p, j), work[p][j].order = o,
               reply'[o] = "insufficient", reply[o] # "insufficient"
        PROVE  ~Paid(o)'
    <2>. DEFINE w == work[p][j]
    <2>1. /\ w # Idle /\ w.order = o /\ UNCHANGED payments
          /\ reply' = IF Waiting(w.order) /\ tries[w.order] = w.try
                      THEN [reply EXCEPT ![w.order] = w.code] ELSE reply
      BY <1>5, RespondFacts DEF storeVars
    <2>2. reply \in [Orders -> Codes \cup {"none"}]
      BY DEF Shape
    <2>3. w.code = "insufficient"
      BY <1>5, <2>1, <2>2
    <2>4. ~Paid(o)
      BY <2>1, <2>3 DEF Uncharged, Works
    <2>. QED  BY <2>1, <2>4 DEF Paid
  <1>6. ASSUME reply'[o] = "insufficient" \/ order'[o] = "refused"  PROVE ~Paid(o)'
    BY <1>4, <1>5, <1>6, ReplySource
  <1>7. \A q \in Processes, k \in Jobs :
           Works(q, k, o)' /\ (work'[q][k].step # "answer" \/ work'[q][k].code = "insufficient")
           => ~Paid(o)'
    BY <1>3
  <1>. QED  BY <1>2, <1>6, <1>7 DEF Uncharged

LEMMA FirstStep ==
    ASSUME OwnKeys, Shape, TriesOK, WorkOK, ToldOK, FirstOK, StepKind
    PROVE  FirstOK'
  <1>1. SUFFICES ASSUME NEW o \in Orders
                 PROVE  /\ tries'[o] = 1 => OneRequest(o)'
                        /\ tries'[o] = 0 /\ Identified(o) => ~Paid(o)'
                        /\ tries'[o] = 1 /\ Identified(o) => Uncharged(o)'
    BY DEF FirstOK
  <1>2. tries[o] \in Nat /\ tries'[o] \in Nat /\ tries[o] <= tries'[o]
    BY ClientSource
  <1>3. ASSUME tries[o] = 0
        PROVE  /\ \A q \in Processes, k \in Jobs : ~Works(q, k, o)
               /\ \A q \in Processes, k \in Jobs, i \in Nat : ~Holds(q, k, i, o)
    <2>1. ASSUME NEW q \in Processes, NEW k \in Jobs, Works(q, k, o)  PROVE FALSE
      <3>1. work[q][k].try \in 1..0
        BY <1>3, <2>1 DEF TriesOK, Works
      <3>. QED  BY <3>1
    <2>2. ASSUME NEW q \in Processes, NEW k \in Jobs, NEW i \in Nat, Holds(q, k, i, o)
          PROVE  FALSE
      <3>. DEFINE r == queue[q][k][i]
      <3>1. queue[q][k] \in Seq(Request) /\ i \in DOMAIN queue[q][k] /\ r.order = o
        BY <2>2 DEF Shape, Holds
      <3>2. r \in Request
        BY <3>1
      <3>3. r = [order |-> o, try |-> r.try] /\ r.try \in Nat
        BY <3>1, <3>2 DEF Request
      <3>4. \E t \in Nat : Queued(q, k, o, t)
        BY <3>1, <3>3 DEF Queued
      <3>5. \E t \in Nat : t \in 1..0
        BY <1>3, <3>4 DEF TriesOK
      <3>. QED  BY <3>5
    <2>. QED  BY <2>1, <2>2
  <1>4. CASE tries[o] = 1 /\ tries'[o] = 1
    <2>1. OneRequest(o)'
      BY <1>4, OneRequestStep DEF FirstOK
    <2>2. Identified(o) => Uncharged(o)'
      BY <1>4, UnchargedStep DEF FirstOK
    <2>. QED  BY <1>4, <2>1, <2>2
  <1>5. CASE tries[o] = 0 /\ tries'[o] = 0
    <2>1. ASSUME Identified(o), Paid(o)'  PROVE FALSE
      <3>1. ~Paid(o)
        BY <1>5, <2>1 DEF FirstOK
      <3>2. \E q \in Processes : Works(q, "deduct", o)
        BY <2>1, <3>1, PaidSource
      <3>. QED  BY <1>3, <1>5, <3>2 DEF Jobs
    <2>. QED  BY <1>5, <2>1
  <1>6. CASE tries[o] = 0 /\ tries'[o] = 1
    <2>1. PICK p \in Processes, j \in Jobs : Sends(o, p, j)
      <3>1. tries'[o] # tries[o]
        BY <1>6
      <3>. QED  BY <3>1, ClientSource
    <2>2. UNCHANGED <<reply, work, payments>>
      BY <2>1 DEF Sends, storeVars
    <2>3. reply'[o] = "none" /\ order'[o] # "refused" /\ reply'[o] # "insufficient"
      <3>1. ~Waiting(o) /\ order'[o] \in {"paying", "refunding"}
        BY <2>1 DEF Sends, Shape, Waiting
      <3>. QED  BY <2>2, <3>1 DEF ToldOK
    <2>4. \A q \in Processes, k \in Jobs : ~Works(q, k, o)'
      BY <1>3, <1>6, <2>2 DEF Works
    <2>5. ASSUME NEW q \in Processes, NEW k \in Jobs, NEW i \in Nat, Holds(q, k, i, o)'
          PROVE  q = p /\ k = j /\ i = Len(queue[p][j]) + 1
      BY <1>3, <1>6, <2>1, <2>5, SendHolds
    <2>6. OneRequest(o)'
      BY <2>3, <2>4, <2>5 DEF OneRequest
    <2>7. Identified(o) => ~Paid(o)'
      BY <1>6, <2>2 DEF FirstOK, Paid
    <2>8. Identified(o) => Uncharged(o)'
      BY <2>7 DEF Uncharged
    <2>. QED  BY <1>6, <2>6, <2>8
  <1>7. CASE tries'[o] > 1
    BY <1>7
  <1>. QED  BY <1>2, <1>4, <1>5, <1>6, <1>7

-----------------------------------------------------------------------------
(* The invariant and what follows from it.                                 *)

LEMMA PurchaseInit == Init => PurchaseInv
  <1>1. SUFFICES ASSUME Init  PROVE PurchaseInv
    OBVIOUS
  <1>2. /\ \A p \in Processes, j \in Jobs : work[p][j] = Idle /\ queue[p][j] = << >>
        /\ payments = << >> /\ refunds = << >>
        /\ \A o \in Orders : order[o] = "new" /\ tries[o] = 0 /\ reply[o] = "none"
        /\ event = {}
    BY <1>1 DEF Init
  <1>3. \A k : RowsOf(payments, k) = {} /\ RowsOf(refunds, k) = {}
    BY <1>2 DEF RowsOf
  <1>4. \A o : ~Paid(o) /\ ~Repaid(o)
    BY <1>3 DEF Paid, Repaid
  <1>5. "deduct" \in Jobs /\ "credit" \in Jobs
    BY DEF Jobs
  <1>6. \A p \in Processes, j \in Jobs : \A o, t : ~Queued(p, j, o, t) /\ ~Works(p, j, o)
    BY <1>2 DEF Queued, Works
  <1>7. Shape
    <2>1. << >> \in Seq(Request) /\ << >> \in Seq(Booking)
      OBVIOUS
    <2>2. /\ order \in [Orders -> Phases] /\ tries \in [Orders -> Nat]
          /\ reply \in [Orders -> Codes \cup {"none"}] /\ event \subseteq Orders
      BY <1>1 DEF Init, Phases
    <2>3. /\ queue \in [Processes -> [Jobs -> Seq(Request)]]
          /\ work \in [Processes -> [Jobs -> Callback \cup {Idle}]]
      BY <1>1, <2>1 DEF Init
    <2>4. live \subseteq Bots /\ balance \in [Users -> Nat]
      BY <1>1, PaymentAssumption DEF Init
    <2>5. payments \in Seq(Booking) /\ refunds \in Seq(Booking)
      BY <1>2, <2>1
    <2>6. notified \in [KeySet -> Nat] /\ overlapped \subseteq KeySet
      BY <1>1 DEF Init
    <2>7. timeouts \in 0..MaxTimeOuts /\ faults \in 0..MaxFaults
      BY <1>1, PaymentAssumption DEF Init
    <2>. QED  BY <2>2, <2>3, <2>4, <2>5, <2>6, <2>7 DEF Shape
  <1>8. TriesOK /\ KindsOK
    BY <1>2, <1>5, <1>6 DEF TriesOK, KindsOK
  <1>9. WorkOK
    BY <1>2 DEF WorkOK
  <1>10. ToldOK
    BY <1>2, <1>4 DEF ToldOK, Confirmed
  <1>11. RefundsOK
    BY <1>2, <1>4 DEF RefundsOK
  <1>12. OverlapOK
    <2>1. Idle.step # "commit"
      BY DEF Idle
    <2>. QED  BY <1>2, <1>3, <1>5, <2>1 DEF OverlapOK, At
  <1>13. TellingOK
    <2>1. ASSUME NEW k \in KeySet
          PROVE  /\ IsFiniteSet(Telling(k))
                 /\ notified[k] + Cardinality(Telling(k)) <= Cardinality(RowsOf(payments, k))
      <3>1. Telling(k) = {}
        BY <1>2, <1>5 DEF Telling
      <3>2. notified[k] = 0
        BY <1>1 DEF Init
      <3>3. RowsOf(payments, k) = {}
        BY <1>3
      <3>. QED  BY <3>1, <3>2, <3>3, FS_EmptySet
    <2>. QED  BY <2>1 DEF TellingOK
  <1>. QED  BY <1>7, <1>8, <1>9, <1>10, <1>11, <1>12, <1>13 DEF PurchaseInv

LEMMA PurchaseStep == PurchaseInv /\ [Next]_vars => PurchaseInv'
  <1>1. SUFFICES ASSUME PurchaseInv, [Next]_vars  PROVE PurchaseInv'
    OBVIOUS
  <1>. USE <1>1 DEF PurchaseInv
  <1>2. StepKind
    BY StepKinds
  <1>3. Shape'
    BY ShapeStep
  <1>4. TriesOK'
    BY <1>2, <1>3, TriesStep
  <1>5. WorkOK'
    BY <1>2, <1>3, WorkStep
  <1>6. KindsOK'
    BY <1>2, <1>3, KindsStep
  <1>7. ToldOK'
    BY <1>2, <1>3, ToldStep
  <1>8. RefundsOK'
    BY <1>2, RefundsStep
  <1>9. OverlapOK'
    BY <1>2, OverlapStep
  <1>10. TellingOK'
    BY <1>2, <1>3, TellingStep
  <1>. QED  BY <1>3, <1>4, <1>5, <1>6, <1>7, <1>8, <1>9, <1>10

LEMMA PurchaseAlways == Spec => []PurchaseInv
  <1>. QED  BY PurchaseInit, PurchaseStep, PTL DEF Spec

(* The rows of an order of its own key, and its first request.             *)
LEMMA OwnKeyInit == ASSUME Init  PROVE PricesOK /\ FirstOK
  <1>1. /\ \A p \in Processes, j \in Jobs : work[p][j] = Idle /\ queue[p][j] = << >>
        /\ payments = << >> /\ refunds = << >>
        /\ \A o \in Orders : tries[o] = 0
    BY DEF Init
  <1>2. \A k : RowsOf(payments, k) = {} /\ RowsOf(refunds, k) = {}
    BY <1>1 DEF RowsOf
  <1>3. PricesOK
    BY <1>2 DEF PricesOK, Repaid
  <1>4. FirstOK
    BY <1>1, <1>2 DEF FirstOK, Paid
  <1>. QED  BY <1>3, <1>4

LEMMA OwnKeyAlways ==
    ASSUME OwnKeys
    PROVE  Spec => []OwnKeyInv
  <1>1. Init => OwnKeyInv
    BY PurchaseInit, OwnKeyInit DEF OwnKeyInv
  <1>2. OwnKeyInv /\ [Next]_vars => OwnKeyInv'
    <2>1. SUFFICES ASSUME OwnKeyInv, [Next]_vars  PROVE OwnKeyInv'
      OBVIOUS
    <2>2. PurchaseInv'
      BY <2>1, PurchaseStep DEF OwnKeyInv
    <2>. USE <2>1 DEF OwnKeyInv, PurchaseInv
    <2>3. StepKind
      BY StepKinds
    <2>4. PricesOK'
      BY <2>3, PricesStep
    <2>5. FirstOK'
      BY <2>3, FirstStep
    <2>. QED  BY <2>2, <2>4, <2>5
  <1>. QED  BY <1>1, <1>2, PTL DEF Spec

(* Every variable keeps its type, and no callback serves a request that    *)
(* was not sent.                                                           *)
THEOREM PurchaseTypeCorrect == Spec => []TypeOK
  <1>1. ASSUME PurchaseInv  PROVE TypeOK
    <2>1. Shape /\ TriesOK /\ WorkOK
      BY <1>1 DEF PurchaseInv
    <2>2. ASSUME NEW p \in Processes, NEW j \in Jobs, work[p][j] # Idle
          PROVE  /\ work[p][j].step \in {"check", "find", "commit", "answer"}
                 /\ work[p][j].order \in Orders /\ work[p][j].try \in 1..tries[work[p][j].order]
                 /\ work[p][j].step = "answer" => work[p][j].code \in Codes
      <3>1. work[p][j] \in Callback
        BY <2>1, <2>2, SlotIs
      <3>2. work[p][j].step \in {"check", "find", "commit", "answer"} /\ work[p][j].order \in Orders
        BY <3>1 DEF Callback
      <3>3. work[p][j].try \in 1..tries[work[p][j].order]
        BY <2>1, <2>2 DEF TriesOK
      <3>4. work[p][j].step = "answer" => work[p][j].code \in Codes
        BY <2>1, <2>2 DEF WorkOK
      <3>. QED  BY <3>2, <3>3, <3>4
    <2>. QED  BY <2>1, <2>2 DEF TypeOK, Shape, Booking
  <1>. QED  BY <1>1, PurchaseAlways, PTL

(* Deduct's comment on retries: an order is not charged twice unless two   *)
(* callbacks worked on its key at the same time.                           *)
THEOREM ChargesAreSingle == Spec => []ChargedOnce
  <1>1. ASSUME PurchaseInv  PROVE ChargedOnce
    <2>1. SUFFICES ASSUME NEW o \in Orders, Key(o) \notin overlapped
                   PROVE  ~(Cardinality(Charges(o)) > 1)
      BY DEF ChargedOnce
    <2>2. Key(o) \in KeySet \ overlapped
      BY <2>1 DEF KeySet
    <2>3. \A i, j \in Charges(o) : i = j
      BY <1>1, <2>2, RowsAre DEF PurchaseInv, OverlapOK
    <2>4. Charges(o) = {} \/ \E i : Charges(o) = {i}
      BY <2>3
    <2>5. Cardinality(Charges(o)) \in {0, 1}
      BY <2>4, FS_EmptySet, FS_Singleton
    <2>. QED  BY <2>5
  <1>. QED  BY <1>1, PurchaseAlways, PTL

(* Pay's comment: the user is told of a payment at most once for each row  *)
(* it left, however often it was asked for.                                *)
THEOREM ToldOncePerPayment == Spec => []ToldPerPayment
  <1>1. ASSUME PurchaseInv  PROVE ToldPerPayment
    <2>1. SUFFICES ASSUME NEW o \in Orders  PROVE notified[Key(o)] <= Cardinality(Charges(o))
      BY DEF ToldPerPayment
    <2>2. Key(o) \in KeySet /\ Charges(o) = RowsOf(payments, Key(o))
      BY RowsAre DEF KeySet
    <2>3. /\ IsFiniteSet(Telling(Key(o)))
          /\ notified[Key(o)] + Cardinality(Telling(Key(o))) <= Cardinality(Charges(o))
      BY <1>1, <2>2 DEF PurchaseInv, TellingOK
    <2>4. Cardinality(Telling(Key(o))) \in Nat /\ notified[Key(o)] \in Nat
      BY <1>1, <2>2, <2>3, FS_CardinalityType DEF PurchaseInv, Shape
    <2>5. [key |-> Key(o), amount |-> 0] \in Booking /\ payments \in Seq(Booking)
      BY <1>1, <2>2 DEF Booking, PurchaseInv, Shape
    <2>6. Cardinality(Charges(o)) \in Nat
      BY <2>2, <2>5, RowsAppend, FS_CardinalityType
    <2>. QED  BY <2>3, <2>4, <2>6
  <1>. QED  BY <1>1, PurchaseAlways, PTL

(* If a ref or an idempotency key names one order: a refund is booked      *)
(* once, only for what was charged and in that amount, and never for an    *)
(* order that was served; an order closed as refunded has its money back.  *)
THEOREM RefundsAreBacked ==
    ASSUME OwnKeys
    PROVE  Spec => []RefundBacked
  <1>1. ASSUME OwnKeyInv  PROVE RefundBacked
    <2>1. SUFFICES ASSUME NEW o \in Orders
                   PROVE  /\ Cardinality(Credits(o)) <= 1
                          /\ \A i \in Credits(o) : \E j \in Charges(o) :
                                Identified(o) => refunds[i].amount = payments[j].amount
                          /\ order[o] = "refunded" => Credits(o) # {}
                          /\ order[o] = "served" /\ Identified(o) => Credits(o) = {}
      BY DEF RefundBacked
    <2>2. Charges(o) = RowsOf(payments, Key(o)) /\ Credits(o) = RowsOf(refunds, Key(o))
      BY RowsAre
    <2>3. \A i, j \in Credits(o) : i = j
      BY <1>1 DEF OwnKeyInv, PurchaseInv, RefundsOK, Credits
    <2>4. Credits(o) = {} \/ \E i : Credits(o) = {i}
      BY <2>3
    <2>5. Cardinality(Credits(o)) \in {0, 1}
      BY <2>4, FS_EmptySet, FS_Singleton
    <2>6. Cardinality(Credits(o)) <= 1
      BY <2>5
    <2>7. ASSUME NEW i \in Credits(o)
          PROVE  \E j \in Charges(o) : Identified(o) => refunds[i].amount = payments[j].amount
      <3>1. PICK j : j \in Charges(o)
        BY <1>1, <2>2, <2>7 DEF OwnKeyInv, PurchaseInv, RefundsOK, Paid, Repaid
      <3>2. Identified(o) => refunds[i].amount = Nano(o) /\ payments[j].amount = Nano(o)
        BY <1>1, <2>2, <2>7, <3>1 DEF OwnKeyInv, PricesOK
      <3>. QED  BY <3>1, <3>2
    <2>8. order[o] = "refunded" => Credits(o) # {}
      BY <1>1, <2>2 DEF OwnKeyInv, PurchaseInv, ToldOK, Repaid
    <2>9. order[o] = "served" /\ Identified(o) => Credits(o) = {}
      <3>1. "served" \notin Returning
        BY DEF Returning
      <3>. QED  BY <1>1, <2>2, <3>1 DEF OwnKeyInv, PricesOK, Repaid
    <2>. QED  BY <2>6, <2>7, <2>8, <2>9
  <1>. QED  BY <1>1, OwnKeyAlways, PTL

(* Under the same condition, what a service was told is paid was paid, at  *)
(* its price but for the nano that TONToNano may cut off.                  *)
THEOREM SuccessIsBacked ==
    ASSUME OwnKeys
    PROVE  Spec => []SuccessIsPaid
  <1>1. ASSUME OwnKeyInv  PROVE SuccessIsPaid
    <2>1. SUFFICES ASSUME NEW o \in Orders, order[o] \in Confirmed
          PROVE  \E i \in Charges(o) : Identified(o) => Price[o] - payments[i].amount \in {0, 1}
      BY DEF SuccessIsPaid
    <2>2. Charges(o) = RowsOf(payments, Key(o))
      BY RowsAre
    <2>3. Charges(o) # {}
      BY <1>1, <2>1, <2>2 DEF OwnKeyInv, PurchaseInv, ToldOK, Paid
    <2>4. \A i \in Charges(o) : Identified(o) => payments[i].amount = Nano(o)
      BY <1>1, <2>2 DEF OwnKeyInv, PricesOK
    <2>. QED  BY <2>3, <2>4, NanoIs
  <1>. QED  BY <1>1, OwnKeyAlways, PTL

(* Where TONToNano keeps every price, what was charged is the price.       *)
THEOREM PriceIsPaid ==
    ASSUME OwnKeys, Lossy = {}
    PROVE  Spec => []PaidInFull
  <1>1. ASSUME OwnKeyInv  PROVE PaidInFull
    <2>1. SUFFICES ASSUME NEW o \in Orders, order[o] \in Confirmed, Identified(o)
                   PROVE  \E i \in Charges(o) : payments[i].amount = Price[o]
      BY DEF PaidInFull
    <2>2. Charges(o) = RowsOf(payments, Key(o)) /\ Nano(o) = Price[o]
      BY RowsAre DEF Nano, TONToNano
    <2>3. Charges(o) # {}
      BY <1>1, <2>1, <2>2 DEF OwnKeyInv, PurchaseInv, ToldOK, Paid
    <2>4. \A i \in Charges(o) : payments[i].amount = Price[o]
      BY <1>1, <2>1, <2>2 DEF OwnKeyInv, PricesOK
    <2>. QED  BY <2>3, <2>4
  <1>. QED  BY <1>1, OwnKeyAlways, PTL

(* "Insufficient balance" in answer to the first request means that        *)
(* nothing was or will be charged for the order.                           *)
THEOREM FirstRefusalSettles ==
    ASSUME OwnKeys
    PROVE  Spec => []FirstRefusalIsFinal
  <1>1. ASSUME OwnKeyInv  PROVE FirstRefusalIsFinal
    <2>1. SUFFICES ASSUME NEW o \in Orders, order[o] = "refused", tries[o] = 1, Identified(o)
                   PROVE  Charges(o) = {}
      BY DEF FirstRefusalIsFinal
    <2>2. ~Paid(o)
      BY <1>1, <2>1 DEF OwnKeyInv, FirstOK, Uncharged
    <2>. QED  BY <2>2, RowsAre DEF Paid
  <1>. QED  BY <1>1, OwnKeyAlways, PTL

(* One process serves the queue group.                                     *)
OneProcess == \A p, q \in Processes : p = q

(* No order is charged twice, whatever was lost, timed out or retried.     *)
NeverChargedTwice == \A o \in Orders : Cardinality(Charges(o)) <= 1

(* A process takes a deduction when its callback is idle: alone, it meets  *)
(* no other one.                                                           *)
LEMMA AloneStep ==
    ASSUME OneProcess, Shape, StepKind, overlapped = {}
    PROVE  overlapped' = {}
  <1>1. ASSUME NEW p \in Processes, NEW j \in Jobs, NEW w \in Callback, Starts(p, j, w)
        PROVE  overlapped' = {}
    <2>1. work[p][j] = Idle /\ \A q \in Processes : q = p
      BY <1>1 DEF OneProcess, Starts
    <2>2. {q \in Processes : /\ j = "deduct" /\ work[q][j] # Idle
                             /\ Key(work[q][j].order) = Key(w.order)} = {}
      BY <2>1
    <2>3. overlapped' = overlapped \cup
              {Key(w.order) : q \in {q \in Processes : /\ j = "deduct" /\ work[q][j] # Idle
                                                      /\ Key(work[q][j].order) = Key(w.order)}}
      BY <1>1 DEF Starts
    <2>. QED  BY <2>2, <2>3
  <1>2. ASSUME ~\E p \in Processes, j \in Jobs, w \in Callback : Starts(p, j, w)
        PROVE  overlapped' = overlapped
    BY <1>2 DEF StepKind, Sends, Turns, Advances, Deducts, Repays, Respond, LoseRequest, Crash
  <1>. QED  BY <1>1, <1>2

(* A retry that reaches the process that had its original waits for it:    *)
(* with one process the look-up of the key, made before the row lock, is   *)
(* enough, and no order is ever charged twice.  A second process in the    *)
(* queue group is what ChargedOnce needs its exception for.                *)
THEOREM OneProcessChargesOnce ==
    ASSUME OneProcess
    PROVE  Spec => []NeverChargedTwice
  <1>. DEFINE Alone == PurchaseInv /\ overlapped = {}
  <1>1. Init => Alone
    BY PurchaseInit DEF Init
  <1>2. Alone /\ [Next]_vars => Alone'
    <2>1. SUFFICES ASSUME Alone, [Next]_vars  PROVE Alone'
      OBVIOUS
    <2>2. PurchaseInv'
      BY <2>1, PurchaseStep
    <2>3. Shape /\ StepKind
      BY <2>1, StepKinds DEF PurchaseInv
    <2>. QED  BY <2>1, <2>2, <2>3, AloneStep
  <1>3. ASSUME PurchaseInv, overlapped = {}  PROVE NeverChargedTwice
    <2>1. SUFFICES ASSUME NEW o \in Orders  PROVE Cardinality(Charges(o)) <= 1
      BY DEF NeverChargedTwice
    <2>2. Key(o) \in KeySet \ overlapped
      BY <1>3 DEF KeySet
    <2>3. \A i, j \in Charges(o) : i = j
      BY <1>3, <2>2, RowsAre DEF PurchaseInv, OverlapOK
    <2>4. Charges(o) = {} \/ \E i : Charges(o) = {i}
      BY <2>3
    <2>5. Cardinality(Charges(o)) \in {0, 1}
      BY <2>4, FS_EmptySet, FS_Singleton
    <2>. QED  BY <2>5
  <1>4. Alone => NeverChargedTwice
    BY <1>3
  <1>. QED  BY <1>1, <1>2, <1>4, PTL DEF Spec
===========================================================================
