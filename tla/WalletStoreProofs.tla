------------------------- MODULE WalletStoreProofs -------------------------
(***************************************************************************)
(* Proofs about WalletStore, for any wallets, keys, sessions and calls.    *)
(* Types first; then freshness of what is read under a row lock, on which  *)
(* everything else rests: the checks, the chain, the credits, the books.   *)
(***************************************************************************)
EXTENDS WalletStore, TLAPS

-----------------------------------------------------------------------------
(* Type correctness.                                                       *)

CallsOK == \A s \in Sessions : CallOK(s)

(* The updates of a wallet row give a wallet row again.                    *)
LEMMA RowOps ==
    ASSUME NEW row \in Row, NEW read \in Row, NEW n \in Int
    PROVE  /\ CreditUsed(row, n) \in Int /\ TonUsed(row, n) \in Int
           /\ Realized(row) \in Int
           /\ Charge(row, read, n) \in Row
           /\ Receive(row, read, n) \in Row
           /\ AddTon(row, n) \in Row /\ GiveCredit(row, n) \in Row
           /\ Hold(row, n) \in Row /\ PayOut(row, n) \in Row
  <1>1. CreditUsed(row, n) \in Int /\ CreditUsed(read, n) \in Int
    BY DEF Row, CreditUsed
  <1>2. TonUsed(row, n) \in Int /\ TonUsed(read, n) \in Int
    BY <1>1 DEF TonUsed
  <1>3. Charge(row, read, n) \in Row
    BY <1>1, <1>2 DEF Row, Charge
  <1>4. Receive(row, read, n) \in Row
    BY <1>1, <1>2 DEF Row, Receive
  <1>5. AddTon(row, n) \in Row /\ GiveCredit(row, n) \in Row
        /\ Hold(row, n) \in Row /\ PayOut(row, n) \in Row
    BY DEF Row, AddTon, GiveCredit, Hold, PayOut
  <1>6. QED
    BY <1>1, <1>2, <1>3, <1>4, <1>5 DEF Row, Realized

(* A hold changes neither balance.                                         *)
LEMMA HoldRow ==
    ASSUME NEW row \in Row, NEW n \in Int
    PROVE  /\ Hold(row, n) \in Row /\ Hold(row, n).credit = row.credit
           /\ Realized(Hold(row, n)) = Realized(row)
  BY DEF Row, Hold, Realized

(* The realized balance of a row is a number.                              *)
LEMMA RealizedType == \A row \in Row : Realized(row) \in Int
  BY DEF Row, Realized

(* lastChainEntryTx returns a tip.                                         *)
LEMMA TipType ==
    ASSUME NEW chain \in Seq(Entry)
    PROVE  TipOf(chain) \in Tip
  <1>1. CASE chain = << >>
    BY <1>1 DEF TipOf, GenesisTip, GenesisHash, Tip, Hash
  <1>2. CASE chain # << >>
    <2>1. chain[Len(chain)] \in Entry
      BY <1>2
    <2>2. QED
      BY <1>2, <2>1 DEF TipOf, Entry, Content, Tip
  <1>3. QED
    BY <1>1, <1>2

(* linkEntry returns a ledger entry.                                       *)
LEMMA LinkType ==
    ASSUME NEW t \in Tip, NEW id \in Int, NEW w \in Wallets, NEW e \in EntryType,
           NEW n \in Int, NEW bal \in Int
    PROVE  LinkEntry(t, id, w, e, n, bal) \in Entry
  BY DEF LinkEntry, Entry, Content, Tip, Hash, ComputeHash

(* A new transaction row has its type.                                     *)
LEMMA NewTxType ==
    ASSUME NEW type \in TxType, NEW w \in Wallets, NEW k \in Keys \cup {NoKey}, NEW n \in Int
    PROVE  NewTx(type, w, k, n) \in Tx
  BY DEF NewTx, Tx

(* Every path out of a method leaves an idle session.                      *)
LEMMA FinishType ==
    ASSUME TypeOK, NEW s \in Sessions, Finish(s)
    PROVE  /\ lock' \in [Wallets -> Sessions \cup {None}]
           /\ pc' \in [Sessions -> Steps]
           /\ call' \in [Sessions -> Job \cup {NoCall}]
           /\ snap' \in [Sessions -> Row]
           /\ toSnap' \in [Sessions -> Row]
           /\ tip' \in [Sessions -> Tip]
           /\ started' \in Nat
  <1>1. EmptyRow \in Row /\ GenesisTip \in Tip /\ "idle" \in Steps
    BY DEF EmptyRow, Row, GenesisTip, GenesisHash, Tip, Hash, Steps
  <1>2. QED
    BY <1>1 DEF TypeOK, Finish, Goto

(* The empty database is well typed.                                       *)
LEMMA TypeInit == Init => TypeOK /\ CallsOK
  <1>1. EmptyRow \in Row /\ GenesisTip \in Tip /\ "idle" \in Steps
    BY DEF EmptyRow, Row, GenesisTip, GenesisHash, Tip, Hash, Steps
  <1>2. Init => TypeOK
    BY <1>1 DEF Init, TypeOK
  <1>3. Init => CallsOK
    BY StoreAssumption DEF Init, CallsOK, CallOK, NoCall, Settles, Ops
  <1>4. QED
    BY <1>2, <1>3

(* A settlement takes wallet and amount from its request; other calls keep *)
(* their arguments.                                                        *)
LEMMA ArgumentsType ==
    ASSUME TypeOK, NEW c \in Calls, Accepts(c)
    PROVE  /\ Arguments(c) \in Job
           /\ Arguments(c).op = c.op /\ Arguments(c).key = c.key
           /\ c.op \notin Settles => Arguments(c) = c
           /\ c.op \in Settles => /\ c.req \in DOMAIN reqs
                                  /\ Arguments(c).req = c.req
                                  /\ Arguments(c).wallet = reqs[c.req].wallet
                                  /\ Arguments(c).amount = Total(reqs[c.req])
  <1>1. c \in Job
    BY StoreAssumption
  <1>2. CASE c.op \notin Settles
    BY <1>1, <1>2 DEF Arguments
  <1>3. CASE c.op \in Settles
    <2>1. c.req \in DOMAIN reqs
      BY <1>3 DEF Accepts
    <2>2. reqs[c.req] \in Request
      BY <2>1 DEF TypeOK
    <2>3. reqs[c.req].wallet \in Wallets /\ Total(reqs[c.req]) \in Int
      BY <2>2 DEF Request, Total
    <2>4. QED
      BY <1>1, <1>3, <2>1, <2>3 DEF Arguments, Job
  <1>4. QED
    BY <1>2, <1>3

(* A request keeps its wallet and its total for ever.                      *)
ReqsStable ==
    /\ DOMAIN reqs \subseteq DOMAIN reqs'
    /\ \A i \in DOMAIN reqs : /\ reqs'[i].wallet = reqs[i].wallet
                             /\ Total(reqs'[i]) = Total(reqs[i])

(* The calls of the sessions that do not move stay in order.               *)
LEMMA CallFrame ==
    ASSUME NEW t \in Sessions, CallOK(t), ReqsStable,
           pc'[t] = pc[t], call'[t] = call[t]
    PROVE  CallOK(t)'
  <1>1. ASSUME call[t].op \in Settles
        PROVE  /\ call[t].req \in DOMAIN reqs'
               /\ call[t].wallet = reqs'[call[t].req].wallet
               /\ call[t].amount = Total(reqs'[call[t].req])
    BY <1>1 DEF CallOK, ReqsStable
  <1>2. QED
    BY <1>1 DEF CallOK

(* The end of a transaction leaves the other sessions where they are.      *)
LEMMA FinishCall ==
    ASSUME TypeOK, NEW s \in Sessions, Finish(s)
    PROVE  /\ CallOK(s)'
           /\ \A t \in Sessions \ {s} : pc'[t] = pc[t] /\ call'[t] = call[t]
  <1>1. pc'[s] = "idle" /\ call'[s] = NoCall
    BY DEF TypeOK, Finish, Goto
  <1>2. None \notin Ops
    BY StoreAssumption
  <1>3. CallOK(s)'
    BY <1>1, <1>2 DEF CallOK, NoCall, Ops, Settles
  <1>4. QED
    BY <1>3 DEF TypeOK, Finish, Goto

(* The start of a call keeps the types.                                    *)
LEMMA BeginType ==
    ASSUME TypeOK, CallsOK, NEW s \in Sessions, NEW c \in Calls, Begin(s, c)
    PROVE  TypeOK' /\ CallsOK'
  <1> DEFINE d == Arguments(c)
  <1>1. c \in Job /\ Accepts(c)
    BY StoreAssumption DEF Begin
  <1>2. FirstStep(c) \in Steps
    BY DEF FirstStep, Steps
  <1>3. d \in Job
    BY <1>1, ArgumentsType
  <1>4. TypeOK'
    BY <1>2, <1>3 DEF TypeOK, Begin, Goto, tables
  <1>5. ReqsStable
    BY DEF Begin, tables, ReqsStable
  <1>6. call'[s] = d /\ pc'[s] = FirstStep(c)
    BY DEF TypeOK, Begin, Goto
  <1>7. CallOK(s)'
    <2>1. d.op = c.op /\ d.key = c.key /\ (c.op \notin Settles => d = c)
      BY <1>1, ArgumentsType
    <2>2. c.op \in Settles => /\ d.req \in DOMAIN reqs'
                             /\ d.wallet = reqs'[d.req].wallet
                             /\ d.amount = Total(reqs'[d.req])
      BY <1>1, ArgumentsType DEF Begin, tables
    <2>3. c.op \in {"AddCredit", "Deposit", "CompleteWithdraw"} => c.key \in Keys
      BY <1>1, StoreAssumption DEF Accepts, Job
    <2>4. c.op \in Ops
      BY <1>1 DEF Job
    <2>5. /\ FirstStep(c) = "find" => c.op \in {"Deposit", "Deduct"}
          /\ FirstStep(c) = "read" => c.op = "CreateWithdraw"
          /\ FirstStep(c) = "release" => c.op = "RejectWithdraw"
          /\ FirstStep(c) = "lock" =>
                c.op \in {"Deduct", "AddCredit", "Transfer", "CompleteWithdraw"}
          /\ FirstStep(c) \in {"find", "read", "release", "lock"}
      BY <2>4 DEF FirstStep, Ops
    <2>6. /\ c.op \in {"Deposit", "Deduct", "AddCredit", "Transfer"} => c.amount > 0
          /\ c.op = "Transfer" => c.wallet # c.to
          /\ c.op = "CreateWithdraw" => c.amount >= MinWithdraw
      BY <1>1 DEF Accepts
    <2> HIDE DEF d
    <2>7. QED
      BY <1>3, <1>6, <2>1, <2>2, <2>3, <2>5, <2>6 DEF CallOK, Settles
  <1>8. \A t \in Sessions \ {s} : pc'[t] = pc[t] /\ call'[t] = call[t]
    BY DEF TypeOK, Begin, Goto
  <1>9. QED
    BY <1>4, <1>5, <1>7, <1>8, CallFrame DEF CallsOK

(* The steps that leave the tables alone.                                  *)
LEMMA ReadType ==
    ASSUME TypeOK, CallsOK, NEW s \in Sessions,
           \/ FindDuplicate(s) \/ LockWallet(s) \/ LockRecipient(s) \/ ReadWallet(s)
           \/ CheckEnough(s) \/ ReadTip(s) \/ SeqConflict(s) \/ DeadlockVictim(s)
           \/ Abort(s)
    PROVE  TypeOK' /\ CallsOK'
  <1>1. UNCHANGED tables
    BY DEF FindDuplicate, LockWallet, LockRecipient, ReadWallet, CheckEnough, ReadTip,
           SeqConflict, DeadlockVictim, Abort
  <1>2. ReqsStable
    BY <1>1 DEF tables, ReqsStable
  <1>3. ASSUME Finish(s) PROVE TypeOK' /\ CallsOK'
    <2>1. TypeOK'
      BY <1>1, <1>3, FinishType DEF TypeOK, tables
    <2>2. CallsOK'
      BY <1>2, <1>3, FinishCall, CallFrame DEF CallsOK
    <2>3. QED
      BY <2>1, <2>2
  <1>4. ASSUME NEW step \in Steps, Goto(s, step), call' = call, pc[s] # "idle",
               LET c == call[s] IN
               /\ step \in {"find", "lockTo", "tip", "check", "commit", "lock", "freeze"}
               /\ step = "find" => c.op = "AddCredit"
               /\ step = "lock" => c.op \in {"Deposit", "Deduct"}
               /\ step \in {"tip", "commit"} => c.op \in
                     {"Deposit", "Deduct", "AddCredit", "Transfer", "CompleteWithdraw"}
               /\ step = "lockTo" => c.op = "Transfer"
               /\ step = "check" => c.op \in {"Deduct", "Transfer", "CreateWithdraw"}
               /\ step = "freeze" => c.op = "CreateWithdraw"
        PROVE  CallsOK'
    <2>1. pc'[s] = step /\ \A t \in Sessions \ {s} : pc'[t] = pc[t]
      BY <1>4 DEF TypeOK, Goto
    <2>2. CallOK(s)'
      BY <1>1, <1>4, <2>1 DEF CallOK, CallsOK, tables
    <2>3. QED
      BY <1>2, <1>4, <2>1, <2>2, CallFrame DEF CallsOK
  <1> DEFINE c == call[s]
  <1>5. pc[s] # "idle" => c \in Job
    BY DEF CallsOK, CallOK
  <1>6. CASE FindDuplicate(s) /\ ~Finish(s)
    <2>1. Goto(s, AfterFind(c)) /\ pc[s] = "find"
          /\ UNCHANGED <<lock, call, snap, toSnap, tip, started>>
      BY <1>6 DEF FindDuplicate
    <2>2. AfterFind(c) \in Steps
      BY DEF AfterFind, Steps
    <2>3. CallsOK'
      BY <2>1, <2>2, <1>4 DEF AfterFind, CallsOK, CallOK
    <2>4. TypeOK'
      BY <1>1, <2>1, <2>2 DEF TypeOK, Goto, tables
    <2>5. QED
      BY <2>3, <2>4
  <1>7. CASE LockWallet(s)
    <2>1. Goto(s, AfterLock(c)) /\ pc[s] = "lock" /\ UNCHANGED <<call, toSnap, tip, started>>
      BY <1>7 DEF LockWallet
    <2>2. AfterLock(c) \in Steps
      BY DEF AfterLock, Steps
    <2>3. CallsOK'
      BY <2>1, <2>2, <1>4 DEF AfterLock, CallsOK, CallOK
    <2>4. c.wallet \in Wallets
      BY <1>5, <2>1 DEF Job
    <2>5. TypeOK'
      BY <1>1, <1>7, <2>1, <2>2, <2>4 DEF TypeOK, Goto, tables, LockWallet
    <2>6. QED
      BY <2>3, <2>5
  <1>8. CASE LockRecipient(s)
    <2>1. Goto(s, "check") /\ pc[s] = "lockTo" /\ UNCHANGED <<call, snap, tip, started>>
      BY <1>8 DEF LockRecipient
    <2>2. "check" \in Steps
      BY DEF Steps
    <2>3. CallsOK'
      BY <2>1, <2>2, <1>4 DEF CallsOK, CallOK
    <2>4. c.to \in Wallets
      BY <1>5, <2>1 DEF Job
    <2>5. TypeOK'
      BY <1>1, <1>8, <2>1, <2>2, <2>4 DEF TypeOK, Goto, tables, LockRecipient
    <2>6. QED
      BY <2>3, <2>5
  <1>9. CASE ReadWallet(s)
    <2>1. Goto(s, "check") /\ pc[s] = "read" /\ UNCHANGED <<lock, call, toSnap, tip, started>>
      BY <1>9 DEF ReadWallet
    <2>2. "check" \in Steps
      BY DEF Steps
    <2>3. CallsOK'
      BY <2>1, <2>2, <1>4 DEF CallsOK, CallOK
    <2>4. c.wallet \in Wallets
      BY <1>5, <2>1 DEF Job
    <2>5. TypeOK'
      BY <1>1, <1>9, <2>1, <2>2, <2>4 DEF TypeOK, Goto, tables, ReadWallet
    <2>6. QED
      BY <2>3, <2>5
  <1>10. CASE CheckEnough(s) /\ ~Finish(s)
    <2>1. Goto(s, AfterCheck(c)) /\ pc[s] = "check"
          /\ UNCHANGED <<lock, call, snap, toSnap, tip, started>>
      BY <1>10 DEF CheckEnough
    <2>2. AfterCheck(c) \in Steps
      BY DEF AfterCheck, Steps
    <2>3. CallsOK'
      BY <2>1, <2>2, <1>4 DEF AfterCheck, CallsOK, CallOK
    <2>4. TypeOK'
      BY <1>1, <2>1, <2>2 DEF TypeOK, Goto, tables
    <2>5. QED
      BY <2>3, <2>4
  <1>11. CASE ReadTip(s)
    <2>1. Goto(s, "commit") /\ pc[s] = "tip" /\ UNCHANGED <<lock, call, snap, toSnap, started>>
      BY <1>11 DEF ReadTip
    <2>2. "commit" \in Steps
      BY DEF Steps
    <2>3. CallsOK'
      BY <2>1, <2>2, <1>4 DEF CallsOK, CallOK
    <2>4. TipOf(ledger) \in Tip
      BY TipType DEF TypeOK
    <2>5. TypeOK'
      BY <1>1, <1>11, <2>1, <2>2, <2>4 DEF TypeOK, Goto, tables, ReadTip
    <2>6. QED
      BY <2>3, <2>5
  <1>12. QED
    BY <1>3, <1>6, <1>7, <1>8, <1>9, <1>10, <1>11 DEF SeqConflict, DeadlockVictim, Abort

(* The steps that change the tables.                                       *)
LEMMA PostType ==
    ASSUME TypeOK, NEW s \in Sessions, call[s] \in Job, NEW row \in Row,
           NEW type \in TxType, NEW entryType \in EntryType,
           Post(s, row, type, entryType)
    PROVE  wallet' \in [Wallets -> Row] /\ txs' \in Seq(Tx) /\ ledger' \in Seq(Entry)
  <1> DEFINE c == call[s]
             n == IF entryType = "credit" THEN c.amount ELSE -c.amount
  <1>1. c.wallet \in Wallets /\ c.amount \in Int /\ c.key \in Keys \cup {NoKey}
    BY DEF Job
  <1>2. n \in Int
    BY <1>1
  <1>3. tip[s] \in Tip /\ snap[s] \in Row /\ Len(txs) + 1 \in Int
    BY DEF TypeOK
  <1>4. Realized(snap[s]) + n \in Int
    BY <1>2, <1>3, RealizedType
  <1>5. NewTx(type, c.wallet, c.key, n) \in Tx
    BY <1>1, <1>2, NewTxType
  <1>6. LinkEntry(tip[s], Len(txs) + 1, c.wallet, entryType, c.amount,
                  Realized(snap[s]) + n) \in Entry
    BY <1>1, <1>3, <1>4, LinkType
  <1> HIDE DEF n
  <1>7. wallet' \in [Wallets -> Row]
    BY <1>1 DEF Post, TypeOK
  <1>8. txs' = Append(txs, NewTx(type, c.wallet, c.key, n))
    BY DEF Post, n
  <1>9. ledger' = Append(ledger, LinkEntry(tip[s], Len(txs) + 1, c.wallet, entryType,
                                           c.amount, Realized(snap[s]) + n))
    BY DEF Post, n
  <1>10. QED
    BY <1>5, <1>6, <1>7, <1>8, <1>9 DEF TypeOK

(* A new status changes nothing else of the withdrawal requests.           *)
LEMMA RequestStatus ==
    ASSUME TypeOK, NEW i \in DOMAIN reqs, NEW st \in WithdrawStatus,
           reqs' = [reqs EXCEPT ![i].status = st]
    PROVE  reqs' \in Seq(Request) /\ ReqsStable
  <1>1. reqs \in Seq(Request) /\ reqs[i] \in Request
    BY DEF TypeOK
  <1>2. [reqs[i] EXCEPT !.status = st] \in Request
    BY <1>1 DEF Request
  <1>3. reqs' \in Seq(Request)
    BY <1>1, <1>2
  <1>4. DOMAIN reqs' = DOMAIN reqs
    BY <1>1
  <1>5. ASSUME NEW j \in DOMAIN reqs
        PROVE  reqs'[j].wallet = reqs[j].wallet /\ Total(reqs'[j]) = Total(reqs[j])
    <2>1. reqs[j] \in Request
      BY <1>1
    <2>2. QED
      BY <2>1 DEF Request, Total
  <1>6. QED
    BY <1>3, <1>4, <1>5 DEF ReqsStable

(* The steps that write to the tables keep the types.                      *)
LEMMA CommitType ==
    ASSUME TypeOK, CallsOK, NEW s \in Sessions,
           \/ CommitDeposit(s) \/ CommitDeduct(s) \/ CommitCredit(s)
           \/ CommitComplete(s) \/ CommitTransfer(s) \/ Freeze(s) \/ Release(s)
    PROVE  TypeOK' /\ CallsOK'
  <1> DEFINE c == call[s]
  <1>1. Finish(s) /\ pc[s] # "idle"
    BY DEF CommitDeposit, CommitDeduct, CommitCredit, CommitComplete, CommitTransfer,
           Freeze, Release
  <1>2. c \in Job
    BY <1>1 DEF CallsOK, CallOK
  <1>3. /\ c.wallet \in Wallets /\ c.to \in Wallets
        /\ c.amount \in Int /\ -c.amount \in Int /\ 0 \in Int
        /\ NoKey \in Keys \cup {NoKey}
        /\ wallet[c.wallet] \in Row /\ wallet[c.to] \in Row
        /\ snap[s] \in Row /\ toSnap[s] \in Row /\ tip[s] \in Tip
    BY <1>2 DEF Job, TypeOK
  <1>4. ASSUME wallet' \in [Wallets -> Row], txs' \in Seq(Tx), ledger' \in Seq(Entry),
               reqs' \in Seq(Request), ReqsStable
        PROVE  TypeOK' /\ CallsOK'
    <2>1. TypeOK'
      BY <1>1, <1>4, FinishType DEF TypeOK
    <2>2. CallsOK'
      BY <1>1, <1>4, FinishCall, CallFrame DEF CallsOK
    <2>3. QED
      BY <2>1, <2>2
  <1>5. ASSUME UNCHANGED reqs PROVE reqs' \in Seq(Request) /\ ReqsStable
    BY <1>5 DEF TypeOK, ReqsStable
  <1>6. /\ {"deposit", "payment", "credit_add", "withdraw", "refund"} \subseteq TxType
        /\ {"debit", "credit"} \subseteq EntryType
        /\ {"pending", "done", "rejected"} \subseteq WithdrawStatus
    BY DEF TxType, EntryType, WithdrawStatus
  <1>7. CASE CommitDeposit(s)
    <2>1. AddTon(wallet[c.wallet], c.amount) \in Row
      BY <1>3, RowOps
    <2>2. QED
      BY <1>2, <1>4, <1>5, <1>6, <1>7, <2>1, PostType DEF CommitDeposit
  <1>8. CASE CommitDeduct(s)
    <2>1. Charge(wallet[c.wallet], snap[s], c.amount) \in Row
      BY <1>3, RowOps
    <2>2. QED
      BY <1>2, <1>4, <1>5, <1>6, <1>8, <2>1, PostType DEF CommitDeduct
  <1>9. CASE CommitCredit(s)
    <2>1. GiveCredit(wallet[c.wallet], c.amount) \in Row
      BY <1>3, RowOps
    <2>2. QED
      BY <1>2, <1>4, <1>5, <1>6, <1>9, <2>1, PostType DEF CommitCredit
  <1>10. CASE CommitComplete(s)
    <2>1. PayOut(wallet[c.wallet], c.amount) \in Row
      BY <1>3, RowOps
    <2>2. c.req \in DOMAIN reqs
      BY <1>10 DEF CommitComplete, CallsOK, CallOK, Settles
    <2>3. reqs' \in Seq(Request) /\ ReqsStable
      BY <1>6, <1>10, <2>2, RequestStatus DEF CommitComplete
    <2>4. QED
      BY <1>2, <1>4, <1>6, <1>10, <2>1, <2>3, PostType DEF CommitComplete
  <1>11. CASE CommitTransfer(s)
    <2> DEFINE out == LinkEntry(tip[s], Len(txs) + 1, c.wallet, "debit", c.amount,
                                Realized(snap[s]) - c.amount)
               in == LinkEntry([seq |-> out.content.seq, hash |-> out.hash], Len(txs) + 2,
                               c.to, "credit", c.amount, Realized(toSnap[s]) + c.amount)
               from == Charge(wallet[c.wallet], snap[s], c.amount)
               to == Receive(wallet[c.to], snap[s], c.amount)
    <2>1. from \in Row /\ to \in Row
      BY <1>3, RowOps
    <2>2. /\ Realized(snap[s]) - c.amount \in Int
          /\ Realized(toSnap[s]) + c.amount \in Int
          /\ Len(txs) + 1 \in Int /\ Len(txs) + 2 \in Int
      BY <1>3, RealizedType DEF TypeOK
    <2>3. out \in Entry
      BY <1>3, <1>6, <2>2, LinkType
    <2>4. [seq |-> out.content.seq, hash |-> out.hash] \in Tip
      BY <2>3 DEF Entry, Content, Tip
    <2>5. in \in Entry
      BY <1>3, <1>6, <2>2, <2>4, LinkType
    <2>6. NewTx("payment", c.wallet, NoKey, -c.amount) \in Tx
          /\ NewTx("deposit", c.to, NoKey, c.amount) \in Tx
      BY <1>3, <1>6 DEF NewTx, Tx
    <2>7. wallet' = [wallet EXCEPT ![c.wallet] = from, ![c.to] = to]
      <3>1. c.wallet # c.to
        BY <1>11 DEF CommitTransfer, CallsOK, CallOK
      <3>2. QED
        BY <1>3, <1>11, <3>1 DEF CommitTransfer, TypeOK
    <2>8. ledger' = Append(Append(ledger, out), in)
      BY <1>11 DEF CommitTransfer
    <2> HIDE DEF out, in, from, to
    <2>9. wallet' \in [Wallets -> Row] /\ ledger' \in Seq(Entry)
      <3>1. wallet' \in [Wallets -> Row]
        BY <1>3, <2>1, <2>7 DEF TypeOK
      <3>2. Append(ledger, out) \in Seq(Entry)
        BY <2>3 DEF TypeOK
      <3>3. QED
        BY <2>5, <2>8, <3>1, <3>2
    <2>10. txs' \in Seq(Tx)
      BY <1>11, <2>6 DEF CommitTransfer, TypeOK
    <2>11. QED
      BY <1>4, <1>5, <1>11, <2>9, <2>10 DEF CommitTransfer
  <1>12. CASE Freeze(s)
    <2> DEFINE r == [wallet |-> c.wallet, amount |-> c.amount, fee |-> NetworkFee,
                     status |-> "pending"]
    <2>1. c.amount + NetworkFee \in Int
      BY <1>3, StoreAssumption
    <2>2. Hold(wallet[c.wallet], c.amount + NetworkFee) \in Row
      BY <1>3, <2>1, RowOps
    <2>3. r \in Request
      BY <1>3, <1>6, StoreAssumption DEF Request
    <2>4. reqs' = Append(reqs, r)
      BY <1>12 DEF Freeze
    <2> HIDE DEF r
    <2>5. reqs' \in Seq(Request) /\ ReqsStable
      BY <2>3, <2>4 DEF TypeOK, ReqsStable
    <2>6. QED
      BY <1>3, <1>4, <1>12, <2>2, <2>5 DEF Freeze, TypeOK
  <1>13. CASE Release(s)
    <2>1. c.req \in DOMAIN reqs
      BY <1>13 DEF Release, CallsOK, CallOK, Settles
    <2>2. reqs' \in Seq(Request) /\ ReqsStable
      BY <1>6, <1>13, <2>1, RequestStatus DEF Release
    <2>3. Hold(wallet[c.wallet], -c.amount) \in Row
      BY <1>3 DEF Hold, Row
    <2>4. NewTx("refund", c.wallet, NoKey, 0) \in Tx
      BY <1>3, <1>6 DEF NewTx, Tx
    <2>5. wallet' \in [Wallets -> Row] /\ txs' \in Seq(Tx) /\ ledger' \in Seq(Entry)
      BY <1>3, <1>13, <2>3, <2>4 DEF Release, TypeOK
    <2>6. QED
      BY <1>4, <2>2, <2>5
  <1>14. QED
    BY <1>7, <1>8, <1>9, <1>10, <1>11, <1>12, <1>13

(* Every step keeps the types.                                             *)
LEMMA TypeStep == TypeOK /\ CallsOK /\ [Next]_vars => TypeOK' /\ CallsOK'
  <1> SUFFICES ASSUME TypeOK, CallsOK, [Next]_vars PROVE TypeOK' /\ CallsOK'
    OBVIOUS
  <1>1. ASSUME NEW s \in Sessions, Step(s) \/ Abort(s) PROVE TypeOK' /\ CallsOK'
    BY <1>1, ReadType, CommitType DEF Step
  <1>2. ASSUME NEW s \in Sessions, NEW c \in Calls, Begin(s, c) PROVE TypeOK' /\ CallsOK'
    BY <1>2, BeginType
  <1>3. CASE UNCHANGED vars
    BY <1>3 DEF vars, TypeOK, CallsOK, CallOK
  <1>4. QED
    BY <1>1, <1>2, <1>3 DEF Next, Done

(* Every state the store reaches is well typed, and every call in progress *)
(* passed the checks of its method and is at a statement of it.            *)
THEOREM StoreTypeCorrect == Spec => [](TypeOK /\ CallsOK)
  <1>1. QED
    BY TypeInit, TypeStep, PTL DEF Spec

-----------------------------------------------------------------------------
(* Locks: what a session read under a lock stays true.                     *)

Moves(s) == Step(s) \/ Abort(s) \/ \E c \in Calls : Begin(s, c)

(* A step is one session moving, or nothing.                               *)
LEMMA NextMoves == Next => (\E s \in Sessions : Moves(s)) \/ UNCHANGED vars
  BY DEF Next, Moves, Done

FreshInv == \A s \in Sessions : ReadsFresh(s)

(* The end of a transaction takes no lock and no read from another         *)
(* session.                                                                *)
LEMMA FinishKeeps ==
    ASSUME TypeOK, NEW s \in Sessions, Finish(s), NEW t \in Sessions, t # s
    PROVE  /\ pc'[t] = pc[t] /\ call'[t] = call[t] /\ snap'[t] = snap[t]
           /\ toSnap'[t] = toSnap[t] /\ tip'[t] = tip[t]
           /\ \A w \in Wallets : lock[w] = t => lock'[w] = t
  BY DEF TypeOK, Finish, Goto

(* The writer of a committing method has the rows it writes locked, or the *)
(* lock is free and the UPDATE takes it.                                   *)
LEMMA WritesOwnRows ==
    ASSUME TypeOK, CallsOK, FreshInv, NEW s \in Sessions, Step(s),
           NEW w \in Wallets, wallet'[w] # wallet[w]
    PROVE  lock[w] = s \/ lock[w] = None
  <1> DEFINE c == call[s]
  <1>1. CASE pc[s] = "commit"
    <2>1. Owns(s) /\ (c.op = "Transfer" => OwnsTo(s))
      BY <1>1 DEF Owns, OwnsTo
    <2>2. lock[c.wallet] = s /\ (c.op = "Transfer" => lock[c.to] = s)
      BY <2>1 DEF FreshInv, ReadsFresh
    <2>3. c \in Job
      BY <1>1 DEF CallsOK, CallOK
    <2>4. w = c.wallet \/ (c.op = "Transfer" /\ w = c.to)
      BY <1>1, <2>3 DEF Step, TypeOK, Job, tables, FindDuplicate, LockWallet, LockRecipient,
             ReadWallet, CheckEnough, ReadTip, SeqConflict, Freeze, Release, DeadlockVictim,
             CommitDeposit, CommitDeduct, CommitCredit, CommitComplete, CommitTransfer, Post
    <2>5. QED
      BY <2>2, <2>4
  <1>2. CASE pc[s] \in {"freeze", "release"}
    <2>1. c \in Job
      BY <1>2 DEF CallsOK, CallOK
    <2>2. QED
      BY <1>2, <2>1 DEF Step, TypeOK, Job, tables, FindDuplicate, LockWallet, LockRecipient,
             ReadWallet, CheckEnough, ReadTip, SeqConflict, Freeze, Release, DeadlockVictim,
             CommitDeposit, CommitDeduct, CommitCredit, CommitComplete, CommitTransfer
  <1>3. CASE pc[s] \notin {"commit", "freeze", "release"}
    BY <1>3 DEF Step, tables, FindDuplicate, LockWallet, LockRecipient,
           ReadWallet, CheckEnough, ReadTip, SeqConflict, Freeze, Release, DeadlockVictim,
           CommitDeposit, CommitDeduct, CommitCredit, CommitComplete, CommitTransfer
  <1>4. QED
    BY <1>1, <1>2, <1>3

(* A step of s leaves alone what another session has, including its locks  *)
(* and the rows behind them.                                               *)
LEMMA OthersKeep ==
    ASSUME TypeOK, CallsOK, FreshInv, NEW s \in Sessions, Moves(s),
           NEW t \in Sessions, t # s
    PROVE  /\ pc'[t] = pc[t] /\ call'[t] = call[t] /\ snap'[t] = snap[t]
           /\ toSnap'[t] = toSnap[t] /\ tip'[t] = tip[t]
           /\ \A w \in Wallets : lock[w] = t => lock'[w] = t /\ wallet'[w] = wallet[w]
  <1>1. None \notin Sessions
    BY StoreAssumption
  <1>2. CASE Finish(s)
    <2>1. Step(s) \/ UNCHANGED wallet
      BY <1>2 DEF Moves, Abort, tables, Begin
    <2>2. QED
      BY <1>1, <1>2, <2>1, FinishKeeps, WritesOwnRows
  <1>3. CASE ~Finish(s)
    <2>1. /\ UNCHANGED wallet
          /\ pc'[t] = pc[t] /\ call'[t] = call[t] /\ snap'[t] = snap[t]
          /\ toSnap'[t] = toSnap[t] /\ tip'[t] = tip[t]
      BY <1>3 DEF Moves, Step, Abort, Begin, tables, TypeOK, Goto,
             FindDuplicate, LockWallet, LockRecipient,
             ReadWallet, CheckEnough, ReadTip, SeqConflict, Freeze, Release, DeadlockVictim,
             CommitDeposit, CommitDeduct, CommitCredit, CommitComplete, CommitTransfer
    <2>2. \A w \in Wallets : lock[w] = t => lock'[w] = t
      BY <1>1, <1>3 DEF Moves, Step, Abort, Begin, tables, TypeOK, Goto,
             FindDuplicate, LockWallet, LockRecipient,
             ReadWallet, CheckEnough, ReadTip, SeqConflict, Freeze, Release, DeadlockVictim,
             CommitDeposit, CommitDeduct, CommitCredit, CommitComplete, CommitTransfer
    <2>3. QED
      BY <2>1, <2>2
  <1>4. QED
    BY <1>2, <1>3

(* The session that moves: a step to a locked statement reads the row it   *)
(* locks, or keeps the locks and reads it had.                             *)
LEMMA MoverFresh ==
    ASSUME TypeOK, CallsOK, FreshInv, NEW s \in Sessions, Moves(s)
    PROVE  ReadsFresh(s)'
  <1> DEFINE c == call[s]
  <1>1. CASE Finish(s)
    <2>1. pc'[s] = "idle"
      BY <1>1 DEF Finish, Goto, TypeOK
    <2>2. QED
      BY <2>1 DEF ReadsFresh, Owns, OwnsTo
  <1>2. CASE \E d \in Calls : Begin(s, d)
    <2>1. PICK d \in Calls : Begin(s, d)
      BY <1>2
    <2>2. d \in Job /\ Accepts(d)
      BY <2>1, StoreAssumption DEF Begin
    <2>3. pc'[s] = FirstStep(d) /\ call'[s] = Arguments(d) /\ Arguments(d).op = d.op
      BY <2>1, <2>2, ArgumentsType DEF Begin, Goto, TypeOK
    <2>4. /\ FirstStep(d) \in {"find", "lock", "read", "release"}
          /\ FirstStep(d) = "find" => d.op # "AddCredit"
      BY DEF FirstStep
    <2>5. QED
      BY <2>3, <2>4 DEF ReadsFresh, Owns, OwnsTo
  <1>3. CASE FindDuplicate(s) /\ ~Finish(s)
    <2>1. /\ pc[s] = "find" /\ pc'[s] = AfterFind(c) /\ call' = call /\ lock' = lock
          /\ snap' = snap /\ toSnap' = toSnap /\ wallet' = wallet
      BY <1>3 DEF FindDuplicate, Goto, TypeOK, tables
    <2>2. c.op \in {"Deposit", "Deduct", "AddCredit"}
      BY <2>1 DEF CallsOK, CallOK
    <2>3. CASE c.op = "AddCredit"
      BY <2>1, <2>3 DEF FreshInv, ReadsFresh, Owns, OwnsTo
    <2>4. CASE c.op # "AddCredit"
      BY <2>1, <2>2, <2>4 DEF AfterFind, ReadsFresh, Owns, OwnsTo
    <2>5. QED
      BY <2>3, <2>4
  <1>4. CASE LockWallet(s)
    <2>1. c \in Job
      BY <1>4 DEF LockWallet, CallsOK, CallOK
    <2>2. /\ pc'[s] = AfterLock(c) /\ call' = call /\ wallet' = wallet
          /\ lock'[c.wallet] = s /\ snap'[s] = wallet[c.wallet]
      BY <1>4, <2>1 DEF LockWallet, Goto, TypeOK, tables, Job
    <2>3. c.op = "Transfer" => AfterLock(c) = "lockTo"
      BY DEF AfterLock
    <2>4. QED
      BY <2>2, <2>3 DEF ReadsFresh, OwnsTo
  <1>5. CASE LockRecipient(s)
    <2>1. c \in Job /\ c.op = "Transfer" /\ c.wallet # c.to
      BY <1>5 DEF LockRecipient, CallsOK, CallOK
    <2>2. /\ pc'[s] = "check" /\ call' = call /\ wallet' = wallet /\ snap' = snap
          /\ lock'[c.to] = s /\ toSnap'[s] = wallet[c.to]
          /\ lock'[c.wallet] = lock[c.wallet]
      BY <1>5, <2>1 DEF LockRecipient, Goto, TypeOK, tables, Job
    <2>3. Owns(s)
      BY <1>5 DEF Owns, LockRecipient
    <2>4. QED
      BY <2>2, <2>3 DEF FreshInv, ReadsFresh
  <1>6. CASE ReadWallet(s)
    <2>1. pc'[s] = "check" /\ call' = call /\ c.op = "CreateWithdraw"
      BY <1>6 DEF ReadWallet, Goto, TypeOK, CallsOK, CallOK
    <2>2. QED
      BY <2>1 DEF ReadsFresh, Owns, OwnsTo
  <1>7. CASE CheckEnough(s) /\ ~Finish(s)
    <2>1. /\ pc[s] = "check" /\ pc'[s] = AfterCheck(c) /\ call' = call /\ lock' = lock
          /\ snap' = snap /\ toSnap' = toSnap /\ wallet' = wallet
      BY <1>7 DEF CheckEnough, Goto, TypeOK, tables
    <2>2. QED
      BY <2>1 DEF AfterCheck, FreshInv, ReadsFresh, Owns, OwnsTo
  <1>8. CASE ReadTip(s)
    <2>1. /\ pc[s] = "tip" /\ pc'[s] = "commit" /\ call' = call /\ lock' = lock
          /\ snap' = snap /\ toSnap' = toSnap /\ wallet' = wallet
      BY <1>8 DEF ReadTip, Goto, TypeOK, tables
    <2>2. QED
      BY <2>1 DEF FreshInv, ReadsFresh, Owns, OwnsTo
  <1>9. QED
    BY <1>1, <1>2, <1>3, <1>4, <1>5, <1>6, <1>7, <1>8
       DEF Moves, Step, Abort, SeqConflict, DeadlockVictim, Freeze, Release,
           CommitDeposit, CommitDeduct, CommitCredit, CommitComplete, CommitTransfer

(* What a session read under a lock stays true while it holds the lock.    *)
LEMMA FreshStep ==
    TypeOK /\ CallsOK /\ FreshInv /\ [Next]_vars => FreshInv'
  <1> SUFFICES ASSUME TypeOK, CallsOK, FreshInv, [Next]_vars PROVE FreshInv'
    OBVIOUS
  <1>1. CASE UNCHANGED vars
    BY <1>1 DEF vars, FreshInv, ReadsFresh, Owns, OwnsTo
  <1>2. ASSUME NEW s \in Sessions, Moves(s) PROVE FreshInv'
    <2>1. ASSUME NEW t \in Sessions, t # s PROVE ReadsFresh(t)'
      <3>1. pc'[t] = pc[t] /\ call'[t] = call[t] /\ snap'[t] = snap[t]
            /\ toSnap'[t] = toSnap[t]
            /\ \A w \in Wallets : lock[w] = t => lock'[w] = t /\ wallet'[w] = wallet[w]
        BY <1>2, <2>1, OthersKeep
      <3>2. pc[t] # "idle" => call[t].wallet \in Wallets /\ call[t].to \in Wallets
        BY DEF CallsOK, CallOK, Job
      <3>3. QED
        BY <3>1, <3>2 DEF FreshInv, ReadsFresh, Owns, OwnsTo
    <2>2. QED
      BY <1>2, <2>1, MoverFresh DEF FreshInv
  <1>3. QED
    BY <1>1, <1>2, NextMoves

-----------------------------------------------------------------------------
(* The chain: racing appends cannot fork it.                               *)

ChainInv == SeqOK /\ ChainValid /\ \A s \in Sessions : TipOK(s)

(* The unique index admits a block only after the true end of the chain.   *)
LEMMA CommitTip ==
    ASSUME TypeOK, ChainInv, NEW s \in Sessions, pc[s] = "commit", SeqFree(s)
    PROVE  tip[s].seq = Len(ledger) /\ tip[s].hash = TipOf(ledger).hash
  <1>1. tip[s].seq \in 0..Len(ledger)
    BY DEF ChainInv, TipOK
  <1>2. ASSUME tip[s].seq # Len(ledger) PROVE FALSE
    <2>1. tip[s].seq + 1 \in DOMAIN ledger
      BY <1>1, <1>2 DEF TypeOK
    <2>2. QED
      BY <2>1 DEF ChainInv, SeqOK, SeqFree
  <1>3. QED
    BY <1>2 DEF ChainInv, TipOK

(* A block linked to the end of a sound chain extends it soundly.          *)
LEMMA ChainExtends ==
    ASSUME NEW chain \in Seq(Entry), VerifyChain(chain),
           \A i \in DOMAIN chain : chain[i].content.seq = i,
           NEW t \in Tip, t.seq = Len(chain), t.hash = TipOf(chain).hash,
           NEW e \in Entry, NEW id, NEW w, NEW et, NEW n, NEW bal,
           e = LinkEntry(t, id, w, et, n, bal)
    PROVE  LET next == Append(chain, e) IN
           /\ next \in Seq(Entry)
           /\ VerifyChain(next)
           /\ \A i \in DOMAIN next : next[i].content.seq = i
           /\ TipOf(next).hash = e.hash /\ Len(next) = Len(chain) + 1
           /\ e.content.seq = Len(chain) + 1
  <1> DEFINE next == Append(chain, e)
  <1>1. /\ next \in Seq(Entry) /\ Len(next) = Len(chain) + 1
        /\ DOMAIN next = 1..(Len(chain) + 1) /\ DOMAIN chain = 1..Len(chain)
        /\ \A i \in DOMAIN chain : next[i] = chain[i]
        /\ next[Len(chain) + 1] = e /\ Len(chain) \in Nat
    OBVIOUS
  <1>2. /\ e.content.seq = Len(chain) + 1 /\ e.prevHash = t.hash
        /\ e.hash = ComputeHash(e.content, e.prevHash)
    BY DEF LinkEntry
  <1> HIDE DEF next
  <1>3. \A i \in DOMAIN next : next[i].content.seq = i
    BY <1>1, <1>2
  <1>4. TipOf(next).hash = e.hash
    <2>1. next # << >>
      BY <1>1
    <2>2. QED
      BY <1>1, <2>1 DEF TipOf
  <1>5. ASSUME NEW i \in DOMAIN next
        PROVE  /\ next[i].content.seq = Before(next, i).seq + 1
               /\ next[i].prevHash = Before(next, i).hash
               /\ next[i].hash = ComputeHash(next[i].content, next[i].prevHash)
    <2>1. CASE i \in DOMAIN chain
      <3>1. Before(next, i) = Before(chain, i)
        BY <1>1, <2>1 DEF Before
      <3>2. QED
        BY <1>1, <2>1, <3>1 DEF VerifyChain
    <2>2. CASE i = Len(chain) + 1 /\ Len(chain) = 0
      <3>1. chain = << >>
        BY <2>2
      <3>2. Before(next, i) = GenesisTip /\ t.hash = GenesisHash
        BY <2>2, <3>1 DEF Before, TipOf, GenesisTip
      <3>3. QED
        BY <1>1, <1>2, <2>2, <3>2 DEF GenesisTip
    <2>3. CASE i = Len(chain) + 1 /\ Len(chain) # 0
      <3>1. chain # << >> /\ Len(chain) \in DOMAIN chain
        BY <1>1, <2>3
      <3>2. TipOf(chain).hash = chain[Len(chain)].hash
        BY <3>1 DEF TipOf
      <3>3. /\ Before(next, i).hash = chain[Len(chain)].hash
            /\ Before(next, i).seq = Len(chain)
        BY <1>1, <2>3, <3>1 DEF Before
      <3>4. QED
        BY <1>1, <1>2, <2>3, <3>2, <3>3
    <2>4. QED
      BY <1>1, <2>1, <2>2, <2>3
  <1>6. VerifyChain(next)
    BY <1>5 DEF VerifyChain
  <1>7. QED
    BY <1>1, <1>2, <1>3, <1>4, <1>6 DEF next

(* The four commits that move one wallet, seen alike: the new row differs  *)
(* from the row that was read by the amount of the block.                  *)
Signed(et, n) == IF et = "credit" THEN n ELSE -n

PostStep(s, row, type, et) ==
    /\ pc[s] = "commit" /\ SeqFree(s) /\ Finish(s)
    /\ call[s] \in Job
    /\ Post(s, row, type, et)
    /\ Realized(row) = Realized(snap[s]) + Signed(et, call[s].amount)

(* The methods that move the balance of one wallet are such steps.         *)
LEMMA PostSteps ==
    ASSUME TypeOK, CallsOK, FreshInv, NEW s \in Sessions
    PROVE  LET c == call[s] IN
           /\ CommitDeposit(s) =>
                 /\ AddTon(wallet[c.wallet], c.amount) \in Row
                 /\ PostStep(s, AddTon(wallet[c.wallet], c.amount), "deposit", "credit")
           /\ CommitCredit(s) =>
                 /\ GiveCredit(wallet[c.wallet], c.amount) \in Row
                 /\ PostStep(s, GiveCredit(wallet[c.wallet], c.amount), "credit_add", "credit")
           /\ CommitDeduct(s) =>
                 /\ Charge(wallet[c.wallet], snap[s], c.amount) \in Row
                 /\ PostStep(s, Charge(wallet[c.wallet], snap[s], c.amount), "payment", "debit")
           /\ CommitComplete(s) =>
                 /\ PayOut(wallet[c.wallet], c.amount) \in Row
                 /\ PostStep(s, PayOut(wallet[c.wallet], c.amount), "withdraw", "debit")
  <1> DEFINE c == call[s]
  <1>1. ASSUME pc[s] = "commit"
        PROVE  /\ c \in Job /\ c.wallet \in Wallets /\ c.amount \in Int
               /\ wallet[c.wallet] \in Row /\ snap[s] = wallet[c.wallet]
    BY <1>1 DEF TypeOK, CallsOK, CallOK, Job, FreshInv, ReadsFresh, Owns
  <1>2. ASSUME CommitDeposit(s)
        PROVE  /\ AddTon(wallet[c.wallet], c.amount) \in Row
               /\ PostStep(s, AddTon(wallet[c.wallet], c.amount), "deposit", "credit")
    <2> DEFINE row == AddTon(wallet[c.wallet], c.amount)
    <2>1. pc[s] = "commit" /\ SeqFree(s) /\ Finish(s) /\ Post(s, row, "deposit", "credit")
      BY <1>2 DEF CommitDeposit
    <2>2. row \in Row /\ Realized(row) = Realized(snap[s]) + Signed("credit", c.amount)
      BY <1>1, <2>1 DEF AddTon, Row, Realized, Signed
    <2> HIDE DEF row
    <2>3. row \in Row /\ PostStep(s, row, "deposit", "credit")
      BY <1>1, <2>1, <2>2 DEF PostStep
    <2>4. QED
      BY <2>3 DEF row
  <1>3. ASSUME CommitCredit(s)
        PROVE  /\ GiveCredit(wallet[c.wallet], c.amount) \in Row
               /\ PostStep(s, GiveCredit(wallet[c.wallet], c.amount), "credit_add", "credit")
    <2> DEFINE row == GiveCredit(wallet[c.wallet], c.amount)
    <2>1. pc[s] = "commit" /\ SeqFree(s) /\ Finish(s) /\ Post(s, row, "credit_add", "credit")
      BY <1>3 DEF CommitCredit
    <2>2. row \in Row /\ Realized(row) = Realized(snap[s]) + Signed("credit", c.amount)
      BY <1>1, <2>1 DEF GiveCredit, Row, Realized, Signed
    <2> HIDE DEF row
    <2>3. row \in Row /\ PostStep(s, row, "credit_add", "credit")
      BY <1>1, <2>1, <2>2 DEF PostStep
    <2>4. QED
      BY <2>3 DEF row
  <1>4. ASSUME CommitDeduct(s)
        PROVE  /\ Charge(wallet[c.wallet], snap[s], c.amount) \in Row
               /\ PostStep(s, Charge(wallet[c.wallet], snap[s], c.amount), "payment", "debit")
    <2> DEFINE row == Charge(wallet[c.wallet], snap[s], c.amount)
    <2>1. pc[s] = "commit" /\ SeqFree(s) /\ Finish(s) /\ Post(s, row, "payment", "debit")
      BY <1>4 DEF CommitDeduct
    <2>2. CreditUsed(snap[s], c.amount) \in Int /\ TonUsed(snap[s], c.amount) \in Int
      BY <1>1, <2>1, RowOps
    <2>3. CreditUsed(snap[s], c.amount) + TonUsed(snap[s], c.amount) = c.amount
      BY <1>1, <2>1, <2>2 DEF TonUsed
    <2>4. row \in Row /\ Realized(row) = Realized(snap[s]) + Signed("debit", c.amount)
      BY <1>1, <2>1, <2>2, <2>3 DEF Charge, Row, Realized, Signed
    <2> HIDE DEF row
    <2>5. row \in Row /\ PostStep(s, row, "payment", "debit")
      BY <1>1, <2>1, <2>4 DEF PostStep
    <2>6. QED
      BY <2>5 DEF row
  <1>5. ASSUME CommitComplete(s)
        PROVE  /\ PayOut(wallet[c.wallet], c.amount) \in Row
               /\ PostStep(s, PayOut(wallet[c.wallet], c.amount), "withdraw", "debit")
    <2> DEFINE row == PayOut(wallet[c.wallet], c.amount)
    <2>1. pc[s] = "commit" /\ SeqFree(s) /\ Finish(s) /\ Post(s, row, "withdraw", "debit")
      BY <1>5 DEF CommitComplete
    <2>2. row \in Row /\ Realized(row) = Realized(snap[s]) + Signed("debit", c.amount)
      BY <1>1, <2>1 DEF PayOut, Row, Realized, Signed
    <2> HIDE DEF row
    <2>3. row \in Row /\ PostStep(s, row, "withdraw", "debit")
      BY <1>1, <2>1, <2>2 DEF PostStep
    <2>4. QED
      BY <2>3 DEF row
  <1>6. QED
    BY <1>2, <1>3, <1>4, <1>5

(* The four ways in which a step can change the tables.                    *)
LEMMA Effects ==
    ASSUME TypeOK, CallsOK, FreshInv, NEW s \in Sessions, Moves(s)
    PROVE  \/ UNCHANGED tables
           \/ CommitTransfer(s) \/ Freeze(s) \/ Release(s)
           \/ \E row \in Row, type \in TxType, et \in EntryType :
                 PostStep(s, row, type, et)
  <1>1. /\ {"deposit", "payment", "credit_add", "withdraw"} \subseteq TxType
        /\ {"debit", "credit"} \subseteq EntryType
    BY DEF TxType, EntryType
  <1>2. CASE CommitDeposit(s) \/ CommitCredit(s) \/ CommitDeduct(s) \/ CommitComplete(s)
    BY <1>1, <1>2, PostSteps
  <1>3. QED
    BY <1>2 DEF Moves, Step, Abort, Begin, FindDuplicate, LockWallet,
       LockRecipient, ReadWallet, CheckEnough, ReadTip, SeqConflict, DeadlockVictim

(* The blocks a transfer appends.                                          *)
Out(s) == LinkEntry(tip[s], Len(txs) + 1, call[s].wallet, "debit", call[s].amount,
                    Realized(snap[s]) - call[s].amount)

In(s) == LinkEntry([seq |-> Out(s).content.seq, hash |-> Out(s).hash], Len(txs) + 2,
                   call[s].to, "credit", call[s].amount,
                   Realized(toSnap[s]) + call[s].amount)

(* What a committing transfer writes.                                      *)
LEMMA TransferFacts ==
    ASSUME TypeOK, CallsOK, FreshInv, NEW s \in Sessions, CommitTransfer(s)
    PROVE  LET c == call[s] IN
           /\ c \in Job /\ c.wallet \in Wallets /\ c.to \in Wallets /\ c.wallet # c.to
           /\ c.amount \in Int /\ c.amount > 0
           /\ snap[s] = wallet[c.wallet] /\ toSnap[s] = wallet[c.to]
           /\ wallet[c.wallet] \in Row /\ wallet[c.to] \in Row /\ tip[s] \in Tip
           /\ Out(s) \in Entry /\ In(s) \in Entry
           /\ [seq |-> Out(s).content.seq, hash |-> Out(s).hash] \in Tip
           /\ wallet' = [wallet EXCEPT
                            ![c.wallet] = Charge(wallet[c.wallet], wallet[c.wallet], c.amount),
                            ![c.to] = Receive(wallet[c.to], wallet[c.wallet], c.amount)]
           /\ ledger' = Append(Append(ledger, Out(s)), In(s))
  <1> DEFINE c == call[s]
  <1>1. pc[s] = "commit" /\ c.op = "Transfer"
    BY DEF CommitTransfer
  <1>2. /\ c \in Job /\ c.wallet \in Wallets /\ c.to \in Wallets /\ c.wallet # c.to
        /\ c.amount \in Int /\ c.amount > 0
    BY <1>1 DEF CallsOK, CallOK, Job
  <1>3. snap[s] = wallet[c.wallet] /\ toSnap[s] = wallet[c.to]
    BY <1>1 DEF FreshInv, ReadsFresh, Owns, OwnsTo
  <1>4. wallet[c.wallet] \in Row /\ wallet[c.to] \in Row /\ tip[s] \in Tip
    BY <1>2 DEF TypeOK
  <1>5. /\ Realized(snap[s]) - c.amount \in Int
        /\ Realized(toSnap[s]) + c.amount \in Int
        /\ Len(txs) + 1 \in Int /\ Len(txs) + 2 \in Int
        /\ "debit" \in EntryType /\ "credit" \in EntryType
    BY <1>2, <1>3, <1>4, RealizedType DEF TypeOK, EntryType
  <1>6. Out(s) \in Entry
    BY <1>2, <1>4, <1>5, LinkType DEF Out
  <1>7. [seq |-> Out(s).content.seq, hash |-> Out(s).hash] \in Tip
    BY <1>6 DEF Entry, Content, Tip
  <1>8. In(s) \in Entry
    BY <1>2, <1>5, <1>7, LinkType DEF In
  <1>9. wallet' = [wallet EXCEPT
                     ![c.wallet] = Charge(wallet[c.wallet], wallet[c.wallet], c.amount),
                     ![c.to] = Receive(wallet[c.to], wallet[c.wallet], c.amount)]
    BY <1>2, <1>3 DEF CommitTransfer, TypeOK
  <1>10. ledger' = Append(Append(ledger, Out(s)), In(s))
    BY DEF CommitTransfer, Out, In
  <1>11. QED
    BY <1>2, <1>3, <1>4, <1>6, <1>7, <1>8, <1>9, <1>10

(* The block of a one-wallet commit.                                       *)
Block(s, et) == LinkEntry(tip[s], Len(txs) + 1, call[s].wallet, et, call[s].amount,
                          Realized(snap[s]) + Signed(et, call[s].amount))

(* What a committing method that moves one balance writes.                 *)
LEMMA PostFacts ==
    ASSUME TypeOK, CallsOK, FreshInv, NEW s \in Sessions, NEW row \in Row,
           NEW type \in TxType, NEW et \in EntryType, PostStep(s, row, type, et)
    PROVE  LET c == call[s] IN
           /\ c \in Job /\ c.wallet \in Wallets /\ c.amount \in Int
           /\ snap[s] = wallet[c.wallet] /\ wallet[c.wallet] \in Row /\ tip[s] \in Tip
           /\ Block(s, et) \in Entry
           /\ wallet' = [wallet EXCEPT ![c.wallet] = row]
           /\ txs' = Append(txs, NewTx(type, c.wallet, c.key, Signed(et, c.amount)))
           /\ ledger' = Append(ledger, Block(s, et))
  <1> DEFINE c == call[s]
  <1>1. c \in Job /\ c.wallet \in Wallets /\ c.amount \in Int
    BY DEF PostStep, Job
  <1>2. snap[s] = wallet[c.wallet] /\ wallet[c.wallet] \in Row /\ tip[s] \in Tip
    BY <1>1 DEF FreshInv, ReadsFresh, Owns, PostStep, TypeOK
  <1>3. Signed(et, c.amount) \in Int /\ Len(txs) + 1 \in Int
    BY <1>1 DEF Signed, TypeOK
  <1>4. Realized(snap[s]) + Signed(et, c.amount) \in Int
    BY <1>2, <1>3, RealizedType
  <1>5. Block(s, et) \in Entry
    BY <1>1, <1>2, <1>3, <1>4, LinkType DEF Block
  <1>6. /\ wallet' = [wallet EXCEPT ![c.wallet] = row]
        /\ txs' = Append(txs, NewTx(type, c.wallet, c.key, Signed(et, c.amount)))
        /\ ledger' = Append(ledger, Block(s, et))
    BY DEF PostStep, Post, Block, Signed
  <1>7. QED
    BY <1>1, <1>2, <1>5, <1>6

(* Every step keeps the chain valid and the tips read on it.               *)
LEMMA ChainStep ==
    TypeOK /\ CallsOK /\ FreshInv /\ ChainInv /\ [Next]_vars => ChainInv'
  <1> SUFFICES ASSUME TypeOK, CallsOK, FreshInv, ChainInv, [Next]_vars PROVE ChainInv'
    OBVIOUS
  <1>1. CASE UNCHANGED vars
    BY <1>1 DEF vars, ChainInv, SeqOK, ChainValid, TipOK
  <1>2. ASSUME NEW s \in Sessions, Moves(s) PROVE ChainInv'
    <2>1. ASSUME Finish(s), Len(ledger') > Len(ledger), Len(ledger') \in Nat
          PROVE  \A t \in Sessions : TipOK(t)'
      <3>1. pc'[s] = "idle"
        BY <2>1 DEF Finish, Goto, TypeOK
      <3>2. ASSUME NEW t \in Sessions, t # s PROVE TipOK(t)'
        <4>1. pc'[t] = pc[t] /\ tip'[t] = tip[t]
          BY <1>2, <3>2, OthersKeep
        <4>2. pc[t] = "commit" => tip[t].seq \in 0..Len(ledger)
          BY DEF ChainInv, TipOK
        <4>3. QED
          BY <2>1, <4>1, <4>2 DEF TipOK, TypeOK
      <3>3. QED
        BY <3>1, <3>2 DEF TipOK
    <2>2. ASSUME UNCHANGED ledger PROVE ChainInv'
      <3>1. ASSUME NEW t \in Sessions, t # s PROVE TipOK(t)'
        BY <1>2, <2>2, <3>1, OthersKeep DEF ChainInv, TipOK
      <3>2. TipOK(s)'
        <4>1. CASE ReadTip(s)
          <5>1. tip'[s] = TipOf(ledger)
            BY <4>1 DEF ReadTip, TypeOK
          <5>2. TipOf(ledger).seq = Len(ledger)
            <6>1. CASE ledger = << >>
              BY <6>1 DEF TipOf, GenesisTip
            <6>2. CASE ledger # << >>
              BY <6>2 DEF TipOf, ChainInv, SeqOK, TypeOK
            <6>3. QED
              BY <6>1, <6>2
          <5>3. QED
            BY <2>2, <5>1, <5>2 DEF TipOK, TypeOK
        <4>2. CASE ~ReadTip(s)
          <5>1. pc'[s] # "commit"
            BY <1>2, <4>2 DEF Moves, Step, Abort, Begin, Goto, Finish, TypeOK, FirstStep,
               AfterFind, AfterLock, AfterCheck,
               FindDuplicate, LockWallet, LockRecipient, ReadWallet, CheckEnough,
               SeqConflict, DeadlockVictim, Freeze, Release,
               CommitDeposit, CommitDeduct, CommitCredit, CommitComplete, CommitTransfer
          <5>2. QED
            BY <5>1 DEF TipOK
        <4>3. QED
          BY <4>1, <4>2
      <3>3. SeqOK' /\ ChainValid'
        BY <2>2 DEF ChainInv, SeqOK, ChainValid
      <3>4. QED
        BY <3>1, <3>2, <3>3 DEF ChainInv
    <2>3. VerifyChain(ledger) /\ \A i \in DOMAIN ledger : ledger[i].content.seq = i
      BY DEF ChainInv, ChainValid, SeqOK
    <2>4. CASE CommitTransfer(s)
      <3> DEFINE mid == Append(ledger, Out(s))
                 t2 == [seq |-> Out(s).content.seq, hash |-> Out(s).hash]
      <3>1. tip[s].seq = Len(ledger) /\ tip[s].hash = TipOf(ledger).hash
        BY <2>4, CommitTip DEF CommitTransfer
      <3>2. /\ Out(s) \in Entry /\ In(s) \in Entry /\ tip[s] \in Tip /\ t2 \in Tip
            /\ ledger' = Append(mid, In(s)) /\ ledger \in Seq(Entry)
        BY <2>4, TransferFacts DEF TypeOK
      <3>3. /\ mid \in Seq(Entry) /\ VerifyChain(mid)
            /\ \A i \in DOMAIN mid : mid[i].content.seq = i
            /\ TipOf(mid).hash = Out(s).hash /\ Len(mid) = Len(ledger) + 1
            /\ Out(s).content.seq = Len(ledger) + 1
        BY <2>3, <3>1, <3>2, ChainExtends DEF Out
      <3>4. t2.seq = Len(mid) /\ t2.hash = TipOf(mid).hash
        BY <3>3
      <3>5. /\ VerifyChain(ledger') /\ Len(ledger') = Len(mid) + 1
            /\ \A i \in DOMAIN ledger' : ledger'[i].content.seq = i
        <4> HIDE DEF mid
        <4>1. QED
          BY <3>2, <3>3, <3>4, ChainExtends DEF In
      <3>6. Len(ledger') > Len(ledger) /\ Len(ledger') \in Nat
        BY <3>2, <3>3, <3>5
      <3>7. QED
        BY <2>1, <2>4, <3>5, <3>6 DEF ChainInv, ChainValid, SeqOK, CommitTransfer
    <2>5. ASSUME NEW row \in Row, NEW type \in TxType, NEW et \in EntryType,
                 PostStep(s, row, type, et)
          PROVE  ChainInv'
      <3>1. tip[s].seq = Len(ledger) /\ tip[s].hash = TipOf(ledger).hash
        BY <2>5, CommitTip DEF PostStep
      <3>2. /\ Block(s, et) \in Entry /\ tip[s] \in Tip
            /\ ledger' = Append(ledger, Block(s, et)) /\ ledger \in Seq(Entry)
        BY <2>5, PostFacts DEF TypeOK
      <3>3. /\ VerifyChain(ledger') /\ Len(ledger') = Len(ledger) + 1
            /\ \A i \in DOMAIN ledger' : ledger'[i].content.seq = i
        BY <2>3, <3>1, <3>2, ChainExtends DEF Block
      <3>4. Len(ledger') > Len(ledger) /\ Len(ledger') \in Nat
        BY <3>2, <3>3
      <3>5. QED
        BY <2>1, <2>5, <3>3, <3>4 DEF ChainInv, ChainValid, SeqOK, PostStep
    <2>6. QED
      BY <1>2, <2>2, <2>4, <2>5, Effects DEF Freeze, Release, tables
  <1>3. QED
    BY <1>1, <1>2, NextMoves

-----------------------------------------------------------------------------
(* Keys, credit and cover: what a session checked is still true when it    *)
(* commits.                                                                *)

CheckInv == \A s \in Sessions : ChecksHold(s)

(* A new credit row is written by a session that holds the wallet's lock.  *)
LEMMA CreditRows ==
    ASSUME TypeOK, CallsOK, FreshInv, NEW s \in Sessions, Moves(s)
    PROVE  /\ DOMAIN txs \subseteq DOMAIN txs'
           /\ \A i \in DOMAIN txs : txs'[i] = txs[i]
           /\ \A i \in DOMAIN txs' \ DOMAIN txs :
                 txs'[i].type = "credit_add" =>
                    /\ CommitCredit(s) /\ i = Len(txs) + 1
                    /\ txs'[i].wallet = call[s].wallet /\ txs'[i].key = call[s].key
  <1> DEFINE c == call[s]
  <1>1. CASE UNCHANGED txs
    BY <1>1
  <1>2. ASSUME NEW x, txs' = Append(txs, x), x.type # "credit_add"
        PROVE  /\ DOMAIN txs \subseteq DOMAIN txs'
               /\ \A i \in DOMAIN txs : txs'[i] = txs[i]
               /\ \A i \in DOMAIN txs' \ DOMAIN txs : txs'[i].type # "credit_add"
    BY <1>2 DEF TypeOK
  <1>3. CASE CommitCredit(s)
    <2>1. txs' = Append(txs, NewTx("credit_add", c.wallet, c.key, c.amount))
      BY <1>3 DEF CommitCredit, Post
    <2>2. QED
      BY <1>3, <2>1 DEF TypeOK, NewTx
  <1>4. CASE CommitTransfer(s)
    <2>1. txs' = Append(Append(txs, NewTx("payment", c.wallet, NoKey, -c.amount)),
                        NewTx("deposit", c.to, NoKey, c.amount))
      BY <1>4 DEF CommitTransfer
    <2>2. QED
      BY <2>1 DEF TypeOK, NewTx
  <1>5. CASE CommitDeposit(s)
    BY <1>2, <1>5 DEF CommitDeposit, Post, NewTx
  <1>6. CASE CommitDeduct(s)
    BY <1>2, <1>6 DEF CommitDeduct, Post, NewTx
  <1>7. CASE CommitComplete(s)
    BY <1>2, <1>7 DEF CommitComplete, Post, NewTx
  <1>8. CASE Release(s)
    BY <1>2, <1>8 DEF Release, NewTx
  <1>9. QED
    BY <1>1, <1>3, <1>4, <1>5, <1>6, <1>7, <1>8
       DEF Moves, Step, Abort, Begin, tables, FindDuplicate, LockWallet, LockRecipient,
           ReadWallet, CheckEnough, ReadTip, SeqConflict, DeadlockVictim, Freeze

(* What a session checked stays true until it commits.                     *)
LEMMA CheckStep ==
    TypeOK /\ CallsOK /\ FreshInv /\ CheckInv /\ [Next]_vars => CheckInv'
  <1> SUFFICES ASSUME TypeOK, CallsOK, FreshInv, CheckInv, [Next]_vars PROVE CheckInv'
    OBVIOUS
  <1>1. CASE UNCHANGED vars
    BY <1>1 DEF vars, CheckInv, ChecksHold
  <1>2. ASSUME NEW s \in Sessions, Moves(s) PROVE CheckInv'
    <2>1. ASSUME NEW t \in Sessions, t # s PROVE ChecksHold(t)'
      <3>1. pc'[t] = pc[t] /\ call'[t] = call[t] /\ snap'[t] = snap[t]
        BY <1>2, <2>1, OthersKeep
      <3>2. ASSUME pc[t] \in {"tip", "commit"}, NEW i \in DOMAIN txs',
                   SameRef(txs'[i], "credit_add", call[t].wallet, call[t].key),
                   i \notin DOMAIN txs
            PROVE  FALSE
        <4>1. CommitCredit(s) /\ txs'[i].wallet = call[s].wallet
          BY <1>2, <3>2, CreditRows DEF SameRef
        <4>2. lock[call[s].wallet] = s
          BY <4>1 DEF CommitCredit, FreshInv, ReadsFresh, Owns
        <4>3. lock[call[t].wallet] = t
          BY <3>2 DEF FreshInv, ReadsFresh, Owns
        <4>4. QED
          BY <2>1, <3>2, <4>1, <4>2, <4>3 DEF SameRef
      <3>3. QED
        BY <1>2, <3>1, <3>2, CreditRows DEF CheckInv, ChecksHold
    <2>2. ChecksHold(s)'
      <3> DEFINE c == call[s]
      <3>1. CASE Finish(s)
        BY <3>1 DEF Finish, Goto, TypeOK, ChecksHold
      <3>2. CASE \E d \in Calls : Begin(s, d)
        <4>1. PICK d \in Calls : Begin(s, d)
          BY <3>2
        <4>2. pc'[s] \notin {"tip", "commit"}
          BY <4>1 DEF Begin, Goto, FirstStep, TypeOK
        <4>3. QED
          BY <4>2 DEF ChecksHold
      <3>3. CASE FindDuplicate(s) /\ ~Finish(s)
        <4>1. /\ pc[s] = "find" /\ pc'[s] = AfterFind(c) /\ call' = call /\ txs' = txs
              /\ ~Duplicate(c) /\ c.op \in {"Deposit", "Deduct", "AddCredit"}
          BY <3>3 DEF FindDuplicate, Goto, TypeOK, tables, CallsOK, CallOK
        <4>2. c.op = "AddCredit" =>
                 \A i \in DOMAIN txs : ~SameRef(txs[i], "credit_add", c.wallet, c.key)
          BY <4>1 DEF Duplicate
        <4>3. QED
          BY <4>1, <4>2 DEF AfterFind, ChecksHold
      <3>4. CASE LockWallet(s)
        <4>1. pc[s] = "lock" /\ pc'[s] = AfterLock(c) /\ call' = call
          BY <3>4 DEF LockWallet, Goto, TypeOK
        <4>2. AfterLock(c) \in {"tip", "commit"} => c.op \notin {"AddCredit", "Deduct", "Transfer"}
          BY DEF AfterLock
        <4>3. QED
          BY <4>1, <4>2 DEF ChecksHold
      <3>5. CASE LockRecipient(s) \/ ReadWallet(s)
        BY <3>5 DEF LockRecipient, ReadWallet, Goto, TypeOK, ChecksHold
      <3>6. CASE CheckEnough(s) /\ ~Finish(s)
        <4>1. /\ pc[s] = "check" /\ pc'[s] = AfterCheck(c) /\ call' = call /\ snap' = snap
              /\ HasEnough(snap[s], Needed(c)) /\ c.op \in {"Deduct", "Transfer", "CreateWithdraw"}
          BY <3>6 DEF CheckEnough, Goto, TypeOK, CallsOK, CallOK
        <4>2. QED
          BY <4>1 DEF ChecksHold, Needed
      <3>7. CASE ReadTip(s)
        <4>1. pc[s] = "tip" /\ call' = call /\ snap' = snap /\ txs' = txs
          BY <3>7 DEF ReadTip, tables
        <4>2. QED
          BY <4>1 DEF CheckInv, ChecksHold
      <3>8. QED
        BY <1>2, <3>1, <3>2, <3>3, <3>4, <3>5, <3>6, <3>7
           DEF Moves, Step, Abort, SeqConflict, DeadlockVictim, Freeze, Release,
               CommitDeposit, CommitDeduct, CommitCredit, CommitComplete, CommitTransfer
    <2>3. QED
      BY <2>1, <2>2 DEF CheckInv
  <1>3. QED
    BY <1>1, <1>2, NextMoves

(* No step books a second credit under one reference.                      *)
LEMMA CreditOnceStep ==
    ASSUME TypeOK, CallsOK, FreshInv, CheckInv, CreditOncePerRef, [Next]_vars
    PROVE  CreditOncePerRef'
  <1>1. CASE UNCHANGED vars
    BY <1>1 DEF vars, CreditOncePerRef
  <1>2. ASSUME NEW s \in Sessions, Moves(s) PROVE CreditOncePerRef'
    <2>1. ASSUME NEW i \in DOMAIN txs', NEW j \in DOMAIN txs', i \notin DOMAIN txs, i # j,
                 txs'[i].type = "credit_add", txs'[j].type = "credit_add",
                 txs'[i].wallet = txs'[j].wallet, txs'[i].key = txs'[j].key
          PROVE  FALSE
      <3>1. /\ CommitCredit(s) /\ i = Len(txs) + 1
            /\ txs'[i].wallet = call[s].wallet /\ txs'[i].key = call[s].key
        BY <1>2, <2>1, CreditRows
      <3>2. j \in DOMAIN txs /\ txs'[j] = txs[j]
        BY <1>2, <2>1, <3>1, CreditRows
      <3>3. ~SameRef(txs[j], "credit_add", call[s].wallet, call[s].key)
        BY <3>1, <3>2 DEF CommitCredit, CheckInv, ChecksHold
      <3>4. QED
        BY <2>1, <3>1, <3>2, <3>3 DEF SameRef
    <2>2. \A i \in DOMAIN txs : txs'[i] = txs[i]
      BY <1>2, CreditRows
    <2>3. QED
      BY <2>1, <2>2 DEF CreditOncePerRef
  <1>3. QED
    BY <1>1, <1>2, NextMoves

(* The credit part of a payment never exceeds the credit it was read from. *)
LEMMA CreditSplit ==
    ASSUME NEW row \in Row, row.credit >= 0, NEW n \in Int, n > 0
    PROVE  /\ CreditUsed(row, n) \in Int
           /\ CreditUsed(row, n) >= 0 /\ CreditUsed(row, n) <= row.credit
  BY DEF CreditUsed, Row

(* No step takes a credit column below zero.                               *)
LEMMA CreditStep ==
    ASSUME TypeOK, CallsOK, FreshInv, CreditNonNegative, [Next]_vars
    PROVE  CreditNonNegative'
  <1>1. CASE UNCHANGED vars
    BY <1>1 DEF vars, CreditNonNegative
  <1>2. ASSUME NEW s \in Sessions, Moves(s) PROVE CreditNonNegative'
    <2> DEFINE c == call[s]
    <2>1. ASSUME NEW row \in Row, row.credit >= 0, NEW w \in Wallets,
                 wallet' = [wallet EXCEPT ![w] = row]
          PROVE  CreditNonNegative'
      BY <2>1 DEF CreditNonNegative, TypeOK
    <2>2. ASSUME pc[s] # "idle"
          PROVE  /\ c.wallet \in Wallets /\ wallet[c.wallet] \in Row /\ c.amount \in Int
                 /\ wallet[c.wallet].credit >= 0 /\ -c.amount \in Int
      BY <2>2 DEF CallsOK, CallOK, Job, TypeOK, CreditNonNegative
    <2>3. CASE CommitDeposit(s)
      <3>1. AddTon(wallet[c.wallet], c.amount) \in Row
            /\ AddTon(wallet[c.wallet], c.amount).credit >= 0
        BY <2>2, <2>3 DEF CommitDeposit, AddTon, Row
      <3>2. QED
        BY <2>1, <2>2, <2>3, <3>1 DEF CommitDeposit, Post
    <2>4. CASE CommitDeduct(s)
      <3>1. c.amount > 0 /\ snap[s] = wallet[c.wallet]
        BY <2>4 DEF CommitDeduct, CallsOK, CallOK, FreshInv, ReadsFresh, Owns
      <3>2. /\ CreditUsed(snap[s], c.amount) \in Int
            /\ CreditUsed(snap[s], c.amount) <= wallet[c.wallet].credit
        BY <2>2, <2>4, <3>1, CreditSplit DEF CommitDeduct
      <3>3. Charge(wallet[c.wallet], snap[s], c.amount) \in Row
        BY <2>2, <2>4, <3>1, RowOps DEF CommitDeduct
      <3>4. Charge(wallet[c.wallet], snap[s], c.amount).credit >= 0
        BY <2>2, <2>4, <3>2 DEF CommitDeduct, Charge, Row
      <3>5. QED
        BY <2>1, <2>2, <2>4, <3>3, <3>4 DEF CommitDeduct, Post
    <2>5. CASE CommitCredit(s)
      <3>1. c.amount > 0
        BY <2>5 DEF CommitCredit, CallsOK, CallOK
      <3>2. GiveCredit(wallet[c.wallet], c.amount) \in Row
            /\ GiveCredit(wallet[c.wallet], c.amount).credit >= 0
        BY <2>2, <2>5, <3>1 DEF CommitCredit, GiveCredit, Row
      <3>3. QED
        BY <2>1, <2>2, <2>5, <3>2 DEF CommitCredit, Post
    <2>6. CASE CommitComplete(s)
      <3>1. PayOut(wallet[c.wallet], c.amount) \in Row
            /\ PayOut(wallet[c.wallet], c.amount).credit >= 0
        BY <2>2, <2>6 DEF CommitComplete, PayOut, Row
      <3>2. QED
        BY <2>1, <2>2, <2>6, <3>1 DEF CommitComplete, Post
    <2>7. CASE CommitTransfer(s)
      <3> DEFINE from == Charge(wallet[c.wallet], wallet[c.wallet], c.amount)
                 to == Receive(wallet[c.to], wallet[c.wallet], c.amount)
      <3>1. /\ c.wallet \in Wallets /\ c.to \in Wallets /\ c.wallet # c.to
            /\ c.amount \in Int /\ c.amount > 0
            /\ wallet[c.wallet] \in Row /\ wallet[c.to] \in Row
            /\ wallet' = [wallet EXCEPT ![c.wallet] = from, ![c.to] = to]
        BY <2>7, TransferFacts
      <3>2. wallet[c.wallet].credit >= 0 /\ wallet[c.to].credit >= 0
        BY <3>1 DEF CreditNonNegative
      <3>3. /\ CreditUsed(wallet[c.wallet], c.amount) \in Int
            /\ CreditUsed(wallet[c.wallet], c.amount) >= 0
            /\ CreditUsed(wallet[c.wallet], c.amount) <= wallet[c.wallet].credit
        BY <3>1, <3>2, CreditSplit
      <3>4. from.credit >= 0 /\ to.credit >= 0
        BY <3>1, <3>2, <3>3 DEF Charge, Receive, Row
      <3> HIDE DEF from, to
      <3>5. QED
        BY <3>1, <3>4 DEF CreditNonNegative, TypeOK
    <2>8. CASE Freeze(s)
      <3>1. c.amount + NetworkFee \in Int
        BY <2>2, <2>8, StoreAssumption DEF Freeze
      <3>2. Hold(wallet[c.wallet], c.amount + NetworkFee) \in Row
            /\ Hold(wallet[c.wallet], c.amount + NetworkFee).credit >= 0
        BY <2>2, <2>8, <3>1 DEF Freeze, Hold, Row
      <3>3. QED
        BY <2>1, <2>2, <2>8, <3>2 DEF Freeze
    <2>9. CASE Release(s)
      <3>1. Hold(wallet[c.wallet], -c.amount) \in Row
            /\ Hold(wallet[c.wallet], -c.amount).credit >= 0
        BY <2>2, <2>9, HoldRow DEF Release
      <3>2. QED
        BY <2>1, <2>2, <2>9, <3>1 DEF Release
    <2>10. QED
      BY <1>2, <2>3, <2>4, <2>5, <2>6, <2>7, <2>8, <2>9
         DEF CreditNonNegative, Moves, Step, Abort, Begin, tables, FindDuplicate, LockWallet,
             LockRecipient, ReadWallet, CheckEnough, ReadTip, SeqConflict, DeadlockVictim
  <1>3. QED
    BY <1>1, <1>2, NextMoves

-----------------------------------------------------------------------------
(* The audit trail.                                                        *)

(* Block e records what happens between rows and next.                     *)
Records(e, rows, next) ==
    LET w == e.content.wallet IN
    /\ e.content.balanceAfter = Realized(rows[w]) + Delta(e)
    /\ Realized(next[w]) = e.content.balanceAfter
    /\ \A v \in Wallets \ {w} : Realized(next[v]) = Realized(rows[v])

(* A chain that explains the rows still does with the block of one more    *)
(* movement.                                                               *)
LEMMA ExplainsExtends ==
    ASSUME NEW chain \in Seq(Entry), NEW rows \in [Wallets -> Row], Explains(chain, rows),
           NEW e \in Entry, NEW next \in [Wallets -> Row], Records(e, rows, next)
    PROVE  Explains(Append(chain, e), next)
  <1> DEFINE ext == Append(chain, e)
             w == e.content.wallet
             len == Len(chain)
  <1>0. /\ e.content.balanceAfter = Realized(rows[w]) + Delta(e)
        /\ Realized(next[w]) = e.content.balanceAfter
        /\ \A v \in Wallets \ {w} : Realized(next[v]) = Realized(rows[v])
    BY DEF Records
  <1>1. /\ Len(ext) = len + 1 /\ len \in Nat
        /\ DOMAIN ext = 1..(len + 1) /\ DOMAIN chain = 1..len
        /\ \A i \in DOMAIN chain : ext[i] = chain[i]
        /\ ext[len + 1] = e
    OBVIOUS
  <1>2. w \in Wallets /\ \A i \in DOMAIN chain : chain[i].content.wallet \in Wallets
    <2>1. \A x \in Entry : x.content.wallet \in Wallets
      BY DEF Entry, Content
    <2>2. \A i \in DOMAIN chain : chain[i] \in Entry
      OBVIOUS
    <2>3. QED
      BY <2>1, <2>2
  <1> HIDE DEF ext, len
  <1>3. ASSUME NEW v \in Wallets, NEW m \in 0..len, NEW n \in 0..(len + 1)
        PROVE  Apart(ext, v, m, n) <=> Apart(chain, v, m, n)
    BY <1>1, <1>3 DEF Apart
  <1>4. ASSUME NEW v \in Wallets, NEW m \in 0..len
        PROVE  Apart(ext, v, m, len + 2) <=> Apart(chain, v, m, len + 1) /\ v # w
    BY <1>1, <1>4 DEF Apart
  <1>5. ASSUME NEW v \in Wallets, Apart(ext, v, 0, Len(ext) + 1)
        PROVE  Realized(next[v]) = 0
    <2>1. Apart(chain, v, 0, Len(chain) + 1) /\ v # w
      BY <1>1, <1>4, <1>5 DEF len
    <2>2. QED
      BY <1>0, <2>1 DEF Explains
  <1>6. ASSUME NEW n \in DOMAIN ext,
               Apart(ext, ext[n].content.wallet, n, Len(ext) + 1)
        PROVE  ext[n].content.balanceAfter = Realized(next[ext[n].content.wallet])
    <2>1. CASE n = len + 1
      BY <1>0, <1>1, <2>1
    <2>2. CASE n \in DOMAIN chain
      <3> DEFINE v == chain[n].content.wallet
      <3>1. v \in Wallets /\ ext[n] = chain[n] /\ n \in 0..len
        BY <1>1, <1>2, <2>2
      <3>2. Apart(chain, v, n, Len(chain) + 1) /\ v # w
        BY <1>1, <1>4, <1>6, <3>1 DEF len
      <3>3. chain[n].content.balanceAfter = Realized(rows[v])
        BY <2>2, <3>2 DEF Explains
      <3>4. QED
        BY <1>0, <3>1, <3>2, <3>3
    <2>3. QED
      BY <1>1, <2>1, <2>2
  <1>7. ASSUME NEW n \in DOMAIN ext, Apart(ext, ext[n].content.wallet, 0, n)
        PROVE  ext[n].content.balanceAfter = Delta(ext[n])
    <2>1. CASE n = len + 1
      <3>1. Apart(chain, w, 0, Len(chain) + 1)
        BY <1>1, <1>2, <1>3, <1>7, <2>1 DEF len
      <3>2. Realized(rows[w]) = 0
        BY <1>2, <3>1 DEF Explains
      <3>3. Delta(e) \in Int
        BY DEF Delta, Entry, Content
      <3>4. e.content.balanceAfter = Delta(e)
        BY <1>0, <3>2, <3>3
      <3>5. QED
        BY <1>1, <2>1, <3>4
    <2>2. CASE n \in DOMAIN chain
      BY <1>1, <1>2, <1>3, <1>7, <2>2 DEF Explains
    <2>3. QED
      BY <1>1, <2>1, <2>2
  <1>8. ASSUME NEW n \in DOMAIN ext, NEW m \in DOMAIN ext, m < n,
               ext[m].content.wallet = ext[n].content.wallet,
               Apart(ext, ext[n].content.wallet, m, n)
        PROVE  ext[n].content.balanceAfter = ext[m].content.balanceAfter + Delta(ext[n])
    <2>1. CASE n = len + 1
      <3>1. m \in DOMAIN chain /\ m \in 0..len /\ ext[m] = chain[m] /\ ext[n] = e
        BY <1>1, <1>8, <2>1
      <3>2. Apart(chain, w, m, Len(chain) + 1)
        BY <1>1, <1>2, <1>3, <1>8, <2>1, <3>1 DEF len
      <3>3. chain[m].content.balanceAfter = Realized(rows[w])
        BY <1>8, <3>1, <3>2 DEF Explains
      <3>4. QED
        BY <1>0, <3>1, <3>3
    <2>2. CASE n \in DOMAIN chain
      <3>1. m \in DOMAIN chain /\ m \in 0..len /\ n \in 0..(len + 1)
            /\ ext[m] = chain[m] /\ ext[n] = chain[n]
        BY <1>1, <1>8, <2>2
      <3>2. Apart(chain, chain[n].content.wallet, m, n)
        BY <1>2, <1>3, <1>8, <2>2, <3>1
      <3>3. QED
        BY <1>8, <2>2, <3>1, <3>2 DEF Explains
    <2>3. QED
      BY <1>1, <2>1, <2>2
  <1>9. Explains(ext, next)
    BY <1>5, <1>6, <1>7, <1>8 DEF Explains
  <1>10. QED
    BY <1>9 DEF ext

(* A payment takes its amount from the realized balance of the payer and   *)
(* gives it to the receiver, however it is split.                          *)
LEMMA SplitRealized ==
    ASSUME NEW row \in Row, NEW read \in Row, NEW n \in Int
    PROVE  /\ Realized(Charge(row, read, n)) = Realized(row) - n
           /\ Realized(Receive(row, read, n)) = Realized(row) + n
  <1> DEFINE x == CreditUsed(read, n)
             y == TonUsed(read, n)
  <1>1. x \in Int /\ y \in Int
    BY RowOps
  <1>2. y = n - x
    BY DEF TonUsed
  <1>3. row.ton \in Int /\ row.credit \in Int
    BY DEF Row
  <1>4. Realized(Charge(row, read, n)) = (row.ton - y) + (row.credit - x)
    BY DEF Charge, Realized
  <1>5. Realized(Receive(row, read, n)) = (row.ton + y) + (row.credit + x)
    BY DEF Receive, Realized
  <1> HIDE DEF x, y
  <1>6. /\ (row.ton - y) + (row.credit - x) = (row.ton + row.credit) - n
        /\ (row.ton + y) + (row.credit + x) = (row.ton + row.credit) + n
    BY <1>1, <1>2, <1>3
  <1>7. QED
    BY <1>4, <1>5, <1>6 DEF Realized

(* Every step leaves a ledger that explains the balances.                  *)
LEMMA AuditStep ==
    ASSUME TypeOK, CallsOK, FreshInv, AuditTrail, TypeOK', [Next]_vars
    PROVE  AuditTrail'
  <1>1. ASSUME UNCHANGED ledger, \A w \in Wallets : Realized(wallet'[w]) = Realized(wallet[w])
        PROVE  AuditTrail'
    <2>1. \A n \in DOMAIN ledger : ledger[n].content.wallet \in Wallets
      <3>1. \A x \in Entry : x.content.wallet \in Wallets
        BY DEF Entry, Content
      <3>2. QED
        BY <3>1 DEF TypeOK
    <2>2. QED
      BY <1>1, <2>1 DEF AuditTrail, Explains
  <1>2. CASE UNCHANGED vars
    BY <1>1, <1>2 DEF vars
  <1>3. ASSUME NEW s \in Sessions, Moves(s) PROVE AuditTrail'
    <2> DEFINE c == call[s]
    <2>1. ledger \in Seq(Entry) /\ wallet \in [Wallets -> Row] /\ wallet' \in [Wallets -> Row]
      BY DEF TypeOK
    <2>2. ASSUME NEW row \in Row, NEW type \in TxType, NEW et \in EntryType,
                 PostStep(s, row, type, et)
          PROVE  AuditTrail'
      <3> DEFINE e == Block(s, et)
      <3>1. /\ c.wallet \in Wallets /\ c.amount \in Int
            /\ snap[s] = wallet[c.wallet] /\ wallet[c.wallet] \in Row /\ e \in Entry
            /\ wallet' = [wallet EXCEPT ![c.wallet] = row]
            /\ ledger' = Append(ledger, e)
        BY <2>2, PostFacts
      <3>2. /\ e.content.wallet = c.wallet
            /\ e.content.balanceAfter = Realized(snap[s]) + Signed(et, c.amount)
            /\ Delta(e) = Signed(et, c.amount)
        BY DEF Block, LinkEntry, Delta, Signed
      <3>3. Realized(row) = e.content.balanceAfter
        BY <2>2, <3>2 DEF PostStep
      <3> HIDE DEF e
      <3>4. /\ wallet'[e.content.wallet] = row
            /\ \A v \in Wallets \ {e.content.wallet} : Realized(wallet'[v]) = Realized(wallet[v])
        BY <2>1, <3>1, <3>2
      <3>5. Records(e, wallet, wallet')
        BY <3>1, <3>2, <3>3, <3>4 DEF Records
      <3>6. Explains(Append(ledger, e), wallet')
        BY <2>1, <3>1, <3>5, ExplainsExtends DEF AuditTrail
      <3>7. QED
        BY <3>1, <3>6 DEF AuditTrail
    <2>3. CASE CommitTransfer(s)
      <3> DEFINE from == Charge(wallet[c.wallet], wallet[c.wallet], c.amount)
                 to == Receive(wallet[c.to], wallet[c.wallet], c.amount)
                 mid == [wallet EXCEPT ![c.wallet] = from]
      <3>1. /\ c.wallet \in Wallets /\ c.to \in Wallets /\ c.wallet # c.to
            /\ c.amount \in Int /\ snap[s] = wallet[c.wallet] /\ toSnap[s] = wallet[c.to]
            /\ wallet[c.wallet] \in Row /\ wallet[c.to] \in Row
            /\ Out(s) \in Entry /\ In(s) \in Entry
            /\ wallet' = [wallet EXCEPT ![c.wallet] = from, ![c.to] = to]
            /\ ledger' = Append(Append(ledger, Out(s)), In(s))
        BY <2>3, TransferFacts
      <3>2. /\ Out(s).content.wallet = c.wallet /\ Delta(Out(s)) = -c.amount
            /\ Out(s).content.balanceAfter = Realized(wallet[c.wallet]) - c.amount
            /\ In(s).content.wallet = c.to /\ Delta(In(s)) = c.amount
            /\ In(s).content.balanceAfter = Realized(wallet[c.to]) + c.amount
        BY <3>1 DEF Out, In, LinkEntry, Delta
      <3>3. from \in Row /\ to \in Row
        BY <3>1, RowOps
      <3>4. /\ Realized(from) = Realized(wallet[c.wallet]) - c.amount
            /\ Realized(to) = Realized(wallet[c.to]) + c.amount
        BY <3>1, SplitRealized
      <3>5. /\ Realized(wallet[c.wallet]) \in Int
            /\ Realized(wallet[c.wallet]) - c.amount = Realized(wallet[c.wallet]) + (-c.amount)
        BY <3>1, RealizedType
      <3> HIDE DEF from, to
      <3>6. /\ mid \in [Wallets -> Row] /\ mid[c.wallet] = from /\ mid[c.to] = wallet[c.to]
            /\ \A v \in Wallets \ {c.wallet} : mid[v] = wallet[v]
            /\ wallet'[c.to] = to /\ \A v \in Wallets \ {c.to} : wallet'[v] = mid[v]
        BY <2>1, <3>1, <3>3
      <3> HIDE DEF mid
      <3> DEFINE o == Out(s)
                 i == In(s)
      <3>7. /\ o \in Entry /\ i \in Entry
            /\ Records(o, wallet, mid) /\ Records(i, mid, wallet')
            /\ ledger' = Append(Append(ledger, o), i)
        BY <3>1, <3>2, <3>4, <3>5, <3>6 DEF Records
      <3> HIDE DEF o, i
      <3>8. Explains(Append(ledger, o), mid) /\ Append(ledger, o) \in Seq(Entry)
        BY <2>1, <3>6, <3>7, ExplainsExtends DEF AuditTrail
      <3>9. Explains(Append(Append(ledger, o), i), wallet')
        BY <2>1, <3>6, <3>7, <3>8, ExplainsExtends
      <3>10. QED
        BY <3>7, <3>9 DEF AuditTrail
    <2>4. CASE Freeze(s) \/ Release(s)
      <3>1. c.wallet \in Wallets /\ c.amount \in Int
        BY <2>4 DEF Freeze, Release, CallsOK, CallOK, Job
      <3>2. \E n \in Int : wallet' = [wallet EXCEPT ![c.wallet] = Hold(wallet[c.wallet], n)]
        <4>1. c.amount + NetworkFee \in Int /\ -c.amount \in Int
          BY <3>1, StoreAssumption
        <4>2. QED
          BY <2>4, <4>1 DEF Freeze, Release
      <3>3. PICK n \in Int : wallet' = [wallet EXCEPT ![c.wallet] = Hold(wallet[c.wallet], n)]
        BY <3>2
      <3>4. Realized(Hold(wallet[c.wallet], n)) = Realized(wallet[c.wallet])
        BY <2>1, <3>1, HoldRow
      <3>5. QED
        BY <1>1, <2>1, <2>4, <3>1, <3>3, <3>4 DEF Freeze, Release
    <2>5. CASE UNCHANGED tables
      BY <1>1, <2>5 DEF tables
    <2>6. QED
      BY <1>3, <2>2, <2>3, <2>4, <2>5, Effects
  <1>4. QED
    BY <1>2, <1>3, NextMoves

-----------------------------------------------------------------------------
(* Payments are covered when they commit.                                  *)

(* The payment rows a step adds, and who adds them.                        *)
LEMMA PaymentRows ==
    ASSUME TypeOK, NEW s \in Sessions, Moves(s),
           NEW i \in DOMAIN txs', i \notin DOMAIN txs, txs'[i].type = "payment"
    PROVE  (CommitDeduct(s) \/ CommitTransfer(s)) /\ txs'[i].wallet = call[s].wallet
  <1> DEFINE c == call[s]
  <1>1. ASSUME NEW x, txs' = Append(txs, x)
        PROVE  txs'[i] = x
    BY <1>1 DEF TypeOK
  <1>2. CASE CommitDeduct(s)
    BY <1>1, <1>2 DEF CommitDeduct, Post, NewTx
  <1>3. CASE CommitTransfer(s)
    <2> DEFINE out == NewTx("payment", c.wallet, NoKey, -c.amount)
               in == NewTx("deposit", c.to, NoKey, c.amount)
    <2>1. txs' = Append(Append(txs, out), in)
      BY <1>3 DEF CommitTransfer
    <2>2. out.wallet = c.wallet /\ in.type # "payment"
      BY DEF NewTx
    <2> HIDE DEF out, in
    <2>3. txs'[i] = out \/ txs'[i] = in
      BY <2>1 DEF TypeOK
    <2>4. QED
      BY <1>3, <2>2, <2>3
  <1>4. CASE CommitDeposit(s)
    BY <1>1, <1>4 DEF CommitDeposit, Post, NewTx
  <1>5. CASE CommitCredit(s)
    BY <1>1, <1>5 DEF CommitCredit, Post, NewTx
  <1>6. CASE CommitComplete(s)
    BY <1>1, <1>6 DEF CommitComplete, Post, NewTx
  <1>7. CASE Release(s)
    BY <1>1, <1>7 DEF Release, NewTx
  <1>8. CASE UNCHANGED txs
    BY <1>8
  <1>9. QED
    BY <1>2, <1>3, <1>4, <1>5, <1>6, <1>7, <1>8
       DEF Moves, Step, Abort, Begin, tables, FindDuplicate, LockWallet, LockRecipient,
           ReadWallet, CheckEnough, ReadTip, SeqConflict, DeadlockVictim, Freeze

(* A charge that HasEnough allows leaves nothing held uncovered.           *)
LEMMA ChargeCovered ==
    ASSUME NEW row \in Row, NEW n \in Int, HasEnough(row, n)
    PROVE  Available(Charge(row, row, n)) >= 0
  <1>1. Realized(Charge(row, row, n)) = Realized(row) - n
    BY SplitRealized
  <1>2. Charge(row, row, n).frozen = row.frozen /\ row.frozen \in Int /\ Realized(row) \in Int
    BY RealizedType DEF Charge, Row
  <1>3. QED
    BY <1>1, <1>2 DEF Available, HasEnough

(* Every payment or transfer a step commits is covered.                    *)
LEMMA CoverStep ==
    ASSUME TypeOK, CallsOK, FreshInv, CheckInv, [Next]_vars
    PROVE  [PaysFromAvailable]_vars
  <1>1. ASSUME NEW s \in Sessions, Moves(s) PROVE PaysFromAvailable
    <2> SUFFICES ASSUME NEW w \in Wallets, NEW i \in DOMAIN txs' \ DOMAIN txs,
                        txs'[i].type = "payment", txs'[i].wallet = w
                 PROVE  Available(wallet'[w]) >= 0
      BY DEF PaysFromAvailable
    <2> DEFINE c == call[s]
               row == wallet[c.wallet]
    <2>1. (CommitDeduct(s) \/ CommitTransfer(s)) /\ w = c.wallet
      BY <1>1, PaymentRows
    <2>2. /\ pc[s] = "commit" /\ c.op \in {"Deduct", "Transfer"} /\ c.amount \in Int
          /\ row \in Row /\ snap[s] = row
      BY <2>1 DEF CommitDeduct, CommitTransfer, CallsOK, CallOK, Job, FreshInv, ReadsFresh,
         Owns, TypeOK
    <2>3. Available(Charge(row, row, c.amount)) >= 0
      <3>1. HasEnough(row, c.amount)
        BY <2>2 DEF CheckInv, ChecksHold
      <3> HIDE DEF row
      <3>2. QED
        BY <2>2, <3>1, ChargeCovered
    <2>4. wallet'[w] = Charge(row, row, c.amount)
      <3>1. CASE CommitDeduct(s)
        BY <2>1, <2>2, <3>1 DEF CommitDeduct, Post, TypeOK
      <3>2. CASE CommitTransfer(s)
        <4>1. /\ c.wallet # c.to /\ c.to \in Wallets
              /\ wallet' = [wallet EXCEPT ![c.wallet] = Charge(row, row, c.amount),
                                          ![c.to] = Receive(wallet[c.to], row, c.amount)]
          BY <3>2, TransferFacts
        <4>2. QED
          BY <2>1, <4>1 DEF TypeOK
      <3>3. QED
        BY <2>1, <3>1, <3>2
    <2>5. QED
      BY <2>3, <2>4
  <1>2. QED
    BY <1>1, NextMoves

-----------------------------------------------------------------------------
(* The theorems.                                                           *)

(* The inductive invariant.                                                *)
StoreInv ==
    /\ TypeOK /\ CallsOK /\ FreshInv /\ ChainInv /\ CheckInv
    /\ CreditOncePerRef /\ CreditNonNegative /\ AuditTrail

(* The empty database satisfies the invariant.                             *)
LEMMA InitInv == Init => StoreInv
  <1> SUFFICES ASSUME Init PROVE StoreInv
    OBVIOUS
  <1>1. TypeOK /\ CallsOK
    BY TypeInit
  <1>2. FreshInv /\ CheckInv
    BY DEF Init, FreshInv, ReadsFresh, Owns, OwnsTo, CheckInv, ChecksHold
  <1>3. ChainInv
    BY DEF Init, ChainInv, SeqOK, ChainValid, VerifyChain, TipOK
  <1>4. CreditOncePerRef
    BY DEF Init, CreditOncePerRef
  <1>5. CreditNonNegative /\ AuditTrail
    BY DEF Init, EmptyRow, CreditNonNegative, AuditTrail, Explains, Realized
  <1>6. QED
    BY <1>1, <1>2, <1>3, <1>4, <1>5 DEF StoreInv

(* Every step preserves the invariant.                                     *)
LEMMA InvStep == StoreInv /\ [Next]_vars => StoreInv'
  BY TypeStep, FreshStep, ChainStep, CheckStep, CreditOnceStep, CreditStep, AuditStep
     DEF StoreInv

(* The invariant of the store holds in every reachable state: the reads    *)
(* made under row locks are fresh, the checks made on them still hold, and *)
(* chain, credits and balances agree.                                      *)
THEOREM StoreInvariant == Spec => []StoreInv
  BY InitInv, InvStep, PTL DEF Spec

(* Store.VerifyChain accepts the ledger in every reachable state.          *)
THEOREM ChainAlwaysValid == Spec => []ChainValid
  <1>1. StoreInv => ChainValid
    BY DEF StoreInv, ChainInv
  <1>2. QED
    BY <1>1, StoreInvariant, PTL

(* The ledger explains every wallet's realized balance, block by block.    *)
THEOREM LedgerExplainsBalances == Spec => []AuditTrail
  <1>1. StoreInv => AuditTrail
    BY DEF StoreInv
  <1>2. QED
    BY <1>1, StoreInvariant, PTL

(* A (service, ref) is credited to a wallet at most once, however many     *)
(* sessions retry it.                                                      *)
THEOREM CreditIdempotent == Spec => []CreditOncePerRef
  <1>1. StoreInv => CreditOncePerRef
    BY DEF StoreInv
  <1>2. QED
    BY <1>1, StoreInvariant, PTL

(* The credit column never goes below zero.                                *)
THEOREM CreditNeverNegative == Spec => []CreditNonNegative
  <1>1. StoreInv => CreditNonNegative
    BY DEF StoreInv
  <1>2. QED
    BY <1>1, StoreInvariant, PTL

(* No interleaving makes a payment or a transfer spend held or missing     *)
(* money: the balance checked under the lock is the balance charged.       *)
THEOREM PaymentsCovered == Spec => SpendCovered
  <1>1. StoreInv /\ [Next]_vars => [PaysFromAvailable]_vars
    BY CoverStep DEF StoreInv
  <1>2. QED
    BY <1>1, StoreInvariant, PTL DEF Spec, SpendCovered

=============================================================================
