------------------------- MODULE WalletBookProofs -------------------------
(***************************************************************************)
(* More about WalletStore: every movement has its block, the ledger adds   *)
(* up to the balances, keys are not used twice by a single caller, and the *)
(* interleaved statements implement AtomicWallet.                          *)
(*                                                                         *)
(* Induction over the ledger is by the least place at which a fact fails.  *)
(***************************************************************************)
EXTENDS WalletStoreProofs, WellFoundedInduction

(* The sessions' reads and checks stay true and blocks are numbered by     *)
(* their place, in every interleaving of the store's statements.           *)
THEOREM SessionsAlwaysOK == Spec => []SessionsOK
  <1>1. StoreInv => SessionsOK
    BY DEF StoreInv, SessionsOK, ChainInv, CallsOK, FreshInv, CheckInv
  <1>. QED  BY <1>1, StoreInvariant, PTL

-----------------------------------------------------------------------------
(* Movements and blocks.  A block names a transaction that exists, so the  *)
(* id of the next one is new to the ledger.                                *)
Books(chain, rows) ==
    /\ \A n \in DOMAIN chain : chain[n].content.tx \in DOMAIN rows
    /\ \A i \in DOMAIN rows : rows[i].type # "refund" =>
          \E n \in DOMAIN chain :
             /\ chain[n].content.tx = i
             /\ chain[n].content.wallet = rows[i].wallet
             /\ Delta(chain[n]) = rows[i].amount
             /\ \A m \in DOMAIN chain \ {n} : chain[m].content.tx # i

LEMMA BooksAppend ==
    ASSUME NEW chain \in Seq(Entry), NEW rows \in Seq(Tx), Books(chain, rows),
           NEW e \in Entry, NEW x \in Tx,
           e.content.tx = Len(rows) + 1, e.content.wallet = x.wallet, Delta(e) = x.amount
    PROVE  Books(Append(chain, e), Append(rows, x))
  <1>. DEFINE nc == Append(chain, e)
              nr == Append(rows, x)
  <1>1. /\ Len(chain) \in Nat /\ Len(rows) \in Nat
        /\ DOMAIN chain = 1..Len(chain) /\ DOMAIN rows = 1..Len(rows)
        /\ DOMAIN nc = 1..(Len(chain) + 1) /\ DOMAIN nr = 1..(Len(rows) + 1)
        /\ \A n \in DOMAIN chain : nc[n] = chain[n]
        /\ \A i \in DOMAIN rows : nr[i] = rows[i]
        /\ nc[Len(chain) + 1] = e /\ nr[Len(rows) + 1] = x
    OBVIOUS
  <1>. HIDE DEF nc, nr
  <1>2. \A n \in DOMAIN nc : nc[n].content.tx \in DOMAIN nr
    <2>1. \A n \in DOMAIN chain : nc[n].content.tx \in 1..Len(rows)
      BY <1>1 DEF Books
    <2>. QED  BY <1>1, <2>1
  <1>3. ASSUME NEW i \in DOMAIN nr, nr[i].type # "refund"
        PROVE  \E n \in DOMAIN nc :
                 /\ nc[n].content.tx = i
                 /\ nc[n].content.wallet = nr[i].wallet
                 /\ Delta(nc[n]) = nr[i].amount
                 /\ \A m \in DOMAIN nc \ {n} : nc[m].content.tx # i
    <2>1. CASE i \in DOMAIN rows
      <3>1. PICK n \in DOMAIN chain :
                 /\ chain[n].content.tx = i
                 /\ chain[n].content.wallet = rows[i].wallet
                 /\ Delta(chain[n]) = rows[i].amount
                 /\ \A m \in DOMAIN chain \ {n} : chain[m].content.tx # i
        BY <1>1, <1>3, <2>1 DEF Books
      <3>2. n \in DOMAIN nc /\ nc[n] = chain[n] /\ nr[i] = rows[i] /\ i # Len(rows) + 1
        BY <1>1, <2>1
      <3>3. ASSUME NEW m \in DOMAIN nc \ {n}  PROVE nc[m].content.tx # i
        BY <1>1, <3>1, <3>2
      <3>. QED  BY <3>1, <3>2, <3>3
    <2>2. CASE i = Len(rows) + 1
      <3>. DEFINE n == Len(chain) + 1
      <3>1. n \in DOMAIN nc /\ nc[n] = e /\ nr[i] = x
        BY <1>1, <2>2
      <3>2. ASSUME NEW m \in DOMAIN nc \ {n}  PROVE nc[m].content.tx # i
        <4>1. m \in DOMAIN chain /\ nc[m] = chain[m]
          BY <1>1
        <4>2. nc[m].content.tx \in 1..Len(rows)
          BY <1>1, <4>1 DEF Books
        <4>. QED  BY <1>1, <2>2, <4>2
      <3>. QED  BY <2>2, <3>1, <3>2
    <2>. QED  BY <1>1, <2>1, <2>2
  <1>4. Books(nc, nr)
    BY <1>2, <1>3 DEF Books
  <1>. QED  BY <1>4 DEF nc, nr

(* The zero refund of a rejected withdrawal needs no block.                *)
LEMMA BooksRefund ==
    ASSUME NEW chain \in Seq(Entry), NEW rows \in Seq(Tx), Books(chain, rows),
           NEW x \in Tx, x.type = "refund"
    PROVE  Books(chain, Append(rows, x))
  <1>. DEFINE nr == Append(rows, x)
  <1>1. /\ DOMAIN rows = 1..Len(rows) /\ Len(rows) \in Nat
        /\ DOMAIN nr = 1..(Len(rows) + 1) /\ nr[Len(rows) + 1] = x
        /\ \A i \in DOMAIN rows : nr[i] = rows[i]
    OBVIOUS
  <1>. HIDE DEF nr
  <1>2. DOMAIN rows \subseteq DOMAIN nr
    BY <1>1
  <1>3. \A i \in DOMAIN nr : nr[i].type # "refund" => i \in DOMAIN rows
    BY <1>1
  <1>4. Books(chain, nr)
    BY <1>1, <1>2, <1>3 DEF Books
  <1>. QED  BY <1>4 DEF nr

LEMMA BooksStep ==
    ASSUME TypeOK, CallsOK, FreshInv, Books(ledger, txs), [Next]_vars
    PROVE  Books(ledger', txs')
  <1>1. ledger \in Seq(Entry) /\ txs \in Seq(Tx) /\ Len(txs) \in Nat
    BY DEF TypeOK
  <1>2. ASSUME UNCHANGED <<ledger, txs>>  PROVE Books(ledger', txs')
    BY <1>2
  <1>3. ASSUME NEW s \in Sessions, NEW row \in Row, NEW type \in TxType, NEW et \in EntryType,
               PostStep(s, row, type, et)
        PROVE  Books(ledger', txs')
    <2>. DEFINE x == NewTx(type, call[s].wallet, call[s].key, Signed(et, call[s].amount))
                e == Block(s, et)
    <2>1. /\ call[s] \in Job /\ call[s].wallet \in Wallets /\ call[s].amount \in Int
          /\ e \in Entry /\ txs' = Append(txs, x) /\ ledger' = Append(ledger, e)
      BY <1>3, PostFacts
    <2>2. x \in Tx
      <3>1. call[s].key \in Keys \cup {NoKey} /\ Signed(et, call[s].amount) \in Int
        BY <2>1 DEF Job, Signed
      <3>. QED  BY <2>1, <3>1, NewTxType
    <2>3. e.content.tx = Len(txs) + 1 /\ e.content.wallet = x.wallet /\ Delta(e) = x.amount
      BY <2>1 DEF Block, LinkEntry, NewTx, Delta, Signed, EntryType
    <2>. HIDE DEF x, e
    <2>4. Books(Append(ledger, e), Append(txs, x))
      BY <1>1, <2>1, <2>2, <2>3, BooksAppend
    <2>. QED  BY <2>1, <2>4
  <1>4. ASSUME NEW s \in Sessions, CommitTransfer(s)  PROVE Books(ledger', txs')
    <2>. DEFINE c == call[s]
                x == NewTx("payment", c.wallet, NoKey, -c.amount)
                y == NewTx("deposit", c.to, NoKey, c.amount)
    <2>1. /\ c \in Job /\ c.wallet \in Wallets /\ c.to \in Wallets /\ c.amount \in Int
          /\ Out(s) \in Entry /\ In(s) \in Entry
          /\ ledger' = Append(Append(ledger, Out(s)), In(s))
      BY <1>4, TransferFacts
    <2>2. txs' = Append(Append(txs, x), y)
      BY <1>4 DEF CommitTransfer
    <2>3. x \in Tx /\ y \in Tx
      <3>1. NoKey \in Keys \cup {NoKey} /\ -c.amount \in Int /\ {"payment", "deposit"} \subseteq TxType
        BY <2>1 DEF TxType
      <3>. HIDE DEF c
      <3>. QED  BY <2>1, <3>1, NewTxType
    <2>4. /\ Out(s).content.tx = Len(txs) + 1 /\ Out(s).content.wallet = x.wallet
          /\ Delta(Out(s)) = x.amount
      BY <2>1 DEF Out, LinkEntry, NewTx, Delta
    <2>5. /\ In(s).content.tx = Len(txs) + 2 /\ In(s).content.wallet = y.wallet
          /\ Delta(In(s)) = y.amount
      BY <2>1 DEF In, LinkEntry, NewTx, Delta
    <2>. HIDE DEF x, y
    <2>6. Books(Append(ledger, Out(s)), Append(txs, x))
      BY <1>1, <2>1, <2>3, <2>4, BooksAppend
    <2>7. /\ Append(ledger, Out(s)) \in Seq(Entry) /\ Append(txs, x) \in Seq(Tx)
          /\ Len(Append(txs, x)) + 1 = Len(txs) + 2
      BY <1>1, <2>1, <2>3
    <2>8. Books(Append(Append(ledger, Out(s)), In(s)), Append(Append(txs, x), y))
      BY <2>1, <2>3, <2>5, <2>6, <2>7, BooksAppend
    <2>. QED  BY <2>1, <2>2, <2>8
  <1>5. ASSUME NEW s \in Sessions, Release(s)  PROVE Books(ledger', txs')
    <2>. DEFINE x == NewTx("refund", call[s].wallet, NoKey, 0)
    <2>1. txs' = Append(txs, x) /\ ledger' = ledger /\ call[s] \in Job
      BY <1>5 DEF Release, CallsOK, CallOK
    <2>2. x \in Tx /\ x.type = "refund"
      <3>1. call[s].wallet \in Wallets /\ NoKey \in Keys \cup {NoKey} /\ "refund" \in TxType
        BY <2>1 DEF Job, TxType
      <3>2. x \in Tx
        BY <3>1, NewTxType
      <3>. QED  BY <3>2 DEF NewTx
    <2>. HIDE DEF x
    <2>3. Books(ledger, Append(txs, x))
      BY <1>1, <2>2, BooksRefund
    <2>. QED  BY <2>1, <2>3
  <1>6. ASSUME NEW s \in Sessions, Moves(s)  PROVE Books(ledger', txs')
    BY <1>2, <1>3, <1>4, <1>5, <1>6, Effects DEF Freeze, tables
  <1>7. CASE UNCHANGED vars
    BY <1>2, <1>7 DEF vars
  <1>. QED  BY <1>6, <1>7, NextMoves

(* The balance never changes without a block: every transaction that moves *)
(* money has exactly one block in the ledger, of its wallet and amount.    *)
THEOREM MovementsBooked == Spec => []EveryMovementBooked
  <1>. DEFINE Inv == StoreInv /\ Books(ledger, txs)
  <1>1. Init => Inv
    BY InitInv DEF Init, Books
  <1>2. Inv /\ [Next]_vars => Inv'
    BY InvStep, BooksStep DEF StoreInv
  <1>3. Inv => EveryMovementBooked
    BY DEF Books, EveryMovementBooked
  <1>. QED  BY <1>1, <1>2, <1>3, PTL DEF Spec

-----------------------------------------------------------------------------
(* Keys.  Deposit and Deduct look for their key before they lock anything, *)
(* so that two sessions can both find it free.  Where one session at a     *)
(* time makes such calls, as the watcher's goroutine and the queue of one  *)
(* subject do in one process, a key is used once.                          *)

SoleServer(op) ==
    \A s, t \in Sessions : op \in Serves[s] /\ op \in Serves[t] => s = t

Served == \A s \in Sessions : pc[s] # "idle" => call[s].op \in Serves[s]

LookedUp(s) == pc[s] \in {"lock", "check", "tip", "commit"}

RefFree(s) ==
    LookedUp(s) /\ call[s].op = "Deduct" /\ call[s].key # NoKey =>
        \A i \in DOMAIN txs : ~SameRef(txs[i], "payment", call[s].wallet, call[s].key)

HashFree(s) ==
    LookedUp(s) /\ call[s].op = "Deposit" =>
        \A i \in DOMAIN txs : txs[i].type = "deposit" => txs[i].key # call[s].key

(* The rows with a key that a step adds, and who adds them.                *)
LEMMA KeyedRows ==
    ASSUME TypeOK, NEW s \in Sessions, Moves(s),
           NEW i \in DOMAIN txs', i \notin DOMAIN txs, txs'[i].key # NoKey
    PROVE  /\ i = Len(txs) + 1
           /\ txs'[i].key = call[s].key /\ txs'[i].wallet = call[s].wallet
           /\ txs'[i].type = "payment" => CommitDeduct(s)
           /\ txs'[i].type = "deposit" => CommitDeposit(s)
  <1>. DEFINE c == call[s]
  <1>1. ASSUME NEW x, txs' = Append(txs, x)
        PROVE  txs'[i] = x /\ i = Len(txs) + 1
    BY <1>1 DEF TypeOK
  <1>2. CASE CommitDeduct(s)
    BY <1>1, <1>2 DEF CommitDeduct, Post, NewTx
  <1>3. CASE CommitTransfer(s)
    <2>. DEFINE out == NewTx("payment", c.wallet, NoKey, -c.amount)
                in == NewTx("deposit", c.to, NoKey, c.amount)
    <2>1. txs' = Append(Append(txs, out), in)
      BY <1>3 DEF CommitTransfer
    <2>2. out.key = NoKey /\ in.key = NoKey
      BY DEF NewTx
    <2>. HIDE DEF out, in
    <2>3. txs'[i] = out \/ txs'[i] = in
      BY <2>1 DEF TypeOK
    <2>. QED  BY <2>2, <2>3
  <1>4. CASE CommitDeposit(s)
    BY <1>1, <1>4 DEF CommitDeposit, Post, NewTx
  <1>5. CASE CommitCredit(s)
    BY <1>1, <1>5 DEF CommitCredit, Post, NewTx
  <1>6. CASE CommitComplete(s)
    BY <1>1, <1>6 DEF CommitComplete, Post, NewTx
  <1>7. CASE Release(s)
    BY <1>1, <1>7 DEF Release, NewTx
  <1>8. CASE UNCHANGED txs
    BY <1>8
  <1>. QED
    BY <1>2, <1>3, <1>4, <1>5, <1>6, <1>7, <1>8
       DEF Moves, Step, Abort, Begin, tables, FindDuplicate, LockWallet, LockRecipient,
           ReadWallet, CheckEnough, ReadTip, SeqConflict, DeadlockVictim, Freeze

(* How a session gets to the statements after its look-up.                 *)
LEMMA LooksFirst ==
    ASSUME TypeOK, CallsOK, NEW s \in Sessions, Moves(s), LookedUp(s)',
           \/ call'[s].op = "Deduct" /\ call'[s].key # NoKey
           \/ call'[s].op = "Deposit"
    PROVE  /\ UNCHANGED txs /\ call'[s] = call[s]
           /\ LookedUp(s) \/ (pc[s] = "find" /\ ~Duplicate(call[s]))
  <1>1. ~Finish(s)
    BY DEF Finish, Goto, TypeOK, LookedUp
  <1>2. \A d \in Calls : ~Begin(s, d)
    <2>1. SUFFICES ASSUME NEW d \in Calls, Begin(s, d)  PROVE FALSE
      OBVIOUS
    <2>2. /\ Arguments(d).op = d.op /\ Arguments(d).key = d.key
          /\ call'[s] = Arguments(d) /\ pc'[s] = FirstStep(d)
      BY <2>1, ArgumentsType DEF Begin, Goto, TypeOK
    <2>. QED  BY <2>2 DEF FirstStep, LookedUp
  <1>3. CASE FindDuplicate(s)
    BY <1>1, <1>3 DEF FindDuplicate, tables
  <1>4. CASE LockWallet(s) \/ CheckEnough(s) \/ ReadTip(s)
    BY <1>1, <1>4 DEF LockWallet, CheckEnough, ReadTip, tables, LookedUp
  <1>5. CASE LockRecipient(s) \/ ReadWallet(s)
    BY <1>5 DEF LockRecipient, ReadWallet, CallsOK, CallOK
  <1>. QED
    BY <1>1, <1>2, <1>3, <1>4, <1>5
       DEF Moves, Step, Abort, SeqConflict, DeadlockVictim, Freeze, Release,
           CommitDeposit, CommitDeduct, CommitCredit, CommitComplete, CommitTransfer

LEMMA ServedStep ==
    ASSUME TypeOK, CallsOK, FreshInv, Served, NEW s \in Sessions, Moves(s)
    PROVE  Served'
  <1>1. ASSUME NEW t \in Sessions, t # s  PROVE pc'[t] # "idle" => call'[t].op \in Serves[t]
    BY <1>1, OthersKeep DEF Served
  <1>2. pc'[s] # "idle" => call'[s].op \in Serves[s]
    <2>1. CASE Finish(s)
      BY <2>1 DEF Finish, Goto, TypeOK
    <2>2. ASSUME NEW d \in Calls, Begin(s, d)  PROVE call'[s].op \in Serves[s]
      BY <2>2, ArgumentsType DEF Begin, TypeOK
    <2>3. CASE ~Finish(s) /\ \A d \in Calls : ~Begin(s, d)
      <3>1. call' = call /\ pc[s] # "idle"
        BY <2>3 DEF Moves, Step, Abort, FindDuplicate, LockWallet, LockRecipient,
           ReadWallet, CheckEnough, ReadTip, SeqConflict, DeadlockVictim, Freeze, Release,
           CommitDeposit, CommitDeduct, CommitCredit, CommitComplete, CommitTransfer
      <3>. QED  BY <3>1 DEF Served
    <2>. QED  BY <2>1, <2>2, <2>3
  <1>. QED  BY <1>1, <1>2 DEF Served

(* A step of the sole payer, or of anybody else, keeps its key free until  *)
(* it commits, and commits it once.                                        *)
PayInv == Served /\ (\A s \in Sessions : RefFree(s)) /\ PaymentOncePerRef

LEMMA PayStep ==
    ASSUME SoleServer("Deduct"), TypeOK, CallsOK, FreshInv, PayInv, [Next]_vars
    PROVE  PayInv'
  <1>1. CASE UNCHANGED vars
    BY <1>1 DEF vars, PayInv, Served, RefFree, LookedUp, PaymentOncePerRef
  <1>2. ASSUME NEW s \in Sessions, Moves(s)  PROVE PayInv'
    <2>1. Served'
      BY <1>2, ServedStep DEF PayInv
    <2>2. DOMAIN txs \subseteq DOMAIN txs' /\ \A i \in DOMAIN txs : txs'[i] = txs[i]
      BY <1>2, CreditRows
    <2>3. CommitDeduct(s) => "Deduct" \in Serves[s] /\ pc[s] = "commit" /\ call[s].op = "Deduct"
      BY DEF CommitDeduct, PayInv, Served
    <2>4. ASSUME NEW t \in Sessions, t # s  PROVE RefFree(t)'
      <3>1. pc'[t] = pc[t] /\ call'[t] = call[t]
        BY <1>2, <2>4, OthersKeep
      <3>2. ASSUME LookedUp(t), call[t].op = "Deduct", call[t].key # NoKey,
                   NEW i \in DOMAIN txs', SameRef(txs'[i], "payment", call[t].wallet, call[t].key)
            PROVE  FALSE
        <4>1. i \notin DOMAIN txs
          BY <2>2, <3>2 DEF PayInv, RefFree
        <4>2. CommitDeduct(s)
          BY <1>2, <3>2, <4>1, KeyedRows DEF SameRef
        <4>3. "Deduct" \in Serves[t]
          BY <3>2 DEF PayInv, Served, LookedUp
        <4>. QED  BY <2>3, <2>4, <4>2, <4>3 DEF SoleServer
      <3>. QED  BY <3>1, <3>2 DEF RefFree, LookedUp
    <2>5. RefFree(s)'
      <3>1. SUFFICES ASSUME LookedUp(s)', call'[s].op = "Deduct", call'[s].key # NoKey,
                            NEW i \in DOMAIN txs',
                            SameRef(txs'[i], "payment", call'[s].wallet, call'[s].key)
                     PROVE  FALSE
        BY DEF RefFree
      <3>2. /\ UNCHANGED txs /\ call'[s] = call[s]
            /\ LookedUp(s) \/ (pc[s] = "find" /\ ~Duplicate(call[s]))
        BY <1>2, <3>1, LooksFirst
      <3>. QED  BY <3>1, <3>2 DEF PayInv, RefFree, Duplicate
    <2>6. ASSUME NEW i \in DOMAIN txs', NEW j \in DOMAIN txs', i \notin DOMAIN txs, i # j,
                 txs'[i].type = "payment", txs'[j].type = "payment",
                 txs'[i].wallet = txs'[j].wallet, txs'[i].key = txs'[j].key, txs'[i].key # NoKey
          PROVE  FALSE
      <3>1. /\ CommitDeduct(s) /\ i = Len(txs) + 1
            /\ txs'[i].key = call[s].key /\ txs'[i].wallet = call[s].wallet
        BY <1>2, <2>6, KeyedRows
      <3>2. j \in DOMAIN txs /\ txs'[j] = txs[j]
        BY <1>2, <2>2, <2>6, <3>1, KeyedRows
      <3>. QED  BY <2>3, <2>6, <3>1, <3>2 DEF PayInv, RefFree, LookedUp, SameRef
    <2>7. PaymentOncePerRef'
      BY <2>2, <2>6 DEF PayInv, PaymentOncePerRef
    <2>. QED  BY <2>1, <2>4, <2>5, <2>7 DEF PayInv
  <1>. QED  BY <1>1, <1>2, NextMoves

(* Deduct's idempotency: with one session for the deduct subject, a        *)
(* (service, ref) is charged once, however calls fail and are repeated.    *)
THEOREM PaymentOnce ==
    ASSUME SoleServer("Deduct")
    PROVE  Spec => []PaymentOncePerRef
  <1>. DEFINE Inv == StoreInv /\ PayInv
  <1>1. Init => Inv
    BY InitInv DEF Init, PayInv, Served, RefFree, LookedUp, PaymentOncePerRef
  <1>2. Inv /\ [Next]_vars => Inv'
    BY InvStep, PayStep DEF StoreInv
  <1>3. Inv => PaymentOncePerRef
    BY DEF PayInv
  <1>. QED  BY <1>1, <1>2, <1>3, PTL DEF Spec

DepositInv == Served /\ (\A s \in Sessions : HashFree(s)) /\ DepositOncePerHash

LEMMA DepositStep ==
    ASSUME SoleServer("Deposit"), TypeOK, CallsOK, FreshInv, DepositInv, [Next]_vars
    PROVE  DepositInv'
  <1>1. CASE UNCHANGED vars
    BY <1>1 DEF vars, DepositInv, Served, HashFree, LookedUp, DepositOncePerHash
  <1>2. ASSUME NEW s \in Sessions, Moves(s)  PROVE DepositInv'
    <2>1. Served'
      BY <1>2, ServedStep DEF DepositInv
    <2>2. DOMAIN txs \subseteq DOMAIN txs' /\ \A i \in DOMAIN txs : txs'[i] = txs[i]
      BY <1>2, CreditRows
    <2>3. CommitDeposit(s) => "Deposit" \in Serves[s] /\ pc[s] = "commit" /\ call[s].op = "Deposit"
      BY DEF CommitDeposit, DepositInv, Served
    <2>4. ASSUME NEW t \in Sessions, call[t].op = "Deposit"  PROVE call[t].key # NoKey
      BY <2>4, MoneyAssumption DEF CallsOK, CallOK
    <2>5. ASSUME NEW t \in Sessions, t # s  PROVE HashFree(t)'
      <3>1. pc'[t] = pc[t] /\ call'[t] = call[t]
        BY <1>2, <2>5, OthersKeep
      <3>2. ASSUME LookedUp(t), call[t].op = "Deposit",
                   NEW i \in DOMAIN txs', txs'[i].type = "deposit", txs'[i].key = call[t].key
            PROVE  FALSE
        <4>1. i \notin DOMAIN txs
          BY <2>2, <3>2 DEF DepositInv, HashFree
        <4>2. CommitDeposit(s)
          BY <1>2, <2>4, <3>2, <4>1, KeyedRows
        <4>3. "Deposit" \in Serves[t]
          BY <3>2 DEF DepositInv, Served, LookedUp
        <4>. QED  BY <2>3, <2>5, <4>2, <4>3 DEF SoleServer
      <3>. QED  BY <3>1, <3>2 DEF HashFree, LookedUp
    <2>6. HashFree(s)'
      <3>1. SUFFICES ASSUME LookedUp(s)', call'[s].op = "Deposit", NEW i \in DOMAIN txs',
                            txs'[i].type = "deposit", txs'[i].key = call'[s].key
                     PROVE  FALSE
        BY DEF HashFree
      <3>2. /\ UNCHANGED txs /\ call'[s] = call[s]
            /\ LookedUp(s) \/ (pc[s] = "find" /\ ~Duplicate(call[s]))
        BY <1>2, <3>1, LooksFirst
      <3>. QED  BY <3>1, <3>2 DEF DepositInv, HashFree, Duplicate, SameHash
    <2>7. ASSUME NEW i \in DOMAIN txs', NEW j \in DOMAIN txs', i \notin DOMAIN txs, i # j,
                 txs'[i].type = "deposit", txs'[j].type = "deposit",
                 txs'[i].key = txs'[j].key, txs'[i].key # NoKey
          PROVE  FALSE
      <3>1. CommitDeposit(s) /\ i = Len(txs) + 1 /\ txs'[i].key = call[s].key
        BY <1>2, <2>7, KeyedRows
      <3>2. j \in DOMAIN txs /\ txs'[j] = txs[j]
        BY <1>2, <2>2, <2>7, <3>1, KeyedRows
      <3>. QED  BY <2>3, <2>7, <3>1, <3>2 DEF DepositInv, HashFree, LookedUp
    <2>8. DepositOncePerHash'
      BY <2>2, <2>7 DEF DepositInv, DepositOncePerHash
    <2>. QED  BY <2>1, <2>5, <2>6, <2>8 DEF DepositInv
  <1>. QED  BY <1>1, <1>2, NextMoves

(* Deposit's idempotency: with one watcher, an on-chain hash is booked     *)
(* once, however often it is handed over.                                  *)
THEOREM DepositOnce ==
    ASSUME SoleServer("Deposit")
    PROVE  Spec => []DepositOncePerHash
  <1>. DEFINE Inv == StoreInv /\ DepositInv
  <1>1. Init => Inv
    BY InitInv DEF Init, DepositInv, Served, HashFree, LookedUp, DepositOncePerHash
  <1>2. Inv /\ [Next]_vars => Inv'
    BY InvStep, DepositStep DEF StoreInv
  <1>3. Inv => DepositOncePerHash
    BY DEF DepositInv
  <1>. QED  BY <1>1, <1>2, <1>3, PTL DEF Spec

-----------------------------------------------------------------------------
(* Holds.  CreateWithdraw reads the balance without a lock.  Where nobody  *)
(* else takes money while one session serves withdrawals, what it checked  *)
(* is still there when it holds it: the missing lock, and nothing else in  *)
(* the store, is what lets holds exceed a balance.                         *)

Spending == {"Deduct", "Transfer", "CreateWithdraw"}

HoldsAlone ==
    \A s, t \in Sessions :
        "CreateWithdraw" \in Serves[s] /\ Serves[t] \cap Spending # {} => s = t

(* What a withdrawal read or checked is not more than there is.            *)
HoldCovered(s) ==
    call[s].op = "CreateWithdraw" =>
        /\ pc[s] = "check" => Available(snap[s]) <= Available(wallet[call[s].wallet])
        /\ pc[s] = "freeze" => Needed(call[s]) <= Available(wallet[call[s].wallet])

RequestsOK == \A r \in DOMAIN reqs : Total(reqs[r]) >= 0

HoldInv ==
    /\ Served /\ RequestsOK
    /\ \A s \in Sessions : HoldCovered(s)
    /\ AvailableNonNegative

(* The available balance after the updates of a row.                       *)
LEMMA AvailableAfter ==
    ASSUME NEW row \in Row, NEW read \in Row, NEW n \in Int
    PROVE  /\ Available(row) \in Int
           /\ Available(Receive(row, read, n)) = Available(row) + n
           /\ Available(AddTon(row, n)) = Available(row) + n
           /\ Available(GiveCredit(row, n)) = Available(row) + n
           /\ Available(PayOut(row, n)) = Available(row)
           /\ Available(Hold(row, n)) = Available(row) - n
  <1>1. row.ton \in Int /\ row.credit \in Int /\ row.frozen \in Int /\ Realized(row) \in Int
    BY DEF Row, Realized
  <1>2. Available(Receive(row, read, n)) = Available(row) + n
    <2>1. Realized(Receive(row, read, n)) = Realized(row) + n
      BY SplitRealized
    <2>2. Receive(row, read, n).frozen = row.frozen
      BY DEF Receive
    <2>. QED  BY <1>1, <2>1, <2>2 DEF Available
  <1>3. Available(AddTon(row, n)) = Available(row) + n
    BY <1>1 DEF Row, AddTon, Available, Realized
  <1>4. Available(GiveCredit(row, n)) = Available(row) + n
    BY <1>1 DEF Row, GiveCredit, Available, Realized
  <1>5. Available(PayOut(row, n)) = Available(row)
    BY <1>1 DEF PayOut, Available, Realized
  <1>6. Available(Hold(row, n)) = Available(row) - n
    BY <1>1 DEF Row, Hold, Available, Realized
  <1>. QED  BY <1>1, <1>2, <1>3, <1>4, <1>5, <1>6 DEF Available

(* Nobody but a spender takes available money from a wallet.               *)
LEMMA OnlySpendersTake ==
    ASSUME TypeOK, CallsOK, FreshInv, RequestsOK, NEW s \in Sessions, Moves(s),
           call[s].op \notin Spending \/ pc[s] \notin {"commit", "freeze"},
           NEW w \in Wallets
    PROVE  Available(wallet'[w]) >= Available(wallet[w])
  <1>. DEFINE c == call[s]
              old == wallet[c.wallet]
  <1>1. wallet \in [Wallets -> Row] /\ wallet[w] \in Row /\ Available(wallet[w]) \in Int
    BY AvailableAfter DEF TypeOK
  <1>2. ASSUME pc[s] \in {"commit", "release"}
        PROVE  c \in Job /\ c.wallet \in Wallets /\ c.amount \in Int /\ old \in Row
    BY <1>1, <1>2 DEF CallsOK, CallOK, Job
  <1>3. ASSUME NEW row, wallet' = [wallet EXCEPT ![c.wallet] = row], c.wallet \in Wallets,
               Available(row) >= Available(old)
        PROVE  Available(wallet'[w]) >= Available(wallet[w])
    <2>1. CASE w = c.wallet
      <3>1. wallet'[w] = row
        BY <1>1, <1>3, <2>1
      <3>. QED  BY <1>3, <2>1, <3>1
    <2>2. CASE w # c.wallet
      <3>1. wallet'[w] = wallet[w]
        BY <1>1, <1>3, <2>2
      <3>. QED  BY <1>1, <3>1
    <2>. QED  BY <2>1, <2>2
  <1>4. CASE CommitDeposit(s)
    <2>1. pc[s] = "commit" /\ c.op = "Deposit"
          /\ wallet' = [wallet EXCEPT ![c.wallet] = AddTon(old, c.amount)]
      BY <1>4 DEF CommitDeposit, Post
    <2>2. c.amount > 0
      BY <2>1 DEF CallsOK, CallOK
    <2>3. Available(AddTon(old, c.amount)) >= Available(old)
      BY <1>2, <2>1, <2>2, AvailableAfter
    <2>. HIDE DEF c, old
    <2>. QED  BY <1>2, <1>3, <2>1, <2>3
  <1>5. CASE CommitCredit(s)
    <2>1. pc[s] = "commit" /\ c.op = "AddCredit"
          /\ wallet' = [wallet EXCEPT ![c.wallet] = GiveCredit(old, c.amount)]
      BY <1>5 DEF CommitCredit, Post
    <2>2. c.amount > 0
      BY <2>1 DEF CallsOK, CallOK
    <2>3. Available(GiveCredit(old, c.amount)) >= Available(old)
      BY <1>2, <2>1, <2>2, AvailableAfter
    <2>. HIDE DEF c, old
    <2>. QED  BY <1>2, <1>3, <2>1, <2>3
  <1>6. CASE CommitComplete(s)
    <2>1. pc[s] = "commit" /\ wallet' = [wallet EXCEPT ![c.wallet] = PayOut(old, c.amount)]
      BY <1>6 DEF CommitComplete, Post
    <2>2. Available(PayOut(old, c.amount)) >= Available(old)
      BY <1>2, <2>1, AvailableAfter
    <2>. HIDE DEF c, old
    <2>. QED  BY <1>2, <1>3, <2>1, <2>2
  <1>7. CASE Release(s)
    <2>1. /\ pc[s] = "release"
          /\ wallet' = [wallet EXCEPT ![c.wallet] = Hold(wallet[c.wallet], -c.amount)]
      BY <1>7 DEF Release
    <2>2. c.op \in Settles
      BY <2>1 DEF CallsOK, CallOK, Settles
    <2>3. c.amount \in Int /\ c.amount >= 0 /\ -c.amount \in Int
      <3>1. c.req \in DOMAIN reqs /\ c.amount = Total(reqs[c.req])
        BY <2>2 DEF CallsOK, CallOK
      <3>. QED  BY <1>2, <2>1, <3>1 DEF RequestsOK
    <2>4. Available(Hold(old, -c.amount)) = Available(old) - (-c.amount) /\ Available(old) \in Int
      BY <1>2, <2>1, <2>3, AvailableAfter
    <2>5. Available(Hold(old, -c.amount)) >= Available(old)
      BY <2>3, <2>4
    <2>6. wallet' = [wallet EXCEPT ![c.wallet] = Hold(old, -c.amount)]
      BY <2>1
    <2>7. c.wallet \in Wallets
      BY <1>2, <2>1
    <2>. HIDE DEF c, old
    <2>. QED  BY <1>3, <2>5, <2>6, <2>7
  <1>8. CASE UNCHANGED wallet
    BY <1>1, <1>8
  <1>9. CASE CommitDeduct(s) \/ CommitTransfer(s) \/ Freeze(s)
    <2>1. pc[s] \in {"commit", "freeze"}
      BY <1>9 DEF CommitDeduct, CommitTransfer, Freeze
    <2>2. c.op \in Spending
      BY <1>9 DEF CommitDeduct, CommitTransfer, Freeze, Spending, CallsOK, CallOK
    <2>. QED  BY <2>1, <2>2
  <1>. QED
    BY <1>4, <1>5, <1>6, <1>7, <1>8, <1>9
       DEF Moves, Step, Abort, Begin, tables, FindDuplicate, LockWallet, LockRecipient,
           ReadWallet, CheckEnough, ReadTip, SeqConflict, DeadlockVictim

(* The requests keep their amounts, and a new one asks for something.      *)
LEMMA RequestsStep ==
    ASSUME TypeOK, CallsOK, RequestsOK, NEW s \in Sessions, Moves(s)
    PROVE  RequestsOK'
  <1>. DEFINE c == call[s]
  <1>0. reqs \in Seq(Request)
    BY DEF TypeOK
  <1>1. CASE Freeze(s)
    <2>. DEFINE r == [wallet |-> c.wallet, amount |-> c.amount, fee |-> NetworkFee,
                      status |-> "pending"]
    <2>1. pc[s] = "freeze" /\ reqs' = Append(reqs, r)
      BY <1>1 DEF Freeze
    <2>2. c.amount \in Int /\ c.amount >= MinWithdraw
      BY <2>1 DEF CallsOK, CallOK, Job
    <2>3. Total(r) >= 0
      BY <2>2, StoreAssumption DEF Total
    <2>. HIDE DEF r
    <2>4. /\ DOMAIN reqs' = 1..(Len(reqs) + 1) /\ Len(reqs) \in Nat
          /\ DOMAIN reqs = 1..Len(reqs) /\ reqs'[Len(reqs) + 1] = r
          /\ \A i \in DOMAIN reqs : reqs'[i] = reqs[i]
      BY <1>0, <2>1
    <2>5. ASSUME NEW i \in DOMAIN reqs'  PROVE Total(reqs'[i]) >= 0
      <3>1. i \in DOMAIN reqs \/ i = Len(reqs) + 1
        BY <2>4
      <3>. QED  BY <2>3, <2>4, <3>1 DEF RequestsOK
    <2>. QED  BY <2>5 DEF RequestsOK
  <1>2. ASSUME NEW st \in WithdrawStatus, NEW i \in DOMAIN reqs,
               reqs' = [reqs EXCEPT ![i].status = st]
        PROVE  RequestsOK'
    BY <1>2, RequestStatus DEF RequestsOK, ReqsStable
  <1>3. CASE Release(s) \/ CommitComplete(s)
    <2>1. c.op \in Settles
      BY <1>3 DEF Release, CommitComplete, CallsOK, CallOK, Settles
    <2>2. c.req \in DOMAIN reqs
      BY <2>1 DEF CallsOK, CallOK
    <2>3. "done" \in WithdrawStatus /\ "rejected" \in WithdrawStatus
      BY DEF WithdrawStatus
    <2>4. CASE Release(s)
      BY <1>2, <2>2, <2>3, <2>4 DEF Release
    <2>5. CASE CommitComplete(s)
      BY <1>2, <2>2, <2>3, <2>5 DEF CommitComplete
    <2>. QED  BY <1>3, <2>4, <2>5
  <1>4. CASE UNCHANGED reqs
    BY <1>4 DEF RequestsOK
  <1>. QED
    BY <1>1, <1>3, <1>4
       DEF Moves, Step, Abort, Begin, tables, FindDuplicate, LockWallet, LockRecipient,
           ReadWallet, CheckEnough, ReadTip, SeqConflict, DeadlockVictim,
           CommitDeposit, CommitDeduct, CommitCredit, CommitTransfer

(* A session on its way through a withdrawal.                              *)
LEMMA HoldAdvances ==
    ASSUME TypeOK, CallsOK, NEW s \in Sessions, Moves(s), HoldCovered(s)
    PROVE  HoldCovered(s)'
  <1>. DEFINE c == call[s]
  <1>1. SUFFICES ASSUME call'[s].op = "CreateWithdraw", pc'[s] \in {"check", "freeze"}
                 PROVE  HoldCovered(s)'
    BY DEF HoldCovered
  <1>2. ~Finish(s)
    BY <1>1 DEF Finish, Goto, TypeOK
  <1>3. \A d \in Calls : ~Begin(s, d)
    <2>1. SUFFICES ASSUME NEW d \in Calls, Begin(s, d)  PROVE FALSE
      OBVIOUS
    <2>2. call'[s] = Arguments(d) /\ Arguments(d).op = d.op /\ pc'[s] = FirstStep(d)
      BY <2>1, ArgumentsType DEF Begin, Goto, TypeOK
    <2>. QED  BY <1>1, <2>2 DEF FirstStep
  <1>4. CASE ReadWallet(s)
    <2>1. /\ snap'[s] = wallet[c.wallet] /\ wallet' = wallet /\ call' = call
          /\ pc'[s] = "check" /\ pc[s] = "read"
      BY <1>4 DEF ReadWallet, Goto, tables, TypeOK
    <2>2. c.wallet \in Wallets
      BY <2>1 DEF CallsOK, CallOK, Job
    <2>3. wallet[c.wallet] \in Row
      BY <2>2 DEF TypeOK
    <2>4. Available(wallet[c.wallet]) \in Int
      BY <2>3, AvailableAfter
    <2>5. Available(snap'[s]) <= Available(wallet'[call'[s].wallet])
      BY <2>1, <2>4
    <2>. QED  BY <2>1, <2>5 DEF HoldCovered, Available
  <1>5. CASE CheckEnough(s)
    <2>1. /\ HasEnough(snap[s], Needed(c)) /\ pc[s] = "check" /\ wallet' = wallet
          /\ call' = call /\ snap' = snap /\ pc'[s] = AfterCheck(c)
      BY <1>2, <1>5 DEF CheckEnough, Goto, tables, TypeOK
    <2>2. c \in Job /\ c.op = "CreateWithdraw"
      BY <1>1, <2>1 DEF CallsOK, CallOK
    <2>3. c.wallet \in Wallets /\ c.amount \in Int /\ Needed(c) \in Int
      BY <2>2, StoreAssumption DEF Job, Needed
    <2>4. wallet[c.wallet] \in Row /\ snap[s] \in Row
      BY <2>3 DEF TypeOK
    <2>5. Available(wallet[c.wallet]) \in Int /\ Available(snap[s]) \in Int
      BY <2>4, AvailableAfter
    <2>6. Available(snap[s]) >= Needed(c)
      BY <2>1 DEF HasEnough, Available
    <2>7. Available(snap[s]) <= Available(wallet[c.wallet])
      BY <2>1, <2>2 DEF HoldCovered
    <2>8. Needed(c) <= Available(wallet[c.wallet])
      BY <2>3, <2>5, <2>6, <2>7
    <2>9. pc'[s] = "freeze"
      BY <2>1, <2>2 DEF AfterCheck
    <2>. QED  BY <2>1, <2>8, <2>9 DEF HoldCovered, Available, Needed
  <1>6. CASE LockRecipient(s)
    BY <1>1, <1>6 DEF LockRecipient, CallsOK, CallOK
  <1>7. CASE LockWallet(s)
    <2>1. call' = call /\ pc[s] = "lock"
      BY <1>7 DEF LockWallet
    <2>. QED  BY <1>1, <2>1 DEF CallsOK, CallOK
  <1>8. CASE ReadTip(s) \/ FindDuplicate(s)
    <2>1. call' = call /\ pc[s] \in {"tip", "find"}
      BY <1>2, <1>8 DEF ReadTip, FindDuplicate
    <2>. QED  BY <1>1, <2>1 DEF CallsOK, CallOK
  <1>. QED
    BY <1>2, <1>3, <1>4, <1>5, <1>6, <1>7, <1>8
       DEF Moves, Step, Abort, SeqConflict, DeadlockVictim, Freeze, Release,
           CommitDeposit, CommitDeduct, CommitCredit, CommitComplete, CommitTransfer

(* No step takes more than is available.                                   *)
LEMMA AvailableStep ==
    ASSUME TypeOK, CallsOK, FreshInv, CheckInv, HoldInv, NEW s \in Sessions, Moves(s)
    PROVE  AvailableNonNegative'
  <1>. DEFINE c == call[s]
              old == wallet[c.wallet]
  <1>0. SUFFICES ASSUME NEW w \in Wallets  PROVE Available(wallet'[w]) >= 0
    BY DEF AvailableNonNegative, Available, Realized
  <1>1. wallet \in [Wallets -> Row] /\ wallet[w] \in Row
    BY DEF TypeOK
  <1>2. Available(wallet[w]) \in Int /\ Available(wallet[w]) >= 0
    BY <1>1, AvailableAfter DEF HoldInv, AvailableNonNegative
  <1>3. CASE CommitDeduct(s)
    <2>1. /\ pc[s] = "commit" /\ c.op = "Deduct" /\ snap[s] = old
          /\ wallet' = [wallet EXCEPT ![c.wallet] = Charge(old, snap[s], c.amount)]
      BY <1>3 DEF CommitDeduct, Post, FreshInv, ReadsFresh, Owns
    <2>2. c.amount \in Int /\ c.wallet \in Wallets
      BY <2>1 DEF CallsOK, CallOK, Job
    <2>3. old \in Row /\ HasEnough(old, c.amount)
      BY <2>1, <2>2 DEF CheckInv, ChecksHold, TypeOK
    <2>. HIDE DEF c, old
    <2>4. Available(Charge(old, old, c.amount)) >= 0
      BY <2>2, <2>3, ChargeCovered
    <2>5. w = c.wallet => wallet'[w] = Charge(old, old, c.amount)
      BY <1>1, <2>1
    <2>6. w # c.wallet => wallet'[w] = wallet[w]
      BY <1>1, <2>1
    <2>. QED  BY <1>2, <2>4, <2>5, <2>6
  <1>4. CASE CommitTransfer(s)
    <2>1. pc[s] = "commit" /\ c.op = "Transfer"
      BY <1>4 DEF CommitTransfer
    <2>2. /\ c.wallet \in Wallets /\ c.to \in Wallets /\ c.wallet # c.to
          /\ c.amount \in Int /\ c.amount > 0 /\ snap[s] = old
          /\ old \in Row /\ wallet[c.to] \in Row
          /\ wallet' = [wallet EXCEPT ![c.wallet] = Charge(old, old, c.amount),
                                      ![c.to] = Receive(wallet[c.to], old, c.amount)]
      BY <1>4, TransferFacts
    <2>3. HasEnough(old, c.amount)
      BY <2>1, <2>2 DEF CheckInv, ChecksHold
    <2>. HIDE DEF c, old
    <2>4. Available(Charge(old, old, c.amount)) >= 0
      BY <2>2, <2>3, ChargeCovered
    <2>5. CASE w = c.wallet
      <3>1. wallet'[w] = Charge(old, old, c.amount)
        BY <1>1, <2>2, <2>5
      <3>. QED  BY <2>4, <3>1
    <2>6. CASE w = c.to
      <3>1. wallet'[w] = Receive(wallet[w], old, c.amount)
        BY <1>1, <2>2, <2>6
      <3>2. Available(wallet'[w]) = Available(wallet[w]) + c.amount
        BY <1>1, <2>2, <3>1, AvailableAfter
      <3>. QED  BY <1>2, <2>2, <3>2
    <2>7. CASE w # c.wallet /\ w # c.to
      <3>1. wallet'[w] = wallet[w]
        BY <1>1, <2>2, <2>7
      <3>. QED  BY <1>2, <3>1
    <2>. QED  BY <2>5, <2>6, <2>7
  <1>5. CASE Freeze(s)
    <2>1. /\ pc[s] = "freeze"
          /\ wallet' = [wallet EXCEPT ![c.wallet] = Hold(wallet[c.wallet], c.amount + NetworkFee)]
      BY <1>5 DEF Freeze
    <2>2. c.op = "CreateWithdraw" /\ c.wallet \in Wallets /\ c.amount \in Int
      BY <2>1 DEF CallsOK, CallOK, Job
    <2>3. c.amount + NetworkFee \in Int /\ Needed(c) = c.amount + NetworkFee
      BY <2>2, StoreAssumption DEF Needed
    <2>4. Needed(c) <= Available(old)
      BY <2>1, <2>2 DEF HoldInv, HoldCovered
    <2>5. w = c.wallet => wallet'[w] = Hold(wallet[w], c.amount + NetworkFee)
      BY <1>1, <2>1, <2>2
    <2>6. w # c.wallet => wallet'[w] = wallet[w]
      BY <1>1, <2>1
    <2>7. Available(Hold(wallet[w], c.amount + NetworkFee))
            = Available(wallet[w]) - (c.amount + NetworkFee)
      BY <1>1, <2>3, AvailableAfter
    <2>8. CASE w = c.wallet
      BY <1>2, <2>3, <2>4, <2>5, <2>7, <2>8
    <2>. QED  BY <1>2, <2>6, <2>8
  <1>6. CASE c.op \notin Spending \/ pc[s] \notin {"commit", "freeze"}
    <2>1. Available(wallet'[w]) >= Available(wallet[w])
      BY <1>6, OnlySpendersTake DEF HoldInv
    <2>2. wallet'[w] \in Row
      BY TypeStep DEF Moves, Next, TypeOK
    <2>3. Available(wallet'[w]) \in Int
      BY <2>2, AvailableAfter
    <2>. QED  BY <1>2, <2>1, <2>3
  <1>7. CASE UNCHANGED wallet
    BY <1>2, <1>7
  <1>8. ASSUME c.op \in Spending, pc[s] \in {"commit", "freeze"}
        PROVE  CommitDeduct(s) \/ CommitTransfer(s) \/ Freeze(s) \/ UNCHANGED wallet
    BY <1>8 DEF Spending, Moves, Step, Abort, Begin, tables, FindDuplicate, LockWallet,
       LockRecipient, ReadWallet, CheckEnough, ReadTip, SeqConflict, DeadlockVictim,
       CommitDeposit, CommitCredit, CommitComplete, Release
  <1>. QED  BY <1>3, <1>4, <1>5, <1>6, <1>7, <1>8

LEMMA HoldStep ==
    ASSUME HoldsAlone, TypeOK, CallsOK, FreshInv, CheckInv, HoldInv, [Next]_vars
    PROVE  HoldInv'
  <1>1. CASE UNCHANGED vars
    BY <1>1 DEF vars, HoldInv, Served, RequestsOK, HoldCovered, Available, Realized, Needed,
       Total, AvailableNonNegative
  <1>2. ASSUME NEW s \in Sessions, Moves(s)  PROVE HoldInv'
    <2>1. Served' /\ RequestsOK' /\ AvailableNonNegative'
      BY <1>2, ServedStep, RequestsStep, AvailableStep DEF HoldInv
    <2>2. HoldCovered(s)'
      BY <1>2, HoldAdvances DEF HoldInv
    <2>3. ASSUME NEW t \in Sessions, t # s  PROVE HoldCovered(t)'
      <3>1. pc'[t] = pc[t] /\ call'[t] = call[t] /\ snap'[t] = snap[t]
        BY <1>2, <2>3, OthersKeep
      <3>2. SUFFICES ASSUME call[t].op = "CreateWithdraw", pc[t] \in {"check", "freeze"}
                     PROVE  HoldCovered(t)'
        BY <3>1 DEF HoldCovered
      <3>3. "CreateWithdraw" \in Serves[t] /\ call[t].wallet \in Wallets /\ call[t].amount \in Int
        BY <3>2 DEF HoldInv, Served, CallsOK, CallOK, Job
      <3>4. call[s].op \notin Spending \/ pc[s] \notin {"commit", "freeze"}
        BY <2>3, <3>3 DEF HoldsAlone, HoldInv, Served
      <3>. DEFINE w == call[t].wallet
      <3>5. Available(wallet'[w]) >= Available(wallet[w])
        BY <1>2, <3>3, <3>4, OnlySpendersTake DEF HoldInv
      <3>6. wallet'[w] \in Row /\ wallet[w] \in Row /\ snap[t] \in Row
        BY <3>3, TypeStep DEF TypeOK
      <3>7. /\ Available(wallet'[w]) \in Int /\ Available(wallet[w]) \in Int
            /\ Available(snap[t]) \in Int /\ Needed(call[t]) \in Int
        BY <3>3, <3>6, AvailableAfter, StoreAssumption DEF Needed
      <3>8. /\ pc[t] = "check" => Available(snap[t]) <= Available(wallet[w])
            /\ pc[t] = "freeze" => Needed(call[t]) <= Available(wallet[w])
        BY <3>2 DEF HoldInv, HoldCovered
      <3>9. /\ pc[t] = "check" => Available(snap[t]) <= Available(wallet'[w])
            /\ pc[t] = "freeze" => Needed(call[t]) <= Available(wallet'[w])
        BY <3>5, <3>7, <3>8
      <3>. QED  BY <3>1, <3>9 DEF HoldCovered, Available, Needed
    <2>. QED  BY <2>1, <2>2, <2>3 DEF HoldInv
  <1>. QED  BY <1>1, <1>2, NextMoves

LEMMA HoldAlways ==
    ASSUME HoldsAlone
    PROVE  Spec => []HoldInv
  <1>. DEFINE Inv == StoreInv /\ HoldInv
  <1>1. Init => Inv
    <2>1. ASSUME Init  PROVE HoldInv
      <3>1. AvailableNonNegative
        <4>1. Available(EmptyRow) >= 0
          BY DEF Available, Realized, EmptyRow
        <4>2. \A w \in Wallets : wallet[w] = EmptyRow
          BY <2>1 DEF Init
        <4>. QED  BY <4>1, <4>2 DEF AvailableNonNegative
      <3>2. Served /\ RequestsOK /\ \A s \in Sessions : HoldCovered(s)
        BY <2>1 DEF Init, Served, RequestsOK, HoldCovered
      <3>. QED  BY <3>1, <3>2 DEF HoldInv
    <2>. QED  BY <2>1, InitInv
  <1>2. Inv /\ [Next]_vars => Inv'
    BY InvStep, HoldStep DEF StoreInv
  <1>. QED  BY <1>1, <1>2, PTL DEF Spec

(* CreateWithdraw's comment, where its premise is met: if no other session *)
(* takes money while one serves withdrawals, holds never exceed a balance, *)
(* whatever deposits, credits and settlements, repeated ones too, commit   *)
(* between the check and the hold.  Run overdrawn_hold shows the property  *)
(* fail without the premise.                                               *)
THEOREM HoldsWithinBalance ==
    ASSUME HoldsAlone
    PROVE  Spec => []AvailableNonNegative
  <1>1. HoldInv => AvailableNonNegative
    BY DEF HoldInv
  <1>. QED  BY <1>1, HoldAlways, PTL

-----------------------------------------------------------------------------
(* The sum of the blocks.  Induction over a chain is by the least place at *)
(* which a fact fails.                                                     *)
LEMMA LeastNat ==
    ASSUME NEW S, S \subseteq Nat, S # {}
    PROVE  \E x \in S : \A y \in S : x <= y
  <1>. DEFINE R == OpToRel(<, Nat)
  <1>1. PICK x \in S : \A y \in S : <<y, x>> \notin R
    <2>. HIDE DEF R
    <2>1. IsWellFoundedOn(R, Nat)
      BY NatLessThanWellFounded DEF R
    <2>. QED  BY <2>1, WFMin
  <1>2. ASSUME NEW y \in S  PROVE x <= y
    <2>1. <<y, x>> \in Nat \X Nat /\ x \in Nat /\ y \in Nat
      OBVIOUS
    <2>2. ~(y < x)
      BY <1>1, <2>1 DEF OpToRel
    <2>. QED  BY <2>1, <2>2
  <1>. QED  BY <1>2

(* A function that satisfies the equation of BookBalance is its sum.       *)
LEMMA SumIs ==
    ASSUME NEW w, NEW n \in Nat, NEW G,
           G = [i \in 0..n |->
                  IF i = 0 THEN 0
                  ELSE G[i-1] + IF ledger[i].content.wallet = w THEN Delta(ledger[i]) ELSE 0]
    PROVE  BookBalance(w, n) = G[n]
  <1>. DEFINE Eq(f) == f = [i \in 0..n |->
                  IF i = 0 THEN 0
                  ELSE f[i-1] + IF ledger[i].content.wallet = w THEN Delta(ledger[i]) ELSE 0]
              sum == CHOOSE f : Eq(f)
  <1>1. BookBalance(w, n) = sum[n]
    BY DEF BookBalance
  <1>2. Eq(sum)
    <2>1. Eq(G)
      OBVIOUS
    <2>. HIDE DEF Eq
    <2>. QED  BY <2>1
  <1>. HIDE DEF sum
  <1>3. \A i \in 0..n : sum[i] = G[i]
    <2>. DEFINE Bad == {i \in 0..n : sum[i] # G[i]}
    <2>1. SUFFICES ASSUME Bad # {}  PROVE FALSE
      OBVIOUS
    <2>2. Bad \subseteq Nat
      OBVIOUS
    <2>3. PICK i \in Bad : \A j \in Bad : i <= j
      <3>. HIDE DEF Bad
      <3>. QED  BY <2>1, <2>2, LeastNat
    <2>4. i # 0
      BY <1>2, <2>3
    <2>5. i-1 \in 0..n /\ sum[i-1] = G[i-1]
      BY <2>3, <2>4
    <2>. QED  BY <1>2, <2>3, <2>4, <2>5
  <1>. QED  BY <1>1, <1>3

(* Block m is the newest of wallet w among the first i blocks.             *)
Newest(w, m, i) ==
    m \in 1..i /\ ledger[m].content.wallet = w /\ Apart(ledger, w, m, i + 1)

LEMMA NewestExists ==
    ASSUME NEW w, NEW i \in 0..Len(ledger), Len(ledger) \in Nat,
           DOMAIN ledger = 1..Len(ledger),
           \A m \in 1..i : ~Newest(w, m, i)
    PROVE  \A m \in 1..i : ledger[m].content.wallet # w
  <1>. DEFINE Back == {d \in 0..i : \E m \in 1..i : ledger[m].content.wallet = w /\ d = i - m}
  <1>1. SUFFICES ASSUME NEW k \in 1..i, ledger[k].content.wallet = w  PROVE FALSE
    OBVIOUS
  <1>2. i - k \in Back /\ Back \subseteq Nat
    BY <1>1
  <1>3. PICK d \in Back : \A e \in Back : d <= e
    <2>. HIDE DEF Back
    <2>. QED  BY <1>2, LeastNat
  <1>4. PICK m \in 1..i : ledger[m].content.wallet = w /\ d = i - m
    <2>1. d \in Back
      BY <1>3
    <2>. QED  BY <2>1, Zenon
  <1>5. ASSUME NEW j \in DOMAIN ledger, m < j, j < i + 1, ledger[j].content.wallet = w
        PROVE  FALSE
    <2>1. j \in 1..i
      BY <1>5
    <2>2. i - j \in Back
      BY <1>5, <2>1
    <2>3. i - m <= i - j
      BY <1>3, <1>4, <2>2
    <2>. QED  BY <1>4, <1>5, <2>1, <2>3
  <1>. QED  BY <1>4, <1>5 DEF Newest, Apart

(* What the first i blocks say w has: the balance written into the newest. *)
Written(w, i) ==
    IF \E m \in 1..i : Newest(w, m, i)
    THEN ledger[CHOOSE m \in 1..i : Newest(w, m, i)].content.balanceAfter ELSE 0

LEMMA WrittenIs ==
    ASSUME NEW w, NEW i \in 0..Len(ledger), Len(ledger) \in Nat,
           DOMAIN ledger = 1..Len(ledger), NEW m \in 1..i, Newest(w, m, i)
    PROVE  Written(w, i) = ledger[m].content.balanceAfter
  <1>. DEFINE k == CHOOSE x \in 1..i : Newest(w, x, i)
  <1>1. k \in 1..i /\ Newest(w, k, i)
    OBVIOUS
  <1>2. Written(w, i) = ledger[k].content.balanceAfter
    BY DEF Written
  <1>. HIDE DEF k
  <1>3. k = m
    BY <1>1 DEF Newest, Apart
  <1>. QED  BY <1>2, <1>3

LEMMA WrittenNone ==
    ASSUME NEW w, NEW i \in 0..Len(ledger), \A m \in 1..i : ledger[m].content.wallet # w
    PROVE  Written(w, i) = 0
  BY DEF Written, Newest

(* The balances written into the blocks satisfy the equation of the sum.   *)
LEMMA WrittenAdds ==
    ASSUME TypeOK, AuditTrail, NEW w \in Wallets, NEW i \in 1..Len(ledger)
    PROVE  Written(w, i) = Written(w, i-1)
               + IF ledger[i].content.wallet = w THEN Delta(ledger[i]) ELSE 0
  <1>1. Len(ledger) \in Nat /\ DOMAIN ledger = 1..Len(ledger) /\ ledger[i] \in Entry
        /\ i \in Nat /\ i-1 \in 0..Len(ledger) /\ i \in 0..Len(ledger) /\ i \in DOMAIN ledger
    BY DEF TypeOK
  <1>2. ASSUME NEW m \in DOMAIN ledger  PROVE ledger[m].content.balanceAfter \in Int
    <2>1. ledger[m] \in Entry
      BY DEF TypeOK
    <2>. QED  BY <2>1 DEF Entry, Content
  <1>3. Delta(ledger[i]) \in Int
    BY <1>1 DEF Delta, Entry, Content
  <1>4. CASE ledger[i].content.wallet = w
    <2>1. Newest(w, i, i)
      BY <1>1, <1>4 DEF Newest, Apart
    <2>2. Written(w, i) = ledger[i].content.balanceAfter
      BY <1>1, <2>1, WrittenIs
    <2>3. CASE \E m \in 1..(i-1) : Newest(w, m, i-1)
      <3>1. PICK m \in 1..(i-1) : Newest(w, m, i-1)
        BY <2>3
      <3>2. Written(w, i-1) = ledger[m].content.balanceAfter
        BY <1>1, <3>1, WrittenIs
      <3>3. m \in DOMAIN ledger /\ m < i /\ ledger[m].content.wallet = w
            /\ Apart(ledger, w, m, i)
        BY <1>1, <3>1 DEF Newest
      <3>4. ledger[i].content.balanceAfter = ledger[m].content.balanceAfter + Delta(ledger[i])
        BY <1>1, <1>4, <3>3 DEF AuditTrail, Explains
      <3>. QED  BY <1>4, <2>2, <3>2, <3>4
    <2>4. CASE \A m \in 1..(i-1) : ~Newest(w, m, i-1)
      <3>1. \A m \in 1..(i-1) : ledger[m].content.wallet # w
        BY <1>1, <2>4, NewestExists
      <3>2. Apart(ledger, w, 0, i)
        BY <1>1, <3>1 DEF Apart
      <3>3. ledger[i].content.balanceAfter = Delta(ledger[i])
        BY <1>1, <1>4, <3>2 DEF AuditTrail, Explains
      <3>4. Written(w, i-1) = 0
        BY <1>1, <3>1, WrittenNone
      <3>. QED  BY <1>3, <1>4, <2>2, <3>3, <3>4
    <2>. QED  BY <2>3, <2>4
  <1>5. CASE ledger[i].content.wallet # w
    <2>1. CASE \E m \in 1..(i-1) : Newest(w, m, i-1)
      <3>1. PICK m \in 1..(i-1) : Newest(w, m, i-1)
        BY <2>1
      <3>2. m \in 1..i /\ Newest(w, m, i)
        BY <1>1, <1>5, <3>1 DEF Newest, Apart
      <3>3. Written(w, i) = ledger[m].content.balanceAfter
        BY <1>1, <3>2, WrittenIs
      <3>4. Written(w, i-1) = ledger[m].content.balanceAfter
        BY <1>1, <3>1, WrittenIs
      <3>. QED  BY <1>1, <1>2, <1>5, <3>2, <3>3, <3>4
    <2>2. CASE \A m \in 1..(i-1) : ~Newest(w, m, i-1)
      <3>1. \A m \in 1..(i-1) : ledger[m].content.wallet # w
        BY <1>1, <2>2, NewestExists
      <3>2. \A m \in 1..i : ledger[m].content.wallet # w
        BY <1>1, <1>5, <3>1
      <3>3. Written(w, i-1) = 0 /\ Written(w, i) = 0
        BY <1>1, <3>1, <3>2, WrittenNone
      <3>. QED  BY <1>5, <3>3
    <2>. QED  BY <2>1, <2>2
  <1>. QED  BY <1>4, <1>5

(* Store.VerifyLedgerBalance: credits minus debits in the ledger are the   *)
(* realized balance of every wallet, in every state of every interleaving. *)
THEOREM LedgerAlwaysBalanced == Spec => []LedgerBalanced
  <1>1. TypeOK /\ AuditTrail => LedgerBalanced
    <2>1. SUFFICES ASSUME TypeOK, AuditTrail, NEW w \in Wallets
                   PROVE  BookBalance(w, Len(ledger)) = Realized(wallet[w])
      BY DEF LedgerBalanced
    <2>. DEFINE n == Len(ledger)
                G == [i \in 0..n |-> Written(w, i)]
    <2>2. n \in Nat /\ DOMAIN ledger = 1..n
      BY <2>1 DEF TypeOK
    <2>3. Written(w, 0) = 0
      BY <2>2, WrittenNone
    <2>4. \A i \in 1..n : Written(w, i) = Written(w, i-1)
               + IF ledger[i].content.wallet = w THEN Delta(ledger[i]) ELSE 0
      BY <2>1, WrittenAdds
    <2>5. G = [i \in 0..n |->
                  IF i = 0 THEN 0
                  ELSE G[i-1] + IF ledger[i].content.wallet = w THEN Delta(ledger[i]) ELSE 0]
      <3>1. \A i \in 0..n : Written(w, i) =
                  IF i = 0 THEN 0
                  ELSE G[i-1] + IF ledger[i].content.wallet = w THEN Delta(ledger[i]) ELSE 0
        BY <2>2, <2>3, <2>4
      <3>. QED  BY <3>1
    <2>6. BookBalance(w, n) = G[n]
      <3>. HIDE DEF G, n
      <3>. QED  BY <2>2, <2>5, SumIs
    <2>7. G[n] = Written(w, n)
      BY <2>2
    <2>8. Written(w, n) = Realized(wallet[w])
      <3>1. CASE \E m \in 1..n : Newest(w, m, n)
        <4>1. PICK m \in 1..n : Newest(w, m, n)
          BY <3>1
        <4>2. Written(w, n) = ledger[m].content.balanceAfter
          BY <2>2, <4>1, WrittenIs
        <4>3. m \in DOMAIN ledger /\ ledger[m].content.wallet = w
              /\ Apart(ledger, w, m, n + 1)
          BY <2>2, <4>1 DEF Newest
        <4>4. ledger[m].content.balanceAfter = Realized(wallet[w])
          BY <2>1, <4>3 DEF AuditTrail, Explains
        <4>. QED  BY <4>2, <4>4
      <3>2. CASE \A m \in 1..n : ~Newest(w, m, n)
        <4>0. n \in 0..Len(ledger)
          BY <2>2
        <4>1. \A m \in 1..n : ledger[m].content.wallet # w
          BY <2>2, <3>2, <4>0, NewestExists
        <4>2. Apart(ledger, w, 0, n + 1)
          BY <2>2, <4>1 DEF Apart
        <4>3. Realized(wallet[w]) = 0
          BY <2>1, <4>2 DEF AuditTrail, Explains
        <4>. QED  BY <2>2, <4>1, <4>3, WrittenNone
      <3>. QED  BY <3>1, <3>2
    <2>. QED  BY <2>6, <2>7, <2>8
  <1>2. StoreInv => TypeOK
    BY DEF StoreInv
  <1>. QED  BY <1>1, <1>2, StoreInvariant, LedgerExplainsBalances, PTL

-----------------------------------------------------------------------------
(* The refinement.  A step of a session is the whole of its method when it *)
(* commits, and nothing to AtomicWallet before that.                       *)

(* The operators of Money are the same on both sides.                      *)
LEMMA SameMoney ==
    /\ Atomic!EmptyRow = EmptyRow
    /\ \A type, w, k, n : Atomic!NewTx(type, w, k, n) = NewTx(type, w, k, n)
    /\ \A t, type, w, k : Atomic!SameRef(t, type, w, k) = SameRef(t, type, w, k)
    /\ \A row, n : Atomic!AddTon(row, n) = AddTon(row, n)
    /\ \A row, n : Atomic!GiveCredit(row, n) = GiveCredit(row, n)
    /\ \A row, n : Atomic!Hold(row, n) = Hold(row, n)
    /\ \A row, n : Atomic!PayOut(row, n) = PayOut(row, n)
    /\ \A row : Atomic!Realized(row) = Realized(row)
    /\ \A row, n : Atomic!HasEnough(row, n) = HasEnough(row, n)
    /\ \A row, read, n : Atomic!Charge(row, read, n) = Charge(row, read, n)
    /\ \A row, read, n : Atomic!Receive(row, read, n) = Receive(row, read, n)
    /\ \A r : Atomic!Total(r) = Total(r)
  <1>1. Atomic!EmptyRow = EmptyRow
    BY DEF Atomic!EmptyRow, EmptyRow
  <1>2. \A type, w, k, n : Atomic!NewTx(type, w, k, n) = NewTx(type, w, k, n)
    BY DEF Atomic!NewTx, NewTx
  <1>3. \A t, type, w, k : Atomic!SameRef(t, type, w, k) = SameRef(t, type, w, k)
    BY DEF Atomic!SameRef, SameRef
  <1>4. /\ \A row, n : Atomic!AddTon(row, n) = AddTon(row, n)
        /\ \A row, n : Atomic!GiveCredit(row, n) = GiveCredit(row, n)
        /\ \A row, n : Atomic!Hold(row, n) = Hold(row, n)
        /\ \A row, n : Atomic!PayOut(row, n) = PayOut(row, n)
    BY Zenon DEF Atomic!AddTon, AddTon, Atomic!GiveCredit, GiveCredit, Atomic!Hold, Hold,
       Atomic!PayOut, PayOut
  <1>5. /\ \A row : Atomic!Realized(row) = Realized(row)
        /\ \A row, n : Atomic!HasEnough(row, n) = HasEnough(row, n)
    BY Zenon DEF Atomic!Realized, Realized, Atomic!HasEnough, HasEnough
  <1>6. /\ \A row, read, n : Atomic!Charge(row, read, n) = Charge(row, read, n)
        /\ \A row, read, n : Atomic!Receive(row, read, n) = Receive(row, read, n)
    BY Zenon DEF Atomic!Charge, Charge, Atomic!Receive, Receive, Atomic!TonUsed, TonUsed,
       Atomic!CreditUsed, CreditUsed
  <1>7. \A r : Atomic!Total(r) = Total(r)
    BY Zenon DEF Atomic!Total, Total
  <1>. QED  BY <1>1, <1>2, <1>3, <1>4, <1>5, <1>6, <1>7, Zenon

BookOf(chain) ==
    [n \in DOMAIN chain |->
        [wallet |-> chain[n].content.wallet, delta |-> Delta(chain[n]),
         balance |-> chain[n].content.balanceAfter]]

(* A block appended to the chain is a line appended to the book.           *)
LEMMA BookAppend ==
    ASSUME NEW chain \in Seq(Entry), NEW e \in Entry
    PROVE  BookOf(Append(chain, e)) =
             Append(BookOf(chain), Atomic!Line(e.content.wallet, Delta(e), e.content.balanceAfter))
  <1>. DEFINE L(x) == [wallet |-> x.content.wallet, delta |-> Delta(x),
                       balance |-> x.content.balanceAfter]
              S == {L(x) : x \in Entry}
              b == BookOf(chain)
  <1>1. Atomic!Line(e.content.wallet, Delta(e), e.content.balanceAfter) = L(e)
    BY DEF Atomic!Line
  <1>2. Append(chain, e) \in Seq(Entry)
    OBVIOUS
  <1>3. ASSUME NEW c \in Seq(Entry)
        PROVE  BookOf(c) \in Seq(S) /\ Len(BookOf(c)) = Len(c)
               /\ \A n \in 1..Len(c) : BookOf(c)[n] = L(c[n])
    <2>1. BookOf(c) = [n \in 1..Len(c) |-> L(c[n])]
      BY DEF BookOf
    <2>2. \A n \in 1..Len(c) : L(c[n]) \in S
      OBVIOUS
    <2>. HIDE DEF L, S
    <2>. QED  BY <2>1, <2>2
  <1>4. L(e) \in S
    OBVIOUS
  <1>. DEFINE nc == Append(chain, e)
              nb == BookOf(nc)
              a == Append(b, L(e))
  <1>5. /\ Len(chain) \in Nat
        /\ Len(nc) = Len(chain) + 1 /\ nc[Len(chain) + 1] = e
        /\ \A n \in 1..Len(chain) : nc[n] = chain[n]
    OBVIOUS
  <1>. HIDE DEF L, S, nc
  <1>6. /\ b \in Seq(S) /\ Len(b) = Len(chain)
        /\ \A n \in 1..Len(chain) : b[n] = L(chain[n])
    BY <1>3
  <1>7. nc \in Seq(Entry)
    BY <1>2 DEF nc
  <1>8. /\ nb \in Seq(S) /\ Len(nb) = Len(nc)
        /\ \A n \in 1..Len(nc) : nb[n] = L(nc[n])
    BY <1>3, <1>7
  <1>. HIDE DEF b, nb
  <1>9. /\ a \in Seq(S) /\ Len(a) = Len(chain) + 1 /\ a[Len(chain) + 1] = L(e)
        /\ \A n \in 1..Len(chain) : a[n] = b[n]
    BY <1>4, <1>5, <1>6
  <1>. HIDE DEF a
  <1>10. ASSUME NEW n \in 1..Len(nb)  PROVE nb[n] = a[n]
    <2>1. n \in 1..Len(chain) \/ n = Len(chain) + 1
      BY <1>5, <1>8
    <2>2. nb[n] = L(nc[n])
      BY <1>8
    <2>3. CASE n \in 1..Len(chain)
      BY <1>5, <1>6, <1>9, <2>2, <2>3
    <2>4. CASE n = Len(chain) + 1
      BY <1>5, <1>9, <2>2, <2>4
    <2>. QED  BY <2>1, <2>3, <2>4
  <1>11. nb = a
    BY <1>5, <1>8, <1>9, <1>10
  <1>. QED  BY <1>1, <1>11 DEF nb, nc, a, b

(* A step that moves one wallet's balance is a move of the abstract book.  *)
LEMMA PostMaps ==
    ASSUME TypeOK, CallsOK, FreshInv, NEW s \in Sessions, NEW row \in Row,
           NEW type \in TxType, NEW et \in EntryType, PostStep(s, row, type, et)
    PROVE  Atomic!Move(call[s].wallet, row, type, call[s].key, Signed(et, call[s].amount))
  <1>. DEFINE c == call[s]
              n == Signed(et, c.amount)
  <1>1. /\ Block(s, et) \in Entry
        /\ wallet' = [wallet EXCEPT ![c.wallet] = row]
        /\ txs' = Append(txs, NewTx(type, c.wallet, c.key, n))
        /\ ledger' = Append(ledger, Block(s, et))
    BY PostFacts
  <1>2. /\ Block(s, et).content.wallet = c.wallet
        /\ Delta(Block(s, et)) = n
        /\ Block(s, et).content.balanceAfter = Realized(row)
    BY DEF Block, LinkEntry, Delta, Signed, PostStep, EntryType
  <1>3. Book' = Append(Book, Atomic!Line(c.wallet, n, Realized(row)))
    <2>1. Book = BookOf(ledger) /\ Book' = BookOf(ledger')
      BY DEF Book, BookOf
    <2>2. ledger \in Seq(Entry)
      BY DEF TypeOK
    <2>3. BookOf(Append(ledger, Block(s, et))) =
             Append(BookOf(ledger), Atomic!Line(c.wallet, n, Realized(row)))
      BY <1>1, <1>2, <2>2, BookAppend
    <2>. QED  BY <1>1, <2>1, <2>3
  <1>. HIDE DEF n
  <1>. QED  BY <1>1, <1>3, SameMoney DEF Atomic!Move, n

(* A committing transfer is the abstract one.                              *)
LEMMA TransferMaps ==
    ASSUME TypeOK, CallsOK, FreshInv, CheckInv, NEW s \in Sessions, CommitTransfer(s)
    PROVE  Atomic!Transfer(call[s].wallet, call[s].to, call[s].amount)
  <1>. DEFINE c == call[s]
              n == c.amount
              out == Atomic!Line(c.wallet, -n, Realized(wallet[c.wallet]) - n)
              in == Atomic!Line(c.to, n, Realized(wallet[c.to]) + n)
  <1>1. /\ c.wallet # c.to /\ n > 0
        /\ snap[s] = wallet[c.wallet] /\ toSnap[s] = wallet[c.to]
        /\ Out(s) \in Entry /\ In(s) \in Entry
        /\ wallet' = [wallet EXCEPT
                            ![c.wallet] = Charge(wallet[c.wallet], wallet[c.wallet], n),
                            ![c.to] = Receive(wallet[c.to], wallet[c.wallet], n)]
        /\ ledger' = Append(Append(ledger, Out(s)), In(s))
    BY TransferFacts
  <1>2. /\ txs' = Append(Append(txs, NewTx("payment", c.wallet, NoKey, -n)),
                         NewTx("deposit", c.to, NoKey, n))
        /\ UNCHANGED reqs
    BY DEF CommitTransfer
  <1>3. HasEnough(wallet[c.wallet], n)
    BY <1>1 DEF CheckInv, ChecksHold, CommitTransfer
  <1>4. /\ Out(s).content.wallet = c.wallet /\ Delta(Out(s)) = -n
        /\ Out(s).content.balanceAfter = Realized(wallet[c.wallet]) - n
        /\ In(s).content.wallet = c.to /\ Delta(In(s)) = n
        /\ In(s).content.balanceAfter = Realized(wallet[c.to]) + n
    BY <1>1 DEF Out, In, LinkEntry, Delta
  <1>5. Book' = Append(Append(Book, out), in)
    <2>1. Book = BookOf(ledger) /\ Book' = BookOf(ledger')
      BY DEF Book, BookOf
    <2>2. ledger \in Seq(Entry) /\ Append(ledger, Out(s)) \in Seq(Entry)
      BY <1>1 DEF TypeOK
    <2>3. BookOf(Append(ledger, Out(s))) = Append(BookOf(ledger), out)
      BY <1>1, <1>4, <2>2, BookAppend
    <2>4. BookOf(Append(Append(ledger, Out(s)), In(s)))
            = Append(BookOf(Append(ledger, Out(s))), in)
      BY <1>1, <1>4, <2>2, BookAppend
    <2>. QED  BY <1>1, <2>1, <2>3, <2>4
  <1>. QED  BY <1>1, <1>2, <1>3, <1>5, SameMoney DEF Atomic!Transfer

(* The arguments of a call are among those AtomicWallet's callers use.     *)
LEMMA CallArguments ==
    ASSUME CallsOK, NEW s \in Sessions, pc[s] # "idle"
    PROVE  LET c == call[s] IN
           /\ c.wallet \in Wallets /\ c.to \in Wallets /\ c.key \in Keys \cup {NoKey}
           /\ c.op \notin Settles => c.amount \in {d.amount : d \in Calls}
           /\ c.op \in {"AddCredit", "Deposit", "CompleteWithdraw"} => c.key \in Keys
           /\ c.op \in {"Deposit", "Deduct", "AddCredit", "Transfer"} => c.amount > 0
           /\ c.op \in Settles => /\ c.req \in DOMAIN reqs
                                  /\ c.wallet = reqs[c.req].wallet
                                  /\ c.amount = Total(reqs[c.req])
  <1>. DEFINE c == call[s]
  <1>1. c \in Job /\ CallOK(s)
    BY DEF CallsOK, CallOK
  <1>2. c.wallet \in Wallets /\ c.to \in Wallets /\ c.key \in Keys \cup {NoKey} /\ c.op \in Ops
    BY <1>1 DEF Job
  <1>3. c.op # None
    BY <1>2, StoreAssumption
  <1>4. c.op \notin Settles => c \in Calls
    BY <1>1, <1>3 DEF CallOK
  <1>5. c.op \notin Settles => c.amount \in {d.amount : d \in Calls}
    BY <1>4
  <1>6. /\ c.op \in {"AddCredit", "Deposit", "CompleteWithdraw"} => c.key \in Keys
        /\ c.op \in {"Deposit", "Deduct", "AddCredit", "Transfer"} => c.amount > 0
        /\ c.op \in Settles => /\ c.req \in DOMAIN reqs
                               /\ c.wallet = reqs[c.req].wallet
                               /\ c.amount = Total(reqs[c.req])
    BY <1>1 DEF CallOK
  <1>. QED  BY <1>2, <1>5, <1>6

(* Every step of a session is one method of AtomicWallet, or nothing.      *)
LEMMA StepMaps ==
    ASSUME TypeOK, CallsOK, FreshInv, CheckInv, NEW s \in Sessions, Moves(s)
    PROVE  Atomic!Next \/ UNCHANGED Atomic!vars
  <1>. DEFINE c == call[s]
              Amounts == {d.amount : d \in Calls}
  <1>1. /\ {"deposit", "payment", "credit_add", "withdraw"} \subseteq TxType
        /\ {"debit", "credit"} \subseteq EntryType
    BY DEF TxType, EntryType
  <1>2. CASE UNCHANGED tables
    <2>1. UNCHANGED <<wallet, txs, ledger, reqs>>
      BY <1>2 DEF tables
    <2>2. UNCHANGED Book
      BY <2>1 DEF Book
    <2>. QED  BY <2>1, <2>2 DEF Atomic!vars
  <1>3. CASE CommitDeposit(s)
    <2>1. pc[s] # "idle" /\ c.op = "Deposit" /\ UNCHANGED reqs
      BY <1>3 DEF CommitDeposit
    <2>2. c.wallet \in Wallets /\ c.amount \in Amounts /\ c.key \in Keys /\ c.amount > 0
      BY <2>1, CallArguments DEF Settles
    <2>3. Atomic!Move(c.wallet, AddTon(wallet[c.wallet], c.amount), "deposit", c.key,
                      Signed("credit", c.amount))
      BY <1>1, <1>3, PostSteps, PostMaps
    <2>4. Atomic!Deposit(c.wallet, c.amount, c.key)
      BY <2>1, <2>2, <2>3, SameMoney DEF Atomic!Deposit, Signed
    <2>. QED  BY <2>2, <2>4 DEF Atomic!Next
  <1>4. CASE CommitCredit(s)
    <2>1. pc[s] # "idle" /\ pc[s] = "commit" /\ c.op = "AddCredit" /\ UNCHANGED reqs
      BY <1>4 DEF CommitCredit
    <2>2. c.wallet \in Wallets /\ c.amount \in Amounts /\ c.key \in Keys /\ c.amount > 0
      BY <2>1, CallArguments DEF Settles
    <2>3. Atomic!Move(c.wallet, GiveCredit(wallet[c.wallet], c.amount), "credit_add", c.key,
                      Signed("credit", c.amount))
      BY <1>1, <1>4, PostSteps, PostMaps
    <2>4. \A i \in DOMAIN txs : ~SameRef(txs[i], "credit_add", c.wallet, c.key)
      BY <2>1 DEF CheckInv, ChecksHold
    <2>5. Atomic!AddCredit(c.wallet, c.amount, c.key)
      BY <2>1, <2>2, <2>3, <2>4, SameMoney DEF Atomic!AddCredit, Signed
    <2>. QED  BY <2>2, <2>5 DEF Atomic!Next
  <1>5. CASE CommitDeduct(s)
    <2>1. pc[s] # "idle" /\ pc[s] = "commit" /\ c.op = "Deduct" /\ UNCHANGED reqs
      BY <1>5 DEF CommitDeduct
    <2>2. c.wallet \in Wallets /\ c.amount \in Amounts /\ c.key \in Keys \cup {NoKey}
          /\ c.amount > 0
      BY <2>1, CallArguments DEF Settles
    <2>3. Atomic!Move(c.wallet, Charge(wallet[c.wallet], snap[s], c.amount), "payment", c.key,
                      Signed("debit", c.amount))
      BY <1>1, <1>5, PostSteps, PostMaps
    <2>4. snap[s] = wallet[c.wallet] /\ HasEnough(snap[s], c.amount)
      BY <2>1 DEF CheckInv, ChecksHold, FreshInv, ReadsFresh, Owns
    <2>5. Atomic!Deduct(c.wallet, c.amount, c.key)
      BY <2>1, <2>2, <2>3, <2>4, SameMoney DEF Atomic!Deduct, Signed
    <2>. QED  BY <2>2, <2>5 DEF Atomic!Next
  <1>6. CASE CommitComplete(s)
    <2>1. /\ pc[s] # "idle" /\ c.op = "CompleteWithdraw"
          /\ reqs' = [reqs EXCEPT ![c.req].status = "done"]
      BY <1>6 DEF CommitComplete
    <2>2. /\ c.req \in DOMAIN reqs /\ c.key \in Keys
          /\ c.wallet = reqs[c.req].wallet /\ c.amount = Total(reqs[c.req])
      BY <2>1, CallArguments DEF Settles
    <2>3. Atomic!Move(c.wallet, PayOut(wallet[c.wallet], c.amount), "withdraw", c.key,
                      Signed("debit", c.amount))
      BY <1>1, <1>6, PostSteps, PostMaps
    <2>4. Atomic!CompleteWithdraw(c.req, c.key)
      BY <2>1, <2>2, <2>3, SameMoney DEF Atomic!CompleteWithdraw, Signed
    <2>. QED  BY <2>2, <2>4 DEF Atomic!Next
  <1>7. CASE CommitTransfer(s)
    <2>1. pc[s] # "idle" /\ c.op = "Transfer"
      BY <1>7 DEF CommitTransfer
    <2>2. c.wallet \in Wallets /\ c.to \in Wallets /\ c.amount \in Amounts
      BY <2>1, CallArguments DEF Settles
    <2>3. Atomic!Transfer(c.wallet, c.to, c.amount)
      BY <1>7, TransferMaps
    <2>. QED  BY <2>2, <2>3 DEF Atomic!Next
  <1>8. CASE Freeze(s)
    <2>1. pc[s] # "idle" /\ pc[s] = "freeze"
      BY <1>8 DEF Freeze
    <2>2. c.op = "CreateWithdraw" /\ c.amount >= MinWithdraw
      BY <2>1 DEF CallsOK, CallOK
    <2>3. c.wallet \in Wallets /\ c.amount \in Amounts
      BY <2>1, <2>2, CallArguments DEF Settles
    <2>4. /\ wallet' = [wallet EXCEPT ![c.wallet] = Hold(@, c.amount + NetworkFee)]
          /\ reqs' = Append(reqs, [wallet |-> c.wallet, amount |-> c.amount,
                                   fee |-> NetworkFee, status |-> "pending"])
          /\ UNCHANGED <<txs, ledger>>
      BY <1>8 DEF Freeze
    <2>5. UNCHANGED Book
      BY <2>4 DEF Book
    <2>6. Atomic!CreateWithdraw(c.wallet, c.amount)
      BY <2>2, <2>4, <2>5, SameMoney DEF Atomic!CreateWithdraw
    <2>. QED  BY <2>3, <2>6 DEF Atomic!Next
  <1>9. CASE Release(s)
    <2>1. pc[s] # "idle" /\ pc[s] = "release"
      BY <1>9 DEF Release
    <2>2. c.op = "RejectWithdraw"
      BY <2>1 DEF CallsOK, CallOK
    <2>3. /\ c.req \in DOMAIN reqs
          /\ c.wallet = reqs[c.req].wallet /\ c.amount = Total(reqs[c.req])
      BY <2>1, <2>2, CallArguments DEF Settles
    <2>4. /\ wallet' = [wallet EXCEPT ![c.wallet] = Hold(@, -c.amount)]
          /\ txs' = Append(txs, NewTx("refund", c.wallet, NoKey, 0))
          /\ reqs' = [reqs EXCEPT ![c.req].status = "rejected"]
          /\ UNCHANGED ledger
      BY <1>9 DEF Release
    <2>5. UNCHANGED Book
      BY <2>4 DEF Book
    <2>6. Atomic!RejectWithdraw(c.req)
      BY <2>3, <2>4, <2>5, SameMoney DEF Atomic!RejectWithdraw
    <2>. QED  BY <2>3, <2>6 DEF Atomic!Next
  <1>. QED
    BY <1>2, <1>3, <1>4, <1>5, <1>6, <1>7, <1>8, <1>9
       DEF Moves, Step, Abort, Begin, FindDuplicate, LockWallet,
       LockRecipient, ReadWallet, CheckEnough, ReadTip, SeqConflict, DeadlockVictim

(* The store keeps its promise: whatever its sessions interleave, read     *)
(* before they lock, abort and retry, their calls are a sequence of the    *)
(* indivisible methods of AtomicWallet.                                    *)
THEOREM StoreImplementsAtomic == Spec => AtomicSpec
  <1>1. Init => Atomic!Init
    <2>1. SUFFICES ASSUME Init  PROVE Atomic!Init
      OBVIOUS
    <2>2. Book = << >>
      BY <2>1 DEF Init, Book
    <2>. QED  BY <2>1, <2>2, SameMoney DEF Init, Atomic!Init
  <1>2. StoreInv /\ [Next]_vars => [Atomic!Next]_(Atomic!vars)
    <2>1. SUFFICES ASSUME StoreInv, [Next]_vars  PROVE Atomic!Next \/ UNCHANGED Atomic!vars
      OBVIOUS
    <2>2. CASE UNCHANGED vars
      <3>1. UNCHANGED <<wallet, txs, ledger, reqs>>
        BY <2>2 DEF vars
      <3>2. UNCHANGED Book
        BY <3>1 DEF Book
      <3>. QED  BY <3>1, <3>2 DEF Atomic!vars
    <2>3. ASSUME NEW s \in Sessions, Moves(s)  PROVE Atomic!Next \/ UNCHANGED Atomic!vars
      BY <2>1, <2>3, StepMaps DEF StoreInv
    <2>. QED  BY <2>1, <2>2, <2>3, NextMoves
  <1>. QED  BY <1>1, <1>2, StoreInvariant, PTL DEF Spec, AtomicSpec, Atomic!Spec

-----------------------------------------------------------------------------
(* What is held.  The held amounts add up along the requests: the running  *)
(* sums are what a new request extends and a settlement lowers from its    *)
(* place on, so no induction over the table is needed to follow them.      *)

Owes(w, r) == IF r.wallet = w /\ r.status = "pending" THEN Total(r) ELSE 0

Adds(f, w, q) ==
    f = [i \in 0..Len(q) |-> IF i = 0 THEN 0 ELSE f[i-1] + Owes(w, q[i])]

(* Running sums of whole numbers.                                          *)
Sums(f, w, q) == Adds(f, w, q) /\ \A i \in 0..Len(q) : f[i] \in Int

HeldOK == \A w \in Wallets : \E f : Sums(f, w, reqs) /\ f[Len(reqs)] = wallet[w].frozen

LEMMA OwesType ==
    ASSUME NEW w, NEW r \in Request
    PROVE  Owes(w, r) \in Int /\ Total(r) \in Int
  BY DEF Owes, Total, Request

LEMMA SumsAppend ==
    ASSUME NEW w, NEW q \in Seq(Request), NEW r \in Request, NEW f, Sums(f, w, q),
           NEW p, p = Append(q, r)
    PROVE  \E g : Sums(g, w, p) /\ g[Len(p)] = f[Len(q)] + Owes(w, r)
  <1>. DEFINE n == Len(q)
              g == [i \in 0..(n+1) |-> IF i = n+1 THEN f[n] + Owes(w, r) ELSE f[i]]
  <1>1. n \in Nat /\ Len(p) = n + 1 /\ p[n+1] = r /\ \A i \in 1..n : p[i] = q[i]
    OBVIOUS
  <1>2. \A i \in 0..n : f[i] \in Int /\ f[i] = IF i = 0 THEN 0 ELSE f[i-1] + Owes(w, q[i])
    BY <1>1 DEF Sums, Adds
  <1>3. Owes(w, r) \in Int
    BY OwesType
  <1>. HIDE DEF n
  <1>4. \A i \in 0..(n+1) : g[i] \in Int
    BY <1>1, <1>2, <1>3
  <1>5. ASSUME NEW i \in 0..(n+1)
        PROVE  g[i] = IF i = 0 THEN 0 ELSE g[i-1] + Owes(w, p[i])
    <2>1. CASE i = n+1
      BY <1>1, <2>1
    <2>2. CASE i \in 1..n
      BY <1>1, <1>2, <2>2
    <2>3. CASE i = 0
      BY <1>1, <1>2, <2>3
    <2>. QED  BY <1>1, <2>1, <2>2, <2>3
  <1>6. g = [i \in 0..(n+1) |-> IF i = 0 THEN 0 ELSE g[i-1] + Owes(w, p[i])]
    BY <1>5
  <1>7. g[n+1] = f[n] + Owes(w, r)
    BY <1>1
  <1>. HIDE DEF g
  <1>8. Sums(g, w, p)
    BY <1>1, <1>4, <1>6 DEF Sums, Adds
  <1>. QED  BY <1>1, <1>7, <1>8 DEF n

(* p is q with request k settled.                                          *)
Settled(p, q, k) ==
    /\ Len(p) = Len(q) /\ p[k].status # "pending"
    /\ \A i \in DOMAIN q : i # k => p[i] = q[i]

LEMMA SumsSettle ==
    ASSUME NEW w, NEW q \in Seq(Request), NEW k \in DOMAIN q, NEW f, Sums(f, w, q),
           NEW p, Settled(p, q, k)
    PROVE  \E g : Sums(g, w, p) /\ g[Len(p)] = f[Len(q)] - Owes(w, q[k])
  <1>. DEFINE n == Len(q)
              d == Owes(w, q[k])
              g == [i \in 0..n |-> IF i >= k THEN f[i] - d ELSE f[i]]
  <1>1. n \in Nat /\ k \in 1..n /\ q[k] \in Request /\ DOMAIN q = 1..n
    OBVIOUS
  <1>2. /\ Len(p) = n /\ p[k].status # "pending"
        /\ \A i \in 1..n : i # k => p[i] = q[i]
    BY <1>1 DEF Settled
  <1>3. \A i \in 0..n : f[i] \in Int /\ f[i] = IF i = 0 THEN 0 ELSE f[i-1] + Owes(w, q[i])
    BY <1>1 DEF Sums, Adds
  <1>4. d \in Int /\ Owes(w, p[k]) = 0
    BY <1>1, <1>2, OwesType DEF Owes
  <1>5. \A i \in 1..n : Owes(w, q[i]) \in Int
    BY <1>1, OwesType
  <1>6. f[k] = f[k-1] + d
    BY <1>1, <1>3
  <1>. HIDE DEF n, d
  <1>7. \A i \in 0..n : g[i] \in Int
    BY <1>1, <1>3, <1>4
  <1>8. ASSUME NEW i \in 0..n
        PROVE  g[i] = IF i = 0 THEN 0 ELSE g[i-1] + Owes(w, p[i])
    <2>1. CASE i = 0
      BY <1>1, <1>3, <2>1
    <2>2. CASE i \in 1..n /\ i < k
      <3>1. g[i] = f[i] /\ g[i-1] = f[i-1]
        BY <1>1, <2>2
      <3>2. p[i] = q[i] /\ f[i] = f[i-1] + Owes(w, q[i])
        BY <1>1, <1>2, <1>3, <2>2
      <3>. QED  BY <2>2, <3>1, <3>2
    <2>3. CASE i = k
      <3>1. g[k] = f[k] - d /\ g[k-1] = f[k-1] /\ f[k-1] \in Int /\ f[k] \in Int
        BY <1>1, <1>3
      <3>2. g[k] = g[k-1] + 0
        BY <1>4, <1>6, <3>1
      <3>. QED  BY <1>1, <1>4, <2>3, <3>2
    <2>4. CASE i \in 1..n /\ i > k
      <3>1. g[i] = f[i] - d /\ g[i-1] = f[i-1] - d /\ f[i-1] \in Int /\ f[i] \in Int
        BY <1>1, <1>3, <2>4
      <3>2. f[i] = f[i-1] + Owes(w, q[i]) /\ p[i] = q[i] /\ Owes(w, q[i]) \in Int
        BY <1>1, <1>2, <1>3, <1>5, <2>4
      <3>3. g[i] = g[i-1] + Owes(w, p[i])
        BY <1>4, <3>1, <3>2
      <3>. QED  BY <2>4, <3>3
    <2>. QED  BY <1>1, <2>1, <2>2, <2>3, <2>4
  <1>9. g = [i \in 0..n |-> IF i = 0 THEN 0 ELSE g[i-1] + Owes(w, p[i])]
    BY <1>8
  <1>10. g[n] = f[n] - d
    BY <1>1
  <1>. HIDE DEF g
  <1>11. Sums(g, w, p)
    BY <1>2, <1>7, <1>9 DEF Sums, Adds
  <1>. QED  BY <1>2, <1>10, <1>11 DEF n, d

(* Running sums are the ones FrozenIsPending chooses.                      *)
LEMMA SumsChosen ==
    ASSUME NEW w, NEW q \in Seq(Request), NEW f, Sums(f, w, q), NEW g, Adds(g, w, q)
    PROVE  f[Len(q)] = g[Len(q)]
  <1>. DEFINE n == Len(q)
              Bad == {i \in 0..n : f[i] # g[i]}
  <1>1. n \in Nat
    OBVIOUS
  <1>. HIDE DEF n
  <1>2. /\ \A i \in 0..n : f[i] = IF i = 0 THEN 0 ELSE f[i-1] + Owes(w, q[i])
        /\ \A i \in 0..n : g[i] = IF i = 0 THEN 0 ELSE g[i-1] + Owes(w, q[i])
    BY DEF Sums, Adds, n
  <1>3. Bad = {}
    <2>1. SUFFICES ASSUME Bad # {}  PROVE FALSE
      OBVIOUS
    <2>2. Bad \subseteq Nat
      BY <1>1
    <2>3. PICK i \in Bad : \A j \in Bad : i <= j
      <3>. HIDE DEF Bad
      <3>. QED  BY <2>1, <2>2, LeastNat
    <2>4. i # 0
      BY <1>1, <1>2, <2>3
    <2>5. i-1 \in 0..n /\ f[i-1] = g[i-1]
      BY <1>1, <2>3, <2>4
    <2>. QED  BY <1>2, <2>3, <2>4, <2>5
  <1>4. n \in 0..n
    BY <1>1
  <1>. QED  BY <1>3, <1>4 DEF n

(* Only a request and its settlement change what is held.                  *)
LEMMA FrozenKept ==
    ASSUME TypeOK, CallsOK, FreshInv, NEW s \in Sessions, Moves(s),
           ~Freeze(s), ~Release(s), ~CommitComplete(s), NEW w \in Wallets
    PROVE  reqs' = reqs /\ wallet'[w].frozen = wallet[w].frozen
  <1>. DEFINE c == call[s]
              old == wallet[c.wallet]
  <1>0. wallet \in [Wallets -> Row]
    BY DEF TypeOK
  <1>1. ASSUME pc[s] = "commit"  PROVE c.wallet \in Wallets /\ old \in Row
    BY <1>0, <1>1 DEF CallsOK, CallOK, Job
  <1>2. ASSUME NEW row, wallet' = [wallet EXCEPT ![c.wallet] = row], c.wallet \in Wallets,
               row.frozen = old.frozen
        PROVE  wallet'[w].frozen = wallet[w].frozen
    <2>1. w = c.wallet => wallet'[w] = row
      BY <1>0, <1>2
    <2>2. w # c.wallet => wallet'[w] = wallet[w]
      BY <1>0, <1>2
    <2>. QED  BY <1>2, <2>1, <2>2
  <1>3. CASE CommitDeposit(s)
    <2>1. /\ wallet' = [wallet EXCEPT ![c.wallet] = AddTon(old, c.amount)] /\ reqs' = reqs
          /\ pc[s] = "commit"
      BY <1>3 DEF CommitDeposit, Post
    <2>2. AddTon(old, c.amount).frozen = old.frozen
      BY <1>1, <2>1 DEF AddTon, Row
    <2>. QED  BY <1>1, <1>2, <2>1, <2>2
  <1>4. CASE CommitDeduct(s)
    <2>1. /\ wallet' = [wallet EXCEPT ![c.wallet] = Charge(old, snap[s], c.amount)]
          /\ reqs' = reqs /\ pc[s] = "commit"
      BY <1>4 DEF CommitDeduct, Post
    <2>2. Charge(old, snap[s], c.amount).frozen = old.frozen
      BY DEF Charge
    <2>. QED  BY <1>1, <1>2, <2>1, <2>2
  <1>5. CASE CommitCredit(s)
    <2>1. /\ wallet' = [wallet EXCEPT ![c.wallet] = GiveCredit(old, c.amount)]
          /\ reqs' = reqs /\ pc[s] = "commit"
      BY <1>5 DEF CommitCredit, Post
    <2>2. GiveCredit(old, c.amount).frozen = old.frozen
      BY <1>1, <2>1 DEF GiveCredit, Row
    <2>. QED  BY <1>1, <1>2, <2>1, <2>2
  <1>6. CASE CommitTransfer(s)
    <2>1. /\ c.wallet \in Wallets /\ c.to \in Wallets /\ c.wallet # c.to /\ reqs' = reqs
          /\ wallet' = [wallet EXCEPT ![c.wallet] = Charge(old, old, c.amount),
                                      ![c.to] = Receive(wallet[c.to], old, c.amount)]
      BY <1>6, TransferFacts DEF CommitTransfer
    <2>. HIDE DEF c
    <2>2. w = c.wallet => wallet'[w] = Charge(old, old, c.amount)
      BY <1>0, <2>1
    <2>3. w = c.to => wallet'[w] = Receive(wallet[c.to], old, c.amount)
      BY <1>0, <2>1
    <2>4. w # c.wallet /\ w # c.to => wallet'[w] = wallet[w]
      BY <1>0, <2>1
    <2>5. /\ Charge(old, old, c.amount).frozen = old.frozen
          /\ Receive(wallet[c.to], old, c.amount).frozen = wallet[c.to].frozen
      BY DEF Charge, Receive
    <2>. QED  BY <2>1, <2>2, <2>3, <2>4, <2>5
  <1>7. CASE UNCHANGED tables
    BY <1>7 DEF tables
  <1>. QED
    BY <1>3, <1>4, <1>5, <1>6, <1>7
       DEF Moves, Step, Abort, Begin, FindDuplicate, LockWallet, LockRecipient,
           ReadWallet, CheckEnough, ReadTip, SeqConflict, DeadlockVictim

(* What the settlements do not ask for: that the request is still pending. *)
SettlesPending ==
    \A s \in Sessions : CommitComplete(s) \/ Release(s) => reqs[call[s].req].status = "pending"

(* A settlement of a pending request takes its hold, and no other.         *)
LEMMA SettleStep ==
    ASSUME TypeOK, CallsOK, HeldOK, NEW s \in Sessions, CommitComplete(s) \/ Release(s),
           reqs[call[s].req].status = "pending"
    PROVE  HeldOK'
  <1>. DEFINE c == call[s]
              k == c.req
  <1>1. c.op \in Settles /\ pc[s] \in {"commit", "release"}
    BY DEF CommitComplete, Release, CallsOK, CallOK, Settles
  <1>2. /\ k \in DOMAIN reqs /\ c.wallet = reqs[k].wallet /\ c.amount = Total(reqs[k])
        /\ c.wallet \in Wallets /\ reqs \in Seq(Request) /\ wallet \in [Wallets -> Row]
    BY <1>1 DEF CallsOK, CallOK, Job, TypeOK
  <1>3. c.amount \in Int /\ reqs[k] \in Request
    <2>1. reqs[k] \in Request
      BY <1>2
    <2>2. Total(reqs[k]) \in Int
      BY <2>1, OwesType
    <2>. QED  BY <1>2, <2>1, <2>2
  <1>4. PICK st \in {"done", "rejected"} : reqs' = [reqs EXCEPT ![k].status = st]
    BY DEF CommitComplete, Release
  <1>5. PICK row : /\ wallet' = [wallet EXCEPT ![c.wallet] = row]
                   /\ row.frozen = wallet[c.wallet].frozen - c.amount
    <2>1. CASE CommitComplete(s)
      <3>1. wallet' = [wallet EXCEPT ![c.wallet] = PayOut(wallet[c.wallet], c.amount)]
        BY <2>1 DEF CommitComplete, Post
      <3>2. PayOut(wallet[c.wallet], c.amount).frozen = wallet[c.wallet].frozen - c.amount
        BY DEF PayOut
      <3>. QED  BY <3>1, <3>2
    <2>2. CASE Release(s)
      <3>0. wallet[c.wallet] \in Row
        BY <1>2
      <3>1. wallet' = [wallet EXCEPT ![c.wallet] = Hold(wallet[c.wallet], -c.amount)]
        BY <2>2 DEF Release
      <3>2. Hold(wallet[c.wallet], -c.amount).frozen = wallet[c.wallet].frozen + (-c.amount)
        BY <3>0 DEF Hold, Row
      <3>3. wallet[c.wallet].frozen \in Int
        BY <3>0 DEF Row
      <3>4. Hold(wallet[c.wallet], -c.amount).frozen = wallet[c.wallet].frozen - c.amount
        BY <1>3, <3>2, <3>3
      <3>. QED  BY <3>1, <3>4
    <2>. QED  BY <2>1, <2>2
  <1>6. reqs[k].status = "pending"
    OBVIOUS
  <1>. HIDE DEF c, k
  <1>7. ASSUME NEW w \in Wallets
        PROVE  \E g : Sums(g, w, reqs') /\ g[Len(reqs')] = wallet'[w].frozen
    <2>1. PICK f : Sums(f, w, reqs) /\ f[Len(reqs)] = wallet[w].frozen
      BY <1>7 DEF HeldOK
    <2>2. PICK g : Sums(g, w, reqs') /\ g[Len(reqs')] = f[Len(reqs)] - Owes(w, reqs[k])
      <3>1. Settled(reqs', reqs, k)
        BY <1>2, <1>3, <1>4 DEF Request, Settled
      <3>2. reqs \in Seq(Request) /\ k \in DOMAIN reqs /\ Sums(f, w, reqs)
        BY <1>2, <2>1
      <3>. QED  BY <3>1, <3>2, SumsSettle
    <2>3. wallet[w] \in Row /\ wallet[w].frozen \in Int
      BY <1>2, <1>7 DEF Row
    <2>4. CASE w = c.wallet
      <3>1. Owes(w, reqs[k]) = c.amount
        BY <1>2, <1>6, <2>4 DEF Owes
      <3>2. wallet'[w] = row
        BY <1>2, <1>5, <2>4
      <3>. QED  BY <1>5, <2>1, <2>2, <2>4, <3>1, <3>2
    <2>5. CASE w # c.wallet
      <3>1. Owes(w, reqs[k]) = 0
        BY <1>2, <2>5 DEF Owes
      <3>2. wallet'[w] = wallet[w]
        BY <1>2, <1>5, <2>5
      <3>. QED  BY <2>1, <2>2, <2>3, <3>1, <3>2
    <2>. QED  BY <2>4, <2>5
  <1>. QED  BY <1>7 DEF HeldOK

(* A request adds its hold.                                                *)
LEMMA FreezeStep ==
    ASSUME TypeOK, CallsOK, HeldOK, NEW s \in Sessions, Freeze(s)
    PROVE  HeldOK'
  <1>. DEFINE c == call[s]
              n == c.amount + NetworkFee
              r == [wallet |-> c.wallet, amount |-> c.amount, fee |-> NetworkFee,
                    status |-> "pending"]
  <1>1. /\ pc[s] = "freeze" /\ reqs' = Append(reqs, r)
        /\ wallet' = [wallet EXCEPT ![c.wallet] = Hold(wallet[c.wallet], n)]
    BY DEF Freeze
  <1>2. /\ c.wallet \in Wallets /\ c.amount \in Int /\ n \in Int
        /\ reqs \in Seq(Request) /\ wallet \in [Wallets -> Row]
    BY <1>1, StoreAssumption DEF CallsOK, CallOK, Job, TypeOK
  <1>3. r \in Request /\ Total(r) = n /\ r.wallet = c.wallet /\ r.status = "pending"
    BY <1>2, StoreAssumption DEF Request, WithdrawStatus, Total
  <1>4. wallet[c.wallet] \in Row
    BY <1>2
  <1>5. Hold(wallet[c.wallet], n).frozen = wallet[c.wallet].frozen + n
    BY <1>4 DEF Hold, Row
  <1>. HIDE DEF c, n, r
  <1>6. ASSUME NEW w \in Wallets
        PROVE  \E g : Sums(g, w, reqs') /\ g[Len(reqs')] = wallet'[w].frozen
    <2>1. PICK f : Sums(f, w, reqs) /\ f[Len(reqs)] = wallet[w].frozen
      BY <1>6 DEF HeldOK
    <2>2. PICK g : Sums(g, w, reqs') /\ g[Len(reqs')] = f[Len(reqs)] + Owes(w, r)
      BY <1>1, <1>2, <1>3, <2>1, SumsAppend
    <2>3. wallet[w] \in Row /\ wallet[w].frozen \in Int
      BY <1>2, <1>6 DEF Row
    <2>4. CASE w = c.wallet
      <3>1. Owes(w, r) = n
        BY <1>3, <2>4 DEF Owes
      <3>2. wallet'[w].frozen = wallet[w].frozen + n
        BY <1>1, <1>2, <1>5, <2>4
      <3>. QED  BY <2>1, <2>2, <3>1, <3>2
    <2>5. CASE w # c.wallet
      <3>1. Owes(w, r) = 0
        BY <1>3, <2>5 DEF Owes
      <3>2. wallet'[w] = wallet[w]
        BY <1>1, <1>2, <2>5
      <3>. QED  BY <2>1, <2>2, <2>3, <3>1, <3>2
    <2>. QED  BY <2>4, <2>5
  <1>. QED  BY <1>6 DEF HeldOK

LEMMA HeldStep ==
    ASSUME StoreInv, HeldOK, [Next]_vars, SettlesPending \/ UNCHANGED vars
    PROVE  HeldOK'
  <1>1. CASE UNCHANGED vars
    BY <1>1 DEF vars, HeldOK
  <1>2. ASSUME NEW s \in Sessions, Moves(s), SettlesPending  PROVE HeldOK'
    <2>1. TypeOK /\ CallsOK /\ FreshInv
      BY DEF StoreInv
    <2>2. CASE CommitComplete(s) \/ Release(s)
      BY <1>2, <2>1, <2>2, SettleStep DEF SettlesPending
    <2>3. CASE Freeze(s)
      BY <2>1, <2>3, FreezeStep
    <2>4. ASSUME ~CommitComplete(s), ~Release(s), ~Freeze(s)
          PROVE  reqs' = reqs /\ \A w \in Wallets : wallet'[w].frozen = wallet[w].frozen
      <3>1. \A w \in Wallets : reqs' = reqs /\ wallet'[w].frozen = wallet[w].frozen
        BY <1>2, <2>1, <2>4, FrozenKept
      <3>2. reqs' = reqs
        BY <1>2, <2>4 DEF Moves, Step, Abort, Begin, FindDuplicate, LockWallet, LockRecipient,
           ReadWallet, CheckEnough, ReadTip, SeqConflict, DeadlockVictim, tables,
           CommitDeposit, CommitDeduct, CommitCredit, CommitTransfer
      <3>. QED  BY <3>1, <3>2
    <2>5. CASE ~CommitComplete(s) /\ ~Release(s) /\ ~Freeze(s)
      BY <2>4, <2>5 DEF HeldOK
    <2>. QED  BY <2>2, <2>3, <2>5
  <1>. QED  BY <1>1, <1>2, NextMoves

LEMMA HeldInit == Init => HeldOK
  <1>1. SUFFICES ASSUME Init, NEW w \in Wallets
                 PROVE  \E f : Sums(f, w, reqs) /\ f[Len(reqs)] = wallet[w].frozen
    BY DEF HeldOK
  <1>2. Len(reqs) = 0 /\ wallet[w].frozen = 0
    BY <1>1 DEF Init, EmptyRow
  <1>. DEFINE z == [i \in 0..0 |-> 0]
  <1>3. /\ z = [i \in 0..0 |-> IF i = 0 THEN 0 ELSE z[i-1] + Owes(w, reqs[i])]
        /\ z[0] = 0
    OBVIOUS
  <1>. HIDE DEF z
  <1>4. Sums(z, w, reqs)
    BY <1>2, <1>3 DEF Sums, Adds
  <1>. QED  BY <1>2, <1>3, <1>4

LEMMA HeldAlways == Spec /\ [][SettlesPending]_vars => []HeldOK
  <1>1. StoreInv /\ HeldOK /\ [Next]_vars /\ [SettlesPending]_vars => HeldOK'
    BY HeldStep
  <1>. QED  BY <1>1, HeldInit, StoreInvariant, PTL DEF Spec

(* models.go on frozen: it is what the pending requests hold, in every     *)
(* interleaving of requests, settlements and payments, as long as only a   *)
(* pending request is settled.  Neither settlement checks that, which is   *)
(* what run settled_twice shows.                                           *)
THEOREM PendingSettlementsKeepHolds == Spec /\ [][SettlesPending]_vars => []FrozenIsPending
  <1>1. TypeOK /\ HeldOK => FrozenIsPending
    <2>1. SUFFICES ASSUME TypeOK, HeldOK, NEW w \in Wallets
                   PROVE  LET held[i \in 0..Len(reqs)] ==
                                  IF i = 0 THEN 0
                                  ELSE held[i-1] + IF reqs[i].wallet = w /\ reqs[i].status = "pending"
                                                   THEN Total(reqs[i]) ELSE 0
                          IN  wallet[w].frozen = held[Len(reqs)]
      BY DEF FrozenIsPending
    <2>2. PICK f : Sums(f, w, reqs) /\ f[Len(reqs)] = wallet[w].frozen
      BY <2>1 DEF HeldOK
    <2>. DEFINE g == CHOOSE h : Adds(h, w, reqs)
    <2>3. Adds(g, w, reqs)
      BY <2>2 DEF Sums
    <2>4. f[Len(reqs)] = g[Len(reqs)]
      <3>. HIDE DEF g
      <3>. QED  BY <2>1, <2>2, <2>3, SumsChosen DEF TypeOK
    <2>. QED  BY <2>2, <2>4 DEF Adds, Owes
  <1>2. StoreInv => TypeOK
    BY DEF StoreInv
  <1>. QED  BY <1>1, <1>2, HeldAlways, StoreInvariant, PTL

-----------------------------------------------------------------------------
(* TON that is withdrawn.  CreateWithdraw covers a request by TON and      *)
(* credit alike and CompleteWithdraw takes all of it from the TON.         *)

NoCreditGiven == \A s \in Sessions : "AddCredit" \notin Serves[s]

NoCreditHeld == \A w \in Wallets : wallet[w].credit = 0

(* The pending requests of a wallet do not hold a negative amount.         *)
LEMMA FrozenNat ==
    ASSUME TypeOK, RequestsOK, HeldOK, NEW w \in Wallets
    PROVE  wallet[w].frozen >= 0
  <1>1. PICK f : Sums(f, w, reqs) /\ f[Len(reqs)] = wallet[w].frozen
    BY DEF HeldOK
  <1>. DEFINE n == Len(reqs)
              Bad == {i \in 0..n : ~(f[i] >= 0)}
  <1>2. n \in Nat /\ \A i \in 1..n : reqs[i] \in Request /\ i \in DOMAIN reqs
    BY DEF TypeOK
  <1>3. \A i \in 0..n : f[i] \in Int /\ f[i] = IF i = 0 THEN 0 ELSE f[i-1] + Owes(w, reqs[i])
    BY <1>1, <1>2 DEF Sums, Adds
  <1>4. \A i \in 1..n : Owes(w, reqs[i]) \in Int /\ Owes(w, reqs[i]) >= 0
    <2>1. SUFFICES ASSUME NEW i \in 1..n
                   PROVE  Owes(w, reqs[i]) \in Int /\ Owes(w, reqs[i]) >= 0
      OBVIOUS
    <2>2. reqs[i] \in Request /\ Total(reqs[i]) >= 0
      BY <1>2, <2>1 DEF RequestsOK
    <2>3. Owes(w, reqs[i]) \in Int
      BY <2>2, OwesType
    <2>. QED  BY <2>2, <2>3 DEF Owes
  <1>. HIDE DEF n
  <1>5. Bad = {}
    <2>1. SUFFICES ASSUME Bad # {}  PROVE FALSE
      OBVIOUS
    <2>2. Bad \subseteq Nat
      BY <1>2
    <2>3. PICK i \in Bad : \A j \in Bad : i <= j
      <3>. HIDE DEF Bad
      <3>. QED  BY <2>1, <2>2, LeastNat
    <2>4. i # 0
      BY <1>2, <1>3, <2>3
    <2>5. i \in 1..n /\ i-1 \in 0..n /\ f[i-1] >= 0
      BY <1>2, <2>3, <2>4
    <2>6. f[i] = f[i-1] + Owes(w, reqs[i]) /\ f[i-1] \in Int
      BY <1>3, <2>4, <2>5
    <2>7. f[i] >= 0
      BY <1>4, <2>5, <2>6
    <2>. QED  BY <2>3, <2>7
  <1>6. n \in 0..n
    BY <1>2
  <1>. QED  BY <1>1, <1>5, <1>6 DEF n

(* What is paid from a wallet without credit is paid in TON.               *)
LEMMA PaidInTon ==
    ASSUME NEW row \in Row, NEW read \in Row, read.credit = 0, row.credit = 0,
           NEW n \in Int, n > 0
    PROVE  Charge(row, read, n).credit = 0 /\ Receive(row, read, n).credit = 0
  <1>1. CreditUsed(read, n) = 0
    BY DEF CreditUsed
  <1>. QED  BY <1>1 DEF Charge, Receive

LEMMA NoCreditStep ==
    ASSUME NoCreditGiven, TypeOK, CallsOK, FreshInv, Served, NoCreditHeld,
           NEW s \in Sessions, Moves(s)
    PROVE  NoCreditHeld'
  <1>. DEFINE c == call[s]
              old == wallet[c.wallet]
  <1>0. wallet \in [Wallets -> Row] /\ \A w \in Wallets : wallet[w].credit = 0
    BY DEF TypeOK, NoCreditHeld
  <1>1. ASSUME pc[s] # "idle"
        PROVE  c.wallet \in Wallets /\ c.amount \in Int /\ old \in Row /\ old.credit = 0
    BY <1>0, <1>1 DEF CallsOK, CallOK, Job
  <1>2. ASSUME NEW row, wallet' = [wallet EXCEPT ![c.wallet] = row], row.credit = 0
        PROVE  NoCreditHeld'
    BY <1>0, <1>2 DEF NoCreditHeld
  <1>3. ~CommitCredit(s)
    BY DEF CommitCredit, NoCreditGiven, Served
  <1>4. CASE CommitDeposit(s)
    <2>1. wallet' = [wallet EXCEPT ![c.wallet] = AddTon(old, c.amount)] /\ pc[s] = "commit"
      BY <1>4 DEF CommitDeposit, Post
    <2>2. AddTon(old, c.amount).credit = 0
      BY <1>1, <2>1 DEF AddTon, Row
    <2>. QED  BY <1>2, <2>1, <2>2
  <1>5. CASE CommitDeduct(s)
    <2>1. /\ wallet' = [wallet EXCEPT ![c.wallet] = Charge(old, snap[s], c.amount)]
          /\ pc[s] = "commit" /\ c.op = "Deduct" /\ snap[s] = old
      BY <1>5 DEF CommitDeduct, Post, FreshInv, ReadsFresh, Owns
    <2>2. c.amount > 0
      BY <2>1 DEF CallsOK, CallOK
    <2>3. Charge(old, snap[s], c.amount).credit = 0
      BY <1>1, <2>1, <2>2, PaidInTon
    <2>. QED  BY <1>2, <2>1, <2>3
  <1>6. CASE CommitComplete(s)
    <2>1. wallet' = [wallet EXCEPT ![c.wallet] = PayOut(old, c.amount)] /\ pc[s] = "commit"
      BY <1>6 DEF CommitComplete, Post
    <2>2. PayOut(old, c.amount).credit = 0
      BY <1>1, <2>1 DEF PayOut
    <2>. QED  BY <1>2, <2>1, <2>2
  <1>7. CASE CommitTransfer(s)
    <2>1. /\ c.wallet \in Wallets /\ c.to \in Wallets /\ c.wallet # c.to
          /\ c.amount \in Int /\ c.amount > 0 /\ old \in Row /\ wallet[c.to] \in Row
          /\ wallet' = [wallet EXCEPT ![c.wallet] = Charge(old, old, c.amount),
                                      ![c.to] = Receive(wallet[c.to], old, c.amount)]
      BY <1>7, TransferFacts
    <2>2. old.credit = 0 /\ wallet[c.to].credit = 0
      BY <1>0, <2>1
    <2>. HIDE DEF c, old
    <2>3. Charge(old, old, c.amount).credit = 0 /\ Receive(wallet[c.to], old, c.amount).credit = 0
      BY <2>1, <2>2, PaidInTon
    <2>4. ASSUME NEW w \in Wallets  PROVE wallet'[w].credit = 0
      <3>1. w = c.wallet => wallet'[w] = Charge(old, old, c.amount)
        BY <1>0, <2>1
      <3>2. w = c.to => wallet'[w] = Receive(wallet[c.to], old, c.amount)
        BY <1>0, <2>1
      <3>3. w # c.wallet /\ w # c.to => wallet'[w] = wallet[w]
        BY <1>0, <2>1
      <3>. QED  BY <1>0, <2>3, <3>1, <3>2, <3>3
    <2>. QED  BY <2>4 DEF NoCreditHeld
  <1>8. ASSUME Freeze(s) \/ Release(s)  PROVE NoCreditHeld'
    <2>1. PICK n : wallet' = [wallet EXCEPT ![c.wallet] = Hold(old, n)]
      BY <1>8 DEF Freeze, Release
    <2>2. pc[s] # "idle"
      BY <1>8 DEF Freeze, Release
    <2>3. Hold(old, n).credit = 0
      BY <1>1, <2>2 DEF Hold, Row
    <2>. QED  BY <1>2, <2>1, <2>3
  <1>9. CASE UNCHANGED tables
    BY <1>9 DEF tables, NoCreditHeld
  <1>. QED
    BY <1>3, <1>4, <1>5, <1>6, <1>7, <1>8, <1>9
       DEF Moves, Step, Abort, Begin, FindDuplicate, LockWallet, LockRecipient,
           ReadWallet, CheckEnough, ReadTip, SeqConflict, DeadlockVictim

(* README on withdrawals, by its premises: without internal credit, with   *)
(* withdrawals that nobody overtakes and settlements of pending requests   *)
(* only, no wallet pays out TON it does not have.  Run credit_withdrawn    *)
(* drops the first premise, run settled_twice the last.                    *)
THEOREM TonCoversWithdrawals ==
    ASSUME HoldsAlone, NoCreditGiven
    PROVE  Spec /\ [][SettlesPending]_vars => []TonNonNegative
  <1>1. Init => NoCreditHeld
    <2>1. EmptyRow.credit = 0
      BY DEF EmptyRow
    <2>. QED  BY <2>1 DEF Init, NoCreditHeld
  <1>2. StoreInv /\ HoldInv /\ NoCreditHeld /\ [Next]_vars => NoCreditHeld'
    <2>1. SUFFICES ASSUME StoreInv, HoldInv, NoCreditHeld, [Next]_vars  PROVE NoCreditHeld'
      OBVIOUS
    <2>2. CASE UNCHANGED vars
      BY <2>1, <2>2 DEF vars, NoCreditHeld
    <2>3. ASSUME NEW s \in Sessions, Moves(s)  PROVE NoCreditHeld'
      BY <2>1, <2>3, NoCreditStep DEF StoreInv, HoldInv
    <2>. QED  BY <2>1, <2>2, <2>3, NextMoves
  <1>3. Spec => []NoCreditHeld
    BY <1>1, <1>2, HoldAlways, StoreInvariant, PTL DEF Spec
  <1>4. StoreInv /\ HoldInv /\ NoCreditHeld /\ HeldOK => TonNonNegative
    <2>1. SUFFICES ASSUME StoreInv, HoldInv, NoCreditHeld, HeldOK, NEW w \in Wallets
                   PROVE  wallet[w].ton >= 0
      BY DEF TonNonNegative
    <2>2. wallet[w] \in Row /\ wallet[w].credit = 0 /\ wallet[w].frozen >= 0
      BY <2>1, FrozenNat DEF StoreInv, HoldInv, NoCreditHeld, TypeOK
    <2>3. Available(wallet[w]) >= 0
      BY <2>1 DEF HoldInv, AvailableNonNegative
    <2>4. wallet[w].ton \in Int /\ wallet[w].frozen \in Int
      BY <2>2 DEF Row
    <2>. QED  BY <2>2, <2>3, <2>4 DEF Available, Realized
  <1>. QED  BY <1>3, <1>4, HoldAlways, HeldAlways, StoreInvariant, PTL
===========================================================================
