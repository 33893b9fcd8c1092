------------------------- MODULE ChainGuardProofs -------------------------
(***************************************************************************)
(* Proofs about ChainGuard: a check that reads the chain in batches while  *)
(* transactions commit never reports a chain that nobody touched.          *)
(*                                                                         *)
(* What a check has read is a prefix of the ledger, and the ledger is only *)
(* appended to, so the prefix is still there when the next batch is read.  *)
(* The types and the freshness of locked reads survive tampering; the      *)
(* validity of the chain holds as long as there was none.                  *)
(***************************************************************************)
EXTENDS ChainGuard, WalletStoreProofs

(* A check in progress has read blocks 1 to offset.                        *)
ScanType ==
    /\ scan \in [offset : Int, prev : Tip]
    /\ scan # NoScan => scan.offset \in 0..Len(ledger)

(* It remembers the last of them.                                          *)
ScanFollows == scan # NoScan => scan.prev = Before(ledger, scan.offset + 1)

BaseInv ==
    /\ TypeOK /\ CallsOK /\ FreshInv
    /\ ScanType
    /\ healthy \in BOOLEAN /\ altered \subseteq DOMAIN ledger
    /\ tampers \in 0..MaxTampers /\ failures \in 0..MaxFailures

Untouched == altered = {} /\ ChainInv /\ ScanFollows /\ healthy

GuardInv == BaseInv /\ (tampers = 0 => Untouched)

-----------------------------------------------------------------------------
(* The store only appends to the ledger.                                   *)
LEMMA LedgerGrows ==
    ASSUME TypeOK, CallsOK, FreshInv, [Next]_vars
    PROVE  /\ Len(ledger') \in Nat /\ Len(ledger) <= Len(ledger')
           /\ DOMAIN ledger \subseteq DOMAIN ledger'
           /\ \A i \in DOMAIN ledger : ledger'[i] = ledger[i]
  <1>. DEFINE Goal == /\ Len(ledger') \in Nat /\ Len(ledger) <= Len(ledger')
                      /\ DOMAIN ledger \subseteq DOMAIN ledger'
                      /\ \A i \in DOMAIN ledger : ledger'[i] = ledger[i]
  <1>1. ledger \in Seq(Entry)
    BY DEF TypeOK
  <1>2. ASSUME UNCHANGED ledger  PROVE Goal
    BY <1>1, <1>2
  <1>3. ASSUME NEW s \in Sessions, CommitTransfer(s)  PROVE Goal
    <2>1. Out(s) \in Entry /\ In(s) \in Entry /\ ledger' = Append(Append(ledger, Out(s)), In(s))
      BY <1>3, TransferFacts
    <2>. QED  BY <1>1, <2>1
  <1>4. ASSUME NEW s \in Sessions, NEW row \in Row, NEW type \in TxType, NEW et \in EntryType,
               PostStep(s, row, type, et)
        PROVE  Goal
    <2>1. Block(s, et) \in Entry /\ ledger' = Append(ledger, Block(s, et))
      BY <1>4, PostFacts
    <2>. QED  BY <1>1, <2>1
  <1>5. ASSUME NEW s \in Sessions, Moves(s)  PROVE Goal
    BY <1>2, <1>3, <1>4, <1>5, Effects DEF Freeze, Release, tables
  <1>6. CASE UNCHANGED vars
    BY <1>2, <1>6 DEF vars
  <1>. QED  BY <1>5, <1>6, NextMoves

(* What a batch contains.                                                  *)
LEMMA BatchFacts ==
    ASSUME BaseInv, Scanning
    PROVE  /\ Batch \in Seq(Entry) /\ Len(Batch) \in Nat
           /\ scan.offset + Len(Batch) \in 0..Len(ledger)
           /\ \A i \in DOMAIN Batch : /\ scan.offset + i \in DOMAIN ledger
                                      /\ Batch[i] = ledger[scan.offset + i]
  <1>. DEFINE hi == IF scan.offset + BatchSize < Len(ledger) THEN scan.offset + BatchSize
                    ELSE Len(ledger)
  <1>1. ledger \in Seq(Entry) /\ scan.offset \in 0..Len(ledger) /\ Len(ledger) \in Nat
    BY DEF BaseInv, ScanType, Scanning, TypeOK
  <1>2. hi \in scan.offset..Len(ledger)
    BY <1>1, GuardAssumption
  <1>3. Batch = SubSeq(ledger, scan.offset + 1, hi)
    BY DEF Batch
  <1>. HIDE DEF hi
  <1>4. \A i \in (scan.offset + 1)..hi : i \in DOMAIN ledger
    BY <1>1, <1>2
  <1>5. /\ Batch \in Seq(Entry) /\ Len(Batch) = hi - scan.offset
        /\ \A i \in 1..(hi - scan.offset) : Batch[i] = ledger[scan.offset + i]
    BY <1>1, <1>2, <1>3, <1>4
  <1>6. DOMAIN Batch = 1..(hi - scan.offset) /\ Len(Batch) \in Nat
    BY <1>1, <1>2, <1>5
  <1>7. \A i \in 1..(hi - scan.offset) : scan.offset + i \in DOMAIN ledger
    BY <1>1, <1>2, <1>4
  <1>8. scan.offset + Len(Batch) \in 0..Len(ledger)
    BY <1>1, <1>2, <1>5
  <1>. QED  BY <1>5, <1>6, <1>7, <1>8

(* The block before place n + 1 is block n.                                *)
LEMMA BeforeNext ==
    ASSUME NEW chain, NEW n \in Nat
    PROVE  Before(chain, n + 1) =
             IF n = 0 THEN GenesisTip
             ELSE [seq |-> chain[n].content.seq, hash |-> chain[n].hash]
  <1>1. n + 1 - 1 = n /\ (n + 1 = 1 <=> n = 0)
    OBVIOUS
  <1>. QED  BY <1>1 DEF Before

(* On a valid chain the comparisons of a batch succeed, and the last block *)
(* of the batch is what the next one is compared with.                     *)
LEMMA BatchContinues ==
    ASSUME BaseInv, Scanning, ChainInv, ScanFollows
    PROVE  /\ Continues(scan.prev, Batch)
           /\ Batch # << >> => TipOf(Batch) = Before(ledger, NextOffset + 1)
  <1>. DEFINE off == scan.offset
  <1>1. /\ off \in Nat /\ scan.prev = Before(ledger, off + 1)
        /\ ledger \in Seq(Entry) /\ VerifyChain(ledger)
    BY DEF BaseInv, ScanType, Scanning, ScanFollows, TypeOK, ChainInv, ChainValid
  <1>2. ASSUME NEW i \in DOMAIN Batch
        PROVE  LET before == IF i = 1 THEN scan.prev
                             ELSE [seq |-> Batch[i-1].content.seq, hash |-> Batch[i-1].hash]
               IN  before = Before(ledger, off + i)
    <2>1. CASE i = 1
      BY <1>1, <2>1
    <2>2. CASE i # 1
      <3>1. i \in Nat /\ i > 1 /\ i - 1 \in DOMAIN Batch
        BY <2>2, BatchFacts
      <3>2. Batch[i-1] = ledger[off + i - 1]
        BY <1>1, <3>1, BatchFacts
      <3>. HIDE DEF off
      <3>3. PICK n \in Nat : n = off + i - 1 /\ n # 0 /\ off + i = n + 1
        <4>1. off \in Nat /\ i \in Nat /\ i > 1
          BY <1>1, <3>1
        <4>. QED  BY <4>1
      <3>4. Before(ledger, n + 1) = [seq |-> ledger[n].content.seq, hash |-> ledger[n].hash]
        BY <3>3, BeforeNext
      <3>. QED  BY <2>2, <3>2, <3>3, <3>4
    <2>. QED  BY <2>1, <2>2
  <1>3. ASSUME NEW i \in DOMAIN Batch
        PROVE  /\ ledger[off + i].content.seq = Before(ledger, off + i).seq + 1
               /\ ledger[off + i].prevHash = Before(ledger, off + i).hash
               /\ ledger[off + i].hash = ComputeHash(ledger[off + i].content, ledger[off + i].prevHash)
               /\ Batch[i] = ledger[off + i]
    <2>1. Batch[i] = ledger[off + i] /\ off + i \in DOMAIN ledger
      BY <1>1, BatchFacts
    <2>2. VerifyChain(ledger)
      BY <1>1
    <2>. HIDE DEF off
    <2>. QED  BY <2>1, <2>2 DEF VerifyChain
  <1>4. Continues(scan.prev, Batch)
    <2>1. ASSUME NEW i \in DOMAIN Batch
          PROVE  LET before == IF i = 1 THEN scan.prev
                               ELSE [seq |-> Batch[i-1].content.seq, hash |-> Batch[i-1].hash]
                 IN  /\ Batch[i].content.seq = before.seq + 1
                     /\ Batch[i].prevHash = before.hash
                     /\ Batch[i].hash = ComputeHash(Batch[i].content, Batch[i].prevHash)
      <3>. DEFINE before == IF i = 1 THEN scan.prev
                            ELSE [seq |-> Batch[i-1].content.seq, hash |-> Batch[i-1].hash]
      <3>1. before = Before(ledger, off + i)
        BY <1>2
      <3>. HIDE DEF before, off
      <3>2. /\ Batch[i].content.seq = before.seq + 1
            /\ Batch[i].prevHash = before.hash
            /\ Batch[i].hash = ComputeHash(Batch[i].content, Batch[i].prevHash)
        BY <1>3, <3>1
      <3>. QED  BY <3>2 DEF before
    <2>. QED  BY <2>1 DEF Continues
  <1>5. ASSUME Batch # << >>  PROVE TipOf(Batch) = Before(ledger, NextOffset + 1)
    <2>1. Len(Batch) \in DOMAIN Batch /\ Len(Batch) \in Nat /\ Len(Batch) > 0
      BY <1>5, BatchFacts
    <2>2. Batch[Len(Batch)] = ledger[off + Len(Batch)]
      BY <2>1, BatchFacts
    <2>3. TipOf(Batch) = [seq |-> ledger[off + Len(Batch)].content.seq,
                          hash |-> ledger[off + Len(Batch)].hash]
      BY <1>5, <2>2 DEF TipOf
    <2>4. NextOffset \in Nat /\ NextOffset # 0 /\ NextOffset = off + Len(Batch)
      BY <1>1, <2>1 DEF NextOffset
    <2>. QED  BY <2>3, <2>4, BeforeNext
  <1>. QED  BY <1>4, <1>5

-----------------------------------------------------------------------------
LEMMA GuardStart == GuardInit => GuardInv
  <1>. SUFFICES ASSUME GuardInit  PROVE GuardInv
    OBVIOUS
  <1>1. StoreInv
    BY InitInv DEF GuardInit
  <1>2. NoScan \in [offset : Int, prev : Tip]
    BY DEF NoScan, GenesisTip, GenesisHash, Tip, Hash
  <1>3. BaseInv
    BY <1>1, <1>2, GuardAssumption DEF GuardInit, BaseInv, ScanType, StoreInv
  <1>. QED  BY <1>1, <1>3 DEF GuardInit, GuardInv, Untouched, ScanFollows, StoreInv

(* A step of the store beside the guard.                                   *)
LEMMA StoreBeside ==
    ASSUME GuardInv, [Next]_vars, UNCHANGED guardVars
    PROVE  GuardInv'
  <1>1. TypeOK /\ CallsOK /\ FreshInv
    BY DEF GuardInv, BaseInv
  <1>2. TypeOK' /\ CallsOK' /\ FreshInv'
    BY <1>1, TypeStep, FreshStep
  <1>3. /\ Len(ledger') \in Nat /\ Len(ledger) <= Len(ledger') /\ Len(ledger) \in Nat
        /\ DOMAIN ledger \subseteq DOMAIN ledger'
        /\ \A i \in DOMAIN ledger : ledger'[i] = ledger[i]
    BY <1>1, LedgerGrows DEF TypeOK
  <1>4. BaseInv'
    BY <1>2, <1>3 DEF GuardInv, BaseInv, ScanType, guardVars, NoScan, GenesisTip, GenesisHash
  <1>5. ASSUME tampers' = 0  PROVE Untouched'
    <2>1. Untouched
      BY <1>5 DEF GuardInv, guardVars
    <2>2. ChainInv'
      BY <1>1, <2>1, ChainStep DEF Untouched
    <2>3. ASSUME scan # NoScan  PROVE Before(ledger, scan.offset + 1)' = Before(ledger, scan.offset + 1)
      <3>1. scan.offset \in Nat /\ (scan.offset = 0 \/ scan.offset \in DOMAIN ledger)
        <4>1. scan.offset \in Nat /\ scan.offset <= Len(ledger)
          BY <2>3 DEF GuardInv, BaseInv, ScanType
        <4>2. DOMAIN ledger = 1..Len(ledger)
          BY <1>1 DEF TypeOK
        <4>. QED  BY <1>3, <4>1, <4>2
      <3>2. Before(ledger', scan.offset + 1) = Before(ledger, scan.offset + 1)
        <4>1. scan.offset # 0 => ledger'[scan.offset] = ledger[scan.offset]
          BY <1>3, <3>1
        <4>. QED  BY <3>1, <4>1, BeforeNext
      <3>. QED  BY <3>2 DEF guardVars, Before, GenesisTip, GenesisHash
    <2>4. ScanFollows'
      BY <2>1, <2>3 DEF Untouched, ScanFollows, guardVars, NoScan, GenesisTip, GenesisHash
    <2>. QED  BY <2>1, <2>2, <2>4 DEF Untouched, guardVars
  <1>. QED  BY <1>4, <1>5 DEF GuardInv

(* The steps of a check.  They leave the store alone.                      *)
LEMMA StoreKept ==
    ASSUME UNCHANGED vars
    PROVE  /\ (TypeOK => TypeOK') /\ (CallsOK => CallsOK') /\ (FreshInv => FreshInv')
           /\ (ChainInv => ChainInv') /\ UNCHANGED ledger
  <1>1. (TypeOK => TypeOK') /\ UNCHANGED ledger
    BY DEF vars, TypeOK
  <1>2. CallsOK => CallsOK'
    BY DEF vars, CallsOK, CallOK
  <1>3. FreshInv => FreshInv'
    BY DEF vars, FreshInv, ReadsFresh, Owns, OwnsTo
  <1>4. ChainInv => ChainInv'
    BY DEF vars, ChainInv, SeqOK, ChainValid, TipOK
  <1>. QED  BY <1>1, <1>2, <1>3, <1>4

LEMMA CheckSteps ==
    ASSUME GuardInv, StartCheck \/ ReadBatch \/ CheckFails
    PROVE  GuardInv'
  <1>1. BaseInv /\ (tampers = 0 => Untouched)
    BY DEF GuardInv
  <1>2. UNCHANGED vars /\ UNCHANGED <<altered, tampers>>
    BY DEF StartCheck, ReadBatch, CheckFails
  <1>3. /\ TypeOK' /\ CallsOK' /\ FreshInv' /\ UNCHANGED ledger
        /\ ChainInv => ChainInv'
    BY <1>1, <1>2, StoreKept DEF BaseInv
  <1>4. NoScan \in [offset : Int, prev : Tip] /\ GenesisTip \in Tip /\ Len(ledger) \in Nat
    BY <1>1 DEF NoScan, GenesisTip, GenesisHash, Tip, Hash, BaseInv, TypeOK
  <1>5. failures' \in 0..MaxFailures
    BY <1>1, GuardAssumption DEF StartCheck, ReadBatch, CheckFails, BaseInv
  <1>6. NoScan' = NoScan
    BY DEF NoScan, GenesisTip, GenesisHash
  <1>7. ASSUME ScanType', healthy' \in BOOLEAN, tampers = 0 => ScanFollows' /\ healthy'
        PROVE  GuardInv'
    BY <1>1, <1>2, <1>3, <1>5, <1>7 DEF GuardInv, BaseInv, Untouched
  <1>8. CASE scan' = NoScan
    <2>1. ScanType' /\ ScanFollows'
      BY <1>4, <1>6, <1>8 DEF ScanType, ScanFollows
    <2>2. healthy' \in BOOLEAN
      BY <1>1 DEF StartCheck, ReadBatch, CheckFails, BaseInv
    <2>3. ASSUME tampers = 0  PROVE healthy'
      <3>1. healthy /\ ChainInv /\ ScanFollows
        BY <1>1, <2>3 DEF Untouched
      <3>2. Scanning => Continues(scan.prev, Batch)
        BY <1>1, <3>1, BatchContinues
      <3>. QED  BY <3>1, <3>2 DEF StartCheck, ReadBatch, CheckFails
    <2>. QED  BY <1>7, <2>1, <2>2, <2>3
  <1>9. CASE StartCheck
    <2>1. scan' = [offset |-> 0, prev |-> GenesisTip] /\ UNCHANGED healthy
      BY <1>9 DEF StartCheck
    <2>2. ScanType'
      BY <1>3, <1>4, <2>1 DEF ScanType
    <2>3. ScanFollows'
      BY <1>4, <2>1, BeforeNext DEF ScanFollows, Before, GenesisTip, GenesisHash
    <2>. QED  BY <1>1, <1>7, <2>1, <2>2, <2>3 DEF BaseInv, Untouched
  <1>10. CASE scan' # NoScan /\ ReadBatch
    <2>1. /\ scan' = [offset |-> NextOffset, prev |-> TipOf(Batch)] /\ UNCHANGED healthy
          /\ Scanning /\ Batch # << >>
      BY <1>10 DEF ReadBatch
    <2>2. NextOffset \in 0..Len(ledger) /\ TipOf(Batch) \in Tip
      BY <1>1, <2>1, BatchFacts, TipType DEF NextOffset
    <2>3. ScanType'
      BY <1>3, <1>4, <2>1, <2>2 DEF ScanType
    <2>4. ASSUME tampers = 0  PROVE ScanFollows' /\ healthy'
      <3>1. healthy /\ ChainInv /\ ScanFollows
        BY <1>1, <2>4 DEF Untouched
      <3>2. TipOf(Batch) = Before(ledger, NextOffset + 1)
        BY <1>1, <2>1, <3>1, BatchContinues
      <3>3. scan'.prev = Before(ledger', scan'.offset + 1)
        BY <1>3, <2>1, <3>2
      <3>. QED  BY <2>1, <3>1, <3>3 DEF ScanFollows, Before, GenesisTip, GenesisHash
    <2>. QED  BY <1>1, <1>7, <2>1, <2>3, <2>4 DEF BaseInv
  <1>. QED  BY <1>8, <1>9, <1>10 DEF StartCheck, ReadBatch, CheckFails

(* A block changed from outside is a block still.                          *)
LEMMA AmountChanged ==
    ASSUME TypeOK, NEW i \in DOMAIN ledger, NEW n \in Int,
           ledger' = [ledger EXCEPT ![i].content.amount = n]
    PROVE  ledger' \in Seq(Entry) /\ Len(ledger') = Len(ledger) /\ DOMAIN ledger' = DOMAIN ledger
  <1>1. ledger \in Seq(Entry) /\ ledger[i] \in Entry
    BY DEF TypeOK
  <1>. DEFINE e == [ledger[i] EXCEPT !.content.amount = n]
  <1>2. e \in Entry
    <2>1. [ledger[i].content EXCEPT !.amount = n] \in Content
      BY <1>1 DEF Entry, Content
    <2>. QED  BY <1>1, <2>1 DEF Entry
  <1>3. ledger' = [ledger EXCEPT ![i] = e]
    OBVIOUS
  <1>. HIDE DEF e
  <1>. QED  BY <1>1, <1>2, <1>3

LEMMA TamperSteps ==
    ASSUME GuardInv, (\E i \in DOMAIN ledger : Tamper(i)) \/ (\E i \in altered : Repair(i))
    PROVE  GuardInv'
  <1>1. BaseInv /\ (tampers = 0 => Untouched)
    BY DEF GuardInv
  <1>2. PICK i \in DOMAIN ledger : Tamper(i) \/ (i \in altered /\ Repair(i))
    <2>1. altered \subseteq DOMAIN ledger
      BY <1>1 DEF BaseInv
    <2>. QED  BY <2>1, Zenon
  <1>3. ledger[i].content.amount \in Int
    <2>1. ledger \in Seq(Entry)
      BY <1>1 DEF BaseInv, TypeOK
    <2>2. ledger[i] \in Entry
      BY <2>1
    <2>. QED  BY <2>2 DEF Entry, Content
  <1>4. \E n \in Int : ledger' = [ledger EXCEPT ![i].content.amount = n]
    <2>. DEFINE n == ledger[i].content.amount
    <2>1. n + 1 \in Int /\ n - 1 \in Int
      BY <1>3
    <2>2. \/ ledger' = [ledger EXCEPT ![i].content.amount = n + 1]
          \/ ledger' = [ledger EXCEPT ![i].content.amount = n - 1]
      BY <1>2, Zenon DEF Tamper, Repair
    <2>. QED  BY <2>1, <2>2, Zenon
  <1>5. /\ ledger' \in Seq(Entry) /\ Len(ledger') = Len(ledger)
        /\ DOMAIN ledger' = DOMAIN ledger
    BY <1>1, <1>4, AmountChanged DEF BaseInv
  <1>6. UNCHANGED <<wallet, txs, reqs, lock, pc, call, snap, toSnap, tip, started,
                    healthy, scan, failures>>
    BY <1>2 DEF Tamper, Repair
  <1>7. TypeOK' /\ CallsOK' /\ FreshInv'
    <2>1. TypeOK'
      BY <1>1, <1>5, <1>6 DEF BaseInv, TypeOK
    <2>2. CallsOK'
      BY <1>1, <1>6 DEF BaseInv, CallsOK, CallOK
    <2>3. FreshInv'
      BY <1>1, <1>6 DEF BaseInv, FreshInv, ReadsFresh, Owns, OwnsTo
    <2>. QED  BY <2>1, <2>2, <2>3
  <1>8. ScanType' /\ altered' \subseteq DOMAIN ledger'
    <2>1. ScanType'
      BY <1>1, <1>5, <1>6 DEF BaseInv, ScanType, NoScan, GenesisTip, GenesisHash
    <2>2. altered' \subseteq altered \cup {i}
      BY <1>2 DEF Tamper, Repair
    <2>. QED  BY <1>1, <1>5, <2>1, <2>2 DEF BaseInv
  <1>9. tampers' \in 0..MaxTampers /\ tampers' # 0
    <2>1. tampers \in 0..MaxTampers
      BY <1>1 DEF BaseInv
    <2>2. CASE Tamper(i)
      BY <2>1, <2>2, GuardAssumption DEF Tamper
    <2>3. CASE i \in altered /\ Repair(i)
      BY <1>1, <2>1, <2>3 DEF Untouched, Repair
    <2>. QED  BY <1>2, <2>2, <2>3
  <1>. QED  BY <1>1, <1>6, <1>7, <1>8, <1>9 DEF GuardInv, BaseInv

LEMMA GuardInvStep == GuardInv /\ [GuardNext]_allVars => GuardInv'
  <1>. SUFFICES ASSUME GuardInv, [GuardNext]_allVars  PROVE GuardInv'
    OBVIOUS
  <1>1. CASE [Next]_vars /\ UNCHANGED guardVars
    BY <1>1, StoreBeside
  <1>. QED  BY <1>1, CheckSteps, TamperSteps DEF GuardNext, GuardStep, allVars

LEMMA GuardInvariant == GuardSpec => []GuardInv
BY GuardStart, GuardInvStep, PTL DEF GuardSpec

-----------------------------------------------------------------------------
(* The state of chainguard has its type, and a check in progress has read  *)
(* a part of the chain that exists, whatever is appended or changed.       *)
THEOREM GuardTypeCorrect == GuardSpec => []GuardTypeOK
  <1>1. ASSUME GuardInv  PROVE GuardTypeOK
    <2>1. scan = NoScan => scan.offset = -1
      BY DEF NoScan
    <2>2. scan.offset \in -1..Len(ledger) /\ scan.prev \in Tip
      BY <1>1, <2>1 DEF GuardInv, BaseInv, ScanType, TypeOK
    <2>. QED  BY <1>1, <2>2 DEF GuardInv, BaseInv, GuardTypeOK
  <1>. QED  BY <1>1, GuardInvariant, PTL

(* Guard.checkOnce raises no false alarm: as long as nobody changes a      *)
(* block from outside, no interleaving of batches and commits makes it     *)
(* report a broken chain.                                                  *)
THEOREM NoAlarmWithoutTampering == GuardSpec => []NoFalseAlarm
  <1>1. GuardInv => NoFalseAlarm
    BY DEF GuardInv, Untouched, NoFalseAlarm
  <1>. QED  BY <1>1, GuardInvariant, PTL

===========================================================================
