----------------------------- MODULE ChainGuard -----------------------------
(***************************************************************************)
(* botpay/internal/chainguard beside the wallet store: a goroutine that    *)
(* runs Store.VerifyChain every 30 seconds while the sessions of           *)
(* WalletStore commit, and raises an alarm when the chain is broken.       *)
(*                                                                         *)
(* VerifyChain is not one statement: it reads the blocks in batches, each  *)
(* with a SELECT of its own, and carries the place and the last hash from  *)
(* one to the next.  Between two batches blocks are appended, and someone  *)
(* with access to the database may change one.                             *)
(***************************************************************************)
EXTENDS WalletStore

CONSTANTS
    BatchSize,     \* VerifyChain's batchSize
    MaxTampers,    \* bound: changes made to blocks from outside, and undone
    MaxFailures    \* bound: batches whose SELECT fails

ASSUME GuardAssumption ==
    BatchSize \in Nat \ {0} /\ MaxTampers \in Nat /\ MaxFailures \in Nat

VARIABLES
    healthy,   \* Guard.healthy; an alarm is published and sent whenever a
               \* check sets it to FALSE
    scan,      \* the check in progress: blocks read, the last of them
    altered,   \* numbers of the blocks whose content was changed from outside
    tampers, failures

guardVars == <<healthy, scan, altered, tampers, failures>>
allVars == <<vars, guardVars>>

NoScan == [offset |-> -1, prev |-> GenesisTip]

Scanning == scan # NoScan

GuardInit ==
    /\ Init
    /\ healthy = TRUE /\ scan = NoScan
    /\ altered = {} /\ tampers = 0 /\ failures = 0

(* Guard.checkOnce, at the start and at every tick.                        *)
StartCheck ==
    /\ ~Scanning
    /\ scan' = [offset |-> 0, prev |-> GenesisTip]
    /\ UNCHANGED <<vars, healthy, altered, tampers, failures>>

(* ORDER BY seq LIMIT batchSize OFFSET offset.                             *)
Batch == SubSeq(ledger, scan.offset + 1,
                IF scan.offset + BatchSize < Len(ledger) THEN scan.offset + BatchSize
                ELSE Len(ledger))

\* Mutant: the recomputed hash is compared for the last block of a batch only.
ContinuesLast(prev, batch) ==
    \A i \in DOMAIN batch :
        LET before == IF i = 1 THEN prev
                      ELSE [seq |-> batch[i-1].content.seq, hash |-> batch[i-1].hash]
        IN  /\ batch[i].content.seq = before.seq + 1
            /\ batch[i].prevHash = before.hash
            /\ i = Len(batch) => batch[i].hash = ComputeHash(batch[i].content, batch[i].prevHash)

(* The three comparisons VerifyChain makes for each block of a batch.      *)
Continues(prev, batch) ==
    \A i \in DOMAIN batch :
        LET before == IF i = 1 THEN prev
                      ELSE [seq |-> batch[i-1].content.seq, hash |-> batch[i-1].hash]
        IN  /\ batch[i].content.seq = before.seq + 1
            /\ batch[i].prevHash = before.hash
            /\ batch[i].hash = ComputeHash(batch[i].content, batch[i].prevHash)

\* Mutant: the offset moves by the size asked for, not by the blocks read.
NextOffsetFull == scan.offset + BatchSize

NextOffset == scan.offset + Len(Batch)

(* The next batch: an empty one ends the check with a healthy chain, a     *)
(* block that does not fit ends it with an alarm.                          *)
ReadBatch ==
    /\ Scanning
    /\ \/ /\ Batch = << >>
          /\ healthy' = TRUE /\ scan' = NoScan
       \/ /\ Batch # << >> /\ ~Continues(scan.prev, Batch)
          /\ healthy' = FALSE /\ scan' = NoScan
       \/ /\ Batch # << >> /\ Continues(scan.prev, Batch)
          /\ scan' = [offset |-> NextOffset, prev |-> TipOf(Batch)]
          /\ UNCHANGED healthy
    /\ UNCHANGED <<vars, altered, tampers, failures>>

(* The SELECT fails: checkOnce logs and leaves healthy as it is.           *)
CheckFails ==
    /\ Scanning /\ failures < MaxFailures
    /\ scan' = NoScan
    /\ failures' = failures + 1
    /\ UNCHANGED <<vars, healthy, altered, tampers>>

(* Someone changes the amount of a block in the database ...               *)
Tamper(i) ==
    /\ tampers < MaxTampers /\ i \notin altered
    /\ ledger' = [ledger EXCEPT ![i].content.amount = @ + 1]
    /\ altered' = altered \cup {i}
    /\ tampers' = tampers + 1
    /\ UNCHANGED <<wallet, txs, reqs, lock, pc, call, snap, toSnap, tip, started,
                   healthy, scan, failures>>

(* ... and an administrator puts it right.                                 *)
Repair(i) ==
    /\ ledger' = [ledger EXCEPT ![i].content.amount = @ - 1]
    /\ altered' = altered \ {i}
    /\ UNCHANGED <<wallet, txs, reqs, lock, pc, call, snap, toSnap, tip, started,
                   healthy, scan, tampers, failures>>

GuardStep == StartCheck \/ ReadBatch

GuardNext ==
    \/ Next /\ UNCHANGED guardVars
    \/ GuardStep \/ CheckFails
    \/ \E i \in DOMAIN ledger : Tamper(i)
    \/ \E i \in altered : Repair(i)

GuardSpec == GuardInit /\ [][GuardNext]_allVars

(* The ticker and the loop of a check go on, and so do the calls.          *)
FairGuardSpec ==
    /\ GuardSpec
    /\ WF_allVars(GuardStep)
    /\ \A s \in Sessions : WF_allVars(Step(s) /\ UNCHANGED guardVars)

-----------------------------------------------------------------------------
(* Guard's state has its type, and a check in progress has read a prefix   *)
(* of the chain.                                                           *)
GuardTypeOK ==
    /\ healthy \in BOOLEAN
    /\ scan.offset \in -1..Len(ledger) /\ scan.prev \in Tip
    /\ altered \subseteq DOMAIN ledger
    /\ tampers \in 0..MaxTampers /\ failures \in 0..MaxFailures

(* No false alarm: although a check reads its batches while transactions   *)
(* commit, a chain nobody has touched is never reported as broken.         *)
NoFalseAlarm == tampers = 0 => healthy

(* chainguard's promise: a changed block is reported, unless it is put     *)
(* right before, and the guard recovers when it is.                        *)
TamperNoticed ==
    /\ altered # {} ~> ~healthy \/ altered = {}
    /\ ~healthy ~> healthy \/ altered # {}
=============================================================================
