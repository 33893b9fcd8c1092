----------------------------- MODULE Consensus -----------------------------
(***************************************************************************)
(* botpay/internal/consensus: Engine.Verify asks every worker in a         *)
(* goroutine of its own and counts their votes until all have answered or  *)
(* the timeout has passed.  A worker refuses a transaction id its own      *)
(* SQLite file already holds, and records the id with its vote.            *)
(*                                                                         *)
(* A transaction id is verified at most once per process: a deduction gets *)
(* a random id, and the watcher hands a hash over once.  After a restart   *)
(* a deposit, whose id is derived from its hash, may come again.           *)
(***************************************************************************)
EXTENDS Integers, Sequences, FiniteSets

CONSTANTS
    Txs,        \* ids of the transactions to verify
    Deposits,   \* those among them whose id survives a restart
    Value,      \* Value[t]: the amount of t
    Workers,
    Admits,     \* Admits[w]: the amounts w accepts
    Merkle,     \* the worker that chains its approvals in memory; an instance
                \* may leave it out
    Unreliable, \* the workers whose SQLite file may fail: no error is looked at
    Threshold,  \* consensus.Config.Threshold
    MaxRestarts \* bound: how often the process restarts

ASSUME ConsensusAssumption ==
    /\ Deposits \subseteq Txs
    /\ IsFiniteSet(Workers) /\ Unreliable \subseteq Workers
    /\ Value \in [Txs -> Nat] /\ Admits \in [Workers -> SUBSET Nat]
    /\ Threshold \in Nat
    /\ 2 * Threshold > Cardinality(Workers) + Cardinality(Unreliable)
    /\ MaxRestarts \in Nat

VARIABLES
    phase,      \* phase[t]: how far Engine.Verify is with t in this process
    vote,       \* vote[t][w]: the goroutine of w for t, and its answer
    skips,      \* skips[t]: answers replaced by the timeout's "no"
    expired,    \* expired[t]: the timeout of t has passed
    recorded,   \* recorded[w]: the ids in w's SQLite file
    lastHash,   \* the Merkle worker's chain, in memory
    read,       \* read[t]: the chain as the Merkle goroutine of t read it
    approvals,  \* approvals[t]: history, how often t was approved
    restarts    \* restarts so far

engineVars == <<phase, skips, expired, approvals, restarts>>
workerVars == <<vote, recorded, lastHash, read>>
consensusVars == <<engineVars, workerVars>>

Phases == {"idle", "open", "approved", "rejected"}

(* asked: not looked yet; fresh, refused: decided, not recorded yet; yes,  *)
(* no: recorded and in the channel; countedYes, countedNo: received.       *)
Votes == {"none", "asked", "fresh", "refused", "yes", "no", "countedYes", "countedNo"}

Counted(t, v) == Cardinality({w \in Workers : vote[t][w] = v})

Left(t) ==
    Cardinality(Workers) - Counted(t, "countedYes") - Counted(t, "countedNo") - skips[t]

ConsensusInit ==
    /\ phase = [t \in Txs |-> "idle"]
    /\ vote = [t \in Txs |-> [w \in Workers |-> "none"]]
    /\ skips = [t \in Txs |-> 0]
    /\ expired = [t \in Txs |-> FALSE]
    /\ recorded = [w \in Workers |-> {}]
    /\ lastHash = << >>
    /\ read = [t \in Txs |-> << >>]
    /\ approvals = [t \in Txs |-> 0]
    /\ restarts = 0

(* Engine.Verify starts: a buffered channel, one goroutine per worker.     *)
StartVerify(t) ==
    /\ phase[t] = "idle"
    /\ phase' = [phase EXCEPT ![t] = "open"]
    /\ vote' = [vote EXCEPT ![t] = [w \in Workers |-> "asked"]]
    /\ UNCHANGED <<skips, expired, recorded, lastHash, read, approvals, restarts>>

-----------------------------------------------------------------------------
\* Mutant: the record of an earlier vote is not consulted.
SeenNever(t, w) == FALSE

(* LocalDB.HasSeen.                                                        *)
Seen(t, w) == t \in recorded[w]

(* Worker.Verify up to its decision.  The workers differ in the amounts    *)
(* they accept; a look-up that fails counts as "not seen"; the Merkle      *)
(* worker now reads its chain.                                             *)
Examine(t, w) ==
    /\ vote[t][w] = "asked"
    /\ \E seen \in {Seen(t, w)} \cup (IF w \in Unreliable THEN {FALSE} ELSE {}) :
          vote' = [vote EXCEPT ![t][w] =
                      IF ~seen /\ Value[t] \in Admits[w] THEN "fresh" ELSE "refused"]
    /\ read' = IF w = Merkle THEN [read EXCEPT ![t] = lastHash] ELSE read
    /\ UNCHANGED <<engineVars, recorded, lastHash>>

\* Mutant: the vote is sent and the record is lost.
RecordNothing(t, w) ==
    /\ vote[t][w] \in {"fresh", "refused"}
    /\ vote' = [vote EXCEPT ![t][w] = IF vote[t][w] = "fresh" THEN "yes" ELSE "no"]
    /\ UNCHANGED <<engineVars, recorded, lastHash, read>>

(* The rest of Worker.Verify: an approval of the Merkle worker moves its   *)
(* chain on from what it read; every vote, a refusal too, is recorded      *)
(* under the transaction's id (SaveTxRecord, whose error is ignored) and   *)
(* then sent.                                                              *)
Record(t, w) ==
    /\ vote[t][w] \in {"fresh", "refused"}
    /\ vote' = [vote EXCEPT ![t][w] = IF vote[t][w] = "fresh" THEN "yes" ELSE "no"]
    /\ \/ recorded' = [recorded EXCEPT ![w] = @ \cup {t}]
       \/ w \in Unreliable /\ UNCHANGED recorded
    /\ lastHash' = IF w = Merkle /\ vote[t][w] = "fresh" THEN Append(read[t], t) ELSE lastHash
    /\ UNCHANGED <<engineVars, read>>

-----------------------------------------------------------------------------
(* The collecting loop of Engine.Verify: one answer per worker, from the   *)
(* channel or, once the timeout has passed, from the timeout.  When both   *)
(* are ready select takes either.                                          *)
TakeVote(t, w) ==
    /\ phase[t] = "open" /\ Left(t) > 0
    /\ vote[t][w] \in {"yes", "no"}
    /\ vote' = [vote EXCEPT ![t][w] = IF @ = "yes" THEN "countedYes" ELSE "countedNo"]
    /\ UNCHANGED <<engineVars, recorded, lastHash, read>>

Expire(t) ==
    /\ phase[t] = "open" /\ ~expired[t]
    /\ expired' = [expired EXCEPT ![t] = TRUE]
    /\ UNCHANGED <<phase, skips, approvals, restarts, workerVars>>

\* Mutant: a timer channel that delivers once instead of a context that
\* stays done.
TakeTimeoutOnce(t) ==
    /\ phase[t] = "open" /\ Left(t) > 0 /\ expired[t] /\ skips[t] = 0
    /\ skips' = [skips EXCEPT ![t] = @ + 1]
    /\ UNCHANGED <<phase, expired, approvals, restarts, workerVars>>

TakeTimeout(t) ==
    /\ phase[t] = "open" /\ Left(t) > 0 /\ expired[t]
    /\ skips' = [skips EXCEPT ![t] = @ + 1]
    /\ UNCHANGED <<phase, expired, approvals, restarts, workerVars>>

\* Mutant: the threshold must be exceeded.
EnoughStrict(t) == Counted(t, "countedYes") > Threshold

Enough(t) == Counted(t, "countedYes") >= Threshold

Decide(t) ==
    /\ phase[t] = "open" /\ Left(t) = 0
    /\ phase' = [phase EXCEPT ![t] = IF Enough(t) THEN "approved" ELSE "rejected"]
    /\ approvals' = [approvals EXCEPT ![t] = IF Enough(t) THEN @ + 1 ELSE @]
    /\ UNCHANGED <<skips, expired, restarts, workerVars>>

Collect(t) == (\E w \in Workers : TakeVote(t, w)) \/ TakeTimeout(t) \/ Decide(t)

(* The process ends and starts again: the SQLite files are what is left.   *)
(* A deduction under way gets no answer, and its random id never returns.  *)
ForgetVotes ==
    /\ restarts < MaxRestarts
    /\ restarts' = restarts + 1
    /\ phase' = [t \in Txs |->
                    CASE t \in Deposits -> "idle"
                      [] t \notin Deposits /\ phase[t] = "open" -> "rejected"
                      [] OTHER -> phase[t]]
    /\ vote' = [t \in Txs |-> [w \in Workers |-> "none"]]
    /\ skips' = [t \in Txs |-> 0]
    /\ expired' = [t \in Txs |-> FALSE]
    /\ lastHash' = << >>
    /\ read' = [t \in Txs |-> << >>]
    /\ UNCHANGED <<recorded, approvals>>

Next ==
    \/ \E t \in Txs : StartVerify(t) \/ Expire(t) \/ Collect(t)
    \/ \E t \in Txs, w \in Workers : Examine(t, w) \/ Record(t, w)
    \/ ForgetVotes

Spec == ConsensusInit /\ [][Next]_consensusVars

(* The engine's loop runs and its timer fires.  Nothing is owed by the     *)
(* workers: the answer may not depend on them.                             *)
FairSpec ==
    /\ Spec
    /\ \A t \in Txs : WF_consensusVars(Collect(t)) /\ WF_consensusVars(Expire(t))

-----------------------------------------------------------------------------
TypeOK ==
    /\ phase \in [Txs -> Phases]
    /\ vote \in [Txs -> [Workers -> Votes]]
    /\ skips \in [Txs -> Nat]
    /\ expired \in [Txs -> BOOLEAN]
    /\ recorded \in [Workers -> SUBSET Txs]
    /\ lastHash \in Seq(Txs)
    /\ read \in [Txs -> Seq(Txs)]
    /\ approvals \in [Txs -> Nat]
    /\ restarts \in Nat

(* Replay protection: one id is approved at most once, across timeouts,    *)
(* late votes, restarts in the middle of a vote and failing SQLite files.  *)
(* Any two approvals have a reliable worker in common, and a reliable      *)
(* worker says yes once in its life.                                       *)
ApprovedOnce == \A t \in Txs : approvals[t] <= 1

(* The workers that can no longer say yes to t.                            *)
Spent(t) == {w \in Workers : t \in recorded[w]}

(* An approval is on disk: when the engine approves, so many workers hold  *)
(* the id that those who do not are too few to approve it again, and a     *)
(* crash right after the approval cannot let the id in.                    *)
ApprovalRemembered ==
    \A t \in Txs : phase[t] = "approved" \/ approvals[t] > 0 =>
        Cardinality(Spent(t)) >= Threshold - Cardinality(Unreliable)

(* Engine.Verify answers although a worker may hang: the timeout stands in *)
(* for every missing vote.                                                 *)
VerifyEnds == \A t \in Txs : phase[t] = "open" ~> phase[t] # "open"

(* MerkleWorker.Verify's comment: verification is serial in this worker,   *)
(* so no approval is missing from its chain.                               *)
MerkleChainComplete ==
    \A t \in Txs : vote[t][Merkle] \in {"yes", "countedYes"} =>
        \E i \in DOMAIN lastHash : lastHash[i] = t
=============================================================================
