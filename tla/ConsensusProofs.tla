-------------------------- MODULE ConsensusProofs --------------------------
(***************************************************************************)
(* Proofs about Consensus, for any workers, transactions and thresholds    *)
(* that ConsensusAssumption admits and any number of restarts: an id is    *)
(* approved at most once, and an approval is on disk.                      *)
(*                                                                         *)
(* ApprovedOnce is not inductive: after a restart nothing in memory says   *)
(* that t was approved.  What keeps a second approval away is on disk, the *)
(* workers barred from saying yes, so the proof counts those.              *)
(***************************************************************************)
EXTENDS Consensus, TLAPS, FiniteSetTheorems

Reliable == Workers \ Unreliable

YesLike == {"fresh", "yes", "countedYes"}

(* Reliable workers that hold t and have no yes for it under way.  Once t  *)
(* is approved in this process, their yes votes have had their effect.     *)
Barred(t) ==
    {w \in Reliable : t \in recorded[w] /\ (phase[t] = "approved" \/ vote[t][w] \notin YesLike)}

(* A vote that was sent by a reliable worker is in its file.               *)
SentIsRecorded ==
    \A t \in Txs : \A w \in Reliable :
        vote[t][w] \in {"yes", "no", "countedYes", "countedNo"} => t \in recorded[w]

(* So many reliable workers are barred that the others cannot approve.     *)
ApprovalBars ==
    \A t \in Txs : approvals[t] > 0 =>
        approvals[t] = 1 /\ Cardinality(Barred(t)) >= Threshold - Cardinality(Unreliable)

ApprovedCounts == \A t \in Txs : phase[t] = "approved" => approvals[t] > 0

ConsensusInv == TypeOK /\ SentIsRecorded /\ ApprovedCounts /\ ApprovalBars

-----------------------------------------------------------------------------
(* Cardinalities of sets of workers.                                       *)

LEMMA WorkersFinite ==
    ASSUME NEW S \in SUBSET Workers
    PROVE  IsFiniteSet(S) /\ Cardinality(S) \in Nat /\ Cardinality(S) <= Cardinality(Workers)
BY ConsensusAssumption, FS_Subset, FS_CardinalityType

LEMMA Grows ==
    ASSUME NEW S \in SUBSET Workers, NEW T \in SUBSET Workers, S \subseteq T
    PROVE  Cardinality(S) <= Cardinality(T)
BY WorkersFinite, FS_Subset

(* At most |Unreliable| of a set of workers are unreliable.                *)
LEMMA ReliablePart ==
    ASSUME NEW S \in SUBSET Workers
    PROVE  Cardinality(S \ Unreliable) >= Cardinality(S) - Cardinality(Unreliable)
<1>1. Unreliable \in SUBSET Workers /\ S \cap Unreliable \in SUBSET Workers
  BY ConsensusAssumption
<1>2. Cardinality(S \ Unreliable) = Cardinality(S) - Cardinality(S \cap Unreliable)
  BY WorkersFinite, FS_Difference
<1>3. Cardinality(S \cap Unreliable) <= Cardinality(Unreliable)
  BY <1>1, Grows
<1>. QED  BY <1>1, <1>2, <1>3, WorkersFinite

(* Threshold workers and the reliable workers behind an earlier approval   *)
(* are too many to be different workers: the quorums intersect.            *)
LEMMA QuorumsMeet ==
    ASSUME NEW Q \in SUBSET Workers, NEW B \in SUBSET Workers,
           Cardinality(Q) >= Threshold,
           Cardinality(B) >= Threshold - Cardinality(Unreliable)
    PROVE  Q \cap B # {}
<1>1. Cardinality(Q) \in Nat /\ Cardinality(B) \in Nat
      /\ Cardinality(Workers) \in Nat /\ Cardinality(Unreliable) \in Nat
  BY WorkersFinite, ConsensusAssumption
<1>2. Cardinality(Q) + Cardinality(B) > Cardinality(Workers)
  BY <1>1, ConsensusAssumption
<1>. QED  BY <1>2, FS_MajoritiesIntersect, ConsensusAssumption

-----------------------------------------------------------------------------
LEMMA InitEstablishes == ConsensusInit => ConsensusInv
BY ConsensusAssumption DEF ConsensusInit, ConsensusInv, TypeOK, SentIsRecorded, ApprovedCounts,
    ApprovalBars, Phases, Votes, Reliable

(* The type invariant is inductive by itself.                              *)
LEMMA TypeStep == TypeOK /\ [Next]_consensusVars => TypeOK'
<1>. SUFFICES ASSUME TypeOK, [Next]_consensusVars  PROVE TypeOK'
  OBVIOUS
<1>. USE DEF TypeOK, Phases, Votes
<1>1. ASSUME NEW t \in Txs, StartVerify(t)  PROVE TypeOK'
  BY <1>1 DEF StartVerify
<1>2. ASSUME NEW t \in Txs, Expire(t)  PROVE TypeOK'
  BY <1>2 DEF Expire, workerVars
<1>3. ASSUME NEW t \in Txs, NEW w \in Workers, TakeVote(t, w)  PROVE TypeOK'
  BY <1>3 DEF TakeVote, engineVars
<1>4. ASSUME NEW t \in Txs, TakeTimeout(t)  PROVE TypeOK'
  BY <1>4 DEF TakeTimeout, workerVars
<1>5. ASSUME NEW t \in Txs, Decide(t)  PROVE TypeOK'
  BY <1>5 DEF Decide, workerVars
<1>6. ASSUME NEW t \in Txs, NEW w \in Workers, Examine(t, w)  PROVE TypeOK'
  BY <1>6 DEF Examine, engineVars
<1>7. ASSUME NEW t \in Txs, NEW w \in Workers, Record(t, w)  PROVE TypeOK'
  <2>1. Append(read[t], t) \in Seq(Txs)
    BY <1>7
  <2>2. lastHash' \in Seq(Txs)
    BY <2>1, <1>7 DEF Record
  <2>3. vote' \in [Txs -> [Workers -> Votes]]
    BY <1>7 DEF Record
  <2>4. recorded' = [recorded EXCEPT ![w] = @ \cup {t}] \/ recorded' = recorded
    BY <1>7 DEF Record
  <2>5. [recorded EXCEPT ![w] = @ \cup {t}] \in [Workers -> SUBSET Txs]
    BY <1>7
  <2>. QED  BY <2>2, <2>3, <2>4, <2>5, <1>7 DEF Record, engineVars
<1>8. ASSUME ForgetVotes  PROVE TypeOK'
  BY <1>8, ConsensusAssumption DEF ForgetVotes
<1>9. CASE UNCHANGED consensusVars
  BY <1>9 DEF consensusVars, engineVars, workerVars
<1>. QED  BY <1>1, <1>2, <1>3, <1>4, <1>5, <1>6, <1>7, <1>8, <1>9 DEF Next, Collect

-----------------------------------------------------------------------------
(* What a step does to the barred workers of t: as long as the phase of t  *)
(* does not leave "approved" with its votes in place, none is lost.        *)
LEMMA BarredKept ==
    ASSUME NEW t \in Txs, Barred(t) \subseteq Barred(t)', approvals[t]' = approvals[t],
           ApprovalBars, approvals[t] \in Nat
    PROVE  approvals'[t] > 0 =>
              approvals'[t] = 1 /\ Cardinality(Barred(t)') >= Threshold - Cardinality(Unreliable)
<1>1. Barred(t) \in SUBSET Workers /\ Barred(t)' \in SUBSET Workers /\ Unreliable \in SUBSET Workers
  BY ConsensusAssumption DEF Barred, Reliable
<1>2. Cardinality(Barred(t)) <= Cardinality(Barred(t)')
  BY <1>1, Grows
<1>. QED  BY <1>1, <1>2, WorkersFinite, ConsensusAssumption DEF ApprovalBars

LEMMA InvStep == ConsensusInv /\ [Next]_consensusVars => ConsensusInv'
<1>. SUFFICES ASSUME ConsensusInv, [Next]_consensusVars  PROVE ConsensusInv'
  OBVIOUS
<1>. TypeOK /\ TypeOK' /\ SentIsRecorded /\ ApprovedCounts /\ ApprovalBars
  BY TypeStep DEF ConsensusInv
<1>. SUFFICES ASSUME NEW x \in Txs
     PROVE  /\ \A v \in Reliable :
                  vote'[x][v] \in {"yes", "no", "countedYes", "countedNo"} => x \in recorded'[v]
            /\ phase'[x] = "approved" => approvals'[x] > 0
            /\ approvals'[x] > 0 =>
                  approvals'[x] = 1
                  /\ Cardinality(Barred(x)') >= Threshold - Cardinality(Unreliable)
  BY DEF ConsensusInv, SentIsRecorded, ApprovedCounts, ApprovalBars
<1>. DEFINE Goal == /\ \A v \in Reliable :
                          vote'[x][v] \in {"yes", "no", "countedYes", "countedNo"} => x \in recorded'[v]
                    /\ phase'[x] = "approved" => approvals'[x] > 0
                    /\ approvals'[x] = approvals[x] /\ Barred(x) \subseteq Barred(x)'
<1>0. ASSUME Goal
      PROVE  /\ \A v \in Reliable :
                  vote'[x][v] \in {"yes", "no", "countedYes", "countedNo"} => x \in recorded'[v]
             /\ phase'[x] = "approved" => approvals'[x] > 0
             /\ approvals'[x] > 0 =>
                  approvals'[x] = 1
                  /\ Cardinality(Barred(x)') >= Threshold - Cardinality(Unreliable)
  BY <1>0, BarredKept DEF TypeOK
<1>. USE DEF SentIsRecorded, ApprovedCounts, Reliable, YesLike
<1>1. ASSUME NEW t \in Txs, StartVerify(t)  PROVE Goal
  BY <1>1 DEF Barred, StartVerify, TypeOK
<1>2. ASSUME NEW t \in Txs, Expire(t) \/ TakeTimeout(t)  PROVE Goal
  BY <1>2 DEF Barred, Expire, TakeTimeout, workerVars
<1>3. ASSUME NEW t \in Txs, NEW w \in Workers, TakeVote(t, w)  PROVE Goal
  BY <1>3 DEF Barred, TakeVote, engineVars, TypeOK
<1>4. ASSUME NEW t \in Txs, NEW w \in Workers, Examine(t, w)  PROVE Goal
  <2>1. PICK seen \in {Seen(t, w)} \cup (IF w \in Unreliable THEN {FALSE} ELSE {}) :
            vote' = [vote EXCEPT ![t][w] =
                        IF ~seen /\ Value[t] \in Admits[w] THEN "fresh" ELSE "refused"]
    BY <1>4 DEF Examine
  <2>2. ASSUME w \in Reliable, t \in recorded[w]  PROVE vote'[t][w] = "refused"
    <3>1. seen
      BY <2>1, <2>2, Zenon DEF Seen, Reliable
    <3>. QED  BY <2>1, <3>1 DEF TypeOK
  <2>3. vote'[t][w] \in {"fresh", "refused"} /\ vote[t][w] = "asked"
    BY <2>1, <1>4 DEF Examine, TypeOK
  <2>4. \A y \in Txs, v \in Workers : y # t \/ v # w => vote'[y][v] = vote[y][v]
    BY <2>1 DEF TypeOK
  <2>5. UNCHANGED <<phase, recorded, approvals>>
    BY <1>4 DEF Examine, engineVars
  <2>. QED  BY <2>2, <2>3, <2>4, <2>5 DEF Barred
<1>5. ASSUME NEW t \in Txs, NEW w \in Workers, Record(t, w)  PROVE Goal
  BY <1>5 DEF Barred, Record, engineVars, TypeOK
<1>6. ASSUME ForgetVotes  PROVE Goal
  BY <1>6 DEF Barred, ForgetVotes, TypeOK
<1>7. CASE UNCHANGED consensusVars
  BY <1>0, <1>7 DEF Barred, consensusVars, engineVars, workerVars
<1>8. ASSUME NEW t \in Txs, Decide(t)
      PROVE  /\ \A v \in Reliable :
                  vote'[x][v] \in {"yes", "no", "countedYes", "countedNo"} => x \in recorded'[v]
             /\ phase'[x] = "approved" => approvals'[x] > 0
             /\ approvals'[x] > 0 =>
                  approvals'[x] = 1
                  /\ Cardinality(Barred(x)') >= Threshold - Cardinality(Unreliable)
  <2>. DEFINE Yes == {w \in Workers : vote[t][w] = "countedYes"}
  <2>1. CASE ~(t = x /\ Enough(t))
    <3>1. Goal
      BY <2>1, <1>8 DEF Barred, Decide, workerVars, TypeOK
    <3>. QED  BY <3>1, <1>0
  <2>2. CASE t = x /\ Enough(t)
    <3>1. Yes \in SUBSET Workers /\ Cardinality(Yes) >= Threshold
      BY <2>2 DEF Enough, Counted
    <3>2. Barred(x) \in SUBSET Workers /\ Yes \cap Barred(x) = {}
      BY <2>2, <1>8 DEF Barred, Decide
    <3>3. ~ (Cardinality(Barred(x)) >= Threshold - Cardinality(Unreliable))
      BY <3>1, <3>2, QuorumsMeet
    <3>4. approvals[x] = 0
      BY <3>3 DEF ApprovalBars, TypeOK
    <3>5. phase'[x] = "approved" /\ approvals'[x] = 1 /\ vote' = vote /\ recorded' = recorded
      BY <3>4, <2>2, <1>8 DEF Decide, workerVars, TypeOK
    <3>6. Yes \ Unreliable \subseteq Barred(x)'
      BY <3>5, <2>2 DEF Barred
    <3>7. Barred(x)' \in SUBSET Workers /\ Unreliable \in SUBSET Workers
      BY ConsensusAssumption DEF Barred
    <3>8. Cardinality(Yes \ Unreliable) >= Cardinality(Yes) - Cardinality(Unreliable)
      BY <3>1, ReliablePart
    <3>9. Cardinality(Yes \ Unreliable) <= Cardinality(Barred(x)')
      BY <3>1, <3>6, <3>7, Grows
    <3>10. Cardinality(Barred(x)') >= Threshold - Cardinality(Unreliable)
      BY <3>1, <3>7, <3>8, <3>9, WorkersFinite, ConsensusAssumption
    <3>. QED  BY <3>5, <3>10
  <2>. QED  BY <2>1, <2>2
<1>. QED  BY <1>0, <1>1, <1>2, <1>3, <1>4, <1>5, <1>6, <1>7, <1>8 DEF Next, Collect

-----------------------------------------------------------------------------
LEMMA Invariance == Spec => []ConsensusInv
BY InitEstablishes, InvStep, PTL DEF Spec

(* Consensus keeps its type: votes, phases and files are what the engine   *)
(* and the workers write, through any number of restarts.                  *)
THEOREM ConsensusTypeCorrect == Spec => []TypeOK
<1>1. ConsensusInv => TypeOK
  BY DEF ConsensusInv
<1>. QED  BY <1>1, Invariance, PTL

(* Replay protection of Engine.Verify and the workers' SQLite files: no id *)
(* is approved twice, whatever restarts, timeouts and failing files of the *)
(* unreliable workers do.                                                  *)
THEOREM ApprovedAtMostOnce == Spec => []ApprovedOnce
<1>1. ASSUME ConsensusInv, NEW t \in Txs  PROVE approvals[t] <= 1
  <2>1. approvals[t] \in Nat /\ (approvals[t] > 0 => approvals[t] = 1)
    BY <1>1 DEF ConsensusInv, ApprovalBars, TypeOK
  <2>. QED  BY <2>1
<1>2. ConsensusInv => ApprovedOnce
  BY <1>1 DEF ApprovedOnce
<1>. QED  BY <1>2, Invariance, PTL

(* An approval is on disk before the engine announces it, in the files of  *)
(* so many workers that the others cannot approve the id again.            *)
THEOREM ApprovalIsRemembered == Spec => []ApprovalRemembered
<1>1. ASSUME ConsensusInv, NEW t \in Txs, phase[t] = "approved" \/ approvals[t] > 0
      PROVE  Cardinality(Spent(t)) >= Threshold - Cardinality(Unreliable)
  <2>1. Cardinality(Barred(t)) >= Threshold - Cardinality(Unreliable)
    BY <1>1 DEF ConsensusInv, ApprovedCounts, ApprovalBars
  <2>2. Barred(t) \in SUBSET Workers /\ Spent(t) \in SUBSET Workers /\ Barred(t) \subseteq Spent(t)
        /\ Unreliable \in SUBSET Workers
    BY ConsensusAssumption DEF Barred, Reliable, Spent
  <2>3. Cardinality(Barred(t)) <= Cardinality(Spent(t))
    BY <2>2, Grows
  <2>. QED  BY <2>1, <2>2, <2>3, WorkersFinite, ConsensusAssumption
<1>2. ConsensusInv => ApprovalRemembered
  BY <1>1 DEF ApprovalRemembered
<1>. QED  BY <1>2, Invariance, PTL


-----------------------------------------------------------------------------
(* The Merkle worker's chain.  The worker reads the end of its chain and   *)
(* writes the next one in two steps, and the engine may verify several     *)
(* transactions at a time.                                                 *)

InMerkle(t) == vote[t][Merkle] \in {"fresh", "refused"}

SerialMerkle == \A t, u \in Txs : InMerkle(t) /\ InMerkle(u) => t = u

(* What an approval will append to is the chain.                           *)
ReadIsChain == \A t \in Txs : vote[t][Merkle] = "fresh" => read[t] = lastHash

ChainHas(t) == \E i \in DOMAIN lastHash : lastHash[i] = t

LEMMA MerkleStep ==
    ASSUME Merkle \in Workers, TypeOK, SerialMerkle, ReadIsChain, MerkleChainComplete,
           [Next]_consensusVars
    PROVE  ReadIsChain' /\ MerkleChainComplete'
  <1>. DEFINE OK(t) == /\ vote'[t][Merkle] = "fresh" => read'[t] = lastHash'
                       /\ vote'[t][Merkle] \in {"yes", "countedYes"} => ChainHas(t)'
  <1>0. /\ vote \in [Txs -> [Workers -> Votes]] /\ lastHash \in Seq(Txs)
        /\ read \in [Txs -> Seq(Txs)]
    BY DEF TypeOK
  <1>1. SUFFICES ASSUME NEW u \in Txs  PROVE OK(u)
    BY DEF ReadIsChain, MerkleChainComplete, ChainHas
  <1>2. /\ vote[u][Merkle] = "fresh" => read[u] = lastHash
        /\ vote[u][Merkle] \in {"yes", "countedYes"} => ChainHas(u)
    BY DEF ReadIsChain, MerkleChainComplete, ChainHas
  <1>3. ASSUME vote'[u][Merkle] = vote[u][Merkle], read'[u] = read[u], lastHash' = lastHash
        PROVE  OK(u)
    BY <1>2, <1>3 DEF ChainHas
  <1>4. ASSUME NEW t \in Txs, StartVerify(t)  PROVE OK(u)
    <2>1. UNCHANGED <<read, lastHash>> /\ vote' = [vote EXCEPT ![t] = [w \in Workers |-> "asked"]]
      BY <1>4 DEF StartVerify
    <2>2. u = t => vote'[u][Merkle] = "asked"
      BY <1>0, <2>1
    <2>3. u # t => vote'[u][Merkle] = vote[u][Merkle]
      BY <1>0, <2>1
    <2>. QED  BY <1>3, <2>1, <2>2, <2>3
  <1>5. ASSUME NEW t \in Txs, Expire(t) \/ TakeTimeout(t) \/ Decide(t)  PROVE OK(u)
    BY <1>3, <1>5 DEF Expire, TakeTimeout, Decide, workerVars
  <1>6. ASSUME NEW t \in Txs, NEW w \in Workers, TakeVote(t, w)  PROVE OK(u)
    <2>1. /\ UNCHANGED <<read, lastHash>> /\ vote[t][w] \in {"yes", "no"}
          /\ vote' = [vote EXCEPT ![t][w] = IF @ = "yes" THEN "countedYes" ELSE "countedNo"]
      BY <1>6 DEF TakeVote
    <2>2. CASE u = t /\ w = Merkle
      <3>1. vote'[u][Merkle] = IF vote[u][Merkle] = "yes" THEN "countedYes" ELSE "countedNo"
        BY <1>0, <2>1, <2>2
      <3>. QED  BY <1>2, <2>1, <3>1 DEF ChainHas
    <2>3. CASE u # t \/ w # Merkle
      <3>1. vote'[u][Merkle] = vote[u][Merkle]
        BY <1>0, <2>1, <2>3
      <3>. QED  BY <1>3, <2>1, <3>1
    <2>. QED  BY <2>2, <2>3
  <1>7. ASSUME NEW t \in Txs, NEW w \in Workers, Examine(t, w)  PROVE OK(u)
    <2>1. /\ lastHash' = lastHash
          /\ read' = IF w = Merkle THEN [read EXCEPT ![t] = lastHash] ELSE read
      BY <1>7 DEF Examine
    <2>2. PICK v \in {"fresh", "refused"} : vote' = [vote EXCEPT ![t][w] = v]
      BY <1>7 DEF Examine
    <2>3. CASE u = t /\ w = Merkle
      <3>1. vote'[u][Merkle] = v /\ read'[u] = lastHash
        BY <1>0, <2>1, <2>2, <2>3
      <3>. QED  BY <2>1, <2>2, <3>1
    <2>4. CASE u # t \/ w # Merkle
      <3>1. vote'[u][Merkle] = vote[u][Merkle]
        BY <1>0, <2>2, <2>4
      <3>2. read'[u] = read[u]
        BY <1>0, <2>1, <2>4
      <3>. QED  BY <1>3, <2>1, <3>1, <3>2
    <2>. QED  BY <2>3, <2>4
  <1>8. ASSUME NEW t \in Txs, NEW w \in Workers, Record(t, w)  PROVE OK(u)
    <2>1. /\ vote[t][w] \in {"fresh", "refused"} /\ read' = read
          /\ vote' = [vote EXCEPT ![t][w] = IF vote[t][w] = "fresh" THEN "yes" ELSE "no"]
          /\ lastHash' = IF w = Merkle /\ vote[t][w] = "fresh" THEN Append(read[t], t) ELSE lastHash
      BY <1>8 DEF Record
    <2>2. CASE w = Merkle /\ vote[t][w] = "fresh"
      <3>1. lastHash' = Append(lastHash, t)
        BY <2>1, <2>2 DEF ReadIsChain
      <3>2. /\ \A i \in DOMAIN lastHash : i \in DOMAIN lastHash' /\ lastHash'[i] = lastHash[i]
            /\ Len(lastHash) + 1 \in DOMAIN lastHash' /\ lastHash'[Len(lastHash) + 1] = t
        BY <1>0, <3>1
      <3>3. ChainHas(t)' /\ (ChainHas(u) => ChainHas(u)')
        BY <3>2 DEF ChainHas
      <3>4. CASE u = t
        <4>1. vote'[u][Merkle] = "yes"
          BY <1>0, <2>1, <2>2, <3>4
        <4>. QED  BY <3>3, <3>4, <4>1
      <3>5. CASE u # t
        <4>1. vote'[u][Merkle] = vote[u][Merkle]
          BY <1>0, <2>1, <3>5
        <4>2. vote[u][Merkle] # "fresh"
          BY <2>2, <3>5 DEF SerialMerkle, InMerkle
        <4>. QED  BY <1>2, <3>3, <4>1, <4>2
      <3>. QED  BY <3>4, <3>5
    <2>3. CASE w # Merkle
      <3>1. vote'[u][Merkle] = vote[u][Merkle]
        BY <1>0, <2>1, <2>3
      <3>. QED  BY <1>3, <2>1, <2>3, <3>1
    <2>4. CASE w = Merkle /\ vote[t][w] = "refused"
      <3>1. lastHash' = lastHash
        BY <2>1, <2>4
      <3>2. u = t => vote'[u][Merkle] = "no"
        BY <1>0, <2>1, <2>4
      <3>3. u # t => vote'[u][Merkle] = vote[u][Merkle]
        BY <1>0, <2>1
      <3>. QED  BY <1>3, <2>1, <3>1, <3>2, <3>3
    <2>. QED  BY <2>1, <2>2, <2>3, <2>4
  <1>9. ASSUME ForgetVotes  PROVE OK(u)
    <2>1. vote'[u][Merkle] = "none"
      BY <1>9 DEF ForgetVotes
    <2>. QED  BY <2>1
  <1>10. CASE UNCHANGED consensusVars
    BY <1>3, <1>10 DEF consensusVars, workerVars
  <1>. HIDE DEF OK
  <1>. QED
    BY <1>4, <1>5, <1>6, <1>7, <1>8, <1>9, <1>10 DEF Next, Collect

(* MerkleWorker.Verify's comment, where its premise is met: if the worker  *)
(* handles one transaction at a time, every approval it gave since the     *)
(* process started is in its chain, whatever the timeouts of the engine,   *)
(* late votes and restarts.                                                *)
THEOREM SerialChainComplete ==
    ASSUME Merkle \in Workers
    PROVE  Spec /\ []SerialMerkle => []MerkleChainComplete
  <1>. DEFINE Inv == ReadIsChain /\ MerkleChainComplete
  <1>1. ConsensusInit => Inv
    BY DEF ConsensusInit, ReadIsChain, MerkleChainComplete
  <1>2. TypeOK /\ SerialMerkle /\ Inv /\ [Next]_consensusVars => Inv'
    BY MerkleStep
  <1>. QED  BY <1>1, <1>2, ConsensusTypeCorrect, PTL DEF Spec
=============================================================================
