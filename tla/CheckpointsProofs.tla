-------------------------- MODULE CheckpointsProofs --------------------------
(***************************************************************************)
(* Proofs about Checkpoints, for all settings of the Beacon chain, of the  *)
(* submission interval and of the reference time, and every bound on the   *)
(* slots: what a checkpoint stands for does not depend on when a member    *)
(* looks.                                                                  *)
(***************************************************************************)
EXTENDS Checkpoints, FiniteSetTheorems, WellFoundedInduction, TLAPS

(* The strengthening: all of the finalized epochs is in the past, and the  *)
(* block agreed on is in one of them, where reorganisations do not reach.  *)
FinalInv ==
    /\ LastSlot(finalizedEpoch) <= slot
    /\ lastSubmission \in FinalSlots

IInv == TypeOK /\ FinalInv

(***************************************************************************)
(* Lemmas on slots, epochs and times.                                      *)
(***************************************************************************)
LEMMA DivMod ==
  ASSUME NEW a \in Nat, NEW n \in Nat \ {0}
  PROVE  /\ a \div n \in Nat /\ a % n \in 0..(n - 1)
         /\ a % n <= a
         /\ \A k \in Nat : n * k <= a => k <= a \div n
  <1>1. a \div n \in Nat
    OBVIOUS
  <1>2. a % n \in 0..(n - 1)
    OBVIOUS
  <1>3. a % n <= a
    OBVIOUS
  <1>4. \A k \in Nat : n * k <= a => k <= a \div n
    OBVIOUS
  <1> QED
    BY <1>1, <1>2, <1>3, <1>4

LEMMA LastSlotOfEpoch ==
  ASSUME NEW s \in Nat, NEW e \in Nat
  PROVE  s <= LastSlot(e) <=> Epoch(s) <= e
  BY CheckpointsAssumption DEF LastSlot, Epoch

LEMMA LastSlotGrows ==
  ASSUME NEW e \in Nat, NEW f \in Nat, e <= f
  PROVE  LastSlot(e) \in Nat /\ LastSlot(e) <= LastSlot(f)
  BY CheckpointsAssumption DEF LastSlot

LEMMA EpochGrows ==
  ASSUME NEW s \in Nat, NEW t \in Nat, s <= t
  PROVE  Epoch(s) \in Nat /\ Epoch(s) <= Epoch(t)
  BY CheckpointsAssumption DEF Epoch

LEMMA EpochOfLastSlot ==
  ASSUME NEW e \in Nat, NEW s \in Nat, LastSlot(e) <= s
  PROVE  e <= Epoch(s)
  BY CheckpointsAssumption DEF LastSlot, Epoch

(* A set of slots has a last one: of the finite sets of what is larger     *)
(* than a member, one has no proper subset among them.                     *)
LEMMA MaxOfSlots ==
  ASSUME NEW S \in SUBSET Nat, S # {}, NEW n \in Nat, \A x \in S : x <= n
  PROVE  Max(S) \in S /\ \A y \in S : y <= Max(S)
  <1> DEFINE Above(x) == {y \in S : y > x}
             Sets == {Above(x) : x \in S}
             R == StrictSubsetOrdering(S)
  <1>1. \A x \in S : IsFiniteSet(Above(x)) /\ Above(x) \in SUBSET S
    <2> TAKE x \in S
    <2>1. Above(x) \in SUBSET S /\ Above(x) \in SUBSET Nat
      OBVIOUS
    <2>2. \A y \in Above(x) : y <= n
      OBVIOUS
    <2> QED
      BY <2>1, <2>2, FS_BoundedSetOfNaturals
  <1>2. Sets \subseteq FiniteSubsetsOf(S) /\ Sets # {}
    BY <1>1 DEF FiniteSubsetsOf
  <1>3. \E T \in Sets : \A U \in Sets : ~(<<U, T>> \in R)
    <2> HIDE DEF Sets, R
    <2> QED
      BY <1>2, FS_StrictSubsetOrderingWellFounded, WFMin DEF R
  <1>4. PICK x \in S : \A y \in S : ~(<<Above(y), Above(x)>> \in R)
    BY <1>3
  <1>5. ASSUME NEW y \in S, ~(y <= x)
        PROVE  FALSE
    <2>1. y \in Above(x) /\ y \notin Above(y)
      BY <1>5
    <2>2. \A z \in Above(y) : z \in Above(x)
      BY <1>5
    <2>3. <<Above(y), Above(x)>> \in R
      BY <1>1, <2>1, <2>2 DEF StrictSubsetOrdering
    <2> QED
      BY <1>4, <2>3
  <1>6. \E z \in S : \A y \in S : z >= y
    BY <1>5
  <1>7. Max(S) \in S /\ \A y \in S : Max(S) >= y
    BY <1>6 DEF Max
  <1> QED
    BY <1>7

LEMMA HeadIsABlock == TypeOK => Head \in blocks /\ Head \in Nat
  <1> SUFFICES ASSUME TypeOK PROVE Head \in blocks /\ Head \in Nat
    OBVIOUS
  <1>1. blocks \in SUBSET Nat /\ blocks # {} /\ slot \in Nat /\ \A b \in blocks : b <= slot
    BY DEF TypeOK
  <1> QED
    BY <1>1, MaxOfSlots DEF Head

(* The checkpoint is less than an interval before the head.                *)
LEMMA TimeOfSubmission ==
  ASSUME TypeOK, GetSlotTime(Head) >= Reference
  PROVE  /\ SubmissionTime \in Nat /\ SubmissionTime >= GenesisTime
         /\ SubmissionTime > GetSlotTime(Head) - Interval
  <1>1. GetSlotTime(Head) \in Nat
    BY HeadIsABlock, CheckpointsAssumption DEF GetSlotTime
  <1> DEFINE since == GetSlotTime(Head) - Reference
  <1>2. since \in Nat /\ Interval \in Nat \ {0}
    BY <1>1, CheckpointsAssumption
  <1>3. since % Interval \in 0..(Interval - 1) /\ since % Interval <= since
    <2> HIDE DEF since
    <2> QED
      BY <1>2, DivMod
  <1> QED
    BY <1>1, <1>2, <1>3, CheckpointsAssumption
       DEF SubmissionTime, FindNextSubmissionTimestamp

LEMMA SlotOfSubmission ==
  ASSUME TypeOK, GetSlotTime(Head) >= Reference
  PROVE  /\ SubmissionSlot \in Nat
         /\ \A s \in Nat : GetSlotTime(s) <= SubmissionTime => s <= SubmissionSlot
  <1> DEFINE seconds == SubmissionTime - GenesisTime
  <1>1. seconds \in Nat /\ SubmissionTime \in Nat /\ GenesisTime \in Nat
        /\ SecondsPerSlot \in Nat \ {0}
    BY TimeOfSubmission, CheckpointsAssumption
  <1>2. /\ seconds \div SecondsPerSlot \in Nat
        /\ \A k \in Nat : SecondsPerSlot * k <= seconds => k <= seconds \div SecondsPerSlot
    <2> HIDE DEF seconds
    <2> QED
      BY <1>1, DivMod
  <1>3. ASSUME NEW s \in Nat, GetSlotTime(s) <= SubmissionTime
        PROVE  s <= SubmissionSlot
    <2>1. SecondsPerSlot * s <= seconds
      BY <1>1, <1>3 DEF GetSlotTime
    <2> QED
      BY <1>2, <2>1 DEF SubmissionSlot
  <1> QED
    BY <1>2, <1>3 DEF SubmissionSlot

(* The target is a block of a finalized epoch, the last one reachable.     *)
LEMMA TargetIsFinal ==
  ASSUME IInv, HasTarget
  PROVE  /\ SubmissionSlot \in FinalSlots
         /\ Target \in Reachable(SubmissionSlot)
         /\ Target \in blocks /\ Target \in FinalSlots
         /\ \A b \in Reachable(SubmissionSlot) : b <= Target
  <1>1. SubmissionSlot \in Nat /\ finalizedEpoch \in Nat /\ LastSlot(finalizedEpoch) \in Nat
    BY SlotOfSubmission, LastSlotGrows, CheckpointsAssumption, EpochGrows
       DEF HasTarget, IInv, TypeOK
  <1>2. SubmissionSlot \in FinalSlots
    BY <1>1, LastSlotOfEpoch DEF HasTarget, Finalized, FinalSlots
  <1>3. /\ Reachable(SubmissionSlot) \in SUBSET Nat /\ Reachable(SubmissionSlot) # {}
        /\ \A b \in Reachable(SubmissionSlot) : b <= SubmissionSlot
    <2>1. blocks \in SUBSET Nat
      BY DEF IInv, TypeOK
    <2> QED
      BY <2>1 DEF HasTarget, Reachable
  <1>4. /\ Target \in Reachable(SubmissionSlot)
        /\ \A b \in Reachable(SubmissionSlot) : b <= Target
    BY <1>1, <1>3, MaxOfSlots DEF Target, FindLastBlockWithExecutionPayload
  <1> QED
    BY <1>1, <1>2, <1>3, <1>4 DEF Reachable, FinalSlots
-----------------------------------------------------------------------------
(***************************************************************************)
(* What is final stays: new blocks come after it, a reorganisation keeps   *)
(* it, and finality only grows.                                            *)
(***************************************************************************)
LEMMA FinalStays ==
  ASSUME IInv, [Next]_vars
  PROVE  /\ finalizedEpoch' \in Nat /\ finalizedEpoch <= finalizedEpoch'
         /\ FinalSlots \subseteq FinalSlots'
         /\ \A s \in FinalSlots : s \in blocks' <=> s \in blocks
  <1>1. /\ slot \in Nat /\ finalizedEpoch \in Nat /\ LastSlot(finalizedEpoch) \in Nat
        /\ LastSlot(finalizedEpoch) <= slot
    BY LastSlotGrows, EpochGrows DEF IInv, TypeOK, FinalInv
  <1>2. finalizedEpoch' \in Nat /\ finalizedEpoch <= finalizedEpoch'
    <2>1. CASE Finalize
      BY <1>1, <2>1, EpochGrows, CheckpointsAssumption DEF Finalize
    <2>2. CASE UNCHANGED finalizedEpoch
      BY <1>1, <2>2
    <2> QED
      BY <2>1, <2>2 DEF Next, NextSlot, Reorg, Report, vars
  <1>3. FinalSlots \subseteq FinalSlots'
    BY <1>1, <1>2, LastSlotGrows DEF FinalSlots, LastSlot
  <1>4. ASSUME NEW s \in FinalSlots
        PROVE  s \in blocks' <=> s \in blocks
    <2>1. s \in Nat /\ s <= slot
      BY <1>1 DEF FinalSlots
    <2>2. CASE NextSlot
      BY <1>1, <2>1, <2>2 DEF NextSlot
    <2>3. CASE Reorg
      BY <1>1, <1>4, <2>3 DEF Reorg
    <2> QED
      BY <2>2, <2>3 DEF Next, Finalize, Report, vars
  <1> QED
    BY <1>2, <1>3, <1>4

LEMMA InitIInv == Init => IInv
  <1> SUFFICES ASSUME Init PROVE IInv
    OBVIOUS
  <1>1. LastSlot(0) \in Nat /\ LastSlot(0) <= MaxSlot /\ MaxSlot \in Nat
    BY CheckpointsAssumption DEF LastSlot
  <1>2. 0 \in 0..Epoch(slot)
    BY <1>1, EpochGrows DEF Init
  <1>3. slot = LastSlot(0) /\ finalizedEpoch = 0 /\ lastSubmission = 0
    BY DEF Init
  <1>4. blocks \in SUBSET (0..slot) /\ 0 \in blocks
    <2>1. PICK B \in SUBSET (0..LastSlot(0)) : blocks = {0} \cup B
      BY DEF Init
    <2>2. 0 \in 0..slot
      BY <1>1, <1>3
    <2> QED
      BY <1>3, <2>1, <2>2
  <1>5. TypeOK
    BY <1>1, <1>2, <1>3, <1>4 DEF TypeOK
  <1>6. 0 \in FinalSlots /\ LastSlot(finalizedEpoch) <= slot
    BY <1>1, <1>3 DEF FinalSlots
  <1> QED
    BY <1>3, <1>5, <1>6 DEF IInv, FinalInv

LEMMA NextIInv == IInv /\ [Next]_vars => IInv'
  <1> SUFFICES ASSUME IInv, [Next]_vars PROVE IInv'
    OBVIOUS
  <1>1. /\ slot \in 0..MaxSlot /\ MaxSlot \in Nat /\ finalizedEpoch \in 0..Epoch(slot)
        /\ LastSlot(finalizedEpoch) \in Nat /\ Epoch(slot) \in Nat
        /\ LastSlot(finalizedEpoch) <= slot /\ lastSubmission \in FinalSlots
        /\ blocks \in SUBSET (0..slot) /\ 0 \in blocks /\ lastSubmission \in blocks
    BY LastSlotGrows, EpochGrows, CheckpointsAssumption DEF IInv, TypeOK, FinalInv
  <1>2. CASE NextSlot
    <2>1. slot' = slot + 1 /\ slot' \in 0..MaxSlot
      BY <1>1, <1>2 DEF NextSlot
    <2>2. Epoch(slot)' \in Nat /\ Epoch(slot) <= Epoch(slot)'
      BY <1>1, <2>1, EpochGrows DEF Epoch
    <2>3. blocks' \in SUBSET (0..slot') /\ blocks \subseteq blocks'
      BY <1>1, <1>2, <2>1 DEF NextSlot
    <2> QED
      BY <1>1, <1>2, <2>1, <2>2, <2>3 DEF NextSlot, IInv, TypeOK, FinalInv, FinalSlots, LastSlot
  <1>3. CASE Reorg
    <2>1. blocks' \in SUBSET (0..slot)
      BY <1>1, <1>3 DEF Reorg
    <2>2. \A s \in FinalSlots : s \in blocks' <=> s \in blocks
      BY FinalStays
    <2>3. 0 \in FinalSlots
      BY <1>1 DEF FinalSlots
    <2> QED
      BY <1>1, <1>3, <2>1, <2>2, <2>3 DEF Reorg, IInv, TypeOK, FinalInv, FinalSlots, LastSlot, Epoch
  <1>4. CASE Finalize
    <2>1. finalizedEpoch' \in Nat /\ LastSlot(finalizedEpoch') <= slot
      BY <1>1, <1>4, FinalStays DEF Finalize
    <2>2. finalizedEpoch' \in 0..Epoch(slot)
      BY <1>1, <2>1, EpochOfLastSlot
    <2>3. FinalSlots \subseteq FinalSlots'
      BY FinalStays
    <2> QED
      BY <1>1, <1>4, <2>1, <2>2, <2>3 DEF Finalize, IInv, TypeOK, FinalInv, LastSlot, Epoch
  <1>5. CASE Report
    BY <1>1, <1>5, TargetIsFinal DEF Report, IInv, TypeOK, FinalInv, FinalSlots, LastSlot, Epoch
  <1>6. CASE UNCHANGED vars
    BY <1>1, <1>6 DEF vars, IInv, TypeOK, FinalInv, FinalSlots, LastSlot, Epoch
  <1> QED
    BY <1>2, <1>3, <1>4, <1>5, <1>6 DEF Next

LEMMA IInvHolds == Spec => []IInv
  BY InitIInv, NextIInv, PTL DEF Spec

(* Types: what was agreed on stays on the chain (the checkpoints are of    *)
(* finalized epochs, FindNextSubmissionTarget).                            *)
THEOREM TypeCorrect == Spec => []TypeOK
  <1>1. IInv => TypeOK
    BY DEF IInv
  <1> QED
    BY <1>1, IInvHolds, PTL

(* A target of FindNextSubmissionTarget is never older than the block      *)
(* agreed on last: the checkpoint is past that block, from where the       *)
(* search of FindLastBlockWithExecutionPayload either reaches it or ends   *)
(* before.                                                                 *)
THEOREM TargetsAdvanceHolds == Spec => []TargetsAdvance
  <1>1. ASSUME IInv, HasTarget
        PROVE  Target >= lastSubmission
    <2>1. /\ lastSubmission \in Nat /\ SubmissionSlot \in Nat /\ GetSlotTime(Head) \in Nat
          /\ GetSlotTime(lastSubmission) \in Nat /\ lastSubmission \in blocks
          /\ SubmissionTime \in Nat /\ Interval \in Nat /\ LookBack \in Nat
      BY <1>1, HeadIsABlock, SlotOfSubmission, TimeOfSubmission, CheckpointsAssumption
         DEF IInv, TypeOK, HasTarget, GetSlotTime
    <2>2. GetSlotTime(lastSubmission) <= SubmissionTime
      BY <1>1, <2>1, TimeOfSubmission DEF HasTarget, IInv
    <2>3. lastSubmission <= SubmissionSlot
      BY <1>1, <2>1, <2>2, SlotOfSubmission DEF HasTarget, IInv
    <2>4. /\ Target \in Nat /\ SubmissionSlot - Target <= LookBack
          /\ \A b \in Reachable(SubmissionSlot) : b <= Target
      <3>1. blocks \in SUBSET Nat
        BY <1>1 DEF IInv, TypeOK
      <3> QED
        BY <1>1, <3>1, TargetIsFinal DEF Reachable
    <2>5. CASE SubmissionSlot - lastSubmission <= LookBack
      BY <2>1, <2>3, <2>4, <2>5 DEF Reachable
    <2> QED
      BY <2>1, <2>4, <2>5
  <1>2. IInv => TargetsAdvance
    BY <1>1 DEF TargetsAdvance
  <1> QED
    BY <1>2, IInvHolds, PTL

(* Members that look at the same checkpoint at different times find the    *)
(* same block (FindNextSubmissionTarget): all the blocks the search may    *)
(* end at are final.                                                       *)
THEOREM TargetNeverChangesHolds == Spec => TargetNeverChanges
  <1>1. ASSUME IInv, [Next]_vars, HasTarget, SubmissionTime' = SubmissionTime
        PROVE  Target' = Target
    <2>1. SubmissionSlot' = SubmissionSlot
      BY <1>1 DEF SubmissionSlot
    <2>2. \A b \in 0..SubmissionSlot : b \in blocks' <=> b \in blocks
      <3>1. SubmissionSlot \in FinalSlots /\ LastSlot(finalizedEpoch) \in Nat
        BY <1>1, TargetIsFinal, LastSlotGrows, EpochGrows DEF IInv, TypeOK
      <3>2. \A b \in 0..SubmissionSlot : b \in FinalSlots
        BY <3>1 DEF FinalSlots
      <3> QED
        BY <1>1, <3>2, FinalStays
    <2>3. SubmissionSlot \in Nat /\ blocks \in SUBSET Nat /\ blocks' \in SUBSET Nat
      BY <1>1, NextIInv, SlotOfSubmission DEF HasTarget, IInv, TypeOK
    <2>4. Reachable(SubmissionSlot)' = Reachable(SubmissionSlot)
      <3>1. Reachable(SubmissionSlot)' =
                {b \in blocks' : b <= SubmissionSlot /\ SubmissionSlot - b <= LookBack}
        BY <2>1 DEF Reachable
      <3>2. \A b : b \in blocks' /\ b <= SubmissionSlot <=> b \in blocks /\ b <= SubmissionSlot
        <4> TAKE b
        <4>1. b \in Nat /\ b <= SubmissionSlot => b \in 0..SubmissionSlot
          BY <2>3
        <4> QED
          BY <2>2, <2>3, <4>1
      <3> QED
        BY <3>1, <3>2 DEF Reachable
    <2> QED
      BY <2>1, <2>4 DEF Target, FindLastBlockWithExecutionPayload
  <1>2. IInv /\ [Next]_vars =>
            [HasTarget /\ HasTarget' /\ SubmissionTime' = SubmissionTime
                => Target' = Target]_vars
    BY <1>1
  <1> QED
    BY <1>2, IInvHolds, PTL DEF Spec, TargetNeverChanges

(* Once a member has found the snapshot block of a rewards interval, every *)
(* member finds it (getSnapshotEnd): its epoch and the next are final.     *)
THEOREM SnapshotNeverChangesHolds == Spec => SnapshotNeverChanges
  <1>1. ASSUME IInv, [Next]_vars, NEW t \in EndTimes, HasSnapshotEnd(t)
        PROVE  HasSnapshotEnd(t)' /\ ConsensusBlock(t)' = ConsensusBlock(t)
    <2> DEFINE first == FirstSlotAtLeast(t)
    <2>1. first \in Nat /\ Epoch(first) \in Nat
      <3>1. t - GenesisTime \in Nat
        BY CheckpointsAssumption
      <3>2. (t - GenesisTime) \div SecondsPerSlot \in Nat
        BY <3>1, DivMod, CheckpointsAssumption
      <3>3. first \in Nat
        BY <3>2 DEF FirstSlotAtLeast
      <3> QED
        BY <3>3, EpochGrows
    <2>2. finalizedEpoch \in Nat /\ finalizedEpoch' \in Nat /\ finalizedEpoch <= finalizedEpoch'
      BY <1>1, FinalStays, EpochGrows DEF IInv, TypeOK
    <2>3. HasSnapshotEnd(t)'
      BY <1>1, <2>1, <2>2 DEF HasSnapshotEnd
    <2>4. SnapshotSlot(t) \in Nat /\ SnapshotSlot(t) <= LastSlot(finalizedEpoch)
      BY <1>1, <2>1, <2>2, LastSlotGrows DEF HasSnapshotEnd, SnapshotSlot
    <2>5. \A b \in 0..SnapshotSlot(t) : b \in blocks' <=> b \in blocks
      BY <1>1, <2>2, <2>4, FinalStays, LastSlotGrows DEF FinalSlots
    <2>6. blocks \in SUBSET Nat /\ blocks' \in SUBSET Nat
      BY <1>1, NextIInv DEF IInv, TypeOK
    <2>7. {b \in blocks' : b <= SnapshotSlot(t)} = {b \in blocks : b <= SnapshotSlot(t)}
      <3>1. \A b : b \in blocks' /\ b <= SnapshotSlot(t) <=> b \in blocks /\ b <= SnapshotSlot(t)
        <4> TAKE b
        <4>1. b \in Nat /\ b <= SnapshotSlot(t) => b \in 0..SnapshotSlot(t)
          BY <2>4
        <4> QED
          BY <2>5, <2>6, <4>1
      <3> QED
        BY <3>1
    <2>8. SnapshotSlot(t)' = SnapshotSlot(t)
      BY DEF SnapshotSlot, FirstSlotAtLeast, Epoch, LastSlot
    <2> QED
      BY <2>3, <2>7, <2>8 DEF ConsensusBlock
  <1>2. IInv /\ [Next]_vars => [SnapshotsStay]_vars
    BY <1>1 DEF SnapshotsStay
  <1> QED
    BY <1>2, IInvHolds, PTL DEF Spec, SnapshotNeverChanges
=============================================================================
