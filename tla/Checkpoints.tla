---------------------------- MODULE Checkpoints ----------------------------
(***************************************************************************)
(* Which block a checkpoint stands for.  The Oracle DAO votes on values of *)
(* a block that every member picks by itself, at a time of its own and     *)
(* from its own clients: FindNextSubmissionTarget                          *)
(* (watchtower/utils/utils.go) for prices and balances, getSnapshotEnd     *)
(* (watchtower/submit-rewards-tree-stateless.go) for rewards.              *)
(*                                                                         *)
(* The Beacon chain is the environment: slots with and without a block,    *)
(* reorganisations of what is not final, and finality.  The Execution      *)
(* block of a Beacon block is known by that block's slot.                  *)
(***************************************************************************)
EXTENDS Integers, FiniteSetsExt

CONSTANTS
    GenesisTime, SecondsPerSlot, SlotsPerEpoch,  \* Eth2Config
    Reference,    \* PriceBalanceSubmissionReferenceTimestamp
    Interval,     \* seconds between two submissions
    LookBack,     \* slots FindLastBlockWithExecutionPayload goes back (32)
    EndTimes,     \* ends of rewards intervals
    MaxSlot       \* bound on the slots

ASSUME CheckpointsAssumption ==
    /\ {GenesisTime, LookBack, MaxSlot} \subseteq Nat
    /\ {SecondsPerSlot, SlotsPerEpoch, Reference, Interval} \subseteq Nat \ {0}
    /\ EndTimes \subseteq {t \in Nat : t > GenesisTime}
    /\ Reference >= GenesisTime
    /\ SlotsPerEpoch - 1 <= MaxSlot

VARIABLES
    slot,            \* the current slot
    blocks,          \* the slots that have a block on the canonical chain
    finalizedEpoch,  \* GetBeaconHead().FinalizedEpoch
    lastSubmission   \* contract: the block last agreed on

vars == <<slot, blocks, finalizedEpoch, lastSubmission>>

GetSlotTime(s) == GenesisTime + s * SecondsPerSlot

Epoch(s) == s \div SlotsPerEpoch

LastSlot(e) == e * SlotsPerEpoch + (SlotsPerEpoch - 1)

Head == Max(blocks)

\* The slots of a finalized epoch, to its last one, do not change any more.
FinalSlots == 0..LastSlot(finalizedEpoch)

Init ==
    /\ slot = LastSlot(0)
    /\ blocks \in {{0} \cup B : B \in SUBSET (0..LastSlot(0))}
    /\ finalizedEpoch = 0
    /\ lastSubmission = 0

NextSlot ==
    /\ slot < MaxSlot
    /\ slot' = slot + 1
    /\ blocks' \in {blocks, blocks \cup {slot + 1}}
    /\ UNCHANGED <<finalizedEpoch, lastSubmission>>

Reorg ==
    /\ \E B \in SUBSET ((0..slot) \ FinalSlots) :
           blocks' = (blocks \cap FinalSlots) \cup B
    /\ UNCHANGED <<slot, finalizedEpoch, lastSubmission>>

Finalize ==
    /\ finalizedEpoch' \in {e \in (finalizedEpoch + 1)..Epoch(MaxSlot) :
                                LastSlot(e) <= slot}
    /\ UNCHANGED <<slot, blocks, lastSubmission>>

(***************************************************************************)
(* Prices and balances.  An error is no target.                            *)
(***************************************************************************)
FindNextSubmissionTimestamp(latest) ==
    latest - ((latest - Reference) % Interval)

\* The blocks the search may end at; it ends at the last of them.
Reachable(s) == {b \in blocks : b <= s /\ s - b <= LookBack}

FindLastBlockWithExecutionPayload(s) == Max(Reachable(s))

\* Mutant: no test that the epoch is finalized.
FinalizedMutant(s) == TRUE

Finalized(s) == Epoch(s) <= finalizedEpoch

SubmissionTime == FindNextSubmissionTimestamp(GetSlotTime(Head))

SubmissionSlot == (SubmissionTime - GenesisTime) \div SecondsPerSlot

\* Mutant: no test that an interval has passed since the last submission.
HasTargetMutant ==
    /\ GetSlotTime(Head) >= Reference
    /\ Reachable(SubmissionSlot) # {}
    /\ Finalized(SubmissionSlot)

HasTarget ==
    /\ GetSlotTime(lastSubmission) + Interval <= GetSlotTime(Head)
    /\ GetSlotTime(Head) >= Reference
    /\ Reachable(SubmissionSlot) # {}
    /\ Finalized(SubmissionSlot)

Target == FindLastBlockWithExecutionPayload(SubmissionSlot)

\* The members vote for the target, and the contract takes it.
Report ==
    /\ HasTarget
    /\ lastSubmission' = Target
    /\ UNCHANGED <<slot, blocks, finalizedEpoch>>

(***************************************************************************)
(* Rewards.                                                                *)
(***************************************************************************)
FirstSlotAtLeast(t) ==
    LET seconds == t - GenesisTime
    IN  (seconds \div SecondsPerSlot) + (IF seconds % SecondsPerSlot = 0 THEN 0 ELSE 1)

\* Mutant: the epoch after the snapshot need not be finalized.
HasSnapshotEndMutant(t) == finalizedEpoch + 1 >= Epoch(FirstSlotAtLeast(t))

HasSnapshotEnd(t) == finalizedEpoch >= Epoch(FirstSlotAtLeast(t)) + 1

\* SnapshotEnd.Slot and SnapshotEnd.ConsensusBlock of getSnapshotEnd.
SnapshotSlot(t) == LastSlot(Epoch(FirstSlotAtLeast(t)))

ConsensusBlock(t) == Max({b \in blocks : b <= SnapshotSlot(t)})

Next ==
    \/ NextSlot
    \/ Reorg
    \/ Finalize
    \/ Report

Spec == Init /\ [][Next]_vars
-----------------------------------------------------------------------------
(* The type invariant: what was agreed on stays on the chain.              *)
TypeOK ==
    /\ slot \in 0..MaxSlot
    /\ blocks \in SUBSET (0..slot) /\ 0 \in blocks
    /\ finalizedEpoch \in 0..Epoch(slot)
    /\ lastSubmission \in blocks

(* Members that look at the same checkpoint at different times, before and *)
(* after new blocks, reorganisations and finality, find the same block     *)
(* (FindNextSubmissionTarget): otherwise their votes could never agree.    *)
TargetNeverChanges ==
    [][(HasTarget /\ HasTarget' /\ SubmissionTime' = SubmissionTime)
           => Target' = Target]_vars

(* A target is never older than the block agreed on last, also when that   *)
(* one lay slots before its checkpoint.                                    *)
TargetsAdvance == HasTarget => Target >= lastSubmission

\* A step that keeps every snapshot block there is.
SnapshotsStay ==
    \A t \in EndTimes :
        HasSnapshotEnd(t) => /\ HasSnapshotEnd(t)'
                             /\ ConsensusBlock(t)' = ConsensusBlock(t)

(* Once a member has found the snapshot block of a rewards interval, every *)
(* member finds it (getSnapshotEnd).                                       *)
SnapshotNeverChanges == [][SnapshotsStay]_vars
=============================================================================
