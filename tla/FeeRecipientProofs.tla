------------------------ MODULE FeeRecipientProofs ------------------------
(***************************************************************************)
(* Proofs about FeeRecipient, for every interval of at least two epochs    *)
(* and every bound: types, and that only a race with a joining command, or *)
(* a VC that missed its restart, makes the fee recipient illegal.          *)
(***************************************************************************)
EXTENDS FeeRecipient, TLAPS

RecentlyLeft == ~registered /\ changed # 0 /\ changed >= epoch - 1

(* Why OnlyJoinsExpose holds: a run is shorter than two epochs and two     *)
(* changes are at least two apart, so at most one happens beside it; a     *)
(* command runs on a node that left long ago; the file is right, or the    *)
(* task took the pool out; the VC has what the file says, or is about to   *)
(* be restarted, or missed it.                                             *)
Running == task.step # "idle"
Exposing == registered \/ RecentlyLeft \/ pending = "in" \/ api \in {"restart", "send"}

RunIsShort ==
    Running =>
        /\ epoch <= task.began + 1
        /\ changed = task.changed \/ changed >= task.began
        /\ changed = task.changed => (registered <=> task.registered)
        /\ task.changed <= task.began
        /\ (registered <=> task.registered) => changed = task.changed

CommandIsLate ==
    /\ epoch > 0
    /\ pending = "out" => registered
    /\ registered => changed # 0
    /\ api # "idle" => pending = "none"
    /\ api # "idle" \/ pending = "in" =>
           /\ ~registered /\ ~RecentlyLeft
           /\ Running => ~task.registered

DistributorIsDue ==
    /\ finalized + 2 <= epoch \/ finalized = 0
    /\ task.step \in {"check", "update", "restart", "stop"} =>
           /\ task.registered => task.recipient = "pool"
           /\ task.recipient = "distributor" => ~RecentlyLeft
    /\ task.step = "restart" /\ file = "distributor" =>
           task.recipient = "distributor" \/ ~Exposing

FileIsRight == Exposing /\ file = "distributor" => undone

VcHasFile == Exposing /\ vc = "distributor" =>
    undone \/ missed \/ api = "restart"

VcIsRestarted == vc = "distributor" =>
    file # "pool" \/ missed \/ task.step = "restart" \/ api = "restart"

IInv ==
    /\ TypeOK /\ RunIsShort /\ CommandIsLate /\ DistributorIsDue
    /\ FileIsRight /\ VcHasFile /\ VcIsRestarted

(* The record of a task that is not running has the type of the task.     *)
LEMMA IdleType ==
  ASSUME NEW e \in Nat
  PROVE  Idle \in [step : Steps, began : 0..e, registered : BOOLEAN, changed : 0..e,
                   recipient : Recipients]
  BY DEF Idle, Steps, Recipients

(* The initial states are well-typed.                                      *)
LEMMA TypeInit == Init => TypeOK
  <1> SUFFICES ASSUME Init PROVE TypeOK
    OBVIOUS
  <1>1. epoch \in 0..MaxEpoch /\ finalized \in 0..MaxEpoch /\ changed \in 0..epoch
    BY FeeAssumption DEF Init
  <1>2. TaskTypeOK
    BY <1>1, IdleType, FeeAssumption DEF Init, TaskTypeOK
  <1>3. registered \in BOOLEAN /\ undone \in BOOLEAN /\ missed \in BOOLEAN
    BY DEF Init
  <1> QED
    BY <1>1, <1>2, <1>3, FeeAssumption DEF Init, TypeOK, Recipients

(* Every step keeps the types.                                             *)
LEMMA TypeStep == TypeOK /\ [Next]_vars => TypeOK'
  <1> SUFFICES ASSUME TypeOK, [Next]_vars PROVE TypeOK'
    OBVIOUS
  <1> USE FeeAssumption DEF TypeOK, TaskTypeOK, Recipients, Steps, time, chain
  <1>1. CASE EpochPasses
    BY <1>1 DEF EpochPasses
  <1>2. CASE Finalize
    BY <1>2 DEF Finalize
  <1>3. CASE Mined
    <2>1. registered' \in BOOLEAN
      BY <1>3 DEF Mined
    <2>2. changed' \in 0..epoch
      BY <1>3 DEF Mined
    <2> QED
      BY <1>3, <2>1, <2>2 DEF Mined
  <1>4. CASE restartVc
    BY <1>4 DEF restartVc, RestartValidator, Loaded
  <1>5. CASE UpdateNetworkState
    BY <1>5 DEF UpdateNetworkState, Idle
  <1>6. CASE GetFeeRecipientInfo
    BY <1>6 DEF GetFeeRecipientInfo, IsInOptOutCooldown
  <1>7. CASE CheckFeeRecipientFile
    <2>1. undone' \in BOOLEAN
      BY <1>7 DEF CheckFeeRecipientFile, EndRun
    <2>2. CASE task' = Idle
      <3>1. TaskTypeOK'
        BY <1>7, <2>2, IdleType DEF CheckFeeRecipientFile
      <3> QED
        BY <1>7, <2>1, <3>1 DEF CheckFeeRecipientFile
    <2>3. CASE task' = [task EXCEPT !.step = "update"]
      BY <1>7, <2>1, <2>3 DEF CheckFeeRecipientFile
    <2> QED
      BY <1>7, <2>2, <2>3 DEF CheckFeeRecipientFile, EndRun
  <1>8. CASE UpdateFeeRecipientFile
    BY <1>8 DEF UpdateFeeRecipientFile, Joining
  <1>9. CASE StopValidator
    BY <1>9 DEF StopValidator, Idle
  <1>10. CASE TaskRestartsVc
    <2>1. undone' \in BOOLEAN
      BY <1>10 DEF TaskRestartsVc, EndRun
    <2>2. TaskTypeOK'
      BY <1>10, IdleType DEF TaskRestartsVc, EndRun
    <2>3. vc' \in Recipients \cup {"stopped"} /\ missed' = FALSE
      BY <1>10 DEF TaskRestartsVc, RestartValidator, Loaded
    <2>4. UNCHANGED <<epoch, finalized, registered, changed, pending, file, api, faults>>
      BY <1>10 DEF TaskRestartsVc
    <2> QED
      BY <2>1, <2>2, <2>3, <2>4
  <1>11. CASE UpdateFails
    BY <1>11 DEF UpdateFails, Fault
  <1>12. CASE TaskFails
    BY <1>12 DEF TaskFails, Fault, Idle
  <1>13. CASE Join
    BY <1>13 DEF Join, CanChange, Changeable
  <1>14. CASE Leave
    BY <1>14 DEF Leave, CanChange, Changeable
  <1>15. CASE ApiUpdatesFile
    BY <1>15 DEF ApiUpdatesFile
  <1>16. CASE ApiRestartsVc
    BY <1>16 DEF ApiRestartsVc, RestartValidator, Loaded
  <1>17. CASE ApiUndoes
    BY <1>17 DEF ApiUndoes
  <1>18. CASE ApiSends
    BY <1>18 DEF ApiSends
  <1>19. CASE ApiRestartFails
    BY <1>19 DEF ApiRestartFails, Fault
  <1>20. CASE ApiFails
    BY <1>20 DEF ApiFails, Fault
  <1>21. CASE UNCHANGED vars
    BY <1>21 DEF vars, time, chain
  <1> QED
    BY <1>1, <1>2, <1>3, <1>4, <1>5, <1>6, <1>7, <1>8, <1>9, <1>10, <1>11,
       <1>12, <1>13, <1>14, <1>15, <1>16, <1>17, <1>18, <1>19, <1>20, <1>21 DEF Next, Task, Api

(* Every step keeps the invariant.                                         *)
LEMMA StepIInv == IInv /\ [Next]_vars => IInv'
  <1> SUFFICES ASSUME IInv, [Next]_vars PROVE IInv'
    OBVIOUS
  <1> TypeOK'
    BY TypeStep DEF IInv
  <1> USE FeeAssumption DEF IInv, TypeOK, TaskTypeOK, Recipients, Steps, time, chain,
      RecentlyLeft, Running, Exposing,
      RunIsShort, CommandIsLate, DistributorIsDue, FileIsRight, VcHasFile, VcIsRestarted
  <1>1. CASE EpochPasses
    BY <1>1 DEF EpochPasses
  <1>2. CASE Finalize
    BY <1>2 DEF Finalize
  <1>3. CASE Mined
    <2>1. CASE ~Changeable
      BY <1>3, <2>1 DEF Mined
    <2>2. CASE Changeable /\ pending = "in"
      <3>1. registered' /\ changed' = epoch
        BY <1>3, <2>2 DEF Mined
      <3> QED
        BY <1>3, <2>2, <3>1 DEF Mined, Changeable
    <2>3. CASE Changeable /\ pending = "out"
      <3>1. ~registered' /\ changed' = epoch
        BY <1>3, <2>3 DEF Mined
      <3> QED
        BY <1>3, <2>3, <3>1 DEF Mined, Changeable
    <2> QED
      BY <1>3, <2>1, <2>2, <2>3 DEF Mined
  <1>4. CASE restartVc
    BY <1>4 DEF restartVc, RestartValidator, Loaded
  <1>5. CASE UpdateNetworkState
    BY <1>5 DEF UpdateNetworkState
  <1>6. CASE GetFeeRecipientInfo
    BY <1>6 DEF GetFeeRecipientInfo, IsInOptOutCooldown
  <1>7. CASE CheckFeeRecipientFile
    BY <1>7 DEF CheckFeeRecipientFile, EndRun, Joining, Idle
  <1>8. CASE UpdateFeeRecipientFile
    BY <1>8 DEF UpdateFeeRecipientFile, Joining
  <1>9. CASE StopValidator
    BY <1>9 DEF StopValidator, Idle
  <1>10. CASE TaskRestartsVc
    BY <1>10 DEF TaskRestartsVc, RestartValidator, Loaded, EndRun, Joining, Idle
  <1>11. CASE UpdateFails
    BY <1>11 DEF UpdateFails, Fault
  <1>12. CASE TaskFails
    BY <1>12 DEF TaskFails, Fault, Idle
  <1>13. CASE Join
    BY <1>13 DEF Join, CanChange, Changeable
  <1>14. CASE Leave
    BY <1>14 DEF Leave, CanChange, Changeable
  <1>15. CASE ApiUpdatesFile
    BY <1>15 DEF ApiUpdatesFile
  <1>16. CASE ApiRestartsVc
    BY <1>16 DEF ApiRestartsVc, RestartValidator, Loaded
  <1>17. CASE ApiUndoes
    BY <1>17 DEF ApiUndoes
  <1>18. CASE ApiSends
    BY <1>18 DEF ApiSends
  <1>19. CASE ApiRestartFails
    BY <1>19 DEF ApiRestartFails, Fault
  <1>20. CASE ApiFails
    BY <1>20 DEF ApiFails, Fault
  <1>21. CASE UNCHANGED vars
    BY <1>21 DEF vars
  <1> QED
    BY <1>1, <1>2, <1>3, <1>4, <1>5, <1>6, <1>7, <1>8, <1>9, <1>10, <1>11,
       <1>12, <1>13, <1>14, <1>15, <1>16, <1>17, <1>18, <1>19, <1>20, <1>21 DEF Next, Task, Api

(* The initial states satisfy the invariant.                               *)
LEMMA InitIInv == Init => IInv
  <1> SUFFICES ASSUME Init PROVE IInv
    OBVIOUS
  <1>1. TypeOK
    BY TypeInit
  <1>2. epoch > 2 /\ pending = "none" /\ task.step = "idle" /\ api = "idle" /\ finalized = 0
    BY FeeAssumption DEF Init, Idle
  <1>3. \/ ~registered /\ changed = 0
        \/ registered /\ changed = 1 /\ file = "pool" /\ vc = "pool"
    BY DEF Init
  <1>4. vc = "distributor" => file # "pool"
    BY DEF Init
  <1> QED
    BY <1>1, <1>2, <1>3, <1>4, FeeAssumption
    DEF IInv, TypeOK, RunIsShort, CommandIsLate, DistributorIsDue, FileIsRight,
        VcHasFile, VcIsRestarted, Running, Exposing, RecentlyLeft

(* The invariant holds in every state.                                     *)
LEMMA Invariant == Spec => []IInv
  BY InitIInv, StepIInv, PTL DEF Spec

(* Every state is well-typed (TypeOK), whatever the task, the command and  *)
(* the faults do.                                                          *)
THEOREM TypeCorrect == Spec => []TypeOK
  <1>1. IInv => TypeOK
    BY DEF IInv
  <1> QED
    BY <1>1, Invariant, PTL

(* The fee recipient is illegal only after manageFeeRecipient took the     *)
(* pool out of the file of a joining node, or while a restart of the VC is *)
(* missing; a node that leaves is never exposed.                           *)
THEOREM OnlyJoins == Spec => []OnlyJoinsExpose
  <1>1. IInv => OnlyJoinsExpose
    <2> SUFFICES ASSUME IInv, Penalizable PROVE undone \/ missed
      BY DEF OnlyJoinsExpose
    <2>1. Exposing /\ vc = "distributor"
      BY DEF Exposing, RecentlyLeft, Penalizable
    <2>2. api # "restart"
      BY DEF IInv, CommandIsLate, Penalizable, RecentlyLeft
    <2> QED
      BY <2>1, <2>2 DEF IInv, VcHasFile
  <1> QED
    BY <1>1, Invariant, PTL
=============================================================================
