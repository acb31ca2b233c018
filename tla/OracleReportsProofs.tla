------------------------ MODULE OracleReportsProofs ------------------------
(***************************************************************************)
(* Proofs about OracleReports, for any Oracle DAO, either task and every   *)
(* bound: type correctness, one report at a time, only finalized           *)
(* checkpoints reported, and agreement that never goes back.               *)
(***************************************************************************)
EXTENDS OracleReports, FiniteSetTheorems, TLAPS

(* A goroutine that is only spawned has not set the flag yet, so the flag  *)
(* alone does not keep a second one away: nothing else may be under way.   *)
ReportInv ==
    \A n \in Nodes :
        /\ isRunning[n] <=> \E i \in ReportIds : Active(n, i)
        /\ \A i, j \in ReportIds :
              ~At(n, i, "idle") /\ ~At(n, j, "idle") => i = j

(* Finality of a vote is tested when the report starts, and minutes before *)
(* it is cast: everything in between is about a finalized checkpoint.      *)
FinalInv ==
    /\ agreed <= finalized
    /\ \A n \in Nodes : view[n].agreed <= finalized
    /\ \A n \in Nodes, i \in ReportIds : report[n][i].target <= finalized
    /\ OnlyFinalizedReported

LEMMA TypeInit == Init => TypeOK
  BY ReportAssumption DEF Init, TypeOK, Rounds, Idle, Points

(* What a report step leaves behind: the end of the goroutine, or its next *)
(* point, with the target it started with.                                 *)
LEMMA FinishEffect ==
  ASSUME TypeOK, NEW n \in Nodes, NEW i \in ReportIds, Finish(n, i)
  PROVE  /\ isRunning' \in [Nodes -> BOOLEAN]
         /\ report' \in [Nodes -> [ReportIds -> [pc : Points, target : Rounds]]]
         /\ \A m \in Nodes, j \in ReportIds :
               report'[m][j].target \in {0, report[m][j].target}
  BY ReportAssumption DEF TypeOK, Finish, SetReport, Idle, Points, Rounds

LEMMA AdvanceEffect ==
  ASSUME TypeOK, NEW n \in Nodes, NEW i \in ReportIds, NEW there \in Points,
         Advance(n, i, there)
  PROVE  /\ report' \in [Nodes -> [ReportIds -> [pc : Points, target : Rounds]]]
         /\ \A m \in Nodes, j \in ReportIds :
               report'[m][j].target = report[m][j].target
  <1>1. [report[n][i] EXCEPT !.pc = there]
           = [pc |-> there, target |-> report[n][i].target]
    BY DEF TypeOK
  <1> QED
    BY <1>1 DEF TypeOK, Advance, SetReport

LEMMA TypeStep == TypeOK /\ [Next]_vars => TypeOK'
  <1> SUFFICES ASSUME TypeOK, [Next]_vars PROVE TypeOK'
    OBVIOUS
  <1> USE ReportAssumption DEF TypeOK, Rounds
  <1> USE DEF Points
  <1>1. CASE NextCheckpoint
    BY <1>1 DEF NextCheckpoint
  <1>2. CASE Finalize
    BY <1>2 DEF Finalize
  <1>3. ASSUME NEW n \in Nodes, NEW t \in Rounds, Mine(n, t)
        PROVE  TypeOK'
    BY <1>3 DEF Mine
  <1>4. ASSUME NEW n \in Nodes, Observe(n)
        PROVE  TypeOK'
    BY <1>4 DEF Observe
  <1>5. ASSUME NEW n \in Nodes, Run(n)
        PROVE  TypeOK'
    <2>1. Targets(n) \subseteq Rounds
      BY DEF Targets, NextTarget
    <2> QED
      BY <1>5, <2>1 DEF Run, SetReport
  <1>6. ASSUME NEW n \in Nodes, Restart(n)
        PROVE  TypeOK'
    BY <1>6 DEF Restart, Idle
  <1>7. ASSUME NEW n \in Nodes, NEW i \in ReportIds, ReportStep(n, i)
        PROVE  TypeOK'
    <2> USE FinishEffect, AdvanceEffect
    <2>1. CASE Start(n, i)
      BY <2>1 DEF Start
    <2>2. CASE Compute(n, i)
      BY <2>2 DEF Compute
    <2>3. CASE CheckSubmitted(n, i)
      BY <2>3 DEF CheckSubmitted
    <2>4. CASE Send(n, i)
      BY <2>4 DEF Send
    <2>5. CASE WaitMined(n, i)
      BY <2>5 DEF WaitMined
    <2> QED
      BY <1>7, <2>1, <2>2, <2>3, <2>4, <2>5 DEF ReportStep
  <1>8. ASSUME NEW n \in Nodes, NEW i \in ReportIds, Fail(n, i)
        PROVE  TypeOK'
    BY <1>8 DEF Fail, Finish, SetReport, Idle
  <1>9. CASE UNCHANGED vars
    BY <1>9 DEF vars
  <1> QED
    BY <1>1, <1>2, <1>3, <1>4, <1>5, <1>6, <1>7, <1>8, <1>9 DEF Next

(* Type correctness of the report tasks and the contract.                  *)
THEOREM TypeCorrect == Spec => []TypeOK
  BY TypeInit, TypeStep, PTL DEF Spec

LEMMA ReportStepInv == TypeOK /\ ReportInv /\ [Next]_vars => ReportInv'
  <1> SUFFICES ASSUME TypeOK, ReportInv, [Next]_vars PROVE ReportInv'
    OBVIOUS
  <1> USE DEF TypeOK, ReportInv, Active, At
  <1>1. ASSUME UNCHANGED <<isRunning, report>>
        PROVE  ReportInv'
    BY <1>1
  <1>2. ASSUME NEW n \in Nodes, Run(n)
        PROVE  ReportInv'
    BY <1>2 DEF Run, SetReport, Points
  <1>3. ASSUME NEW n \in Nodes, Restart(n)
        PROVE  ReportInv'
    BY <1>3 DEF Restart, Idle
  <1>4. ASSUME NEW n \in Nodes, NEW i \in ReportIds, ~At(n, i, "idle"),
               Finish(n, i)
        PROVE  ReportInv'
    BY <1>4 DEF Finish, SetReport, Idle
  <1>5. ASSUME NEW n \in Nodes, NEW i \in ReportIds, Active(n, i),
               NEW there \in Points \ {"idle", "spawned"},
               Advance(n, i, there), UNCHANGED isRunning
        PROVE  ReportInv'
    BY <1>5 DEF Advance, SetReport, Points
  <1>6. ASSUME NEW n \in Nodes, NEW i \in ReportIds, ReportStep(n, i)
        PROVE  ReportInv'
    <2>1. CASE Start(n, i)
      BY <2>1 DEF Start, Advance, SetReport, Points
    <2>2. CASE Compute(n, i)
      BY <2>2, <1>4, <1>5 DEF Compute, Points
    <2>3. CASE CheckSubmitted(n, i)
      BY <2>3, <1>4, <1>5 DEF CheckSubmitted, Points
    <2>4. CASE Send(n, i)
      BY <2>4, <1>4, <1>5 DEF Send, Points
    <2>5. CASE WaitMined(n, i)
      BY <2>5, <1>4 DEF WaitMined
    <2> QED
      BY <1>6, <2>1, <2>2, <2>3, <2>4, <2>5 DEF ReportStep
  <1>7. ASSUME NEW n \in Nodes, NEW i \in ReportIds, Fail(n, i)
        PROVE  ReportInv'
    BY <1>7, <1>4 DEF Fail
  <1> QED
    BY <1>1, <1>2, <1>3, <1>6, <1>7
       DEF Next, vars, NextCheckpoint, Finalize, Mine, Observe

(* A node has one report under way at most, and its flag says whether it   *)
(* has (isRunning of submitRplPrice and submitNetworkBalances).            *)
THEOREM OneReport == Spec => []OneReportAtATime
  <1>1. Init => ReportInv
    BY DEF Init, ReportInv, Active, At, Idle
  <1>2. ReportInv => OneReportAtATime
    BY DEF ReportInv, OneReportAtATime, Active, At
  <1> QED
    BY <1>1, <1>2, TypeCorrect, ReportStepInv, PTL DEF Spec

(* More voters never lose a majority.                                      *)
LEMMA QuorumGrows ==
  ASSUME NEW V \in SUBSET Nodes, NEW n \in Nodes, Quorum(V)
  PROVE  Quorum(V \cup {n})
  <1>1. IsFiniteSet(Nodes) /\ IsFiniteSet(V) /\ IsFiniteSet(V \cup {n})
    BY ReportAssumption, FS_Subset
  <1>2. Cardinality(V) <= Cardinality(V \cup {n})
    BY <1>1, FS_Subset
  <1>3. /\ Cardinality(V) \in Nat
        /\ Cardinality(V \cup {n}) \in Nat
        /\ Cardinality(Nodes) \in Nat
    BY <1>1, FS_CardinalityType
  <1> QED
    BY <1>2, <1>3 DEF Quorum

LEMMA FinalStep == TypeOK /\ FinalInv /\ [Next]_vars => FinalInv'
  <1> SUFFICES ASSUME TypeOK, FinalInv, [Next]_vars PROVE FinalInv'
    OBVIOUS
  <1> USE ReportAssumption DEF TypeOK, FinalInv, Rounds
  <1>1. CASE NextCheckpoint
    BY <1>1 DEF NextCheckpoint, OnlyFinalizedReported
  <1>2. CASE Finalize
    BY <1>2 DEF Finalize, OnlyFinalizedReported
  <1>3. ASSUME NEW n \in Nodes, NEW t \in Rounds, Mine(n, t)
        PROVE  FinalInv'
    <2>1. t <= finalized
      BY <1>3 DEF Mine, OnlyFinalizedReported
    <2>2. agreed' # 0 => Quorum(votes'[agreed'])
      <3>1. CASE UNCHANGED <<votes, agreed>>
        BY <3>1 DEF OnlyFinalizedReported
      <3>2. CASE /\ votes' = [votes EXCEPT ![t] = @ \cup {n}]
                 /\ agreed' = IF Quorum(votes'[t]) THEN t ELSE agreed
        <4>1. CASE Quorum(votes'[t])
          BY <3>2, <4>1
        <4>2. CASE ~Quorum(votes'[t])
          <5>1. agreed' = agreed
            BY <3>2, <4>2
          <5>2. t = agreed => ~Quorum(votes[agreed] \cup {n})
            BY <3>2, <4>2
          <5>3. t = agreed => ~Quorum(votes[agreed])
            BY <5>2, QuorumGrows
          <5>4. t # agreed => votes'[agreed] = votes[agreed]
            BY <3>2
          <5> QED
            BY <5>1, <5>3, <5>4 DEF OnlyFinalizedReported
        <4> QED
          BY <4>1, <4>2
      <3> QED
        BY <1>3, <3>1, <3>2 DEF Mine
    <2> QED
      BY <1>3, <2>1, <2>2 DEF Mine, OnlyFinalizedReported
  <1>4. ASSUME NEW n \in Nodes, Observe(n)
        PROVE  FinalInv'
    BY <1>4 DEF Observe, OnlyFinalizedReported
  <1>5. ASSUME NEW n \in Nodes, Run(n)
        PROVE  FinalInv'
    <2>1. \A t \in Targets(n) : t <= finalized
      BY DEF Targets, NextTarget
    <2> QED
      BY <1>5, <2>1 DEF Run, SetReport, OnlyFinalizedReported
  <1>6. ASSUME NEW n \in Nodes, Restart(n)
        PROVE  FinalInv'
    BY <1>6 DEF Restart, Idle, OnlyFinalizedReported
  <1>7. ASSUME NEW n \in Nodes, NEW i \in ReportIds, ReportStep(n, i)
        PROVE  FinalInv'
    <2>1. /\ \A m \in Nodes, j \in ReportIds :
                report'[m][j].target \in {0, report[m][j].target}
          /\ UNCHANGED <<head, finalized, votes, agreed, view>>
      <3>1. /\ \/ Finish(n, i)
               \/ \E there \in Points : Advance(n, i, there)
            /\ UNCHANGED <<head, finalized, votes, agreed, view>>
        BY <1>7
           DEF ReportStep, Start, Compute, CheckSubmitted, Send, WaitMined, Points
      <3> QED
        BY <3>1, FinishEffect, AdvanceEffect
    <2>2. pending' = pending \/ pending' = pending \cup {<<n, report[n][i].target>>}
      BY <1>7 DEF ReportStep, Start, Compute, CheckSubmitted, Send, WaitMined
    <2>3. \A m \in Nodes, j \in ReportIds : report'[m][j].target <= finalized
      <3>1. 0 <= finalized
        OBVIOUS
      <3>2. \A m \in Nodes, j \in ReportIds : report[m][j].target <= finalized
        OBVIOUS
      <3> QED
        BY <2>1, <3>1, <3>2, Zenon
    <2> QED
      BY <2>1, <2>2, <2>3 DEF OnlyFinalizedReported
  <1>8. ASSUME NEW n \in Nodes, NEW i \in ReportIds, Fail(n, i)
        PROVE  FinalInv'
    BY <1>8 DEF Fail, Finish, SetReport, Idle, OnlyFinalizedReported
  <1>9. CASE UNCHANGED vars
    BY <1>9 DEF vars, OnlyFinalizedReported
  <1> QED
    BY <1>1, <1>2, <1>3, <1>4, <1>5, <1>6, <1>7, <1>8, <1>9 DEF Next

(* No vote, recorded or under way, is about a checkpoint that is not       *)
(* finalized, and the agreed checkpoint has a majority                     *)
(* (FindNextSubmissionTarget's test, minutes before the vote is cast).     *)
THEOREM FinalizedReports == Spec => []OnlyFinalizedReported
  <1>1. Init => FinalInv
    BY ReportAssumption
       DEF Init, FinalInv, OnlyFinalizedReported, Rounds, Idle
  <1>2. FinalInv => OnlyFinalizedReported
    BY DEF FinalInv
  <1> QED
    BY <1>1, <1>2, TypeCorrect, FinalStep, PTL DEF Spec

(* Agreement never goes back, and an overtaken checkpoint gets no votes.   *)
THEOREM Advances == Spec => AgreementAdvances
  <1>1. ASSUME TypeOK, [Next]_vars
        PROVE  [/\ agreed' >= agreed
                /\ \A r \in Rounds : r < agreed => votes'[r] = votes[r]]_vars
    <2> USE DEF TypeOK, Rounds
    <2>1. ASSUME NEW n \in Nodes, NEW t \in Rounds, Mine(n, t)
          PROVE  /\ agreed' >= agreed
                 /\ \A r \in Rounds : r < agreed => votes'[r] = votes[r]
      BY <1>1, <2>1, ReportAssumption DEF Mine, Outdated
    <2>2. UNCHANGED <<agreed, votes>> \/ \E n \in Nodes, t \in Rounds : Mine(n, t)
      BY <1>1 DEF Next, vars, NextCheckpoint, Finalize, Observe, Run, Restart,
                  ReportStep, Start, Compute, CheckSubmitted, Send, WaitMined,
                  Fail
    <2> QED
      BY <1>1, <2>1, <2>2, ReportAssumption
  <1> QED
    BY <1>1, TypeCorrect, PTL DEF Spec, AgreementAdvances
=============================================================================
