--------------------------- MODULE OracleReports ---------------------------
(***************************************************************************)
(* The background report tasks of the Oracle DAO's watchtowers:            *)
(* submitNetworkBalances (watchtower/submit-network-balances.go) and       *)
(* submitRplPrice (watchtower/submit-rpl-price.go), run by several nodes   *)
(* against the contract that counts their votes.                           *)
(*                                                                         *)
(* Time is counted in submission intervals: checkpoint r is the r-th       *)
(* submission target, 0 stands for "nothing agreed yet".  The values a     *)
(* node reports are a function of the checkpoint, so a vote is the pair    *)
(* of a node and a checkpoint.                                             *)
(***************************************************************************)
EXTENDS Naturals, FiniteSets

CONSTANTS
    Nodes,            \* members of the Oracle DAO
    Kind,             \* "prices" or "balances": which of the two tasks runs
    MaxRound,         \* bound on the checkpoints, Nat
    MaxReports,       \* bound on a node's goroutines, Nat
    MaxFaults,        \* bound on failed requests and restarts, Nat
    MissingSlots,     \* checkpoints whose own slot has no Beacon block
    LateEvents,       \* agreed more than 1000 blocks after the checkpoint
    MegapoolStaking   \* is any megapool validator staking?

Rounds == 0..MaxRound

ReportIds == 1..MaxReports

ASSUME ReportAssumption ==
    /\ IsFiniteSet(Nodes)
    /\ Kind \in {"prices", "balances"}
    /\ MaxRound \in Nat /\ MaxReports \in Nat /\ MaxFaults \in Nat
    /\ MissingSlots \subseteq Rounds \ {0} /\ LateEvents \subseteq Rounds
    /\ MegapoolStaking \in BOOLEAN

VARIABLES
    head,       \* the latest checkpoint the chain's head has passed
    finalized,  \* the latest checkpoint whose epoch is finalized
    votes,      \* contract: who has voted for each checkpoint
    agreed,     \* contract: the latest checkpoint with a majority
    pending,    \* transactions sent and not yet in a block
    view,       \* the NetworkState each node's loop works with
    isRunning,  \* the task's flag, under its lock
    report,     \* the report goroutines of each node
    faults      \* how many requests failed or daemons restarted

vars == <<head, finalized, votes, agreed, pending, view, isRunning, report, faults>>

Points == {"idle", "spawned", "compute", "check", "send", "wait"}

Idle == [pc |-> "idle", target |-> 0]

Quorum(V) == 2 * Cardinality(V) > Cardinality(Nodes)

Init ==
    /\ head = 0
    /\ finalized = 0
    /\ votes = [r \in Rounds |-> {}]
    /\ agreed = 0
    /\ pending = {}
    /\ view = [n \in Nodes |-> [agreed |-> 0, head |-> 0]]
    /\ isRunning = [n \in Nodes |-> FALSE]
    /\ report = [n \in Nodes |-> [i \in ReportIds |-> Idle]]
    /\ faults = 0

(***************************************************************************)
(* The chain and the contract.                                             *)
(***************************************************************************)
NextCheckpoint ==
    /\ head < MaxRound
    /\ head' = head + 1
    /\ UNCHANGED <<finalized, votes, agreed, pending, view, isRunning, report, faults>>

Finalize ==
    /\ finalized' \in (finalized + 1)..head
    /\ UNCHANGED <<head, votes, agreed, pending, view, isRunning, report, faults>>

\* Mutant: the contract takes votes for any checkpoint.
OutdatedMutant(t) == FALSE

(* Why the contract rejects a vote: a later checkpoint is agreed ("Network *)
(* balances for an equal or higher block are set"; a price for the agreed  *)
(* checkpoint itself is recorded), or the node has voted for this one.     *)
Outdated(t) == t < agreed \/ (Kind = "balances" /\ t = agreed)

Duplicate(n, t) == n \in votes[t]

Mine(n, t) ==
    /\ <<n, t>> \in pending
    /\ pending' = pending \ {<<n, t>>}
    /\ IF Outdated(t) \/ Duplicate(n, t)
       THEN UNCHANGED <<votes, agreed>>
       ELSE /\ votes' = [votes EXCEPT ![t] = @ \cup {n}]
            /\ agreed' = IF Quorum(votes'[t]) THEN t ELSE agreed
    /\ UNCHANGED <<head, finalized, view, isRunning, report, faults>>

(***************************************************************************)
(* The task loop of node n.                                                *)
(***************************************************************************)
\* updateNetworkState at the top of the loop: everything below uses it.
Observe(n) ==
    /\ view' = [view EXCEPT ![n] = [agreed |-> agreed, head |-> head]]
    /\ UNCHANGED <<head, finalized, votes, agreed, pending, isRunning, report, faults>>

(* Has an interval passed since the agreed checkpoint?  Its block is older *)
(* than the checkpoint when that slot is missing, and the interval passes  *)
(* before there is a newer checkpoint.                                     *)
IntervalPassed(n, t) ==
    \/ t > view[n].agreed
    \/ t = view[n].agreed /\ t \in MissingSlots

\* Mutants: the time is rounded up to a checkpoint; finality is not tested.
NextTargetMutant(n) == {t \in {head + 1} : t > view[n].agreed}

NextTargetUnfinalized(n) == {t \in {head} : t > view[n].agreed}

(* FindNextSubmissionTarget: the newest checkpoint, and an error while no  *)
(* interval has passed since the agreed one or its epoch is not finalized. *)
(* submitNetworkBalances also leaves a target alone that is newer than its *)
(* NetworkState.                                                           *)
NextTarget(n) ==
    {t \in {head} : /\ IntervalPassed(n, t)
                    /\ t <= finalized
                    /\ Kind = "balances" => t <= view[n].head}

\* Mutant: the last agreed checkpoint is not looked at.
TookPartMutant(n) == TRUE

(* submitRplPrice first makes up for the last agreed checkpoint, if this   *)
(* node has not voted for it.  It only knows so from the PricesUpdated     *)
(* event, searched in the 1000 blocks after the checkpoint.                *)
TookPart(n) ==
    \/ view[n].agreed \in {0} \cup LateEvents
    \/ n \in votes[view[n].agreed]

Targets(n) ==
    IF Kind = "prices" /\ ~TookPart(n) THEN {view[n].agreed} ELSE NextTarget(n)

SetReport(n, i, r) == report' = [report EXCEPT ![n][i] = r]

(* run: the flag is tested here, but set by the goroutine.  The loop comes *)
(* back after minutes of sleeping, when the goroutine has long started.    *)
Run(n) ==
    /\ \A i \in ReportIds : report[n][i].pc # "spawned"
    /\ ~isRunning[n]
    /\ \E t \in Targets(n), i \in ReportIds :
           /\ report[n][i] = Idle
           /\ SetReport(n, i, [pc |-> "spawned", target |-> t])
    /\ UNCHANGED <<head, finalized, votes, agreed, pending, view, isRunning, faults>>

(***************************************************************************)
(* Report goroutine i of node n.                                           *)
(***************************************************************************)
Advance(n, i, there) ==
    SetReport(n, i, [report[n][i] EXCEPT !.pc = there])

\* Every end of the goroutine, handleError included, clears the flag.
Finish(n, i) ==
    /\ SetReport(n, i, Idle)
    /\ isRunning' = [isRunning EXCEPT ![n] = FALSE]

At(n, i, here) == report[n][i].pc = here

\* Mutant: the goroutine does not set the flag.
StartMutant(n, i) ==
    /\ At(n, i, "spawned")
    /\ Advance(n, i, "compute")
    /\ UNCHANGED <<head, finalized, votes, agreed, pending, view, isRunning, faults>>

Start(n, i) ==
    /\ At(n, i, "spawned")
    /\ isRunning' = [isRunning EXCEPT ![n] = TRUE]
    /\ Advance(n, i, "compute")
    /\ UNCHANGED <<head, finalized, votes, agreed, pending, view, faults>>

(* getNetworkBalances asks for the NetworkState of the target's own slot,  *)
(* which fails when that slot has no block; getRplTwap asks for the block  *)
(* that FindNextSubmissionTarget found.                                    *)
Computable(t) == Kind = "balances" => t \notin MissingSlots

Compute(n, i) ==
    /\ At(n, i, "compute")
    /\ IF Computable(report[n][i].target)
       THEN Advance(n, i, "check") /\ UNCHANGED isRunning
       ELSE Finish(n, i)
    /\ UNCHANGED <<head, finalized, votes, agreed, pending, view, faults>>

(* hasSubmittedSpecificBlockBalances looks up the hash of the minipools'   *)
(* staking balance; what was submitted is the sum with the megapools'.     *)
FindsOwnVote(n, t) ==
    /\ n \in votes[t]
    /\ Kind = "balances" => ~MegapoolStaking

CheckSubmitted(n, i) ==
    /\ At(n, i, "check")
    /\ IF FindsOwnVote(n, report[n][i].target)
       THEN Finish(n, i)
       ELSE Advance(n, i, "send") /\ UNCHANGED isRunning
    /\ UNCHANGED <<head, finalized, votes, agreed, pending, view, faults>>

(* The gas estimate fails for a vote the contract would reject, and ends   *)
(* the report.  Outdated balances are sent all the same, as a health check *)
(* with too little gas to succeed.                                         *)
EstimateFails(n, t) ==
    IF Outdated(t) THEN Kind = "prices" ELSE Duplicate(n, t)

Send(n, i) ==
    /\ At(n, i, "send")
    /\ LET t == report[n][i].target
       IN  IF EstimateFails(n, t)
           THEN Finish(n, i) /\ UNCHANGED pending
           ELSE /\ pending' = pending \cup {<<n, t>>}
                /\ Advance(n, i, "wait")
                /\ UNCHANGED isRunning
    /\ UNCHANGED <<head, finalized, votes, agreed, view, faults>>

WaitMined(n, i) ==
    /\ At(n, i, "wait")
    /\ <<n, report[n][i].target>> \notin pending
    /\ Finish(n, i)
    /\ UNCHANGED <<head, finalized, votes, agreed, pending, view, faults>>

ReportStep(n, i) ==
    \/ Start(n, i)
    \/ Compute(n, i)
    \/ CheckSubmitted(n, i)
    \/ Send(n, i)
    \/ WaitMined(n, i)

\* Mutant: handleError does not clear the flag.
FailMutant(n, i) ==
    /\ faults < MaxFaults
    /\ report[n][i].pc \in {"compute", "check", "send", "wait"}
    /\ SetReport(n, i, Idle)
    /\ faults' = faults + 1
    /\ UNCHANGED <<head, finalized, votes, agreed, pending, view, isRunning>>

\* A request fails anywhere in the goroutine: handleError.
Fail(n, i) ==
    /\ faults < MaxFaults
    /\ report[n][i].pc \in {"compute", "check", "send", "wait"}
    /\ Finish(n, i)
    /\ faults' = faults + 1
    /\ UNCHANGED <<head, finalized, votes, agreed, pending, view>>

\* The daemon restarts: the goroutines are gone, a sent transaction is not.
Restart(n) ==
    /\ faults < MaxFaults
    /\ report' = [report EXCEPT ![n] = [i \in ReportIds |-> Idle]]
    /\ isRunning' = [isRunning EXCEPT ![n] = FALSE]
    /\ faults' = faults + 1
    /\ UNCHANGED <<head, finalized, votes, agreed, pending, view>>

Next ==
    \/ NextCheckpoint
    \/ Finalize
    \/ \E n \in Nodes, t \in Rounds : Mine(n, t)
    \/ \E n \in Nodes : Observe(n) \/ Run(n) \/ Restart(n)
    \/ \E n \in Nodes, i \in ReportIds : ReportStep(n, i) \/ Fail(n, i)

(* The chain goes on, transactions get into blocks, the loop of every node *)
(* goes round, and goroutines are scheduled.  A run can be disabled again  *)
(* and again by a report that is under way, hence SF.                      *)
Fairness ==
    /\ WF_vars(NextCheckpoint) /\ WF_vars(Finalize)
    /\ \A n \in Nodes, t \in Rounds : WF_vars(Mine(n, t))
    /\ \A n \in Nodes : WF_vars(Observe(n)) /\ SF_vars(Run(n))
    /\ \A n \in Nodes, i \in ReportIds : WF_vars(ReportStep(n, i))

Spec == Init /\ [][Next]_vars /\ Fairness
-----------------------------------------------------------------------------
(* The type invariant of the report tasks and the contract.                *)
TypeOK ==
    /\ head \in Rounds /\ finalized \in Rounds
    /\ votes \in [Rounds -> SUBSET Nodes]
    /\ agreed \in Rounds
    /\ pending \subseteq Nodes \X Rounds
    /\ view \in [Nodes -> [agreed : Rounds, head : Rounds]]
    /\ isRunning \in [Nodes -> BOOLEAN]
    /\ report \in [Nodes -> [ReportIds -> [pc : Points, target : Rounds]]]
    /\ faults \in 0..MaxFaults

Active(n, i) == report[n][i].pc \notin {"idle", "spawned"}

(* A node has one report under way at most ("report is already running in  *)
(* the background"), and the flag says so: no end of a report, handleError *)
(* and the early return included, leaves it set, and none clears the flag  *)
(* of another report.                                                      *)
OneReportAtATime ==
    \A n \in Nodes :
        /\ isRunning[n] <=> \E i \in ReportIds : Active(n, i)
        /\ \A i, j \in ReportIds : Active(n, i) /\ Active(n, j) => i = j

(* A checkpoint is only voted for once its epoch is finalized: neither a   *)
(* transaction under way nor a recorded vote is about a block that may     *)
(* still change, and the agreed checkpoint has a majority of the members.  *)
OnlyFinalizedReported ==
    /\ \A r \in Rounds : r > finalized => votes[r] = {}
    /\ \A p \in pending : p[2] <= finalized
    /\ agreed # 0 => Quorum(votes[agreed])

(* Votes are only cast for checkpoints not older than the agreed one, and  *)
(* agreement never goes back.                                              *)
AgreementAdvances ==
    [][/\ agreed' >= agreed
       /\ \A r \in Rounds : r < agreed => votes'[r] = votes[r]]_vars

(* The newest checkpoint is agreed on in the end, after any number of      *)
(* restarts and failed requests and although the nodes report from stale   *)
(* views of the contract, cannot report a checkpoint whose slot was missed *)
(* and, with megapool validators, do not recognise their own votes.        *)
LastCheckpointAgreed == <>(agreed = MaxRound)

(* "If the node didn't participate in consensus, use the last submission   *)
(* block as the target block as a health check": with prices, the vote of  *)
(* every member for the last checkpoint arrives in the end, also when the  *)
(* majority did not need it.                                               *)
EveryoneTakesPart == <>(votes[MaxRound] = Nodes)
=============================================================================
