---------------------------- MODULE RewardsTree ----------------------------
(***************************************************************************)
(* The rewards tree task, submitRewardsTree_Stateless                      *)
(* (watchtower/submit-rewards-tree-stateless.go), of several nodes against *)
(* the contract that counts the Oracle DAO's votes.                        *)
(*                                                                         *)
(* When rewards intervals have passed, a node generates the tree that      *)
(* covers them all, in the background, saves it to disk and, on the Oracle *)
(* DAO, votes for it.  The file outlives a restart, and a later run votes  *)
(* with it again.  Two trees for the same index differ only by the number  *)
(* of intervals they cover, which is what stands for a tree here.          *)
(***************************************************************************)
EXTENDS Naturals, FiniteSets

CONSTANTS
    Nodes,           \* nodes that run the task
    Trusted,         \* those on the Oracle DAO
    MaxElapsed,      \* bound on the intervals that pass, Nat
    MaxGenerations,  \* bound on a node's goroutines, Nat
    MaxFaults,       \* bound on failed generations and restarts, Nat
    MaxFailedRuns    \* bound on the errors of Run itself, Nat

ASSUME RewardsAssumption ==
    /\ IsFiniteSet(Nodes) /\ Trusted \subseteq Nodes
    /\ MaxElapsed \in Nat /\ MaxGenerations \in Nat
    /\ MaxFaults \in Nat /\ MaxFailedRuns \in Nat

\* Reward indices, and numbers of intervals; a file with 0 is not readable.
Counts == 0..MaxElapsed

GenIds == 1..MaxGenerations

VARIABLES
    elapsed,    \* intervals that have passed
    final,      \* is the snapshot epoch of the last one finalized?
    index,      \* contract: the index of the current rewards period
    start,      \* contract: intervals covered by the periods before it
    votes,      \* contract: <<node, index, intervals covered>>
    pending,    \* votes sent and not yet in a block
    view,       \* NetworkState of each node's loop: index, intervals passed
    file,       \* disk: intervals covered by the tree of each index
    isRunning,  \* the task's flag, under its lock
    gen,        \* the generation goroutines of each node
    resubmit,   \* the vote the loop itself is casting
    faults,     \* how many generations failed or daemons restarted
    failedRuns  \* how many runs failed

chainVars == <<elapsed, final, index, start, votes>>
nodeVars == <<view, file, isRunning, gen, resubmit>>
faultVars == <<faults, failedRuns>>
vars == <<chainVars, pending, nodeVars, faultVars>>

Points == {"idle", "spawned", "generate", "send", "wait", "done"}

Idle == [pc |-> "idle", index |-> 0, passed |-> 0]

NoState == [index |-> 0, passed |-> 0]

Quorum(V) == 2 * Cardinality(V) > Cardinality(Trusted)

Init ==
    /\ elapsed = 0 /\ final = TRUE
    /\ index = 0 /\ start = 0
    /\ votes = {} /\ pending = {}
    /\ view = [n \in Nodes |-> NoState]
    /\ file = [n \in Nodes |-> [i \in Counts |-> 0]]
    /\ isRunning = [n \in Nodes |-> FALSE]
    /\ gen = [n \in Nodes |-> [g \in GenIds |-> Idle]]
    /\ resubmit = [n \in Nodes |-> Idle]
    /\ faults = 0 /\ failedRuns = 0

(***************************************************************************)
(* The chain and the contract.                                             *)
(***************************************************************************)
IntervalPasses ==
    /\ elapsed < MaxElapsed
    /\ elapsed' = elapsed + 1
    /\ final' = FALSE
    /\ UNCHANGED <<index, start, votes, pending, nodeVars, faultVars>>

Finalize ==
    /\ ~final
    /\ final' = TRUE
    /\ UNCHANGED <<elapsed, index, start, votes, pending, nodeVars, faultVars>>

(* "Can only submit snapshot for next period", and no vote twice.  The     *)
(* majority moves the period's start on by the intervals its tree covers.  *)
Rejected(n, i, k) == i # index \/ <<n, i, k>> \in votes

Mine(n, i, k) ==
    /\ <<n, i, k>> \in pending
    /\ pending' = pending \ {<<n, i, k>>}
    /\ IF Rejected(n, i, k)
       THEN UNCHANGED <<votes, index, start>>
       ELSE /\ votes' = votes \cup {<<n, i, k>>}
            /\ IF Quorum({m \in Nodes : <<m, i, k>> \in votes'})
               THEN index' = index + 1 /\ start' = start + k
               ELSE UNCHANGED <<index, start>>
    /\ UNCHANGED <<elapsed, final, nodeVars, faultVars>>

(***************************************************************************)
(* The task loop of node n.                                                *)
(***************************************************************************)
\* Mutant: the intervals are counted from the first period's start.
ObserveMutant(n) ==
    /\ resubmit[n] = Idle
    /\ view' = [view EXCEPT ![n] = [index |-> index, passed |-> elapsed]]
    /\ UNCHANGED <<chainVars, pending, file, isRunning, gen, resubmit, faultVars>>

\* updateNetworkState at the top of the loop.
Observe(n) ==
    /\ resubmit[n] = Idle
    /\ view' = [view EXCEPT ![n] = [index |-> index, passed |-> elapsed - start]]
    /\ UNCHANGED <<chainVars, pending, file, isRunning, gen, resubmit, faultVars>>

\* getSnapshotEnd: an error until the epoch after the snapshot is finalized.
SnapshotFinal(n) ==
    final \/ view[n] # [index |-> index, passed |-> elapsed - start]

isExistingRewardsFileValid(n) == file[n][view[n].index] = view[n].passed

\* Mutant: a saved tree is taken for a submitted one.
hasSubmittedTreeMutant(n, i) == file[n][i] # 0

\* By the contract's record of the index, whatever tree the vote was for.
hasSubmittedTree(n, i) == \E k \in Counts : <<n, i, k>> \in votes

Job(n, here) ==
    [pc |-> here, index |-> view[n].index, passed |-> view[n].passed]

(* Run, as far as the flag: nothing is done while a generation is under    *)
(* way.  A goroutine sets the flag as soon as it is scheduled, long before *)
(* the loop comes round again.                                             *)
Due(n) ==
    /\ resubmit[n] = Idle
    /\ \A g \in GenIds : gen[n][g].pc # "spawned"
    /\ view[n].passed # 0
    /\ SnapshotFinal(n)
    /\ ~isRunning[n]

RunResubmits(n) ==
    /\ Due(n)
    /\ isExistingRewardsFileValid(n)
    /\ n \in Trusted
    /\ ~hasSubmittedTree(n, view[n].index)
    /\ resubmit' = [resubmit EXCEPT ![n] = Job(n, "send")]
    /\ UNCHANGED <<chainVars, pending, view, file, isRunning, gen, faultVars>>

RunGenerates(n) ==
    /\ Due(n)
    /\ ~isExistingRewardsFileValid(n)
    /\ \E g \in GenIds :
           /\ gen[n][g] = Idle
           /\ \A h \in 1..(g - 1) : gen[n][h] # Idle
           /\ gen' = [gen EXCEPT ![n][g] = Job(n, "spawned")]
    /\ UNCHANGED <<chainVars, pending, view, file, isRunning, resubmit, faultVars>>

(* submitRewardsSnapshot: the gas estimate fails for a vote cast before;   *)
(* one for a past period is sent all the same, as a health check with too  *)
(* little gas to succeed.                                                  *)
EstimateFails(n, j) == j.index = index /\ Rejected(n, j.index, j.passed)

Vote(n, j) == <<n, j.index, j.passed>>

Resubmit(n) ==
    /\ resubmit[n].pc = "send"
    /\ IF EstimateFails(n, resubmit[n])
       THEN resubmit' = [resubmit EXCEPT ![n] = Idle] /\ UNCHANGED pending
       ELSE /\ pending' = pending \cup {Vote(n, resubmit[n])}
            /\ resubmit' = [resubmit EXCEPT ![n].pc = "wait"]
    /\ UNCHANGED <<chainVars, view, file, isRunning, gen, faultVars>>

ResubmitMined(n) ==
    /\ resubmit[n].pc = "wait"
    /\ Vote(n, resubmit[n]) \notin pending
    /\ resubmit' = [resubmit EXCEPT ![n] = Idle]
    /\ UNCHANGED <<chainVars, pending, view, file, isRunning, gen, faultVars>>

(***************************************************************************)
(* Generation goroutine g of node n: generateTree and generateTreeImpl.    *)
(***************************************************************************)
GenAt(n, g, here) == gen[n][g].pc = here

GoTo(n, g, there) == gen' = [gen EXCEPT ![n][g].pc = there]

SetFlag(n, b) == isRunning' = [isRunning EXCEPT ![n] = b]

Start(n, g) ==
    /\ GenAt(n, g, "spawned")
    /\ GoTo(n, g, "generate")
    /\ SetFlag(n, TRUE)
    /\ UNCHANGED <<chainVars, pending, view, file, resubmit, faultVars>>

\* Mutant: the vote is cast before the files are saved.
SaveFilesMutant(n, g) ==
    /\ GenAt(n, g, "generate")
    /\ GoTo(n, g, IF n \in Trusted THEN "send" ELSE "done")
    /\ UNCHANGED <<chainVars, pending, view, file, isRunning, resubmit, faultVars>>

SaveFiles(n, g) ==
    /\ GenAt(n, g, "generate")
    /\ file' = [file EXCEPT ![n][gen[n][g].index] = gen[n][g].passed]
    /\ GoTo(n, g, IF n \in Trusted THEN "send" ELSE "done")
    /\ UNCHANGED <<chainVars, pending, view, isRunning, resubmit, faultVars>>

\* An error of generateTreeImpl: handleError clears the flag, the end again.
HandleError(n, g) == GoTo(n, g, "done") /\ SetFlag(n, FALSE)

Submit(n, g) ==
    /\ GenAt(n, g, "send")
    /\ IF EstimateFails(n, gen[n][g])
       THEN HandleError(n, g) /\ UNCHANGED pending
       ELSE /\ pending' = pending \cup {Vote(n, gen[n][g])}
            /\ GoTo(n, g, "wait")
            /\ UNCHANGED isRunning
    /\ UNCHANGED <<chainVars, view, file, resubmit, faultVars>>

SubmitMined(n, g) ==
    /\ GenAt(n, g, "wait")
    /\ Vote(n, gen[n][g]) \notin pending
    /\ GoTo(n, g, "done")
    /\ UNCHANGED <<chainVars, pending, view, file, isRunning, resubmit, faultVars>>

Done(n, g) ==
    /\ GenAt(n, g, "done")
    /\ gen' = [gen EXCEPT ![n][g] = Idle]
    /\ SetFlag(n, FALSE)
    /\ UNCHANGED <<chainVars, pending, view, file, resubmit, faultVars>>

GenStep(n, g) ==
    \/ Start(n, g)
    \/ SaveFiles(n, g)
    \/ Submit(n, g)
    \/ SubmitMined(n, g)
    \/ Done(n, g)

LoopStep(n) == Resubmit(n) \/ ResubmitMined(n)

(***************************************************************************)
(* Failed requests and restarts.                                           *)
(***************************************************************************)
\* Mutant: no client, and the goroutine returns without handleError.
NoClientMutant(n, g) ==
    /\ faults < MaxFaults
    /\ GenAt(n, g, "generate")
    /\ gen' = [gen EXCEPT ![n][g] = Idle]
    /\ faults' = faults + 1
    /\ UNCHANGED <<chainVars, pending, view, file, isRunning, resubmit, failedRuns>>

\* No client has the snapshot block: handleError and return.
NoClient(n, g) ==
    /\ faults < MaxFaults
    /\ GenAt(n, g, "generate")
    /\ gen' = [gen EXCEPT ![n][g] = Idle]
    /\ SetFlag(n, FALSE)
    /\ faults' = faults + 1
    /\ UNCHANGED <<chainVars, pending, view, file, resubmit, failedRuns>>

GenerationFails(n, g) ==
    /\ faults < MaxFaults
    /\ gen[n][g].pc \in {"generate", "send", "wait"}
    /\ HandleError(n, g)
    /\ faults' = faults + 1
    /\ UNCHANGED <<chainVars, pending, view, file, resubmit, failedRuns>>

\* An error of Run itself.
ResubmitFails(n) ==
    /\ failedRuns < MaxFailedRuns
    /\ resubmit[n] # Idle
    /\ resubmit' = [resubmit EXCEPT ![n] = Idle]
    /\ failedRuns' = failedRuns + 1
    /\ UNCHANGED <<chainVars, pending, view, file, isRunning, gen, faults>>

\* A restart in the middle of SaveFiles leaves a file that is not readable.
Truncated(n) ==
    {file[n]} \cup {[file[n] EXCEPT ![gen[n][g].index] = 0] :
                       g \in {h \in GenIds : GenAt(n, h, "generate")}}

Restart(n) ==
    /\ faults < MaxFaults
    /\ gen' = [gen EXCEPT ![n] = [g \in GenIds |-> Idle]]
    /\ SetFlag(n, FALSE)
    /\ resubmit' = [resubmit EXCEPT ![n] = Idle]
    /\ \E f \in Truncated(n) : file' = [file EXCEPT ![n] = f]
    /\ view' = [view EXCEPT ![n] = NoState]
    /\ faults' = faults + 1
    /\ UNCHANGED <<chainVars, pending, failedRuns>>

Next ==
    \/ IntervalPasses
    \/ Finalize
    \/ \E n \in Trusted, i, k \in Counts : Mine(n, i, k)
    \/ \E n \in Nodes : Observe(n) \/ RunResubmits(n) \/ RunGenerates(n)
    \/ \E n \in Nodes : LoopStep(n) \/ ResubmitFails(n) \/ Restart(n)
    \/ \E n \in Nodes, g \in GenIds :
           GenStep(n, g) \/ NoClient(n, g) \/ GenerationFails(n, g)

(* The chain goes on, transactions get into blocks, every node's loop goes *)
(* round, and goroutines are scheduled.  Run can be disabled again and     *)
(* again by a generation that is under way, hence SF.                      *)
Fairness ==
    /\ WF_vars(IntervalPasses) /\ WF_vars(Finalize)
    /\ \A n \in Trusted, i, k \in Counts : WF_vars(Mine(n, i, k))
    /\ \A n \in Nodes : /\ WF_vars(Observe(n)) /\ WF_vars(LoopStep(n))
                        /\ SF_vars(RunResubmits(n)) /\ SF_vars(RunGenerates(n))
    /\ \A n \in Nodes, g \in GenIds : WF_vars(GenStep(n, g))

Spec == Init /\ [][Next]_vars /\ Fairness
-----------------------------------------------------------------------------
Jobs == [pc : Points, index : Counts, passed : Counts]

(* The type invariant of the rewards task and its contract: the start of   *)
(* the period never overtakes the intervals that have passed.              *)
TypeOK ==
    /\ elapsed \in Counts /\ final \in BOOLEAN
    /\ index \in Counts /\ start \in 0..elapsed
    /\ votes \subseteq Trusted \X Counts \X Counts
    /\ pending \subseteq Trusted \X Counts \X Counts
    /\ view \in [Nodes -> [index : Counts, passed : Counts]]
    /\ file \in [Nodes -> [Counts -> Counts]]
    /\ isRunning \in [Nodes -> BOOLEAN]
    /\ gen \in [Nodes -> [GenIds -> Jobs]]
    /\ resubmit \in [Nodes -> Jobs]
    /\ faults \in 0..MaxFaults /\ failedRuns \in 0..MaxFailedRuns

Generating(n, g) == gen[n][g].pc \in {"generate", "send", "wait"}

(* A set flag means that a goroutine is there to clear it: no error path   *)
(* of generateTree leaves the task switched off.                           *)
FlagIsCleared ==
    \A n \in Nodes :
        isRunning[n] => \E g \in GenIds : Generating(n, g) \/ GenAt(n, g, "done")

(* A tree is saved before it is voted for: whenever a vote is sent, by a   *)
(* goroutine or by a later run, a readable tree of its index is on the     *)
(* member's disk, so that a crash after the vote finds it.                 *)
TreeSavedBeforeVote ==
    [][\A v \in pending' \ pending : file[v[1]][v[2]] # 0]_vars

(* A tree on disk that covers all open intervals, hidden by an older vote  *)
(* of the same index: hasSubmittedTree keeps the node from voting for it.  *)
HiddenVote(n) ==
    /\ file[n][index] = elapsed - start
    /\ <<n, index, elapsed - start>> \notin votes \cup pending
    /\ \E k \in Counts : <<n, index, k>> \in votes

(* All intervals that pass end up covered by a period the Oracle DAO has   *)
(* agreed on, however they are rolled into one tree and wherever a request *)
(* failed or a daemon restarted, but for one case: the vote of a member is *)
(* hidden for good.                                                        *)
OnlyHiddenVotesAreMissing ==
    <>(start = MaxElapsed) \/ <>[](\E n \in Trusted : HiddenVote(n))
=============================================================================
