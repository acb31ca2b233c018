----------------------------- MODULE Minipools -----------------------------
(***************************************************************************)
(* The duties around minipools.  The watchtowers of the Oracle DAO vote to *)
(* scrub minipools with bad deposits (submitScrubMinipools), bad solo      *)
(* migrations (checkSoloMigrations), vote to cancel the bond reductions of *)
(* unfit validators (cancelBondReductions) and dissolve minipools that     *)
(* timed out (dissolveTimedOutMinipools).  The node stakes its minipools   *)
(* after the scrub period (stakePrelaunchMinipools), promotes migrated     *)
(* ones (promoteMinipools) and reduces bonds (reduceBonds).                *)
(*                                                                         *)
(* Nobody talks to anybody: deadlines alone keep the node from acting      *)
(* before the votes are in.  Time is counted in units in which every       *)
(* daemon runs its loop once; all minipools were created, or asked for a   *)
(* reduction, at time 0.                                                   *)
(***************************************************************************)
EXTENDS Integers, Sequences, FiniteSets

CONSTANTS
    Members,          \* members of the Oracle DAO
    Quorum,           \* votes that decide, Nat
    Minipools,        \* the node's minipools, 1..n in the order of its state
    ScrubPeriod,      \* a minipool can be staked after it, Nat
    PromotionPeriod,  \* a vacant minipool can be promoted after it, Nat
    WindowStart,      \* a bond can be reduced after it, Nat
    WindowLength,     \* and for this long, Nat
    LaunchTimeout,    \* a minipool can be dissolved from here on, Nat
    MaxFaults         \* bound on failed requests of each daemon, Nat

ASSUME MinipoolAssumption ==
    /\ Minipools \subseteq Nat /\ Minipools # {}
    /\ IsFiniteSet(Members) /\ 0 \notin Members
    /\ \A t \in {Quorum, ScrubPeriod, PromotionPeriod, WindowStart, WindowLength, LaunchTimeout} :
           t \in Nat \ {0}
    /\ MaxFaults \in Nat

\* All members together decide.
ASSUME QuorumAssumption == Quorum <= Cardinality(Members)

(* In the second half of a scrub or promotion period, and from there, or   *)
(* from half of the launch timeout, to its end, a daemon runs more often   *)
(* than its requests may fail; a minipool can be dissolved in the very     *)
(* unit of time in which the timeout ends.                                 *)
ASSUME PeriodsAssumption ==
    /\ \A period \in {ScrubPeriod, PromotionPeriod} : period - (period \div 2) > MaxFaults
    /\ \A due \in {ScrubPeriod, PromotionPeriod, LaunchTimeout \div 2} :
           LaunchTimeout - due > MaxFaults + 1

\* What a minipool is: new, from a solo validator, or one reducing its bond.
Histories ==
    [kind : {"new"}, validator : {"good", "frontrun", "badsig", "missing"}]
        \cup [kind : {"vacant"}, validator : {"bls", "unfit"}]
        \cup [kind : {"reducing"}, validator : {"fit", "unfit"}]

MaxTime == LaunchTimeout + 1

VARIABLES
    now,
    kind,       \* "new", "vacant" or "reducing"
    validator,  \* what is known of its deposit, or of its validator
    since,      \* the time that changed last
    onBeacon,   \* new minipools whose deposit the Beacon chain has processed
    lost,       \* minipools whose key the wallet does not have
    status,     \* "Prelaunch", "Staking" or "Dissolved"
    bond,       \* minipools with a bond that was reduced
    votes,      \* votes to scrub it, or to cancel its reduction
    check,      \* the background checks of a member's watchtower
    done,       \* daemons that have finished their loop in this unit of time
    nodeTask,   \* the node's loop: its task, its view and what it has to do
    faults      \* failed requests of a daemon

env == <<kind, validator, since, onBeacon, lost>>
vars == <<now, env, status, bond, votes, check, done, nodeTask, faults>>

Node == 0

Cancelled(mp) == Cardinality(votes[mp]) >= Quorum

\* The NetworkState of a daemon's loop.
View == [time |-> now, status |-> status, validator |-> validator, onBeacon |-> onBeacon,
         bond |-> bond, cancelled |-> {mp \in Minipools : Cancelled(mp)}]

Idle == [phase |-> "idle"]

First(S) == CHOOSE mp \in S : \A other \in S : mp <= other

(* The first minipool has any history; the others are good, are on the     *)
(* Beacon chain, have their keys and are there to be held up by the first. *)
Init ==
    /\ now = 0
    /\ \E h \in [Minipools -> Histories] :
           /\ \A mp \in Minipools \ {First(Minipools)} :
                  h[mp] = [kind |-> "new", validator |-> "good"]
           /\ kind = [mp \in Minipools |-> h[mp].kind]
           /\ validator = [mp \in Minipools |-> h[mp].validator]
           /\ status = [mp \in Minipools |->
                           IF h[mp].kind = "reducing" THEN "Staking" ELSE "Prelaunch"]
    /\ lost \in SUBSET {mp \in {First(Minipools)} : kind[mp] = "new"}
    /\ since = [mp \in Minipools |-> 0]
    /\ onBeacon = Minipools \ {First(Minipools)} /\ bond = {}
    /\ votes = [mp \in Minipools |-> {}]
    /\ check = [m \in Members |-> Idle]
    /\ done = {}
    /\ nodeTask = Idle
    /\ faults = [d \in Members \cup {Node} |-> 0]

(***************************************************************************)
(* The world.                                                              *)
(***************************************************************************)
\* Every daemon runs its loop in every unit of time.
Tick ==
    /\ now < MaxTime
    /\ done = Members \cup {Node}
    /\ now' = now + 1
    /\ done' = {}
    /\ UNCHANGED <<env, status, bond, votes, check, nodeTask, faults>>

\* The first valid deposit counts; one with a bad signature never does.
BeaconProcesses(mp) ==
    /\ kind[mp] = "new" /\ validator[mp] \in {"good", "frontrun"}
    /\ mp \notin onBeacon
    /\ onBeacon' = onBeacon \cup {mp}
    /\ UNCHANGED <<now, kind, validator, since, lost, status, bond, votes, check, done, nodeTask, faults>>

\* The operator sets the withdrawal credentials, or the validator exits.
ValidatorChanges(mp) ==
    /\ \E v \in {"right", "wrong", "unfit"} :
           /\ v \in {"right", "wrong"} => kind[mp] = "vacant" /\ validator[mp] = "bls"
           /\ v = "unfit" => kind[mp] # "new" /\ validator[mp] # "unfit"
           /\ validator' = [validator EXCEPT ![mp] = v]
    /\ since' = [since EXCEPT ![mp] = now]
    /\ UNCHANGED <<now, kind, onBeacon, lost, status, bond, votes, check, done, nodeTask, faults>>

(***************************************************************************)
(* The contracts: what they accept, and what a vote does.                  *)
(***************************************************************************)
CanVote(m, mp) ==
    /\ m \notin votes[mp]
    /\ Cardinality(votes[mp]) < Quorum
    /\ IF kind[mp] = "reducing" THEN mp \notin bond ELSE status[mp] = "Prelaunch"

Vote(m, mps) ==
    LET cast == {mp \in mps : CanVote(m, mp)}
    IN  /\ votes' = [mp \in Minipools |-> IF mp \in cast THEN votes[mp] \cup {m} ELSE votes[mp]]
        /\ status' = [mp \in Minipools |->
                         IF mp \in cast /\ kind[mp] # "reducing"
                            /\ Cardinality(votes'[mp]) >= Quorum
                         THEN "Dissolved" ELSE status[mp]]

(***************************************************************************)
(* The watchtower of a member.  A check is a goroutine that works on the   *)
(* network state it was started with; left are the minipools in it.  The   *)
(* three checks run beside each other, on different minipools, so one after *)
(* the other will do.                                                      *)
(***************************************************************************)
\* Mutant: vacant minipools are checked for scrubs, too.
StartCheckMutant(m) ==
    /\ check[m].phase = "idle"
    /\ m \notin done
    /\ check' = [check EXCEPT ![m] =
           [phase |-> "beacon", view |-> View,
            left |-> {mp \in Minipools : status[mp] = "Prelaunch"}]]
    /\ UNCHANGED <<now, env, status, bond, votes, done, nodeTask, faults>>

StartCheck(m) ==
    /\ check[m].phase = "idle"
    /\ m \notin done
    /\ check' = [check EXCEPT ![m] =
           [phase |-> "beacon", view |-> View,
            left |-> {mp \in Minipools : kind[mp] = "new" /\ status[mp] = "Prelaunch"}]]
    /\ UNCHANGED <<now, env, status, bond, votes, done, nodeTask, faults>>

\* The end of one step of the scrub check; with nothing left it is the last.
Proceed(m, phase, left) ==
    check' = [check EXCEPT ![m] = [@ EXCEPT !.phase = IF left = {} THEN "solo" ELSE phase,
                                            !.left = left]]

verifyBeaconWithdrawalCredentials(m) ==
    LET seen == check[m].left \cap check[m].view.onBeacon
    IN  /\ check[m].phase = "beacon"
        /\ Vote(m, {mp \in seen : validator[mp] # "good"})
        /\ Proceed(m, "prestake", check[m].left \ seen)
        /\ UNCHANGED <<now, env, bond, done, nodeTask, faults>>

verifyPrestakeEvents(m) ==
    LET bad == {mp \in check[m].left : validator[mp] = "badsig"}
    IN  /\ check[m].phase = "prestake"
        /\ Vote(m, bad)
        /\ Proceed(m, "deposits", check[m].left \ bad)
        /\ UNCHANGED <<now, env, bond, done, nodeTask, faults>>

\* Deposits without a valid signature are ignored.
verifyDeposits(m) ==
    LET found == {mp \in check[m].left : validator[mp] \in {"good", "frontrun"}}
    IN  /\ check[m].phase = "deposits"
        /\ Vote(m, {mp \in found : validator[mp] # "good"})
        /\ Proceed(m, "safety", check[m].left \ found)
        /\ UNCHANGED <<now, env, bond, done, nodeTask, faults>>

\* Mutant: the safety scrub waits for all of the scrub period.
LateSafetyScrub(m) ==
    /\ check[m].phase = "safety"
    /\ Vote(m, IF check[m].view.time > ScrubPeriod THEN check[m].left ELSE {})
    /\ Proceed(m, "solo", {})
    /\ UNCHANGED <<now, env, bond, done, nodeTask, faults>>

checkSafetyScrub(m) ==
    /\ check[m].phase = "safety"
    /\ Vote(m, IF check[m].view.time > ScrubPeriod \div 2 THEN check[m].left ELSE {})
    /\ Proceed(m, "solo", {})
    /\ UNCHANGED <<now, env, bond, done, nodeTask, faults>>

\* Mutant: the credentials must be right from the start.
BadMigrationMutant(view, mp) ==
    /\ kind[mp] = "vacant" /\ view.status[mp] # "Dissolved"
    /\ view.validator[mp] # "right"

\* A vacant minipool must be fit, and get its new credentials in half the period.
BadMigration(view, mp) ==
    /\ kind[mp] = "vacant" /\ view.status[mp] # "Dissolved"
    /\ \/ view.validator[mp] \in {"wrong", "unfit"}
       \/ view.validator[mp] = "bls" /\ view.time > PromotionPeriod \div 2

checkSoloMigrationsOf(m) ==
    /\ check[m].phase = "solo"
    /\ Vote(m, {mp \in Minipools : BadMigration(check[m].view, mp)})
    /\ check' = [check EXCEPT ![m].phase = "bonds"]
    /\ UNCHANGED <<now, env, bond, done, nodeTask, faults>>

EndChecks(m) ==
    /\ check' = [check EXCEPT ![m] = Idle]
    /\ done' = done \cup {m}

checkBondReductions(m) ==
    /\ check[m].phase = "bonds"
    /\ Vote(m, {mp \in Minipools :
                   /\ kind[mp] = "reducing" /\ mp \notin check[m].view.bond
                   /\ check[m].view.validator[mp] = "unfit"})
    /\ EndChecks(m)
    /\ UNCHANGED <<now, env, bond, nodeTask, faults>>

(* A request or a vote fails.  A prestake event that cannot be read is     *)
(* left to the next step, handleError ends the scrub check, and the other  *)
(* checks log the error and go on.                                         *)
CheckFails(m) ==
    /\ check[m].phase # "idle"
    /\ faults[m] < MaxFaults
    /\ faults' = [faults EXCEPT ![m] = @ + 1]
    /\ CASE check[m].phase = "prestake" -> Proceed(m, "deposits", check[m].left) /\ UNCHANGED done
         [] check[m].phase \in {"beacon", "deposits", "safety"} ->
                Proceed(m, "solo", {}) /\ UNCHANGED done
         [] check[m].phase = "solo" ->
                check' = [check EXCEPT ![m].phase = "bonds"] /\ UNCHANGED done
         [] check[m].phase = "bonds" -> EndChecks(m)
    /\ UNCHANGED <<now, env, status, bond, votes, nodeTask>>

\* dissolveTimedOutMinipools: any member, and the contract decides.
dissolveMinipool(mp) ==
    /\ status[mp] = "Prelaunch"
    /\ now >= LaunchTimeout
    /\ status' = [status EXCEPT ![mp] = "Dissolved"]
    /\ UNCHANGED <<now, env, bond, votes, check, done, nodeTask, faults>>

(***************************************************************************)
(* The node's daemon: one task after the other on one view.                *)
(***************************************************************************)
NodeUpdates ==
    /\ nodeTask.phase = "idle"
    /\ Node \notin done
    /\ nodeTask' = [phase |-> "stake", view |-> View,
                    todo |-> {mp \in Minipools : kind[mp] = "new" /\ status[mp] = "Prelaunch"
                                                 /\ now > ScrubPeriod}]
    /\ UNCHANGED <<now, env, status, bond, votes, check, done, faults>>

\* What the tasks find to do in the view.
Todo(phase) ==
    LET view == nodeTask.view
    IN  IF phase = "promote"
        THEN {mp \in Minipools : kind[mp] = "vacant" /\ view.status[mp] = "Prelaunch"
                                 /\ view.time > PromotionPeriod}
        ELSE {mp \in Minipools : kind[mp] = "reducing" /\ mp \notin view.bond \cup view.cancelled
                                 /\ view.time > WindowStart
                                 /\ view.time < WindowStart + WindowLength}

\* The end of a task, with or without an error, starts the next one.
NextTask ==
    LET next == CASE nodeTask.phase = "stake" -> "reduce"
                  [] nodeTask.phase = "reduce" -> "promote"
                  [] nodeTask.phase = "promote" -> "idle"
    IN  /\ nodeTask' = IF next = "idle" THEN Idle
                       ELSE [nodeTask EXCEPT !.phase = next, !.todo = Todo(next)]
        /\ done' = IF next = "idle" THEN done \cup {Node} ELSE done

TaskDone ==
    /\ nodeTask.phase # "idle"
    /\ nodeTask.todo = {}
    /\ NextTask
    /\ UNCHANGED <<now, env, status, bond, votes, check, faults>>

\* Mutant: due when it is too late.
IsTransactionDueMutant == now > LaunchTimeout

\* IsTransactionDue: half of the launch timeout has passed.
IsTransactionDue == now > LaunchTimeout \div 2

Accepts(mp) ==
    CASE kind[mp] = "reducing" ->
             ~Cancelled(mp) /\ now > WindowStart /\ now < WindowStart + WindowLength
      [] kind[mp] = "new" -> status[mp] = "Prelaunch" /\ now > ScrubPeriod
      [] kind[mp] = "vacant" -> status[mp] = "Prelaunch" /\ now > PromotionPeriod

(* stakeMinipool, promoteMinipool and reduceBond of the next minipool.  An *)
(* error (no key, a transaction that would revert) ends the task.          *)
Submit ==
    LET mp == First(nodeTask.todo)
    IN  /\ nodeTask.phase # "idle"
        /\ nodeTask.todo # {}
        /\ IF mp \in lost \/ ~Accepts(mp)
           THEN NextTask /\ UNCHANGED <<status, bond>>
           ELSE /\ status' = [status EXCEPT ![mp] = "Staking"]
                /\ bond' = IF kind[mp] = "reducing" THEN bond \cup {mp} ELSE bond
                /\ nodeTask' = [nodeTask EXCEPT !.todo = @ \ {mp}]
                /\ UNCHANGED done
        /\ UNCHANGED <<now, env, votes, check, faults>>

(* Gas is too expensive.  A bond reduction waits for its next chance, the  *)
(* others until they are due.                                              *)
GasTooHigh ==
    LET mp == First(nodeTask.todo)
    IN  /\ nodeTask.phase # "idle"
        /\ nodeTask.todo # {}
        /\ mp \notin lost /\ Accepts(mp)
        /\ kind[mp] = "reducing" \/ ~IsTransactionDue
        /\ nodeTask' = [nodeTask EXCEPT !.todo = @ \ {mp}]
        /\ UNCHANGED <<now, env, status, bond, votes, check, done, faults>>

RequestFails ==
    /\ nodeTask.phase # "idle"
    /\ faults[Node] < MaxFaults
    /\ faults' = [faults EXCEPT ![Node] = @ + 1]
    /\ NextTask
    /\ UNCHANGED <<now, env, status, bond, votes, check>>

Next ==
    \/ Tick
    \/ \E mp \in Minipools : BeaconProcesses(mp) \/ ValidatorChanges(mp) \/ dissolveMinipool(mp)
    \/ \E m \in Members :
           \/ StartCheck(m) \/ verifyBeaconWithdrawalCredentials(m) \/ verifyPrestakeEvents(m)
           \/ verifyDeposits(m) \/ checkSafetyScrub(m) \/ checkSoloMigrationsOf(m)
           \/ checkBondReductions(m) \/ CheckFails(m)
    \/ NodeUpdates \/ TaskDone \/ Submit \/ GasTooHigh \/ RequestFails

Spec == Init /\ [][Next]_vars
-----------------------------------------------------------------------------
Phases == {"beacon", "prestake", "deposits", "safety", "solo", "bonds"}

(* Types; the scrub check has no vacant minipool, whose credentials are    *)
(* wrong by design, and the node's tasks only minipools of their kind.     *)
TypeOK ==
    /\ now \in 0..MaxTime
    /\ \A mp \in Minipools :
           /\ kind[mp] \in {"new", "vacant", "reducing"}
           /\ status[mp] \in {"Prelaunch", "Staking", "Dissolved"}
           /\ since[mp] \in 0..now
           /\ votes[mp] \subseteq Members
    /\ \A m \in Members : check[m] # Idle =>
           /\ check[m].phase \in Phases
           /\ \A mp \in check[m].left : kind[mp] = "new"
    /\ nodeTask # Idle => \A mp \in nodeTask.todo :
           kind[mp] = CASE nodeTask.phase = "stake" -> "new"
                        [] nodeTask.phase = "reduce" -> "reducing"
                        [] nodeTask.phase = "promote" -> "vacant"

\* Nothing is wrong with it, and nothing was when it mattered.
Good(mp) ==
    \/ kind[mp] = "new" /\ validator[mp] = "good"
    \/ kind[mp] = "vacant" /\ validator[mp] = "right" /\ since[mp] <= PromotionPeriod \div 2
    \/ kind[mp] = "reducing" /\ validator[mp] = "fit"

(* No member votes against a good minipool, whatever requests fail and     *)
(* however old the state is that a check works on; a migration counts as   *)
(* good if its credentials are set in half the period.                     *)
GoodIsSafe == \A mp \in Minipools : Good(mp) => votes[mp] = {}

(* The waiting times of stakePrelaunchMinipools, promoteMinipools and      *)
(* reduceBonds leave the members time to vote: no minipool with a bad      *)
(* deposit is staked, none with a bad migration promoted, and no bond of   *)
(* an unfit validator reduced, unless it went bad at the last moment.      *)
BadIsStopped ==
    \A mp \in Minipools :
        LET Late(deadline) == since[mp] + MaxFaults + 1 > deadline
        IN  /\ kind[mp] = "new" /\ status[mp] = "Staking" => validator[mp] = "good"
            /\ kind[mp] = "vacant" /\ status[mp] = "Staking" =>
                   validator[mp] = "right" \/ Late(PromotionPeriod)
            /\ mp \in bond => validator[mp] = "fit" \/ Late(WindowStart)

(* "NOTICE: The minipool has exceeded half of the timeout period, so it    *)
(* will be force-staked": a good minipool is never dissolved, at whatever  *)
(* gas price and over failed requests; unless another one comes first in   *)
(* the list whose key is missing, for its error ends the task every time.  *)
GoodIsLaunched ==
    \A mp \in Minipools :
        Good(mp) /\ (\A other \in lost : other > mp) => status[mp] # "Dissolved"
=============================================================================
