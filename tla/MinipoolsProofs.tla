-------------------------- MODULE MinipoolsProofs --------------------------
(***************************************************************************)
(* Proofs about Minipools, for every set of members and minipools and all  *)
(* periods that are long enough for the number of failing requests: no     *)
(* member votes against a good minipool, the members stop the bad ones     *)
(* before the node acts, and the node launches the good ones in time.      *)
(*                                                                         *)
(* The argument counts runs.  A daemon that has missed what it had to do   *)
(* in n units of time has had n requests fail, and it has no more than     *)
(* MaxFaults of them to lose.                                              *)
(***************************************************************************)
EXTENDS Minipools, FiniteSetTheorems, TLAPS

(***************************************************************************)
(* Types.                                                                  *)
(***************************************************************************)
Kinds == {"new", "vacant", "reducing"}

\* What may be known of a minipool of a kind.
Known(k) ==
    CASE k = "new" -> {"good", "frontrun", "badsig", "missing"}
      [] k = "vacant" -> {"bls", "right", "wrong", "unfit"}
      [] k = "reducing" -> {"fit", "unfit"}

Validators == UNION {Known(k) : k \in Kinds}

Statuses == {"Prelaunch", "Staking", "Dissolved"}

Tasks == {"stake", "reduce", "promote"}

Daemons == Members \cup {Node}

Views ==
    [time : Nat, status : [Minipools -> Statuses], validator : [Minipools -> Validators],
     onBeacon : SUBSET Minipools, bond : SUBSET Minipools, cancelled : SUBSET Minipools]

\* All variables; what is known of a minipool is of its kind.
Types ==
    /\ now \in Nat /\ now <= MaxTime
    /\ kind \in [Minipools -> Kinds]
    /\ validator \in [Minipools -> Validators]
    /\ \A mp \in Minipools : validator[mp] \in Known(kind[mp])
    /\ since \in [Minipools -> Nat] /\ \A mp \in Minipools : since[mp] <= now
    /\ onBeacon \subseteq Minipools /\ lost \subseteq Minipools
    /\ status \in [Minipools -> Statuses]
    /\ \A mp \in Minipools : kind[mp] = "reducing" => status[mp] = "Staking"
    /\ \A mp \in Minipools : kind[mp] = "vacant" => mp = First(Minipools)
    /\ bond \subseteq Minipools
    /\ votes \in [Minipools -> SUBSET Members]
    /\ check \in [Members -> {Idle} \cup [phase : Phases, view : Views, left : SUBSET Minipools]]
    /\ done \subseteq Daemons
    /\ nodeTask \in {Idle} \cup [phase : Tasks, view : Views, todo : SUBSET Minipools]
    /\ faults \in [Daemons -> Nat] /\ \A d \in Daemons : faults[d] <= MaxFaults

(***************************************************************************)
(* What a view still says of the world: it is of this unit of time, since  *)
(* time does not go on while a daemon is in its loop; and what has changed *)
(* since, has changed in this unit of time and in one direction.           *)
(***************************************************************************)
ViewInv(view) ==
    /\ view.time = now
    /\ view.bond \subseteq bond
    /\ \A mp \in Minipools :
           /\ view.validator[mp] # validator[mp] => since[mp] = now /\ kind[mp] # "new"
           /\ validator[mp] = "bls" => view.validator[mp] = "bls"
           /\ validator[mp] = "right" => view.validator[mp] \in {"bls", "right"}
           /\ validator[mp] = "fit" => view.validator[mp] = "fit"
           /\ status[mp] = "Prelaunch" => view.status[mp] = "Prelaunch"

\* A check is of this unit of time, too, and what is left of it are new minipools.
CheckInv(m) ==
    check[m] # Idle =>
        /\ m \notin done
        /\ ViewInv(check[m].view)
        /\ \A mp \in check[m].left : kind[mp] = "new"
        /\ check[m].phase = "safety" =>
               \A mp \in check[m].left : validator[mp] \notin {"good", "frontrun"}

\* The minipools that a task works on.
TaskKind == [stake |-> "new", reduce |-> "reducing", promote |-> "vacant"]

NodeInv ==
    nodeTask # Idle =>
        /\ Node \notin done
        /\ ViewInv(nodeTask.view)
        /\ \A mp \in nodeTask.todo : kind[mp] = TaskKind[nodeTask.phase]

(***************************************************************************)
(* Good minipools get no votes; nor do those that may yet become good.     *)
(***************************************************************************)
MayBeGood(mp) ==
    kind[mp] = "vacant" /\ validator[mp] = "bls" /\ now <= PromotionPeriod \div 2

SafeInv == \A mp \in Minipools : Good(mp) \/ MayBeGood(mp) => votes[mp] = {}

(***************************************************************************)
(* Bad minipools get a vote in every run of a member that does not fail.   *)
(***************************************************************************)
Bad(mp) ==
    CASE kind[mp] = "new" -> validator[mp] # "good"
      [] kind[mp] = "vacant" -> validator[mp] # "right"
      [] kind[mp] = "reducing" -> validator[mp] = "unfit"

\* The contract still takes votes.
Undecided(mp) ==
    /\ Cardinality(votes[mp]) < Quorum
    /\ IF kind[mp] = "reducing" THEN mp \notin bond ELSE status[mp] = "Prelaunch"

\* Runs that start after it find out that the minipool is bad.
Visible(mp) ==
    CASE kind[mp] = "new" -> ScrubPeriod \div 2
      [] kind[mp] = "vacant" /\ validator[mp] = "bls" -> PromotionPeriod \div 2
      [] OTHER -> since[mp]

\* The member's run of this unit of time is through with the minipool.
Through(m, mp) ==
    \/ m \in done
    \/ check[m] # Idle /\ kind[mp] = "new"
       /\ (check[m].phase \in {"solo", "bonds"} \/ mp \notin check[m].left)
    \/ check[m] # Idle /\ kind[mp] = "vacant" /\ check[m].phase = "bonds"

Missed(m, mp) == now - Visible(mp) - (IF Through(m, mp) THEN 0 ELSE 1)

Tally(m, mp) == Bad(mp) /\ Undecided(mp) /\ m \notin votes[mp] => faults[m] >= Missed(m, mp)

VoteInv ==
    /\ \A mp \in Minipools : kind[mp] # "reducing" /\ Cardinality(votes[mp]) >= Quorum
                                => status[mp] = "Dissolved"
    /\ \A m \in Members, mp \in Minipools : Tally(m, mp)

(***************************************************************************)
(* Good minipools are launched in every run of the node that does not fail. *)
(***************************************************************************)
Period(mp) == IF kind[mp] = "new" THEN ScrubPeriod ELSE PromotionPeriod

\* From then on the node does not wait for a better gas price.
Due(mp) == IF Period(mp) > LaunchTimeout \div 2 THEN Period(mp) ELSE LaunchTimeout \div 2

Unblocked(mp) == \A other \in lost : other > mp

NodeThrough(mp) ==
    \/ Node \in done
    \/ nodeTask # Idle /\ kind[mp] = "new" /\ (nodeTask.phase # "stake" \/ mp \notin nodeTask.todo)
    \/ nodeTask # Idle /\ kind[mp] = "vacant" /\ nodeTask.phase = "promote" /\ mp \notin nodeTask.todo

NodeMissed(mp) == now - Due(mp) - (IF NodeThrough(mp) THEN 0 ELSE 1)

LaunchInv ==
    /\ \A mp \in Minipools :
           Good(mp) /\ Unblocked(mp) /\ status[mp] = "Prelaunch" => faults[Node] >= NodeMissed(mp)
    /\ nodeTask # Idle /\ nodeTask.phase = "stake" =>
           \A mp \in nodeTask.todo :
               /\ now > ScrubPeriod /\ validator[mp] = "good"
               /\ now < LaunchTimeout => status[mp] = "Prelaunch"
    /\ nodeTask # Idle /\ nodeTask.phase = "promote" /\ nodeTask.todo # {} => now > PromotionPeriod

\* Nothing is promoted, reduced in bond or dissolved without votes before its time.
ActedInv ==
    \A mp \in Minipools :
        /\ votes[mp] = {} /\ status[mp] = "Dissolved" => now >= LaunchTimeout
        /\ kind[mp] = "vacant" /\ status[mp] = "Staking" => now > PromotionPeriod
        /\ mp \in bond => now > WindowStart /\ kind[mp] = "reducing"

\* The inductive invariant.
IInv ==
    /\ Types
    /\ \A m \in Members : CheckInv(m)
    /\ NodeInv
    /\ SafeInv
    /\ VoteInv
    /\ LaunchInv
    /\ ActedInv
    /\ BadIsStopped
    /\ GoodIsLaunched
-----------------------------------------------------------------------------
(***************************************************************************)
(* Lemmas on the operators.                                                *)
(***************************************************************************)
(* A set of numbers has a smallest one: of the finite sets of what is      *)
(* smaller than a member, one has no proper subset among them.             *)
LEMMA SmallestExists ==
  ASSUME NEW S \in SUBSET Nat, S # {}
  PROVE  \E x \in S : \A y \in S : x <= y
  <1> DEFINE Below(x) == {y \in S : y < x}
             Sets == {Below(x) : x \in S}
             R == StrictSubsetOrdering(S)
  <1>0. \A y \in S : y \in Nat
    OBVIOUS
  <1>1. \A x \in S : IsFiniteSet(Below(x)) /\ Below(x) \in SUBSET S
    <2> TAKE x \in S
    <2>1. Below(x) \in SUBSET S
      OBVIOUS
    <2>2. Below(x) \in SUBSET Nat /\ x \in Nat
      BY <2>1
    <2>3. \A y \in Below(x) : y <= x
      BY <1>0
    <2> QED
      BY <2>1, <2>2, <2>3, FS_BoundedSetOfNaturals
  <1>2. Sets \subseteq FiniteSubsetsOf(S) /\ Sets # {}
    BY <1>1 DEF FiniteSubsetsOf
  <1>3. \E T \in Sets : \A U \in Sets : ~(<<U, T>> \in R)
    <2> HIDE DEF Sets, R
    <2> QED
      BY <1>2, FS_StrictSubsetOrderingWellFounded, WFMin DEF R
  <1>4. PICK x \in S : \A y \in S : ~(<<Below(y), Below(x)>> \in R)
    BY <1>3
  <1>5. ASSUME NEW y \in S, y < x
        PROVE  FALSE
    <2>1. Below(y) \subseteq Below(x) /\ Below(y) # Below(x)
      <3>1. y \in Below(x) /\ y \notin Below(y)
        BY <1>0, <1>5
      <3>2. \A z \in Below(y) : z \in Below(x)
        BY <1>0, <1>5
      <3> QED
        BY <3>1, <3>2
    <2>2. <<Below(y), Below(x)>> \in R
      BY <1>1, <2>1 DEF StrictSubsetOrdering
    <2> QED
      BY <1>4, <2>2
  <1> QED
    BY <1>5

LEMMA FirstIsSmallest ==
  ASSUME NEW S \in SUBSET Minipools, S # {}
  PROVE  First(S) \in S /\ \A other \in S : First(S) <= other
  <1>1. \E mp \in S : \A other \in S : mp <= other
    BY SmallestExists, MinipoolAssumption
  <1> QED
    BY <1>1 DEF First

LEMMA Halves ==
  /\ ScrubPeriod \in Nat /\ ScrubPeriod \div 2 \in Nat /\ ScrubPeriod \div 2 <= ScrubPeriod
  /\ PromotionPeriod \in Nat /\ PromotionPeriod \div 2 \in Nat
  /\ PromotionPeriod \div 2 <= PromotionPeriod
  /\ LaunchTimeout \in Nat /\ LaunchTimeout \div 2 \in Nat
  /\ WindowStart \in Nat /\ WindowLength \in Nat
  /\ Quorum \in Nat \ {0} /\ MaxFaults \in Nat
  BY MinipoolAssumption

(* What a vote of m against mps does.                                      *)
LEMMA VoteEffect ==
  ASSUME Types, NEW m \in Members, NEW mps \in SUBSET Minipools, Vote(m, mps)
  PROVE  /\ votes' \in [Minipools -> SUBSET Members]
         /\ status' \in [Minipools -> Statuses]
         /\ \A mp \in Minipools :
               /\ votes[mp] \subseteq votes'[mp]
               /\ mp \notin mps => votes'[mp] = votes[mp]
               /\ mp \in mps /\ Undecided(mp) => m \in votes'[mp]
               /\ votes'[mp] # votes[mp] => Undecided(mp)
               /\ status'[mp] \in {status[mp], "Dissolved"}
               /\ status'[mp] # status[mp] => votes'[mp] # {} /\ kind[mp] # "reducing"
                                              /\ status[mp] = "Prelaunch"
               /\ votes'[mp] # votes[mp] /\ kind[mp] # "reducing"
                     /\ Cardinality(votes'[mp]) >= Quorum => status'[mp] = "Dissolved"
  BY DEF Types, Vote, CanVote, Undecided, Statuses

LEMMA FewerVotes ==
  ASSUME NEW S \in SUBSET Members, NEW T \in SUBSET S
  PROVE  Cardinality(T) \in Nat /\ Cardinality(S) \in Nat /\ Cardinality(T) <= Cardinality(S)
  <1>1. IsFiniteSet(S)
    BY MinipoolAssumption, FS_Subset
  <1> QED
    BY <1>1, FS_Subset, FS_CardinalityType

LEMMA InitIInv == Init => IInv
  <1> SUFFICES ASSUME Init PROVE IInv
    OBVIOUS
  <1> USE Halves DEF Init
  <1>1. PICK h \in [Minipools -> Histories] :
           /\ \A mp \in Minipools \ {First(Minipools)} :
                  h[mp] = [kind |-> "new", validator |-> "good"]
           /\ kind = [mp \in Minipools |-> h[mp].kind]
           /\ validator = [mp \in Minipools |-> h[mp].validator]
           /\ status = [mp \in Minipools |->
                           IF h[mp].kind = "reducing" THEN "Staking" ELSE "Prelaunch"]
    OBVIOUS
  <1>2. \A mp \in Minipools :
           /\ kind[mp] \in Kinds /\ validator[mp] \in Known(kind[mp])
           /\ kind[mp] # "new" => mp = First(Minipools)
           /\ status[mp] = IF kind[mp] = "reducing" THEN "Staking" ELSE "Prelaunch"
    BY <1>1 DEF Histories, Kinds, Known
  <1>3. First(Minipools) \in Minipools
    BY FirstIsSmallest, MinipoolAssumption
  <1>4. Types
    <2>1. validator \in [Minipools -> Validators]
      BY <1>1, <1>2 DEF Validators
    <2>2. kind \in [Minipools -> Kinds] /\ status \in [Minipools -> Statuses]
      BY <1>1, <1>2 DEF Statuses
    <2>3. \A mp \in Minipools : kind[mp] = "vacant" => mp = First(Minipools)
      BY <1>2
    <2>4. \A mp \in Minipools : kind[mp] = "reducing" => status[mp] = "Staking"
      BY <1>2
    <2> QED
      BY <1>2, <1>3, <2>1, <2>2, <2>3, <2>4 DEF Types, MaxTime, Daemons, Node
  <1>5. VoteInv
    <2>1. \A mp \in Minipools : Cardinality(votes[mp]) = 0
      BY FS_EmptySet
    <2>2. \A m \in Members, mp \in Minipools : Visible(mp) \in Nat
      BY DEF Visible
    <2>3. \A m \in Members, mp \in Minipools : faults[m] >= Missed(m, mp)
      BY <2>2 DEF Missed
    <2> QED
      BY <2>1, <2>3 DEF VoteInv, Tally
  <1>6. LaunchInv
    <2>1. \A mp \in Minipools : Due(mp) \in Nat
      BY DEF Due, Period
    <2> QED
      BY <2>1, <1>2 DEF LaunchInv, NodeMissed, Idle, Node
  <1>7. SafeInv /\ ActedInv
    BY <1>2 DEF SafeInv, ActedInv
  <1>8. BadIsStopped /\ GoodIsLaunched
    BY <1>2 DEF BadIsStopped, GoodIsLaunched
  <1> QED
    BY <1>4, <1>5, <1>6, <1>7, <1>8 DEF IInv, CheckInv, NodeInv

(***************************************************************************)
(* The watchtower.  One lemma for the steps of a check: it votes against   *)
(* mps and goes on to c, over faults that may have grown.                  *)
(***************************************************************************)
CheckStates == {Idle} \cup [phase : Phases, view : Views, left : SUBSET Minipools]

LEMMA CheckStep ==
  ASSUME IInv, NEW m \in Members, NEW mps \in SUBSET Minipools, Vote(m, mps),
         NEW c \in CheckStates, check' = [check EXCEPT ![m] = c], check[m] # Idle,
         c # Idle => /\ c.view = check[m].view /\ done' = done
                     /\ c.left \subseteq check[m].left
                     /\ c.phase = "safety" =>
                            \A mp \in c.left : validator[mp] \notin {"good", "frontrun"},
         c = Idle => done' = done \cup {m},
         \A mp \in mps : ~Good(mp) /\ ~MayBeGood(mp),
         faults' \in [Daemons -> Nat],
         \A d \in Daemons : faults'[d] <= MaxFaults /\ faults'[d] >= faults[d],
         \A mp \in Minipools :
             Bad(mp) /\ Undecided(mp) /\ ~Through(m, mp) /\ Through(m, mp)' =>
                 mp \in mps \/ now <= Visible(mp) \/ faults'[m] >= faults[m] + 1,
         UNCHANGED <<now, env, bond, nodeTask>>
  PROVE  IInv'
  <1>a. /\ Types /\ (\A q \in Members : CheckInv(q)) /\ NodeInv /\ SafeInv /\ VoteInv
        /\ LaunchInv /\ ActedInv /\ BadIsStopped /\ GoodIsLaunched
    BY DEF IInv
  <1>b. /\ now' = now /\ kind' = kind /\ validator' = validator /\ since' = since
        /\ onBeacon' = onBeacon /\ lost' = lost /\ bond' = bond /\ nodeTask' = nodeTask
    BY DEF env
  <1>v. /\ votes' \in [Minipools -> SUBSET Members]
        /\ status' \in [Minipools -> Statuses]
        /\ \A mp \in Minipools :
              /\ votes[mp] \subseteq votes'[mp]
              /\ mp \notin mps => votes'[mp] = votes[mp]
              /\ mp \in mps /\ Undecided(mp) => m \in votes'[mp]
              /\ votes'[mp] # votes[mp] => Undecided(mp)
              /\ status'[mp] \in {status[mp], "Dissolved"}
              /\ status'[mp] # status[mp] => votes'[mp] # {} /\ kind[mp] # "reducing"
                                             /\ status[mp] = "Prelaunch"
              /\ votes'[mp] # votes[mp] /\ kind[mp] # "reducing"
                    /\ Cardinality(votes'[mp]) >= Quorum => status'[mp] = "Dissolved"
    BY <1>a, VoteEffect
  <1>n. m # Node /\ m \in Daemons /\ done \subseteq Daemons
    BY <1>a, MinipoolAssumption DEF Node, Daemons, Types
  <1>d. done' \subseteq Daemons /\ (\A d \in Daemons \ {m} : d \in done' <=> d \in done)
    BY <1>n
  <1>c. /\ check \in [Members -> CheckStates] /\ check' \in [Members -> CheckStates]
        /\ check'[m] = c /\ \A q \in Members \ {m} : check'[q] = check[q]
    BY <1>a DEF Types, CheckStates
  <1>1. Types'
    BY <1>a, <1>b, <1>v, <1>d, <1>c DEF Types, MaxTime, CheckStates
  <1>2. ASSUME NEW q \in Members PROVE CheckInv(q)'
    <2>1. CheckInv(q)
      BY <1>a
    <2>2. CASE q # m
      BY <1>b, <1>v, <1>c, <1>d, <2>1, <2>2 DEF CheckInv, ViewInv, Daemons
    <2>3. CASE q = m
      BY <1>b, <1>v, <1>c, <2>1, <2>3 DEF CheckInv, ViewInv
    <2> QED
      BY <2>2, <2>3
  <1>3. NodeInv'
    BY <1>a, <1>b, <1>v, <1>d, <1>n DEF NodeInv, ViewInv, Daemons, Node
  <1>4. \A mp \in Minipools : (Good(mp)' <=> Good(mp)) /\ (MayBeGood(mp)' <=> MayBeGood(mp))
    BY <1>b DEF Good, MayBeGood
  <1>5. SafeInv'
    BY <1>a, <1>v, <1>4 DEF SafeInv
  <1>6. VoteInv'
    <2>1. \A mp \in Minipools : kind'[mp] # "reducing" /\ Cardinality(votes'[mp]) >= Quorum
                                   => status'[mp] = "Dissolved"
      BY <1>a, <1>b, <1>v DEF VoteInv
    <2>2. ASSUME NEW q \in Members, NEW mp \in Minipools, Bad(mp)', Undecided(mp)',
                 q \notin votes'[mp]
          PROVE  faults'[q] >= Missed(q, mp)'
      <3>1. Bad(mp)
        BY <1>b, <2>2 DEF Bad
      <3>2. Undecided(mp)
        <4>1. votes[mp] \in SUBSET votes'[mp] /\ votes'[mp] \in SUBSET Members
          BY <1>v
        <4>2. Cardinality(votes[mp]) < Quorum
          BY <2>2, <4>1, FewerVotes, Halves DEF Undecided
        <4>3. kind[mp] # "reducing" => status[mp] = "Prelaunch"
          BY <1>b, <1>v, <2>2 DEF Undecided
        <4>4. kind[mp] = "reducing" => mp \notin bond
          BY <1>b, <2>2 DEF Undecided
        <4> QED
          BY <4>2, <4>3, <4>4 DEF Undecided
      <3>3. q \notin votes[mp] /\ faults[q] >= Missed(q, mp)
        BY <1>a, <1>v, <2>2, <3>1, <3>2 DEF VoteInv, Tally
      <3>4. /\ faults'[q] \in Nat /\ faults[q] \in Nat /\ faults'[q] >= faults[q]
            /\ now \in Nat /\ Visible(mp) \in Nat /\ Visible(mp)' = Visible(mp)
        BY <1>a, <1>b, Halves DEF Types, Daemons, Visible
      <3>5. CASE Through(q, mp)' => Through(q, mp)
        BY <1>b, <3>3, <3>4, <3>5 DEF Missed
      <3>6. CASE Through(q, mp)' /\ ~Through(q, mp)
        <4>1. q = m
          BY <1>b, <1>c, <1>d, <3>6 DEF Through, Daemons
        <4>2. now <= Visible(mp) \/ faults'[m] >= faults[m] + 1
          BY <1>v, <2>2, <3>1, <3>2, <3>6, <4>1
        <4> QED
          BY <1>b, <3>3, <3>4, <3>6, <4>1, <4>2 DEF Missed
      <3> QED
        BY <3>5, <3>6
    <2> QED
      BY <2>1, <2>2 DEF VoteInv, Tally
  <1>7. LaunchInv'
    <2>1. ASSUME NEW mp \in Minipools, Good(mp)', Unblocked(mp)', status'[mp] = "Prelaunch"
          PROVE  faults'[Node] >= NodeMissed(mp)'
      <3>1. faults[Node] >= NodeMissed(mp)
        BY <1>a, <1>b, <1>v, <1>4, <2>1 DEF LaunchInv, Unblocked
      <3>2. NodeThrough(mp)' <=> NodeThrough(mp)
        BY <1>b, <1>d, <1>n DEF NodeThrough, Daemons
      <3>3. NodeMissed(mp)' = NodeMissed(mp) /\ NodeMissed(mp) \in Int
        BY <1>a, <1>b, <3>2, Halves DEF NodeMissed, Due, Period, Types
      <3> QED
        BY <1>a, <3>1, <3>3 DEF Types, Daemons
    <2>2. ASSUME nodeTask # Idle, nodeTask.phase = "stake", NEW mp \in nodeTask.todo,
                 now < LaunchTimeout
          PROVE  status'[mp] = "Prelaunch"
      <3>1. kind[mp] = "new" /\ mp \in Minipools
        BY <1>a, <2>2 DEF NodeInv, TaskKind, Types
      <3>2. validator[mp] = "good" /\ status[mp] = "Prelaunch"
        BY <1>a, <2>2 DEF LaunchInv
      <3>3. votes'[mp] = {}
        BY <1>a, <1>v, <3>1, <3>2 DEF SafeInv, Good
      <3> QED
        BY <1>v, <3>1, <3>2, <3>3
    <2> QED
      BY <1>a, <1>b, <2>1, <2>2 DEF LaunchInv
  <1>8. ActedInv'
    BY <1>a, <1>b, <1>v DEF ActedInv
  <1>9. BadIsStopped'
    BY <1>a, <1>b, <1>v DEF BadIsStopped
  <1>10. GoodIsLaunched'
    BY <1>a, <1>b, <1>v, <1>4, <1>5 DEF GoodIsLaunched, SafeInv
  <1> QED
    BY <1>1, <1>2, <1>3, <1>5, <1>6, <1>7, <1>8, <1>9, <1>10 DEF IInv

(* What CheckStep needs to know of a check that has been started.          *)
LEMMA CheckFacts ==
  ASSUME IInv, NEW m \in Members, check[m] # Idle
  PROVE  /\ check[m] \in [phase : Phases, view : Views, left : SUBSET Minipools]
         /\ CheckInv(m) /\ m \notin done
         /\ faults \in [Daemons -> Nat]
         /\ m \in Daemons /\ \A d \in Daemons : faults[d] <= MaxFaults
         /\ now \in Nat /\ MaxFaults \in Nat
  BY Halves DEF IInv, Types, CheckInv, Daemons

\* The steps of the scrub check.
ScrubPhases == {"beacon", "prestake", "deposits", "safety"}

(* A step of the scrub check that drops minipools from its list: those     *)
(* that are bad get a vote, unless it fails or comes too early.            *)
LEMMA ScrubStep ==
  ASSUME IInv, NEW m \in Members, check[m] # Idle, check[m].phase \in ScrubPhases,
         NEW mps \in SUBSET check[m].left, Vote(m, mps),
         NEW phase \in ScrubPhases \cup {"solo"}, NEW left \in SUBSET check[m].left,
         Proceed(m, phase, left),
         phase = "safety" => \A mp \in left : validator[mp] \notin {"good", "frontrun"},
         \A mp \in mps : validator[mp] # "good",
         faults' \in [Daemons -> Nat],
         \A d \in Daemons : faults'[d] <= MaxFaults /\ faults'[d] >= faults[d],
         \A mp \in check[m].left :
             validator[mp] # "good" /\ (mp \notin left \/ phase = "solo") =>
                 mp \in mps \/ now <= ScrubPeriod \div 2 \/ faults'[m] >= faults[m] + 1,
         UNCHANGED <<now, env, bond, nodeTask, done>>
  PROVE  IInv'
  <1> DEFINE c == [check[m] EXCEPT !.phase = IF left = {} THEN "solo" ELSE phase,
                                   !.left = left]
  <1>1. /\ c \in [phase : Phases, view : Views, left : SUBSET Minipools]
        /\ c.phase = (IF left = {} THEN "solo" ELSE phase)
        /\ c.view = check[m].view /\ c.left = left /\ c # Idle
        /\ check' = [check EXCEPT ![m] = c]
    <2>1. check[m] \in [phase : Phases, view : Views, left : SUBSET Minipools]
      BY CheckFacts
    <2>2. check \in [Members -> CheckStates]
      BY DEF IInv, Types, CheckStates
    <2>3. c \in [phase : Phases, view : Views, left : SUBSET Minipools]
      BY <2>1 DEF Phases, ScrubPhases
    <2>4. c.phase \in Phases /\ c.phase # "idle"
      BY <2>3 DEF Phases
    <2> QED
      BY <2>1, <2>2, <2>3, <2>4 DEF Proceed, Idle
  <1>2. \A mp \in check[m].left : mp \in Minipools /\ kind[mp] = "new"
    BY CheckFacts DEF CheckInv
  <1>3. \A mp \in mps : mp \in Minipools /\ ~Good(mp) /\ ~MayBeGood(mp)
    BY <1>2 DEF Good, MayBeGood
  <1>4. ASSUME NEW mp \in Minipools, Bad(mp), ~Through(m, mp), Through(m, mp)'
        PROVE  mp \in mps \/ now <= Visible(mp) \/ faults'[m] >= faults[m] + 1
    <2>1. check'[m] = c
      BY <1>1 DEF IInv, Types
    <2>2. c.phase # "bonds" /\ (kind[mp] = "new") = (kind'[mp] = "new") /\ kind' = kind
      BY <1>1 DEF ScrubPhases, env
    <2>3. kind[mp] = "new" /\ mp \in check[m].left /\ (mp \notin left \/ phase = "solo")
      BY <1>1, <1>4, <2>1, <2>2 DEF Through, ScrubPhases
    <2> QED
      BY <1>4, <2>3 DEF Bad, Visible
  <1> HIDE DEF c
  <1>5. c \in CheckStates
    BY <1>1 DEF CheckStates
  <1>6. c.phase = "safety" => phase = "safety"
    BY <1>1
  <1> QED
    BY <1>1, <1>3, <1>4, <1>5, <1>6, CheckStep

\* A member casts no vote.
LEMMA NoVote ==
  ASSUME Types, NEW m \in Members, UNCHANGED <<votes, status>>
  PROVE  Vote(m, {})
  BY DEF Types, Vote

LEMMA ScrubSteps ==
  ASSUME IInv, NEW m \in Members,
         \/ verifyBeaconWithdrawalCredentials(m) \/ verifyPrestakeEvents(m)
         \/ verifyDeposits(m) \/ checkSafetyScrub(m)
         \/ CheckFails(m) /\ check[m].phase \in ScrubPhases
  PROVE  IInv'
  <1>0. check[m] # Idle /\ Types
    <2>1. check[m].phase # "idle"
      BY DEF verifyBeaconWithdrawalCredentials, verifyPrestakeEvents, verifyDeposits,
             checkSafetyScrub, CheckFails
    <2> QED
      BY <2>1 DEF Idle, IInv
  <1>1. /\ CheckInv(m) /\ faults \in [Daemons -> Nat] /\ m \in Daemons
        /\ \A d \in Daemons : faults[d] <= MaxFaults
        /\ now \in Nat /\ MaxFaults \in Nat
    BY <1>0, CheckFacts
  <1>2. \A mp \in check[m].left :
            mp \in Minipools /\ validator[mp] \in {"good", "frontrun", "badsig", "missing"}
    BY <1>0, <1>1, CheckFacts DEF CheckInv, Types, Known
  <1>3. ASSUME verifyBeaconWithdrawalCredentials(m) PROVE IInv'
    <2> DEFINE seen == check[m].left \cap check[m].view.onBeacon
               mps == {mp \in seen : validator[mp] # "good"}
    <2>1. check[m].phase \in ScrubPhases /\ Vote(m, mps) /\ faults' = faults
          /\ Proceed(m, "prestake", check[m].left \ seen)
          /\ UNCHANGED <<now, env, bond, nodeTask, done>>
      BY <1>3 DEF verifyBeaconWithdrawalCredentials, ScrubPhases
    <2>2. mps \in SUBSET check[m].left /\ check[m].left \ seen \in SUBSET check[m].left
      OBVIOUS
    <2>3. \A mp \in check[m].left :
              validator[mp] # "good" /\ mp \notin check[m].left \ seen => mp \in mps
      OBVIOUS
    <2>4. \A mp \in mps : validator[mp] # "good"
      OBVIOUS
    <2> HIDE DEF mps, seen
    <2> QED
      BY <1>0, <1>1, <2>1, <2>2, <2>3, <2>4, ScrubStep DEF ScrubPhases
  <1>4. ASSUME verifyPrestakeEvents(m) PROVE IInv'
    <2> DEFINE bad == {mp \in check[m].left : validator[mp] = "badsig"}
    <2>1. check[m].phase \in ScrubPhases /\ Vote(m, bad) /\ faults' = faults
          /\ Proceed(m, "deposits", check[m].left \ bad)
          /\ UNCHANGED <<now, env, bond, nodeTask, done>>
      BY <1>4 DEF verifyPrestakeEvents, ScrubPhases
    <2>2. bad \in SUBSET check[m].left /\ check[m].left \ bad \in SUBSET check[m].left
          /\ (\A mp \in bad : validator[mp] # "good")
          /\ (\A mp \in check[m].left : mp \notin check[m].left \ bad => mp \in bad)
      OBVIOUS
    <2> HIDE DEF bad
    <2> QED
      BY <1>0, <1>1, <2>1, <2>2, ScrubStep DEF ScrubPhases
  <1>5. ASSUME verifyDeposits(m) PROVE IInv'
    <2> DEFINE found == {mp \in check[m].left : validator[mp] \in {"good", "frontrun"}}
               mps == {mp \in found : validator[mp] # "good"}
    <2>1. check[m].phase \in ScrubPhases /\ Vote(m, mps) /\ faults' = faults
          /\ Proceed(m, "safety", check[m].left \ found)
          /\ UNCHANGED <<now, env, bond, nodeTask, done>>
      BY <1>5 DEF verifyDeposits, ScrubPhases
    <2>2. /\ mps \in SUBSET check[m].left /\ check[m].left \ found \in SUBSET check[m].left
          /\ \A mp \in mps : validator[mp] # "good"
          /\ \A mp \in check[m].left \ found : validator[mp] \notin {"good", "frontrun"}
          /\ \A mp \in check[m].left :
                validator[mp] # "good" /\ mp \notin check[m].left \ found => mp \in mps
      OBVIOUS
    <2> HIDE DEF mps, found
    <2> QED
      BY <1>0, <1>1, <2>1, <2>2, ScrubStep DEF ScrubPhases
  <1>6. ASSUME checkSafetyScrub(m) PROVE IInv'
    <2> DEFINE mps == IF check[m].view.time > ScrubPeriod \div 2 THEN check[m].left ELSE {}
    <2>1. check[m].phase = "safety" /\ Vote(m, mps) /\ faults' = faults
          /\ Proceed(m, "solo", {})
          /\ UNCHANGED <<now, env, bond, nodeTask, done>>
      BY <1>6 DEF checkSafetyScrub
    <2>2. check[m].view.time = now
      BY <1>0, <1>1 DEF CheckInv, ViewInv
    <2>3. mps \in SUBSET check[m].left
          /\ \A mp \in check[m].left : mp \in mps \/ now <= ScrubPeriod \div 2
      BY <1>1, <2>2, Halves
    <2>4. \A mp \in mps : validator[mp] # "good"
      BY <1>0, <1>1, <2>1, <2>3 DEF CheckInv
    <2> HIDE DEF mps
    <2> QED
      BY <1>0, <1>1, <2>1, <2>3, <2>4, ScrubStep DEF ScrubPhases
  <1>7. ASSUME CheckFails(m), check[m].phase \in ScrubPhases PROVE IInv'
    <2>1. /\ faults' = [faults EXCEPT ![m] = @ + 1] /\ faults[m] < MaxFaults
          /\ UNCHANGED <<now, env, status, bond, votes, nodeTask, done>>
      BY <1>7 DEF CheckFails, ScrubPhases
    <2>2. \/ Proceed(m, "deposits", check[m].left)
          \/ Proceed(m, "solo", {})
      BY <1>7 DEF CheckFails, ScrubPhases
    <2>3. Vote(m, {})
      BY <1>0, <2>1, NoVote
    <2>4. /\ faults' \in [Daemons -> Nat] /\ faults'[m] >= faults[m] + 1
          /\ \A d \in Daemons : faults'[d] <= MaxFaults /\ faults'[d] >= faults[d]
      BY <1>1, <2>1
    <2> QED
      BY <1>0, <1>1, <1>7, <2>1, <2>2, <2>3, <2>4, ScrubStep DEF ScrubPhases
  <1> QED
    BY <1>3, <1>4, <1>5, <1>6, <1>7

(* The check of solo migrations.                                           *)
LEMMA SoloStep ==
  ASSUME IInv, NEW m \in Members,
         \/ checkSoloMigrationsOf(m)
         \/ CheckFails(m) /\ check[m].phase = "solo"
  PROVE  IInv'
  <1> DEFINE c == [check[m] EXCEPT !.phase = "bonds"]
             mps == {mp \in Minipools : BadMigration(check[m].view, mp)}
  <1>1. check[m].phase = "solo"
    BY DEF checkSoloMigrationsOf
  <1>2. check[m] # Idle
    BY <1>1 DEF Idle
  <1>3. /\ check[m] \in [phase : Phases, view : Views, left : SUBSET Minipools]
        /\ CheckInv(m) /\ faults \in [Daemons -> Nat] /\ m \in Daemons
        /\ \A d \in Daemons : faults[d] <= MaxFaults
        /\ now \in Nat /\ MaxFaults \in Nat
    BY <1>2, CheckFacts
  <1>4. /\ c \in [phase : Phases, view : Views, left : SUBSET Minipools]
        /\ c.phase = "bonds" /\ c.view = check[m].view /\ c.left = check[m].left /\ c # Idle
    <2>1. c \in [phase : Phases, view : Views, left : SUBSET Minipools] /\ c.phase = "bonds"
      BY <1>3 DEF Phases
    <2> QED
      BY <1>3, <2>1 DEF Idle
  <1>5. check' = [check EXCEPT ![m] = c] /\ UNCHANGED <<now, env, bond, nodeTask, done>>
    <2>1. CASE checkSoloMigrationsOf(m)
      BY <2>1 DEF checkSoloMigrationsOf
    <2>2. CASE CheckFails(m)
      BY <1>1, <2>2 DEF CheckFails
    <2> QED
      BY <2>1, <2>2
  <1>6. check'[m] = c /\ kind' = kind
    BY <1>5 DEF IInv, Types, env
  <1>7. ASSUME NEW mp \in Minipools, Bad(mp), ~Through(m, mp), Through(m, mp)'
        PROVE  kind[mp] = "vacant" /\ validator[mp] # "right"
    <2>1. kind[mp] = "new" => mp \in check[m].left /\ FALSE
      BY <1>1, <1>2, <1>7 DEF Through
    <2> QED
      BY <1>5, <1>6, <1>7, <2>1 DEF Through, Bad
  <1>8. \A mp \in mps : ~Good(mp) /\ ~MayBeGood(mp)
    BY <1>2, <1>3, Halves DEF CheckInv, ViewInv, BadMigration, Good, MayBeGood
  <1>9. \A mp \in Minipools :
            kind[mp] = "vacant" /\ validator[mp] # "right" /\ Undecided(mp) =>
                mp \in mps \/ now <= Visible(mp)
    <2> TAKE mp \in Minipools
    <2> HAVE kind[mp] = "vacant" /\ validator[mp] # "right" /\ Undecided(mp)
    <2>1. validator[mp] \in {"bls", "wrong", "unfit"} /\ status[mp] = "Prelaunch"
      BY DEF IInv, Types, Known, Undecided
    <2>2. check[m].view.time = now /\ check[m].view.status[mp] = "Prelaunch"
      BY <1>2, <1>3, <2>1 DEF CheckInv, ViewInv
    <2>3. CASE validator[mp] = "bls"
      BY <1>2, <1>3, <2>2, <2>3, Halves DEF CheckInv, ViewInv, BadMigration, Visible
    <2>4. CASE validator[mp] # "bls" /\ check[m].view.validator[mp] = validator[mp]
      BY <2>1, <2>2, <2>4 DEF BadMigration
    <2>5. CASE validator[mp] # "bls" /\ check[m].view.validator[mp] # validator[mp]
      BY <1>2, <1>3, <2>5 DEF CheckInv, ViewInv, Visible
    <2> QED
      BY <2>3, <2>4, <2>5
  <1>10. CASE checkSoloMigrationsOf(m)
    <2>1. Vote(m, mps) /\ faults' = faults /\ mps \in SUBSET Minipools
      BY <1>10 DEF checkSoloMigrationsOf
    <2>2. c \in CheckStates /\ c # Idle
      BY <1>4 DEF CheckStates
    <2> HIDE DEF mps, c
    <2>3. /\ faults' \in [Daemons -> Nat]
          /\ \A d \in Daemons : faults'[d] <= MaxFaults /\ faults'[d] >= faults[d]
      BY <1>3, <2>1
    <2>4. \A mp \in Minipools :
              Bad(mp) /\ Undecided(mp) /\ ~Through(m, mp) /\ Through(m, mp)' =>
                  mp \in mps \/ now <= Visible(mp) \/ faults'[m] >= faults[m] + 1
      BY <1>7, <1>9
    <2>5. c.view = check[m].view /\ c.left \subseteq check[m].left /\ c.phase # "safety"
      BY <1>4
    <2> QED
      BY <1>2, <1>5, <1>8, <2>1, <2>2, <2>3, <2>4, <2>5, CheckStep
  <1>11. CASE CheckFails(m)
    <2>1. /\ faults' = [faults EXCEPT ![m] = @ + 1] /\ faults[m] < MaxFaults
          /\ UNCHANGED <<status, votes>>
      BY <1>11 DEF CheckFails
    <2>2. Vote(m, {})
      BY <2>1, NoVote DEF IInv
    <2>3. /\ faults' \in [Daemons -> Nat] /\ faults'[m] >= faults[m] + 1
          /\ \A d \in Daemons : faults'[d] <= MaxFaults /\ faults'[d] >= faults[d]
      BY <1>3, <2>1
    <2>4. c \in CheckStates /\ c # Idle
      BY <1>4 DEF CheckStates
    <2> HIDE DEF c
    <2>5. /\ \A mp \in {} : ~Good(mp) /\ ~MayBeGood(mp)
          /\ \A mp \in Minipools :
                 Bad(mp) /\ Undecided(mp) /\ ~Through(m, mp) /\ Through(m, mp)' =>
                     mp \in {} \/ now <= Visible(mp) \/ faults'[m] >= faults[m] + 1
      BY <2>3
    <2>6. c.view = check[m].view /\ c.left \subseteq check[m].left /\ c.phase # "safety"
      BY <1>4
    <2>7. {} \in SUBSET Minipools
      OBVIOUS
    <2> QED
      BY <1>2, <1>5, <2>2, <2>3, <2>4, <2>5, <2>6, <2>7, CheckStep
  <1> QED
    BY <1>10, <1>11

(* The check of bond reductions, the last one.                             *)
LEMMA BondStep ==
  ASSUME IInv, NEW m \in Members,
         \/ checkBondReductions(m)
         \/ CheckFails(m) /\ check[m].phase = "bonds"
  PROVE  IInv'
  <1> DEFINE mps == {mp \in Minipools :
                        /\ kind[mp] = "reducing" /\ mp \notin check[m].view.bond
                        /\ check[m].view.validator[mp] = "unfit"}
  <1>1. check[m].phase = "bonds"
    BY DEF checkBondReductions
  <1>2. check[m] # Idle
    BY <1>1 DEF Idle
  <1>3. /\ check[m] \in [phase : Phases, view : Views, left : SUBSET Minipools]
        /\ CheckInv(m) /\ faults \in [Daemons -> Nat] /\ m \in Daemons
        /\ \A d \in Daemons : faults[d] <= MaxFaults
        /\ now \in Nat /\ MaxFaults \in Nat
    BY <1>2, CheckFacts
  <1>5. /\ check' = [check EXCEPT ![m] = Idle] /\ done' = done \cup {m}
        /\ UNCHANGED <<now, env, bond, nodeTask>>
    <2>1. CASE checkBondReductions(m)
      BY <2>1 DEF checkBondReductions, EndChecks
    <2>2. CASE CheckFails(m)
      BY <1>1, <2>2 DEF CheckFails, EndChecks
    <2> QED
      BY <2>1, <2>2
  <1>6. Idle \in CheckStates
    BY DEF CheckStates
  <1>7. \A mp \in Minipools : Bad(mp) /\ ~Through(m, mp) =>
                                  kind[mp] = "reducing" /\ validator[mp] = "unfit"
    BY <1>1, <1>2 DEF Through, Bad, IInv, Types, Kinds
  <1>8. \A mp \in mps : ~Good(mp) /\ ~MayBeGood(mp)
    BY <1>2, <1>3 DEF CheckInv, ViewInv, Good, MayBeGood
  <1>9. \A mp \in Minipools :
            kind[mp] = "reducing" /\ validator[mp] = "unfit" /\ Undecided(mp) =>
                mp \in mps \/ now <= Visible(mp)
    BY <1>2, <1>3 DEF CheckInv, ViewInv, Visible, Undecided
  <1>10. CASE checkBondReductions(m)
    <2>1. Vote(m, mps) /\ faults' = faults /\ mps \in SUBSET Minipools
      BY <1>10 DEF checkBondReductions
    <2> HIDE DEF mps
    <2>2. \A mp \in Minipools :
              Bad(mp) /\ Undecided(mp) /\ ~Through(m, mp) => mp \in mps \/ now <= Visible(mp)
      BY <1>7, <1>9
    <2>3. /\ faults' \in [Daemons -> Nat]
          /\ \A d \in Daemons : faults'[d] <= MaxFaults /\ faults'[d] >= faults[d]
      BY <1>3, <2>1
    <2>4. \A mp \in Minipools :
              Bad(mp) /\ Undecided(mp) /\ ~Through(m, mp) /\ Through(m, mp)' =>
                  mp \in mps \/ now <= Visible(mp) \/ faults'[m] >= faults[m] + 1
      BY <2>2
    <2> QED
      BY <1>2, <1>5, <1>6, <1>8, <2>1, <2>3, <2>4, CheckStep
  <1>11. CASE CheckFails(m)
    <2>1. /\ faults' = [faults EXCEPT ![m] = @ + 1] /\ faults[m] < MaxFaults
          /\ UNCHANGED <<status, votes>>
      BY <1>11 DEF CheckFails
    <2>2. Vote(m, {})
      BY <2>1, NoVote DEF IInv
    <2>3. /\ faults' \in [Daemons -> Nat] /\ faults'[m] >= faults[m] + 1
          /\ \A d \in Daemons : faults'[d] <= MaxFaults /\ faults'[d] >= faults[d]
      BY <1>3, <2>1
    <2>4. /\ \A mp \in {} : ~Good(mp) /\ ~MayBeGood(mp)
          /\ \A mp \in Minipools :
                 Bad(mp) /\ Undecided(mp) /\ ~Through(m, mp) /\ Through(m, mp)' =>
                     mp \in {} \/ now <= Visible(mp) \/ faults'[m] >= faults[m] + 1
      BY <2>3
    <2>5. {} \in SUBSET Minipools
      OBVIOUS
    <2> QED
      BY <1>2, <1>5, <1>6, <2>2, <2>3, <2>4, <2>5, CheckStep
  <1> QED
    BY <1>10, <1>11

\* A new view is true.
LEMMA ViewIsTrue == Types => View \in Views /\ ViewInv(View)
  BY DEF Types, View, Views, ViewInv

LEMMA StartCheckStep ==
  ASSUME IInv, NEW m \in Members, StartCheck(m)
  PROVE  IInv'
  <1>a. /\ Types /\ (\A q \in Members : CheckInv(q)) /\ NodeInv /\ SafeInv /\ VoteInv
        /\ LaunchInv /\ ActedInv /\ BadIsStopped /\ GoodIsLaunched
    BY DEF IInv
  <1> DEFINE c == [phase |-> "beacon", view |-> View,
                   left |-> {mp \in Minipools : kind[mp] = "new" /\ status[mp] = "Prelaunch"}]
  <1>b. /\ now' = now /\ kind' = kind /\ validator' = validator /\ since' = since
        /\ onBeacon' = onBeacon /\ lost' = lost /\ bond' = bond /\ nodeTask' = nodeTask
        /\ status' = status /\ votes' = votes /\ done' = done /\ faults' = faults
        /\ m \notin done /\ check[m].phase = "idle" /\ check' = [check EXCEPT ![m] = c]
    BY DEF StartCheck, env
  <1>c. /\ c \in [phase : Phases, view : Views, left : SUBSET Minipools]
        /\ c.phase = "beacon" /\ c.view = View
        /\ \A mp \in Minipools : mp \in c.left <=> kind[mp] = "new" /\ status[mp] = "Prelaunch"
    BY <1>a, ViewIsTrue DEF Phases
  <1> HIDE DEF c
  <1>d. check'[m] = c /\ (\A q \in Members \ {m} : check'[q] = check[q])
        /\ check' \in [Members -> CheckStates]
    BY <1>a, <1>b, <1>c DEF Types, CheckStates
  <1>1. Types'
    BY <1>a, <1>b, <1>d DEF Types, CheckStates, MaxTime
  <1>2. ASSUME NEW q \in Members PROVE CheckInv(q)'
    <2>1. CASE q # m
      BY <1>a, <1>b, <1>d, <2>1 DEF CheckInv, ViewInv
    <2>2. CASE q = m
      BY <1>a, <1>b, <1>c, <1>d, <2>2, ViewIsTrue DEF CheckInv, ViewInv
    <2> QED
      BY <2>1, <2>2
  <1>3. NodeInv'
    BY <1>a, <1>b DEF NodeInv, ViewInv
  <1>4. SafeInv'
    BY <1>a, <1>b DEF SafeInv, Good, MayBeGood
  <1>5. VoteInv'
    <2>1. ASSUME NEW q \in Members, NEW mp \in Minipools, Bad(mp), Undecided(mp),
                 q \notin votes[mp]
          PROVE  faults[q] >= Missed(q, mp)'
      <3>1. Through(q, mp)' => Through(q, mp)
        <4>1. CASE q # m
          BY <1>b, <1>d, <4>1 DEF Through
        <4>2. CASE q = m
          BY <1>b, <1>c, <1>d, <2>1, <4>2 DEF Through, Undecided
        <4> QED
          BY <4>1, <4>2
      <3>2. Visible(mp)' = Visible(mp) /\ Visible(mp) \in Nat /\ now \in Nat /\ faults[q] \in Nat
        BY <1>a, <1>b, Halves DEF Visible, Types, Daemons
      <3>3. faults[q] >= Missed(q, mp)
        BY <1>a, <2>1 DEF VoteInv, Tally
      <3> QED
        BY <1>b, <3>1, <3>2, <3>3 DEF Missed
    <2>2. \A mp \in Minipools : (Bad(mp)' <=> Bad(mp)) /\ (Undecided(mp)' <=> Undecided(mp))
      BY <1>b DEF Bad, Undecided
    <2> QED
      BY <1>a, <1>b, <2>1, <2>2 DEF VoteInv, Tally
  <1>6. LaunchInv'
    BY <1>a, <1>b DEF LaunchInv, Good, Unblocked, NodeMissed, Due, Period, NodeThrough
  <1>7. ActedInv' /\ BadIsStopped' /\ GoodIsLaunched'
    BY <1>a, <1>b DEF ActedInv, BadIsStopped, GoodIsLaunched, Good
  <1> QED
    BY <1>1, <1>2, <1>3, <1>4, <1>5, <1>6, <1>7 DEF IInv

(***************************************************************************)
(* The world.                                                              *)
(***************************************************************************)
(* Time goes on when all loops are done: their runs of this unit of time   *)
(* are then counted as over.                                               *)
LEMMA TickStep == IInv /\ Tick => IInv'
  <1> SUFFICES ASSUME IInv, Tick PROVE IInv'
    OBVIOUS
  <1>a. /\ Types /\ (\A q \in Members : CheckInv(q)) /\ NodeInv /\ SafeInv /\ VoteInv
        /\ LaunchInv /\ ActedInv /\ BadIsStopped /\ GoodIsLaunched
    BY DEF IInv
  <1>b. /\ now' = now + 1 /\ now < MaxTime /\ done = Daemons /\ done' = {}
        /\ kind' = kind /\ validator' = validator /\ since' = since
        /\ onBeacon' = onBeacon /\ lost' = lost /\ bond' = bond /\ nodeTask' = nodeTask
        /\ status' = status /\ votes' = votes /\ check' = check /\ faults' = faults
    BY DEF Tick, env, Daemons
  <1>c. (\A m \in Members : check[m] = Idle) /\ nodeTask = Idle
    BY <1>a, <1>b DEF CheckInv, NodeInv, Daemons
  <1>1. Types'
    BY <1>a, <1>b, Halves DEF Types, MaxTime
  <1>2. (\A m \in Members : CheckInv(m)') /\ NodeInv'
    BY <1>b, <1>c DEF CheckInv, NodeInv
  <1>3. SafeInv'
    BY <1>a, <1>b, Halves DEF SafeInv, Good, MayBeGood, Types
  <1>4. VoteInv'
    <2>1. ASSUME NEW m \in Members, NEW mp \in Minipools
          PROVE  Missed(m, mp)' = Missed(m, mp)
      <3>1. Through(m, mp) /\ ~Through(m, mp)'
        BY <1>b, <1>c DEF Through, Daemons
      <3>2. Visible(mp)' = Visible(mp) /\ Visible(mp) \in Nat /\ now \in Nat
        BY <1>a, <1>b, Halves DEF Visible, Types
      <3> QED
        BY <1>b, <3>1, <3>2 DEF Missed
    <2>2. \A mp \in Minipools : (Bad(mp)' <=> Bad(mp)) /\ (Undecided(mp)' <=> Undecided(mp))
      BY <1>b DEF Bad, Undecided
    <2> QED
      BY <1>a, <1>b, <2>1, <2>2 DEF VoteInv, Tally
  <1>5. LaunchInv'
    <2>1. ASSUME NEW mp \in Minipools
          PROVE  NodeMissed(mp)' = NodeMissed(mp)
      <3>1. NodeThrough(mp) /\ ~NodeThrough(mp)'
        BY <1>b, <1>c DEF NodeThrough, Daemons
      <3>2. Due(mp)' = Due(mp) /\ Due(mp) \in Nat /\ now \in Nat
        BY <1>a, <1>b, Halves DEF Due, Period, Types
      <3> QED
        BY <1>b, <3>1, <3>2 DEF NodeMissed
    <2> QED
      BY <1>a, <1>b, <1>c, <2>1 DEF LaunchInv, Good, Unblocked
  <1>6. ActedInv'
    BY <1>a, <1>b, Halves DEF ActedInv, Types
  <1>7. BadIsStopped' /\ GoodIsLaunched'
    BY <1>a, <1>b DEF BadIsStopped, GoodIsLaunched, Good
  <1> QED
    BY <1>1, <1>2, <1>3, <1>4, <1>5, <1>6, <1>7 DEF IInv

\* Nothing depends on the deposits that the Beacon chain has processed.
LEMMA BeaconStep ==
  ASSUME IInv, NEW mp \in Minipools, BeaconProcesses(mp)
  PROVE  IInv'
  <1>a. /\ Types /\ (\A q \in Members : CheckInv(q)) /\ NodeInv /\ SafeInv /\ VoteInv
        /\ LaunchInv /\ ActedInv /\ BadIsStopped /\ GoodIsLaunched
    BY DEF IInv
  <1>b. /\ now' = now /\ kind' = kind /\ validator' = validator /\ since' = since
        /\ lost' = lost /\ bond' = bond /\ nodeTask' = nodeTask
        /\ status' = status /\ votes' = votes /\ done' = done /\ faults' = faults
        /\ check' = check /\ onBeacon' = onBeacon \cup {mp}
    BY DEF BeaconProcesses
  <1>1. Types'
    BY <1>a, <1>b DEF Types, MaxTime
  <1>2. (\A m \in Members : CheckInv(m)') /\ NodeInv'
    BY <1>a, <1>b DEF CheckInv, NodeInv, ViewInv
  <1>3. SafeInv' /\ ActedInv' /\ BadIsStopped' /\ GoodIsLaunched'
    BY <1>a, <1>b DEF SafeInv, ActedInv, BadIsStopped, GoodIsLaunched, Good, MayBeGood
  <1>4. VoteInv'
    BY <1>a, <1>b DEF VoteInv, Tally, Bad, Undecided, Missed, Visible, Through
  <1>5. LaunchInv'
    BY <1>a, <1>b DEF LaunchInv, Good, Unblocked, NodeMissed, Due, Period, NodeThrough
  <1> QED
    BY <1>1, <1>2, <1>3, <1>4, <1>5 DEF IInv

LEMMA ValidatorStep ==
  ASSUME IInv, NEW mp \in Minipools, ValidatorChanges(mp)
  PROVE  IInv'
  <1>a. /\ Types /\ (\A q \in Members : CheckInv(q)) /\ NodeInv /\ SafeInv /\ VoteInv
        /\ LaunchInv /\ ActedInv /\ BadIsStopped /\ GoodIsLaunched
    BY DEF IInv
  <1>b. /\ now' = now /\ kind' = kind /\ since' = [since EXCEPT ![mp] = now]
        /\ lost' = lost /\ bond' = bond /\ nodeTask' = nodeTask
        /\ status' = status /\ votes' = votes /\ done' = done /\ faults' = faults
        /\ check' = check /\ onBeacon' = onBeacon
    BY DEF ValidatorChanges
  <1>c. PICK v \in {"right", "wrong", "unfit"} :
            /\ v \in {"right", "wrong"} => kind[mp] = "vacant" /\ validator[mp] = "bls"
            /\ v = "unfit" => kind[mp] # "new" /\ validator[mp] # "unfit"
            /\ validator' = [validator EXCEPT ![mp] = v]
    BY DEF ValidatorChanges
  <1>d. /\ validator'[mp] = v /\ since'[mp] = now /\ now \in Nat
        /\ \A other \in Minipools \ {mp} : validator'[other] = validator[other]
                                           /\ since'[other] = since[other]
        /\ kind[mp] \in {"vacant", "reducing"} /\ v \in Known(kind[mp]) /\ v \in Validators
    <2>1. kind[mp] \in {"vacant", "reducing"} /\ v \in Known(kind[mp])
      BY <1>a, <1>c DEF Types, Kinds, Known
    <2>2. v \in Validators
      BY <2>1 DEF Validators, Kinds
    <2> QED
      BY <1>a, <1>b, <1>c, <2>1, <2>2 DEF Types
  <1>1. Types'
    <2>1. validator' \in [Minipools -> Validators]
      BY <1>a, <1>c, <1>d DEF Types
    <2>2. \A other \in Minipools : validator'[other] \in Known(kind[other])
      BY <1>a, <1>d DEF Types
    <2>3. since' \in [Minipools -> Nat] /\ \A other \in Minipools : since'[other] <= now
      BY <1>a, <1>b, <1>d DEF Types
    <2> QED
      BY <1>a, <1>b, <2>1, <2>2, <2>3 DEF Types, MaxTime
  <1>3. ASSUME NEW m \in Members PROVE CheckInv(m)'
    <2>1. CheckInv(m)
      BY <1>a
    <2>2. check[m] # Idle => \A other \in check[m].left : other # mp /\ other \in Minipools
      BY <1>a, <1>d, <2>1 DEF CheckInv, Types
    <2> QED
      BY <1>b, <1>c, <1>d, <1>a, <2>1, <2>2 DEF CheckInv, ViewInv
  <1>4. NodeInv'
    BY <1>a, <1>b, <1>c, <1>d DEF NodeInv, ViewInv
  <1>5. SafeInv'
    BY <1>a, <1>b, <1>c, <1>d DEF SafeInv, Good, MayBeGood
  <1>6. VoteInv'
    <2>1. ASSUME NEW m \in Members, NEW other \in Minipools, Bad(other)', Undecided(other)',
                 m \notin votes[other]
          PROVE  faults[m] >= Missed(m, other)'
      <3>0. faults[m] \in Nat
        BY <1>a DEF Types, Daemons
      <3>1. CASE other = mp
        <4>1. Visible(mp)' = now
          BY <1>b, <1>c, <1>d, <2>1, <3>1 DEF Bad, Visible
        <4> QED
          BY <1>b, <1>d, <3>0, <3>1, <4>1 DEF Missed
      <3>2. CASE other # mp
        <4>1. Bad(other) /\ Undecided(other)
          BY <1>b, <1>d, <2>1, <3>2 DEF Bad, Undecided
        <4>2. Missed(m, other)' = Missed(m, other)
          BY <1>b, <1>d, <3>2 DEF Missed, Visible, Through
        <4> QED
          BY <1>a, <2>1, <4>1, <4>2 DEF VoteInv, Tally
      <3> QED
        BY <3>1, <3>2
    <2> QED
      BY <1>a, <1>b, <2>1 DEF VoteInv, Tally
  <1>7. LaunchInv'
    <2>1. ASSUME NEW other \in Minipools, Good(other)', Unblocked(other),
                 status[other] = "Prelaunch"
          PROVE  faults[Node] >= NodeMissed(other)'
      <3>1. NodeMissed(other)' = NodeMissed(other) /\ Due(other) \in Nat
            /\ PromotionPeriod <= Due(mp)
        BY <1>b, <1>d, Halves DEF NodeMissed, Due, Period, NodeThrough
      <3>2. CASE other # mp
        BY <1>a, <1>b, <1>d, <2>1, <3>1, <3>2 DEF LaunchInv, Good
      <3>3. CASE other = mp
        <4>1. now <= PromotionPeriod \div 2
          BY <1>a, <1>b, <1>c, <1>d, <2>1, <3>3 DEF Good, Types
        <4>2. now <= Due(mp)
          BY <1>d, <3>1, <3>3, <4>1, Halves
        <4> QED
          BY <1>a, <1>d, <3>1, <3>3, <4>2 DEF NodeMissed, Types, Daemons
      <3> QED
        BY <3>2, <3>3
    <2>2. ASSUME nodeTask # Idle, nodeTask.phase = "stake", NEW other \in nodeTask.todo
          PROVE  validator'[other] = validator[other]
      BY <1>a, <1>d, <2>2 DEF NodeInv, TaskKind, Types
    <2> QED
      BY <1>a, <1>b, <2>1, <2>2 DEF LaunchInv, Unblocked
  <1>8. ActedInv'
    BY <1>a, <1>b DEF ActedInv
  <1>9. BadIsStopped'
    BY <1>a, <1>b, <1>d, Halves DEF BadIsStopped, ActedInv
  <1>10. GoodIsLaunched'
    <2>1. ASSUME Good(mp)' PROVE status[mp] # "Dissolved"
      <3>1. MayBeGood(mp)
        BY <1>a, <1>b, <1>c, <1>d, <2>1 DEF MayBeGood, Good
      <3>2. votes[mp] = {} /\ now < LaunchTimeout
        BY <1>a, <1>d, <3>1, Halves, PeriodsAssumption DEF SafeInv, MayBeGood
      <3> QED
        BY <1>a, <1>d, <3>2, Halves DEF ActedInv
    <2>2. \A other \in Minipools : other # mp => (Good(other)' <=> Good(other))
      BY <1>b, <1>d DEF Good
    <2> QED
      BY <1>a, <1>b, <2>1, <2>2 DEF GoodIsLaunched
  <1> QED
    BY <1>1, <1>3, <1>4, <1>5, <1>6, <1>7, <1>8, <1>9, <1>10 DEF IInv

(* Runs do not fail for ever: a bad minipool that is not decided yet has   *)
(* not been known to be bad for more than MaxFaults complete runs, and a   *)
(* good one whose launch is overdue has been launched.                     *)
LEMMA BadIsDecided ==
  ASSUME IInv, NEW mp \in Minipools, Bad(mp), Undecided(mp)
  PROVE  now - Visible(mp) - 1 <= MaxFaults
  <1>a. Types /\ VoteInv
    BY DEF IInv
  <1>1. PICK m \in Members : m \notin votes[mp]
    <2>1. votes[mp] \subseteq Members
      BY <1>a DEF Types
    <2>2. votes[mp] # Members
      BY QuorumAssumption, FewerVotes, Halves DEF Undecided
    <2> QED
      BY <2>1, <2>2
  <1>2. faults[m] >= Missed(m, mp) /\ faults[m] \in Nat /\ faults[m] <= MaxFaults
    BY <1>a, <1>1 DEF VoteInv, Tally, Types, Daemons
  <1>3. now \in Nat /\ Visible(mp) \in Nat
    BY <1>a, Halves DEF Visible, Types
  <1> QED
    BY <1>2, <1>3, Halves DEF Missed

LEMMA LaunchedInTime ==
  ASSUME IInv, NEW mp \in Minipools, Good(mp), Unblocked(mp), status[mp] = "Prelaunch"
  PROVE  now < LaunchTimeout
  <1>1. faults[Node] >= NodeMissed(mp) /\ faults[Node] \in Nat /\ faults[Node] <= MaxFaults
        /\ now \in Nat
    BY DEF IInv, LaunchInv, Types, Daemons
  <1>2. Due(mp) \in Nat /\ LaunchTimeout - Due(mp) > MaxFaults + 1
    BY Halves, PeriodsAssumption DEF Due, Period
  <1> QED
    BY <1>1, <1>2, Halves DEF NodeMissed

LEMMA DissolveStep ==
  ASSUME IInv, NEW mp \in Minipools, dissolveMinipool(mp)
  PROVE  IInv'
  <1>a. /\ Types /\ (\A q \in Members : CheckInv(q)) /\ NodeInv /\ SafeInv /\ VoteInv
        /\ LaunchInv /\ ActedInv /\ BadIsStopped /\ GoodIsLaunched
    BY DEF IInv
  <1>b. /\ now' = now /\ kind' = kind /\ validator' = validator /\ since' = since
        /\ lost' = lost /\ bond' = bond /\ nodeTask' = nodeTask /\ onBeacon' = onBeacon
        /\ votes' = votes /\ done' = done /\ faults' = faults /\ check' = check
        /\ status[mp] = "Prelaunch" /\ now >= LaunchTimeout
        /\ status' = [status EXCEPT ![mp] = "Dissolved"]
    BY DEF dissolveMinipool, env
  <1>c. status'[mp] = "Dissolved" /\ \A other \in Minipools \ {mp} : status'[other] = status[other]
    BY <1>a, <1>b DEF Types
  <1>1. Types'
    BY <1>a, <1>b, <1>c DEF Types, MaxTime, Statuses
  <1>2. (\A m \in Members : CheckInv(m)') /\ NodeInv'
    BY <1>a, <1>b, <1>c DEF CheckInv, NodeInv, ViewInv
  <1>3. SafeInv' /\ ActedInv' /\ BadIsStopped'
    BY <1>a, <1>b, <1>c DEF SafeInv, ActedInv, BadIsStopped, Good, MayBeGood
  <1>4. VoteInv'
    <2>1. \A other \in Minipools : (Bad(other)' <=> Bad(other)) /\ (Undecided(other)' => Undecided(other))
      BY <1>a, <1>b, <1>c DEF Bad, Undecided, Types
    <2>2. \A m \in Members, other \in Minipools : Missed(m, other)' = Missed(m, other)
      BY <1>b DEF Missed, Visible, Through
    <2> QED
      BY <1>a, <1>b, <1>c, <2>1, <2>2 DEF VoteInv, Tally
  <1>5. LaunchInv'
    <2>1. \A other \in Minipools : Good(other)' = Good(other) /\ NodeMissed(other)' = NodeMissed(other)
      BY <1>b DEF Good, NodeMissed, Due, Period, NodeThrough
    <2>2. now \in Nat
      BY <1>a DEF Types
    <2> QED
      BY <1>a, <1>b, <1>c, <2>1, <2>2, Halves DEF LaunchInv, Unblocked
  <1>6. GoodIsLaunched'
    <2>1. ~(Good(mp) /\ Unblocked(mp))
      BY <1>a, <1>b, LaunchedInTime, Halves DEF Types
    <2> QED
      BY <1>a, <1>b, <1>c, <2>1 DEF GoodIsLaunched, Good, Unblocked
  <1> QED
    BY <1>1, <1>2, <1>3, <1>4, <1>5, <1>6 DEF IInv

(***************************************************************************)
(* The node.                                                               *)
(***************************************************************************)
\* A new minipool that is not dissolved when it can be staked, is good.
LEMMA StakedIsGood ==
  ASSUME IInv, NEW mp \in Minipools, kind[mp] = "new", status[mp] = "Prelaunch",
         now > ScrubPeriod
  PROVE  validator[mp] = "good"
  <1>1. Cardinality(votes[mp]) < Quorum
    <2>1. votes[mp] \in SUBSET Members /\ ~(Cardinality(votes[mp]) >= Quorum)
      BY DEF IInv, Types, VoteInv
    <2> QED
      BY <2>1, FewerVotes, Halves
  <1>2. SUFFICES ASSUME validator[mp] # "good" PROVE FALSE
    OBVIOUS
  <1>3. now - (ScrubPeriod \div 2) - 1 <= MaxFaults
    BY <1>1, <1>2, BadIsDecided DEF Bad, Undecided, Visible
  <1> QED
    BY <1>3, Halves, PeriodsAssumption DEF IInv, Types

LEMMA NodeUpdatesStep == IInv /\ NodeUpdates => IInv'
  <1> SUFFICES ASSUME IInv, NodeUpdates PROVE IInv'
    OBVIOUS
  <1>a. /\ Types /\ (\A q \in Members : CheckInv(q)) /\ NodeInv /\ SafeInv /\ VoteInv
        /\ LaunchInv /\ ActedInv /\ BadIsStopped /\ GoodIsLaunched
    BY DEF IInv
  <1> DEFINE c == [phase |-> "stake", view |-> View,
                   todo |-> {mp \in Minipools : kind[mp] = "new" /\ status[mp] = "Prelaunch"
                                                /\ now > ScrubPeriod}]
  <1>b. /\ now' = now /\ kind' = kind /\ validator' = validator /\ since' = since
        /\ lost' = lost /\ bond' = bond /\ nodeTask' = c /\ onBeacon' = onBeacon
        /\ votes' = votes /\ done' = done /\ faults' = faults /\ check' = check
        /\ status' = status /\ nodeTask.phase = "idle" /\ Node \notin done
    BY DEF NodeUpdates, env
  <1>i. nodeTask = Idle
    BY <1>a, <1>b DEF Types, Tasks
  <1>c. /\ c \in [phase : Tasks, view : Views, todo : SUBSET Minipools]
        /\ c.phase = "stake" /\ c.view = View
        /\ \A mp \in Minipools :
               mp \in c.todo <=> kind[mp] = "new" /\ status[mp] = "Prelaunch" /\ now > ScrubPeriod
    BY <1>a, ViewIsTrue DEF Tasks
  <1> HIDE DEF c
  <1>1. Types'
    BY <1>a, <1>b, <1>c DEF Types, MaxTime
  <1>2. \A m \in Members : CheckInv(m)'
    BY <1>a, <1>b DEF CheckInv, ViewInv
  <1>3. NodeInv'
    BY <1>a, <1>b, <1>c, ViewIsTrue DEF NodeInv, ViewInv, TaskKind
  <1>4. SafeInv' /\ ActedInv' /\ BadIsStopped' /\ GoodIsLaunched'
    BY <1>a, <1>b DEF SafeInv, ActedInv, BadIsStopped, GoodIsLaunched, Good, MayBeGood
  <1>5. VoteInv'
    BY <1>a, <1>b DEF VoteInv, Tally, Bad, Undecided, Missed, Visible, Through
  <1>6. LaunchInv'
    <2>1. ASSUME NEW mp \in Minipools, Good(mp), Unblocked(mp), status[mp] = "Prelaunch"
          PROVE  faults[Node] >= NodeMissed(mp)'
      <3>1. Due(mp)' = Due(mp) /\ Due(mp) \in Nat /\ now \in Nat /\ faults[Node] \in Nat
            /\ Period(mp) <= Due(mp)
        BY <1>a, <1>b, Halves DEF Due, Period, Types, Daemons
      <3>2. CASE ~NodeThrough(mp)'
        <4>1. ~NodeThrough(mp)
          BY <1>b, <1>i DEF NodeThrough
        <4> QED
          BY <1>a, <1>b, <2>1, <3>1, <3>2, <4>1 DEF LaunchInv, NodeMissed
      <3>3. CASE NodeThrough(mp)'
        <4>1. kind[mp] = "new" /\ now <= ScrubPeriod
          BY <1>b, <1>c, <2>1, <3>1, <3>3, Halves DEF NodeThrough
        <4> QED
          BY <1>b, <3>1, <4>1, Halves DEF NodeMissed, Period
      <3> QED
        BY <3>2, <3>3
    <2>2. \A mp \in c.todo : now > ScrubPeriod /\ validator[mp] = "good" /\ status[mp] = "Prelaunch"
      BY <1>c, StakedIsGood
    <2> QED
      BY <1>b, <1>c, <2>1, <2>2 DEF LaunchInv, Good, Unblocked
  <1> QED
    BY <1>1, <1>2, <1>3, <1>4, <1>5, <1>6 DEF IInv

(* The end of a task, at which nothing that is due is left undone but for  *)
(* a request that failed.                                                  *)
LEMMA NextTaskStep ==
  ASSUME IInv, nodeTask # Idle, NextTask,
         faults' \in [Daemons -> Nat],
         \A d \in Daemons : faults'[d] <= MaxFaults /\ faults'[d] >= faults[d],
         nodeTask.phase \in {"stake", "promote"} =>
             \A mp \in nodeTask.todo :
                 Good(mp) /\ Unblocked(mp) /\ status[mp] = "Prelaunch" =>
                     now <= Due(mp) \/ faults'[Node] >= faults[Node] + 1,
         UNCHANGED <<now, env, status, bond, votes, check>>
  PROVE  IInv'
  <1>a. /\ Types /\ (\A q \in Members : CheckInv(q)) /\ NodeInv /\ SafeInv /\ VoteInv
        /\ LaunchInv /\ ActedInv /\ BadIsStopped /\ GoodIsLaunched
    BY DEF IInv
  <1>b. /\ now' = now /\ kind' = kind /\ validator' = validator /\ since' = since
        /\ lost' = lost /\ bond' = bond /\ onBeacon' = onBeacon
        /\ votes' = votes /\ check' = check /\ status' = status
    BY DEF env
  <1>t. nodeTask \in [phase : Tasks, view : Views, todo : SUBSET Minipools]
        /\ Node \notin done /\ ViewInv(nodeTask.view)
    BY <1>a DEF Types, NodeInv
  <1>r. /\ Todo("reduce") \in SUBSET Minipools
        /\ \A mp \in Todo("reduce") : kind[mp] = "reducing"
    BY DEF Todo
  <1>p. /\ Todo("promote") \in SUBSET Minipools
        /\ \A mp \in Todo("promote") : kind[mp] = "vacant" /\ now > PromotionPeriod
        /\ \A mp \in Minipools : kind[mp] = "vacant" /\ status[mp] = "Prelaunch"
              /\ now > PromotionPeriod => mp \in Todo("promote")
    BY <1>t DEF Todo, ViewInv
  <1>c. \/ /\ nodeTask.phase \in {"stake", "reduce"} /\ done' = done
           /\ nodeTask' \in [phase : Tasks, view : Views, todo : SUBSET Minipools]
           /\ nodeTask' # Idle /\ nodeTask'.view = nodeTask.view
           /\ nodeTask'.phase = (IF nodeTask.phase = "stake" THEN "reduce" ELSE "promote")
           /\ nodeTask'.todo = Todo(nodeTask'.phase)
        \/ nodeTask.phase = "promote" /\ nodeTask' = Idle /\ done' = done \cup {Node}
    <2>1. CASE nodeTask.phase = "stake"
      <3>1. nodeTask' = [nodeTask EXCEPT !.phase = "reduce", !.todo = Todo("reduce")]
            /\ done' = done
        BY <2>1 DEF NextTask
      <3>2. nodeTask'.phase = "reduce" /\ nodeTask' \in [phase : Tasks, view : Views, todo : SUBSET Minipools]
        BY <1>t, <1>r, <3>1 DEF Tasks
      <3> QED
        BY <1>t, <2>1, <3>1, <3>2 DEF Idle
    <2>2. CASE nodeTask.phase = "reduce"
      <3>1. nodeTask' = [nodeTask EXCEPT !.phase = "promote", !.todo = Todo("promote")]
            /\ done' = done
        BY <2>2 DEF NextTask
      <3>2. nodeTask'.phase = "promote" /\ nodeTask' \in [phase : Tasks, view : Views, todo : SUBSET Minipools]
        BY <1>t, <1>p, <3>1 DEF Tasks
      <3> QED
        BY <1>t, <2>2, <3>1, <3>2 DEF Idle
    <2>3. CASE nodeTask.phase = "promote"
      BY <2>3 DEF NextTask
    <2> QED
      BY <1>t, <2>1, <2>2, <2>3 DEF Tasks
  <1>d. /\ \A m \in Members : m \in done' <=> m \in done
        /\ done' \subseteq Daemons /\ (nodeTask' # Idle => Node \notin done')
    BY <1>a, <1>c, <1>t, MinipoolAssumption DEF Types, Daemons, Node
  <1>1. Types'
    BY <1>a, <1>b, <1>c, <1>d DEF Types, MaxTime
  <1>2. \A m \in Members : CheckInv(m)'
    BY <1>a, <1>b, <1>d DEF CheckInv, ViewInv
  <1>3. NodeInv'
    BY <1>b, <1>c, <1>d, <1>t, <1>r, <1>p DEF NodeInv, ViewInv, TaskKind
  <1>4. SafeInv' /\ ActedInv' /\ BadIsStopped' /\ GoodIsLaunched'
    BY <1>a, <1>b DEF SafeInv, ActedInv, BadIsStopped, GoodIsLaunched, Good, MayBeGood
  <1>5. VoteInv'
    <2>1. \A m \in Members, mp \in Minipools :
              Missed(m, mp)' = Missed(m, mp) /\ faults'[m] >= faults[m]
              /\ faults'[m] \in Nat /\ faults[m] \in Nat /\ Missed(m, mp) \in Int
      BY <1>a, <1>b, <1>d, Halves DEF Missed, Visible, Through, Types, Daemons
    <2>2. \A m \in Members, mp \in Minipools :
              faults[m] >= Missed(m, mp) => faults'[m] >= Missed(m, mp)'
      BY <2>1
    <2> QED
      BY <1>a, <1>b, <2>2 DEF VoteInv, Tally, Bad, Undecided
  <1>6. LaunchInv'
    <2>1. ASSUME NEW mp \in Minipools, Good(mp), Unblocked(mp), status[mp] = "Prelaunch"
          PROVE  faults'[Node] >= NodeMissed(mp)'
      <3>1. /\ Due(mp)' = Due(mp) /\ Due(mp) \in Nat /\ now \in Nat /\ Period(mp) <= Due(mp)
            /\ faults[Node] \in Nat /\ faults'[Node] \in Nat /\ faults'[Node] >= faults[Node]
        BY <1>a, <1>b, Halves DEF Due, Period, Types, Daemons
      <3>2. faults[Node] >= NodeMissed(mp)
        BY <1>a, <2>1 DEF LaunchInv
      <3>3. CASE NodeThrough(mp)' => NodeThrough(mp)
        BY <1>b, <3>1, <3>2, <3>3 DEF NodeMissed
      <3>4. CASE NodeThrough(mp)' /\ ~NodeThrough(mp)
        <4>1. CASE now <= Due(mp) \/ faults'[Node] >= faults[Node] + 1
          BY <1>b, <3>1, <3>2, <3>4, <4>1 DEF NodeMissed
        <4>2. CASE nodeTask.phase \in {"stake", "promote"} /\ mp \in nodeTask.todo
          BY <2>1, <4>1, <4>2
        <4>3. CASE nodeTask.phase \in {"stake", "promote"} /\ mp \notin nodeTask.todo
          <5>1. kind[mp] \in {"new", "vacant"}
            BY <1>a, <2>1 DEF Good, Types
          <5>2. nodeTask.phase = "stake" /\ kind[mp] = "vacant"
            BY <1>t, <3>4, <4>3, <5>1 DEF NodeThrough
          <5>3. nodeTask'.phase = "reduce" /\ Node \notin done'
            BY <1>c, <1>d, <5>2
          <5> QED
            BY <1>b, <3>4, <5>2, <5>3 DEF NodeThrough
        <4>4. CASE nodeTask.phase = "reduce"
          <5>1. kind[mp] = "vacant"
            BY <1>a, <2>1, <3>4, <4>4 DEF Good, NodeThrough, Types
          <5>2. mp \notin Todo("promote")
            BY <1>b, <1>c, <1>d, <3>4, <4>4, <5>1 DEF NodeThrough
          <5>3. now <= PromotionPeriod
            BY <1>p, <2>1, <3>1, <5>1, <5>2, Halves
          <5> QED
            BY <3>1, <4>1, <5>1, <5>3, Halves DEF Period
        <4> QED
          BY <1>t, <4>2, <4>3, <4>4 DEF Tasks
      <3> QED
        BY <3>3, <3>4
    <2>2. nodeTask' # Idle => nodeTask'.phase # "stake"
      BY <1>c
    <2>3. nodeTask' # Idle /\ nodeTask'.phase = "promote" /\ nodeTask'.todo # {}
              => now > PromotionPeriod
      BY <1>c, <1>p
    <2> QED
      BY <1>b, <2>1, <2>2, <2>3 DEF LaunchInv, Good, Unblocked
  <1> QED
    BY <1>1, <1>2, <1>3, <1>4, <1>5, <1>6 DEF IInv

LEMMA TaskDoneStep == IInv /\ TaskDone => IInv'
  <1> SUFFICES ASSUME IInv, TaskDone PROVE IInv'
    OBVIOUS
  <1>1. nodeTask # Idle /\ nodeTask.todo = {} /\ NextTask
        /\ UNCHANGED <<now, env, status, bond, votes, check>> /\ faults' = faults
    BY DEF TaskDone, Idle
  <1>2. /\ faults' \in [Daemons -> Nat]
        /\ \A d \in Daemons : faults'[d] <= MaxFaults /\ faults'[d] >= faults[d]
    BY <1>1 DEF IInv, Types
  <1> QED
    BY <1>1, <1>2, NextTaskStep

LEMMA RequestFailsStep == IInv /\ RequestFails => IInv'
  <1> SUFFICES ASSUME IInv, RequestFails PROVE IInv'
    OBVIOUS
  <1>1. nodeTask # Idle /\ NextTask /\ faults[Node] < MaxFaults
        /\ UNCHANGED <<now, env, status, bond, votes, check>>
        /\ faults' = [faults EXCEPT ![Node] = @ + 1]
    BY DEF RequestFails, Idle
  <1>2. /\ faults' \in [Daemons -> Nat] /\ faults'[Node] >= faults[Node] + 1
        /\ \A d \in Daemons : faults'[d] <= MaxFaults /\ faults'[d] >= faults[d]
    BY <1>1, Halves DEF IInv, Types, Daemons
  <1> QED
    BY <1>1, <1>2, NextTaskStep

(* A good minipool further up in the list is not held up: the ones before  *)
(* it are good as well, and still there.                                   *)
LEMMA NotHeldUp ==
  ASSUME IInv, nodeTask # Idle, nodeTask.phase \in {"stake", "promote"},
         NEW mp \in nodeTask.todo, Good(mp), Unblocked(mp), status[mp] = "Prelaunch",
         NEW other \in nodeTask.todo, other <= mp
  PROVE  other \notin lost /\ Accepts(other)
  <1>t. nodeTask \in [phase : Tasks, view : Views, todo : SUBSET Minipools]
        /\ now \in Nat /\ lost \subseteq Minipools
    BY DEF IInv, Types
  <1>0. mp \in Minipools /\ other \in Minipools /\ mp \in Nat /\ other \in Nat
    BY <1>t, MinipoolAssumption
  <1>1. other \notin lost
    BY <1>0 DEF Unblocked
  <1>2. now < LaunchTimeout
    BY <1>0, LaunchedInTime
  <1>3. CASE nodeTask.phase = "stake"
    <2>1. kind[other] = "new" /\ now > ScrubPeriod /\ status[other] = "Prelaunch"
      BY <1>2, <1>3 DEF IInv, NodeInv, TaskKind, LaunchInv
    <2> QED
      BY <1>1, <2>1 DEF Accepts
  <1>4. CASE nodeTask.phase = "promote"
    <2>1. kind[other] = "vacant" /\ kind[mp] = "vacant" /\ now > PromotionPeriod
      BY <1>4 DEF IInv, NodeInv, TaskKind, LaunchInv
    <2>2. other = mp
      BY <1>0, <2>1 DEF IInv, Types
    <2> QED
      BY <1>1, <2>1, <2>2 DEF Accepts
  <1> QED
    BY <1>3, <1>4

(* A minipool that the contract accepts is not bad, or went bad too late   *)
(* for the members.                                                        *)
LEMMA AcceptedIsGood ==
  ASSUME IInv, NEW mp \in Minipools, Accepts(mp)
  PROVE  /\ kind[mp] = "new" => validator[mp] = "good"
         /\ kind[mp] = "vacant" => validator[mp] = "right"
                                   \/ since[mp] + MaxFaults + 1 > PromotionPeriod
         /\ kind[mp] = "reducing" /\ mp \notin bond =>
                validator[mp] = "fit" \/ since[mp] + MaxFaults + 1 > WindowStart
  <1>1. /\ kind[mp] \in Kinds /\ validator[mp] \in Known(kind[mp]) /\ now \in Nat
        /\ since[mp] \in Nat /\ votes[mp] \in SUBSET Members
    BY DEF IInv, Types
  <1>2. kind[mp] = "new" => validator[mp] = "good"
    BY StakedIsGood DEF Accepts
  <1>3. ASSUME kind[mp] = "vacant", validator[mp] # "right"
        PROVE  since[mp] + MaxFaults + 1 > PromotionPeriod
    <2>1. status[mp] = "Prelaunch" /\ now > PromotionPeriod
      BY <1>3 DEF Accepts
    <2>2. Cardinality(votes[mp]) < Quorum
      <3>1. ~(Cardinality(votes[mp]) >= Quorum)
        BY <1>3, <2>1 DEF IInv, VoteInv
      <3> QED
        BY <1>1, <3>1, FewerVotes, Halves
    <2>3. now - Visible(mp) - 1 <= MaxFaults
      BY <1>3, <2>1, <2>2, BadIsDecided DEF Bad, Undecided
    <2> QED
      BY <1>1, <1>3, <2>1, <2>3, Halves, PeriodsAssumption DEF Visible
  <1>4. ASSUME kind[mp] = "reducing", mp \notin bond, validator[mp] # "fit"
        PROVE  since[mp] + MaxFaults + 1 > WindowStart
    <2>1. ~Cancelled(mp) /\ now > WindowStart
      BY <1>4 DEF Accepts
    <2>2. Cardinality(votes[mp]) < Quorum
      BY <1>1, <2>1, FewerVotes, Halves DEF Cancelled
    <2>3. now - since[mp] - 1 <= MaxFaults
      BY <1>1, <1>4, <2>2, BadIsDecided DEF Bad, Undecided, Known, Visible
    <2> QED
      BY <1>1, <2>1, <2>3, Halves
  <1> QED
    BY <1>2, <1>3, <1>4

(* The next minipool leaves the list: it has been launched or reduced, or  *)
(* it waits, which nothing does that is due.                               *)
LEMMA LeavesListStep ==
  ASSUME IInv, nodeTask # Idle, nodeTask.todo # {},
         nodeTask' = [nodeTask EXCEPT !.todo = @ \ {First(nodeTask.todo)}],
         Accepts(First(nodeTask.todo)),
         \/ /\ status' = [status EXCEPT ![First(nodeTask.todo)] = "Staking"]
            /\ bond' = IF kind[First(nodeTask.todo)] = "reducing"
                       THEN bond \cup {First(nodeTask.todo)} ELSE bond
         \/ /\ UNCHANGED <<status, bond>>
            /\ kind[First(nodeTask.todo)] = "reducing" \/ ~IsTransactionDue,
         UNCHANGED <<now, env, votes, check, done, faults>>
  PROVE  IInv'
  <1>a. /\ Types /\ (\A q \in Members : CheckInv(q)) /\ NodeInv /\ SafeInv /\ VoteInv
        /\ LaunchInv /\ ActedInv /\ BadIsStopped /\ GoodIsLaunched
    BY DEF IInv
  <1> DEFINE f == First(nodeTask.todo)
  <1>b. /\ now' = now /\ kind' = kind /\ validator' = validator /\ since' = since
        /\ lost' = lost /\ onBeacon' = onBeacon
        /\ votes' = votes /\ check' = check /\ done' = done /\ faults' = faults
    BY DEF env
  <1>t. /\ nodeTask \in [phase : Tasks, view : Views, todo : SUBSET Minipools]
        /\ nodeTask' \in [phase : Tasks, view : Views, todo : SUBSET Minipools]
        /\ nodeTask'.phase = nodeTask.phase /\ nodeTask'.view = nodeTask.view
        /\ nodeTask'.todo = nodeTask.todo \ {f} /\ nodeTask' # Idle
    <2>1. nodeTask \in [phase : Tasks, view : Views, todo : SUBSET Minipools]
      BY <1>a DEF Types
    <2>2. /\ nodeTask' \in [phase : Tasks, view : Views, todo : SUBSET Minipools]
          /\ nodeTask'.phase = nodeTask.phase /\ nodeTask'.view = nodeTask.view
          /\ nodeTask'.todo = nodeTask.todo \ {f}
      BY <2>1
    <2> QED
      BY <2>1, <2>2 DEF Idle, Tasks
  <1>f. f \in nodeTask.todo /\ f \in Minipools /\ Accepts(f)
    BY <1>t, FirstIsSmallest
  <1> HIDE DEF f
  <1>s. /\ status' \in [Minipools -> Statuses] /\ bond' \subseteq Minipools
        /\ \A mp \in Minipools \ {f} : status'[mp] = status[mp] /\ (mp \in bond' <=> mp \in bond)
        /\ status'[f] \in {"Staking", status[f]}
        /\ bond \subseteq bond' /\ (kind[f] # "reducing" => bond' = bond)
        /\ kind[f] # "reducing" /\ status'[f] = "Prelaunch" => now <= LaunchTimeout \div 2
        /\ kind[f] = "reducing" => status'[f] = "Staking"
    BY <1>a, <1>f, Halves DEF Types, Statuses, f, IsTransactionDue
  <1>1. Types'
    BY <1>a, <1>b, <1>s, <1>t DEF Types, MaxTime
  <1>2. \A m \in Members : CheckInv(m)'
    BY <1>a, <1>b, <1>s DEF CheckInv, ViewInv
  <1>3. NodeInv'
    BY <1>a, <1>b, <1>s, <1>t DEF NodeInv, ViewInv
  <1>4. SafeInv'
    BY <1>a, <1>b DEF SafeInv, Good, MayBeGood
  <1>5. VoteInv'
    <2>1. kind[f] # "reducing" => ~(Cardinality(votes[f]) >= Quorum)
      BY <1>a, <1>f DEF Accepts, VoteInv, Types, Kinds
    <2>2. \A m \in Members, mp \in Minipools :
              Missed(m, mp)' = Missed(m, mp) /\ (Bad(mp)' <=> Bad(mp))
      BY <1>b DEF Missed, Visible, Through, Bad
    <2>3. \A mp \in Minipools : Undecided(mp)' => Undecided(mp)
      BY <1>a, <1>b, <1>s DEF Undecided, Types
    <2> QED
      BY <1>a, <1>b, <1>s, <2>1, <2>2, <2>3 DEF VoteInv, Tally
  <1>6. LaunchInv'
    <2>1. ASSUME NEW mp \in Minipools, Good(mp), Unblocked(mp), status'[mp] = "Prelaunch"
          PROVE  faults[Node] >= NodeMissed(mp)'
      <3>1. /\ Due(mp)' = Due(mp) /\ Due(mp) \in Nat /\ now \in Nat /\ faults[Node] \in Nat
            /\ LaunchTimeout \div 2 <= Due(mp)
        BY <1>a, <1>b, Halves DEF Due, Period, Types, Daemons
      <3>2. CASE mp = f
        <4>1. now <= LaunchTimeout \div 2
          BY <1>s, <2>1, <3>2
        <4> QED
          BY <1>b, <3>1, <4>1, Halves DEF NodeMissed
      <3>3. CASE mp # f
        <4>1. NodeThrough(mp)' <=> NodeThrough(mp)
          BY <1>b, <1>t, <3>3 DEF NodeThrough
        <4>2. faults[Node] >= NodeMissed(mp)
          BY <1>a, <1>s, <2>1, <3>3 DEF LaunchInv
        <4> QED
          BY <1>b, <3>1, <4>1, <4>2 DEF NodeMissed
      <3> QED
        BY <3>2, <3>3
    <2> QED
      BY <1>a, <1>b, <1>s, <1>t, <2>1 DEF LaunchInv, Good, Unblocked
  <1>7. ActedInv'
    BY <1>a, <1>b, <1>f, <1>s DEF ActedInv, Accepts, Types
  <1>8. BadIsStopped'
    <2>1. /\ kind[f] = "new" => validator[f] = "good"
          /\ kind[f] = "vacant" => validator[f] = "right"
                                   \/ since[f] + MaxFaults + 1 > PromotionPeriod
          /\ kind[f] = "reducing" /\ f \notin bond =>
                 validator[f] = "fit" \/ since[f] + MaxFaults + 1 > WindowStart
      BY <1>f, AcceptedIsGood
    <2>2. f \in bond => validator[f] = "fit" \/ since[f] + MaxFaults + 1 > WindowStart
      BY <1>a, <1>f DEF BadIsStopped
    <2>3. f \in bond' => validator[f] = "fit" \/ since[f] + MaxFaults + 1 > WindowStart
      BY <1>s, <1>f, <1>a, <2>1, <2>2 DEF Types, Kinds
    <2> QED
      BY <1>a, <1>b, <1>f, <1>s, <2>1, <2>3 DEF BadIsStopped
  <1>9. GoodIsLaunched'
    BY <1>a, <1>b, <1>f, <1>s DEF GoodIsLaunched, Good
  <1> QED
    BY <1>1, <1>2, <1>3, <1>4, <1>5, <1>6, <1>7, <1>8, <1>9 DEF IInv

LEMMA SubmitStep == IInv /\ (Submit \/ GasTooHigh) => IInv'
  <1> SUFFICES ASSUME IInv, Submit \/ GasTooHigh PROVE IInv'
    OBVIOUS
  <1>1. nodeTask # Idle /\ nodeTask.todo # {}
        /\ UNCHANGED <<now, env, votes, check, faults>>
    BY DEF Submit, GasTooHigh, Idle
  <1>2. CASE GasTooHigh
    BY <1>1, <1>2, LeavesListStep DEF GasTooHigh
  <1>3. CASE Submit /\ (First(nodeTask.todo) \in lost \/ ~Accepts(First(nodeTask.todo)))
    <2>1. NextTask /\ UNCHANGED <<status, bond>>
      BY <1>3 DEF Submit
    <2>2. /\ faults' \in [Daemons -> Nat]
          /\ \A d \in Daemons : faults'[d] <= MaxFaults /\ faults'[d] >= faults[d]
      BY <1>1 DEF IInv, Types
    <2>3. nodeTask.todo \in SUBSET Minipools
      BY <1>1 DEF IInv, Types
    <2>4. First(nodeTask.todo) \in nodeTask.todo
          /\ \A mp \in nodeTask.todo : First(nodeTask.todo) <= mp
      BY <1>1, <2>3, FirstIsSmallest
    <2>5. nodeTask.phase \in {"stake", "promote"} =>
             \A mp \in nodeTask.todo : ~(Good(mp) /\ Unblocked(mp) /\ status[mp] = "Prelaunch")
      BY <1>1, <1>3, <2>4, NotHeldUp
    <2> QED
      BY <1>1, <2>1, <2>2, <2>5, NextTaskStep
  <1>4. CASE Submit /\ ~(First(nodeTask.todo) \in lost \/ ~Accepts(First(nodeTask.todo)))
    <2>1. /\ status' = [status EXCEPT ![First(nodeTask.todo)] = "Staking"]
          /\ bond' = IF kind[First(nodeTask.todo)] = "reducing"
                     THEN bond \cup {First(nodeTask.todo)} ELSE bond
          /\ nodeTask' = [nodeTask EXCEPT !.todo = @ \ {First(nodeTask.todo)}]
          /\ UNCHANGED done /\ Accepts(First(nodeTask.todo))
      BY <1>4 DEF Submit
    <2> QED
      BY <1>1, <2>1, LeavesListStep
  <1> QED
    BY <1>2, <1>3, <1>4

LEMMA StutterStep == IInv /\ UNCHANGED vars => IInv'
  <1> SUFFICES ASSUME IInv, UNCHANGED vars PROVE IInv'
    OBVIOUS
  <1>1. /\ now' = now /\ kind' = kind /\ validator' = validator /\ since' = since
        /\ lost' = lost /\ onBeacon' = onBeacon /\ nodeTask' = nodeTask
        /\ votes' = votes /\ check' = check /\ done' = done /\ faults' = faults
        /\ status' = status /\ bond' = bond
    BY DEF vars, env
  <1>2. Types' /\ (\A m \in Members : CheckInv(m)') /\ NodeInv'
    BY <1>1 DEF IInv, Types, CheckInv, NodeInv, ViewInv, MaxTime
  <1>3. SafeInv' /\ ActedInv' /\ BadIsStopped' /\ GoodIsLaunched'
    BY <1>1 DEF IInv, SafeInv, ActedInv, BadIsStopped, GoodIsLaunched, Good, MayBeGood
  <1>4. VoteInv'
    <2>1. ASSUME NEW m \in Members, NEW mp \in Minipools PROVE Tally(m, mp)' <=> Tally(m, mp)
      BY <1>1 DEF Tally, Bad, Undecided, Missed, Visible, Through
    <2> QED
      BY <1>1, <2>1 DEF IInv, VoteInv
  <1>5. LaunchInv'
    <2>1. ASSUME NEW mp \in Minipools
          PROVE  (Good(mp)' <=> Good(mp)) /\ (Unblocked(mp)' <=> Unblocked(mp))
                 /\ NodeMissed(mp)' = NodeMissed(mp)
      BY <1>1 DEF Good, Unblocked, NodeMissed, Due, Period, NodeThrough
    <2> QED
      BY <1>1, <2>1 DEF IInv, LaunchInv
  <1> QED
    BY <1>2, <1>3, <1>4, <1>5 DEF IInv

LEMMA NextIInv == IInv /\ [Next]_vars => IInv'
  <1> SUFFICES ASSUME IInv, [Next]_vars PROVE IInv'
    OBVIOUS
  <1>1. ASSUME NEW mp \in Minipools,
               BeaconProcesses(mp) \/ ValidatorChanges(mp) \/ dissolveMinipool(mp)
        PROVE  IInv'
    BY <1>1, BeaconStep, ValidatorStep, DissolveStep
  <1>2. ASSUME NEW m \in Members,
               \/ StartCheck(m) \/ verifyBeaconWithdrawalCredentials(m) \/ verifyPrestakeEvents(m)
               \/ verifyDeposits(m) \/ checkSafetyScrub(m) \/ checkSoloMigrationsOf(m)
               \/ checkBondReductions(m) \/ CheckFails(m)
        PROVE  IInv'
    <2>1. CheckFails(m) => check[m].phase \in ScrubPhases \cup {"solo", "bonds"}
      BY DEF IInv, Types, CheckFails, Idle, Phases, ScrubPhases
    <2> QED
      BY <1>2, <2>1, StartCheckStep, ScrubSteps, SoloStep, BondStep
  <1> QED
    BY <1>1, <1>2, TickStep, NodeUpdatesStep, TaskDoneStep, SubmitStep, RequestFailsStep,
       StutterStep DEF Next

LEMMA IInvHolds == Spec => []IInv
  BY InitIInv, NextIInv, PTL DEF Spec

(* Types: the scrub check has no vacant minipools, and each of the node's  *)
(* tasks only minipools of its kind (submitScrubMinipools and the tasks).  *)
THEOREM TypeCorrect == Spec => []TypeOK
  <1>1. IInv => TypeOK
    <2> SUFFICES ASSUME IInv PROVE TypeOK
      OBVIOUS
    <2>1. now \in 0..MaxTime /\ \A mp \in Minipools : since[mp] \in 0..now
      BY Halves DEF IInv, Types, MaxTime
    <2>2. \A mp \in Minipools :
             /\ kind[mp] \in {"new", "vacant", "reducing"}
             /\ status[mp] \in {"Prelaunch", "Staking", "Dissolved"}
             /\ votes[mp] \subseteq Members
      BY DEF IInv, Types, Kinds, Statuses
    <2>3. \A m \in Members : check[m] # Idle =>
             check[m].phase \in Phases /\ \A mp \in check[m].left : kind[mp] = "new"
      BY DEF IInv, Types, CheckInv
    <2>4. nodeTask # Idle => \A mp \in nodeTask.todo :
             kind[mp] = CASE nodeTask.phase = "stake" -> "new"
                          [] nodeTask.phase = "reduce" -> "reducing"
                          [] nodeTask.phase = "promote" -> "vacant"
      BY DEF IInv, NodeInv, Types, Tasks, TaskKind
    <2> QED
      BY <2>1, <2>2, <2>3, <2>4 DEF TypeOK
  <1> QED
    BY IInvHolds, <1>1, PTL

(* No member votes against a good minipool, for any periods and whatever   *)
(* requests fail (the scrub, migration and bond reduction checks).         *)
THEOREM GoodIsSafeHolds == Spec => []GoodIsSafe
  <1>1. IInv => GoodIsSafe
    BY DEF IInv, SafeInv, GoodIsSafe
  <1> QED
    BY IInvHolds, <1>1, PTL

(* Bad minipools are stopped before the node may act on them               *)
(* (stakePrelaunchMinipools, promoteMinipools and reduceBonds).            *)
THEOREM BadIsStoppedHolds == Spec => []BadIsStopped
  <1>1. IInv => BadIsStopped
    BY DEF IInv
  <1> QED
    BY IInvHolds, <1>1, PTL

(* Good minipools are launched before they can be dissolved, unless one    *)
(* whose key is lost comes first in the list (IsTransactionDue).           *)
THEOREM GoodIsLaunchedHolds == Spec => []GoodIsLaunched
  <1>1. IInv => GoodIsLaunched
    BY DEF IInv
  <1> QED
    BY IInvHolds, <1>1, PTL
=============================================================================
