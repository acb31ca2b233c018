--------------------------- MODULE PdaoProposals ---------------------------
(***************************************************************************)
(* The two protocol DAO tasks of a node daemon.  defendPdaoProps answers   *)
(* the challenges against the node's own proposal, which is right;         *)
(* verifyPdaoProps challenges the proposals of others that are wrong and   *)
(* defeats them when their proposer gives up.  Both find out what happened *)
(* by scanning the chain for events from the block after lastScannedBlock  *)
(* to the block of the loop's network state, and keep no other record of   *)
(* what they did.  The chain may be reorganised meanwhile.                 *)
(*                                                                         *)
(* The chain is the sequence of the transactions in it, one in a block;    *)
(* what the contract says at a block follows from the blocks up to it.     *)
(* Below index i of a tree are 2i and 2i + 1 (one level per round).  What  *)
(* CheckForChallengeableArtifacts finds below a wrong node is another      *)
(* wrong node (module ChallengeWalk), so a wrong proposal is known by the  *)
(* path of its wrong nodes.                                                *)
(***************************************************************************)
EXTENDS Integers, Sequences, FiniteSets, SequencesExt

CONSTANTS
    Own,           \* the proposal of this node
    Others,        \* proposals of others
    Paths,         \* paths of wrong nodes in their trees
    Disputed,      \* indices of Own's tree that somebody may challenge
    MaxChallenges, \* bound on the challenges that all wrong proposals need, Nat
    Patience,      \* runs of the defender in a challenge window, Nat
    MaxReorgs,     \* bound on reorganisations, Nat
    MaxDepth,      \* bound on the blocks one of them drops, Nat
    MaxFaults      \* bound on failed requests, high gas prices and restarts, Nat

None == [kind |-> "none"]

Props == Others \cup {Own}

Indices == (UNION Paths) \cup Disputed

ASSUME PdaoAssumption ==
    /\ Own \notin Others /\ IsFiniteSet(Others)
    /\ \A nodes \in Paths :
           /\ nodes \subseteq Nat \ {0} /\ IsFiniteSet(nodes) /\ nodes # {1}
           /\ 1 \in nodes /\ \A i \in nodes \ {1} : i \div 2 \in nodes
    /\ Disputed \subseteq Nat /\ IsFiniteSet(Disputed)
    /\ 1 \notin Disputed /\ \A i \in Disputed : i \div 2 \in Disputed \cup {1}
    /\ MaxChallenges \in Nat /\ Patience \in Nat /\ MaxReorgs \in Nat /\ MaxDepth \in Nat /\ MaxFaults \in Nat

(* A challenge window has more runs than the modelled faults can take: two *)
(* for a failed request or a restart, which may leave a transaction under  *)
(* way that makes the next run fail as well; for a reorganisation the one  *)
(* it hits, and one for each transaction that it sends back.               *)
ASSUME PatienceAssumption == Patience > 2 * MaxFaults + (1 + MaxDepth) * MaxReorgs

VARIABLES
    wrong,      \* the wrong proposals, of others
    path,       \* indices of the wrong nodes of their trees, from 1 down
    chain,      \* the transactions mined
    mempool,    \* the transactions sent
    late,       \* wrong proposals older than the challenge window
    expired,    \* <<p, i>>: the window of the challenge has passed
    age,        \* runs of the defender that saw the challenge of an index of Own
    view,       \* the loop's NetworkState: its block, the pending and the defeated proposals
    task,       \* "idle", "defend" or "verify"
    todo,       \* transactions the run has yet to submit
    sent,       \* the one it waits for, or None
    scanning,   \* has the run yet to scan?
    defended,   \* lastScannedBlock of the defender, 0 for nil
    verified,   \* lastScannedBlock of the verifier, 0 for nil
    rootSubmissionCache,  \* <<p, i>> of the RootSubmitted events it knows
    reorgs, faults

chainVars == <<wrong, path, chain, mempool, late, expired, reorgs>>
daemonVars == <<view, task, todo, sent, scanning, defended, verified, rootSubmissionCache>>
vars == <<chainVars, daemonVars, age, faults>>

(***************************************************************************)
(* The contract, as of a block.                                            *)
(***************************************************************************)
Root(p, i) == [kind |-> "root", prop |-> p, index |-> i]
Challenge(p, i) == [kind |-> "challenge", prop |-> p, index |-> i]
Defeat(p, i) == [kind |-> "defeat", prop |-> p, index |-> i]

Block(tx) == CHOOSE b \in DOMAIN chain : chain[b] = tx

Mined(tx, b) == \E k \in DOMAIN chain : k <= b /\ chain[k] = tx

ChallengeState(p, i, b) ==
    IF Mined(Root(p, i), b) THEN "Responded"
    ELSE IF Mined(Challenge(p, i), b) THEN "Challenged"
    ELSE "Unchallenged"

Defeated(p, b) == \E i \in Indices : Mined(Defeat(p, i), b)

Pending(p, b) == Mined(Root(p, 1), b) /\ ~Defeated(p, b)

Tip == Len(chain)

(* The contract accepts a pollard that does not add up for no leaf: it     *)
(* knows the voting power of a node itself.                                *)
CanAnswer(p, i) == p = Own \/ (2 * i) \in path \/ (2 * i + 1) \in path

Valid(tx) ==
    LET p == tx.prop
        i == tx.index
    IN  CASE tx.kind = "root" /\ i = 1 -> ~Mined(tx, Tip)
          [] tx.kind = "root" /\ i # 1 ->
                 Pending(p, Tip) /\ ChallengeState(p, i, Tip) = "Challenged"
                 /\ CanAnswer(p, i)
          [] tx.kind = "challenge" ->
                 Pending(p, Tip) /\ ChallengeState(p, i, Tip) = "Unchallenged"
                 /\ Mined(Root(p, i \div 2), Tip)
          [] tx.kind = "defeat" ->
                 Pending(p, Tip) /\ ChallengeState(p, i, Tip) = "Challenged"
                 /\ <<p, i>> \in expired

Init ==
    /\ wrong \in SUBSET Others
    /\ path \in Paths
    /\ Cardinality(wrong) * (Cardinality(path) - 1) <= MaxChallenges
    /\ chain = <<Root(Own, 1)>>
    /\ mempool = {} /\ late = {} /\ expired = {}
    /\ age = [i \in Disputed |-> 0]
    /\ view = [block |-> 0, pending |-> {}, over |-> {}]
    /\ task = "idle" /\ todo = <<>> /\ sent = None /\ scanning = FALSE
    /\ defended = 0 /\ verified = 0 /\ rootSubmissionCache = {}
    /\ reorgs = 0 /\ faults = 0

(***************************************************************************)
(* The chain and the others.                                               *)
(***************************************************************************)
Mine(tx) ==
    /\ tx \in mempool
    /\ mempool' = mempool \ {tx}
    /\ chain' = IF Valid(tx) THEN Append(chain, tx) ELSE chain
    /\ UNCHANGED <<wrong, path, late, expired, reorgs, daemonVars, age, faults>>

(* What the others may send: challenges of Own, or wrong proposals, their  *)
(* defence and challenges of them.  Not both: the two tasks share no more  *)
(* than the view.  Own is not defeated after its window has passed, which  *)
(* is bad enough.                                                          *)
OthersTxs ==
    IF wrong = {} THEN {Challenge(Own, i) : i \in Disputed}
    ELSE {Root(p, i) : p \in wrong, i \in path}
             \cup {Challenge(p, i) : p \in wrong, i \in path \ {1}}

OthersSend(tx) ==
    /\ tx \in OthersTxs \ mempool
    /\ Valid(tx)
    /\ chain' = Append(chain, tx)
    /\ UNCHANGED <<wrong, path, mempool, late, expired, reorgs, daemonVars, age, faults>>

\* Created + ChallengeWindow has passed.
WindowOver(p) ==
    /\ Pending(p, Tip) /\ p \notin late
    /\ late' = late \cup {p}
    /\ UNCHANGED <<wrong, path, chain, mempool, expired, reorgs, daemonVars, age, faults>>

\* An open challenge against Own that no later scan will find.
Overlooked(i) ==
    /\ ChallengeState(Own, i, Tip) = "Challenged"
    /\ Block(Challenge(Own, i)) <= defended
    /\ Root(Own, i) \notin mempool

(* The window of a challenge passes.  It is longer than Patience runs of a *)
(* defender that sees the challenge, and a transaction is mined in less.   *)
Expire(p, i) ==
    /\ ChallengeState(p, i, Tip) = "Challenged"
    /\ <<p, i>> \notin expired
    /\ IF p = Own
       THEN Root(p, i) \notin mempool /\ (age[i] >= Patience \/ Overlooked(i))
       ELSE p \in late
    /\ expired' = expired \cup {<<p, i>>}
    /\ UNCHANGED <<wrong, path, chain, mempool, late, reorgs, daemonVars, age, faults>>

Reorg(d) ==
    /\ reorgs < MaxReorgs
    /\ d < Len(chain)
    /\ reorgs' = reorgs + 1
    /\ LET kept == SubSeq(chain, 1, Len(chain) - d)
           dropped == {chain[k] : k \in (Len(chain) - d + 1)..Len(chain)}
           gone == {<<tx.prop, tx.index>> : tx \in {t \in dropped : t.kind = "challenge"}}
       IN  /\ chain' = kept
           /\ mempool' = mempool \cup dropped
           /\ expired' = expired \ gone
           /\ age' = [i \in Disputed |-> IF <<Own, i>> \in gone THEN 0 ELSE age[i]]
    /\ UNCHANGED <<wrong, path, late, daemonVars, faults>>

(***************************************************************************)
(* The daemon.                                                             *)
(***************************************************************************)
\* Mutant: the state is taken some blocks behind the head.
LaggingNetworkState ==
    /\ task = "idle"
    /\ view' = [block |-> Tip - 2, pending |-> {}, over |-> {}]
    /\ task' = "defend"
    /\ scanning' = TRUE
    /\ UNCHANGED <<chainVars, todo, sent, defended, verified, rootSubmissionCache, age, faults>>

UpdateNetworkState ==
    /\ task = "idle"
    /\ view' = [block |-> Tip, pending |-> {p \in Props : Pending(p, Tip)},
                over |-> {p \in Props : Defeated(p, Tip)}]
    /\ task' = "defend"
    /\ scanning' = TRUE
    /\ UNCHANGED <<chainVars, todo, sent, defended, verified, rootSubmissionCache, age, faults>>

\* A run of the defender ends that could see the challenge.
Aged ==
    [i \in Disputed |->
        IF /\ ChallengeState(Own, i, Tip) = "Challenged" /\ ~Overlooked(i)
           /\ Mined(Challenge(Own, i), view.block)
           /\ age[i] < Patience
        THEN age[i] + 1 ELSE age[i]]

\* The end of a run, with or without an error; the next task is next.
EndRun ==
    /\ task' = IF task = "defend" THEN "verify" ELSE "idle"
    /\ scanning' = (task = "defend")
    /\ todo' = <<>>
    /\ sent' = None
    /\ age' = IF task = "defend" THEN Aged ELSE age
    /\ UNCHANGED <<chainVars, view>>

\* Mutant: the tasks move on after an error, too.
ScannedAnyway ==
    /\ defended' = IF task = "defend" THEN view.block ELSE defended
    /\ verified' = IF task = "verify" THEN view.block ELSE verified

NotScanned == UNCHANGED <<defended, verified>>

\* "Get the window of blocks to scan from".
StartBlock(lastScannedBlock, first) ==
    IF lastScannedBlock = 0 THEN Block(Root(first, 1)) ELSE lastScannedBlock + 1

\* The list of the transactions, in the order of the events they answer to.
InOrder(txs, Event(_)) ==
    {list \in SetToSeqs(txs) :
        \A j, k \in DOMAIN list : j < k => Block(Event(list[j])) < Block(Event(list[k]))}

\* The answers that getDefendableProposals finds to be due.
Defendable ==
    {Root(Own, i) : i \in
        {j \in Disputed :
            /\ Mined(Challenge(Own, j), view.block)
            /\ Block(Challenge(Own, j)) >= StartBlock(defended, Own)
            /\ ChallengeState(Own, j, view.block) = "Challenged"}}

\* The chain still has a block of the view's number, and the proposals.
ViewReadable ==
    view.block <= Tip /\ \A p \in view.pending : Mined(Root(p, 1), view.block)

ScanChallenges ==
    /\ task = "defend" /\ scanning
    /\ ViewReadable
    /\ IF Own \in view.pending /\ Defendable # {}
       THEN /\ todo' \in InOrder(Defendable, LAMBDA tx : Challenge(Own, tx.index))
            /\ scanning' = FALSE
            /\ UNCHANGED <<chainVars, view, task, sent, age>>
       ELSE EndRun
    /\ NotScanned
    /\ UNCHANGED <<rootSubmissionCache, faults>>

\* Mutant: the walk looks at the children of the root only.
AskedBelowRoot(p) == CHOOSE i \in path \ {1} : i \div 2 = 1

(* The walk of getChallengeOrDefeatForProposal ends at the first index on  *)
(* the path of wrong nodes that was not responded to; on its way there it  *)
(* needs the RootSubmitted events of all the others.                       *)
Asked(p) ==
    CHOOSE i \in path \ {1} :
        /\ ChallengeState(p, i, view.block) # "Responded"
        /\ \A j \in path \ {1} : j < i => ChallengeState(p, j, view.block) = "Responded"

\* The pending proposals whose trees are not the node's own.
Mismatching == wrong \cap view.pending

\* The cache after proposals have been removed from it and events added.
Cached ==
    LET first == CHOOSE p \in Mismatching :
                     \A q \in Mismatching : Block(Root(p, 1)) <= Block(Root(q, 1))
    IN  {e \in rootSubmissionCache : e[1] \notin view.over}
            \cup {e \in Mismatching \X path :
                      /\ Mined(Root(e[1], e[2]), view.block)
                      /\ Block(Root(e[1], e[2])) >= StartBlock(verified, first)}

EventMissing == \E p \in Mismatching, j \in path : j < Asked(p) /\ <<p, j>> \notin Cached

\* A challenge that is open is left alone until its proposer gives up.
Challenges ==
    {Challenge(p, Asked(p)) : p \in
        {q \in Mismatching : ChallengeState(q, Asked(q), view.block) = "Unchallenged"}}

Defeats ==
    {Defeat(p, Asked(p)) : p \in
        {q \in Mismatching \cap late : ChallengeState(q, Asked(q), view.block) = "Challenged"}}

\* Challenges before defeats, both in the order of the proposals.
ChallengesAndDefeats ==
    LET Proposal(tx) == Root(tx.prop, 1)
    IN  {list \o more : list \in InOrder(Challenges, Proposal),
                        more \in InOrder(Defeats, Proposal)}

ScanRoots ==
    /\ task = "verify" /\ scanning
    /\ ViewReadable
    /\ rootSubmissionCache' = Cached
    /\ \/ EventMissing /\ EndRun /\ NotScanned
       \/ /\ ~EventMissing /\ Challenges \cup Defeats = {}
          /\ EndRun
          /\ verified' = view.block /\ UNCHANGED defended
       \/ /\ ~EventMissing /\ Challenges \cup Defeats # {}
          /\ todo' \in ChallengesAndDefeats
          /\ scanning' = FALSE
          /\ UNCHANGED <<chainVars, view, task, sent, age, defended, verified>>
    /\ UNCHANGED faults

\* A reorganisation has taken the view's block or a proposal away.
ScanFails ==
    /\ task # "idle" /\ scanning
    /\ ~ViewReadable
    /\ EndRun
    /\ NotScanned
    /\ UNCHANGED <<rootSubmissionCache, faults>>

(* defendProposal, submitChallenge and submitDefeat.  Estimating the gas   *)
(* of a transaction that would revert is an error, which ends the run.     *)
Submit ==
    /\ task # "idle" /\ ~scanning /\ sent = None /\ todo # <<>>
    /\ IF Valid(Head(todo))
       THEN /\ mempool' = mempool \cup {Head(todo)}
            /\ sent' = Head(todo)
            /\ UNCHANGED <<wrong, path, chain, late, expired, reorgs, view, task, todo, scanning, age>>
       ELSE EndRun
    /\ NotScanned
    /\ UNCHANGED <<rootSubmissionCache, faults>>

\* Mutant: the defender minds the gas price as well.
GasTooHighForAll ==
    /\ faults < MaxFaults
    /\ task # "idle" /\ ~scanning /\ sent = None /\ todo # <<>>
    /\ faults' = faults + 1
    /\ todo' = Tail(todo)
    /\ UNCHANGED <<chainVars, view, task, sent, scanning, age, defended, verified, rootSubmissionCache>>

\* The verifier, not the defender, sends nothing while gas is too expensive.
GasTooHigh ==
    /\ faults < MaxFaults
    /\ task = "verify" /\ ~scanning /\ sent = None /\ todo # <<>>
    /\ faults' = faults + 1
    /\ todo' = Tail(todo)
    /\ UNCHANGED <<chainVars, view, task, sent, scanning, age, defended, verified, rootSubmissionCache>>

\* PrintAndWaitForTransaction.
Included ==
    /\ sent # None
    /\ Mined(sent, Tip)
    /\ todo' = Tail(todo)
    /\ sent' = None
    /\ UNCHANGED <<chainVars, view, task, scanning, age, defended, verified, rootSubmissionCache, faults>>

Reverted ==
    /\ sent # None
    /\ ~Mined(sent, Tip) /\ sent \notin mempool
    /\ EndRun
    /\ NotScanned
    /\ UNCHANGED <<rootSubmissionCache, faults>>

\* All of the list has been submitted: lastScannedBlock moves.
Done ==
    /\ task # "idle" /\ ~scanning /\ sent = None /\ todo = <<>>
    /\ EndRun
    /\ defended' = IF task = "defend" THEN view.block ELSE defended
    /\ verified' = IF task = "verify" THEN view.block ELSE verified
    /\ UNCHANGED <<rootSubmissionCache, faults>>

RequestFails ==
    /\ faults < MaxFaults
    /\ task # "idle"
    /\ faults' = faults + 1
    /\ EndRun
    /\ NotScanned
    /\ UNCHANGED rootSubmissionCache

Restart ==
    /\ faults < MaxFaults
    /\ faults' = faults + 1
    /\ task' = "idle" /\ todo' = <<>> /\ sent' = None /\ scanning' = FALSE
    /\ defended' = 0 /\ verified' = 0 /\ rootSubmissionCache' = {}
    /\ age' = IF task = "defend" THEN Aged ELSE age
    /\ UNCHANGED <<chainVars, view>>

Daemon ==
    \/ UpdateNetworkState \/ ScanChallenges \/ ScanRoots \/ ScanFails
    \/ Submit \/ Included \/ Reverted \/ Done

Txs == [kind : {"root", "challenge", "defeat"}, prop : Props, index : Indices]

Next ==
    \/ \E tx \in Txs : Mine(tx) \/ OthersSend(tx)
    \/ \E p \in Others : WindowOver(p)
    \/ \E p \in Props, i \in Indices : Expire(p, i)
    \/ \E d \in 1..MaxDepth : Reorg(d)
    \/ Daemon
    \/ GasTooHigh \/ RequestFails \/ Restart

(* The daemon is a loop.  Miners take what is sent, time passes.  Nothing  *)
(* is assumed of the other nodes.                                          *)
Fairness ==
    /\ WF_vars(Daemon)
    /\ WF_vars(\E tx \in mempool : Mine(tx))
    /\ WF_vars(\E p \in Others : WindowOver(p) \/ \E i \in path : Expire(p, i))

Spec == Init /\ [][Next]_vars /\ Fairness
-----------------------------------------------------------------------------
(* Types of the chain, of the loop's NetworkState and of what the two      *)
(* tasks keep between and within their runs.                               *)
TypeOK ==
    /\ wrong \subseteq Others /\ path \in Paths
    /\ chain \in Seq(Txs) /\ mempool \subseteq Txs
    /\ late \subseteq Others /\ expired \subseteq Props \X Indices
    /\ age \in [Disputed -> 0..Patience]
    /\ view \in [block : Nat, pending : SUBSET Props, over : SUBSET Props]
    /\ task \in {"idle", "defend", "verify"}
    /\ todo \in Seq(Txs) /\ sent \in Txs \cup {None} /\ scanning \in BOOLEAN
    /\ defended \in Nat /\ verified \in Nat
    /\ rootSubmissionCache \subseteq Props \X Indices
    /\ reorgs \in 0..MaxReorgs /\ faults \in 0..MaxFaults

\* A RootSubmitted event that the walk needs and no later scan will find.
Unseen(p, i) ==
    /\ Pending(p, Tip)
    /\ Mined(Root(p, i), verified)
    /\ <<p, i>> \notin rootSubmissionCache

(* lastScannedBlock is safe to start from, whatever failed in the run that *)
(* moved it: no challenge against Own in the blocks up to it is still      *)
(* open, and the cache of verifyPdaoProps, which moves on in every run     *)
(* without an error, holds all the events up to it that a walk may need,   *)
(* although entries are removed and runs end early.  A reorganisation can  *)
(* put a challenge or an event there.                                      *)
NothingOverlooked ==
    reorgs = 0 =>
        /\ \A i \in Disputed : ~Overlooked(i)
        /\ \A p \in wrong, i \in path : ~Unseen(p, i)

(* "responding for safety": the window of a challenge against the node's   *)
(* proposal, which is right, passes only if a reorganisation has hidden    *)
(* the challenge from the defender.                                        *)
OnlyOverlookedExpire ==
    [][\A i \in Disputed :
          <<Own, i>> \in expired' \ expired => Overlooked(i) /\ reorgs > 0]_vars

(* All wrong proposals are defeated in the end, however they are defended, *)
(* over errors, high gas prices and restarts; but for one whose event a    *)
(* reorganisation has put behind lastScannedBlock, of this proposal or of  *)
(* another one, since the missing event ends the run for all of them.      *)
WrongIsDefeated ==
    []<>(\/ \A p \in wrong : ~Pending(p, Tip)
         \/ \E p \in wrong, i \in path : Unseen(p, i))
=============================================================================
