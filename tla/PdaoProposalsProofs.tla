------------------------ MODULE PdaoProposalsProofs ------------------------
(***************************************************************************)
(* Proofs about PdaoProposals, for all proposals and all trees of them and *)
(* for every bound: types; that neither of the two tasks overlooks a       *)
(* challenge or an event, whatever fails, while the chain is not           *)
(* reorganised; and that challenges against the node's own proposal are    *)
(* answered in time.                                                       *)
(***************************************************************************)
EXTENDS PdaoProposals, FiniteSetTheorems, WellFoundedInduction, TLAPS

(***************************************************************************)
(* The chain: a transaction is in it once, a proposal before all that is   *)
(* about it, and no node is answered for whose children are right.         *)
(***************************************************************************)
ChainInv ==
    /\ chain # <<>> /\ chain[1] = Root(Own, 1)
    /\ \A a, b \in DOMAIN chain : chain[a] = chain[b] => a = b
    /\ \A b \in DOMAIN chain :
           \/ chain[b] = Root(chain[b].prop, 1)
           \/ \E a \in DOMAIN chain : a < b /\ chain[a] = Root(chain[b].prop, 1)
    /\ \A b \in DOMAIN chain :
           chain[b].kind = "root" /\ chain[b].index # 1 =>
               CanAnswer(chain[b].prop, chain[b].index)

(***************************************************************************)
(* What the tasks know of a chain that was never reorganised.              *)
(***************************************************************************)
\* The challenges against Own up to the block have been answered.
Answered(b) ==
    \A i \in Disputed : Mined(Challenge(Own, i), b) => Mined(Root(Own, i), Tip)

\* The events up to the block are in the cache, but for proposals that are over.
Known(b) ==
    \A p \in wrong, i \in path :
        Mined(Root(p, i), b) /\ ~Defeated(p, Tip) => <<p, i>> \in rootSubmissionCache

\* A run of the defender: what it has seen is answered or yet to be answered.
Answering ==
    \A i \in Disputed :
        Mined(Challenge(Own, i), view.block) =>
            Mined(Root(Own, i), Tip) \/ \E k \in DOMAIN todo : todo[k] = Root(Own, i)

NoReorgInv ==
    /\ view.block <= Tip /\ defended <= Tip /\ verified <= Tip
    /\ \A p \in view.over : Defeated(p, Tip)
    /\ \A p \in Props : Pending(p, view.block) => p \in view.pending
    /\ Answered(defended)
    /\ Known(verified)
    /\ task = "defend" /\ ~scanning => Answering
    /\ task = "verify" /\ ~scanning => Known(view.block)

\* The transaction that is waited for is the next of the list.
SentInv == sent # None => task # "idle" /\ ~scanning /\ todo # <<>> /\ sent = Head(todo)

IInv ==
    /\ TypeOK
    /\ ChainInv
    /\ SentInv
    /\ reorgs = 0 => NoReorgInv
-----------------------------------------------------------------------------
(***************************************************************************)
(* Lemmas on the operators.                                                *)
(***************************************************************************)
LEMMA IndexFacts ==
  /\ Indices \subseteq Nat /\ Disputed \subseteq Indices
  /\ \A nodes \in Paths :
        /\ nodes \subseteq Indices /\ nodes \subseteq Nat \ {0} /\ 1 \in nodes
  /\ Own \in Props /\ Others \subseteq Props
  <1>1. \A nodes \in Paths : nodes \subseteq Nat \ {0} /\ 1 \in nodes
    BY PdaoAssumption
  <1>2. \A nodes \in Paths : nodes \subseteq Indices
    BY DEF Indices
  <1>3. Disputed \subseteq Indices /\ Disputed \subseteq Nat
    BY PdaoAssumption DEF Indices
  <1>4. Indices \subseteq Nat
    BY <1>1, <1>3 DEF Indices
  <1> QED
    BY <1>1, <1>2, <1>3, <1>4 DEF Props

LEMMA TxFacts ==
  ASSUME NEW p \in Props, NEW i \in Indices
  PROVE  /\ Root(p, i) \in Txs /\ Challenge(p, i) \in Txs /\ Defeat(p, i) \in Txs
  BY DEF Txs, Root, Challenge, Defeat

LEMMA NoneIsNoTx == None \notin Txs
  BY DEF None, Txs

(* What is in a sequence up to a position.                                 *)
Has(seq, tx, b) == \E k \in DOMAIN seq : k <= b /\ seq[k] = tx

LEMMA MinedIsHas == \A tx, b : Mined(tx, b) <=> Has(chain, tx, b)
  BY DEF Mined, Has

LEMMA HasAppended ==
  ASSUME NEW c \in Seq(Txs), NEW tx \in Txs, NEW t
  PROVE  /\ \A b \in Nat : b <= Len(c) => (Has(Append(c, tx), t, b) <=> Has(c, t, b))
         /\ Has(c, t, Len(c)) => Has(Append(c, tx), t, Len(Append(c, tx)))
         /\ Len(Append(c, tx)) = Len(c) + 1
  BY DEF Has

LEMMA HasMore ==
  ASSUME NEW c \in Seq(Txs), NEW t, NEW a \in Nat, NEW b \in Nat, a <= b, Has(c, t, a)
  PROVE  Has(c, t, b)
  BY DEF Has

(* The block of a transaction is where it is.                              *)
LEMMA BlockOfMined ==
  ASSUME chain \in Seq(Txs), ChainInv, NEW tx, NEW b \in Nat, Mined(tx, b)
  PROVE  /\ Block(tx) \in DOMAIN chain /\ Block(tx) \in Nat \ {0} /\ Block(tx) <= b
         /\ chain[Block(tx)] = tx
         /\ \A c \in Nat : Block(tx) <= c => Mined(tx, c)
  <1>1. PICK k \in DOMAIN chain : k <= b /\ chain[k] = tx
    BY DEF Mined
  <1>2. Block(tx) = k
    BY <1>1 DEF Block, ChainInv
  <1>3. k \in Nat \ {0}
    BY <1>1
  <1> QED
    BY <1>1, <1>2, <1>3 DEF Mined

(* A proposal is mined before all that is about it.                        *)
LEMMA ProposalFirst ==
  ASSUME chain \in Seq(Txs), ChainInv, NEW p \in Props, NEW i \in Indices, NEW b \in Nat,
         Mined(Root(p, i), b)
  PROVE  /\ Mined(Root(p, 1), b)
         /\ Block(Root(p, 1)) <= Block(Root(p, i))
  <1> DEFINE k == Block(Root(p, i))
  <1>1. k \in DOMAIN chain /\ k \in Nat /\ k <= b /\ chain[k] = Root(p, i) /\ chain[k].prop = p
    BY BlockOfMined DEF Root
  <1>2. PICK a \in DOMAIN chain : a <= k /\ chain[a] = Root(p, 1)
    BY <1>1 DEF ChainInv
  <1>3. a \in Nat /\ a <= b
    BY <1>1, <1>2
  <1>4. Mined(Root(p, 1), b)
    BY <1>2, <1>3 DEF Mined
  <1>5. Block(Root(p, 1)) = a
    BY <1>2 DEF Block, ChainInv
  <1> QED
    BY <1>2, <1>4, <1>5

(* Every list of a set is a sequence, and has all of its members, once.    *)
LEMMA ListsOfSet ==
  ASSUME NEW S, IsFiniteSet(S), NEW list \in SetToSeqs(S)
  PROVE  /\ list \in Seq(S)
         /\ \A x \in S : \E k \in DOMAIN list : list[k] = x
         /\ \A j, k \in DOMAIN list : list[j] = list[k] => j = k
  <1> DEFINE D == 1..Cardinality(S)
  <1>1. Cardinality(S) \in Nat
    BY FS_CardinalityType
  <1>2. list \in [D -> S] /\ \A i, j \in D : i # j => list[i] # list[j]
    BY DEF SetToSeqs
  <1>3. list \in Seq(S)
    BY <1>1, <1>2
  <1>4. IsFiniteSet(D) /\ Cardinality(D) = Cardinality(S)
    BY <1>1, FS_Interval
  <1>5. list \in Injection(D, S)
    BY <1>2 DEF Injection, IsInjective
  <1>6. list \in Surjection(D, S)
    BY <1>4, <1>5, FS_Injection
  <1> QED
    BY <1>2, <1>3, <1>6 DEF Surjection
(* A finite set has as many members as its image at most.                  *)
LEMMA FiniteImage ==
  ASSUME NEW S, IsFiniteSet(S), NEW T, NEW f \in [S -> T], \A t \in T : \E s \in S : f[s] = t
  PROVE  IsFiniteSet(T)
  <1>1. f \in Surjection(S, T)
    BY DEF Surjection
  <1> QED
    BY <1>1, FS_Surjection

(* A finite set of numbers has a smallest and a largest one: of the sets   *)
(* of what is below, or above, a member, one has no proper subset.         *)
LEMMA ExtremesExist ==
  ASSUME NEW S \in SUBSET Nat, S # {}, IsFiniteSet(S)
  PROVE  /\ \E x \in S : \A y \in S : x <= y
         /\ \E x \in S : \A y \in S : y <= x
  <1> DEFINE R == StrictSubsetOrdering(S)
  <1>0. \A T \in SUBSET S : T \in FiniteSubsetsOf(S) /\ IsFiniteSet(T)
    BY FS_Subset DEF FiniteSubsetsOf
  <1>w. \A Sets \in SUBSET (SUBSET S) : Sets # {} =>
            \E T \in Sets : \A U \in Sets : ~(<<U, T>> \in R)
    <2> TAKE Sets \in SUBSET (SUBSET S)
    <2>1. Sets \subseteq FiniteSubsetsOf(S)
      BY <1>0
    <2>2. IsWellFoundedOn(R, FiniteSubsetsOf(S))
      BY FS_StrictSubsetOrderingWellFounded
    <2> HIDE DEF R
    <2> QED
      BY <2>1, <2>2, WFMin
  <1>1. \E x \in S : \A y \in S : x <= y
    <2> DEFINE Below(x) == {y \in S : y < x}
               Sets == {Below(x) : x \in S}
    <2>1. Sets \in SUBSET (SUBSET S) /\ Sets # {}
      OBVIOUS
    <2>2. \E T \in Sets : \A U \in Sets : ~(<<U, T>> \in R)
      <3> HIDE DEF Sets, R
      <3> QED
        BY <1>w, <2>1
    <2>3. PICK x \in S : \A y \in S : ~(<<Below(y), Below(x)>> \in R)
      BY <2>2
    <2>4. ASSUME NEW y \in S, ~(x <= y)
          PROVE  FALSE
      <3>1. y \in Below(x) /\ y \notin Below(y)
        BY <2>4
      <3>2. \A z \in Below(y) : z \in Below(x)
        BY <2>4
      <3>3. <<Below(y), Below(x)>> \in R
        BY <1>0, <3>1, <3>2 DEF StrictSubsetOrdering
      <3> QED
        BY <2>3, <3>3
    <2> QED
      BY <2>4
  <1>2. \E x \in S : \A y \in S : y <= x
    <2> DEFINE Above(x) == {y \in S : y > x}
               Sets == {Above(x) : x \in S}
    <2>1. Sets \in SUBSET (SUBSET S) /\ Sets # {}
      OBVIOUS
    <2>2. \E T \in Sets : \A U \in Sets : ~(<<U, T>> \in R)
      <3> HIDE DEF Sets, R
      <3> QED
        BY <1>w, <2>1
    <2>3. PICK x \in S : \A y \in S : ~(<<Above(y), Above(x)>> \in R)
      BY <2>2
    <2>4. ASSUME NEW y \in S, ~(y <= x)
          PROVE  FALSE
      <3>1. y \in Above(x) /\ y \notin Above(y)
        BY <2>4
      <3>2. \A z \in Above(y) : z \in Above(x)
        BY <2>4
      <3>3. <<Above(y), Above(x)>> \in R
        BY <1>0, <3>1, <3>2 DEF StrictSubsetOrdering
      <3> QED
        BY <2>3, <3>3
    <2> QED
      BY <2>4
  <1> QED
    BY <1>1, <1>2

(* There always is an index on the path of wrong nodes that was not        *)
(* responded to: nobody can answer for the last one.                       *)
LEMMA AskedExists ==
  ASSUME TypeOK, ChainInv, NEW p \in Others
  PROVE  Asked(p) \in path \ {1}
  <1>1. /\ path \subseteq Nat \ {0} /\ IsFiniteSet(path) /\ path # {1} /\ 1 \in path
        /\ p # Own
    BY PdaoAssumption DEF TypeOK
  <1> DEFINE open == {i \in path \ {1} : ChallengeState(p, i, view.block) # "Responded"}
  <1>2. IsFiniteSet(path \ {1}) /\ path \ {1} # {} /\ path \ {1} \in SUBSET Nat
    BY <1>1, FS_Subset
  <1>3. PICK last \in path \ {1} : \A i \in path \ {1} : i <= last
    BY <1>2, ExtremesExist
  <1>4. ~CanAnswer(p, last)
    BY <1>1, <1>3 DEF CanAnswer
  <1>5. ~Mined(Root(p, last), view.block)
    BY <1>3, <1>4 DEF Mined, ChainInv, Root
  <1>6. last \in open
    BY <1>3, <1>5 DEF ChallengeState
  <1>7. IsFiniteSet(open) /\ open \in SUBSET Nat
    BY <1>2, FS_Subset
  <1>8. PICK i \in open : \A j \in open : i <= j
    BY <1>6, <1>7, ExtremesExist
  <1>9. \A j \in path \ {1} : j < i => ChallengeState(p, j, view.block) = "Responded"
    BY <1>2, <1>7, <1>8
  <1> QED
    BY <1>8, <1>9 DEF Asked

-----------------------------------------------------------------------------
(***************************************************************************)
(* The steps of the chain.                                                 *)
(***************************************************************************)
LEMMA TxShape ==
  ASSUME NEW tx \in Txs
  PROVE  /\ tx.prop \in Props /\ tx.index \in Indices
         /\ tx.kind \in {"root", "challenge", "defeat"}
         /\ tx.kind = "root" => tx = Root(tx.prop, tx.index)
         /\ tx.kind = "challenge" => tx = Challenge(tx.prop, tx.index)
         /\ tx.kind = "defeat" => tx = Defeat(tx.prop, tx.index)
  BY DEF Txs, Root, Challenge, Defeat

LEMMA ValidIsNew ==
  ASSUME NEW tx \in Txs, Valid(tx)
  PROVE  /\ ~Mined(tx, Tip)
         /\ tx = Root(tx.prop, 1) \/ Mined(Root(tx.prop, 1), Tip)
         /\ tx.kind = "root" /\ tx.index # 1 => CanAnswer(tx.prop, tx.index)
  <1>1. CASE tx.kind = "root" /\ tx.index = 1
    BY <1>1, TxShape DEF Valid
  <1>2. CASE tx.kind = "root" /\ tx.index # 1
    <2>1. /\ Pending(tx.prop, Tip) /\ CanAnswer(tx.prop, tx.index)
          /\ ChallengeState(tx.prop, tx.index, Tip) = "Challenged"
      BY <1>2 DEF Valid
    <2> QED
      BY <1>2, <2>1, TxShape DEF Pending, ChallengeState
  <1>3. CASE tx.kind = "challenge"
    <2>1. /\ Pending(tx.prop, Tip)
          /\ ChallengeState(tx.prop, tx.index, Tip) = "Unchallenged"
      BY <1>3 DEF Valid
    <2> QED
      BY <1>3, <2>1, TxShape DEF Pending, ChallengeState
  <1>4. CASE tx.kind = "defeat"
    <2>1. Pending(tx.prop, Tip)
      BY <1>4 DEF Valid
    <2> QED
      BY <1>4, <2>1, TxShape DEF Pending, Defeated
  <1> QED
    BY <1>1, <1>2, <1>3, <1>4, TxShape

LEMMA ValidKeeps ==
  ASSUME TypeOK, ChainInv, NEW tx \in Txs, Valid(tx), chain' = Append(chain, tx), path' = path
  PROVE  ChainInv'
  <1>1. /\ chain \in Seq(Txs) /\ Len(chain) \in Nat /\ DOMAIN chain = 1..Len(chain)
        /\ DOMAIN chain' = 1..Len(chain) + 1 /\ chain'[Len(chain) + 1] = tx
        /\ \A k \in DOMAIN chain : chain'[k] = chain[k]
    BY DEF TypeOK
  <1>2. \A k \in DOMAIN chain : chain[k] # tx
    BY <1>1, ValidIsNew DEF Mined, Tip
  <1>3. tx = Root(tx.prop, 1) \/ \E a \in DOMAIN chain : chain[a] = Root(tx.prop, 1)
    BY ValidIsNew DEF Mined
  <1>4. chain' # <<>> /\ chain'[1] = Root(Own, 1)
    BY <1>1 DEF ChainInv
  <1>5. \A a, b \in DOMAIN chain' : chain'[a] = chain'[b] => a = b
    BY <1>1, <1>2 DEF ChainInv
  <1>6. ASSUME NEW b \in DOMAIN chain'
        PROVE  \/ chain'[b] = Root(chain'[b].prop, 1)
               \/ \E a \in DOMAIN chain' : a < b /\ chain'[a] = Root(chain'[b].prop, 1)
    <2>1. CASE b = Len(chain) + 1
      BY <1>1, <1>3, <2>1
    <2>2. CASE b # Len(chain) + 1
      <3>1. b \in DOMAIN chain
        BY <1>1, <1>6, <2>2
      <3>2. CASE chain[b] = Root(chain[b].prop, 1)
        BY <1>1, <3>1, <3>2
      <3>3. CASE \E a \in DOMAIN chain : a < b /\ chain[a] = Root(chain[b].prop, 1)
        BY <1>1, <3>1, <3>3
      <3> QED
        BY <3>1, <3>2, <3>3 DEF ChainInv
    <2> QED
      BY <2>1, <2>2
  <1>7. ASSUME NEW b \in DOMAIN chain', chain'[b].kind = "root", chain'[b].index # 1
        PROVE  CanAnswer(chain'[b].prop, chain'[b].index)
    <2>1. CASE b = Len(chain) + 1
      BY <1>1, <1>7, <2>1, ValidIsNew
    <2>2. CASE b # Len(chain) + 1
      <3>1. b \in DOMAIN chain /\ chain'[b] = chain[b]
        BY <1>1, <1>7, <2>2
      <3> QED
        BY <1>7, <3>1 DEF ChainInv
    <2> QED
      BY <2>1, <2>2
  <1> QED
    BY <1>4, <1>5, <1>6, <1>7 DEF ChainInv, Root, CanAnswer

LEMMA PrefixKeeps ==
  ASSUME TypeOK, ChainInv, NEW n \in 1..Len(chain), chain' = SubSeq(chain, 1, n), path' = path
  PROVE  ChainInv'
  <1>1. /\ chain \in Seq(Txs) /\ Len(chain) \in Nat /\ DOMAIN chain = 1..Len(chain)
        /\ DOMAIN chain' = 1..n /\ n \in Nat
        /\ \A k \in 1..n : k \in DOMAIN chain /\ chain'[k] = chain[k]
    BY DEF TypeOK
  <1>2. chain' # <<>> /\ chain'[1] = Root(Own, 1)
    BY <1>1 DEF ChainInv
  <1>3. \A a, b \in DOMAIN chain' : chain'[a] = chain'[b] => a = b
    BY <1>1 DEF ChainInv
  <1>4. ASSUME NEW b \in DOMAIN chain'
        PROVE  \/ chain'[b] = Root(chain'[b].prop, 1)
               \/ \E a \in DOMAIN chain' : a < b /\ chain'[a] = Root(chain'[b].prop, 1)
    BY <1>1 DEF ChainInv
  <1>5. ASSUME NEW b \in DOMAIN chain', chain'[b].kind = "root", chain'[b].index # 1
        PROVE  CanAnswer(chain'[b].prop, chain'[b].index)
    BY <1>1, <1>5 DEF ChainInv
  <1> QED
    BY <1>2, <1>3, <1>4, <1>5 DEF ChainInv, Root, CanAnswer

(* A step keeps the chain, adds a valid transaction, or reorganises it.    *)
LEMMA ChainSteps ==
  ASSUME TypeOK, ChainInv, [Next]_vars
  PROVE  /\ wrong' = wrong /\ path' = path
         /\ \/ chain' = chain /\ reorgs' = reorgs
            \/ /\ \E tx \in Txs : Valid(tx) /\ chain' = Append(chain, tx)
               /\ reorgs' = reorgs
            \/ /\ \E n \in 1..Len(chain) : chain' = SubSeq(chain, 1, n)
               /\ reorgs' = reorgs + 1
  <1>1. CASE \E tx \in Txs : Mine(tx) \/ OthersSend(tx)
    BY <1>1 DEF Mine, OthersSend
  <1>2. ASSUME NEW p \in Others, WindowOver(p)
        PROVE  UNCHANGED <<wrong, path, chain, reorgs>>
    BY <1>2 DEF WindowOver
  <1>3. ASSUME NEW p \in Props, NEW i \in Indices, Expire(p, i)
        PROVE  UNCHANGED <<wrong, path, chain, reorgs>>
    BY <1>3 DEF Expire
  <1>4. ASSUME NEW d \in 1..MaxDepth, Reorg(d)
        PROVE  /\ wrong' = wrong /\ path' = path /\ reorgs' = reorgs + 1
               /\ \E n \in 1..Len(chain) : chain' = SubSeq(chain, 1, n)
    <2>1. /\ wrong' = wrong /\ path' = path /\ reorgs' = reorgs + 1
          /\ chain' = SubSeq(chain, 1, Len(chain) - d) /\ d < Len(chain)
      BY <1>4 DEF Reorg
    <2>2. Len(chain) - d \in 1..Len(chain)
      BY <2>1, PdaoAssumption DEF TypeOK
    <2> QED
      BY <2>1, <2>2
  <1>5. CASE Daemon \/ GasTooHigh \/ RequestFails \/ Restart
    BY <1>5 DEF Daemon, UpdateNetworkState, ScanChallenges, ScanRoots, ScanFails, Submit, Included,
                Reverted, Done, GasTooHigh, RequestFails, Restart, EndRun, chainVars
  <1>6. CASE UNCHANGED vars
    BY <1>6 DEF vars, chainVars
  <1> QED
    BY <1>1, <1>2, <1>3, <1>4, <1>5, <1>6 DEF Next

LEMMA ChainStep == TypeOK /\ ChainInv /\ [Next]_vars => ChainInv'
  <1> SUFFICES ASSUME TypeOK, ChainInv, [Next]_vars PROVE ChainInv'
    OBVIOUS
  <1>1. CASE chain' = chain
    BY <1>1, ChainSteps DEF ChainInv, CanAnswer, Root
  <1>2. CASE \E tx \in Txs : Valid(tx) /\ chain' = Append(chain, tx)
    BY <1>2, ChainSteps, ValidKeeps
  <1>3. CASE \E n \in 1..Len(chain) : chain' = SubSeq(chain, 1, n)
    BY <1>3, ChainSteps, PrefixKeeps
  <1> QED
    BY <1>1, <1>2, <1>3, ChainSteps

-----------------------------------------------------------------------------
(***************************************************************************)
(* Types.                                                                  *)
(***************************************************************************)
LEMMA AgedType == TypeOK => Aged \in [Disputed -> 0..Patience]
  BY PdaoAssumption DEF TypeOK, Aged

LEMMA EndRunTypes ==
  ASSUME TypeOK, EndRun
  PROVE  /\ task' \in {"idle", "defend", "verify"} /\ scanning' \in BOOLEAN
         /\ todo' \in Seq(Txs) /\ sent' \in Txs \cup {None}
         /\ age' \in [Disputed -> 0..Patience]
         /\ UNCHANGED <<wrong, path, chain, mempool, late, expired, reorgs, view>>
  BY AgedType DEF EndRun, TypeOK, chainVars

LEMMA TxLists ==
  ASSUME NEW txs \in SUBSET Txs, IsFiniteSet(txs), NEW list \in SetToSeqs(txs)
  PROVE  /\ list \in Seq(Txs)
         /\ \A tx \in txs : \E k \in DOMAIN list : list[k] = tx
         /\ \A j, k \in DOMAIN list : list[j] = list[k] => j = k
         /\ \A k \in DOMAIN list : list[k] \in txs
  BY ListsOfSet

LEMMA DefendableIsFinite ==
  ASSUME TypeOK
  PROVE  Defendable \in SUBSET Txs /\ IsFiniteSet(Defendable)
  <1> DEFINE open == {j \in Disputed :
                         /\ Mined(Challenge(Own, j), view.block)
                         /\ Block(Challenge(Own, j)) >= StartBlock(defended, Own)
                         /\ ChallengeState(Own, j, view.block) = "Challenged"}
             f == [i \in open |-> Root(Own, i)]
  <1>1. IsFiniteSet(open)
    <2>1. open \in SUBSET Disputed
      OBVIOUS
    <2> HIDE DEF open
    <2> QED
      BY <2>1, PdaoAssumption, FS_Subset
  <1>2. Defendable = {Root(Own, i) : i \in open}
    BY DEF Defendable
  <1>3. \A i \in open : Root(Own, i) \in Txs
    BY IndexFacts, TxFacts
  <1> HIDE DEF open
  <1>4. f \in [open -> Defendable] /\ \A tx \in Defendable : \E i \in open : f[i] = tx
    BY <1>2
  <1> HIDE DEF f
  <1>5. IsFiniteSet(Defendable)
    BY <1>1, <1>4, FiniteImage
  <1> QED
    BY <1>2, <1>3, <1>5

LEMMA DuesAreFinite ==
  ASSUME TypeOK, ChainInv
  PROVE  /\ Challenges \in SUBSET Txs /\ IsFiniteSet(Challenges)
         /\ Defeats \in SUBSET Txs /\ IsFiniteSet(Defeats)
  <1>1. \A p \in Others : Challenge(p, Asked(p)) \in Txs /\ Defeat(p, Asked(p)) \in Txs
    BY AskedExists, IndexFacts, TxFacts DEF TypeOK
  <1>s. Mismatching \subseteq Others
    BY DEF Mismatching, TypeOK
  <1>2. Challenges \in SUBSET Txs /\ IsFiniteSet(Challenges)
    <2> DEFINE new == {q \in Mismatching : ChallengeState(q, Asked(q), view.block) = "Unchallenged"}
               f == [p \in new |-> Challenge(p, Asked(p))]
    <2>1. new \in SUBSET Others /\ Challenges = {Challenge(p, Asked(p)) : p \in new}
      BY <1>s DEF Challenges
    <2> HIDE DEF new
    <2>2. IsFiniteSet(new)
      BY <2>1, PdaoAssumption, FS_Subset
    <2>3. /\ f \in [new -> Challenges]
          /\ \A tx \in Challenges : \E p \in new : f[p] = tx
      BY <2>1
    <2> HIDE DEF f
    <2>4. IsFiniteSet(Challenges)
      BY <2>2, <2>3, FiniteImage
    <2> QED
      BY <1>1, <2>1, <2>4
  <1>3. Defeats \in SUBSET Txs /\ IsFiniteSet(Defeats)
    <2> DEFINE open == {q \in Mismatching \cap late :
                           ChallengeState(q, Asked(q), view.block) = "Challenged"}
               f == [p \in open |-> Defeat(p, Asked(p))]
    <2>1. open \in SUBSET Others /\ Defeats = {Defeat(p, Asked(p)) : p \in open}
      BY <1>s DEF Defeats
    <2> HIDE DEF open
    <2>2. IsFiniteSet(open)
      BY <2>1, PdaoAssumption, FS_Subset
    <2>3. /\ f \in [open -> Defeats]
          /\ \A tx \in Defeats : \E p \in open : f[p] = tx
      BY <2>1
    <2> HIDE DEF f
    <2>4. IsFiniteSet(Defeats)
      BY <2>2, <2>3, FiniteImage
    <2> QED
      BY <1>1, <2>1, <2>4
  <1> QED
    BY <1>2, <1>3

LEMMA TypeInit == Init => TypeOK
  <1> SUFFICES ASSUME Init PROVE TypeOK
    OBVIOUS
  <1>1. chain \in Seq(Txs)
    <2>1. 1 \in Indices /\ Root(Own, 1) \in Txs
      BY IndexFacts, TxFacts DEF Init
    <2> QED
      BY <2>1 DEF Init
  <1>2. /\ wrong \subseteq Others /\ path \in Paths /\ mempool \subseteq Txs /\ late \subseteq Others
        /\ expired \subseteq Props \X Indices
        /\ age \in [Disputed -> 0..Patience]
        /\ reorgs \in 0..MaxReorgs /\ faults \in 0..MaxFaults
    BY PdaoAssumption DEF Init
  <1>3. /\ view \in [block : Nat, pending : SUBSET Props, over : SUBSET Props]
        /\ task \in {"idle", "defend", "verify"}
        /\ todo \in Seq(Txs) /\ sent \in Txs \cup {None} /\ scanning \in BOOLEAN
        /\ defended \in Nat /\ verified \in Nat
        /\ rootSubmissionCache \subseteq Props \X Indices
    <2>1. view \in [block : Nat, pending : SUBSET Props, over : SUBSET Props]
      BY DEF Init
    <2>2. <<>> \in Seq(Txs) /\ 0 \in Nat
      OBVIOUS
    <2>3. /\ task = "idle" /\ todo = <<>> /\ sent = None /\ scanning = FALSE
          /\ defended = 0 /\ verified = 0 /\ rootSubmissionCache = {}
      BY DEF Init
    <2>4. sent \in Txs \cup {None} /\ rootSubmissionCache \subseteq Props \X Indices
      BY <2>3
    <2> QED
      BY <2>1, <2>2, <2>3, <2>4
  <1> QED
    BY <1>1, <1>2, <1>3 DEF TypeOK

LEMMA TypeOfChain ==
  ASSUME TypeOK,
         \/ \E tx \in Txs : Mine(tx) \/ OthersSend(tx)
         \/ \E p \in Others : WindowOver(p)
         \/ \E p \in Props, i \in Indices : Expire(p, i)
         \/ \E d \in 1..MaxDepth : Reorg(d)
  PROVE  TypeOK'
  <1>1. ASSUME NEW tx \in Txs, Mine(tx) PROVE TypeOK'
    BY <1>1 DEF Mine, TypeOK, daemonVars
  <1>2. ASSUME NEW tx \in Txs, OthersSend(tx) PROVE TypeOK'
    BY <1>2 DEF OthersSend, TypeOK, daemonVars
  <1>3. ASSUME NEW p \in Others, WindowOver(p) PROVE TypeOK'
    BY <1>3 DEF WindowOver, TypeOK, daemonVars
  <1>4. ASSUME NEW p \in Props, NEW i \in Indices, Expire(p, i) PROVE TypeOK'
    BY <1>4 DEF Expire, TypeOK, daemonVars
  <1>5. ASSUME NEW d \in 1..MaxDepth, Reorg(d) PROVE TypeOK'
    <2>1. Len(chain) - d \in 1..Len(chain) /\ Len(chain) \in Nat /\ d \in Nat
      BY <1>5, PdaoAssumption DEF Reorg, TypeOK
    <2>2. chain' \in Seq(Txs)
      <3>1. chain' = SubSeq(chain, 1, Len(chain) - d)
        BY <1>5 DEF Reorg
      <3> QED
        BY <2>1, <3>1 DEF TypeOK
    <2>3. mempool' \subseteq Txs
      <3>1. \A k \in (Len(chain) - d + 1)..Len(chain) : chain[k] \in Txs
        BY <2>1 DEF TypeOK
      <3> QED
        BY <1>5, <3>1 DEF Reorg, TypeOK
    <2>4. expired' \subseteq Props \X Indices
      BY <1>5 DEF Reorg, TypeOK
    <2>5. age' \in [Disputed -> 0..Patience]
      BY <1>5, PdaoAssumption DEF Reorg, TypeOK
    <2>6. reorgs' \in 0..MaxReorgs
      BY <1>5, PdaoAssumption DEF Reorg, TypeOK
    <2>7. UNCHANGED <<wrong, path, late, daemonVars, faults>>
      BY <1>5 DEF Reorg
    <2> QED
      BY <2>2, <2>3, <2>4, <2>5, <2>6, <2>7 DEF TypeOK, daemonVars
  <1> QED
    BY <1>1, <1>2, <1>3, <1>4, <1>5

LEMMA TypeOfDaemon ==
  ASSUME TypeOK, ChainInv, SentInv, Daemon \/ GasTooHigh \/ RequestFails \/ Restart
  PROVE  TypeOK'
  <1>1. CASE UpdateNetworkState
    BY <1>1 DEF UpdateNetworkState, TypeOK, chainVars, Tip
  <1>2. CASE ScanChallenges
    <2>1. CASE EndRun
      BY <1>2, <2>1, EndRunTypes DEF ScanChallenges, NotScanned, TypeOK
    <2>2. CASE /\ todo' \in InOrder(Defendable, LAMBDA tx : Challenge(Own, tx.index))
               /\ scanning' = FALSE
               /\ UNCHANGED <<chainVars, view, task, sent, age>>
      <3>1. todo' \in SetToSeqs(Defendable)
        BY <2>2 DEF InOrder
      <3>2. todo' \in Seq(Txs)
        BY <3>1, DefendableIsFinite, TxLists
      <3> QED
        BY <1>2, <2>2, <3>2 DEF ScanChallenges, NotScanned, TypeOK, chainVars
    <2> QED
      BY <1>2, <2>1, <2>2 DEF ScanChallenges
  <1>3. CASE ScanRoots
    <2>1. rootSubmissionCache' \subseteq Props \X Indices
      <3>1. path \subseteq Indices /\ Mismatching \subseteq Props
        BY IndexFacts DEF TypeOK, Mismatching
      <3>2. rootSubmissionCache' \subseteq rootSubmissionCache \cup (Mismatching \X path)
        BY <1>3 DEF ScanRoots, Cached
      <3> QED
        BY <3>1, <3>2 DEF TypeOK
    <2>2. faults' = faults
      BY <1>3 DEF ScanRoots
    <2>3. CASE EndRun /\ verified' \in {verified, view.block} /\ defended' = defended
      BY <2>1, <2>2, <2>3, EndRunTypes DEF TypeOK
    <2>4. CASE /\ todo' \in ChallengesAndDefeats
               /\ scanning' = FALSE
               /\ UNCHANGED <<chainVars, view, task, sent, age, defended, verified>>
      <3>1. PICK list \in SetToSeqs(Challenges), more \in SetToSeqs(Defeats) : todo' = list \o more
        BY <2>4 DEF ChallengesAndDefeats, InOrder
      <3>2. list \in Seq(Txs) /\ more \in Seq(Txs)
        BY DuesAreFinite, TxLists
      <3>3. todo' \in Seq(Txs)
        BY <3>1, <3>2
      <3> QED
        BY <2>1, <2>2, <2>4, <3>3 DEF TypeOK, chainVars
    <2> QED
      BY <1>3, <2>3, <2>4 DEF ScanRoots, NotScanned
  <1>4. CASE ScanFails \/ Reverted \/ RequestFails
    <2>1. EndRun /\ NotScanned /\ rootSubmissionCache' = rootSubmissionCache
          /\ faults' \in 0..MaxFaults
      BY <1>4, PdaoAssumption DEF ScanFails, Reverted, RequestFails, TypeOK
    <2> QED
      BY <2>1, EndRunTypes DEF NotScanned, TypeOK
  <1>5. CASE Submit
    <2>1. CASE EndRun
      BY <1>5, <2>1, EndRunTypes DEF Submit, NotScanned, TypeOK
    <2>2. CASE ~EndRun
      <3>1. Head(todo) \in Txs
        BY <1>5 DEF Submit, TypeOK
      <3> QED
        BY <1>5, <2>2, <3>1 DEF Submit, NotScanned, TypeOK
    <2> QED
      BY <2>1, <2>2
  <1>6. CASE Included \/ GasTooHigh
    <2>1. Tail(todo) \in Seq(Txs)
      BY <1>6 DEF TypeOK, SentInv, Included, GasTooHigh
    <2>2. faults' \in 0..MaxFaults
      BY <1>6, PdaoAssumption DEF Included, GasTooHigh, TypeOK
    <2>3. /\ todo' = Tail(todo) /\ sent' \in {sent, None}
          /\ UNCHANGED <<chainVars, view, task, scanning, age, defended, verified, rootSubmissionCache>>
      BY <1>6 DEF Included, GasTooHigh
    <2> QED
      BY <2>1, <2>2, <2>3 DEF TypeOK, chainVars
  <1>7. CASE Done
    BY <1>7, EndRunTypes DEF Done, TypeOK
  <1>8. CASE Restart
    <2>1. age' \in [Disputed -> 0..Patience]
      BY <1>8, AgedType DEF Restart, TypeOK
    <2>2. faults' \in 0..MaxFaults
      BY <1>8, PdaoAssumption DEF Restart, TypeOK
    <2>3. /\ task' = "idle" /\ todo' = <<>> /\ sent' = None /\ scanning' = FALSE
          /\ defended' = 0 /\ verified' = 0 /\ rootSubmissionCache' = {}
          /\ UNCHANGED <<chainVars, view>>
      BY <1>8 DEF Restart
    <2>4. <<>> \in Seq(Txs) /\ 0 \in Nat
      OBVIOUS
    <2>5. sent' \in Txs \cup {None} /\ rootSubmissionCache' \subseteq Props \X Indices
          /\ todo' \in Seq(Txs) /\ defended' \in Nat /\ verified' \in Nat
      BY <2>3, <2>4
    <2> QED
      BY <2>1, <2>2, <2>3, <2>5 DEF TypeOK, chainVars
  <1> QED
    BY <1>1, <1>2, <1>3, <1>4, <1>5, <1>6, <1>7, <1>8 DEF Daemon

-----------------------------------------------------------------------------
(***************************************************************************)
(* What the tasks know.                                                    *)
(***************************************************************************)
LEMMA SentStep == TypeOK /\ SentInv /\ [Next]_vars => SentInv'
  <1> SUFFICES ASSUME TypeOK, SentInv, [Next]_vars PROVE SentInv'
    OBVIOUS
  <1>1. CASE UNCHANGED <<task, scanning, todo, sent>>
    BY <1>1 DEF SentInv
  <1>2. CASE sent' = None
    BY <1>2 DEF SentInv
  <1>3. CASE Submit
    BY <1>3, <1>2 DEF Submit, EndRun, SentInv
  <1>4. CASE UpdateNetworkState \/ ScanChallenges \/ ScanRoots \/ ScanFails \/ Included \/ Reverted
             \/ Done \/ GasTooHigh \/ RequestFails \/ Restart
    <2>1. sent' = None
      BY <1>4 DEF UpdateNetworkState, ScanChallenges, ScanRoots, ScanFails, Included, Reverted,
                  Done, GasTooHigh, RequestFails, Restart, EndRun, SentInv
    <2> QED
      BY <2>1, <1>2
  <1>5. CASE \E tx \in Txs : Mine(tx) \/ OthersSend(tx)
    BY <1>5, <1>1 DEF Mine, OthersSend, daemonVars
  <1>6. ASSUME NEW p \in Others, WindowOver(p) PROVE SentInv'
    BY <1>6, <1>1 DEF WindowOver, daemonVars
  <1>7. ASSUME NEW p \in Props, NEW i \in Indices, Expire(p, i) PROVE SentInv'
    BY <1>7, <1>1 DEF Expire, daemonVars
  <1>8. ASSUME NEW d \in 1..MaxDepth, Reorg(d) PROVE SentInv'
    BY <1>8, <1>1 DEF Reorg, daemonVars
  <1>9. CASE UNCHANGED vars
    BY <1>9, <1>1 DEF vars, daemonVars
  <1> QED
    BY <1>3, <1>4, <1>5, <1>6, <1>7, <1>8, <1>9 DEF Next, Daemon

LEMMA BlockTypes ==
  ASSUME TypeOK
  PROVE  /\ view.block \in Nat /\ defended \in Nat /\ verified \in Nat /\ Tip \in Nat
         /\ chain \in Seq(Txs) /\ Tip = Len(chain)
  BY DEF TypeOK, Tip

(* A new transaction at the end of the chain changes nothing of that.      *)
LEMMA GrowStep ==
  ASSUME TypeOK, ChainInv, NoReorgInv, NEW tx \in Txs, chain' = Append(chain, tx),
         UNCHANGED <<wrong, path, daemonVars>>
  PROVE  NoReorgInv'
  <1>1. /\ view' = view /\ task' = task /\ todo' = todo /\ scanning' = scanning
        /\ defended' = defended /\ verified' = verified
        /\ rootSubmissionCache' = rootSubmissionCache /\ wrong' = wrong /\ path' = path
    BY DEF daemonVars
  <1>2. /\ view.block <= Tip /\ defended <= Tip /\ verified <= Tip
        /\ Tip' \in Nat /\ Tip <= Tip'
    BY BlockTypes, HasAppended DEF NoReorgInv, Tip
  <1>3. /\ \A t : Mined(t, view.block)' <=> Mined(t, view.block)
        /\ \A t : Mined(t, defended)' <=> Mined(t, defended)
        /\ \A t : Mined(t, verified)' <=> Mined(t, verified)
        /\ \A t : Mined(t, Tip) => Mined(t, Tip)'
    BY <1>1, <1>2, BlockTypes, HasAppended DEF Mined, Has, Tip
  <1>4. /\ \A p : Defeated(p, Tip) => Defeated(p, Tip)'
        /\ \A p : Pending(p, view.block)' <=> Pending(p, view.block)
    BY <1>3 DEF Defeated, Pending
  <1>5. /\ view.block' <= Tip' /\ defended' <= Tip' /\ verified' <= Tip'
        /\ (\A p \in view.over : Defeated(p, Tip))'
        /\ (\A p \in Props : Pending(p, view.block) => p \in view.pending)'
    BY <1>1, <1>2, <1>4, BlockTypes DEF NoReorgInv
  <1>6. Answered(defended)'
    BY <1>3 DEF NoReorgInv, Answered, Challenge, Root
  <1>7. Known(verified)' /\ (task = "verify" /\ ~scanning => Known(view.block))'
    BY <1>1, <1>3, <1>4 DEF NoReorgInv, Known, Root
  <1>8. (task = "defend" /\ ~scanning => Answering)'
    BY <1>1, <1>3 DEF NoReorgInv, Answering, Challenge, Root
  <1> QED
    BY <1>5, <1>6, <1>7, <1>8 DEF NoReorgInv

(* A run ends with what it knows.                                          *)
LEMMA EndRunStep ==
  ASSUME TypeOK, NoReorgInv, EndRun, defended' \in {defended, view.block},
         verified' \in {verified, view.block},
         defended' # defended => Answered(view.block),
         \A p \in wrong, i \in path :
             Mined(Root(p, i), verified') /\ ~Defeated(p, Tip) => <<p, i>> \in rootSubmissionCache'
  PROVE  NoReorgInv'
  <1>1. /\ view' = view /\ chain' = chain /\ wrong' = wrong /\ path' = path
        /\ ~(task' = "defend") /\ ~(task' = "verify" /\ ~scanning')
    BY DEF EndRun, chainVars, TypeOK
  <1>2. /\ \A t : Mined(t, Tip)' <=> Mined(t, Tip)
        /\ \A t : Mined(t, view.block)' <=> Mined(t, view.block)
        /\ \A t : Mined(t, verified)' <=> Mined(t, verified')
        /\ defended' = defended => \A t : Mined(t, defended)' <=> Mined(t, defended)
        /\ defended' = view.block => \A t : Mined(t, defended)' <=> Mined(t, view.block)
        /\ Tip' = Tip
    BY <1>1 DEF Mined, Tip
  <1>3. /\ \A p : Defeated(p, Tip)' <=> Defeated(p, Tip)
        /\ \A p : Pending(p, view.block)' <=> Pending(p, view.block)
    BY <1>1, <1>2 DEF Defeated, Pending
  <1>4. Answered(defended)'
    BY <1>2 DEF Answered, NoReorgInv, Root, Challenge
  <1>5. Known(verified)'
    BY <1>1, <1>2, <1>3 DEF Known, Root
  <1> QED
    BY <1>1, <1>2, <1>3, <1>4, <1>5 DEF NoReorgInv

(* The cache after a scan: nothing is missing, up to the block of the      *)
(* view, of the proposals that may still be challenged.                    *)
LEMMA CachedKnows ==
  ASSUME TypeOK, ChainInv, NoReorgInv, ViewReadable, NEW p \in wrong, NEW i \in path,
         ~Defeated(p, Tip), Mined(Root(p, i), verified) \/ Mined(Root(p, i), view.block)
  PROVE  <<p, i>> \in Cached
  <1>0. p \in Props /\ i \in Indices
    BY IndexFacts DEF TypeOK
  <1>1. CASE Mined(Root(p, i), verified)
    <2>1. <<p, i>> \in rootSubmissionCache
      BY <1>1 DEF NoReorgInv, Known
    <2>2. p \notin view.over
      BY DEF NoReorgInv
    <2> QED
      BY <2>1, <2>2 DEF Cached
  <1>2. CASE ~Mined(Root(p, i), verified) /\ Mined(Root(p, i), view.block)
    <2>1. /\ Block(Root(p, i)) \in Nat \ {0} /\ Block(Root(p, i)) <= view.block
          /\ ~(Block(Root(p, i)) <= verified)
      BY <1>2, BlockTypes, BlockOfMined
    <2>2. Mined(Root(p, 1), view.block) /\ Block(Root(p, 1)) <= Block(Root(p, i))
      BY <1>0, <1>2, BlockTypes, ProposalFirst
    <2>3. ~Defeated(p, view.block)
      BY BlockTypes DEF Defeated, Mined, NoReorgInv
    <2>4. p \in Mismatching
      BY <1>0, <2>2, <2>3 DEF Mismatching, Pending, NoReorgInv
    <2>5. \A q \in Mismatching : Block(Root(q, 1)) \in Nat /\ Block(Root(q, 1)) <= view.block
      BY BlockTypes, BlockOfMined DEF Mismatching, ViewReadable
    <2> DEFINE first == CHOOSE q \in Mismatching :
                            \A r \in Mismatching : Block(Root(q, 1)) <= Block(Root(r, 1))
               blocks == {Block(Root(q, 1)) : q \in Mismatching}
    <2>6. first \in Mismatching /\ Block(Root(first, 1)) <= Block(Root(p, 1))
      <3>1. blocks \in SUBSET Nat /\ blocks # {} /\ \A b \in blocks : b <= view.block
        BY <2>4, <2>5
      <3>2. IsFiniteSet(blocks)
        <4> HIDE DEF blocks
        <4> QED
          BY <3>1, BlockTypes, FS_BoundedSetOfNaturals
      <3>3. \E b \in blocks : \A c \in blocks : b <= c
        <4> HIDE DEF blocks
        <4> QED
          BY <3>1, <3>2, ExtremesExist
      <3>4. \E q \in Mismatching : \A r \in Mismatching : Block(Root(q, 1)) <= Block(Root(r, 1))
        BY <3>3
      <3> QED
        BY <2>4, <3>4
    <2>7. Block(Root(p, i)) >= StartBlock(verified, first)
      <3>1. Block(Root(first, 1)) \in Nat /\ Block(Root(p, 1)) \in Nat
        BY <2>4, <2>5, <2>6
      <3> HIDE DEF first
      <3> QED
        BY <2>1, <2>2, <2>6, <3>1, BlockTypes DEF StartBlock
    <2> QED
      BY <1>2, <2>4, <2>7 DEF Cached
  <1> QED
    BY <1>1, <1>2

LEMMA ScanRootsStep ==
  ASSUME TypeOK, ChainInv, NoReorgInv, ScanRoots
  PROVE  NoReorgInv'
  <1>1. /\ rootSubmissionCache' = Cached /\ ViewReadable /\ task = "verify"
        /\ \A p \in wrong, i \in path :
              /\ Mined(Root(p, i), verified) \/ Mined(Root(p, i), view.block)
              /\ ~Defeated(p, Tip)
              => <<p, i>> \in rootSubmissionCache'
    BY CachedKnows DEF ScanRoots
  <1>2. CASE EndRun /\ defended' = defended /\ verified' \in {verified, view.block}
    BY <1>1, <1>2, EndRunStep
  <1>3. CASE scanning' = FALSE /\ UNCHANGED <<chainVars, view, task, sent, age, defended, verified>>
    <2>1. /\ UNCHANGED <<wrong, path, chain, view, task, defended, verified>>
      BY <1>3 DEF chainVars
    <2>2. /\ \A p : Defeated(p, Tip)' <=> Defeated(p, Tip)
          /\ \A p : Pending(p, view.block)' <=> Pending(p, view.block)
          /\ Answered(defended)' <=> Answered(defended)
          /\ Tip' = Tip
          /\ \A p, i : /\ Mined(Root(p, i), verified)' <=> Mined(Root(p, i), verified)
                       /\ Mined(Root(p, i), view.block)' <=> Mined(Root(p, i), view.block)
      BY <2>1 DEF Defeated, Pending, Answered, Mined, Tip, Root, Defeat, Challenge
    <2>3. Known(verified)' /\ Known(view.block)'
      BY <1>1, <2>1, <2>2 DEF Known
    <2> QED
      BY <1>1, <2>1, <2>2, <2>3 DEF NoReorgInv
  <1> QED
    BY <1>2, <1>3 DEF ScanRoots, NotScanned

(* A scan of the defender finds the challenges since the last one: those   *)
(* before it have been answered.                                           *)
LEMMA ScanChallengesStep ==
  ASSUME TypeOK, ChainInv, NoReorgInv, ScanChallenges
  PROVE  NoReorgInv'
  <1>1. task = "defend" /\ rootSubmissionCache' = rootSubmissionCache
        /\ defended' = defended /\ verified' = verified
    BY DEF ScanChallenges, NotScanned
  <1>2. CASE EndRun
    BY <1>1, <1>2, EndRunStep DEF NoReorgInv, Known
  <1>3. CASE /\ todo' \in InOrder(Defendable, LAMBDA tx : Challenge(Own, tx.index))
             /\ UNCHANGED <<chainVars, view, task, sent, age>>
    <2>1. UNCHANGED <<wrong, path, chain, view, task>>
      BY <1>3 DEF chainVars
    <2>2. /\ \A t : Mined(t, Tip)' <=> Mined(t, Tip)
          /\ \A t : Mined(t, view.block)' <=> Mined(t, view.block)
          /\ \A p : Defeated(p, Tip)' <=> Defeated(p, Tip)
          /\ \A p : Pending(p, view.block)' <=> Pending(p, view.block)
          /\ Answered(defended)' <=> Answered(defended)
          /\ Known(verified)' <=> Known(verified)
          /\ Tip' = Tip
      BY <1>1, <2>1 DEF Defeated, Pending, Answered, Known, Mined, Tip, Root, Defeat, Challenge
    <2>3. todo' \in SetToSeqs(Defendable)
      BY <1>3 DEF InOrder
    <2>4. \A tx \in Defendable : \E k \in DOMAIN todo' : todo'[k] = tx
      BY <2>3, DefendableIsFinite, TxLists
    <2>5. ASSUME NEW i \in Disputed, Mined(Challenge(Own, i), view.block), ~Mined(Root(Own, i), Tip)
          PROVE  Root(Own, i) \in Defendable
      <3>1. ~Mined(Challenge(Own, i), defended)
        BY <2>5 DEF NoReorgInv, Answered
      <3>2. /\ Block(Challenge(Own, i)) \in Nat \ {0}
            /\ ~(Block(Challenge(Own, i)) <= defended)
        BY <2>5, <3>1, BlockTypes, BlockOfMined
      <3>3. Block(Root(Own, 1)) = 1
        BY DEF Block, ChainInv
      <3>4. Block(Challenge(Own, i)) >= StartBlock(defended, Own)
        BY <3>2, <3>3, BlockTypes DEF StartBlock
      <3>5. ~Mined(Root(Own, i), view.block)
        BY <2>5, BlockTypes DEF Mined, NoReorgInv
      <3>6. ChallengeState(Own, i, view.block) = "Challenged"
        BY <2>5, <3>5 DEF ChallengeState
      <3> QED
        BY <2>5, <3>4, <3>6 DEF Defendable
    <2>6. Answering'
      BY <2>1, <2>2, <2>4, <2>5 DEF Answering, Root, Challenge
    <2> QED
      BY <1>1, <2>1, <2>2, <2>6 DEF NoReorgInv
  <1> QED
    BY <1>2, <1>3 DEF ScanChallenges

LEMMA UpdateStep ==
  ASSUME TypeOK, ChainInv, NoReorgInv, UpdateNetworkState
  PROVE  NoReorgInv'
  <1>1. /\ view' = [block |-> Tip, pending |-> {p \in Props : Pending(p, Tip)},
                    over |-> {p \in Props : Defeated(p, Tip)}]
        /\ task' = "defend" /\ scanning' = TRUE
        /\ UNCHANGED <<wrong, path, chain, todo, defended, verified, rootSubmissionCache>>
    BY DEF UpdateNetworkState, chainVars
  <1>2. view.block' = Tip /\ Tip' = Tip /\ Tip \in Nat
    BY <1>1, BlockTypes DEF Tip
  <1>3. /\ \A p : Defeated(p, Tip)' <=> Defeated(p, Tip)
        /\ \A p : Pending(p, view.block)' <=> Pending(p, Tip)
        /\ Answered(defended)' <=> Answered(defended)
        /\ Known(verified)' <=> Known(verified)
    BY <1>1, <1>2 DEF Defeated, Pending, Answered, Known, Mined, Root, Defeat, Challenge
  <1> QED
    BY <1>1, <1>2, <1>3 DEF NoReorgInv

LEMMA IncludedStep ==
  ASSUME TypeOK, SentInv, NoReorgInv, Included
  PROVE  NoReorgInv'
  <1>1. /\ todo' = Tail(todo) /\ todo # <<>> /\ Mined(Head(todo), Tip)
        /\ UNCHANGED <<wrong, path, chain, view, task, scanning, defended, verified,
                       rootSubmissionCache>>
    BY DEF Included, SentInv, chainVars
  <1>2. /\ \A t, b : Mined(t, b) <=> \E k \in DOMAIN chain : k <= b /\ chain[k] = t
        /\ \A t : Mined(t, Tip)' <=> Mined(t, Tip)
        /\ \A t : Mined(t, view.block)' <=> Mined(t, view.block)
        /\ \A p : Defeated(p, Tip)' <=> Defeated(p, Tip)
        /\ \A p : Pending(p, view.block)' <=> Pending(p, view.block)
        /\ Answered(defended)' <=> Answered(defended)
        /\ Known(verified)' <=> Known(verified)
        /\ Known(view.block)' <=> Known(view.block)
        /\ Tip' = Tip
    BY <1>1 DEF Defeated, Pending, Answered, Known, Mined, Tip, Root, Defeat, Challenge
  <1>3. Answering => Answering'
    <2>1. todo \in Seq(Txs)
      BY DEF TypeOK
    <2>2. ASSUME NEW k \in DOMAIN todo, k # 1
          PROVE  k - 1 \in DOMAIN todo' /\ todo'[k - 1] = todo[k]
      <3>1. Len(todo) \in Nat /\ DOMAIN todo = 1..Len(todo)
        BY <2>1
      <3>2. Len(Tail(todo)) = Len(todo) - 1 /\ DOMAIN Tail(todo) = 1..(Len(todo) - 1)
        BY <1>1, <2>1
      <3>3. k - 1 \in 1..(Len(todo) - 1)
        BY <2>2, <3>1
      <3>4. Tail(todo)[k - 1] = todo[k - 1 + 1]
        BY <1>1, <2>1, <3>3
      <3> QED
        BY <1>1, <2>2, <3>1, <3>2, <3>3, <3>4
    <2>3. Head(todo) = todo[1]
      BY <1>1, <2>1
    <2>4. ASSUME Answering, NEW i \in Disputed, Mined(Challenge(Own, i), view.block)
          PROVE  Mined(Root(Own, i), Tip) \/ \E k \in DOMAIN todo' : todo'[k] = Root(Own, i)
      BY <1>1, <2>2, <2>3, <2>4 DEF Answering
    <2> QED
      BY <1>1, <1>2, <2>4 DEF Answering, Root, Challenge
  <1> QED
    BY <1>1, <1>2, <1>3 DEF NoReorgInv

(* Steps that keep the chain and what the tasks know of it.                *)
LEMMA KeepStep ==
  ASSUME TypeOK, NoReorgInv,
         UNCHANGED <<wrong, path, chain, view, defended, verified, rootSubmissionCache>>,
         \/ UNCHANGED <<task, scanning, todo>>
         \/ task = "verify" /\ UNCHANGED <<task, scanning>>
  PROVE  NoReorgInv'
  <1>1. /\ \A t : Mined(t, Tip)' <=> Mined(t, Tip)
        /\ \A t : Mined(t, view.block)' <=> Mined(t, view.block)
        /\ \A p : Defeated(p, Tip)' <=> Defeated(p, Tip)
        /\ \A p : Pending(p, view.block)' <=> Pending(p, view.block)
        /\ Answered(defended)' <=> Answered(defended)
        /\ Known(verified)' <=> Known(verified)
        /\ Known(view.block)' <=> Known(view.block)
        /\ Tip' = Tip
    BY DEF Defeated, Pending, Answered, Known, Mined, Tip, Root, Defeat, Challenge
  <1>2. UNCHANGED todo => (Answering' <=> Answering)
    BY <1>1 DEF Answering, Root, Challenge
  <1> QED
    BY <1>1, <1>2 DEF NoReorgInv

(* All of the list is answered, and lastScannedBlock moves.                *)
LEMMA DoneStep ==
  ASSUME TypeOK, NoReorgInv, Done
  PROVE  NoReorgInv'
  <1>1. /\ EndRun /\ ~scanning /\ todo = <<>> /\ task \in {"defend", "verify"}
        /\ rootSubmissionCache' = rootSubmissionCache
        /\ defended' = IF task = "defend" THEN view.block ELSE defended
        /\ verified' = IF task = "verify" THEN view.block ELSE verified
    BY DEF Done, TypeOK
  <1>2. task = "defend" => Answered(view.block)
    BY <1>1 DEF NoReorgInv, Answering, Answered
  <1>3. \A p \in wrong, i \in path :
            Mined(Root(p, i), verified') /\ ~Defeated(p, Tip) => <<p, i>> \in rootSubmissionCache'
    BY <1>1 DEF NoReorgInv, Known
  <1> QED
    BY <1>1, <1>2, <1>3, EndRunStep

LEMMA RestartStep ==
  ASSUME TypeOK, NoReorgInv, Restart
  PROVE  NoReorgInv'
  <1>1. /\ task' = "idle" /\ defended' = 0 /\ verified' = 0
        /\ UNCHANGED <<wrong, path, chain, view>>
    BY DEF Restart, chainVars
  <1>2. /\ \A p : Defeated(p, Tip)' <=> Defeated(p, Tip)
        /\ \A p : Pending(p, view.block)' <=> Pending(p, view.block)
        /\ Tip' = Tip /\ Tip \in Nat
    BY <1>1, BlockTypes DEF Defeated, Pending, Mined, Tip, Root, Defeat
  <1>3. \A t : ~Mined(t, defended)' /\ ~Mined(t, verified)'
    BY <1>1, BlockTypes DEF Mined
  <1>4. Answered(defended)' /\ Known(verified)'
    BY <1>3 DEF Answered, Known
  <1> QED
    BY <1>1, <1>2, <1>4 DEF NoReorgInv

LEMMA NoReorgStep ==
  ASSUME TypeOK, ChainInv, SentInv, NoReorgInv, [Next]_vars, reorgs = 0, reorgs' = 0
  PROVE  NoReorgInv'
  <1>1. CASE UpdateNetworkState \/ ScanChallenges \/ ScanRoots \/ Included \/ Done \/ Restart
    BY <1>1, UpdateStep, ScanChallengesStep, ScanRootsStep, IncludedStep, DoneStep, RestartStep
  <1>2. CASE EndRun /\ NotScanned /\ rootSubmissionCache' = rootSubmissionCache
    BY <1>2, EndRunStep DEF NotScanned, NoReorgInv, Known
  <1>3. CASE Submit /\ ~EndRun
    BY <1>3, KeepStep DEF Submit, NotScanned
  <1>4. CASE GasTooHigh
    BY <1>4, KeepStep DEF GasTooHigh, chainVars
  <1>5. ASSUME UNCHANGED daemonVars
        PROVE  NoReorgInv'
    <2>1. CASE chain' = chain
      BY <1>5, <2>1, ChainSteps, KeepStep DEF daemonVars
    <2>2. CASE \E tx \in Txs : Valid(tx) /\ chain' = Append(chain, tx)
      BY <1>5, <2>2, ChainSteps, GrowStep
    <2> QED
      BY <2>1, <2>2, ChainSteps
  <1>6. CASE \E tx \in Txs : Mine(tx) \/ OthersSend(tx)
    BY <1>5, <1>6 DEF Mine, OthersSend
  <1>7. ASSUME NEW p \in Others, WindowOver(p) PROVE NoReorgInv'
    BY <1>5, <1>7 DEF WindowOver
  <1>8. ASSUME NEW p \in Props, NEW i \in Indices, Expire(p, i) PROVE NoReorgInv'
    BY <1>5, <1>8 DEF Expire
  <1>9. ASSUME NEW d \in 1..MaxDepth, Reorg(d) PROVE NoReorgInv'
    BY <1>5, <1>9 DEF Reorg, daemonVars
  <1>10. CASE UNCHANGED vars
    BY <1>5, <1>10 DEF vars
  <1> QED
    BY <1>1, <1>2, <1>3, <1>4, <1>6, <1>7, <1>8, <1>9, <1>10
       DEF Next, Daemon, ScanFails, Reverted, RequestFails, Submit
-----------------------------------------------------------------------------
LEMMA InitIInv == Init => IInv
  <1> SUFFICES ASSUME Init PROVE IInv
    OBVIOUS
  <1>1. TypeOK
    BY TypeInit
  <1>2. /\ chain = <<Root(Own, 1)>> /\ sent = None /\ task = "idle" /\ view.block = 0
        /\ view.over = {} /\ defended = 0 /\ verified = 0
    BY DEF Init
  <1>3. /\ DOMAIN chain = {1} /\ chain[1] = Root(Own, 1) /\ chain # <<>> /\ Tip = 1
    BY <1>2 DEF Tip
  <1>4. ChainInv
    BY <1>3 DEF ChainInv, Root
  <1>5. \A t : ~Mined(t, 0)
    BY <1>3 DEF Mined
  <1>6. NoReorgInv
    BY <1>2, <1>3, <1>5 DEF NoReorgInv, Answered, Known, Pending
  <1> QED
    BY <1>1, <1>2, <1>4, <1>6 DEF IInv, SentInv

LEMMA NextIInv == IInv /\ [Next]_vars => IInv'
  <1> SUFFICES ASSUME IInv, [Next]_vars PROVE IInv'
    OBVIOUS
  <1>1. TypeOK /\ ChainInv /\ SentInv /\ (reorgs = 0 => NoReorgInv)
    BY DEF IInv
  <1>2. TypeOK'
    <2>1. CASE UNCHANGED vars
      BY <1>1, <2>1 DEF vars, chainVars, daemonVars, TypeOK
    <2> QED
      BY <1>1, <2>1, TypeOfChain, TypeOfDaemon DEF Next
  <1>3. ChainInv' /\ SentInv'
    BY <1>1, ChainStep, SentStep
  <1>4. reorgs' = 0 => NoReorgInv'
    <2>1. reorgs' = 0 => reorgs = 0
      BY <1>1, ChainSteps, PdaoAssumption DEF TypeOK
    <2> QED
      BY <1>1, <2>1, NoReorgStep
  <1> QED
    BY <1>2, <1>3, <1>4 DEF IInv

LEMMA IInvHolds == Spec => []IInv
  BY InitIInv, NextIInv, PTL DEF Spec

(* Types: in particular the list of a run holds transactions only, since   *)
(* the walk of getChallengeOrDefeatForProposal always ends at an index.    *)
THEOREM TypeCorrect == Spec => []TypeOK
  <1>1. IInv => TypeOK
    BY DEF IInv
  <1> QED
    BY <1>1, IInvHolds, PTL

(* While the chain is not reorganised lastScannedBlock of defendPdaoProps  *)
(* and of verifyPdaoProps is safe to start from, whatever fails: it moves  *)
(* only when the list of the run is done, or when the cache is complete.   *)
THEOREM NothingOverlookedHolds == Spec => []NothingOverlooked
  <1>1. IInv => NothingOverlooked
    <2> SUFFICES ASSUME TypeOK, ChainInv, NoReorgInv PROVE NothingOverlooked
      BY DEF IInv, NothingOverlooked
    <2>1. ASSUME NEW i \in Disputed, Overlooked(i)
          PROVE  FALSE
      <3>1. ~Mined(Root(Own, i), Tip) /\ Mined(Challenge(Own, i), Tip)
            /\ Block(Challenge(Own, i)) <= defended
        BY <2>1 DEF Overlooked, ChallengeState
      <3>2. Mined(Challenge(Own, i), defended)
        BY <3>1, BlockTypes, BlockOfMined
      <3> QED
        BY <3>1, <3>2 DEF NoReorgInv, Answered
    <2>2. ASSUME NEW p \in wrong, NEW i \in path, Unseen(p, i)
          PROVE  FALSE
      BY <2>2 DEF Unseen, Pending, NoReorgInv, Known
    <2> QED
      BY <2>1, <2>2 DEF NothingOverlooked
  <1> QED
    BY <1>1, IInvHolds, PTL

-----------------------------------------------------------------------------
(***************************************************************************)
(* How many runs of the defender a challenge may wait.  What goes wrong    *)
(* costs runs: a run whose list is no longer what the chain asks for ends  *)
(* in an error, and an answer of an earlier run that is still under way    *)
(* makes a later run such a one when it is mined.                          *)
(***************************************************************************)
OwnRoots == {Root(Own, j) : j \in Disputed}

\* The list of a run: answers, each of them once, or what is about others.
ListInv ==
    /\ scanning \/ task = "idle" => todo = <<>>
    /\ task = "defend" =>
           /\ \A k \in DOMAIN todo : todo[k] \in OwnRoots
           /\ \A j, k \in DOMAIN todo : todo[j] = todo[k] => j = k
    /\ task = "verify" => \A k \in DOMAIN todo : todo[k].prop \in Others

\* Nobody defeats the node's own proposal, and its answers are sent when due.
OwnInv ==
    /\ ~Defeated(Own, Tip)
    /\ \A i \in Indices : Defeat(Own, i) \notin mempool
    /\ task = "defend" => Own \in view.pending
    /\ \A j \in Disputed : Root(Own, j) \in mempool => ~Mined(Root(Own, j), Tip)

\* Answers of earlier runs that are under way.
Strays == {j \in Disputed : Root(Own, j) \in mempool /\ Root(Own, j) # sent}

Unanswered(i) ==
    /\ ChallengeState(Own, i, Tip) = "Challenged"
    /\ Root(Own, i) \notin mempool

Due(tx) == tx \in OwnRoots /\ ChallengeState(Own, tx.index, Tip) = "Challenged"

\* The list has all that is due and nothing else.
ListIsDue ==
    /\ \A k \in DOMAIN todo : (todo[k] # sent /\ Due(todo[k])) \/ (k = 1 /\ todo[k] = sent)
    /\ sent # None => Mined(sent, Tip) \/ (sent \in mempool /\ Due(sent))
    /\ \A i \in Disputed :
           Unanswered(i) /\ Mined(Challenge(Own, i), view.block) =>
               \/ Block(Challenge(Own, i)) <= defended
               \/ \E k \in DOMAIN todo : todo[k] = Root(Own, i)

\* A run that will not end in an error unless something happens.
Healthy ==
    task = "defend" =>
        /\ ViewReadable
        /\ scanning => \A j \in Disputed :
               Mined(Root(Own, j), Tip) => Mined(Root(Own, j), view.block)
        /\ ~scanning => ListIsDue

\* The runs that may yet end in an error for what has happened.
Debt == Cardinality(Strays) + (IF Healthy THEN 0 ELSE 1)

\* The runs that faults and reorganisations may cost.
Budget == 2 * faults + (1 + MaxDepth) * reorgs

RunsInv ==
    /\ \A i \in Disputed : ~Mined(Challenge(Own, i), Tip) => age[i] = 0
    /\ Debt <= Budget
    /\ \A i \in Disputed : Unanswered(i) => age[i] + Debt <= Budget

AgeInv == ListInv /\ OwnInv /\ RunsInv

(***************************************************************************)
(* Lemmas on what costs a run.                                             *)
(***************************************************************************)
LEMMA OwnIsPending ==
  ASSUME TypeOK, ChainInv, OwnInv
  PROVE  Pending(Own, Tip)
  <1>1. 1 \in DOMAIN chain /\ 1 <= Tip
    BY DEF TypeOK, ChainInv, Tip
  <1> QED
    BY <1>1 DEF Pending, OwnInv, Mined, ChainInv

(* An answer of the node is valid just when it is due.                     *)
LEMMA OwnValid ==
  ASSUME TypeOK, ChainInv, OwnInv, NEW tx \in OwnRoots
  PROVE  /\ Valid(tx) <=> Due(tx)
         /\ Due(tx) => ~Mined(tx, Tip)
  <1>1. PICK j \in Disputed : tx = Root(Own, j)
    BY DEF OwnRoots
  <1>2. j # 1 /\ tx.kind = "root" /\ tx.index = j /\ tx.prop = Own
    BY <1>1, PdaoAssumption DEF Root
  <1>3. Valid(tx) <=> ChallengeState(Own, j, Tip) = "Challenged"
    BY <1>2, OwnIsPending DEF Valid, CanAnswer
  <1>4. ChallengeState(Own, j, Tip) = "Challenged" => ~Mined(tx, Tip)
    BY <1>1 DEF ChallengeState
  <1> QED
    BY <1>2, <1>3, <1>4 DEF Due

LEMMA RootsDiffer ==
  /\ \A i, j : Root(Own, i) = Root(Own, j) => i = j
  /\ \A i, j, p : Root(p, i) # Challenge(Own, j) /\ Root(p, i) # Defeat(Own, j)
  /\ \A i, j, p : Challenge(p, i) # Defeat(Own, j)
  BY DEF Root, Challenge, Defeat

LEMMA DebtType ==
  ASSUME TypeOK
  PROVE  /\ IsFiniteSet(Strays) /\ Cardinality(Strays) \in Nat
         /\ Debt \in Nat /\ Budget \in Nat
         /\ Debt = Cardinality(Strays) + (IF Healthy THEN 0 ELSE 1)
  <1>1. Strays \in SUBSET Disputed
    BY DEF Strays
  <1>2. IsFiniteSet(Strays) /\ Cardinality(Strays) \in Nat
    BY <1>1, PdaoAssumption, FS_Subset, FS_CardinalityType
  <1>3. faults \in Nat /\ reorgs \in Nat /\ MaxDepth \in Nat
    BY PdaoAssumption DEF TypeOK
  <1> QED
    BY <1>2, <1>3 DEF Debt, Budget

LEMMA DebtTypeAfter ==
  ASSUME TypeOK'
  PROVE  Debt' \in Nat /\ Budget' \in Nat
  <1>1. Strays' \in SUBSET Disputed
    BY DEF Strays
  <1>2. Cardinality(Strays)' \in Nat
    BY <1>1, PdaoAssumption, FS_Subset, FS_CardinalityType
  <1>3. faults' \in Nat /\ reorgs' \in Nat /\ MaxDepth \in Nat
    BY PdaoAssumption DEF TypeOK
  <1>4. Debt' \in Nat
    BY <1>2 DEF Debt
  <1>5. Budget' \in Nat
    <2>1. \A x \in Nat, y \in Nat : 2 * x + (1 + MaxDepth) * y \in Nat
      BY <1>3
    <2> QED
      BY <1>3, <2>1 DEF Budget
  <1> QED
    BY <1>4, <1>5

LEMMA DebtShrinks ==
  ASSUME TypeOK, TypeOK', Strays' \subseteq Strays, Healthy => Healthy'
  PROVE  Debt' <= Debt
  <1>1. Cardinality(Strays') <= Cardinality(Strays)
    BY DebtType, FS_Subset
  <1>2. /\ Cardinality(Strays) \in Nat /\ Cardinality(Strays)' \in Nat
        /\ Cardinality(Strays)' = Cardinality(Strays')
    BY DebtType, FS_Subset, FS_CardinalityType
  <1> QED
    BY <1>1, <1>2 DEF Debt

(* A step that costs nothing: no challenge comes to wait for an answer, or *)
(* one that no run has seen.                                               *)
LEMMA Costless ==
  ASSUME TypeOK, TypeOK', RunsInv, Debt' <= Debt, Budget' >= Budget,
         age' = age,
         \A i \in Disputed : Mined(Challenge(Own, i), Tip) => Mined(Challenge(Own, i), Tip)',
         \A i \in Disputed : Unanswered(i)' => Unanswered(i) \/ ~Mined(Challenge(Own, i), Tip)
  PROVE  RunsInv'
  <1>1. /\ Debt \in Nat /\ Debt' \in Nat /\ Budget \in Nat /\ Budget' \in Nat
        /\ age \in [Disputed -> 0..Patience] /\ Patience \in Nat
    BY DebtType, DebtTypeAfter, PdaoAssumption DEF TypeOK
  <1>2. \A i \in Disputed : ~Mined(Challenge(Own, i), Tip)' => age'[i] = 0
    BY DEF RunsInv
  <1>3. Debt' <= Budget'
    BY <1>1 DEF RunsInv
  <1>4. ASSUME NEW i \in Disputed, Unanswered(i)'
        PROVE  age'[i] + Debt' <= Budget'
    <2>1. CASE Unanswered(i)
      BY <1>1, <2>1 DEF RunsInv
    <2>2. CASE ~Mined(Challenge(Own, i), Tip)
      BY <1>1, <1>3, <2>2 DEF RunsInv
    <2> QED
      BY <1>4, <2>1, <2>2
  <1> QED
    BY <1>2, <1>3, <1>4 DEF RunsInv

-----------------------------------------------------------------------------
(***************************************************************************)
(* The chain goes on.                                                      *)
(***************************************************************************)
LEMMA MinedAfter ==
  ASSUME TypeOK, ChainInv, ChainInv', NEW tx \in Txs,
         chain' = IF Valid(tx) THEN Append(chain, tx) ELSE chain
  PROVE  /\ \A t : Mined(t, Tip)' <=> Mined(t, Tip) \/ (Valid(tx) /\ t = tx)
         /\ \A t : Mined(t, Tip) => Block(t)' = Block(t)
         /\ Tip \in Nat /\ Tip' \in Nat /\ Tip <= Tip'
         /\ view' = view /\ view.block <= Tip =>
                \A t : Mined(t, view.block)' <=> Mined(t, view.block)
  <1>1. /\ chain \in Seq(Txs) /\ Len(chain) \in Nat /\ DOMAIN chain = 1..Len(chain)
        /\ \A k \in DOMAIN chain : k \in DOMAIN chain' /\ chain'[k] = chain[k]
        /\ Valid(tx) => /\ DOMAIN chain' = 1..(Len(chain) + 1) /\ Len(chain') = Len(chain) + 1
                        /\ chain'[Len(chain) + 1] = tx
        /\ ~Valid(tx) => chain' = chain
    BY DEF TypeOK
  <1>2. Tip \in Nat /\ Tip' \in Nat /\ Tip <= Tip'
    <2>1. Valid(tx) => Len(chain') = Len(chain) + 1
      BY <1>1
    <2>2. ~Valid(tx) => Len(chain') = Len(chain)
      BY <1>1
    <2>3. Len(chain') \in {Len(chain), Len(chain) + 1}
      BY <2>1, <2>2
    <2>4. Len(chain) \in Nat
      BY <1>1
    <2> QED
      BY <2>3, <2>4 DEF Tip
  <1>3. \A t : Mined(t, Tip)' <=> Mined(t, Tip) \/ (Valid(tx) /\ t = tx)
    <2>1. CASE Valid(tx)
      BY <1>1, <2>1 DEF Mined, Tip
    <2>2. CASE ~Valid(tx)
      BY <1>1, <2>2 DEF Mined, Tip
    <2> QED
      BY <2>1, <2>2
  <1>4. ASSUME NEW t, Mined(t, Tip)
        PROVE  Block(t)' = Block(t)
    <2>1. PICK k \in DOMAIN chain : chain[k] = t
      BY <1>4 DEF Mined
    <2>2. Block(t) = k
      BY <2>1 DEF Block, ChainInv
    <2>3. k \in DOMAIN chain' /\ chain'[k] = t
      BY <1>1, <2>1
    <2>4. Block(t)' = k
      BY <2>3 DEF Block, ChainInv
    <2> QED
      BY <2>2, <2>4
  <1>5. view' = view /\ view.block <= Tip =>
            \A t : Mined(t, view.block)' <=> Mined(t, view.block)
    <2>1. CASE Valid(tx)
      BY <1>1, <2>1, BlockTypes DEF Mined, Tip
    <2>2. CASE ~Valid(tx)
      BY <1>1, <2>2 DEF Mined, Tip
    <2> QED
      BY <2>1, <2>2
  <1> QED
    BY <1>2, <1>3, <1>4, <1>5

(* A transaction that is not an answer of the node leaves its runs alone.  *)
LEMMA MineOther ==
  ASSUME TypeOK, TypeOK', ChainInv, ChainInv', ListInv, OwnInv, RunsInv,
         NEW tx \in Txs, tx \notin OwnRoots, \A i \in Indices : tx # Defeat(Own, i),
         mempool' = mempool \ {tx},
         chain' = IF Valid(tx) THEN Append(chain, tx) ELSE chain,
         UNCHANGED <<daemonVars, age, faults, reorgs>>
  PROVE  OwnInv' /\ RunsInv'
  <1>0. /\ view' = view /\ task' = task /\ todo' = todo /\ sent' = sent /\ scanning' = scanning
        /\ defended' = defended /\ age' = age /\ Budget' = Budget
    BY DEF daemonVars, Budget
  <1>1. /\ \A t : Mined(t, Tip)' <=> Mined(t, Tip) \/ (Valid(tx) /\ t = tx)
        /\ \A t : Mined(t, Tip) => Block(t)' = Block(t)
        /\ Tip \in Nat /\ Tip' \in Nat /\ Tip <= Tip'
        /\ view.block <= Tip => \A t : Mined(t, view.block)' <=> Mined(t, view.block)
    BY <1>0, MinedAfter
  <1>2. \A j \in Disputed : Root(Own, j) # tx
    BY DEF OwnRoots
  <1>3. \A j \in Disputed : Mined(Root(Own, j), Tip)' <=> Mined(Root(Own, j), Tip)
    BY <1>1, <1>2
  <1>4. \A j \in Disputed :
            Mined(Challenge(Own, j), Tip) =>
                ChallengeState(Own, j, Tip)' = ChallengeState(Own, j, Tip)
    BY <1>1, <1>3 DEF ChallengeState
  <1>5. \A j \in Disputed : Root(Own, j) \in mempool' <=> Root(Own, j) \in mempool
    BY <1>2
  <1>6. OwnInv'
    <2>1. ~Defeated(Own, Tip)'
      BY <1>1 DEF OwnInv, Defeated
    <2>2. \A i \in Indices : Defeat(Own, i) \notin mempool'
      BY DEF OwnInv
    <2> QED
      BY <1>0, <1>3, <1>5, <2>1, <2>2 DEF OwnInv, Root, Defeat
  <1>7. Strays' = Strays
    BY <1>0, <1>5 DEF Strays, Root
  <1>8. \A j \in Disputed : Mined(Challenge(Own, j), Tip) => (Unanswered(j)' <=> Unanswered(j))
    BY <1>4, <1>5 DEF Unanswered, Root
  <1>9. \A t : Due(t) => Due(t)'
    <2>1. ASSUME NEW t, Due(t)
          PROVE  Due(t)'
      <3>1. PICK j \in Disputed : t = Root(Own, j) /\ t.index = j
        BY <2>1 DEF Due, OwnRoots, Root
      <3>2. ChallengeState(Own, j, Tip) = "Challenged" /\ Mined(Challenge(Own, j), Tip)
        BY <2>1, <3>1 DEF Due, ChallengeState
      <3>3. ChallengeState(Own, j, Tip)' = "Challenged"
        BY <1>4, <3>2
      <3> QED
        BY <2>1, <3>1, <3>3 DEF Due
    <2> QED
      BY <2>1
  <1>10. ASSUME Healthy, task = "defend"
         PROVE  Healthy'
    <2>1. ViewReadable /\ view.block <= Tip /\ view.block \in Nat
      BY <1>10, BlockTypes DEF Healthy, ViewReadable
    <2>2. \A t : Mined(t, view.block)' <=> Mined(t, view.block)
      BY <1>1, <2>1
    <2>3. ViewReadable'
      BY <1>0, <1>1, <2>1, <2>2 DEF ViewReadable, Root
    <2>4. scanning => \A j \in Disputed :
              Mined(Root(Own, j), Tip)' => Mined(Root(Own, j), view.block)'
      BY <1>3, <1>10, <2>2 DEF Healthy
    <2>5. CASE ~scanning
      <3>1. ListIsDue
        BY <1>10, <2>5 DEF Healthy
      <3>2. \A k \in DOMAIN todo' : (todo'[k] # sent' /\ Due(todo[k])') \/ (k = 1 /\ todo'[k] = sent')
        BY <1>0, <1>9, <3>1 DEF ListIsDue
      <3>3. sent # None => Mined(sent, Tip)' \/ (sent \in mempool' /\ Due(sent)')
        <4>1. sent \in mempool /\ Due(sent) => sent \in mempool' /\ Due(sent)'
          BY <1>0, <1>9 DEF Due
        <4> QED
          BY <1>0, <1>1, <3>1, <4>1 DEF ListIsDue
      <3>4. ASSUME NEW i \in Disputed, Unanswered(i)', Mined(Challenge(Own, i), view.block)'
            PROVE  \/ Block(Challenge(Own, i))' <= defended'
                   \/ \E k \in DOMAIN todo' : todo'[k] = Root(Own, i)
        <4>1. Mined(Challenge(Own, i), view.block) /\ Mined(Challenge(Own, i), Tip)
          BY <2>1, <2>2, <3>4 DEF Mined, Tip
        <4>2. Unanswered(i) /\ Block(Challenge(Own, i))' = Block(Challenge(Own, i))
          BY <1>1, <1>8, <3>4, <4>1
        <4> QED
          BY <1>0, <3>1, <4>1, <4>2 DEF ListIsDue
      <3>5. ListIsDue'
        BY <1>0, <3>2, <3>3, <3>4 DEF ListIsDue, Root, Challenge
      <3> QED
        BY <1>0, <2>3, <2>5, <3>5 DEF Healthy
    <2> QED
      BY <1>0, <2>3, <2>4, <2>5 DEF Healthy, Root
  <1>11. Debt' <= Debt
    <2>1. Healthy => Healthy'
      BY <1>0, <1>10 DEF Healthy
    <2> QED
      BY <1>7, <2>1, DebtShrinks
  <1>12. \A i \in Disputed : Unanswered(i)' => Unanswered(i) \/ ~Mined(Challenge(Own, i), Tip)
    BY <1>8
  <1>13. RunsInv'
    <2>1. Budget' >= Budget
      BY <1>0, DebtType
    <2> QED
      BY <1>0, <1>1, <1>11, <1>12, <2>1, Costless
  <1> QED
    BY <1>6, <1>13


(* An answer is mined.  If it is one of an earlier run, this may cost the  *)
(* present one; but there is one such answer less.                         *)
LEMMA MineAnswer ==
  ASSUME TypeOK, TypeOK', ChainInv, ChainInv', SentInv, ListInv, OwnInv, RunsInv,
         NEW j \in Disputed, Root(Own, j) \in mempool, Mine(Root(Own, j))
  PROVE  OwnInv' /\ RunsInv'
  <1> DEFINE tx == Root(Own, j)
  <1>0. /\ view' = view /\ task' = task /\ todo' = todo /\ sent' = sent /\ scanning' = scanning
        /\ defended' = defended /\ age' = age /\ Budget' = Budget
        /\ mempool' = mempool \ {tx}
        /\ chain' = IF Valid(tx) THEN Append(chain, tx) ELSE chain
    BY DEF Mine, daemonVars, Budget
  <1>t. tx \in Txs /\ tx \in OwnRoots
    BY IndexFacts, TxFacts DEF OwnRoots
  <1>v. /\ Valid(tx) <=> Due(tx)
        /\ ~Mined(tx, Tip)
    BY <1>t, OwnValid DEF OwnInv
  <1>1. /\ \A t : Mined(t, Tip)' <=> Mined(t, Tip) \/ (Valid(tx) /\ t = tx)
        /\ \A t : Mined(t, Tip) => Block(t)' = Block(t)
        /\ Tip \in Nat /\ Tip' \in Nat /\ Tip <= Tip'
        /\ view.block <= Tip => \A t : Mined(t, view.block)' <=> Mined(t, view.block)
    BY <1>0, <1>t, MinedAfter
  <1>2. \A i \in Disputed :
            /\ Mined(Challenge(Own, i), Tip)' <=> Mined(Challenge(Own, i), Tip)
            /\ i # j => (Mined(Root(Own, i), Tip)' <=> Mined(Root(Own, i), Tip))
            /\ i # j => (Root(Own, i) \in mempool' <=> Root(Own, i) \in mempool)
    BY <1>0, <1>1, RootsDiffer
  <1>3. OwnInv'
    <2>1. ~Defeated(Own, Tip)'
      BY <1>1, RootsDiffer DEF OwnInv, Defeated
    <2>2. /\ \A i \in Indices : Defeat(Own, i) \notin mempool'
          /\ \A i \in Disputed : Root(Own, i) \in mempool' => ~Mined(Root(Own, i), Tip)'
      BY <1>0, <1>1 DEF OwnInv
    <2> QED
      BY <1>0, <2>1, <2>2 DEF OwnInv, Root, Defeat
  <1>4. \A i \in Disputed : Unanswered(i)' => i # j /\ Unanswered(i)
    <2>1. ASSUME NEW i \in Disputed, Unanswered(i)', i # j
          PROVE  Unanswered(i)
      BY <1>2, <2>1 DEF Unanswered, ChallengeState, Root
    <2>2. ASSUME Unanswered(j)'
          PROVE  FALSE
      <3>1. ChallengeState(Own, j, Tip)' = "Challenged"
        BY <2>2 DEF Unanswered
      <3>2. ~Mined(tx, Tip)' /\ Mined(Challenge(Own, j), Tip)'
        BY <3>1 DEF ChallengeState
      <3>3. Mined(Challenge(Own, j), Tip) /\ ~Valid(tx)
        BY <1>1, <1>2, <3>2
      <3>4. ChallengeState(Own, j, Tip) = "Challenged"
        BY <1>v, <3>3 DEF ChallengeState
      <3> QED
        BY <1>t, <1>v, <3>3, <3>4 DEF Due, Root
    <2> QED
      BY <2>1, <2>2
  <1>5. Debt' <= Debt
    <2>1. CASE sent = tx
      <3>1. Strays' = Strays
        BY <1>0, <1>2, <2>1 DEF Strays, Root
      <3>2. ASSUME Healthy, task = "defend"
            PROVE  Healthy'
        <4>1. ViewReadable /\ view.block <= Tip /\ view.block \in Nat
          BY <3>2, BlockTypes DEF Healthy, ViewReadable
        <4>2. \A t : Mined(t, view.block)' <=> Mined(t, view.block)
          BY <1>1, <4>1
        <4>3. ViewReadable'
          BY <1>0, <1>1, <4>1, <4>2 DEF ViewReadable, Root
        <4>4. ~scanning /\ sent # None
          BY <1>t, <2>1, NoneIsNoTx DEF SentInv
        <4>5. ListIsDue
          BY <3>2, <4>4 DEF Healthy
        <4>6. Valid(tx) /\ Mined(sent, Tip)'
          <5>1. Mined(sent, Tip) \/ Due(sent)
            BY <4>4, <4>5 DEF ListIsDue
          <5>2. Valid(tx)
            BY <1>v, <2>1, <5>1
          <5> QED
            BY <1>0, <1>1, <2>1, <5>2
        <4>7. ASSUME NEW t, Due(t), t # tx
              PROVE  Due(t)'
          <5>1. PICK i \in Disputed : t = Root(Own, i) /\ t.index = i
            BY <4>7 DEF Due, OwnRoots, Root
          <5>2. ChallengeState(Own, i, Tip)' = ChallengeState(Own, i, Tip)
            BY <1>2, <4>7, <5>1 DEF ChallengeState
          <5> QED
            BY <4>7, <5>1, <5>2 DEF Due
        <4>8. \A k \in DOMAIN todo' : (todo'[k] # sent' /\ Due(todo[k])') \/ (k = 1 /\ todo'[k] = sent')
          BY <1>0, <2>1, <4>5, <4>7 DEF ListIsDue
        <4>9. ASSUME NEW i \in Disputed, Unanswered(i)', Mined(Challenge(Own, i), view.block)'
              PROVE  \/ Block(Challenge(Own, i))' <= defended'
                     \/ \E k \in DOMAIN todo' : todo'[k] = Root(Own, i)
          <5>1. Mined(Challenge(Own, i), view.block) /\ Mined(Challenge(Own, i), Tip)
            BY <4>1, <4>2, <4>9 DEF Mined, Tip
          <5>2. Unanswered(i) /\ Block(Challenge(Own, i))' = Block(Challenge(Own, i))
            BY <1>1, <1>4, <4>9, <5>1
          <5> QED
            BY <1>0, <4>5, <5>1, <5>2 DEF ListIsDue
        <4>10. ListIsDue'
          BY <1>0, <4>6, <4>8, <4>9 DEF ListIsDue, Root, Challenge
        <4> QED
          BY <1>0, <4>3, <4>4, <4>10 DEF Healthy
      <3>3. Healthy => Healthy'
        BY <1>0, <3>2 DEF Healthy
      <3> QED
        BY <3>1, <3>3, DebtShrinks
    <2>2. CASE sent # tx
      <3>1. j \in Strays /\ Strays' = Strays \ {j}
        BY <1>0, <1>2, <2>2 DEF Strays, Root
      <3>2. Cardinality(Strays') = Cardinality(Strays) - 1
        BY <3>1, DebtType, FS_RemoveElement
      <3>3. Cardinality(Strays)' = Cardinality(Strays) - 1 /\ Cardinality(Strays) \in Nat
        BY <3>2, DebtType
      <3>4. /\ Debt = Cardinality(Strays) + (IF Healthy THEN 0 ELSE 1)
            /\ Debt' = Cardinality(Strays)' + (IF Healthy' THEN 0 ELSE 1)
        BY DEF Debt
      <3> HIDE DEF tx
      <3> QED
        BY <3>3, <3>4
    <2> QED
      BY <2>1, <2>2
  <1>6. RunsInv'
    <2>1. Budget' >= Budget
      BY <1>0, DebtType
    <2> QED
      BY <1>0, <1>2, <1>4, <1>5, <2>1, Costless
  <1> QED
    BY <1>3, <1>6


(* A reorganisation costs the run that it hits and one for each of the     *)
(* answers that it sends back.                                             *)
LEMMA ReorgCosts ==
  ASSUME TypeOK, TypeOK', ChainInv, OwnInv, RunsInv, NEW d \in 1..MaxDepth, Reorg(d)
  PROVE  OwnInv' /\ RunsInv'
  <1> DEFINE n == Len(chain) - d
             K == (n + 1)..Len(chain)
             dropped == {chain[k] : k \in K}
             gone == {<<t.prop, t.index>> : t \in {u \in dropped : u.kind = "challenge"}}
  <1>0. /\ chain \in Seq(Txs) /\ Len(chain) \in Nat /\ DOMAIN chain = 1..Len(chain)
        /\ d \in Nat /\ d <= MaxDepth /\ MaxDepth \in Nat /\ n \in Nat /\ 1 <= n
        /\ reorgs \in Nat /\ faults \in Nat
    <2>1. chain \in Seq(Txs) /\ reorgs \in 0..MaxReorgs /\ faults \in 0..MaxFaults
      BY DEF TypeOK
    <2>2. MaxDepth \in Nat /\ MaxReorgs \in Nat /\ MaxFaults \in Nat
      BY PdaoAssumption
    <2>3. d < Len(chain)
      BY DEF Reorg
    <2> QED
      BY <2>1, <2>2, <2>3
  <1>1. /\ chain' = SubSeq(chain, 1, n) /\ mempool' = mempool \cup dropped
        /\ age' = [i \in Disputed |-> IF <<Own, i>> \in gone THEN 0 ELSE age[i]]
        /\ reorgs' = reorgs + 1 /\ faults' = faults
        /\ view' = view /\ task' = task /\ sent' = sent
    BY DEF Reorg, daemonVars
  <1>2. /\ Len(chain') = n /\ DOMAIN chain' = 1..n
        /\ \A k \in 1..n : k \in DOMAIN chain /\ chain'[k] = chain[k]
    BY <1>0, <1>1
  <1> HIDE DEF n
  <1>3. /\ \A t : Mined(t, Tip) <=> \E k \in 1..Len(chain) : chain[k] = t
        /\ \A t : Mined(t, Tip)' <=> \E k \in 1..n : chain[k] = t
    BY <1>0, <1>2 DEF Mined, Tip
  <1>4. n <= Len(chain) /\ \A k : k \in 1..Len(chain) <=> k \in 1..n \/ k \in K
    BY <1>0 DEF n
  <1>5. /\ \A t : Mined(t, Tip) <=> Mined(t, Tip)' \/ t \in dropped
        /\ \A t \in dropped : ~Mined(t, Tip)'
    <2>1. \A a \in 1..n, b \in K : chain[a] # chain[b]
      BY <1>0, <1>4 DEF ChainInv
    <2> QED
      BY <1>3, <1>4, <2>1
  <1> HIDE DEF K
  <1>6. OwnInv'
    <2>1. ~Defeated(Own, Tip)'
      BY <1>5 DEF OwnInv, Defeated
    <2>2. \A i \in Indices : Defeat(Own, i) \notin mempool'
      BY <1>1, <1>5 DEF OwnInv, Defeated
    <2>3. \A j \in Disputed : Root(Own, j) \in mempool' => ~Mined(Root(Own, j), Tip)'
      BY <1>1, <1>5 DEF OwnInv
    <2> QED
      BY <1>1, <2>1, <2>2, <2>3 DEF OwnInv, Root, Defeat
  <1>7. \A i \in Disputed : Unanswered(i)' => Unanswered(i)
    <2>1. ASSUME NEW i \in Disputed, Unanswered(i)'
          PROVE  Unanswered(i)
      <3>1. ChallengeState(Own, i, Tip)' = "Challenged" /\ Root(Own, i) \notin mempool'
        BY <2>1 DEF Unanswered, Root
      <3>2. ~Mined(Root(Own, i), Tip)' /\ Mined(Challenge(Own, i), Tip)'
        BY <3>1 DEF ChallengeState
      <3>3. ~Mined(Root(Own, i), Tip) /\ Mined(Challenge(Own, i), Tip) /\ Root(Own, i) \notin mempool
        BY <1>1, <1>5, <3>1, <3>2
      <3> QED
        BY <3>3 DEF Unanswered, ChallengeState
    <2> QED
      BY <2>1
  <1>8. \A i \in Disputed : /\ age'[i] \in Nat /\ age'[i] <= age[i] /\ age[i] \in Nat
                            /\ ~Mined(Challenge(Own, i), Tip)' => age'[i] = 0
    <2>1. ASSUME NEW i \in Disputed, Challenge(Own, i) \in dropped
          PROVE  <<Own, i>> \in gone
      <3>1. Challenge(Own, i).kind = "challenge" /\ Challenge(Own, i).prop = Own
            /\ Challenge(Own, i).index = i
        BY DEF Challenge
      <3> QED
        BY <2>1, <3>1
    <2>2. \A i \in Disputed : age[i] \in Nat
      BY PdaoAssumption DEF TypeOK
    <2> HIDE DEF gone, dropped
    <2> QED
      BY <1>1, <1>5, <2>1, <2>2 DEF RunsInv
  <1>9. Cardinality(Strays') <= Cardinality(Strays) + d
    <2> DEFINE extra == {j \in Disputed : Root(Own, j) \in dropped}
               f == [j \in extra |-> CHOOSE k \in K : chain[k] = Root(Own, j)]
    <2>1. \A j \in extra : f[j] \in K /\ chain[f[j]] = Root(Own, j)
      OBVIOUS
    <2>2. f \in [extra -> K] /\ \A i, j \in extra : f[i] = f[j] => i = j
      <3> HIDE DEF extra
      <3>1. f \in [extra -> K]
        BY <2>1
      <3> HIDE DEF f
      <3> QED
        BY <2>1, <3>1, RootsDiffer
    <2>3. Strays' \subseteq Strays \cup extra
      BY <1>1 DEF Strays, Root
    <2> HIDE DEF extra, f
    <2>4. f \in Injection(extra, K)
      BY <2>2 DEF Injection, IsInjective
    <2>5. IsFiniteSet(K) /\ Cardinality(K) = d
      BY <1>0, FS_Interval DEF K, n
    <2>6. IsFiniteSet(extra) /\ Cardinality(extra) <= d
      BY <2>4, <2>5, FS_Injection
    <2>7. IsFiniteSet(Strays \cup extra)
          /\ Cardinality(Strays \cup extra)
                = Cardinality(Strays) + Cardinality(extra) - Cardinality(Strays \cap extra)
      BY <2>6, DebtType, FS_Union
    <2>8. Cardinality(Strays \cap extra) \in Nat /\ Cardinality(extra) \in Nat
      BY <2>6, FS_Subset, FS_CardinalityType
    <2>9. Cardinality(Strays') <= Cardinality(Strays \cup extra) /\ Cardinality(Strays') \in Nat
      BY <2>3, <2>7, FS_Subset, FS_CardinalityType
    <2> QED
      BY <1>0, <2>6, <2>7, <2>8, <2>9, DebtType
  <1>10. Debt' <= Debt + d + 1
    <2>1. Cardinality(Strays)' <= Cardinality(Strays) + d
      BY <1>9
    <2>2. /\ Debt = Cardinality(Strays) + (IF Healthy THEN 0 ELSE 1)
          /\ Debt' = Cardinality(Strays)' + (IF Healthy' THEN 0 ELSE 1)
      BY DEF Debt
    <2>3. Cardinality(Strays)' \in Nat
      <3>1. Strays' \in SUBSET Disputed
        BY DEF Strays
      <3> QED
        BY <3>1, PdaoAssumption, FS_Subset, FS_CardinalityType
    <2> QED
      BY <1>0, <2>1, <2>2, <2>3, DebtType
  <1>11. Budget' = Budget + MaxDepth + 1
    <2>1. \A m, r \in Nat : (1 + m) * (r + 1) = (1 + m) * r + m + 1
      OBVIOUS
    <2>2. /\ Budget = 2 * faults + (1 + MaxDepth) * reorgs
          /\ Budget' = 2 * faults + (1 + MaxDepth) * (reorgs + 1)
      BY <1>1 DEF Budget
    <2>3. (1 + MaxDepth) * reorgs \in Nat
      BY <1>0
    <2> QED
      BY <1>0, <2>1, <2>2, <2>3
  <1>12. RunsInv'
    <2>1. Debt \in Nat /\ Budget \in Nat /\ Debt' \in Nat /\ Budget' \in Nat
      BY DebtType, DebtTypeAfter
    <2>2. Debt' <= Budget'
      BY <1>0, <1>10, <1>11, <2>1 DEF RunsInv
    <2>3. ASSUME NEW i \in Disputed, Unanswered(i)'
          PROVE  age'[i] + Debt' <= Budget'
      <3>1. age[i] + Debt <= Budget
        BY <1>7, <2>3 DEF RunsInv
      <3> QED
        BY <1>0, <1>8, <1>10, <1>11, <2>1, <3>1
    <2> QED
      BY <1>8, <2>2, <2>3 DEF RunsInv
  <1> QED
    BY <1>6, <1>12

-----------------------------------------------------------------------------
(***************************************************************************)
(* The runs.                                                               *)
(***************************************************************************)
\* What the ends of all runs have in common.
RunEnds ==
    /\ task' # "defend" /\ sent' = None
    /\ age' = IF task = "defend" THEN Aged ELSE age
    /\ UNCHANGED <<chain, mempool, reorgs, view>>

LEMMA RunEndsFacts ==
  ASSUME TypeOK, RunEnds
  PROVE  /\ \A t : Mined(t, Tip)' <=> Mined(t, Tip)
         /\ \A i \in Disputed : Unanswered(i)' <=> Unanswered(i)
         /\ Healthy'
         /\ \A i \in Disputed :
               /\ age[i] \in Nat /\ age'[i] \in {age[i], age[i] + 1}
               /\ ~Mined(Challenge(Own, i), Tip)' => age'[i] = age[i]
               /\ age'[i] # age[i] =>
                      /\ task = "defend" /\ ~Overlooked(i)
                      /\ Mined(Challenge(Own, i), view.block)
  <1>1. \A t : Mined(t, Tip)' <=> Mined(t, Tip)
    BY DEF RunEnds, Mined, Tip
  <1>2. \A i \in Disputed : Unanswered(i)' <=> Unanswered(i)
    BY <1>1 DEF RunEnds, Unanswered, ChallengeState, Root
  <1>3. Healthy'
    BY DEF RunEnds, Healthy
  <1>4. ASSUME NEW i \in Disputed
        PROVE  /\ age[i] \in Nat /\ age'[i] \in {age[i], age[i] + 1}
               /\ ~Mined(Challenge(Own, i), Tip) => age'[i] = age[i]
               /\ age'[i] # age[i] =>
                      /\ task = "defend" /\ ~Overlooked(i)
                      /\ Mined(Challenge(Own, i), view.block)
    <2>1. age[i] \in Nat
      BY PdaoAssumption DEF TypeOK
    <2>2. age'[i] = age[i] \/ (task = "defend" /\ age'[i] = Aged[i])
      BY DEF RunEnds
    <2>3. Aged[i] = age[i] \/ /\ Aged[i] = age[i] + 1
                              /\ ChallengeState(Own, i, Tip) = "Challenged" /\ ~Overlooked(i)
                              /\ Mined(Challenge(Own, i), view.block)
      BY DEF Aged
    <2>4. ChallengeState(Own, i, Tip) = "Challenged" => Mined(Challenge(Own, i), Tip)
      BY DEF ChallengeState
    <2> QED
      BY <2>1, <2>2, <2>3, <2>4
  <1> QED
    BY <1>1, <1>2, <1>3, <1>4

LEMMA RunEndsOwn ==
  ASSUME TypeOK, OwnInv, RunEnds
  PROVE  OwnInv'
  <1>1. \A t : Mined(t, Tip)' <=> Mined(t, Tip)
    BY RunEndsFacts
  <1> QED
    BY <1>1 DEF OwnInv, RunEnds, Defeated, Root, Defeat

(* The transaction that a run of the defender leaves behind, if any, is    *)
(* one that may disturb a later run.                                       *)
LEMMA RunEndsStrays ==
  ASSUME TypeOK, SentInv, ListInv, RunEnds
  PROVE  /\ Cardinality(Strays)' \in Nat
         /\ Cardinality(Strays)' <= Cardinality(Strays) + 1
         /\ task # "defend" \/ sent \notin mempool =>
                Cardinality(Strays)' = Cardinality(Strays)
  <1>0. sent' = None /\ mempool' = mempool
    BY DEF RunEnds
  <1>1. \A j \in Disputed : Root(Own, j) # None
    BY DEF Root, None
  <1>2. sent # None => task # "idle" /\ ~scanning /\ 1 \in DOMAIN todo /\ sent = todo[1]
    BY DEF SentInv, TypeOK
  <1>3. task # "defend" \/ sent \notin mempool => Strays' = Strays
    <2>1. CASE task # "defend" /\ sent # None
      <3>1. sent.prop \in Others
        BY <1>2, <2>1 DEF ListInv, TypeOK
      <3>2. \A j \in Disputed : Root(Own, j) # sent
        BY <3>1, PdaoAssumption DEF Root
      <3> QED
        BY <1>0, <1>1, <3>2 DEF Strays, Root
    <2>2. CASE sent = None \/ sent \notin mempool
      BY <1>0, <1>1, <2>2 DEF Strays, Root
    <2> QED
      BY <2>1, <2>2
  <1>4. ASSUME task = "defend", sent # None
        PROVE  \E j \in Disputed : Strays' \subseteq Strays \cup {j}
    <2>1. PICK j \in Disputed : sent = Root(Own, j)
      BY <1>2, <1>4 DEF ListInv, OwnRoots
    <2>2. \A i \in Disputed : i # j => Root(Own, i) # sent
      BY <2>1, RootsDiffer
    <2> QED
      BY <1>0, <2>2 DEF Strays, Root
  <1>5. Cardinality(Strays') \in Nat /\ Cardinality(Strays') <= Cardinality(Strays) + 1
    <2>1. CASE Strays' = Strays
      BY <2>1, DebtType
    <2>2. CASE \E j \in Disputed : Strays' \subseteq Strays \cup {j}
      <3>1. PICK j \in Disputed : Strays' \subseteq Strays \cup {j}
        BY <2>2
      <3>2. /\ IsFiniteSet(Strays \cup {j})
            /\ Cardinality(Strays \cup {j}) <= Cardinality(Strays) + 1
            /\ Cardinality(Strays \cup {j}) \in Nat
        <4>1. IsFiniteSet(Strays) /\ Cardinality(Strays) \in Nat
          BY DebtType
        <4>2. /\ IsFiniteSet(Strays \cup {j})
              /\ Cardinality(Strays \cup {j}) =
                    IF j \in Strays THEN Cardinality(Strays) ELSE Cardinality(Strays) + 1
          BY <4>1, FS_AddElement
        <4> QED
          BY <4>1, <4>2
      <3>3. /\ Cardinality(Strays') <= Cardinality(Strays \cup {j})
            /\ Cardinality(Strays') \in Nat
        BY <3>1, <3>2, FS_Subset, FS_CardinalityType
      <3> QED
        BY <3>2, <3>3, DebtType
    <2>3. sent = None => Strays' = Strays
      BY <1>0, <1>1 DEF Strays, Root
    <2> QED
      BY <1>3, <1>4, <2>1, <2>2, <2>3
  <1> QED
    BY <1>3, <1>5

(* A run that ends in a fault, or in an error for what has happened, is    *)
(* paid for; and one that does not has answered what it saw.               *)
LEMMA RunEndsCosts ==
  ASSUME TypeOK, TypeOK', SentInv, ListInv, OwnInv, RunsInv, RunEnds,
         \/ faults' = faults + 1
         \/ /\ faults' = faults
            /\ task = "defend" => sent \notin mempool
            /\ task = "defend" /\ Healthy =>
                   \A i \in Disputed :
                       Unanswered(i) /\ Mined(Challenge(Own, i), view.block) => Overlooked(i)
  PROVE  OwnInv' /\ RunsInv'
  <1>0. /\ \A t : Mined(t, Tip)' <=> Mined(t, Tip)
        /\ \A i \in Disputed : Unanswered(i)' <=> Unanswered(i)
        /\ Healthy'
        /\ \A i \in Disputed :
               /\ age[i] \in Nat /\ age'[i] \in {age[i], age[i] + 1}
               /\ ~Mined(Challenge(Own, i), Tip)' => age'[i] = age[i]
               /\ age'[i] # age[i] =>
                      /\ task = "defend" /\ ~Overlooked(i)
                      /\ Mined(Challenge(Own, i), view.block)
    BY RunEndsFacts
  <1>1. /\ Cardinality(Strays)' \in Nat /\ Cardinality(Strays) \in Nat
        /\ Cardinality(Strays)' <= Cardinality(Strays) + 1
        /\ task # "defend" \/ sent \notin mempool =>
               Cardinality(Strays)' = Cardinality(Strays)
    BY RunEndsStrays, DebtType
  <1>2. /\ Debt = Cardinality(Strays) + (IF Healthy THEN 0 ELSE 1)
        /\ Debt' = Cardinality(Strays)' + (IF Healthy' THEN 0 ELSE 1)
    BY DEF Debt
  <1>3. Debt' = Cardinality(Strays)'
    BY <1>0, <1>1, <1>2
  <1>4. Debt \in Nat /\ Budget \in Nat /\ Debt' \in Nat /\ Budget' \in Nat
    BY DebtType, DebtTypeAfter
  <1>5. \A i \in Disputed : ~Mined(Challenge(Own, i), Tip)' => age'[i] = 0
    BY <1>0 DEF RunsInv
  <1>6. CASE faults' = faults + 1
    <2>1. Budget' = Budget + 2
      <3>1. /\ Budget = 2 * faults + (1 + MaxDepth) * reorgs
            /\ Budget' = 2 * (faults + 1) + (1 + MaxDepth) * reorgs
        BY <1>6 DEF Budget, RunEnds
      <3>2. faults \in Nat /\ (1 + MaxDepth) * reorgs \in Nat
        BY PdaoAssumption DEF TypeOK
      <3> QED
        BY <3>1, <3>2
    <2>2. Debt' <= Debt + 1
      BY <1>1, <1>2, <1>3
    <2>3. \A i \in Disputed : Unanswered(i)' => age'[i] + Debt' <= Budget'
      BY <1>0, <1>4, <2>1, <2>2 DEF RunsInv
    <2>4. Debt' <= Budget'
      BY <1>4, <2>1, <2>2 DEF RunsInv
    <2> QED
      BY <1>5, <2>3, <2>4, RunEndsOwn DEF RunsInv
  <1>7. CASE /\ faults' = faults
             /\ task = "defend" => sent \notin mempool
             /\ task = "defend" /\ Healthy =>
                   \A i \in Disputed :
                       Unanswered(i) /\ Mined(Challenge(Own, i), view.block) => Overlooked(i)
    <2>1. Budget' = Budget
      BY <1>7 DEF Budget, RunEnds
    <2>2. Debt' = Cardinality(Strays)
      BY <1>1, <1>3, <1>7
    <2>3. Debt' <= Debt /\ (~Healthy => Debt' + 1 = Debt)
      BY <1>1, <1>2, <2>2
    <2>4. ASSUME NEW i \in Disputed, Unanswered(i)'
          PROVE  age'[i] + Debt' <= Budget'
      <3>1. age[i] + Debt <= Budget
        BY <1>0, <2>4 DEF RunsInv
      <3>2. CASE age'[i] = age[i]
        BY <1>0, <1>4, <2>1, <2>3, <3>1, <3>2
      <3>3. CASE age'[i] # age[i]
        <4>1. ~Healthy
          BY <1>0, <1>7, <2>4, <3>3
        <4>2. Debt' + 1 = Debt
          BY <2>3, <4>1
        <4>3. age'[i] = age[i] + 1 /\ age[i] \in Nat
          BY <1>0, <3>3
        <4>4. age[i] + (Debt' + 1) <= Budget
          BY <3>1, <4>2
        <4>5. \A a, b, c \in Nat : a + (b + 1) <= c => (a + 1) + b <= c
          OBVIOUS
        <4>6. (age[i] + 1) + Debt' <= Budget
          BY <1>4, <4>3, <4>4, <4>5
        <4> QED
          BY <2>1, <4>3, <4>6
      <3> QED
        BY <3>2, <3>3
    <2>5. Debt' <= Budget'
      BY <1>4, <2>1, <2>3 DEF RunsInv
    <2> QED
      BY <1>5, <2>4, <2>5, RunEndsOwn DEF RunsInv
  <1> QED
    BY <1>6, <1>7


LEMMA TailFacts ==
  ASSUME NEW S, NEW s \in Seq(S), s # <<>>
  PROVE  /\ \A k \in DOMAIN Tail(s) : k + 1 \in DOMAIN s /\ k + 1 # 1 /\ Tail(s)[k] = s[k + 1]
         /\ \A k \in DOMAIN s : k # 1 => k - 1 \in DOMAIN Tail(s) /\ Tail(s)[k - 1] = s[k]
         /\ \A j, k \in DOMAIN Tail(s) : j + 1 = k + 1 => j = k
  <1>1. /\ Len(s) \in Nat /\ DOMAIN s = 1..Len(s)
        /\ Tail(s) \in Seq(S) /\ Len(Tail(s)) = Len(s) - 1 /\ DOMAIN Tail(s) = 1..(Len(s) - 1)
    OBVIOUS
  <1>2. \A k \in DOMAIN Tail(s) : k + 1 \in DOMAIN s /\ k + 1 # 1 /\ Tail(s)[k] = s[k + 1]
    BY <1>1
  <1>3. \A k \in DOMAIN s : k # 1 => k - 1 \in DOMAIN Tail(s) /\ Tail(s)[k - 1] = s[k]
    <2>1. ASSUME NEW k \in DOMAIN s, k # 1
          PROVE  k - 1 \in DOMAIN Tail(s) /\ Tail(s)[k - 1] = s[k]
      <3>1. k \in Nat /\ k - 1 \in DOMAIN Tail(s)
        BY <1>1, <2>1
      <3>2. Tail(s)[k - 1] = s[k - 1 + 1]
        BY <1>2, <3>1
      <3> QED
        BY <3>1, <3>2
    <2> QED
      BY <2>1
  <1>4. \A j, k \in DOMAIN Tail(s) : j + 1 = k + 1 => j = k
    BY <1>1
  <1> QED
    BY <1>2, <1>3, <1>4

(* What the lists of new runs are made of.                                 *)
LEMMA NewLists ==
  ASSUME TypeOK, ChainInv
  PROVE  /\ Defendable \subseteq OwnRoots
         /\ \A tx \in Challenges \cup Defeats : tx.prop \in Others
         /\ \A list \in ChallengesAndDefeats : \A k \in DOMAIN list : list[k].prop \in Others
  <1>1. Defendable \subseteq OwnRoots
    BY DEF Defendable, OwnRoots
  <1>2. \A tx \in Challenges \cup Defeats : tx.prop \in Others
    BY DEF Challenges, Defeats, Mismatching, Challenge, Defeat, TypeOK
  <1>3. ASSUME NEW list \in ChallengesAndDefeats, NEW k \in DOMAIN list
        PROVE  list[k].prop \in Others
    <2>1. PICK l \in SetToSeqs(Challenges), m \in SetToSeqs(Defeats) : list = l \o m
      BY DEF ChallengesAndDefeats, InOrder
    <2>2. l \in Seq(Challenges) /\ m \in Seq(Defeats)
      BY DuesAreFinite, ListsOfSet
    <2>3. l \in Seq(Challenges \cup Defeats) /\ m \in Seq(Challenges \cup Defeats)
      BY <2>2
    <2>4. list \in Seq(Challenges \cup Defeats)
      BY <2>1, <2>3
    <2> QED
      BY <1>2, <2>4
  <1> QED
    BY <1>1, <1>2, <1>3

LEMMA ListStep == TypeOK /\ ChainInv /\ SentInv /\ ListInv /\ [Next]_vars => ListInv'
  <1> SUFFICES ASSUME TypeOK, ChainInv, SentInv, ListInv, [Next]_vars PROVE ListInv'
    OBVIOUS
  <1>1. CASE UNCHANGED <<task, todo, scanning>>
    BY <1>1 DEF ListInv
  <1>2. CASE todo' = <<>>
    BY <1>2 DEF ListInv
  <1>3. CASE UpdateNetworkState
    BY <1>2, <1>3 DEF UpdateNetworkState, ListInv
  <1>4. CASE ScanChallenges /\ ~EndRun
    <2>1. /\ todo' \in SetToSeqs(Defendable) /\ task = "defend"
          /\ task' = task /\ scanning' = FALSE
      BY <1>4 DEF ScanChallenges, InOrder
    <2>2. /\ \A j, k \in DOMAIN todo' : todo'[j] = todo'[k] => j = k
          /\ \A k \in DOMAIN todo' : todo'[k] \in Defendable
      BY <2>1, DefendableIsFinite, TxLists
    <2> QED
      BY <2>1, <2>2, NewLists DEF ListInv, OwnRoots, Root
  <1>5. CASE ScanRoots /\ ~EndRun
    <2>1. /\ todo' \in ChallengesAndDefeats /\ task = "verify"
          /\ task' = task /\ scanning' = FALSE
      BY <1>5 DEF ScanRoots
    <2> QED
      BY <2>1, NewLists DEF ListInv
  <1>6. CASE Included \/ GasTooHigh
    <2>1. /\ todo' = Tail(todo) /\ todo # <<>> /\ todo \in Seq(Txs) /\ task # "idle"
          /\ ~scanning /\ UNCHANGED <<task, scanning>>
      BY <1>6 DEF Included, GasTooHigh, SentInv, TypeOK
    <2>2. /\ \A k \in DOMAIN todo' : k + 1 \in DOMAIN todo /\ todo'[k] = todo[k + 1]
          /\ \A j, k \in DOMAIN todo' : j + 1 = k + 1 => j = k
      BY <2>1, TailFacts
    <2> QED
      BY <2>1, <2>2 DEF ListInv, OwnRoots, Root
  <1>7. CASE EndRun \/ Restart
    BY <1>2, <1>7 DEF EndRun, Restart
  <1>8. CASE Submit /\ ~EndRun
    BY <1>1, <1>8 DEF Submit
  <1>9. CASE \E tx \in Txs : Mine(tx) \/ OthersSend(tx)
    BY <1>1, <1>9 DEF Mine, OthersSend, daemonVars
  <1>10. ASSUME NEW p \in Others, WindowOver(p) PROVE ListInv'
    BY <1>1, <1>10 DEF WindowOver, daemonVars
  <1>11. ASSUME NEW p \in Props, NEW i \in Indices, Expire(p, i) PROVE ListInv'
    BY <1>1, <1>11 DEF Expire, daemonVars
  <1>12. ASSUME NEW d \in 1..MaxDepth, Reorg(d) PROVE ListInv'
    BY <1>1, <1>12 DEF Reorg, daemonVars
  <1>13. CASE UNCHANGED vars
    BY <1>1, <1>13 DEF vars, daemonVars
  <1> QED
    BY <1>3, <1>4, <1>5, <1>6, <1>7, <1>8, <1>9, <1>10, <1>11, <1>12, <1>13
       DEF Next, Daemon, ScanFails, Reverted, Done, RequestFails


(* Steps of a run: the chain stays, and nothing that is sent is lost.      *)
LEMMA SameChain ==
  ASSUME chain' = chain
  PROVE  /\ \A t : Mined(t, Tip)' <=> Mined(t, Tip)
         /\ view' = view => \A t : Mined(t, view.block)' <=> Mined(t, view.block)
         /\ view' = view => (ViewReadable' <=> ViewReadable)
         /\ \A t : Due(t)' <=> Due(t)
         /\ \A t : Block(t)' = Block(t)
         /\ Tip' = Tip
         /\ Defeated(Own, Tip)' <=> Defeated(Own, Tip)
         /\ \A i \in Disputed : mempool \subseteq mempool' /\ Unanswered(i)' => Unanswered(i)
  <1>1. /\ \A t : Mined(t, Tip)' <=> Mined(t, Tip)
        /\ view' = view => \A t : Mined(t, view.block)' <=> Mined(t, view.block)
        /\ Tip' = Tip
    BY DEF Mined, Tip
  <1>2. view' = view => (ViewReadable' <=> ViewReadable)
    BY <1>1 DEF ViewReadable, Root
  <1>3. \A t : Due(t)' <=> Due(t)
    BY <1>1 DEF Due, OwnRoots, ChallengeState, Root, Challenge
  <1>4. \A t : Block(t)' = Block(t)
    BY DEF Block
  <1>5. Defeated(Own, Tip)' <=> Defeated(Own, Tip)
    BY <1>1 DEF Defeated, Defeat
  <1>6. \A i \in Disputed : mempool \subseteq mempool' /\ Unanswered(i)' => Unanswered(i)
    BY <1>1 DEF Unanswered, ChallengeState, Root, Challenge
  <1> QED
    BY <1>1, <1>2, <1>3, <1>4, <1>5, <1>6

LEMMA RunGoesOn ==
  ASSUME TypeOK, TypeOK', RunsInv, chain' = chain, age' = age, reorgs' = reorgs,
         faults' \in {faults, faults + 1}, mempool \subseteq mempool',
         Strays' \subseteq Strays, Healthy => Healthy'
  PROVE  RunsInv'
  <1>1. Debt' <= Debt
    BY DebtShrinks
  <1>2. Budget' >= Budget
    <2>1. /\ Budget = 2 * faults + (1 + MaxDepth) * reorgs
          /\ Budget' = 2 * faults' + (1 + MaxDepth) * reorgs
      BY DEF Budget
    <2>2. faults \in Nat /\ (1 + MaxDepth) * reorgs \in Nat
      BY PdaoAssumption DEF TypeOK
    <2> QED
      BY <2>1, <2>2
  <1>3. \A i \in Disputed : Mined(Challenge(Own, i), Tip) => Mined(Challenge(Own, i), Tip)'
    BY SameChain
  <1>4. \A i \in Disputed : Unanswered(i)' => Unanswered(i)
    BY SameChain
  <1> QED
    BY <1>1, <1>2, <1>3, <1>4, Costless

LEMMA UpdateCosts ==
  ASSUME TypeOK, TypeOK', ChainInv, OwnInv, RunsInv, UpdateNetworkState
  PROVE  OwnInv' /\ RunsInv'
  <1>1. /\ view' = [block |-> Tip, pending |-> {p \in Props : Pending(p, Tip)},
                    over |-> {p \in Props : Defeated(p, Tip)}]
        /\ task' = "defend" /\ scanning' = TRUE
        /\ UNCHANGED <<chain, mempool, sent, age, reorgs, faults>>
    BY DEF UpdateNetworkState, chainVars
  <1>2. view'.block = Tip' /\ Tip' = Tip /\ Tip \in Nat
    BY <1>1, BlockTypes DEF Tip
  <1>3. OwnInv'
    <2>1. Own \in view'.pending
      BY <1>1, OwnIsPending DEF Props
    <2> QED
      BY <1>1, <2>1, SameChain DEF OwnInv, Root, Defeat
  <1>4. Healthy'
    <2>1. \A t : Mined(t, view.block)' <=> Mined(t, Tip)'
      BY <1>2 DEF Mined
    <2>2. \A p \in view'.pending : Mined(Root(p, 1), Tip)'
      BY <1>1, SameChain DEF Pending
    <2>3. ViewReadable'
      BY <1>2, <2>1, <2>2 DEF ViewReadable, Root
    <2> QED
      BY <1>1, <2>1, <2>3 DEF Healthy, Root
  <1>5. Strays' = Strays
    BY <1>1 DEF Strays, Root
  <1> QED
    BY <1>1, <1>3, <1>4, <1>5, RunGoesOn

(* A scan finds the open challenges of the blocks since the last one.      *)
LEMMA SeenIsDefendable ==
  ASSUME TypeOK, ChainInv, NEW i \in Disputed, Unanswered(i), Mined(Challenge(Own, i), view.block)
  PROVE  Root(Own, i) \in Defendable \/ Block(Challenge(Own, i)) <= defended
  <1>1. ~Mined(Root(Own, i), Tip)
    BY DEF Unanswered, ChallengeState
  <1>2. ~Mined(Root(Own, i), view.block)
    BY <1>1, BlockTypes DEF Mined
  <1>3. ChallengeState(Own, i, view.block) = "Challenged"
    BY <1>2 DEF ChallengeState
  <1>4. Block(Challenge(Own, i)) \in Nat \ {0} /\ Block(Root(Own, 1)) = 1
    BY BlockTypes, BlockOfMined DEF Block, ChainInv
  <1>5. CASE Block(Challenge(Own, i)) >= StartBlock(defended, Own)
    BY <1>3, <1>5 DEF Defendable
  <1>6. CASE ~(Block(Challenge(Own, i)) >= StartBlock(defended, Own))
    BY <1>4, <1>6, BlockTypes DEF StartBlock
  <1> QED
    BY <1>5, <1>6

(* The scan of a run that is not disturbed finds what is due.              *)
LEMMA ScanCosts ==
  ASSUME TypeOK, TypeOK', ChainInv, SentInv, OwnInv, RunsInv, ScanChallenges, ~EndRun
  PROVE  OwnInv' /\ RunsInv'
  <1>1. /\ task = "defend" /\ scanning /\ sent = None /\ ViewReadable
        /\ todo' \in SetToSeqs(Defendable) /\ scanning' = FALSE
        /\ UNCHANGED <<chain, mempool, view, task, sent, age, reorgs, faults, defended>>
    BY DEF ScanChallenges, InOrder, NotScanned, SentInv, chainVars
  <1>2. /\ \A tx \in Defendable : \E k \in DOMAIN todo' : todo'[k] = tx
        /\ \A k \in DOMAIN todo' : todo'[k] \in Defendable
    BY <1>1, DefendableIsFinite, TxLists
  <1>3. OwnInv'
    BY <1>1, SameChain DEF OwnInv, Root, Defeat
  <1>4. Strays' = Strays
    BY <1>1 DEF Strays, Root
  <1>5. ASSUME Healthy
        PROVE  Healthy'
    <2>0. \A j \in Disputed : Mined(Root(Own, j), Tip) <=> Mined(Root(Own, j), view.block)
      BY <1>1, <1>5, BlockTypes DEF Healthy, Mined
    <2>1. \A tx \in Defendable : Due(tx) /\ tx # None
      <3>1. ASSUME NEW j \in Disputed, ChallengeState(Own, j, view.block) = "Challenged"
            PROVE  Due(Root(Own, j)) /\ Root(Own, j) # None
        <4>1. ~Mined(Root(Own, j), view.block) /\ Mined(Challenge(Own, j), view.block)
          BY <3>1 DEF ChallengeState
        <4>2. ~Mined(Root(Own, j), Tip) /\ Mined(Challenge(Own, j), Tip)
          BY <2>0, <4>1, BlockTypes DEF Mined
        <4>3. ChallengeState(Own, j, Tip) = "Challenged"
          BY <4>2 DEF ChallengeState
        <4>4. Root(Own, j).index = j /\ Root(Own, j) # None
          BY DEF Root, None
        <4> QED
          BY <4>3, <4>4 DEF Due, OwnRoots
      <3> QED
        BY <3>1 DEF Defendable
    <2>2. ASSUME NEW i \in Disputed, Unanswered(i), Mined(Challenge(Own, i), view.block)
          PROVE  \/ Block(Challenge(Own, i)) <= defended
                 \/ \E k \in DOMAIN todo' : todo'[k] = Root(Own, i)
      BY <1>2, <2>2, SeenIsDefendable
    <2>3. ListIsDue'
      <3>1. \A k \in DOMAIN todo' : todo'[k] # sent' /\ Due(todo'[k])
        BY <1>1, <1>2, <2>1
      <3>2. \A k \in DOMAIN todo' : todo'[k] # sent' /\ Due(todo[k])'
        BY <1>1, <3>1 DEF Due, OwnRoots, ChallengeState, Mined, Tip, Root, Challenge
      <3>3. ASSUME NEW i \in Disputed, Unanswered(i)', Mined(Challenge(Own, i), view.block)'
            PROVE  \/ Block(Challenge(Own, i))' <= defended'
                   \/ \E k \in DOMAIN todo' : todo'[k] = Root(Own, i)
        <4>1. /\ Unanswered(i) /\ Mined(Challenge(Own, i), view.block)
              /\ Block(Challenge(Own, i))' = Block(Challenge(Own, i))
          BY <1>1, <3>3, SameChain
        <4> QED
          BY <1>1, <2>2, <4>1
      <3> QED
        BY <1>1, <3>2, <3>3 DEF ListIsDue, Root, Challenge
    <2>4. ViewReadable'
      BY <1>1, SameChain
    <2> QED
      BY <1>1, <2>3, <2>4 DEF Healthy
  <1> QED
    BY <1>1, <1>3, <1>4, <1>5, RunGoesOn


\* A step of the verifier costs the defender nothing.
LEMMA VerifierCosts ==
  ASSUME TypeOK, TypeOK', SentInv, ListInv, OwnInv, RunsInv,
         task = "verify", task' = task, chain' = chain, age' = age, reorgs' = reorgs,
         faults' \in {faults, faults + 1},
         \/ mempool' = mempool
         \/ \E tx \in Txs : tx.prop \in Others /\ mempool' = mempool \cup {tx}
  PROVE  OwnInv' /\ RunsInv'
  <1>1. \A i : /\ Root(Own, i) \in mempool' <=> Root(Own, i) \in mempool
               /\ Defeat(Own, i) \in mempool' <=> Defeat(Own, i) \in mempool
    BY PdaoAssumption DEF Root, Defeat
  <1>2. OwnInv'
    BY <1>1, SameChain DEF OwnInv, Root, Defeat
  <1>3. \A j \in Disputed : Root(Own, j) # sent
    <2>1. sent # None => sent.prop \in Others
      BY DEF SentInv, ListInv, TypeOK
    <2> QED
      BY <2>1, PdaoAssumption DEF Root, None
  <1>4. Strays' \subseteq Strays
    BY <1>1, <1>3 DEF Strays, Root
  <1>5. Healthy'
    BY DEF Healthy
  <1> QED
    BY <1>2, <1>4, <1>5, RunGoesOn

(* An answer that is due is sent.                                          *)
LEMMA SubmitCosts ==
  ASSUME TypeOK, TypeOK', ChainInv, SentInv, ListInv, OwnInv, RunsInv,
         task = "defend", Submit, Valid(Head(todo))
  PROVE  OwnInv' /\ RunsInv'
  <1>1. /\ ~scanning /\ sent = None /\ todo # <<>>
        /\ mempool' = mempool \cup {Head(todo)} /\ sent' = Head(todo)
        /\ UNCHANGED <<chain, view, task, todo, scanning, age, reorgs, faults, defended>>
    BY DEF Submit, NotScanned
  <1>2. /\ 1 \in DOMAIN todo /\ Head(todo) = todo[1] /\ todo[1] \in OwnRoots
        /\ todo[1] \in Txs /\ \A k \in DOMAIN todo : todo[k] # None /\ (todo[k] = todo[1] => k = 1)
    BY <1>1, NoneIsNoTx DEF ListInv, TypeOK
  <1>3. Due(Head(todo)) /\ ~Mined(Head(todo), Tip)
    BY <1>2, OwnValid
  <1>4. OwnInv'
    <2>1. \A i \in Indices : Defeat(Own, i) # Head(todo)
      BY <1>2, RootsDiffer DEF OwnRoots
    <2> QED
      BY <1>1, <1>3, <2>1, SameChain DEF OwnInv, Root, Defeat
  <1>5. Strays' \subseteq Strays
    <2>1. \A j \in Disputed : Root(Own, j) # None
      BY DEF Root, None
    <2> QED
      BY <1>1, <2>1 DEF Strays, Root
  <1>6. ASSUME Healthy
        PROVE  Healthy'
    <2>1. ListIsDue
      BY <1>1, <1>6 DEF Healthy
    <2>2. \A k \in DOMAIN todo' : (todo'[k] # sent' /\ Due(todo[k])') \/ (k = 1 /\ todo'[k] = sent')
      <3>1. \A k \in DOMAIN todo : Due(todo[k])
        BY <1>1, <1>2, <2>1 DEF ListIsDue
      <3>2. \A k \in DOMAIN todo : Due(todo[k])'
        BY <1>1, <3>1 DEF Due, OwnRoots, ChallengeState, Mined, Tip, Root, Challenge
      <3> QED
        BY <1>1, <1>2, <3>2
    <2>3. sent' \in mempool' /\ Due(sent)'
      BY <1>1, <1>3 DEF Due, OwnRoots, ChallengeState, Mined, Tip, Root, Challenge
    <2>4. ASSUME NEW i \in Disputed, Unanswered(i)', Mined(Challenge(Own, i), view.block)'
          PROVE  \/ Block(Challenge(Own, i))' <= defended'
                 \/ \E k \in DOMAIN todo' : todo'[k] = Root(Own, i)
      <3>1. /\ Unanswered(i) /\ Mined(Challenge(Own, i), view.block)
            /\ Block(Challenge(Own, i))' = Block(Challenge(Own, i))
        BY <1>1, <2>4, SameChain
      <3> QED
        BY <1>1, <2>1, <3>1 DEF ListIsDue
    <2>5. ListIsDue'
      BY <1>1, <2>2, <2>3, <2>4 DEF ListIsDue, Root, Challenge
    <2>6. ViewReadable'
      BY <1>1, <1>6, SameChain DEF Healthy
    <2> QED
      BY <1>1, <2>5, <2>6 DEF Healthy
  <1> QED
    BY <1>1, <1>4, <1>5, <1>6, RunGoesOn

(* An answer is in the chain, and the next one is due.                     *)
LEMMA IncludedCosts ==
  ASSUME TypeOK, TypeOK', ChainInv, SentInv, ListInv, OwnInv, RunsInv,
         task = "defend", Included
  PROVE  OwnInv' /\ RunsInv'
  <1>1. /\ ~scanning /\ sent # None /\ todo # <<>> /\ sent = Head(todo) /\ Mined(sent, Tip)
        /\ todo' = Tail(todo) /\ sent' = None
        /\ UNCHANGED <<chain, mempool, view, task, scanning, age, reorgs, faults, defended>>
    BY DEF Included, SentInv, chainVars
  <1>2. /\ 1 \in DOMAIN todo /\ Head(todo) = todo[1] /\ todo[1] \in OwnRoots
        /\ todo \in Seq(Txs) /\ \A k \in DOMAIN todo : todo[k] # None
    BY <1>1, NoneIsNoTx DEF ListInv, TypeOK
  <1>3. /\ \A k \in DOMAIN todo' : k + 1 \in DOMAIN todo /\ k + 1 # 1 /\ todo'[k] = todo[k + 1]
        /\ \A k \in DOMAIN todo : k # 1 => k - 1 \in DOMAIN todo' /\ todo'[k - 1] = todo[k]
    BY <1>1, <1>2, TailFacts
  <1>4. OwnInv'
    BY <1>1, SameChain DEF OwnInv, Root, Defeat
  <1>5. Strays' \subseteq Strays
    <2>1. \A j \in Disputed : Root(Own, j) \in mempool => Root(Own, j) # sent
      BY <1>1 DEF OwnInv
    <2> QED
      BY <1>1, <2>1 DEF Strays, Root
  <1>6. ASSUME Healthy
        PROVE  Healthy'
    <2>1. ListIsDue
      BY <1>1, <1>6 DEF Healthy
    <2>2. \A k \in DOMAIN todo' : todo'[k] # sent' /\ Due(todo'[k])
      BY <1>1, <1>2, <1>3, <2>1 DEF ListIsDue
    <2>3. \A k \in DOMAIN todo' : todo'[k] # sent' /\ Due(todo[k])'
      BY <1>1, <2>2 DEF Due, OwnRoots, ChallengeState, Mined, Tip, Root, Challenge
    <2>4. ASSUME NEW i \in Disputed, Unanswered(i)', Mined(Challenge(Own, i), view.block)'
          PROVE  \/ Block(Challenge(Own, i))' <= defended'
                 \/ \E k \in DOMAIN todo' : todo'[k] = Root(Own, i)
      <3>1. /\ Unanswered(i) /\ Mined(Challenge(Own, i), view.block)
            /\ Block(Challenge(Own, i))' = Block(Challenge(Own, i))
        BY <1>1, <2>4, SameChain
      <3>2. todo[1] # Root(Own, i)
        BY <1>1, <1>2, <3>1 DEF Unanswered, ChallengeState
      <3>3. CASE Block(Challenge(Own, i)) <= defended
        BY <1>1, <3>1, <3>3
      <3>4. ASSUME NEW k \in DOMAIN todo, todo[k] = Root(Own, i)
            PROVE  \E m \in DOMAIN todo' : todo'[m] = Root(Own, i)
        <4>1. k - 1 \in DOMAIN todo' /\ todo'[k - 1] = Root(Own, i)
          BY <1>3, <3>2, <3>4
        <4> QED
          BY <4>1
      <3> QED
        BY <2>1, <3>1, <3>3, <3>4 DEF ListIsDue
    <2>5. ListIsDue'
      BY <1>1, <2>3, <2>4 DEF ListIsDue, Root, Challenge
    <2>6. ViewReadable'
      BY <1>1, <1>6, SameChain DEF Healthy
    <2> QED
      BY <1>1, <2>5, <2>6 DEF Healthy
  <1> QED
    BY <1>1, <1>4, <1>5, <1>6, RunGoesOn


LEMMA QuietCosts ==
  ASSUME TypeOK, TypeOK', OwnInv, RunsInv,
         UNCHANGED <<chain, mempool, daemonVars, age, reorgs, faults>>
  PROVE  OwnInv' /\ RunsInv'
  <1>1. /\ UNCHANGED <<view, task, todo, sent, scanning, defended>>
        /\ \A k \in DOMAIN todo : Due(todo[k])' <=> Due(todo[k])
        /\ Due(sent)' <=> Due(sent)
    BY DEF daemonVars, Due, OwnRoots, ChallengeState, Mined, Tip, Root, Challenge
  <1>2. OwnInv'
    BY <1>1, SameChain DEF OwnInv, Root, Defeat
  <1>3. Strays' = Strays
    BY <1>1 DEF Strays, Root
  <1>4. \A i \in Disputed :
           Unanswered(i)' /\ Mined(Challenge(Own, i), view.block)' =>
               Unanswered(i) /\ Mined(Challenge(Own, i), view.block)
    BY <1>1, SameChain
  <1>5. ListIsDue => ListIsDue'
    <2>1. ASSUME ListIsDue
          PROVE  /\ \A k \in DOMAIN todo' :
                       (todo'[k] # sent' /\ Due(todo[k])') \/ (k = 1 /\ todo'[k] = sent')
                 /\ sent' # None => Mined(sent, Tip)' \/ (sent' \in mempool' /\ Due(sent)')
      BY <1>1, <2>1 DEF ListIsDue, Mined, Tip
    <2>2. ASSUME ListIsDue, NEW i \in Disputed, Unanswered(i)',
                 Mined(Challenge(Own, i), view.block)'
          PROVE  \/ Block(Challenge(Own, i))' <= defended'
                 \/ \E k \in DOMAIN todo' : todo'[k] = Root(Own, i)
      BY <1>1, <1>4, <2>2, SameChain DEF ListIsDue
    <2> QED
      BY <1>1, <2>1, <2>2 DEF ListIsDue, Root, Challenge, None
  <1>6. Healthy => Healthy'
    BY <1>1, <1>5, SameChain DEF Healthy, Root
  <1> QED
    BY <1>2, <1>3, <1>6, RunGoesOn

(* All the ways in which a run ends.                                       *)
LEMMA EndsCost ==
  ASSUME TypeOK, TypeOK', ChainInv, SentInv, ListInv, OwnInv, RunsInv,
         \/ EndRun /\ (ScanChallenges \/ ScanRoots \/ Submit)
         \/ ScanFails \/ Reverted \/ Done \/ RequestFails \/ Restart
  PROVE  OwnInv' /\ RunsInv'
  <1>0. None \notin mempool
    BY NoneIsNoTx DEF TypeOK
  <1>1. RunEnds /\ faults' \in {faults, faults + 1}
    BY DEF RunEnds, EndRun, ScanChallenges, ScanRoots, Submit, ScanFails, Reverted, Done,
           RequestFails, Restart, chainVars, TypeOK
  <1>2. CASE RequestFails \/ Restart
    <2>1. faults' = faults + 1
      BY <1>2 DEF RequestFails, Restart
    <2> QED
      BY <1>1, <2>1, RunEndsCosts
  <1> DEFINE Seen == \A i \in Disputed :
                Unanswered(i) /\ Mined(Challenge(Own, i), view.block) => Overlooked(i)
  <1>3. ASSUME faults' = faults, task = "defend" => sent \notin mempool,
               task = "defend" /\ Healthy => Seen
        PROVE  OwnInv' /\ RunsInv'
    BY <1>1, <1>3, RunEndsCosts
  <1>4. CASE ScanChallenges /\ EndRun
    <2>1. /\ sent = None /\ faults' = faults /\ Defendable = {}
      BY <1>4 DEF ScanChallenges, SentInv, OwnInv, EndRun
    <2>2. Seen
      BY <2>1, SeenIsDefendable DEF Overlooked, Unanswered
    <2> HIDE DEF Seen
    <2> QED
      BY <1>0, <1>3, <2>1, <2>2
  <1>5. CASE ScanRoots
    <2>1. task = "verify" /\ faults' = faults
      BY <1>5 DEF ScanRoots
    <2> HIDE DEF Seen
    <2> QED
      BY <1>3, <2>1
  <1>6. CASE ScanFails
    <2>1. /\ sent = None /\ faults' = faults /\ ~ViewReadable
      BY <1>6 DEF ScanFails, SentInv
    <2>2. task = "defend" => ~Healthy
      BY <2>1 DEF Healthy
    <2> HIDE DEF Seen
    <2> QED
      BY <1>0, <1>3, <2>1, <2>2
  <1>7. CASE Submit /\ EndRun
    <2>1. /\ sent = None /\ faults' = faults /\ ~scanning /\ todo # <<>>
          /\ todo \in Seq(Txs) /\ 1 \in DOMAIN todo /\ Head(todo) = todo[1] /\ todo[1] \in Txs
      BY <1>7 DEF Submit, TypeOK
    <2>2. ~Valid(todo[1])
      BY <1>7, <2>1, NoneIsNoTx DEF Submit, EndRun
    <2>3. task = "defend" => ~Healthy
      <3>1. task = "defend" => ~Due(todo[1])
        BY <2>1, <2>2, OwnValid DEF ListInv
      <3> QED
        BY <2>1, <3>1, NoneIsNoTx DEF Healthy, ListIsDue
    <2> HIDE DEF Seen
    <2> QED
      BY <1>0, <1>3, <2>1, <2>3
  <1>8. CASE Reverted
    <2>1. /\ sent # None /\ faults' = faults /\ sent \notin mempool /\ ~Mined(sent, Tip)
      BY <1>8 DEF Reverted
    <2>2. task = "defend" => ~Healthy
      BY <2>1 DEF Healthy, ListIsDue, SentInv
    <2> HIDE DEF Seen
    <2> QED
      BY <1>3, <2>1, <2>2
  <1>9. CASE Done
    <2>1. /\ sent = None /\ faults' = faults /\ ~scanning /\ todo = <<>>
      BY <1>9 DEF Done
    <2>2. task = "defend" /\ Healthy => Seen
      BY <2>1 DEF Healthy, ListIsDue, Overlooked, Unanswered
    <2> HIDE DEF Seen
    <2> QED
      BY <1>0, <1>3, <2>1, <2>2
  <1> QED
    BY <1>2, <1>4, <1>5, <1>6, <1>7, <1>8, <1>9
-----------------------------------------------------------------------------
LEMMA InitAgeInv == Init => AgeInv
  <1> SUFFICES ASSUME Init PROVE AgeInv
    OBVIOUS
  <1>1. /\ chain = <<Root(Own, 1)>> /\ mempool = {} /\ task = "idle" /\ todo = <<>>
        /\ age = [i \in Disputed |-> 0] /\ reorgs = 0 /\ faults = 0
    BY DEF Init
  <1>2. \A t : Mined(t, Tip) => t = Root(Own, 1)
    BY <1>1 DEF Mined, Tip
  <1>3. OwnInv
    BY <1>1, <1>2, RootsDiffer DEF OwnInv, Defeated
  <1>4. Debt = 0 /\ Budget = 0
    <2>1. Strays = {} /\ Healthy
      BY <1>1 DEF Strays, Healthy
    <2>2. Cardinality(Strays) = 0
      BY <2>1, FS_EmptySet
    <2>3. MaxDepth \in Nat
      BY PdaoAssumption
    <2> QED
      BY <1>1, <2>1, <2>2, <2>3 DEF Debt, Budget
  <1>5. RunsInv
    BY <1>1, <1>4 DEF RunsInv
  <1>6. ListInv
    BY <1>1 DEF ListInv
  <1> QED
    BY <1>3, <1>5, <1>6 DEF AgeInv

LEMMA NextAgeInv == IInv /\ AgeInv /\ [Next]_vars => AgeInv'
  <1> SUFFICES ASSUME IInv, AgeInv, [Next]_vars PROVE AgeInv'
    OBVIOUS
  <1>1. /\ TypeOK /\ TypeOK' /\ ChainInv /\ ChainInv' /\ SentInv
        /\ ListInv /\ OwnInv /\ RunsInv
    BY NextIInv DEF IInv, AgeInv
  <1>2. ListInv'
    BY <1>1, ListStep
  <1> SUFFICES OwnInv' /\ RunsInv'
    BY <1>2 DEF AgeInv
  <1>3. ASSUME NEW tx \in Txs, Mine(tx) \/ OthersSend(tx)
        PROVE  OwnInv' /\ RunsInv'
    <2>1. CASE Mine(tx) /\ tx \in OwnRoots
      BY <1>1, <2>1, MineAnswer DEF OwnRoots, Mine
    <2>2. CASE Mine(tx) /\ tx \notin OwnRoots
      <3>1. \A i \in Indices : tx # Defeat(Own, i)
        BY <1>1, <2>2 DEF Mine, OwnInv
      <3> QED
        BY <1>1, <2>2, <3>1, MineOther DEF Mine
    <2>3. CASE OthersSend(tx)
      <3>1. tx \notin OwnRoots /\ \A i \in Indices : tx # Defeat(Own, i)
        <4>1. tx \in OthersTxs
          BY <2>3 DEF OthersSend
        <4>2. wrong \subseteq Others
          BY <1>1 DEF TypeOK
        <4> QED
          BY <4>1, <4>2, PdaoAssumption DEF OthersTxs, OwnRoots, Root, Challenge, Defeat
      <3>2. /\ mempool' = mempool \ {tx} /\ Valid(tx) /\ chain' = Append(chain, tx)
            /\ UNCHANGED <<daemonVars, age, faults, reorgs>>
        BY <2>3 DEF OthersSend
      <3>3. chain' = IF Valid(tx) THEN Append(chain, tx) ELSE chain
        BY <3>2
      <3> QED
        BY <1>1, <3>1, <3>2, <3>3, MineOther
    <2> QED
      BY <1>3, <2>1, <2>2, <2>3
  <1>4. ASSUME NEW p \in Others, WindowOver(p) PROVE OwnInv' /\ RunsInv'
    BY <1>1, <1>4, QuietCosts DEF WindowOver
  <1>5. ASSUME NEW p \in Props, NEW i \in Indices, Expire(p, i) PROVE OwnInv' /\ RunsInv'
    BY <1>1, <1>5, QuietCosts DEF Expire
  <1>6. ASSUME NEW d \in 1..MaxDepth, Reorg(d) PROVE OwnInv' /\ RunsInv'
    BY <1>1, <1>6, ReorgCosts
  <1>7. CASE UpdateNetworkState
    BY <1>1, <1>7, UpdateCosts
  <1>8. CASE ScanChallenges /\ ~EndRun
    BY <1>1, <1>8, ScanCosts
  <1>9. CASE EndRun /\ (ScanChallenges \/ ScanRoots \/ Submit)
    BY <1>1, <1>9, EndsCost
  <1>10. CASE ScanFails \/ Reverted \/ Done \/ RequestFails \/ Restart
    BY <1>1, <1>10, EndsCost
  <1>11. CASE ScanRoots /\ ~EndRun
    <2>1. /\ task = "verify" /\ task' = task
          /\ UNCHANGED <<chain, mempool, age, reorgs, faults>>
      BY <1>11 DEF ScanRoots, chainVars
    <2> QED
      BY <1>1, <2>1, VerifierCosts
  <1>12. CASE Submit /\ ~EndRun
    <2>1. /\ Valid(Head(todo)) /\ todo # <<>> /\ mempool' = mempool \cup {Head(todo)}
          /\ task # "idle" /\ UNCHANGED <<task, chain, age, reorgs, faults>>
      BY <1>12 DEF Submit
    <2>2. CASE task = "defend"
      BY <1>1, <1>12, <2>1, <2>2, SubmitCosts
    <2>3. CASE task = "verify"
      <3>1. Head(todo) \in Txs /\ Head(todo).prop \in Others
        BY <1>1, <2>1, <2>3 DEF ListInv, TypeOK
      <3> QED
        BY <1>1, <2>1, <2>3, <3>1, VerifierCosts
    <2> QED
      BY <1>1, <2>1, <2>2, <2>3 DEF TypeOK
  <1>13. CASE Included
    <2>1. CASE task = "defend"
      BY <1>1, <1>13, <2>1, IncludedCosts
    <2>2. CASE task = "verify"
      BY <1>1, <1>13, <2>2, VerifierCosts DEF Included, chainVars
    <2> QED
      BY <1>1, <1>13, <2>1, <2>2 DEF Included, SentInv, TypeOK
  <1>14. CASE GasTooHigh
    BY <1>1, <1>14, VerifierCosts DEF GasTooHigh, chainVars
  <1>15. CASE UNCHANGED vars
    BY <1>1, <1>15, QuietCosts DEF vars, chainVars
  <1> QED
    BY <1>3, <1>4, <1>5, <1>6, <1>7, <1>8, <1>9, <1>10, <1>11, <1>12, <1>13, <1>14, <1>15
       DEF Next, Daemon

LEMMA AgeInvHolds == Spec => []AgeInv
  BY InitAgeInv, NextAgeInv, IInvHolds, PTL DEF Spec


(* A challenge against the node's own proposal, which is right, is         *)
(* answered before its window has passed, whatever fails, unless a         *)
(* reorganisation has put it behind lastScannedBlock.                      *)
THEOREM OnlyOverlookedExpireHolds == Spec => OnlyOverlookedExpire
  <1> DEFINE Late == \A i \in Disputed :
                        <<Own, i>> \in expired' \ expired => Overlooked(i) /\ reorgs > 0
  <1>1. ASSUME TypeOK, AgeInv, NothingOverlooked, Next
        PROVE  Late
    <2> SUFFICES ASSUME NEW i \in Disputed, <<Own, i>> \in expired' \ expired
                 PROVE  Overlooked(i) /\ reorgs > 0
      OBVIOUS
    <2>1. \E p \in Props, j \in Indices : Expire(p, j)
      BY <1>1 DEF Next, Mine, OthersSend, WindowOver, Reorg, Daemon, UpdateNetworkState,
                  ScanChallenges, ScanRoots, ScanFails, Submit, Included, Reverted, Done,
                  GasTooHigh, RequestFails, Restart, EndRun, chainVars
    <2>2. Expire(Own, i)
      BY <2>1 DEF Expire
    <2>3. Unanswered(i) /\ (age[i] >= Patience \/ Overlooked(i))
      BY <2>2 DEF Expire, Unanswered
    <2>4. age[i] < Patience
      <3>1. age[i] + Debt <= Budget /\ Debt \in Nat /\ age[i] \in Nat
        BY <1>1, <2>3, DebtType, PdaoAssumption DEF AgeInv, RunsInv, TypeOK
      <3>2. /\ faults \in Nat /\ faults <= MaxFaults /\ reorgs \in Nat /\ reorgs <= MaxReorgs
            /\ MaxDepth \in Nat /\ MaxFaults \in Nat /\ MaxReorgs \in Nat /\ Patience \in Nat
        BY <1>1, PdaoAssumption DEF TypeOK
      <3>3. (1 + MaxDepth) * reorgs <= (1 + MaxDepth) * MaxReorgs
        <4>1. \A m, a, b \in Nat : a <= b => m * a <= m * b
          OBVIOUS
        <4>2. 1 + MaxDepth \in Nat
          BY <3>2
        <4> QED
          BY <3>2, <4>1, <4>2
      <3>4. (1 + MaxDepth) * reorgs \in Nat /\ (1 + MaxDepth) * MaxReorgs \in Nat
        BY <3>2
      <3>5. Budget <= 2 * MaxFaults + (1 + MaxDepth) * MaxReorgs
        BY <3>2, <3>3, <3>4 DEF Budget
      <3>6. Budget \in Nat /\ Patience > 2 * MaxFaults + (1 + MaxDepth) * MaxReorgs
        BY <1>1, DebtType, PatienceAssumption
      <3> QED
        BY <3>1, <3>2, <3>4, <3>5, <3>6
    <2>5. Overlooked(i)
      <3>1. age[i] \in Nat /\ Patience \in Nat
        BY <1>1, PdaoAssumption DEF TypeOK
      <3> QED
        BY <2>3, <2>4, <3>1
    <2>6. reorgs \in Nat /\ reorgs # 0
      BY <1>1, <2>5, PdaoAssumption DEF NothingOverlooked, TypeOK
    <2> QED
      BY <2>5, <2>6
  <1>2. TypeOK /\ AgeInv /\ NothingOverlooked /\ [Next]_vars => [Late]_vars
    BY <1>1
  <1> QED
    BY <1>2, TypeCorrect, AgeInvHolds, NothingOverlookedHolds, PTL DEF Spec, OnlyOverlookedExpire
=============================================================================
