------------------------- MODULE RewardsTreeProofs -------------------------
(***************************************************************************)
(* Proofs about RewardsTree, for any nodes, any Oracle DAO and every       *)
(* bound: type correctness, with the start of the period never overtaking  *)
(* time; a flag that never outlives its goroutine; and no vote without its *)
(* tree on disk.                                                           *)
(***************************************************************************)
EXTENDS RewardsTree, TLAPS

(* TypeOK, but for the bound on the start, which needs the history below.  *)
Shapes ==
    /\ elapsed \in Counts /\ final \in BOOLEAN
    /\ index \in Counts /\ start \in Counts
    /\ votes \subseteq Trusted \X Counts \X Counts
    /\ pending \subseteq Trusted \X Counts \X Counts
    /\ view \in [Nodes -> [index : Counts, passed : Counts]]
    /\ file \in [Nodes -> [Counts -> Counts]]
    /\ isRunning \in [Nodes -> BOOLEAN]
    /\ gen \in [Nodes -> [GenIds -> Jobs]]
    /\ resubmit \in [Nodes -> Jobs]
    /\ faults \in 0..MaxFaults /\ failedRuns \in 0..MaxFailedRuns

(* What a view, a job or a vote says of its period: the period is not in   *)
(* the future, and if it is the current one, the intervals fit into the    *)
(* ones that are open.                                                     *)
Fits(i, k) == i <= index /\ (i = index => start + k <= elapsed)

TimeInv ==
    /\ index <= start /\ start <= elapsed
    /\ \A n \in Nodes : Fits(view[n].index, view[n].passed)
    /\ \A n \in Nodes : Fits(resubmit[n].index, resubmit[n].passed)
    /\ \A n \in Nodes, g \in GenIds : Fits(gen[n][g].index, gen[n][g].passed)
    /\ \A p \in pending : Fits(p[2], p[3])

(* A job covers an interval at least, and only members vote; a job that is *)
(* about to vote has its tree on disk.                                     *)
Saved(n, i) == file[n][i] # 0

ResubmitOK(n) ==
    /\ resubmit[n].pc \in {"idle", "send", "wait"}
    /\ resubmit[n].pc # "idle" => resubmit[n].passed # 0 /\ n \in Trusted
    /\ resubmit[n].pc = "send" => Saved(n, resubmit[n].index)

GenOK(n, g) ==
    /\ gen[n][g].pc # "idle" => gen[n][g].passed # 0
    /\ gen[n][g].pc \in {"send", "wait"} => n \in Trusted
    /\ gen[n][g].pc = "send" => Saved(n, gen[n][g].index)

JobInv ==
    /\ \A n \in Nodes : ResubmitOK(n)
    /\ \A n \in Nodes, g \in GenIds : GenOK(n, g)
    /\ \A p \in pending : p[3] # 0

IInv == Shapes /\ TimeInv /\ JobInv /\ FlagIsCleared

LEMMA InitIInv == Init => IInv
  <1> SUFFICES ASSUME Init PROVE IInv
    OBVIOUS
  <1> USE RewardsAssumption DEF Init, Idle, NoState, Counts
  <1>1. Shapes
    BY DEF Shapes, Jobs, Points
  <1>2. TimeInv
    BY DEF TimeInv, Fits
  <1>3. JobInv
    BY DEF JobInv, ResubmitOK, GenOK
  <1>4. FlagIsCleared
    BY DEF FlagIsCleared
  <1> QED
    BY <1>1, <1>2, <1>3, <1>4 DEF IInv

LEMMA IdleType == Idle \in Jobs /\ NoState \in [index : Counts, passed : Counts]
  BY RewardsAssumption DEF Idle, NoState, Jobs, Points, Counts

(* A job that moves on keeps its index and its intervals.                  *)
LEMMA GenType ==
  ASSUME Shapes, NEW n \in Nodes, NEW g \in GenIds, NEW there \in Points,
         GoTo(n, g, there)
  PROVE  /\ gen' \in [Nodes -> [GenIds -> Jobs]]
         /\ gen'[n][g] = [pc |-> there, index |-> gen[n][g].index,
                          passed |-> gen[n][g].passed]
         /\ \A m \in Nodes, h \in GenIds :
               m # n \/ h # g => gen'[m][h] = gen[m][h]
  <1> DEFINE job == [pc |-> there, index |-> gen[n][g].index,
                     passed |-> gen[n][g].passed]
  <1>1. gen[n][g] \in Jobs
    BY DEF Shapes
  <1>2. [gen[n][g] EXCEPT !.pc = there] = job /\ job \in Jobs
    BY <1>1 DEF Jobs
  <1>3. gen' = [gen EXCEPT ![n] = [gen[n] EXCEPT ![g] = job]]
    BY <1>2 DEF GoTo, Shapes
  <1> HIDE DEF job
  <1>4. gen' \in [Nodes -> [GenIds -> Jobs]]
    BY <1>2, <1>3 DEF Shapes
  <1>5. gen'[n][g] = job
    BY <1>3 DEF Shapes
  <1>6. \A m \in Nodes, h \in GenIds :
               m # n \/ h # g => gen'[m][h] = gen[m][h]
    BY <1>3 DEF Shapes
  <1> QED
    BY <1>4, <1>5, <1>6 DEF job

(* Goroutine slot g of node n is given job j.                              *)
Put(n, g, j) == gen' = [gen EXCEPT ![n][g] = j]

LEMMA GenPut ==
  ASSUME Shapes, NEW n \in Nodes, NEW g \in GenIds, NEW j, Put(n, g, j)
  PROVE  /\ gen'[n][g] = j
         /\ \A m \in Nodes, h \in GenIds :
               m # n \/ h # g => gen'[m][h] = gen[m][h]
  <1>1. gen' = [gen EXCEPT ![n] = [gen[n] EXCEPT ![g] = j]]
    BY DEF Put, Shapes
  <1> QED
    BY <1>1 DEF Shapes

LEMMA ResubmitType ==
  ASSUME Shapes, NEW n \in Nodes,
         resubmit' = [resubmit EXCEPT ![n].pc = "wait"]
  PROVE  /\ resubmit' \in [Nodes -> Jobs]
         /\ resubmit'[n] = [pc |-> "wait", index |-> resubmit[n].index,
                            passed |-> resubmit[n].passed]
         /\ \A m \in Nodes \ {n} : resubmit'[m] = resubmit[m]
  <1> DEFINE job == [pc |-> "wait", index |-> resubmit[n].index,
                     passed |-> resubmit[n].passed]
  <1>1. resubmit[n] \in Jobs
    BY DEF Shapes
  <1>2. [resubmit[n] EXCEPT !.pc = "wait"] = job /\ job \in Jobs
    BY <1>1 DEF Jobs, Points
  <1>3. resubmit' = [resubmit EXCEPT ![n] = job]
    BY <1>2 DEF Shapes
  <1> HIDE DEF job
  <1>4. /\ resubmit' \in [Nodes -> Jobs] /\ resubmit'[n] = job
        /\ \A m \in Nodes \ {n} : resubmit'[m] = resubmit[m]
    BY <1>2, <1>3 DEF Shapes
  <1> QED
    BY <1>4 DEF job

(* A tree of the current period that is agreed on ends within time.        *)
LEMMA PeriodFits ==
  ASSUME elapsed \in Counts, start \in Counts, index \in Counts,
         index <= start, NEW k \in Counts, k # 0, Fits(index, k)
  PROVE  /\ index + 1 \in Counts /\ start + k \in Counts
         /\ index + 1 <= start + k /\ start + k <= elapsed
  BY RewardsAssumption DEF Fits, Counts

(* A vote that is sent is well formed.                                     *)
LEMMA VoteType ==
  ASSUME NEW n \in Trusted, NEW j \in Jobs
  PROVE  Vote(n, j) \in Trusted \X Counts \X Counts
  BY DEF Vote, Jobs

LEMMA ShapesStep == IInv /\ [Next]_vars => Shapes'
  <1> SUFFICES ASSUME Shapes, TimeInv, JobInv, [Next]_vars PROVE Shapes'
    BY DEF IInv
  <1> USE RewardsAssumption DEF Shapes, chainVars, nodeVars, faultVars
  <1>1. CASE IntervalPasses
    <2>1. elapsed' \in Counts
      BY <1>1 DEF IntervalPasses, Counts
    <2> QED
      BY <1>1, <2>1 DEF IntervalPasses
  <1>2. CASE Finalize
    BY <1>2 DEF Finalize
  <1>3. ASSUME NEW n \in Trusted, NEW i \in Counts, NEW k \in Counts,
               Mine(n, i, k)
        PROVE  Shapes'
    <2>1. <<n, i, k>>[2] = i /\ <<n, i, k>>[3] = k
      OBVIOUS
    <2>2. Fits(i, k) /\ k # 0
      BY <1>3, <2>1 DEF Mine, TimeInv, JobInv
    <2>3. ~Rejected(n, i, k) => index + 1 \in Counts /\ start + k \in Counts
      BY <2>2, PeriodFits DEF Rejected, TimeInv
    <2>4. index' \in Counts /\ start' \in Counts
      BY <1>3, <2>3 DEF Mine
    <2>5. votes' \subseteq Trusted \X Counts \X Counts
      BY <1>3 DEF Mine
    <2> QED
      BY <1>3, <2>4, <2>5 DEF Mine
  <1>4. ASSUME NEW n \in Nodes, Observe(n)
        PROVE  Shapes'
    <2>1. elapsed - start \in Counts
      BY DEF TimeInv, Counts
    <2> QED
      BY <1>4, <2>1 DEF Observe
  <1>5. ASSUME NEW n \in Nodes, NEW here \in Points
        PROVE  Job(n, here) \in Jobs
    BY <1>5 DEF Job, Jobs
  <1>6. ASSUME NEW n \in Nodes, RunResubmits(n)
        PROVE  Shapes'
    BY <1>5, <1>6 DEF RunResubmits, Points
  <1>7. ASSUME NEW n \in Nodes, RunGenerates(n)
        PROVE  Shapes'
    BY <1>5, <1>7 DEF RunGenerates, Points
  <1>8. ASSUME NEW n \in Nodes, Resubmit(n)
        PROVE  Shapes'
    <2>1. resubmit' \in [Nodes -> Jobs]
      BY <1>8, IdleType, ResubmitType DEF Resubmit
    <2>2. n \in Trusted /\ Vote(n, resubmit[n]) \in Trusted \X Counts \X Counts
      BY <1>8, VoteType DEF Resubmit, JobInv, ResubmitOK
    <2>3. pending' \subseteq Trusted \X Counts \X Counts
      BY <1>8, <2>2 DEF Resubmit
    <2> QED
      BY <1>8, <2>1, <2>3 DEF Resubmit
  <1>9. ASSUME NEW n \in Nodes, ResubmitMined(n)
        PROVE  Shapes'
    BY <1>9, IdleType DEF ResubmitMined
  <1>10. ASSUME NEW n \in Nodes, ResubmitFails(n)
         PROVE  Shapes'
    <2>1. failedRuns' \in 0..MaxFailedRuns
      BY <1>10 DEF ResubmitFails
    <2> QED
      BY <1>10, <2>1, IdleType DEF ResubmitFails
  <1>11. ASSUME NEW n \in Nodes, NEW g \in GenIds, Start(n, g)
         PROVE  Shapes'
    BY <1>11, GenType DEF Start, SetFlag, Points
  <1>12. ASSUME NEW n \in Nodes, NEW g \in GenIds, SaveFiles(n, g)
         PROVE  Shapes'
    <2>1. gen' \in [Nodes -> [GenIds -> Jobs]]
      BY <1>12, GenType DEF SaveFiles, Points
    <2>2. gen[n][g].index \in Counts /\ gen[n][g].passed \in Counts
      BY DEF Jobs
    <2>3. file' \in [Nodes -> [Counts -> Counts]]
      BY <1>12, <2>2 DEF SaveFiles
    <2> QED
      BY <1>12, <2>1, <2>3 DEF SaveFiles
  <1>13. ASSUME NEW n \in Nodes, NEW g \in GenIds, Submit(n, g)
         PROVE  Shapes'
    <2>1. gen' \in [Nodes -> [GenIds -> Jobs]]
      BY <1>13, GenType DEF Submit, HandleError, Points
    <2>2. n \in Trusted /\ Vote(n, gen[n][g]) \in Trusted \X Counts \X Counts
      BY <1>13, VoteType DEF Submit, GenAt, JobInv, GenOK
    <2>3. pending' \subseteq Trusted \X Counts \X Counts
      BY <1>13, <2>2 DEF Submit
    <2>4. isRunning' \in [Nodes -> BOOLEAN]
      BY <1>13 DEF Submit, HandleError, SetFlag
    <2> QED
      BY <1>13, <2>1, <2>3, <2>4 DEF Submit
  <1>14. ASSUME NEW n \in Nodes, NEW g \in GenIds, SubmitMined(n, g)
         PROVE  Shapes'
    BY <1>14, GenType DEF SubmitMined, Points
  <1>15. ASSUME NEW n \in Nodes, NEW g \in GenIds, Done(n, g)
         PROVE  Shapes'
    BY <1>15, IdleType DEF Done, SetFlag
  <1>16. ASSUME faults < MaxFaults, faults' = faults + 1
         PROVE  faults' \in 0..MaxFaults
    BY <1>16
  <1>17. ASSUME NEW n \in Nodes, NEW g \in GenIds, NoClient(n, g)
         PROVE  Shapes'
    BY <1>16, <1>17, IdleType DEF NoClient, SetFlag
  <1>18. ASSUME NEW n \in Nodes, NEW g \in GenIds, GenerationFails(n, g)
         PROVE  Shapes'
    <2>1. gen' \in [Nodes -> [GenIds -> Jobs]]
      BY <1>18, GenType DEF GenerationFails, HandleError, Points
    <2> QED
      BY <1>16, <1>18, <2>1 DEF GenerationFails, HandleError, SetFlag
  <1>19. ASSUME NEW n \in Nodes, Restart(n)
         PROVE  Shapes'
    <2>1. PICK f \in Truncated(n) : file' = [file EXCEPT ![n] = f]
      BY <1>19 DEF Restart
    <2>2. 0 \in Counts
      BY DEF Counts
    <2>3. f \in [Counts -> Counts]
      BY <2>2 DEF Truncated
    <2>4. gen' \in [Nodes -> [GenIds -> Jobs]]
      BY <1>19, IdleType DEF Restart
    <2> QED
      BY <1>16, <1>19, <2>1, <2>3, <2>4, IdleType DEF Restart, SetFlag
  <1>20. CASE UNCHANGED vars
    BY <1>20 DEF vars
  <1> QED
    BY <1>1, <1>2, <1>3, <1>4, <1>6, <1>7, <1>8, <1>9, <1>10, <1>11, <1>12,
       <1>13, <1>14, <1>15, <1>17, <1>18, <1>19, <1>20
       DEF Next, GenStep, LoopStep

(* A mined vote: what was said of a period stays true, whether or not the  *)
(* vote ends the period.                                                   *)
LEMMA MineTime ==
  ASSUME Shapes, TimeInv, JobInv,
         NEW n \in Trusted, NEW i \in Counts, NEW k \in Counts, Mine(n, i, k)
  PROVE  TimeInv'
  <1> USE DEF chainVars, nodeVars, faultVars
  <1>1. <<n, i, k>>[2] = i /\ <<n, i, k>>[3] = k
    OBVIOUS
  <1>2. Fits(i, k) /\ k # 0
    BY <1>1 DEF Mine, TimeInv, JobInv
  <1>3. CASE index' = index /\ start' = start
    BY <1>3 DEF Mine, TimeInv, Fits
  <1>4. CASE index' = index + 1 /\ start' = start + k /\ i = index
    <2>1. index' <= start' /\ start' <= elapsed'
      BY <1>2, <1>4, PeriodFits DEF Mine, Shapes, TimeInv
    <2>2. ASSUME NEW a \in Counts, NEW b, Fits(a, b)
          PROVE  Fits(a, b)'
      BY <1>4, <2>2, RewardsAssumption DEF Fits, Shapes, Counts
    <2>3. \A m \in Nodes : Fits(view[m].index, view[m].passed)'
      BY <2>2 DEF Mine, Shapes, TimeInv
    <2>4. \A m \in Nodes : Fits(resubmit[m].index, resubmit[m].passed)'
      BY <2>2 DEF Mine, Shapes, TimeInv, Jobs
    <2>5. \A m \in Nodes, g \in GenIds : Fits(gen[m][g].index, gen[m][g].passed)'
      BY <2>2 DEF Mine, Shapes, TimeInv, Jobs
    <2>6. \A p \in pending' : Fits(p[2], p[3])'
      BY <2>2 DEF Mine, Shapes, TimeInv
    <2> QED
      BY <2>1, <2>3, <2>4, <2>5, <2>6 DEF TimeInv
  <1> QED
    BY <1>3, <1>4 DEF Mine, Rejected

LEMMA TimeStep == IInv /\ [Next]_vars => TimeInv'
  <1> SUFFICES ASSUME Shapes, TimeInv, JobInv, [Next]_vars PROVE TimeInv'
    BY DEF IInv
  <1> USE DEF chainVars, nodeVars, faultVars
  <1>0. /\ index \in Nat /\ start \in Nat /\ elapsed \in Nat
        /\ index <= start /\ start <= elapsed
    BY RewardsAssumption DEF Shapes, Counts, TimeInv
  <1>i. Fits(Idle.index, Idle.passed) /\ Fits(NoState.index, NoState.passed)
    BY <1>0 DEF Fits, Idle, NoState
  <1>1. CASE IntervalPasses
    <2>1. ASSUME NEW a, NEW b \in Counts, Fits(a, b)
          PROVE  Fits(a, b)'
      BY <1>0, <1>1, <2>1, RewardsAssumption DEF Fits, IntervalPasses, Counts
    <2>2. \A m \in Nodes : Fits(view[m].index, view[m].passed)'
      BY <1>1, <2>1 DEF IntervalPasses, Shapes, TimeInv
    <2>3. \A m \in Nodes : Fits(resubmit[m].index, resubmit[m].passed)'
      BY <1>1, <2>1 DEF IntervalPasses, Shapes, TimeInv, Jobs
    <2>4. \A m \in Nodes, g \in GenIds : Fits(gen[m][g].index, gen[m][g].passed)'
      BY <1>1, <2>1 DEF IntervalPasses, Shapes, TimeInv, Jobs
    <2>5. \A p \in pending' : Fits(p[2], p[3])'
      BY <1>1, <2>1 DEF IntervalPasses, Shapes, TimeInv
    <2>6. index' <= start' /\ start' <= elapsed'
      BY <1>0, <1>1 DEF IntervalPasses
    <2> QED
      BY <2>2, <2>3, <2>4, <2>5, <2>6 DEF TimeInv
  <1>2. CASE Finalize
    BY <1>2 DEF Finalize, TimeInv, Fits
  <1>3. ASSUME NEW n \in Trusted, NEW i \in Counts, NEW k \in Counts,
               Mine(n, i, k)
        PROVE  TimeInv'
    BY <1>3, MineTime
  <1>4. ASSUME NEW n \in Nodes, Observe(n)
        PROVE  TimeInv'
    <2>1. start + (elapsed - start) <= elapsed
      BY <1>0
    <2>2. Fits(index, elapsed - start)'
      BY <1>0, <1>4, <2>1 DEF Observe, Fits
    <2>3. \A m \in Nodes : Fits(view[m].index, view[m].passed)'
      BY <1>4, <2>2 DEF Observe, TimeInv, Shapes, Fits
    <2> QED
      BY <1>4, <2>3 DEF Observe, TimeInv, Fits
  <1>5. ASSUME NEW n \in Nodes, RunResubmits(n)
        PROVE  TimeInv'
    <2>1. \A m \in Nodes : Fits(resubmit[m].index, resubmit[m].passed)'
      BY <1>5 DEF RunResubmits, Job, TimeInv, Shapes, Fits
    <2> QED
      BY <1>5, <2>1 DEF RunResubmits, TimeInv, Fits
  <1>6. ASSUME NEW n \in Nodes, RunGenerates(n)
        PROVE  TimeInv'
    <2>1. \A m \in Nodes, h \in GenIds :
              Fits(gen[m][h].index, gen[m][h].passed)'
      BY <1>6 DEF RunGenerates, Job, TimeInv, Shapes, Fits
    <2> QED
      BY <1>6, <2>1 DEF RunGenerates, TimeInv, Fits
  <1>7. ASSUME NEW n \in Nodes, Resubmit(n)
        PROVE  TimeInv'
    <2>1. \A m \in Nodes : Fits(resubmit[m].index, resubmit[m].passed)'
      <3>1. CASE resubmit' = [resubmit EXCEPT ![n] = Idle]
        BY <1>7, <1>i, <3>1 DEF Resubmit, TimeInv, Shapes, Fits
      <3>2. CASE resubmit' = [resubmit EXCEPT ![n].pc = "wait"]
        BY <1>7, <3>2, ResubmitType DEF Resubmit, TimeInv, Fits
      <3> QED
        BY <1>7, <3>1, <3>2 DEF Resubmit
    <2>2. Vote(n, resubmit[n])[2] = resubmit[n].index /\
          Vote(n, resubmit[n])[3] = resubmit[n].passed
      BY DEF Vote
    <2>3. \A p \in pending' : Fits(p[2], p[3])
      BY <1>7, <2>2 DEF Resubmit, TimeInv
    <2> QED
      BY <1>7, <2>1, <2>3 DEF Resubmit, TimeInv, Fits
  <1>8. ASSUME NEW n \in Nodes, resubmit' = [resubmit EXCEPT ![n] = Idle],
               UNCHANGED <<chainVars, pending, view, gen>>
        PROVE  TimeInv'
    <2>1. \A m \in Nodes : Fits(resubmit[m].index, resubmit[m].passed)'
      BY <1>8, <1>i DEF TimeInv, Shapes, Fits
    <2> QED
      BY <1>8, <2>1 DEF TimeInv, Fits
  <1>9. ASSUME NEW n \in Nodes, NEW g \in GenIds, NEW there \in Points,
               GoTo(n, g, there), UNCHANGED <<chainVars, view, resubmit>>,
               \A p \in pending' : Fits(p[2], p[3])
        PROVE  TimeInv'
    <2>0. /\ gen'[n][g] = [pc |-> there, index |-> gen[n][g].index,
                            passed |-> gen[n][g].passed]
          /\ \A m \in Nodes, h \in GenIds :
                m # n \/ h # g => gen'[m][h] = gen[m][h]
      BY <1>9, GenType
    <2>1. \A m \in Nodes, h \in GenIds :
              Fits(gen[m][h].index, gen[m][h].passed)'
      <3> SUFFICES ASSUME NEW m \in Nodes, NEW h \in GenIds
                   PROVE  Fits(gen'[m][h].index, gen'[m][h].passed)
        BY <1>9 DEF Fits
      <3>1. CASE m # n \/ h # g
        <4>1. gen'[m][h] = gen[m][h]
          BY <2>0, <3>1
        <4> QED
          BY <4>1 DEF TimeInv
      <3>2. CASE m = n /\ h = g
        BY <2>0, <3>2 DEF TimeInv
      <3> QED
        BY <3>1, <3>2
    <2> QED
      BY <1>9, <2>1 DEF TimeInv, Fits
  <1>10. ASSUME NEW n \in Nodes, NEW g \in GenIds,
                Start(n, g) \/ SaveFiles(n, g) \/ SubmitMined(n, g)
                \/ GenerationFails(n, g)
         PROVE  TimeInv'
    <2>1. UNCHANGED <<chainVars, pending, view, resubmit>>
      BY <1>10 DEF Start, SaveFiles, SubmitMined, GenerationFails
    <2>2. \A p \in pending' : Fits(p[2], p[3])
      BY <2>1 DEF TimeInv
    <2>3. \E there \in Points : GoTo(n, g, there)
      BY <1>10 DEF Start, SaveFiles, SubmitMined, GenerationFails, HandleError,
                   Points
    <2> QED
      BY <1>9, <2>1, <2>2, <2>3
  <1>11. ASSUME NEW n \in Nodes, NEW g \in GenIds, Submit(n, g)
         PROVE  TimeInv'
    <2>1. Vote(n, gen[n][g])[2] = gen[n][g].index /\
          Vote(n, gen[n][g])[3] = gen[n][g].passed
      BY DEF Vote
    <2>2. \A p \in pending' : Fits(p[2], p[3])
      BY <1>11, <2>1 DEF Submit, TimeInv
    <2>3. \E there \in Points : GoTo(n, g, there)
      BY <1>11 DEF Submit, HandleError, Points
    <2>4. UNCHANGED <<chainVars, view, resubmit>>
      BY <1>11 DEF Submit
    <2> QED
      BY <1>9, <2>2, <2>3, <2>4
  <1>12. ASSUME NEW n \in Nodes, NEW g \in GenIds, Done(n, g) \/ NoClient(n, g)
         PROVE  TimeInv'
    <2>1. \A m \in Nodes, h \in GenIds :
              Fits(gen[m][h].index, gen[m][h].passed)'
      <3> SUFFICES ASSUME NEW m \in Nodes, NEW h \in GenIds
                   PROVE  Fits(gen'[m][h].index, gen'[m][h].passed)
        BY <1>12 DEF Done, NoClient, Fits
      <3>1. Put(n, g, Idle)
        BY <1>12 DEF Done, NoClient, Put
      <3>2. gen'[m][h] = Idle \/ gen'[m][h] = gen[m][h]
        BY <3>1, GenPut
      <3> QED
        BY <1>i, <3>2 DEF TimeInv
    <2> QED
      BY <1>12, <2>1 DEF Done, NoClient, TimeInv, Fits
  <1>13. ASSUME NEW n \in Nodes, Restart(n)
         PROVE  TimeInv'
    <2>1. \A m \in Nodes, h \in GenIds :
              Fits(gen[m][h].index, gen[m][h].passed)'
      BY <1>13, <1>i DEF Restart, TimeInv, Shapes, Fits
    <2>2. \A m \in Nodes : Fits(resubmit[m].index, resubmit[m].passed)'
      BY <1>13, <1>i DEF Restart, TimeInv, Shapes, Fits
    <2>3. \A m \in Nodes : Fits(view[m].index, view[m].passed)'
      BY <1>13, <1>i DEF Restart, TimeInv, Shapes, Fits
    <2> QED
      BY <1>13, <2>1, <2>2, <2>3 DEF Restart, TimeInv, Fits
  <1>14. CASE UNCHANGED vars
    BY <1>14 DEF vars, TimeInv, Fits
  <1>15. ASSUME NEW n \in Nodes, ResubmitMined(n) \/ ResubmitFails(n)
         PROVE  TimeInv'
    BY <1>8, <1>15 DEF ResubmitMined, ResubmitFails
  <1> QED
    BY <1>1, <1>2, <1>3, <1>4, <1>5, <1>6, <1>7, <1>10, <1>11, <1>12, <1>13,
       <1>14, <1>15 DEF Next, GenStep, LoopStep

LEMMA JobStep == IInv /\ [Next]_vars => JobInv'
  <1> SUFFICES ASSUME Shapes, JobInv, [Next]_vars PROVE JobInv'
    BY DEF IInv
  <1> USE DEF chainVars, nodeVars, faultVars
  <1>1. CASE UNCHANGED <<pending, file, gen, resubmit>>
    BY <1>1 DEF JobInv, ResubmitOK, GenOK, Saved
  <1>2. ASSUME NEW n \in Trusted, NEW i \in Counts, NEW k \in Counts,
               Mine(n, i, k)
        PROVE  JobInv'
    BY <1>2 DEF Mine, JobInv, ResubmitOK, GenOK, Saved
  <1>3. ASSUME NEW n \in Nodes, RunResubmits(n)
        PROVE  JobInv'
    <2>1. resubmit'[n] = Job(n, "send")
          /\ \A m \in Nodes \ {n} : resubmit'[m] = resubmit[m]
      BY <1>3 DEF RunResubmits, Shapes
    <2>2. /\ resubmit'[n].pc = "send" /\ n \in Trusted
          /\ resubmit'[n].index = view[n].index
          /\ resubmit'[n].passed = view[n].passed
      BY <1>3, <2>1 DEF RunResubmits, Job
    <2>3. file'[n][view[n].index] = view[n].passed /\ view[n].passed # 0
      BY <1>3 DEF RunResubmits, Due, isExistingRewardsFileValid
    <2>4. ResubmitOK(n)'
      BY <2>2, <2>3 DEF ResubmitOK, Saved
    <2>5. \A m \in Nodes \ {n} : ResubmitOK(m)'
      BY <1>3, <2>1 DEF RunResubmits, JobInv, ResubmitOK, Saved
    <2> QED
      BY <1>3, <2>4, <2>5 DEF RunResubmits, JobInv, GenOK, Saved
  <1>4. ASSUME NEW n \in Nodes, RunGenerates(n)
        PROVE  JobInv'
    <2>0. PICK j : j = Job(n, "spawned")
      OBVIOUS
    <2>1. PICK g \in GenIds : Put(n, g, j)
      BY <1>4, <2>0 DEF RunGenerates, Put
    <2>2. gen'[n][g] = j /\ \A m \in Nodes, h \in GenIds :
              m # n \/ h # g => gen'[m][h] = gen[m][h]
      BY <2>1, GenPut
    <2>3. GenOK(n, g)'
      BY <1>4, <2>0, <2>2 DEF RunGenerates, Due, Job, GenOK
    <2>4. \A m \in Nodes, h \in GenIds : m # n \/ h # g => GenOK(m, h)'
      BY <1>4, <2>2 DEF RunGenerates, JobInv, GenOK, Saved
    <2> QED
      BY <1>4, <2>3, <2>4 DEF RunGenerates, JobInv, ResubmitOK, Saved
  <1>5. ASSUME NEW n \in Nodes, resubmit' = [resubmit EXCEPT ![n] = Idle],
               UNCHANGED <<pending, file, gen>>
        PROVE  JobInv'
    <2>1. resubmit'[n] = Idle
          /\ \A m \in Nodes \ {n} : resubmit'[m] = resubmit[m]
      BY <1>5 DEF Shapes
    <2>2. ResubmitOK(n)'
      BY <2>1 DEF Idle, ResubmitOK
    <2>3. \A m \in Nodes \ {n} : ResubmitOK(m)'
      BY <1>5, <2>1 DEF JobInv, ResubmitOK, Saved
    <2> QED
      BY <1>5, <2>2, <2>3 DEF JobInv, GenOK, Saved
  <1>6. ASSUME NEW n \in Nodes, Resubmit(n)
        PROVE  JobInv'
    <2>1. CASE resubmit' = [resubmit EXCEPT ![n] = Idle] /\ UNCHANGED pending
      BY <1>5, <1>6, <2>1 DEF Resubmit
    <2>2. CASE /\ resubmit' = [resubmit EXCEPT ![n].pc = "wait"]
               /\ pending' = pending \cup {Vote(n, resubmit[n])}
      <3>1. /\ resubmit'[n] = [pc |-> "wait", index |-> resubmit[n].index,
                               passed |-> resubmit[n].passed]
            /\ \A m \in Nodes \ {n} : resubmit'[m] = resubmit[m]
        BY <2>2, ResubmitType
      <3>2. ResubmitOK(n)'
        BY <1>6, <3>1 DEF Resubmit, JobInv, ResubmitOK
      <3>3. \A m \in Nodes \ {n} : ResubmitOK(m)'
        BY <1>6, <3>1 DEF Resubmit, JobInv, ResubmitOK, Saved
      <3>4. Vote(n, resubmit[n])[3] = resubmit[n].passed
        BY DEF Vote
      <3>5. \A p \in pending' : p[3] # 0
        BY <1>6, <2>2, <3>4 DEF Resubmit, JobInv, ResubmitOK
      <3> QED
        BY <1>6, <3>2, <3>3, <3>5 DEF Resubmit, JobInv, GenOK, Saved
    <2> QED
      BY <1>6, <2>1, <2>2 DEF Resubmit
  <1>7. ASSUME NEW n \in Nodes, ResubmitMined(n) \/ ResubmitFails(n)
        PROVE  JobInv'
    BY <1>5, <1>7 DEF ResubmitMined, ResubmitFails
  <1>8. ASSUME NEW n \in Nodes, NEW g \in GenIds, NEW there \in Points,
               GoTo(n, g, there), UNCHANGED <<file, resubmit>>,
               gen[n][g].pc # "idle", there # "send",
               there = "wait" => n \in Trusted,
               \A p \in pending' : p[3] # 0
        PROVE  JobInv'
    <2>1. /\ gen'[n][g] = [pc |-> there, index |-> gen[n][g].index,
                           passed |-> gen[n][g].passed]
          /\ \A m \in Nodes, h \in GenIds :
                m # n \/ h # g => gen'[m][h] = gen[m][h]
      BY <1>8, GenType
    <2>2. GenOK(n, g)'
      BY <1>8, <2>1 DEF JobInv, GenOK
    <2>3. \A m \in Nodes, h \in GenIds : m # n \/ h # g => GenOK(m, h)'
      BY <1>8, <2>1 DEF JobInv, GenOK, Saved
    <2> QED
      BY <1>8, <2>2, <2>3 DEF JobInv, ResubmitOK, Saved
  <1>9. ASSUME NEW n \in Nodes, NEW g \in GenIds,
               Start(n, g) \/ SubmitMined(n, g) \/ GenerationFails(n, g)
        PROVE  JobInv'
    <2>1. GoTo(n, g, "generate") \/ GoTo(n, g, "done")
      BY <1>9 DEF Start, SubmitMined, GenerationFails, HandleError
    <2>2. UNCHANGED <<pending, file, resubmit>> /\ gen[n][g].pc # "idle"
      BY <1>9 DEF Start, SubmitMined, GenerationFails, GenAt
    <2>3. \A p \in pending' : p[3] # 0
      BY <2>2 DEF JobInv
    <2> QED
      BY <1>8, <2>1, <2>2, <2>3 DEF Points
  <1>10. ASSUME NEW n \in Nodes, NEW g \in GenIds, Submit(n, g)
         PROVE  JobInv'
    <2>1. Vote(n, gen[n][g])[3] = gen[n][g].passed
      BY DEF Vote
    <2>2. n \in Trusted /\ gen[n][g].passed # 0 /\ gen[n][g].pc # "idle"
      BY <1>10 DEF Submit, GenAt, JobInv, GenOK
    <2>3. \A p \in pending' : p[3] # 0
      BY <1>10, <2>1, <2>2 DEF Submit, JobInv
    <2>4. GoTo(n, g, "wait") \/ GoTo(n, g, "done")
      BY <1>10 DEF Submit, HandleError
    <2>5. UNCHANGED <<file, resubmit>>
      BY <1>10 DEF Submit
    <2> QED
      BY <1>8, <2>2, <2>3, <2>4, <2>5 DEF Points
  <1>11. ASSUME NEW n \in Nodes, NEW g \in GenIds, SaveFiles(n, g)
         PROVE  JobInv'
    <2> DEFINE there == IF n \in Trusted THEN "send" ELSE "done"
    <2>1. /\ gen'[n][g] = [pc |-> there, index |-> gen[n][g].index,
                           passed |-> gen[n][g].passed]
          /\ \A m \in Nodes, h \in GenIds :
                m # n \/ h # g => gen'[m][h] = gen[m][h]
      <3>1. GoTo(n, g, there) /\ there \in Points
        BY <1>11 DEF SaveFiles, Points
      <3> HIDE DEF there
      <3> QED
        BY <3>1, GenType
    <2>2. gen[n][g].passed # 0 /\ gen[n][g].index \in Counts
      BY <1>11 DEF SaveFiles, GenAt, JobInv, GenOK, Shapes, Jobs
    <2>3. file'[n][gen[n][g].index] # 0
      BY <1>11, <2>2 DEF SaveFiles, Shapes
    <2>4. \A m \in Nodes, i \in Counts : Saved(m, i) => Saved(m, i)'
      BY <1>11, <2>2 DEF SaveFiles, Shapes, Saved
    <2>5. GenOK(n, g)'
      BY <2>1, <2>2, <2>3 DEF GenOK, Saved
    <2>6. \A m \in Nodes, h \in GenIds : m # n \/ h # g => GenOK(m, h)'
      <3> SUFFICES ASSUME NEW m \in Nodes, NEW h \in GenIds, m # n \/ h # g
                   PROVE  GenOK(m, h)'
        OBVIOUS
      <3>1. gen'[m][h] = gen[m][h] /\ gen[m][h].index \in Counts /\ GenOK(m, h)
        BY <2>1 DEF Shapes, Jobs, JobInv
      <3> QED
        BY <2>4, <3>1 DEF GenOK, Saved
    <2>7. \A m \in Nodes : ResubmitOK(m)'
      <3> SUFFICES ASSUME NEW m \in Nodes PROVE ResubmitOK(m)'
        OBVIOUS
      <3>1. /\ resubmit'[m] = resubmit[m] /\ resubmit[m].index \in Counts
            /\ ResubmitOK(m)
        BY <1>11 DEF SaveFiles, Shapes, Jobs, JobInv
      <3> QED
        BY <2>4, <3>1 DEF ResubmitOK, Saved
    <2> QED
      BY <1>11, <2>5, <2>6, <2>7 DEF SaveFiles, JobInv
  <1>12. ASSUME NEW n \in Nodes, NEW g \in GenIds, Done(n, g) \/ NoClient(n, g)
         PROVE  JobInv'
    <2>1. Put(n, g, Idle) /\ UNCHANGED <<pending, file, resubmit>>
      BY <1>12 DEF Done, NoClient, Put
    <2>2. gen'[n][g] = Idle /\ \A m \in Nodes, h \in GenIds :
              m # n \/ h # g => gen'[m][h] = gen[m][h]
      BY <2>1, GenPut
    <2>3. GenOK(n, g)'
      BY <2>2 DEF Idle, GenOK
    <2>4. \A m \in Nodes, h \in GenIds : m # n \/ h # g => GenOK(m, h)'
      BY <2>1, <2>2 DEF JobInv, GenOK, Saved
    <2> QED
      BY <2>1, <2>3, <2>4 DEF JobInv, ResubmitOK, Saved
  <1>13. ASSUME NEW n \in Nodes, Restart(n)
         PROVE  JobInv'
    <2>1. resubmit'[n] = Idle /\ \A g \in GenIds : gen'[n][g] = Idle
      BY <1>13 DEF Restart, Shapes
    <2>2. ResubmitOK(n)' /\ \A g \in GenIds : GenOK(n, g)'
      BY <2>1 DEF Idle, ResubmitOK, GenOK
    <2>3. \A m \in Nodes \ {n} : /\ resubmit'[m] = resubmit[m]
                                 /\ gen'[m] = gen[m] /\ file'[m] = file[m]
      BY <1>13 DEF Restart, Shapes
    <2>4. \A m \in Nodes \ {n} : ResubmitOK(m)' /\ \A g \in GenIds : GenOK(m, g)'
      BY <2>3 DEF JobInv, ResubmitOK, GenOK, Saved
    <2> QED
      BY <1>13, <2>2, <2>4 DEF Restart, JobInv
  <1>14. CASE IntervalPasses \/ Finalize \/ (\E n \in Nodes : Observe(n))
              \/ UNCHANGED vars
    BY <1>1, <1>14 DEF IntervalPasses, Finalize, Observe, vars
  <1> QED
    BY <1>2, <1>3, <1>4, <1>6, <1>7, <1>9, <1>10, <1>11, <1>12, <1>13, <1>14
       DEF Next, GenStep, LoopStep

(* Whoever sets the flag of a node, a goroutine of it that will clear it   *)
(* is past its start.                                                      *)
LEMMA FlagStep == IInv /\ [Next]_vars => FlagIsCleared'
  <1> DEFINE Busy == {"generate", "send", "wait", "done"}
  <1>0. FlagIsCleared <=>
          \A n \in Nodes : isRunning[n] => \E g \in GenIds : gen[n][g].pc \in Busy
    BY DEF FlagIsCleared, Generating, GenAt
  <1>0p. FlagIsCleared' <=>
          \A n \in Nodes : isRunning'[n] => \E g \in GenIds : gen'[n][g].pc \in Busy
    BY DEF FlagIsCleared, Generating, GenAt
  <1> SUFFICES ASSUME Shapes, FlagIsCleared, [Next]_vars PROVE FlagIsCleared'
    BY DEF IInv
  <1> USE DEF chainVars, nodeVars, faultVars
  <1>1. CASE UNCHANGED <<isRunning, gen>>
    BY <1>0, <1>0p, <1>1
  <1>2. ASSUME UNCHANGED isRunning,
               \A n \in Nodes, g \in GenIds :
                   gen[n][g].pc \in Busy => gen'[n][g].pc \in Busy
        PROVE  FlagIsCleared'
    BY <1>0, <1>0p, <1>2
  <1>3. ASSUME NEW n \in Nodes, SetFlag(n, FALSE),
               \A m \in Nodes, g \in GenIds : m # n => gen'[m][g] = gen[m][g]
        PROVE  FlagIsCleared'
    <2>1. ~isRunning'[n] /\ \A m \in Nodes : m # n => isRunning'[m] = isRunning[m]
      BY <1>3 DEF SetFlag, Shapes
    <2> QED
      BY <1>0, <1>0p, <1>3, <2>1
  <1>4. ASSUME NEW n \in Nodes, RunGenerates(n)
        PROVE  FlagIsCleared'
    <2>1. PICK j : j = Job(n, "spawned")
      OBVIOUS
    <2>2. PICK g \in GenIds : gen[n][g] = Idle /\ Put(n, g, j)
      BY <1>4, <2>1 DEF RunGenerates, Put
    <2>3. \A m \in Nodes, h \in GenIds :
              m # n \/ h # g => gen'[m][h] = gen[m][h]
      BY <2>2, GenPut
    <2>4. gen[n][g].pc \notin Busy
      BY <2>2 DEF Idle
    <2>5. UNCHANGED isRunning
      BY <1>4 DEF RunGenerates
    <2> HIDE DEF Busy
    <2> QED
      BY <1>2, <2>3, <2>4, <2>5
  <1>5. ASSUME NEW n \in Nodes, NEW g \in GenIds, NEW there \in Points,
               GoTo(n, g, there)
        PROVE  /\ gen'[n][g].pc = there
               /\ \A m \in Nodes, h \in GenIds :
                     m # n \/ h # g => gen'[m][h] = gen[m][h]
    <2>1. gen'[n][g] = [pc |-> there, index |-> gen[n][g].index,
                        passed |-> gen[n][g].passed]
      BY <1>5, GenType
    <2>2. \A m \in Nodes, h \in GenIds :
              m # n \/ h # g => gen'[m][h] = gen[m][h]
      BY <1>5, GenType
    <2> QED
      BY <2>1, <2>2
  <1>6. ASSUME NEW n \in Nodes, NEW g \in GenIds, NEW there \in Points,
               GoTo(n, g, there), there \in Busy, UNCHANGED isRunning
        PROVE  FlagIsCleared'
    <2>1. /\ gen'[n][g].pc = there
          /\ \A m \in Nodes, h \in GenIds :
                m # n \/ h # g => gen'[m][h] = gen[m][h]
      BY <1>5, <1>6
    <2> HIDE DEF Busy
    <2> QED
      BY <1>2, <1>6, <2>1
  <1>7. ASSUME NEW n \in Nodes, NEW g \in GenIds, Start(n, g)
        PROVE  FlagIsCleared'
    <2>1. /\ gen'[n][g].pc = "generate"
          /\ \A m \in Nodes, h \in GenIds :
                m # n \/ h # g => gen'[m][h] = gen[m][h]
      BY <1>5, <1>7 DEF Start, Points
    <2>2. \A m \in Nodes : m # n => isRunning'[m] = isRunning[m]
      BY <1>7 DEF Start, SetFlag, Shapes
    <2> QED
      BY <1>0, <1>0p, <2>1, <2>2
  <1>8. ASSUME NEW n \in Nodes, NEW g \in GenIds,
               SaveFiles(n, g) \/ SubmitMined(n, g)
        PROVE  FlagIsCleared'
    <2>1. \E there \in Points : GoTo(n, g, there) /\ there \in Busy
      BY <1>8 DEF SaveFiles, SubmitMined, Points
    <2>2. UNCHANGED isRunning
      BY <1>8 DEF SaveFiles, SubmitMined
    <2> HIDE DEF Busy
    <2> QED
      BY <1>6, <2>1, <2>2
  <1>9. ASSUME NEW n \in Nodes, NEW g \in GenIds, HandleError(n, g)
        PROVE  FlagIsCleared'
    <2>1. \A m \in Nodes, h \in GenIds : m # n => gen'[m][h] = gen[m][h]
      BY <1>5, <1>9 DEF HandleError, Points
    <2> QED
      BY <1>3, <1>9, <2>1 DEF HandleError
  <1>10. ASSUME NEW n \in Nodes, NEW g \in GenIds, Submit(n, g)
         PROVE  FlagIsCleared'
    <2>1. CASE HandleError(n, g)
      BY <1>9, <2>1
    <2>2. CASE GoTo(n, g, "wait") /\ UNCHANGED isRunning
      BY <1>6, <2>2 DEF Points
    <2> QED
      BY <1>10, <2>1, <2>2 DEF Submit
  <1>11. ASSUME NEW n \in Nodes, NEW g \in GenIds, Done(n, g) \/ NoClient(n, g)
         PROVE  FlagIsCleared'
    <2>1. Put(n, g, Idle) /\ SetFlag(n, FALSE)
      BY <1>11 DEF Done, NoClient, Put
    <2>2. \A m \in Nodes, h \in GenIds : m # n => gen'[m][h] = gen[m][h]
      BY <2>1, GenPut
    <2> QED
      BY <1>3, <2>1, <2>2
  <1>12. ASSUME NEW n \in Nodes, NEW g \in GenIds, GenerationFails(n, g)
         PROVE  FlagIsCleared'
    BY <1>9, <1>12 DEF GenerationFails
  <1>13. ASSUME NEW n \in Nodes, Restart(n)
         PROVE  FlagIsCleared'
    <2>1. \A m \in Nodes, h \in GenIds : m # n => gen'[m][h] = gen[m][h]
      BY <1>13 DEF Restart, Shapes
    <2> QED
      BY <1>3, <1>13, <2>1 DEF Restart
  <1>14. CASE \/ IntervalPasses \/ Finalize \/ UNCHANGED vars
              \/ \E n \in Trusted, i, k \in Counts : Mine(n, i, k)
              \/ \E n \in Nodes : \/ Observe(n) \/ RunResubmits(n)
                                  \/ LoopStep(n) \/ ResubmitFails(n)
    BY <1>1, <1>14 DEF IntervalPasses, Finalize, vars, Mine, Observe,
                       RunResubmits, LoopStep, Resubmit, ResubmitMined,
                       ResubmitFails
  <1> QED
    BY <1>4, <1>7, <1>8, <1>10, <1>11, <1>12, <1>13, <1>14 DEF Next, GenStep

LEMMA IInvHolds == Spec => []IInv
  <1>1. IInv /\ [Next]_vars => IInv'
    BY ShapesStep, TimeStep, JobStep, FlagStep DEF IInv
  <1> QED
    BY <1>1, InitIInv, PTL DEF Spec

(* Type correctness of the rewards task and its contract, for any nodes    *)
(* and any Oracle DAO: whatever trees are voted for, in whatever order     *)
(* their transactions are mined, the period's start never overtakes the    *)
(* intervals that have passed.                                             *)
THEOREM TypeCorrect == Spec => []TypeOK
  <1>1. IInv => TypeOK
    <2> SUFFICES ASSUME Shapes, start <= elapsed PROVE TypeOK
      BY DEF IInv, TimeInv
    <2>1. start \in 0..elapsed
      BY RewardsAssumption DEF Shapes, Counts
    <2> QED
      BY <2>1 DEF Shapes, TypeOK
  <1> QED
    BY <1>1, IInvHolds, PTL

(* No path through generateTree leaves the flag set with nobody to clear   *)
(* it, for any number of goroutines, failures and restarts.                *)
THEOREM FlagCleared == Spec => []FlagIsCleared
  <1>1. IInv => FlagIsCleared
    BY DEF IInv
  <1> QED
    BY <1>1, IInvHolds, PTL

(* No vote is sent, by a goroutine or by a later run, before its tree is   *)
(* on the member's disk.                                                   *)
THEOREM SavedBeforeVote == Spec => TreeSavedBeforeVote
  <1> DEFINE Step == \A v \in pending' \ pending : file[v[1]][v[2]] # 0
  <1>1. IInv /\ [Next]_vars => [Step]_vars
    <2> SUFFICES ASSUME JobInv, [Next]_vars PROVE Step
      BY DEF IInv
    <2> USE DEF chainVars, nodeVars, faultVars
    <2>1. ASSUME pending' \subseteq pending PROVE Step
      BY <2>1
    <2>2. ASSUME NEW n \in Nodes, Resubmit(n) PROVE Step
      <3>1. pending' \subseteq pending \cup {Vote(n, resubmit[n])}
        BY <2>2 DEF Resubmit
      <3>2. file[n][resubmit[n].index] # 0
        BY <2>2 DEF Resubmit, JobInv, ResubmitOK, Saved
      <3>3. /\ Vote(n, resubmit[n])[1] = n
            /\ Vote(n, resubmit[n])[2] = resubmit[n].index
        BY DEF Vote
      <3> QED
        BY <3>1, <3>2, <3>3
    <2>3. ASSUME NEW n \in Nodes, NEW g \in GenIds, Submit(n, g) PROVE Step
      <3>1. pending' \subseteq pending \cup {Vote(n, gen[n][g])}
        BY <2>3 DEF Submit
      <3>2. file[n][gen[n][g].index] # 0
        BY <2>3 DEF Submit, GenAt, JobInv, GenOK, Saved
      <3>3. /\ Vote(n, gen[n][g])[1] = n
            /\ Vote(n, gen[n][g])[2] = gen[n][g].index
        BY DEF Vote
      <3> QED
        BY <3>1, <3>2, <3>3
    <2>4. ASSUME NEW n \in Trusted, NEW i \in Counts, NEW k \in Counts,
                 Mine(n, i, k)
          PROVE  Step
      BY <2>1, <2>4 DEF Mine
    <2>5. CASE \/ IntervalPasses \/ Finalize \/ UNCHANGED vars
               \/ \E n \in Nodes : \/ Observe(n) \/ RunResubmits(n)
                                   \/ RunGenerates(n) \/ ResubmitMined(n)
                                   \/ ResubmitFails(n) \/ Restart(n)
      <3>1. pending' = pending
        BY <2>5 DEF IntervalPasses, Finalize, vars, Observe, RunResubmits,
                    RunGenerates, ResubmitMined, ResubmitFails, Restart
      <3> QED
        BY <2>1, <3>1
    <2>6. CASE \E n \in Nodes, g \in GenIds :
                  \/ Start(n, g) \/ SaveFiles(n, g) \/ SubmitMined(n, g)
                  \/ Done(n, g) \/ NoClient(n, g) \/ GenerationFails(n, g)
      <3>1. pending' = pending
        BY <2>6 DEF Start, SaveFiles, SubmitMined, Done, NoClient,
                    GenerationFails
      <3> QED
        BY <2>1, <3>1
    <2> HIDE DEF Step
    <2> QED
      BY <2>2, <2>3, <2>4, <2>5, <2>6 DEF Next, GenStep, LoopStep
  <1> QED
    BY <1>1, IInvHolds, PTL DEF Spec, TreeSavedBeforeVote
=============================================================================
