------------------------ MODULE ClientManagerProofs ------------------------
(***************************************************************************)
(* Proofs about the two client managers, for every set of goroutines,      *)
(* every set of client conditions and every bound.  First EcManager, then  *)
(* BcManager, as Bc: the two are specifications of the same variables.     *)
(* Type correctness, that a fallback client on the wrong chain is never    *)
(* used, that the poll of waitBeaconClientSynced is never served, and that *)
(* --force-fallbacks keeps every call off either primary client.           *)
(***************************************************************************)
EXTENDS EcManager, TLAPS

Bc == INSTANCE BcManager

-----------------------------------------------------------------------------
(***************************************************************************)
(* The execution client manager.                                           *)
(***************************************************************************)
(* The strengthening.  Between its question to the fallback and its last   *)
(* assignment a CheckStatus holds a status that is synced only if it       *)
(* carries no error, so that the chain test applies to it; and a waiter    *)
(* that decides holds a status on which that test has set an error.        *)
ChainInv ==
    ~IgnoreSyncCheck =>
        /\ \A p \in Checkers :
              (FallbackEnabled /\ CheckAt(p, "flagFallback")) =>
                  (status[p].fallback.synced => ~status[p].fallback.error)
        /\ ~chainMatches =>
              /\ vetted => ~fallbackReady
              /\ \A w \in Waiters :
                    /\ (FallbackEnabled /\ CheckAt(w, "decide")) =>
                           status[w].fallback.error
                    /\ check[w] \in {"poll", "pause"} =>
                           target[w] # "fallback"

IInv == TypeOK /\ ChainInv

LEMMA EcStatusType ==
  ASSUME NEW c \in Clients
  PROVE  /\ CheckEcStatus(c) \in ClientStatus
         /\ CheckEcStatus(c).synced => ~CheckEcStatus(c).error
  <1>1. CheckEcStatus(c) \in ClientStatus
    BY DEF CheckEcStatus, ClientStatus
  <1>2. CheckEcStatus(c).synced => ~CheckEcStatus(c).error
    BY DEF CheckEcStatus
  <1> QED
    BY <1>1, <1>2

LEMMA NoStatusType == NoStatus \in [primary : ClientStatus, fallback : ClientStatus]
  BY DEF NoStatus, NoClientStatus, ClientStatus

LEMMA InitIInv == Init => IInv
  <1> SUFFICES ASSUME Init PROVE IInv
    OBVIOUS
  <1>1. TypeOK
    <2>1. MgrTypeOK(Callers)
      BY FlagsAssumption, MaxChangesAssumption
         DEF Init, NewManager, MgrTypeOK, CallPoints
    <2> QED
      BY <2>1, NoStatusType DEF Init, TypeOK, CheckPoints, Clients
  <1>2. ChainInv
    BY DEF Init, ChainInv, CheckAt, Checkers
  <1> QED
    BY <1>1, <1>2 DEF IInv

LEMMA AnswerType ==
  ASSUME TypeOK, NEW c \in Clients, NEW a \in Answers(c), a # "dial tcp"
  PROVE  a \in Served \cup Errors \cup {"none"}
  BY ConditionsAssumption
     DEF TypeOK, MgrTypeOK, Answers, AllConditions, Served, Errors

(* runFunction and the clients leave everything alone that ChainInv talks  *)
(* about, but for fallbackReady, which they can only clear.                *)
LEMMA MgrStep ==
  ASSUME IInv, UNCHANGED ecVars,
         \/ \E c \in Clients : ClientChanges(c)
         \/ \E g \in Callers : EnterRunFunction(g) \/ RunFunctionStep(g)
  PROVE  /\ MgrTypeOK(Callers)'
         /\ fallbackReady' => fallbackReady
         /\ flags' = flags
  <1> USE MaxChangesAssumption, FlagsAssumption
      DEF IInv, TypeOK, MgrTypeOK, CallPoints, Clients, Served, Errors
  <1>1. ASSUME NEW c \in Clients, ClientChanges(c)
        PROVE  MgrTypeOK(Callers)' /\ (fallbackReady' => fallbackReady) /\ flags' = flags
    BY <1>1 DEF ClientChanges
  <1>2. ASSUME NEW g \in Callers, EnterRunFunction(g)
        PROVE  MgrTypeOK(Callers)' /\ (fallbackReady' => fallbackReady) /\ flags' = flags
    BY <1>2 DEF EnterRunFunction, GoTo
  <1>3. ASSUME NEW g \in Callers, RunFunctionStep(g)
        PROVE  MgrTypeOK(Callers)' /\ (fallbackReady' => fallbackReady) /\ flags' = flags
    <2>1. CASE ReadPrimaryReady(g)
      BY <2>1 DEF ReadPrimaryReady, GoTo
    <2>2. CASE RunOnPrimary(g)
      <3>1. PICK a \in Answers("primary") :
                IF a = "dial tcp" THEN GoTo(g, "primaryLost") ELSE Return(g, a)
        BY <2>2 DEF RunOnPrimary
      <3>2. a # "dial tcp" => a \in Served \cup Errors \cup {"none"}
        BY AnswerType
      <3> QED
        BY <2>2, <3>1, <3>2 DEF RunOnPrimary, GoTo, Return
    <2>3. CASE DropPrimary(g)
      BY <2>3 DEF DropPrimary, GoTo
    <2>4. CASE ReadFallbackReady(g)
      BY <2>4 DEF ReadFallbackReady, GoTo, Return
    <2>5. CASE RunOnFallback(g)
      <3>1. PICK a \in Answers("fallback") :
                IF a = "dial tcp" THEN GoTo(g, "fallbackLost") ELSE Return(g, a)
        BY <2>5 DEF RunOnFallback
      <3>2. a # "dial tcp" => a \in Served \cup Errors \cup {"none"}
        BY AnswerType
      <3> QED
        BY <2>5, <3>1, <3>2 DEF RunOnFallback, GoTo, Return
    <2>6. CASE DropFallback(g)
      BY <2>6 DEF DropFallback, Return
    <2> QED
      BY <1>3, <2>1, <2>2, <2>3, <2>4, <2>5, <2>6 DEF RunFunctionStep
  <1> QED
    BY <1>1, <1>2, <1>3

LEMMA NextIInv == IInv /\ [Next]_vars => IInv'
  <1> SUFFICES ASSUME IInv, [Next]_vars PROVE IInv'
    OBVIOUS
  <1>t. TypeOK /\ ChainInv
    BY DEF IInv
  <1> USE FlagsAssumption, CheckersAssumption
      DEF IInv, TypeOK, ChainInv, CheckAt, CheckGoTo, CheckPoints, Checkers,
          IgnoreSyncCheck
  <1>1. ASSUME UNCHANGED ecVars,
               \/ \E c \in Clients : ClientChanges(c)
               \/ \E g \in Callers : EnterRunFunction(g) \/ RunFunctionStep(g)
        PROVE  IInv'
    BY <1>1, MgrStep DEF ecVars
  <1>2. ASSUME NEW k \in Collectors, Scrape(k)
        PROVE  IInv'
    BY <1>2 DEF Scrape, mgrVars, MgrTypeOK
  <1>3. ASSUME NEW p \in Checkers, CheckStatusIgnored(p)
        PROVE  IInv'
    BY <1>3 DEF CheckStatusIgnored, CheckStatusReturns, NoStatus,
                NoClientStatus, ClientStatus, mgrVars, MgrTypeOK
  <1>4. ASSUME NEW p \in Checkers, AskPrimary(p)
        PROVE  IInv'
    BY <1>4, EcStatusType DEF AskPrimary, NoClientStatus, ClientStatus,
                              Clients, mgrVars, MgrTypeOK
  <1>5. ASSUME NEW p \in Checkers, FlagPrimary(p)
        PROVE  IInv'
    BY <1>5 DEF FlagPrimary, ClientStatus, MgrTypeOK
  <1>6. ASSUME NEW p \in Checkers, AskFallback(p)
        PROVE  IInv'
    BY <1>6, EcStatusType DEF AskFallback, ClientStatus, Clients, mgrVars,
                              MgrTypeOK
  <1>7. ASSUME NEW p \in Checkers, FlagFallback(p)
        PROVE  IInv'
    <2> DEFINE mgrStatus ==
                 [status[p] EXCEPT !.fallback.error = @ \/ WrongChain(p)]
    <2>1. mgrStatus \in [primary : ClientStatus, fallback : ClientStatus]
      BY DEF ClientStatus, WrongChain
    <2>2. TypeOK'
      BY <1>7, <2>1, NoStatusType
         DEF FlagFallback, CheckStatusReturns, MgrTypeOK
    <2>3. ChainInv'
      BY <1>7 DEF FlagFallback, WrongChain, CheckStatusReturns, ClientStatus
    <2> QED
      BY <2>2, <2>3
  <1>8. ASSUME NEW w \in Waiters, Lock(w)
        PROVE  IInv'
    BY <1>8 DEF Lock, mgrVars, MgrTypeOK
  <1>9. ASSUME NEW w \in Waiters, NEW r \in {"true", "false", "error"},
               WaitReturns(w, r)
        PROVE  IInv'
    BY <1>9 DEF WaitReturns, NoStatus, NoClientStatus, ClientStatus, Clients,
                mgrVars, MgrTypeOK
  <1>10. ASSUME NEW w \in Waiters, Decide(w)
         PROVE  IInv'
    <2>1. CASE \E r \in {"true", "error"} : WaitReturns(w, r)
      BY <2>1, <1>9
    <2>2. CASE WaitFor(w, "primary")
      BY <1>10, <2>2 DEF WaitFor, Clients, mgrVars, MgrTypeOK
    <2>3. CASE /\ FallbackEnabled /\ Syncing(status[w].fallback)
               /\ WaitFor(w, "fallback")
      BY <1>10, <2>3 DEF Decide, WaitFor, Syncing, Clients, mgrVars, MgrTypeOK
    <2> QED
      BY <1>10, <2>1, <2>2, <2>3 DEF Decide
  <1>11. ASSUME NEW w \in Waiters,
                PollUnfinished(w) \/ Refresh(w) \/ PollAgain(w)
         PROVE  IInv'
    BY <1>11 DEF PollUnfinished, Refresh, PollAgain, mgrVars, MgrTypeOK
  <1>12. ASSUME NEW w \in Waiters,
                PollFails(w) \/ PollSucceeds(w) \/ TimeOut(w)
         PROVE  IInv'
    BY <1>9, <1>12 DEF PollFails, PollSucceeds, TimeOut
  <1>13. CASE UNCHANGED vars
    BY <1>13 DEF vars, mgrVars, ecVars, MgrTypeOK
  <1> QED
    BY <1>1, <1>2, <1>3, <1>4, <1>5, <1>6, <1>7, <1>8, <1>10, <1>11, <1>12,
       <1>13 DEF Next, CheckStatusStep, WaitStep

LEMMA IInvHolds == Spec => []IInv
  BY InitIInv, NextIInv, PTL DEF Spec

(* Type correctness of the execution client manager.                       *)
THEOREM TypeCorrect == Spec => []TypeOK
  <1>1. IInv => TypeOK
    BY DEF IInv
  <1> QED
    BY IInvHolds, <1>1, PTL

(* A fallback client on the wrong chain is neither flagged ready after the *)
(* first complete CheckStatus nor waited for, for any number of concurrent *)
(* callers, waiters and metrics scrapes.                                   *)
THEOREM WrongChainIsNeverUsed == Spec => []WrongChainNeverUsed
  <1>1. IInv => WrongChainNeverUsed
    BY DEF IInv, ChainInv, WrongChainNeverUsed
  <1> QED
    BY IInvHolds, <1>1, PTL

(* Why the primary stays unused: its flag starts cleared, and the only     *)
(* assignment that could set it is behind the early return of CheckStatus  *)
(* for --ignore-sync-check, so no check ever comes to it.                  *)
ForcedInv ==
    AllFlags \subseteq flags =>
        /\ ~primaryReady
        /\ \A g \in Callers : call[g] # "onPrimary"
        /\ \A p \in Checkers : check[p] # "flagPrimary"

LEMMA InitForced == Init => ForcedInv
  BY DEF Init, NewManager, ForcedInv, AllFlags

LEMMA NextForced == TypeOK /\ ForcedInv /\ [Next]_vars => ForcedInv'
  <1> SUFFICES ASSUME TypeOK, ForcedInv, [Next]_vars PROVE ForcedInv'
    OBVIOUS
  <1> USE DEF TypeOK, MgrTypeOK, ForcedInv, AllFlags, At, CheckAt, GoTo,
              Return, CheckGoTo, CheckPoints, CallPoints, Checkers
  <1>1. ASSUME NEW c \in Clients, ClientChanges(c), UNCHANGED ecVars
        PROVE  ForcedInv'
    BY <1>1 DEF ClientChanges, ecVars
  <1>2. ASSUME NEW g \in Callers, EnterRunFunction(g), UNCHANGED ecVars
        PROVE  ForcedInv'
    BY <1>2 DEF EnterRunFunction, ecVars
  <1>3. ASSUME NEW g \in Callers, RunFunctionStep(g), UNCHANGED ecVars
        PROVE  ForcedInv'
    BY <1>3 DEF RunFunctionStep, ReadPrimaryReady, RunOnPrimary, DropPrimary,
                ReadFallbackReady, RunOnFallback, DropFallback, ecVars
  <1>4. ASSUME NEW k \in Collectors, Scrape(k)
        PROVE  ForcedInv'
    BY <1>4 DEF Scrape, mgrVars
  <1>5. ASSUME NEW p \in Checkers, CheckStatusStep(p)
        PROVE  ForcedInv'
    <2>1. CASE CheckStatusIgnored(p)
      BY <2>1 DEF CheckStatusIgnored, CheckStatusReturns, mgrVars
    <2>2. CASE AskPrimary(p)
      BY <2>2 DEF AskPrimary, IgnoreSyncCheck, mgrVars
    <2>3. CASE FlagPrimary(p)
      BY <2>3 DEF FlagPrimary
    <2>4. CASE AskFallback(p)
      BY <2>4 DEF AskFallback, mgrVars
    <2>5. CASE FlagFallback(p)
      BY <2>5 DEF FlagFallback, CheckStatusReturns
    <2> QED
      BY <1>5, <2>1, <2>2, <2>3, <2>4, <2>5 DEF CheckStatusStep
  <1>6. ASSUME NEW w \in Waiters, Lock(w) \/ WaitStep(w) \/ TimeOut(w)
        PROVE  ForcedInv'
    BY <1>6 DEF Lock, WaitStep, TimeOut, Decide, PollFails, PollSucceeds,
                PollUnfinished, Refresh, PollAgain, WaitReturns, WaitFor,
                mgrVars
  <1>7. CASE UNCHANGED vars
    BY <1>7 DEF vars, mgrVars, ecVars
  <1> QED
    BY <1>1, <1>2, <1>3, <1>4, <1>5, <1>6, <1>7 DEF Next

(* Under --ignore-sync-check and --force-fallbacks no call goes to the     *)
(* primary client, for any number of callers, waiters and scrapes.         *)
THEOREM FallbacksStayForced == Spec => []FallbacksForced
  <1>1. TypeOK /\ ForcedInv => FallbacksForced
    BY DEF TypeOK, MgrTypeOK, ForcedInv, FallbacksForced
  <1> QED
    BY TypeCorrect, InitForced, NextForced, <1>1, PTL DEF Spec
-----------------------------------------------------------------------------
(***************************************************************************)
(* The Beacon client manager.                                              *)
(***************************************************************************)
(* Where a waiter can be inside runFunction1 while both flags are clear.   *)
FlaglessPoints == {"idle", "readPrimary", "readFallback"}

(* The strengthening.  Whoever is past Lock holds beaconClientSyncLock, so *)
(* no other waiter can be about to set a flag; the flags a poll found      *)
(* clear stay clear, and the poll can only walk from the first test of     *)
(* runFunction1 to its last return.                                        *)
PollInv ==
    \A w \in Waiters :
        /\ (check[w] # "idle") <=> (syncLock = w)
        /\ ~Bc!CheckAt(w, "pause")
        /\ ~Bc!CheckAt(w, "polling") => Bc!At(w, "idle")
        /\ Bc!CheckAt(w, "poll") => (~primaryReady /\ ~fallbackReady)
        /\ Bc!CheckAt(w, "polling") =>
              /\ ~primaryReady /\ ~fallbackReady
              /\ call[w] \in FlaglessPoints
              /\ Bc!At(w, "idle") => outcome[w] = "notReady"

BcIInv == Bc!TypeOK /\ PollInv

LEMMA InitBcIInv == Bc!Init => BcIInv
  <1> SUFFICES ASSUME Bc!Init PROVE BcIInv
    OBVIOUS
  <1>1. Bc!TypeOK
    BY FlagsAssumption, ConditionsAssumption, MaxChangesAssumption
      
          DEF Bc!Init, Bc!NewManager, Bc!TypeOK, Bc!MgrTypeOK, Bc!CallPoints, Bc!CheckPoints,
           Bc!BcStatuses, Bc!Clients
  <1>2. PollInv
    BY WaitersAssumption
       DEF Bc!Init, Bc!NewManager, PollInv, Bc!CheckAt, Bc!At, Bc!Procs
  <1> QED
    BY <1>1, <1>2 DEF BcIInv

LEMMA BcStatusType ==
  ASSUME Bc!TypeOK, NEW c \in Bc!Clients
  PROVE  Bc!CheckBcStatus(c) \in Bc!BcStatuses
  BY ConditionsAssumption
    
        DEF Bc!TypeOK, Bc!MgrTypeOK, Bc!CheckBcStatus, Bc!BcStatuses, AllConditions, Bc!AllConditions

LEMMA BcAnswerType ==
  ASSUME Bc!TypeOK, NEW c \in Bc!Clients, NEW a \in Bc!Answers(c), a # "dial tcp"
  PROVE  a \in Bc!Served \cup Bc!Errors \cup {"none"}
  BY ConditionsAssumption
    
        DEF Bc!TypeOK, Bc!MgrTypeOK, Bc!Answers, AllConditions, Bc!AllConditions, Bc!Served, Bc!Errors

LEMMA BcTypeStep == Bc!TypeOK /\ [Bc!Next]_Bc!vars => Bc!TypeOK'
  <1> SUFFICES ASSUME Bc!TypeOK, [Bc!Next]_Bc!vars PROVE Bc!TypeOK'
    OBVIOUS
  <1> USE MaxChangesAssumption, FlagsAssumption
     
         DEF Bc!TypeOK, Bc!MgrTypeOK, Bc!CallPoints, Bc!CheckPoints, Bc!BcStatuses, Bc!Clients,
          Bc!Served, Bc!Errors
  <1>1. ASSUME NEW c \in Bc!Clients, Bc!ClientChanges(c), UNCHANGED Bc!bcVars
        PROVE  Bc!TypeOK'
    BY <1>1 DEF Bc!ClientChanges, Bc!bcVars
  <1>2. ASSUME NEW g \in Callers, Bc!EnterRunFunction(g), UNCHANGED Bc!bcVars
        PROVE  Bc!TypeOK'
    BY <1>2 DEF Bc!EnterRunFunction, Bc!GoTo, Bc!bcVars, Bc!Procs
  <1>3. ASSUME NEW g \in Bc!Procs, Bc!RunFunctionStep(g), UNCHANGED Bc!bcVars
        PROVE  Bc!TypeOK'
    <2>1. CASE Bc!ReadPrimaryReady(g)
      BY <1>3, <2>1 DEF Bc!ReadPrimaryReady, Bc!GoTo, Bc!bcVars
    <2>2. CASE Bc!RunOnPrimary(g)
      <3>1. PICK a \in Bc!Answers("primary") :
                IF a = "dial tcp" THEN Bc!GoTo(g, "primaryLost") ELSE Bc!Return(g, a)
        BY <2>2 DEF Bc!RunOnPrimary
      <3>2. a # "dial tcp" => a \in Bc!Served \cup Bc!Errors \cup {"none"}
        BY BcAnswerType
      <3> QED
        BY <1>3, <2>2, <3>1, <3>2 DEF Bc!RunOnPrimary, Bc!GoTo, Bc!Return, Bc!bcVars
    <2>3. CASE Bc!DropPrimary(g)
      BY <1>3, <2>3 DEF Bc!DropPrimary, Bc!GoTo, Bc!bcVars
    <2>4. CASE Bc!ReadFallbackReady(g)
      BY <1>3, <2>4 DEF Bc!ReadFallbackReady, Bc!GoTo, Bc!Return, Bc!bcVars
    <2>5. CASE Bc!RunOnFallback(g)
      <3>1. PICK a \in Bc!Answers("fallback") :
                IF a = "dial tcp" THEN Bc!GoTo(g, "fallbackLost") ELSE Bc!Return(g, a)
        BY <2>5 DEF Bc!RunOnFallback
      <3>2. a # "dial tcp" => a \in Bc!Served \cup Bc!Errors \cup {"none"}
        BY BcAnswerType
      <3> QED
        BY <1>3, <2>5, <3>1, <3>2 DEF Bc!RunOnFallback, Bc!GoTo, Bc!Return, Bc!bcVars
    <2>6. CASE Bc!DropFallback(g)
      BY <1>3, <2>6 DEF Bc!DropFallback, Bc!Return, Bc!bcVars
    <2> QED
      BY <1>3, <2>1, <2>2, <2>3, <2>4, <2>5, <2>6 DEF Bc!RunFunctionStep
  <1>4. ASSUME NEW w \in Waiters, Bc!CheckStatusStep(w)
        PROVE  Bc!TypeOK'
    <2>1. CASE Bc!CheckStatusIgnored(w)
      BY <2>1 DEF Bc!CheckStatusIgnored, Bc!CheckGoTo, Bc!mgrVars
    <2>2. CASE Bc!AskPrimary(w)
      BY <2>2, BcStatusType DEF Bc!AskPrimary, Bc!CheckGoTo, Bc!mgrVars
    <2>3. CASE Bc!AskFallback(w)
      BY <2>3, BcStatusType DEF Bc!AskFallback, Bc!CheckGoTo, Bc!mgrVars
    <2>4. CASE Bc!FlagClients(w)
      BY <2>4 DEF Bc!FlagClients, Bc!CheckGoTo
    <2> QED
      BY <1>4, <2>1, <2>2, <2>3, <2>4 DEF Bc!CheckStatusStep
  <1>5. ASSUME NEW w \in Waiters, Bc!Lock(w)
        PROVE  Bc!TypeOK'
    BY <1>5 DEF Bc!Lock, Bc!CheckGoTo, Bc!mgrVars
  <1>6. ASSUME NEW w \in Waiters, NEW r \in {"true", "error"},
               Bc!WaitReturns(w, r)
        PROVE  Bc!TypeOK'
    BY <1>6 DEF Bc!WaitReturns, Bc!CheckGoTo, Bc!mgrVars
  <1>7. ASSUME NEW w \in Waiters, Bc!WaitStep(w)
        PROVE  Bc!TypeOK'
    <2>1. CASE Bc!Decide(w)
      BY <2>1, <1>6 DEF Bc!Decide, Bc!CheckGoTo, Bc!mgrVars
    <2>2. CASE Bc!Poll(w)
      BY <2>2 DEF Bc!Poll, Bc!EnterRunFunction, Bc!GoTo, Bc!CheckGoTo, Bc!Procs
    <2>3. CASE Bc!PollReturns(w)
      BY <2>3, <1>6 DEF Bc!PollReturns, Bc!CheckGoTo, Bc!mgrVars
    <2> QED
      BY <1>7, <2>1, <2>2, <2>3 DEF Bc!WaitStep
  <1>8. CASE UNCHANGED Bc!vars
    BY <1>8 DEF Bc!vars, Bc!mgrVars, Bc!bcVars
  <1> QED
    BY <1>1, <1>2, <1>3, <1>4, <1>5, <1>7, <1>8 DEF Bc!Next

LEMMA PollStep == BcIInv /\ [Bc!Next]_Bc!vars => PollInv'
  <1> SUFFICES ASSUME Bc!TypeOK, PollInv, [Bc!Next]_Bc!vars PROVE PollInv'
    BY DEF BcIInv
  <1> USE WaitersAssumption
     
         DEF Bc!TypeOK, Bc!MgrTypeOK, PollInv, Bc!CheckAt, Bc!At, FlaglessPoints, Bc!Procs
  <1>1. ASSUME NEW c \in Bc!Clients, Bc!ClientChanges(c), UNCHANGED Bc!bcVars
        PROVE  PollInv'
    BY <1>1 DEF Bc!ClientChanges, Bc!bcVars
  <1>2. ASSUME NEW g \in Callers, Bc!EnterRunFunction(g), UNCHANGED Bc!bcVars
        PROVE  PollInv'
    BY <1>2 DEF Bc!EnterRunFunction, Bc!GoTo, Bc!bcVars
  <1>3. ASSUME NEW g \in Bc!Procs, Bc!RunFunctionStep(g), UNCHANGED Bc!bcVars
        PROVE  PollInv'
    <2>1. CASE Bc!ReadPrimaryReady(g)
      BY <1>3, <2>1 DEF Bc!ReadPrimaryReady, Bc!GoTo, Bc!bcVars
    <2>2. CASE Bc!RunOnPrimary(g)
      <3>1. g \notin Waiters
        BY <2>2 DEF Bc!RunOnPrimary
      <3>2. \A w \in Waiters : call'[w] = call[w] /\ outcome'[w] = outcome[w]
        BY <2>2, <3>1 DEF Bc!RunOnPrimary, Bc!GoTo, Bc!Return
      <3>3. UNCHANGED <<primaryReady, fallbackReady, syncLock, check>>
        BY <1>3, <2>2 DEF Bc!RunOnPrimary, Bc!bcVars
      <3> QED
        BY <3>2, <3>3
    <2>3. CASE Bc!DropPrimary(g)
      BY <1>3, <2>3 DEF Bc!DropPrimary, Bc!GoTo, Bc!bcVars
    <2>4. CASE Bc!ReadFallbackReady(g)
      BY <1>3, <2>4 DEF Bc!ReadFallbackReady, Bc!GoTo, Bc!Return, Bc!bcVars
    <2>5. CASE Bc!RunOnFallback(g)
      <3>1. g \notin Waiters
        BY <2>5 DEF Bc!RunOnFallback
      <3>2. \A w \in Waiters : call'[w] = call[w] /\ outcome'[w] = outcome[w]
        BY <2>5, <3>1 DEF Bc!RunOnFallback, Bc!GoTo, Bc!Return
      <3>3. UNCHANGED <<primaryReady, fallbackReady, syncLock, check>>
        BY <1>3, <2>5 DEF Bc!RunOnFallback, Bc!bcVars
      <3> QED
        BY <3>2, <3>3
    <2>6. CASE Bc!DropFallback(g)
      BY <1>3, <2>6 DEF Bc!DropFallback, Bc!Return, Bc!bcVars
    <2> QED
      BY <1>3, <2>1, <2>2, <2>3, <2>4, <2>5, <2>6 DEF Bc!RunFunctionStep
  <1>4. ASSUME NEW w \in Waiters, Bc!CheckStatusStep(w)
        PROVE  PollInv'
    <2>1. CASE Bc!CheckStatusIgnored(w)
      BY <2>1 DEF Bc!CheckStatusIgnored, Bc!CheckGoTo, Bc!mgrVars
    <2>2. CASE Bc!AskPrimary(w)
      BY <2>2 DEF Bc!AskPrimary, Bc!CheckGoTo, Bc!mgrVars
    <2>3. CASE Bc!AskFallback(w)
      BY <2>3 DEF Bc!AskFallback, Bc!CheckGoTo, Bc!mgrVars
    <2>4. CASE Bc!FlagClients(w)
      BY <2>4 DEF Bc!FlagClients, Bc!CheckGoTo
    <2> QED
      BY <1>4, <2>1, <2>2, <2>3, <2>4 DEF Bc!CheckStatusStep
  <1>5. ASSUME NEW w \in Waiters, Bc!Lock(w)
        PROVE  PollInv'
    BY <1>5 DEF Bc!Lock, Bc!CheckGoTo, Bc!mgrVars
  <1>6. ASSUME NEW w \in Waiters, NEW r \in {"true", "error"},
               syncLock = w, Bc!At(w, "idle"), Bc!WaitReturns(w, r)
        PROVE  PollInv'
    BY <1>6 DEF Bc!WaitReturns, Bc!CheckGoTo, Bc!mgrVars
  <1>7. ASSUME NEW w \in Waiters, Bc!WaitStep(w)
        PROVE  PollInv'
    <2>1. CASE Bc!Decide(w)
      <3>1. syncLock = w /\ Bc!At(w, "idle")
        BY <2>1 DEF Bc!Decide
      <3>2. CASE Bc!WaitReturns(w, "true") \/ Bc!WaitReturns(w, "error")
        BY <1>6, <3>1, <3>2
      <3>3. CASE /\ ~primaryReady /\ ~fallbackReady
                 /\ Bc!CheckGoTo(w, "poll")
                 /\ UNCHANGED <<Bc!mgrVars, syncLock, status, waited>>
        BY <3>1, <3>3 DEF Bc!CheckGoTo, Bc!mgrVars
      <3> QED
        BY <2>1, <3>2, <3>3 DEF Bc!Decide
    <2>2. CASE Bc!Poll(w)
      BY <2>2 DEF Bc!Poll, Bc!EnterRunFunction, Bc!GoTo, Bc!CheckGoTo
    <2>3. CASE Bc!PollReturns(w)
      <3>1. outcome[w] = "notReady" /\ syncLock = w /\ Bc!At(w, "idle")
        BY <2>3 DEF Bc!PollReturns
      <3>2. Bc!WaitReturns(w, "error")
        BY <2>3, <3>1 DEF Bc!PollReturns, Bc!Errors
      <3> QED
        BY <1>6, <3>1, <3>2
    <2> QED
      BY <1>7, <2>1, <2>2, <2>3 DEF Bc!WaitStep
  <1>8. CASE UNCHANGED Bc!vars
    BY <1>8 DEF Bc!vars, Bc!mgrVars, Bc!bcVars
  <1> QED
    BY <1>1, <1>2, <1>3, <1>4, <1>5, <1>7, <1>8 DEF Bc!Next

LEMMA BcIInvHolds == Bc!Spec => []BcIInv
  <1>1. BcIInv /\ [Bc!Next]_Bc!vars => BcIInv'
    BY BcTypeStep, PollStep DEF BcIInv
  <1> QED
    BY InitBcIInv, <1>1, PTL DEF Bc!Spec

(* Type correctness of the Beacon client manager.                          *)
THEOREM BcTypeCorrect == Bc!Spec => []Bc!TypeOK
  <1>1. BcIInv => Bc!TypeOK
    BY DEF BcIInv
  <1> QED
    BY BcIInvHolds, <1>1, PTL

(* The poll inside waitBeaconClientSynced always fails with "no Beacon     *)
(* clients were ready": the wait loop never waits, for any number of       *)
(* goroutines and any behaviour of the two clients.                        *)
THEOREM PollIsNeverServed == Bc!Spec => []PollNeverServed
  <1>1. BcIInv => PollNeverServed
    BY DEF BcIInv, PollInv, PollNeverServed, CheckAt, At, Bc!CheckAt, Bc!At
  <1> QED
    BY BcIInvHolds, <1>1, PTL


(* Why the primary stays unused here: as in EcManager its flag starts      *)
(* cleared, and FlagClients, the only assignment that could set it, is     *)
(* behind the early return of CheckStatus for --ignore-sync-check.         *)
BcForcedInv ==
    AllFlags \subseteq flags =>
        /\ ~primaryReady
        /\ \A g \in Bc!Procs : call[g] # "onPrimary"
        /\ \A w \in Waiters : check[w] \notin {"askFallback", "flag"}

LEMMA NextBcForced == Bc!TypeOK /\ BcForcedInv /\ [Bc!Next]_Bc!vars => BcForcedInv'
  <1> SUFFICES ASSUME Bc!TypeOK, BcForcedInv, [Bc!Next]_Bc!vars PROVE BcForcedInv'
    OBVIOUS
  <1> USE DEF Bc!TypeOK, Bc!MgrTypeOK, BcForcedInv, AllFlags, Bc!At, Bc!CheckAt, Bc!GoTo,
              Bc!Return, Bc!CheckGoTo, Bc!CheckPoints, Bc!CallPoints, Bc!Procs
  <1>1. ASSUME NEW c \in Bc!Clients, Bc!ClientChanges(c), UNCHANGED Bc!bcVars
        PROVE  BcForcedInv'
    BY <1>1 DEF Bc!ClientChanges, Bc!bcVars
  <1>2. ASSUME NEW g \in Bc!Procs, Bc!EnterRunFunction(g), UNCHANGED check
        PROVE  BcForcedInv'
    BY <1>2 DEF Bc!EnterRunFunction
  <1>3. ASSUME NEW g \in Bc!Procs, Bc!RunFunctionStep(g), UNCHANGED Bc!bcVars
        PROVE  BcForcedInv'
    BY <1>3 DEF Bc!RunFunctionStep, Bc!ReadPrimaryReady, Bc!RunOnPrimary, Bc!DropPrimary,
                Bc!ReadFallbackReady, Bc!RunOnFallback, Bc!DropFallback, Bc!bcVars
  <1>4. ASSUME NEW w \in Waiters, Bc!CheckStatusStep(w)
        PROVE  BcForcedInv'
    <2>1. CASE Bc!CheckStatusIgnored(w)
      BY <2>1 DEF Bc!CheckStatusIgnored, Bc!mgrVars
    <2>2. CASE Bc!AskPrimary(w)
      BY <2>2 DEF Bc!AskPrimary, Bc!IgnoreSyncCheck, Bc!mgrVars
    <2>3. CASE Bc!AskFallback(w)
      BY <2>3 DEF Bc!AskFallback, Bc!mgrVars
    <2>4. CASE Bc!FlagClients(w)
      BY <2>4 DEF Bc!FlagClients
    <2> QED
      BY <1>4, <2>1, <2>2, <2>3, <2>4 DEF Bc!CheckStatusStep
  <1>5. ASSUME NEW w \in Waiters, Bc!Lock(w) \/ Bc!WaitStep(w)
        PROVE  BcForcedInv'
    <2>1. CASE Bc!Poll(w)
      BY <1>2, <2>1 DEF Bc!Poll, Bc!EnterRunFunction
    <2>2. CASE Bc!Lock(w) \/ Bc!Decide(w) \/ Bc!PollReturns(w)
      BY <2>2 DEF Bc!Lock, Bc!Decide, Bc!PollReturns, Bc!WaitReturns, Bc!mgrVars
    <2> QED
      BY <1>5, <2>1, <2>2 DEF Bc!WaitStep
  <1>6. CASE UNCHANGED Bc!vars
    BY <1>6 DEF Bc!vars, Bc!mgrVars, Bc!bcVars
  <1> QED
    BY <1>1, <1>2, <1>3, <1>4, <1>5, <1>6 DEF Bc!Next, Bc!bcVars

(* The flags that getBeaconClient has set are not touched by any           *)
(* CheckStatus of the Beacon client manager either, nor by a wait's polls. *)
THEOREM BcFallbacksStayForced == Bc!Spec => []FallbacksForced
  <1>1. Bc!Init => BcForcedInv
    BY DEF Bc!Init, Bc!NewManager, BcForcedInv, AllFlags
  <1>2. Bc!TypeOK /\ BcForcedInv => FallbacksForced
    BY DEF Bc!TypeOK, Bc!MgrTypeOK, BcForcedInv, FallbacksForced
  <1> QED
    BY BcTypeCorrect, NextBcForced, <1>1, <1>2, PTL DEF Bc!Spec
=============================================================================
