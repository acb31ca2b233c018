----------------------------- MODULE EcManager -----------------------------
(***************************************************************************)
(* ExecutionClientManager.CheckStatus (shared/services/ec-manager.go) and  *)
(* waitEthClientSynced (shared/services/requirements.go).                  *)
(*                                                                         *)
(* Waiters are the goroutines inside waitEthClientSynced: the task loop    *)
(* and the background report goroutines of a daemon, serialised by         *)
(* ethClientSyncLock.  Collectors are the goroutines of the metrics        *)
(* server: every scrape calls CheckStatus without taking that lock.        *)
(***************************************************************************)
EXTENDS ClientManager

CONSTANTS
    TimedWaiters,  \* waiters with a timeout (the API binary)
    Collectors     \* goroutines that call CheckStatus without the lock

Checkers == Waiters \cup Collectors

ASSUME CheckersAssumption ==
    /\ TimedWaiters \subseteq Waiters
    /\ Waiters \cap Collectors = {}

VARIABLES
    target,    \* clientToCheck of each waiter
    chainMatches,  \* is the fallback client on the configured chain?
    vetted     \* has some CheckStatus run to its end? (history)

ecVars == <<syncLock, check, status, target, waited, chainMatches, vetted>>

vars == <<mgrVars, ecVars>>

CheckPoints == {"idle", "enter", "flagPrimary", "askFallback",
                "flagFallback", "decide", "poll", "pause"}

ClientStatus == [working : BOOLEAN, synced : BOOLEAN, error : BOOLEAN]

NoClientStatus == [working |-> FALSE, synced |-> FALSE, error |-> FALSE]

NoStatus == [primary |-> NoClientStatus, fallback |-> NoClientStatus]

(* checkEcStatus(c), with IsSyncWithinThreshold: the answer a client in    *)
(* this condition gives.  A stale client works, and has an error set.      *)
CheckEcStatus(c) ==
    [working |-> condition[c] \in Served,
     synced  |-> condition[c] = "synced",
     error   |-> condition[c] \in {"down", "broken", "stale"}]

Init ==
    /\ NewManager(Callers)
    /\ syncLock = "none"
    /\ check = [p \in Checkers |-> "idle"]
    /\ status = [p \in Checkers |-> NoStatus]
    /\ target = [w \in Waiters |-> "primary"]
    /\ waited = [w \in Waiters |-> "none"]
    /\ chainMatches \in BOOLEAN
    /\ vetted = FALSE

(***************************************************************************)
(* CheckStatus, run by checker p.                                          *)
(***************************************************************************)
(* A waiter uses the status, a scrape only publishes it.                   *)
CheckStatusReturns(p, mgrStatus) ==
    /\ status' = [status EXCEPT ![p] = IF p \in Waiters THEN mgrStatus
                                                        ELSE NoStatus]
    /\ CheckGoTo(p, IF p \in Waiters THEN "decide" ELSE "idle")

\* The early return of --ignore-sync-check reports the flags as they are.
CheckStatusIgnored(p) ==
    /\ CheckAt(p, "enter")
    /\ IgnoreSyncCheck
    /\ CheckStatusReturns(p,
           [primary  |-> [working |-> primaryReady, synced |-> primaryReady,
                          error |-> FALSE],
            fallback |-> [working |-> FallbackEnabled /\ fallbackReady,
                          synced |-> FallbackEnabled /\ fallbackReady,
                          error |-> FALSE]])
    /\ UNCHANGED <<mgrVars, syncLock, target, waited, chainMatches, vetted>>

\* Mutant: the early return for --ignore-sync-check is missing.
AskPrimaryMutant(p) ==
    /\ CheckAt(p, "enter")
    /\ status' = [status EXCEPT ![p] =
                     [primary |-> CheckEcStatus("primary"),
                      fallback |-> NoClientStatus]]
    /\ CheckGoTo(p, "flagPrimary")
    /\ UNCHANGED <<mgrVars, syncLock, target, waited, chainMatches, vetted>>

AskPrimary(p) ==
    /\ CheckAt(p, "enter")
    /\ ~IgnoreSyncCheck
    /\ status' = [status EXCEPT ![p] =
                     [primary |-> CheckEcStatus("primary"),
                      fallback |-> NoClientStatus]]
    /\ CheckGoTo(p, "flagPrimary")
    /\ UNCHANGED <<mgrVars, syncLock, target, waited, chainMatches, vetted>>

\* Mutant: a check only ever sets the flag.
FlagPrimarySetOnly(p) ==
    /\ CheckAt(p, "flagPrimary")
    /\ primaryReady' = (primaryReady \/ status[p].primary.synced)
    /\ CheckGoTo(p, IF FallbackEnabled THEN "askFallback" ELSE "flagFallback")
    /\ UNCHANGED <<condition, changes, flags, fallbackReady, call, outcome,
                   syncLock, status, target, waited, chainMatches, vetted>>

FlagPrimary(p) ==
    /\ CheckAt(p, "flagPrimary")
    /\ primaryReady' = (status[p].primary.working /\ status[p].primary.synced)
    /\ CheckGoTo(p, IF FallbackEnabled THEN "askFallback" ELSE "flagFallback")
    /\ UNCHANGED <<condition, changes, flags, fallbackReady, call, outcome,
                   syncLock, status, target, waited, chainMatches, vetted>>

AskFallback(p) ==
    /\ CheckAt(p, "askFallback")
    /\ status' = [status EXCEPT ![p].fallback = CheckEcStatus("fallback")]
    /\ CheckGoTo(p, "flagFallback")
    /\ UNCHANGED <<mgrVars, syncLock, target, waited, chainMatches, vetted>>

(* A fallback that answers from another chain is never ready: CheckStatus  *)
(* sets an error on its status and returns before the last assignment.     *)
WrongChain(p) ==
    FallbackEnabled /\ ~status[p].fallback.error /\ ~chainMatches

\* Mutant: the early return is missing, the last assignment sets the flag.
FlagFallbackMutant(p) ==
    /\ CheckAt(p, "flagFallback")
    /\ fallbackReady' = /\ FallbackEnabled
                        /\ status[p].fallback.working
                        /\ status[p].fallback.synced
    /\ CheckStatusReturns(p,
           [status[p] EXCEPT !.fallback.error = @ \/ WrongChain(p)])
    /\ vetted' = TRUE
    /\ UNCHANGED <<condition, changes, flags, primaryReady, call, outcome,
                   syncLock, target, waited, chainMatches>>

FlagFallback(p) ==
    /\ CheckAt(p, "flagFallback")
    /\ fallbackReady' = /\ ~WrongChain(p)
                        /\ FallbackEnabled
                        /\ status[p].fallback.working
                        /\ status[p].fallback.synced
    /\ CheckStatusReturns(p,
           [status[p] EXCEPT !.fallback.error = @ \/ WrongChain(p)])
    /\ vetted' = TRUE
    /\ UNCHANGED <<condition, changes, flags, primaryReady, call, outcome,
                   syncLock, target, waited, chainMatches>>

CheckStatusStep(p) ==
    \/ CheckStatusIgnored(p)
    \/ AskPrimary(p)
    \/ FlagPrimary(p)
    \/ AskFallback(p)
    \/ FlagFallback(p)

(* NodeCollector.Collect: a scrape of the metrics server.                  *)
Scrape(k) ==
    /\ CheckAt(k, "idle")
    /\ CheckGoTo(k, "enter")
    /\ UNCHANGED <<mgrVars, syncLock, status, target, waited, chainMatches, vetted>>

(***************************************************************************)
(* waitEthClientSynced, run by waiter w.                                   *)
(***************************************************************************)
Lock(w) ==
    /\ CheckAt(w, "idle")
    /\ syncLock = "none"
    /\ syncLock' = w
    /\ waited' = [waited EXCEPT ![w] = "none"]
    /\ CheckGoTo(w, "enter")
    /\ UNCHANGED <<mgrVars, status, target, chainMatches, vetted>>

\* Every return runs the deferred Unlock.
WaitReturns(w, result) ==
    /\ waited' = [waited EXCEPT ![w] = result]
    /\ syncLock' = "none"
    /\ CheckGoTo(w, "idle")
    /\ status' = [status EXCEPT ![w] = NoStatus]
    /\ target' = [target EXCEPT ![w] = "primary"]
    /\ UNCHANGED <<mgrVars, chainMatches, vetted>>

WaitFor(w, c) ==
    /\ target' = [target EXCEPT ![w] = c]
    /\ CheckGoTo(w, "poll")
    /\ UNCHANGED <<mgrVars, syncLock, status, waited, chainMatches, vetted>>

\* "working and syncing? If so, wait for it"
Syncing(s) == s.working /\ ~s.error

(* checkExecutionClientStatus after its CheckStatus: the flags are read    *)
(* again, and by now they may hold what another goroutine wrote.           *)
Decide(w) ==
    /\ CheckAt(w, "decide")
    /\ IF primaryReady \/ fallbackReady
       THEN WaitReturns(w, "true")
       ELSE IF Syncing(status[w].primary)
       THEN WaitFor(w, "primary")
       ELSE IF FallbackEnabled /\ Syncing(status[w].fallback)
       THEN WaitFor(w, "fallback")
       ELSE WaitReturns(w, "error")

(* The wait loop asks clientToCheck; while that is not done (syncing or    *)
(* stale) it pauses, and then times out, refreshes the status when the     *)
(* last one is a minute old, or asks again.                                *)
PollFails(w) ==
    /\ CheckAt(w, "poll")
    /\ condition[target[w]] \in {"down", "broken"}
    /\ WaitReturns(w, "error")

PollSucceeds(w) ==
    /\ CheckAt(w, "poll")
    /\ condition[target[w]] = "synced"
    /\ WaitReturns(w, "true")

PollUnfinished(w) ==
    /\ CheckAt(w, "poll")
    /\ condition[target[w]] \in {"syncing", "stale"}
    /\ CheckGoTo(w, "pause")
    /\ UNCHANGED <<mgrVars, syncLock, status, target, waited, chainMatches, vetted>>

TimeOut(w) ==
    /\ CheckAt(w, "pause")
    /\ w \in TimedWaiters
    /\ WaitReturns(w, "false")

Refresh(w) ==
    /\ CheckAt(w, "pause")
    /\ CheckGoTo(w, "enter")
    /\ UNCHANGED <<mgrVars, syncLock, status, target, waited, chainMatches, vetted>>

PollAgain(w) ==
    /\ CheckAt(w, "pause")
    /\ CheckGoTo(w, "poll")
    /\ UNCHANGED <<mgrVars, syncLock, status, target, waited, chainMatches, vetted>>

WaitStep(w) ==
    \/ Decide(w)
    \/ PollFails(w)
    \/ PollSucceeds(w)
    \/ PollUnfinished(w)
    \/ Refresh(w)
    \/ PollAgain(w)

Next ==
    \/ \E c \in Clients : ClientChanges(c) /\ UNCHANGED ecVars
    \/ \E g \in Callers : EnterRunFunction(g) /\ UNCHANGED ecVars
    \/ \E g \in Callers : RunFunctionStep(g) /\ UNCHANGED ecVars
    \/ \E k \in Collectors : Scrape(k)
    \/ \E p \in Checkers : CheckStatusStep(p)
    \/ \E w \in Waiters : Lock(w) \/ WaitStep(w) \/ TimeOut(w)

(* Every goroutine is scheduled, every request is answered, some task      *)
(* comes back to waitEthClientSynced for ever, and minutes pass: a wait    *)
(* that goes on refreshes.  Nothing is assumed of the clients, of the  *)
(* scrapes or of how often the tasks call a client.                        *)
Fairness ==
    /\ \A g \in Callers : WF_vars(RunFunctionStep(g) /\ UNCHANGED ecVars)
    /\ \A p \in Checkers : WF_vars(CheckStatusStep(p))
    /\ WF_vars(\E w \in Waiters : Lock(w))
    /\ \A w \in Waiters : WF_vars(WaitStep(w)) /\ SF_vars(Refresh(w))

Spec == Init /\ [][Next]_vars /\ Fairness
-----------------------------------------------------------------------------
(* The type invariant of the execution client manager and its waiters.     *)
TypeOK ==
    /\ MgrTypeOK(Callers)
    /\ syncLock \in Waiters \cup {"none"}
    /\ check \in [Checkers -> CheckPoints]
    /\ status \in [Checkers -> [primary : ClientStatus, fallback : ClientStatus]]
    /\ target \in [Waiters -> Clients]
    /\ waited \in [Waiters -> {"none", "true", "false", "error"}]
    /\ chainMatches \in BOOLEAN
    /\ vetted \in BOOLEAN

(* Once any CheckStatus has finished, a fallback client on another chain   *)
(* than the configured one is never flagged ready, whatever the concurrent *)
(* checks and calls do, and no waiter waits for it to finish syncing       *)
(* (the chain ID test of CheckStatus and its early return).                *)
WrongChainNeverUsed ==
    (~chainMatches /\ ~IgnoreSyncCheck) =>
        /\ vetted => ~fallbackReady
        /\ \A w \in Waiters : check[w] \in {"poll", "pause"}
                               => target[w] # "fallback"

(* A primary that stays synced is ready in the end, and stays ready, and   *)
(* one that stays unreachable is not, for good: late "dial tcp" errors and *)
(* late status answers may still overwrite the flag, but the next refresh  *)
(* repairs it (--ignore-sync-check has none).                              *)
FlagFollowsPrimary ==
    /\ <>[](condition["primary"] = "synced" /\ ~IgnoreSyncCheck) => <>[]primaryReady
    /\ <>[](condition["primary"] = "down" /\ ~IgnoreSyncCheck) => <>[](~primaryReady)

(* A call of runFunction returns, although it calls itself again whenever  *)
(* the primary drops the connection.                                       *)
CallsReturn ==
    \A g \in Callers : (call[g] # "idle") ~> (call[g] = "idle")
=============================================================================
