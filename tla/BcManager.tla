----------------------------- MODULE BcManager -----------------------------
(***************************************************************************)
(* BeaconClientManager.CheckStatus (shared/services/bc-manager.go) and     *)
(* waitBeaconClientSynced (shared/services/requirements.go).  Unlike the   *)
(* execution client manager, CheckStatus asks both clients before it       *)
(* writes a flag, compares no chain ID, and the wait loop polls through    *)
(* runFunction1 (bcMgr.GetSyncStatus), that is, subject to the flags.      *)
(***************************************************************************)
EXTENDS ClientManager

bcVars == <<syncLock, check, status, waited>>

vars == <<mgrVars, bcVars>>

Procs == Callers \cup Waiters

CheckPoints == {"idle", "enter", "askFallback", "flag", "decide", "poll",
                "polling", "pause"}

\* What checkBcStatus distinguishes: not working, syncing, or ready.
BcStatuses == {"failed", "syncing", "ready"}

CheckBcStatus(c) ==
    CASE condition[c] \in {"down", "broken"}  -> "failed"
      [] condition[c] = "syncing"             -> "syncing"
      [] condition[c] \in {"stale", "synced"} -> "ready"

Init ==
    /\ NewManager(Procs)
    /\ syncLock = "none"
    /\ check = [w \in Waiters |-> "idle"]
    /\ status = [w \in Waiters |-> [c \in Clients |-> "failed"]]
    /\ waited = [w \in Waiters |-> "none"]

(***************************************************************************)
(* CheckStatus, run by waiter w.                                           *)
(***************************************************************************)
CheckStatusIgnored(w) ==
    /\ CheckAt(w, "enter")
    /\ IgnoreSyncCheck
    /\ status' = [status EXCEPT ![w] =
           [primary  |-> IF primaryReady THEN "ready" ELSE "failed",
            fallback |-> IF FallbackEnabled /\ fallbackReady
                         THEN "ready" ELSE "failed"]]
    /\ CheckGoTo(w, "decide")
    /\ UNCHANGED <<mgrVars, syncLock, waited>>

AskPrimary(w) ==
    /\ CheckAt(w, "enter")
    /\ ~IgnoreSyncCheck
    /\ status' = [status EXCEPT ![w] = [primary |-> CheckBcStatus("primary"),
                                        fallback |-> "failed"]]
    /\ CheckGoTo(w, IF FallbackEnabled THEN "askFallback" ELSE "flag")
    /\ UNCHANGED <<mgrVars, syncLock, waited>>

AskFallback(w) ==
    /\ CheckAt(w, "askFallback")
    /\ status' = [status EXCEPT ![w].fallback = CheckBcStatus("fallback")]
    /\ CheckGoTo(w, "flag")
    /\ UNCHANGED <<mgrVars, syncLock, waited>>

\* Mutant: the fallback's flag is forgotten.
FlagPrimaryOnly(w) ==
    /\ CheckAt(w, "flag")
    /\ primaryReady' = (status[w].primary = "ready")
    /\ CheckGoTo(w, "decide")
    /\ UNCHANGED <<condition, changes, flags, fallbackReady, call, outcome, syncLock,
                   status, waited>>

FlagClients(w) ==
    /\ CheckAt(w, "flag")
    /\ primaryReady' = (status[w].primary = "ready")
    /\ fallbackReady' = (FallbackEnabled /\ status[w].fallback = "ready")
    /\ CheckGoTo(w, "decide")
    /\ UNCHANGED <<condition, changes, flags, call, outcome, syncLock, status, waited>>

CheckStatusStep(w) ==
    \/ CheckStatusIgnored(w)
    \/ AskPrimary(w)
    \/ AskFallback(w)
    \/ FlagClients(w)

(***************************************************************************)
(* waitBeaconClientSynced, run by waiter w.                                *)
(***************************************************************************)
Lock(w) ==
    /\ CheckAt(w, "idle")
    /\ syncLock = "none"
    /\ syncLock' = w
    /\ waited' = [waited EXCEPT ![w] = "none"]
    /\ CheckGoTo(w, "enter")
    /\ UNCHANGED <<mgrVars, status>>

\* Mutant: the error returns do not unlock.
WaitReturnsMutant(w, result) ==
    /\ waited' = [waited EXCEPT ![w] = result]
    /\ syncLock' = IF result = "error" THEN syncLock ELSE "none"
    /\ CheckGoTo(w, "idle")
    /\ status' = [status EXCEPT ![w] = [c \in Clients |-> "failed"]]
    /\ UNCHANGED mgrVars

WaitReturns(w, result) ==
    /\ waited' = [waited EXCEPT ![w] = result]
    /\ syncLock' = "none"
    /\ CheckGoTo(w, "idle")
    /\ status' = [status EXCEPT ![w] = [c \in Clients |-> "failed"]]
    /\ UNCHANGED mgrVars

\* Mutant: a ready fallback does not end the wait.
DecideMutant(w) ==
    /\ CheckAt(w, "decide")
    /\ \/ /\ primaryReady
          /\ WaitReturns(w, "true")
       \/ /\ ~primaryReady
          /\ \/ /\ \E c \in Clients : status[w][c] # "failed"
                /\ CheckGoTo(w, "poll")
                /\ UNCHANGED <<mgrVars, syncLock, status, waited>>
             \/ /\ \A c \in Clients : status[w][c] = "failed"
                /\ WaitReturns(w, "error")

(* checkBeaconClientStatus after its CheckStatus.                          *)
Decide(w) ==
    /\ CheckAt(w, "decide")
    /\ \/ /\ primaryReady \/ fallbackReady
          /\ WaitReturns(w, "true")
       \/ /\ ~primaryReady /\ ~fallbackReady
          /\ \/ /\ \E c \in Clients : status[w][c] # "failed"
                /\ CheckGoTo(w, "poll")
                /\ UNCHANGED <<mgrVars, syncLock, status, waited>>
             \/ /\ \A c \in Clients : status[w][c] = "failed"
                /\ WaitReturns(w, "error")

\* bcMgr.GetSyncStatus: w itself runs runFunction1.
Poll(w) ==
    /\ CheckAt(w, "poll")
    /\ EnterRunFunction(w)
    /\ CheckGoTo(w, "polling")
    /\ UNCHANGED <<syncLock, status, waited>>

(* An error ends the wait; a client that is still syncing makes the loop   *)
(* pause.  What comes after a pause (the timeout, the refresh of the       *)
(* status, the next poll) has no action here: PollNeverServed, checked and *)
(* proved below, says that no wait ever gets that far.                     *)
PollReturns(w) ==
    /\ CheckAt(w, "polling")
    /\ At(w, "idle")
    /\ IF outcome[w] = "syncing"
       THEN /\ CheckGoTo(w, "pause")
            /\ UNCHANGED <<mgrVars, syncLock, status, waited>>
       ELSE WaitReturns(w, IF outcome[w] \in Errors THEN "error" ELSE "true")

WaitStep(w) ==
    \/ Decide(w)
    \/ Poll(w)
    \/ PollReturns(w)

Next ==
    \/ \E c \in Clients : ClientChanges(c) /\ UNCHANGED bcVars
    \/ \E g \in Callers : EnterRunFunction(g) /\ UNCHANGED bcVars
    \/ \E g \in Procs : RunFunctionStep(g) /\ UNCHANGED bcVars
    \/ \E w \in Waiters : CheckStatusStep(w)
    \/ \E w \in Waiters : Lock(w) \/ WaitStep(w)

(* As in EcManager: goroutines are scheduled, requests are answered, some  *)
(* task comes back to waitBeaconClientSynced for ever.                     *)
Fairness ==
    /\ \A g \in Procs : WF_vars(RunFunctionStep(g) /\ UNCHANGED bcVars)
    /\ \A w \in Waiters : WF_vars(CheckStatusStep(w)) /\ WF_vars(WaitStep(w))
    /\ WF_vars(\E w \in Waiters : Lock(w))

Spec == Init /\ [][Next]_vars /\ Fairness
-----------------------------------------------------------------------------
(* The type invariant of the Beacon client manager and its waiters.        *)
TypeOK ==
    /\ MgrTypeOK(Procs)
    /\ syncLock \in Waiters \cup {"none"}
    /\ check \in [Waiters -> CheckPoints]
    /\ status \in [Waiters -> [primary : BcStatuses, fallback : BcStatuses]]
    /\ waited \in [Waiters -> {"none", "true", "error"}]

(* No task is starved by another one's wait: whoever waits returns, even   *)
(* when no client ever gets synced and there is no timeout.                *)
WaitsReturn ==
    \A w \in Waiters : (syncLock = w) ~> (syncLock # w)

(* A client that stays unreachable is not ready in the end, for good:      *)
(* FlagClients may still write what it asked before the loss, once.  A     *)
(* primary that stays synced is ready in the end.                          *)
FlagsFollowClients ==
    /\ <>[](condition["primary"] = "down" /\ ~IgnoreSyncCheck) => <>[](~primaryReady)
    /\ <>[](condition["fallback"] = "down" /\ ~IgnoreSyncCheck) => <>[](~fallbackReady)
    /\ <>[](condition["primary"] = "synced" /\ ~IgnoreSyncCheck) => <>[]primaryReady
=============================================================================
