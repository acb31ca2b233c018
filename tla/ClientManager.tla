--------------------------- MODULE ClientManager ---------------------------
(***************************************************************************)
(* The part that ExecutionClientManager (shared/services/ec-manager.go)    *)
(* and BeaconClientManager (shared/services/bc-manager.go) have in common: *)
(* a primary and an optional fallback client, one "ready" flag for each,   *)
(* and runFunction, which every wrapped client method goes through.  The   *)
(* two flags are plain struct fields: any number of goroutines read and    *)
(* write them without a lock, so every access is a step of its own here.   *)
(* Both are waited for (waitEthClientSynced and waitBeaconClientSynced in  *)
(* shared/services/requirements.go) under a lock, with a CheckStatus.      *)
(***************************************************************************)
EXTENDS Naturals

CONSTANTS
    Callers,          \* goroutines that call a wrapped client method
    Waiters,          \* goroutines that wait for a client to be synced
    FallbackEnabled,  \* is a fallback client configured?
    Flags,            \* the flags the API binary may be started with
    Conditions,       \* the conditions the clients go through
    MaxChanges        \* bound on the changes of condition, Nat

AllConditions == {"down", "broken", "syncing", "stale", "synced"}

AllFlags == {"ignore-sync-check", "force-fallbacks"}

ASSUME FlagsAssumption == FallbackEnabled \in BOOLEAN /\ Flags \subseteq AllFlags
ASSUME ConditionsAssumption == Conditions \subseteq AllConditions
ASSUME MaxChangesAssumption == MaxChanges \in Nat
ASSUME WaitersAssumption == Waiters \cap Callers = {} /\ "none" \notin Waiters

VARIABLES
    condition,      \* what each client really is (environment)
    changes,        \* how often the environment has changed a client
    flags,          \* the command line flags given, never changed
    primaryReady,   \* ExecutionClientManager.primaryReady
    fallbackReady,  \* ExecutionClientManager.fallbackReady
    call,           \* where each goroutine is inside runFunction
    outcome,        \* what its last call returned
    syncLock,       \* holder of the lock of the wait function, or "none"
    check,          \* where each goroutine is in the wait and in CheckStatus
    status,         \* what its CheckStatus has learned of each client
    waited          \* what the wait function last returned

mgrVars == <<condition, changes, flags, primaryReady, fallbackReady, call, outcome>>

Clients == {"primary", "fallback"}

\* The managers' ignoreSyncCheck field.
IgnoreSyncCheck == "ignore-sync-check" \in flags

CallPoints == {"idle", "readPrimary", "onPrimary", "primaryLost",
               "readFallback", "onFallback", "fallbackLost"}

(* A served call returns the condition of the client that served it (that  *)
(* is the value of GetSyncStatus); the other outcomes are errors.          *)
Served == {"syncing", "stale", "synced"}

Errors == {"error", "allFailed", "notReady"}

(***************************************************************************)
(* The clients, which are processes outside this program.  "down" refuses  *)
(* connections (the error contains "dial tcp"), "broken" answers every     *)
(* request with another error, "stale" claims to be synced but its last    *)
(* block is old.  A client that works may still reject a single request.   *)
(***************************************************************************)
Answers(c) ==
    CASE condition[c] = "down"   -> {"dial tcp"}
      [] condition[c] = "broken" -> {"error"}
      [] OTHER                   -> {condition[c], "error"}

ClientChanges(c) ==
    /\ changes < MaxChanges
    /\ c = "fallback" => FallbackEnabled
    /\ \E k \in Conditions \ {condition[c]} :
           condition' = [condition EXCEPT ![c] = k]
    /\ changes' = changes + 1
    /\ UNCHANGED <<flags, primaryReady, fallbackReady, call, outcome>>

(***************************************************************************)
(* NewExecutionClientManager / NewBeaconClientManager: both flags start    *)
(* set, before anything has been asked of a client.  getEthClient and      *)
(* getBeaconClient then clear primaryReady under --force-fallbacks.        *)
(***************************************************************************)
NewManager(procs) ==
    /\ condition \in [Clients -> Conditions]
    /\ changes = 0
    /\ flags \in SUBSET Flags
    /\ primaryReady = ("force-fallbacks" \notin flags)
    /\ fallbackReady = FallbackEnabled
    /\ call = [g \in procs |-> "idle"]
    /\ outcome = [g \in procs |-> "none"]

(***************************************************************************)
(* runFunction, called by goroutine g.                                     *)
(***************************************************************************)
At(g, here) == call[g] = here

GoTo(g, there) ==
    /\ call' = [call EXCEPT ![g] = there]
    /\ UNCHANGED outcome

Return(g, result) ==
    /\ call' = [call EXCEPT ![g] = "idle"]
    /\ outcome' = [outcome EXCEPT ![g] = result]

EnterRunFunction(g) ==
    /\ At(g, "idle")
    /\ call' = [call EXCEPT ![g] = "readPrimary"]
    /\ outcome' = [outcome EXCEPT ![g] = "none"]
    /\ UNCHANGED <<condition, changes, flags, primaryReady, fallbackReady>>

ReadPrimaryReady(g) ==
    /\ At(g, "readPrimary")
    /\ GoTo(g, IF primaryReady THEN "onPrimary" ELSE "readFallback")
    /\ UNCHANGED <<condition, changes, flags, primaryReady, fallbackReady>>

\* Mutant: the dial error of the primary is returned like any other error.
RunOnPrimaryMutant(g) ==
    /\ At(g, "onPrimary")
    /\ \E a \in Answers("primary") : Return(g, a)
    /\ UNCHANGED <<condition, changes, flags, primaryReady, fallbackReady>>

RunOnPrimary(g) ==
    /\ At(g, "onPrimary")
    /\ \E a \in Answers("primary") :
           IF a = "dial tcp" THEN GoTo(g, "primaryLost") ELSE Return(g, a)
    /\ UNCHANGED <<condition, changes, flags, primaryReady, fallbackReady>>

(* The flag is cleared some time after the dial error was met; then        *)
(* runFunction calls itself, and reads primaryReady once more.             *)
DropPrimary(g) ==
    /\ At(g, "primaryLost")
    /\ primaryReady' = FALSE
    /\ GoTo(g, "readPrimary")
    /\ UNCHANGED <<condition, changes, flags, fallbackReady>>

\* Mutant: with no client ready, try again instead of failing.
ReadFallbackReadyMutant(g) ==
    /\ At(g, "readFallback")
    /\ GoTo(g, IF fallbackReady THEN "onFallback" ELSE "readPrimary")
    /\ UNCHANGED <<condition, changes, flags, primaryReady, fallbackReady>>

ReadFallbackReady(g) ==
    /\ At(g, "readFallback")
    /\ IF fallbackReady THEN GoTo(g, "onFallback") ELSE Return(g, "notReady")
    /\ UNCHANGED <<condition, changes, flags, primaryReady, fallbackReady>>

\* Mutant: the dial error of the fallback is returned like any other error.
RunOnFallbackMutant(g) ==
    /\ At(g, "onFallback")
    /\ \E a \in Answers("fallback") : Return(g, a)
    /\ UNCHANGED <<condition, changes, flags, primaryReady, fallbackReady>>

RunOnFallback(g) ==
    /\ At(g, "onFallback")
    /\ \E a \in Answers("fallback") :
           IF a = "dial tcp" THEN GoTo(g, "fallbackLost") ELSE Return(g, a)
    /\ UNCHANGED <<condition, changes, flags, primaryReady, fallbackReady>>

DropFallback(g) ==
    /\ At(g, "fallbackLost")
    /\ fallbackReady' = FALSE
    /\ Return(g, "allFailed")
    /\ UNCHANGED <<condition, changes, flags, primaryReady>>

RunFunctionStep(g) ==
    \/ ReadPrimaryReady(g)
    \/ RunOnPrimary(g)
    \/ DropPrimary(g)
    \/ ReadFallbackReady(g)
    \/ RunOnFallback(g)
    \/ DropFallback(g)

(***************************************************************************)
(* The wait functions and CheckStatus, run by goroutine p.                 *)
(***************************************************************************)
CheckAt(p, here) == check[p] = here

CheckGoTo(p, there) == check' = [check EXCEPT ![p] = there]

MgrTypeOK(procs) ==
    /\ condition \in [Clients -> Conditions]
    /\ changes \in 0..MaxChanges
    /\ flags \in SUBSET Flags
    /\ primaryReady \in BOOLEAN
    /\ fallbackReady \in BOOLEAN
    /\ call \in [procs -> CallPoints]
    /\ outcome \in [procs -> Served \cup Errors \cup {"none"}]

(* Under --ignore-sync-check and --force-fallbacks no call ever goes to    *)
(* the primary client, however many status checks run in between: a        *)
(* CheckStatus must not touch the flags getEthClient and getBeaconClient   *)
(* have set.                                                               *)
FallbacksForced ==
    AllFlags \subseteq flags =>
        \A g \in DOMAIN call : call[g] # "onPrimary"

(* Of the Beacon client manager: the poll of its wait loop never reaches a *)
(* client.  It goes through runFunction1, and nobody but the waiter, who   *)
(* holds beaconClientSyncLock, can set a ready flag again.  It always      *)
(* fails with "no Beacon clients were ready", so the loop has no second    *)
(* iteration.                                                              *)
PollNeverServed ==
    \A w \in Waiters :
        /\ (CheckAt(w, "polling") /\ At(w, "idle")) => outcome[w] = "notReady"
        /\ ~CheckAt(w, "pause")
=============================================================================
