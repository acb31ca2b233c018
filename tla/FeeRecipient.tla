---------------------------- MODULE FeeRecipient ----------------------------
(***************************************************************************)
(* Where the node's validator client (VC) sends the fees of its blocks.    *)
(* The address is in a file that the VC reads when it starts.  Two         *)
(* processes write the file and restart the VC: the task manageFeeRecipient *)
(* of the node's daemon, in every loop, and the command that joins the     *)
(* smoothing pool (setSmoothingPoolStatus of the API).  They share no lock. *)
(*                                                                         *)
(* Penalizable is what processBlock of the watchtower counts as theft.     *)
(***************************************************************************)
EXTENDS Integers

CONSTANTS
    Interval,   \* epochs between two changes of the registration, Nat
    MaxEpoch,   \* bound on time, Nat
    MaxFaults   \* bound on failed writes, failed restarts and crashes, Nat

ASSUME FeeAssumption ==
    /\ Interval \in Nat /\ Interval > 1   \* a rewards interval is weeks
    /\ MaxEpoch \in Nat /\ Interval < MaxEpoch
    /\ MaxFaults \in Nat

VARIABLES
    epoch, finalized,
    registered,  \* the node is in the smoothing pool
    changed,     \* the epoch of the last change; 0 before the first
    pending,     \* a registration on its way: "none", "in" or "out"
    file,        \* the fee recipient file: "pool", "distributor" or "bad"
    vc,          \* the recipient the VC has read, or "stopped"
    task,        \* manageFeeRecipient: its step, its network state, its recipient
    api,         \* setSmoothingPoolStatus: its step
    faults,
    undone,      \* history: the task took the pool out of the file of a joining node
    missed       \* history: the VC was stopped, or its last restart failed

time == <<epoch, finalized>>
chain == <<registered, changed, pending>>
vars == <<time, chain, file, vc, task, api, faults, undone, missed>>

Recipients == {"pool", "distributor"}
LastChange == MaxEpoch - 3     \* later ones would leave no time to finish

Idle == [step |-> "idle", began |-> 0, registered |-> FALSE, changed |-> 0, recipient |-> "pool"]

Init ==
    /\ epoch = Interval + 1 /\ finalized = 0
    /\ registered \in BOOLEAN
    /\ \/ ~registered /\ changed = 0 /\ file = "distributor" /\ vc = "distributor"
       \/ ~registered /\ changed = 0 /\ file = "bad" /\ vc = "stopped"
       \/ registered /\ changed = 1 /\ file = "pool" /\ vc = "pool"
    /\ pending = "none"
    /\ task = Idle
    /\ api = "idle"
    /\ faults = 0
    /\ undone = FALSE /\ missed = FALSE

(***************************************************************************)
(* The chains and the VC.                                                  *)
(***************************************************************************)
\* A run of the task takes seconds: less than an epoch.
EpochPasses ==
    /\ epoch < MaxEpoch
    /\ task.step # "idle" => task.began = epoch
    /\ epoch' = epoch + 1
    /\ UNCHANGED <<finalized, chain, file, vc, task, api, faults, undone, missed>>

\* An epoch is finalized two epochs later at the earliest.
Finalize ==
    /\ finalized + 2 < epoch
    /\ finalized' = finalized + 1
    /\ UNCHANGED <<epoch, chain, file, vc, task, api, faults, undone, missed>>

Changeable == changed = 0 \/ epoch >= changed + Interval

\* setSmoothingPoolRegistrationState; too early after the last it reverts.
Mined ==
    /\ pending # "none"
    /\ epoch <= LastChange
    /\ pending' = "none"
    /\ IF Changeable
       THEN registered' = (pending = "in") /\ changed' = epoch
       ELSE UNCHANGED <<registered, changed>>
    /\ UNCHANGED <<time, file, vc, task, api, faults, undone, missed>>

\* Mutant: the VC starts with whatever the file says.
LoadedMutant(contents) == contents

\* A VC without a readable recipient does not start.
Loaded(contents) == IF contents \in Recipients THEN contents ELSE "stopped"

RestartValidator ==
    /\ vc' = Loaded(file)
    /\ missed' = FALSE

\* "rocketpool service restart-vc", or the container comes back by itself.
restartVc ==
    /\ RestartValidator
    /\ UNCHANGED <<time, chain, file, task, api, faults, undone>>

Fault == faults < MaxFaults /\ faults' = faults + 1

(***************************************************************************)
(* The task manageFeeRecipient.                                            *)
(***************************************************************************)
UpdateNetworkState ==
    /\ task.step = "idle"
    /\ task' = [step |-> "info", began |-> epoch, registered |-> registered,
                changed |-> changed, recipient |-> "pool"]
    /\ UNCHANGED <<time, chain, file, vc, api, faults, undone, missed>>

\* Mutant: the cooldown ends with the epoch of the change.
IsInOptOutCooldownMutant(state) ==
    /\ ~state.registered
    /\ state.changed # 0
    /\ epoch < state.changed + 1

\* "Make sure epoch + 1 is finalized - if not, they're still on cooldown"
IsInOptOutCooldown(state) ==
    /\ ~state.registered
    /\ state.changed # 0
    /\ finalized < state.changed + 1

GetFeeRecipientInfo ==
    /\ task.step = "info"
    /\ task' = [task EXCEPT !.step = "check",
                            !.recipient = IF task.registered \/ IsInOptOutCooldown(task)
                                          THEN "pool" ELSE "distributor"]
    /\ UNCHANGED <<time, chain, file, vc, api, faults, undone, missed>>

Joining == registered \/ pending = "in" \/ api # "idle"

\* The end of a run; one that knew of the registration has put things right.
EndRun ==
    /\ task' = Idle
    /\ undone' = (undone /\ Joining /\ ~task.registered)

\* Mutant: an existing file is taken for right.
CheckFeeRecipientFileMutant ==
    /\ task.step = "check"
    /\ IF file # "bad" THEN EndRun
       ELSE task' = [task EXCEPT !.step = "update"] /\ UNCHANGED undone
    /\ UNCHANGED <<time, chain, file, vc, api, faults, missed>>

CheckFeeRecipientFile ==
    /\ task.step = "check"
    /\ IF file = task.recipient THEN EndRun
       ELSE task' = [task EXCEPT !.step = "update"] /\ UNCHANGED undone
    /\ UNCHANGED <<time, chain, file, vc, api, faults, missed>>

UpdateFeeRecipientFile ==
    /\ task.step = "update"
    /\ file' = task.recipient
    /\ task' = [task EXCEPT !.step = "restart"]
    /\ undone' = (undone \/ (task.recipient = "distributor" /\ Joining))
    /\ UNCHANGED <<time, chain, vc, api, faults, missed>>

\* A failed write leaves the file as it was, or cut short.
UpdateFails ==
    /\ task.step = "update"
    /\ Fault
    /\ file' \in {file, "bad"}
    /\ task' = [task EXCEPT !.step = "stop"]
    /\ UNCHANGED <<time, chain, vc, api, undone, missed>>

\* "Shutting down the validator client for safety"
StopValidator ==
    /\ task.step = "stop"
    /\ vc' = "stopped"
    /\ missed' = TRUE
    /\ task' = Idle
    /\ UNCHANGED <<time, chain, file, api, faults, undone>>

TaskRestartsVc ==
    /\ task.step = "restart"
    /\ RestartValidator
    /\ EndRun
    /\ UNCHANGED <<time, chain, file, api, faults>>

(* The daemon is stopped, or its request fails: the run ends.              *)
TaskFails ==
    /\ task.step # "idle"
    /\ Fault
    /\ missed' = (missed \/ task.step = "restart")
    /\ task' = Idle
    /\ UNCHANGED <<time, chain, file, vc, api, undone>>

(***************************************************************************)
(* The command setSmoothingPoolStatus.                                     *)
(***************************************************************************)
\* The command line looks at the contract first.
CanChange == Changeable /\ epoch <= LastChange /\ pending = "none" /\ api = "idle"

Join ==
    /\ CanChange /\ ~registered
    /\ api' = "update"
    /\ UNCHANGED <<time, chain, file, vc, task, faults, undone, missed>>

\* To leave it only sends the transaction; the file is left to the task.
Leave ==
    /\ CanChange /\ registered
    /\ pending' = "out"
    /\ UNCHANGED <<time, registered, changed, file, vc, task, api, faults, undone, missed>>

ApiUpdatesFile ==
    /\ api = "update"
    /\ file' = "pool"
    /\ api' = "restart"
    /\ UNCHANGED <<time, chain, vc, task, faults, undone, missed>>

ApiRestartsVc ==
    /\ api = "restart"
    /\ RestartValidator
    /\ api' = "send"
    /\ UNCHANGED <<time, chain, file, task, faults, undone>>

ApiRestartFails ==
    /\ api = "restart"
    /\ Fault
    /\ missed' = TRUE
    /\ api' = "undo"
    /\ UNCHANGED <<time, chain, file, vc, task, undone>>

\* The file is set back, and the VC restarted whether that works or not.
ApiUndoes ==
    /\ api = "undo"
    /\ file' = "distributor"
    /\ \/ vc' = "distributor" /\ missed' = FALSE
       \/ UNCHANGED vc /\ missed' = TRUE
    /\ api' = "idle"
    /\ UNCHANGED <<time, chain, task, faults, undone>>

ApiSends ==
    /\ api = "send"
    /\ pending' = "in"
    /\ api' = "idle"
    /\ UNCHANGED <<time, registered, changed, file, vc, task, faults, undone, missed>>

\* The command fails or is interrupted, perhaps while it writes the file.
ApiFails ==
    /\ api # "idle"
    /\ Fault
    /\ file' \in IF api \in {"update", "undo"} THEN {file, "bad"} ELSE {file}
    /\ missed' = (missed \/ api = "restart")
    /\ api' = "idle"
    /\ UNCHANGED <<time, chain, vc, task, undone>>

Task ==
    \/ UpdateNetworkState \/ GetFeeRecipientInfo \/ CheckFeeRecipientFile
    \/ UpdateFeeRecipientFile \/ StopValidator \/ TaskRestartsVc

Api == ApiUpdatesFile \/ ApiRestartsVc \/ ApiUndoes \/ ApiSends

Next ==
    \/ EpochPasses \/ Finalize \/ Mined \/ restartVc
    \/ Task \/ UpdateFails \/ TaskFails
    \/ Join \/ Leave \/ Api \/ ApiRestartFails \/ ApiFails

(* The daemon's loop and a running command go on, and the chains, too.     *)
Fairness == WF_vars(Task) /\ WF_vars(Api) /\ WF_vars(EpochPasses) /\ WF_vars(Finalize)

Spec == Init /\ [][Next]_vars /\ Fairness
-----------------------------------------------------------------------------
Steps == {"idle", "info", "check", "update", "stop", "restart"}

TaskTypeOK ==
    task \in [step : Steps, began : 0..epoch, registered : BOOLEAN, changed : 0..epoch,
              recipient : Recipients]

(* Types.  A VC never runs with a recipient that is not one of the two,    *)
(* and the task never holds a change that is still to come.                *)
TypeOK ==
    /\ epoch \in 0..MaxEpoch /\ finalized \in 0..MaxEpoch
    /\ registered \in BOOLEAN /\ changed \in 0..epoch
    /\ pending \in {"none", "in", "out"}
    /\ file \in Recipients \cup {"bad"}
    /\ vc \in Recipients \cup {"stopped"}
    /\ TaskTypeOK
    /\ api \in {"idle", "update", "restart", "undo", "send"}
    /\ faults \in 0..MaxFaults
    /\ undone \in BOOLEAN /\ missed \in BOOLEAN

(* Theft, as processBlock sees it: the fees of a node in the pool go       *)
(* elsewhere, or those of one that left since the start of the epoch       *)
(* before the block's.                                                     *)
Penalizable ==
    /\ vc = "distributor"
    /\ registered \/ (changed # 0 /\ changed >= epoch - 1)

(* The fee recipient of a node that follows the commands is only illegal   *)
(* after the task wrote the distributor into the file of a joining node,   *)
(* and until its next run, or while the VC was not restarted.  In          *)
(* particular nobody is caught for leaving.                                *)
OnlyJoinsExpose == Penalizable => undone \/ missed

(* "If opting in, change the fee recipient to the Smoothing Pool before    *)
(* submitting the TX so the fee recipient is guaranteed to be              *)
(* non-penalizable at all times"                                           *)
NeverPenalizable == ~Penalizable

(* An illegal recipient is replaced, unless the VC missed its restart: the *)
(* task looks at the file, which is right then.                            *)
IllegalIsReplaced == Penalizable ~> (~Penalizable \/ missed)

(* A node that is out of the pool gets its own fees again: the cooldown    *)
(* ends and the VC is restarted, even after it was stopped for safety.     *)
OwnFeesReturn ==
    (~registered /\ pending = "none" /\ api = "idle")
        ~> (vc = "distributor" \/ missed \/ registered \/ pending # "none" \/ api # "idle")
=============================================================================
