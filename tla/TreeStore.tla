----------------------------- MODULE TreeStore -----------------------------
(***************************************************************************)
(* What the callers of GetNetworkTree may rely on, whatever happens to the *)
(* files behind it: a call returns, it returns the tree of the block it    *)
(* asked for, and it fails only when a request or a write of it does, or   *)
(* when an earlier write has left damage.                                  *)
(***************************************************************************)
CONSTANTS
    Procs,   \* processes that call: the daemon's tasks, its metrics, the API
    Blocks   \* blocks they ask for

VARIABLES
    call,    \* the call of a process: its status and its block
    damaged  \* a failed write has left damage

vars == <<call, damaged>>

Idle == [status |-> "idle"]

Init ==
    /\ call = [p \in Procs |-> Idle]
    /\ damaged = FALSE

Ask(p, b) ==
    /\ call[p].status # "pending"
    /\ call' = [call EXCEPT ![p] = [status |-> "pending", block |-> b]]
    /\ UNCHANGED damaged

Finish(p, status) ==
    /\ call[p].status = "pending"
    /\ call' = [call EXCEPT ![p] = [status |-> status, block |-> call[p].block]]

\* The tree of the block asked for; to save it may heal damage.
Reply(p) == Finish(p, "tree") /\ damaged' \in {damaged, FALSE}

\* A request or a write of this call fails.
Fail(p) == Finish(p, "error") /\ damaged' \in BOOLEAN

\* Damage of an earlier write makes this call fail.
Refuse(p) == Finish(p, "error") /\ damaged /\ UNCHANGED damaged

\* Somebody writes over the damage.
Heal == damaged /\ damaged' = FALSE /\ UNCHANGED call

Next ==
    \/ \E p \in Procs : Reply(p) \/ Fail(p) \/ Refuse(p) \/ \E b \in Blocks : Ask(p, b)
    \/ Heal

Safety == Init /\ [][Next]_vars

\* Every call returns.
Returns == \A p \in Procs : WF_vars(Reply(p) \/ Refuse(p))

Spec == Safety /\ Returns
=============================================================================
