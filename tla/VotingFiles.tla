---------------------------- MODULE VotingFiles ----------------------------
(***************************************************************************)
(* The files of the network voting trees: one data file for every block    *)
(* and a table with their checksums (ChecksumManager), read and written by *)
(* GetNetworkTree.  The daemon's tasks, its metrics and the commands of    *)
(* the API use them at the same time, without a lock.                      *)
(*                                                                         *)
(* os.WriteFile empties a file and then writes it, which others can see;   *)
(* it fails half way when the disk is full or the machine stops.           *)
(***************************************************************************)
EXTENDS Integers, Sequences

CONSTANTS
    Procs,     \* processes that call GetNetworkTree
    Blocks,    \* blocks, numbers
    MaxCalls,  \* bound on the calls of a process, Nat
    MaxFaults  \* bound on writes and requests that fail, Nat

ASSUME VotingFilesAssumption ==
    Blocks \subseteq Nat /\ MaxCalls \in Nat /\ MaxFaults \in Nat

VARIABLES
    data,    \* the contents of a block's data file: "none", "part" or "tree"
    table,   \* the lines of the table: blocks, Torn for one cut short
    call,    \* the call of a process: its status, its block
    step,    \* where it is
    lines,   \* the new table it has made
    calls, faults

files == <<data, table>>
vars == <<files, call, step, lines, calls, faults>>

Torn == -1
Idle == [status |-> "idle"]

Init ==
    /\ data = [b \in Blocks |-> "none"]
    /\ table = <<>>
    /\ call = [p \in Procs |-> Idle]
    /\ step = [p \in Procs |-> "idle"]
    /\ lines = [p \in Procs |-> <<>>]
    /\ calls = [p \in Procs |-> 0]
    /\ faults = 0

In(b, seq) == \E i \in 1..Len(seq) : seq[i] = b

Finish(p, status) ==
    /\ call' = [call EXCEPT ![p] = [status |-> status, block |-> call[p].block]]
    /\ step' = [step EXCEPT ![p] = "idle"]
    /\ lines' = [lines EXCEPT ![p] = <<>>]

Goto(p, next) == step' = [step EXCEPT ![p] = next]

GetNetworkTree(p, b) ==
    /\ step[p] = "idle"
    /\ calls[p] < MaxCalls
    /\ calls' = [calls EXCEPT ![p] = @ + 1]
    /\ call' = [call EXCEPT ![p] = [status |-> "pending", block |-> b]]
    /\ Goto(p, "load")
    /\ UNCHANGED <<files, lines, faults>>

\* Mutant: the checksum is not compared.
LoadableMutant(b) == In(b, table)

(* LoadFromFile goes through the table from its end to the block's line,   *)
(* and stops at a line it cannot read; the file must have the checksum.    *)
Loadable(b) ==
    /\ \E i \in 1..Len(table) : table[i] = b /\ \A j \in i..Len(table) : table[j] # Torn
    /\ data[b] = "tree"

LoadFromDisk(p) ==
    LET b == call[p].block
    IN  /\ step[p] = "load"
        /\ IF Loadable(b)
           THEN Finish(p, IF data[b] = "tree" THEN "tree" ELSE "wrong")
           ELSE Goto(p, "generate") /\ UNCHANGED <<call, lines>>
        /\ UNCHANGED <<files, calls, faults>>

\* CreateNetworkVotingTree; SaveToFile empties the data file
BeginData(p) ==
    /\ step[p] = "generate"
    /\ data' = [data EXCEPT ![call[p].block] = "part"]
    /\ Goto(p, "data")
    /\ UNCHANGED <<table, call, lines, calls, faults>>

\* and writes it.
EndData(p) ==
    /\ step[p] = "data"
    /\ data' = [data EXCEPT ![call[p].block] = "tree"]
    /\ Goto(p, "parse")
    /\ UNCHANGED <<table, call, lines, calls, faults>>

\* sortChecksumEntries compares, and so reads, every line if there are two.
Sortable(old) == ~In(Torn, old) \/ Len(old) = 1

\* Mutant: the new line takes the place of the old ones.
WithLineMutant(old, b) == <<b>>

\* The order of lines that can be read makes no difference.
WithLine(old, b) == IF In(b, old) THEN old ELSE Append(old, b)

\* SaveToFile reads the table and makes the new one, or fails to sort it.
ParseTable(p) ==
    /\ step[p] = "parse"
    /\ IF Sortable(table)
       THEN /\ lines' = [lines EXCEPT ![p] = WithLine(table, call[p].block)]
            /\ Goto(p, "table")
            /\ UNCHANGED call
       ELSE Finish(p, "error")
    /\ UNCHANGED <<files, calls, faults>>

\* It empties the table
BeginTable(p) ==
    /\ step[p] = "table"
    /\ table' = <<>>
    /\ Goto(p, "write")
    /\ UNCHANGED <<data, call, lines, calls, faults>>

(* and writes it.  When another process has written a longer one in the    *)
(* meantime the end of that stays; all lines have the same length.         *)
Over(old, new) == new \o SubSeq(old, Len(new) + 1, Len(old))

EndTable(p) ==
    /\ step[p] = "write"
    /\ table' = Over(table, lines[p])
    /\ Finish(p, "tree")
    /\ UNCHANGED <<data, calls, faults>>

\* A write fails half way, and the call with it.
WriteFails(p) ==
    /\ step[p] \in {"data", "write"}
    /\ faults < MaxFaults
    /\ faults' = faults + 1
    /\ IF step[p] = "data" THEN UNCHANGED table
       ELSE \E n \in 0..Len(lines[p]) - 1 :
                table' = Over(table, Append(SubSeq(lines[p], 1, n), Torn))
    /\ Finish(p, "error")
    /\ UNCHANGED <<data, calls>>

\* The snapshot or the depth per round cannot be had from the chain.
RequestFails(p) ==
    /\ step[p] = "generate"
    /\ faults < MaxFaults
    /\ faults' = faults + 1
    /\ Finish(p, "error")
    /\ UNCHANGED <<files, calls>>

Step(p) ==
    \/ LoadFromDisk(p) \/ BeginData(p) \/ EndData(p)
    \/ ParseTable(p) \/ BeginTable(p) \/ EndTable(p)

Next ==
    \E p \in Procs :
        \/ Step(p) \/ WriteFails(p) \/ RequestFails(p)
        \/ \E b \in Blocks : GetNetworkTree(p, b)

(* A call that was made goes on.                                           *)
Fairness == \A p \in Procs : WF_vars(Step(p))

Spec == Init /\ [][Next]_vars /\ Fairness
-----------------------------------------------------------------------------
Steps == {"idle", "load", "generate", "data", "parse", "table", "write"}

(* Types; a call is pending just while its process is not idle.            *)
TypeOK ==
    /\ data \in [Blocks -> {"none", "part", "tree"}]
    /\ table \in Seq(Blocks \cup {Torn})
    /\ call \in [Procs -> {Idle} \cup [status : {"pending", "tree", "error"}, block : Blocks]]
    /\ \A p \in Procs : call[p].status = "pending" <=> step[p] # "idle"
    /\ step \in [Procs -> Steps]
    /\ lines \in [Procs -> Seq(Blocks \cup {Torn})]
    /\ faults \in 0..MaxFaults

\* The files are damaged for all, or will be when a table is written.
Damaged == In(Torn, table) \/ \E p \in Procs : In(Torn, lines[p])

(* GetNetworkTree with its files, its races and failing writes, is the     *)
(* TreeStore.                                                              *)
Store == INSTANCE TreeStore WITH damaged <- Damaged
ImplementsTreeStore == Store!Spec

Quiet == \A p \in Procs : step[p] = "idle"

(* A tree that was saved is found the next time; only the lines of others  *)
(* get lost, when two processes write the table at once, or by a failed    *)
(* write.                                                                  *)
SavedIsFound ==
    faults = 0 /\ Quiet /\ (\E p \in Procs : \A q \in Procs \ {p} : calls[q] = 0) =>
        \A b \in Blocks : data[b] = "none" \/ Loadable(b)
=============================================================================
