---------------------------- MODULE VotingProofs ----------------------------
(***************************************************************************)
(* Proofs about the voting trees.                                          *)
(*                                                                         *)
(* VotingFiles, for every set of processes and blocks and every number of  *)
(* calls and failing writes: types, that GetNetworkTree is the TreeStore   *)
(* as far as safety goes, and that a tree that was saved is found again.   *)
(*                                                                         *)
(* ChallengeWalk, for snapshots of every size, with any powers, lies and   *)
(* number of levels per round: that every round can be proved, and that    *)
(* the accusation at its end is true; and that what the trees give a       *)
(* proposer to answer and a node to vote with folds to the right node.     *)
(* First the powers of two, then the trees as heaps, then indices,         *)
(* pollards and proofs, then the walk.                                     *)
(***************************************************************************)
EXTENDS VotingFiles, ChallengeWalk,
        FiniteSetTheorems, WellFoundedInduction, SequenceTheorems, TLAPS
-----------------------------------------------------------------------------
(* VotingFiles                                                             *)

Lines == Blocks \cup {Torn}

(* Over adds no line to those of the two tables.                           *)
LEMMA OverLines ==
  ASSUME NEW S, NEW old \in Seq(S), NEW new \in Seq(S)
  PROVE  /\ Over(old, new) \in Seq(S)
         /\ \A x : In(x, Over(old, new)) => In(x, old) \/ In(x, new)
  <1> DEFINE end == SubSeq(old, Len(new) + 1, Len(old))
  <1>1. end \in Seq(S) /\ \A i \in 1..Len(end) : end[i] = old[Len(new) + i] /\ Len(new) + i \in 1..Len(old)
    OBVIOUS
  <1>2. Over(old, new) = new \o end
    BY DEF Over
  <1> HIDE DEF end
  <1>3. new \o end \in Seq(S) /\ Len(new \o end) = Len(new) + Len(end)
    BY <1>1
  <1>4. \A i \in 1..Len(new) + Len(end) :
            (new \o end)[i] = IF i <= Len(new) THEN new[i] ELSE end[i - Len(new)]
    BY <1>1
  <1> QED
    BY <1>1, <1>2, <1>3, <1>4 DEF In

(* WithLine adds only the block's line.                                    *)
LEMMA WithLineLines ==
  ASSUME NEW S, NEW old \in Seq(S), NEW b \in S
  PROVE  /\ WithLine(old, b) \in Seq(S)
         /\ \A x : In(x, WithLine(old, b)) => In(x, old) \/ x = b
  BY DEF WithLine, In

(* A table cut short has no line but its own, and Torn.                    *)
LEMMA CutLines ==
  ASSUME NEW new \in Seq(Lines), NEW n \in 0..Len(new) - 1
  PROVE  Append(SubSeq(new, 1, n), Torn) \in Seq(Lines)
  BY DEF Lines
(* The initial states are well-typed.                                      *)
LEMMA TypeInit == Init => TypeOK
  BY VotingFilesAssumption DEF Init, TypeOK, Idle, Steps

(* Finish ends a call: its process is idle, and the status is the given one. *)
LEMMA FinishType ==
  ASSUME TypeOK, NEW p \in Procs, step[p] # "idle",
         NEW status \in {"tree", "error"}, Finish(p, status)
  PROVE  /\ call' \in [Procs -> {Idle} \cup [status : {"pending", "tree", "error"}, block : Blocks]]
         /\ step' \in [Procs -> Steps]
         /\ lines' \in [Procs -> Seq(Lines)]
         /\ \A q \in Procs : call'[q].status = "pending" <=> step'[q] # "idle"
  <1>1. call[p] \in [status : {"pending", "tree", "error"}, block : Blocks]
    BY DEF TypeOK, Idle
  <1> QED
    BY <1>1 DEF Finish, TypeOK, Steps, Lines

(* Every step keeps the types.                                             *)
LEMMA TypeStep == TypeOK /\ [Next]_vars => TypeOK'
  <1> SUFFICES ASSUME TypeOK, [Next]_vars PROVE TypeOK'
    OBVIOUS
  <1>1. CASE UNCHANGED vars
    BY <1>1 DEF TypeOK, vars, files
  <1>2. ASSUME NEW p \in Procs, NEW b \in Blocks, GetNetworkTree(p, b) PROVE TypeOK'
    BY <1>2 DEF GetNetworkTree, Goto, TypeOK, Steps, files
  <1>3. ASSUME NEW p \in Procs, LoadFromDisk(p) PROVE TypeOK'
    <2>1. CASE Loadable(call[p].block)
      <3>1. Finish(p, "tree") /\ step[p] # "idle"
        BY <1>3, <2>1 DEF LoadFromDisk, Loadable
      <3> QED
        BY <1>3, <3>1, FinishType DEF LoadFromDisk, TypeOK, Lines, files
    <2>2. CASE ~Loadable(call[p].block)
      BY <1>3, <2>2 DEF LoadFromDisk, Goto, TypeOK, Steps, files
    <2> QED
      BY <2>1, <2>2
  <1>4. ASSUME NEW p \in Procs, BeginData(p) PROVE TypeOK'
    BY <1>4 DEF BeginData, Goto, TypeOK, Steps
  <1>5. ASSUME NEW p \in Procs, EndData(p) PROVE TypeOK'
    BY <1>5 DEF EndData, Goto, TypeOK, Steps
  <1>6. ASSUME NEW p \in Procs, ParseTable(p) PROVE TypeOK'
    <2>1. CASE Sortable(table)
      <3>1. call[p].block \in Lines /\ table \in Seq(Lines)
        BY <1>6 DEF ParseTable, TypeOK, Idle, Lines
      <3>2. WithLine(table, call[p].block) \in Seq(Lines)
        BY <3>1, WithLineLines
      <3> QED
        BY <1>6, <2>1, <3>2 DEF ParseTable, Goto, TypeOK, Steps, Lines, files
    <2>2. CASE ~Sortable(table)
      <3>1. Finish(p, "error") /\ step[p] # "idle"
        BY <1>6, <2>2 DEF ParseTable
      <3> QED
        BY <1>6, <3>1, FinishType DEF ParseTable, TypeOK, Lines, files
    <2> QED
      BY <2>1, <2>2
  <1>7. ASSUME NEW p \in Procs, BeginTable(p) PROVE TypeOK'
    BY <1>7 DEF BeginTable, Goto, TypeOK, Steps
  <1>8. ASSUME NEW p \in Procs, EndTable(p) PROVE TypeOK'
    <2>1. Finish(p, "tree") /\ step[p] # "idle"
      BY <1>8 DEF EndTable
    <2>2. table' \in Seq(Lines)
      BY <1>8, OverLines DEF EndTable, TypeOK, Lines
    <2> QED
      BY <1>8, <2>1, <2>2, FinishType DEF EndTable, TypeOK, Lines
  <1>9. ASSUME NEW p \in Procs, WriteFails(p) PROVE TypeOK'
    <2>1. Finish(p, "error") /\ step[p] # "idle"
      BY <1>9 DEF WriteFails
    <2>2. table' \in Seq(Lines)
      <3>1. CASE step[p] = "data"
        BY <1>9, <3>1 DEF WriteFails, TypeOK, Lines
      <3>2. CASE step[p] = "write"
        <4>1. PICK n \in 0..Len(lines[p]) - 1 :
                  table' = Over(table, Append(SubSeq(lines[p], 1, n), Torn))
          BY <1>9, <3>2 DEF WriteFails
        <4>2. lines[p] \in Seq(Lines) /\ table \in Seq(Lines)
          BY DEF TypeOK, Lines
        <4>3. Append(SubSeq(lines[p], 1, n), Torn) \in Seq(Lines)
          BY <4>2, CutLines
        <4> QED
          BY <4>1, <4>2, <4>3, OverLines
      <3> QED
        BY <1>9, <3>1, <3>2 DEF WriteFails
    <2>3. faults' \in 0..MaxFaults
      BY <1>9, VotingFilesAssumption DEF WriteFails, TypeOK
    <2> QED
      BY <1>9, <2>1, <2>2, <2>3, FinishType DEF WriteFails, TypeOK, Lines
  <1>10. ASSUME NEW p \in Procs, RequestFails(p) PROVE TypeOK'
    <2>1. Finish(p, "error") /\ step[p] # "idle"
      BY <1>10 DEF RequestFails
    <2>2. faults' \in 0..MaxFaults
      BY <1>10, VotingFilesAssumption DEF RequestFails, TypeOK
    <2> QED
      BY <1>10, <2>1, <2>2, FinishType DEF RequestFails, TypeOK, Lines, files
  <1> QED
    BY <1>1, <1>2, <1>3, <1>4, <1>5, <1>6, <1>7, <1>8, <1>9, <1>10 DEF Next, Step

(* Every state is well-typed (TypeOK): in particular no call returns the   *)
(* contents of a file that is not the tree.                                *)
THEOREM TypeCorrect == Spec => []TypeOK
  BY TypeInit, TypeStep, PTL DEF Spec

(* The initial states are initial states of the TreeStore.                 *)
LEMMA StoreInit == Init => Store!Init
  BY DEF Init, Store!Init, Idle, Store!Idle, Damaged, In

(* Finish ends the caller's call in the TreeStore, and it brings no torn   *)
(* line.                                                                   *)
LEMMA FinishStore ==
  ASSUME TypeOK, NEW p \in Procs, step[p] # "idle", NEW status, Finish(p, status)
  PROVE  /\ Store!Finish(p, status)
         /\ \A q \in Procs : In(Torn, lines'[q]) => In(Torn, lines[q])
  BY DEF Finish, Store!Finish, TypeOK, In

(* Every step is a step of the TreeStore, or changes nothing it knows of.  *)
LEMMA StoreStep == TypeOK /\ [Next]_vars => [Store!Next]_Store!vars
  <1> SUFFICES ASSUME TypeOK, [Next]_vars PROVE [Store!Next]_Store!vars
    OBVIOUS
  <1>0. \A p \in Procs : Store!Reply(p) \/ Store!Fail(p) \/ Store!Refuse(p) => Store!Next
    BY DEF Store!Next
  <1>a. UNCHANGED call /\ (Damaged' => Damaged) => [Store!Next]_Store!vars
    BY DEF Store!Next, Store!Heal, Store!vars, Damaged
  <1>b. ASSUME NEW p \in Procs, step[p] # "idle", Finish(p, "tree"),
               In(Torn, table') => Damaged
        PROVE  Store!Next
    BY <1>0, <1>b, FinishStore DEF Store!Reply, Damaged
  <1>1. CASE UNCHANGED vars
    BY <1>1, <1>a DEF vars, files, Damaged
  <1>2. ASSUME NEW p \in Procs, NEW b \in Blocks, GetNetworkTree(p, b) PROVE Store!Next
    <2>1. Store!Ask(p, b)
      BY <1>2 DEF GetNetworkTree, files, Store!Ask, TypeOK, Damaged
    <2> QED
      BY <2>1 DEF Store!Next
  <1>3. ASSUME NEW p \in Procs, LoadFromDisk(p) PROVE [Store!Next]_Store!vars
    <2>1. CASE Loadable(call[p].block)
      BY <1>3, <2>1, <1>b DEF LoadFromDisk, Loadable, files, Damaged
    <2>2. CASE ~Loadable(call[p].block)
      BY <1>3, <2>2, <1>a DEF LoadFromDisk, files, Damaged
    <2> QED
      BY <2>1, <2>2
  <1>4. ASSUME NEW p \in Procs, BeginData(p) PROVE [Store!Next]_Store!vars
    BY <1>4, <1>a DEF BeginData, Damaged
  <1>5. ASSUME NEW p \in Procs, EndData(p) PROVE [Store!Next]_Store!vars
    BY <1>5, <1>a DEF EndData, Damaged
  <1>6. ASSUME NEW p \in Procs, ParseTable(p) PROVE [Store!Next]_Store!vars
    <2>1. CASE Sortable(table)
      <3>1. call[p].block \in Blocks /\ table \in Seq(Lines)
        BY <1>6 DEF ParseTable, TypeOK, Idle, Lines
      <3>2. In(Torn, WithLine(table, call[p].block)) => In(Torn, table)
        BY <3>1, WithLineLines, VotingFilesAssumption DEF Lines, Torn
      <3>3. Damaged' => Damaged
        BY <1>6, <2>1, <3>2 DEF ParseTable, Damaged, files, TypeOK
      <3> QED
        BY <1>6, <2>1, <3>3, <1>a DEF ParseTable
    <2>2. CASE ~Sortable(table)
      <3>1. Store!Finish(p, "error")
        BY <1>6, <2>2, FinishStore DEF ParseTable
      <3>2. Damaged /\ Damaged'
        BY <1>6, <2>2 DEF ParseTable, Sortable, Damaged, files
      <3> QED
        BY <3>1, <3>2, <1>0 DEF Store!Refuse
    <2> QED
      BY <2>1, <2>2
  <1>7. ASSUME NEW p \in Procs, BeginTable(p) PROVE [Store!Next]_Store!vars
    BY <1>7, <1>a DEF BeginTable, Damaged, In
  <1>8. ASSUME NEW p \in Procs, EndTable(p) PROVE [Store!Next]_Store!vars
    <2>1. lines[p] \in Seq(Lines) /\ table \in Seq(Lines)
      BY DEF TypeOK, Lines
    <2>2. In(Torn, table') => Damaged
      BY <1>8, <2>1, OverLines DEF EndTable, Damaged
    <2> QED
      BY <1>8, <1>b, <2>2 DEF EndTable
  <1>9. ASSUME NEW p \in Procs, WriteFails(p) PROVE [Store!Next]_Store!vars
    <2>1. Store!Finish(p, "error")
      BY <1>9, FinishStore DEF WriteFails
    <2>2. Damaged' \in BOOLEAN
      BY DEF Damaged, In
    <2> QED
      BY <2>1, <2>2, <1>0 DEF Store!Fail
  <1>10. ASSUME NEW p \in Procs, RequestFails(p) PROVE [Store!Next]_Store!vars
    <2>1. Store!Finish(p, "error")
      BY <1>10, FinishStore DEF RequestFails
    <2>2. Damaged' \in BOOLEAN
      BY DEF Damaged, In
    <2> QED
      BY <2>1, <2>2, <1>0 DEF Store!Fail
  <1> QED
    BY <1>1, <1>2, <1>3, <1>4, <1>5, <1>6, <1>7, <1>8, <1>9, <1>10 DEF Next, Step

(* GetNetworkTree with its files, races and failing writes, satisfies the  *)
(* safety part of ImplementsTreeStore: a call that returns a tree returns  *)
(* the one it asked for, and it fails only for a fault of its own or damage. *)
THEOREM StoreRefinement == Spec => Store!Safety
  BY TypeCorrect, StoreInit, StoreStep, PTL DEF Spec, Store!Safety

(***************************************************************************)
(* A tree that was saved is found.                                         *)
(***************************************************************************)
\* Nothing has failed, and no other process than p has called.
Alone(p) == faults = 0 /\ \A q \in Procs \ {p} : calls[q] = 0

Saving == {"data", "parse", "table", "write"}

(* While p alone uses the files, every data file but the one it is saving  *)
(* is whole and has its line: in the table, or in the new table that p has *)
(* made and will put in place of it.                                       *)
Kept(p) ==
    LET own   == IF step[p] \in Saving THEN {call[p].block} ELSE {}
        known == IF step[p] \in {"table", "write"} THEN lines[p] ELSE table
    IN  /\ \A b \in Blocks \ own : data[b] # "none" => data[b] = "tree" /\ In(b, known)
        /\ step[p] \in {"parse", "table", "write"} => data[call[p].block] = "tree"
        /\ step[p] \in {"table", "write"} => In(call[p].block, lines[p])
        /\ step[p] = "write" => table = <<>>

KeptInv ==
    /\ calls \in [Procs -> Nat]
    /\ \A p \in Procs : calls[p] = 0 => step[p] = "idle"
    /\ faults = 0 => ~Damaged
    /\ \A p \in Procs : Alone(p) => Kept(p)

LEMMA KeptInit == Init => KeptInv
  BY DEF Init, KeptInv, Damaged, In, Kept, Saving, Alone

(* Nothing is written over the end of an empty table.                      *)
LEMMA OverEmpty ==
  ASSUME NEW S, NEW new \in Seq(S)
  PROVE  Over(<<>>, new) = new
  BY DEF Over

(* WithLine keeps every line, and has the new one.                         *)
LEMMA WithLineKeeps ==
  ASSUME NEW S, NEW old \in Seq(S), NEW b \in S
  PROVE  /\ In(b, WithLine(old, b))
         /\ \A x : In(x, old) => In(x, WithLine(old, b))
  <1>1. CASE In(b, old)
    BY <1>1 DEF WithLine
  <1>2. CASE ~In(b, old)
    <2>1. WithLine(old, b) = Append(old, b)
      BY <1>2 DEF WithLine
    <2>2. Len(Append(old, b)) = Len(old) + 1 /\ Append(old, b)[Len(old) + 1] = b
      OBVIOUS
    <2>3. \A i \in 1..Len(old) : Append(old, b)[i] = old[i]
      OBVIOUS
    <2> QED
      BY <2>1, <2>2, <2>3 DEF In
  <1> QED
    BY <1>1, <1>2

(* A step of q leaves p alone only if q is p: a process that has not       *)
(* called is idle, and its first step is a call.                           *)
LEMMA AloneStep ==
  ASSUME TypeOK, KeptInv, NEW q \in Procs, NEW p \in Procs,
         \/ Step(q) \/ WriteFails(q) \/ RequestFails(q)
         \/ \E b \in Blocks : GetNetworkTree(q, b),
         Alone(p)'
  PROVE  q = p /\ Alone(p) /\ ~WriteFails(q) /\ ~RequestFails(q)
  <1> USE DEF TypeOK, KeptInv, Alone
  <1>1. CASE \E b \in Blocks : GetNetworkTree(q, b)
    BY <1>1 DEF GetNetworkTree, WriteFails, RequestFails
  <1>2. CASE Step(q)
    <2>1. calls' = calls /\ faults' = faults /\ step[q] # "idle"
      BY <1>2 DEF Step, LoadFromDisk, BeginData, EndData, ParseTable, BeginTable, EndTable
    <2>2. ~WriteFails(q) /\ ~RequestFails(q)
      BY <2>1, VotingFilesAssumption DEF WriteFails, RequestFails
    <2> QED
      BY <2>1, <2>2
  <1>3. CASE WriteFails(q) \/ RequestFails(q)
    BY <1>3, VotingFilesAssumption DEF WriteFails, RequestFails
  <1> QED
    BY <1>1, <1>2, <1>3

(* Only a failing write brings damage, and then faults counts it.          *)
LEMMA UndamagedStep ==
  ASSUME TypeOK, KeptInv, [Next]_vars
  PROVE  faults' = 0 => ~Damaged'
  <1>1. CASE UNCHANGED vars
    BY <1>1 DEF vars, files, KeptInv, Damaged
  <1>2. ASSUME NEW q \in Procs, WriteFails(q) \/ RequestFails(q)
        PROVE  faults' # 0
    BY <1>2, VotingFilesAssumption DEF WriteFails, RequestFails, TypeOK
  <1>3. ASSUME NEW q \in Procs, NEW b \in Blocks, GetNetworkTree(q, b)
        PROVE  faults' = 0 => ~Damaged'
    BY <1>3 DEF GetNetworkTree, files, KeptInv, Damaged
  <1>4. ASSUME NEW q \in Procs, Step(q)
        PROVE  faults' = 0 => ~Damaged'
    <2> SUFFICES ASSUME faults' = 0 PROVE ~Damaged'
      OBVIOUS
    <2>1. faults' = faults /\ step[q] # "idle" /\ ~Damaged
      BY <1>4 DEF Step, LoadFromDisk, BeginData, EndData, ParseTable, BeginTable, EndTable, KeptInv
    <2>2. table \in Seq(Lines) /\ lines \in [Procs -> Seq(Lines)] /\ call[q].block \in Lines
          /\ call[q].block # Torn
      BY <2>1, VotingFilesAssumption DEF TypeOK, Lines, Idle, Torn
    <2>3. CASE LoadFromDisk(q)
      <3>1. CASE Loadable(call[q].block)
        BY <2>1, <2>3, <3>1, FinishStore DEF LoadFromDisk, Damaged, files
      <3>2. CASE ~Loadable(call[q].block)
        BY <2>1, <2>3, <3>2 DEF LoadFromDisk, Damaged, files
      <3> QED
        BY <3>1, <3>2
    <2>4. CASE BeginData(q) \/ EndData(q) \/ BeginTable(q)
      BY <2>1, <2>4 DEF BeginData, EndData, BeginTable, Damaged, In
    <2>5. CASE ParseTable(q)
      <3>1. ~In(Torn, WithLine(table, call[q].block))
        BY <2>1, <2>2, WithLineLines DEF Damaged
      <3> QED
        BY <2>1, <2>2, <2>5, <3>1 DEF ParseTable, Sortable, Damaged, files
    <2>6. CASE EndTable(q)
      <3>1. ~In(Torn, table')
        BY <2>1, <2>2, <2>6, OverLines DEF EndTable, Damaged
      <3> QED
        BY <2>1, <2>2, <2>6, <3>1 DEF EndTable, Finish, Damaged, In
    <2> QED
      BY <1>4, <2>3, <2>4, <2>5, <2>6 DEF Step
  <1> QED
    BY <1>1, <1>2, <1>3, <1>4 DEF Next

(* Every step of p, alone, keeps what Kept says.                           *)
LEMMA KeptStep ==
  ASSUME TypeOK, KeptInv, NEW p \in Procs, Alone(p),
         Step(p) \/ \E b \in Blocks : GetNetworkTree(p, b)
  PROVE  Kept(p)'
  <1>1. Kept(p) /\ ~Damaged
    BY DEF KeptInv, Alone
  <1>2. /\ data \in [Blocks -> {"none", "part", "tree"}]
        /\ table \in Seq(Lines) /\ lines \in [Procs -> Seq(Lines)]
        /\ step \in [Procs -> Steps] /\ DOMAIN call = Procs
        /\ step[p] # "idle" => call[p].block \in Blocks
    BY DEF TypeOK, Lines, Idle
  <1> USE DEF Saving
  <1>3. ASSUME NEW b \in Blocks, GetNetworkTree(p, b) PROVE Kept(p)'
    BY <1>1, <1>2, <1>3 DEF GetNetworkTree, Goto, Kept, files
  <1>4. CASE LoadFromDisk(p)
    BY <1>1, <1>2, <1>4 DEF LoadFromDisk, Finish, Goto, Kept, files
  <1>5. CASE BeginData(p)
    BY <1>1, <1>2, <1>5 DEF BeginData, Goto, Kept
  <1>6. CASE EndData(p)
    BY <1>1, <1>2, <1>6 DEF EndData, Goto, Kept
  <1>7. CASE ParseTable(p)
    <2>1. Sortable(table)
      BY <1>1 DEF Sortable, Damaged
    <2>2. /\ call[p].block \in Lines
          /\ In(call[p].block, WithLine(table, call[p].block))
          /\ \A x : In(x, table) => In(x, WithLine(table, call[p].block))
      BY <1>2, <1>7, WithLineKeeps DEF ParseTable, Lines
    <2> QED
      BY <1>1, <1>2, <1>7, <2>1, <2>2 DEF ParseTable, Goto, Kept, files
  <1>8. CASE BeginTable(p)
    BY <1>1, <1>2, <1>8 DEF BeginTable, Goto, Kept
  <1>9. CASE EndTable(p)
    <2>1. table' = lines[p]
      BY <1>1, <1>2, <1>9, OverEmpty DEF EndTable, Kept
    <2> QED
      BY <1>1, <1>2, <1>9, <2>1 DEF EndTable, Finish, Kept
  <1> QED
    BY <1>3, <1>4, <1>5, <1>6, <1>7, <1>8, <1>9 DEF Step

LEMMA KeptNext == TypeOK /\ KeptInv /\ [Next]_vars => KeptInv'
  <1> SUFFICES ASSUME TypeOK, KeptInv, [Next]_vars PROVE KeptInv'
    OBVIOUS
  <1>1. CASE UNCHANGED vars
    BY <1>1 DEF vars, files, KeptInv, Damaged, Alone, Kept
  <1>2. ASSUME NEW q \in Procs,
               \/ Step(q) \/ WriteFails(q) \/ RequestFails(q)
               \/ \E b \in Blocks : GetNetworkTree(q, b)
        PROVE  KeptInv'
    <2>1. /\ calls' \in [Procs -> Nat]
          /\ \A p \in Procs : calls'[p] = 0 => step'[p] = "idle"
      <3>1. CASE \E b \in Blocks : GetNetworkTree(q, b)
        BY <3>1 DEF GetNetworkTree, Goto, KeptInv, TypeOK
      <3>2. CASE Step(q) \/ WriteFails(q) \/ RequestFails(q)
        <4>1. calls' = calls /\ step[q] # "idle"
          BY <3>2 DEF Step, LoadFromDisk, BeginData, EndData, ParseTable, BeginTable, EndTable,
                      WriteFails, RequestFails
        <4>2. \A p \in Procs \ {q} : step'[p] = step[p]
          BY <3>2 DEF Step, LoadFromDisk, BeginData, EndData, ParseTable, BeginTable, EndTable,
                      WriteFails, RequestFails, Finish, Goto, TypeOK
        <4> QED
          BY <4>1, <4>2 DEF KeptInv
      <3> QED
        BY <1>2, <3>1, <3>2
    <2>2. \A p \in Procs : Alone(p)' => Kept(p)'
      BY <1>2, AloneStep, KeptStep
    <2> QED
      BY <2>1, <2>2, UndamagedStep DEF KeptInv
  <1> QED
    BY <1>1, <1>2 DEF Next

(* In every reachable state a tree that one process has saved is found the *)
(* next time (SavedIsFound), unless others use the files or a write fails. *)
THEOREM SavedIsFoundHolds == Spec => []SavedIsFound
  <1>1. TypeOK /\ KeptInv => SavedIsFound
    <2> SUFFICES ASSUME TypeOK, KeptInv, faults = 0, Quiet,
                        NEW p \in Procs, \A q \in Procs \ {p} : calls[q] = 0,
                        NEW b \in Blocks, data[b] # "none"
                 PROVE  Loadable(b)
      BY DEF SavedIsFound
    <2>1. data[b] = "tree" /\ In(b, table) /\ ~In(Torn, table)
      BY DEF KeptInv, Alone, Kept, Quiet, Saving, Damaged
    <2>2. table \in Seq(Lines)
      BY DEF TypeOK, Lines
    <2> QED
      BY <2>1, <2>2 DEF Loadable, In
  <1> QED
    BY TypeCorrect, KeptInit, KeptNext, <1>1, PTL DEF Spec

-----------------------------------------------------------------------------
(* ChallengeWalk: numbers, trees, indices and proofs                       *)

(* A set of numbers with 0 and the successor of each of its members has    *)
(* them all: induction, in a form that speaks of sets.                     *)
LEMMA Induction ==
  ASSUME NEW S, 0 \in S, \A k \in Nat : k \in S => k + 1 \in S
  PROVE  Nat \subseteq S
  <1> SUFFICES ASSUME Nat \ S # {}
               PROVE  FALSE
    OBVIOUS
  <1> DEFINE T == Nat \ S
  <1>1. PICK k \in T : \A j \in T : ~(<<j, k>> \in OpToRel(<, Nat))
    <2>1. T \subseteq Nat /\ T # {}
      OBVIOUS
    <2> HIDE DEF T
    <2> QED
      BY <2>1, NatLessThanWellFounded, WFMin
  <1>2. k # 0 /\ k - 1 \in Nat /\ k - 1 < k
    OBVIOUS
  <1>3. <<k - 1, k>> \in OpToRel(<, Nat)
    BY <1>2 DEF OpToRel
  <1>4. k - 1 \in S
    BY <1>1, <1>2, <1>3
  <1>5. (k - 1) + 1 = k
    OBVIOUS
  <1> QED
    BY <1>2, <1>4, <1>5

(* The powers of two.                                                      *)
LEMMA PowerIsNat ==
  ASSUME NEW k \in Nat
  PROVE  2^k \in Nat /\ 2^k = Cardinality(SUBSET (1..k))
  <1>1. IsFiniteSet(1..k) /\ Cardinality(1..k) = k
    BY FS_Interval
  <1>2. IsFiniteSet(SUBSET (1..k)) /\ Cardinality(SUBSET (1..k)) = 2^k
    BY <1>1, FS_SUBSET
  <1> QED
    BY <1>2, FS_CardinalityType

\* One more in the exponent doubles a power of two.
LEMMA PowerDoubles ==
  ASSUME NEW k \in Nat
  PROVE  2^(k + 1) = 2 * 2^k
  <1> DEFINE S == 1..k
             T == 1..k + 1
             f == [A \in SUBSET S |-> A \cup {k + 1}]
             With == {A \cup {k + 1} : A \in SUBSET S}
  <1>1. T = S \cup {k + 1} /\ k + 1 \notin S
    OBVIOUS
  <1>f. IsFiniteSet(SUBSET S) /\ IsFiniteSet(SUBSET T)
    <2>1. IsFiniteSet(S) /\ IsFiniteSet(T)
      <3>1. k \in Int /\ k + 1 \in Int
        OBVIOUS
      <3> QED
        BY <3>1, FS_Interval
    <2> HIDE DEF S, T
    <2> QED
      BY <2>1, FS_SUBSET
  <1> HIDE DEF S, T
  <1>2. SUBSET T = (SUBSET S) \cup With
    <2>1. ASSUME NEW A \in SUBSET T, k + 1 \in A
          PROVE  A \in With
      <3>1. A \ {k + 1} \in SUBSET S /\ A = (A \ {k + 1}) \cup {k + 1}
        BY <1>1, <2>1
      <3> QED
        BY <3>1
    <2>2. ASSUME NEW A \in SUBSET T, k + 1 \notin A
          PROVE  A \in SUBSET S
      BY <1>1, <2>2
    <2> QED
      BY <1>1, <2>1, <2>2
  <1>3. (SUBSET S) \cap With = {}
    BY <1>1
  <1>4. f \in Bijection(SUBSET S, With)
    <2>1. f \in [SUBSET S -> With]
      OBVIOUS
    <2>2. ASSUME NEW A \in SUBSET S, NEW B \in SUBSET S, f[A] = f[B]
          PROVE  A = B
      BY <1>1, <2>2
    <2>3. \A B \in With : \E A \in SUBSET S : f[A] = B
      OBVIOUS
    <2> HIDE DEF f, With
    <2> QED
      BY <2>1, <2>2, <2>3 DEF Bijection, Injection, Surjection, IsInjective
  <1>5. IsFiniteSet(With) /\ Cardinality(With) = Cardinality(SUBSET S)
    BY <1>4, <1>f, FS_Bijection DEF ExistsBijection
  <1>6. Cardinality(SUBSET T) = Cardinality(SUBSET S) + Cardinality(With) - Cardinality({})
    <2> HIDE DEF With
    <2> QED
      BY <1>f, <1>2, <1>3, <1>5, FS_Union
  <1>7. Cardinality({}) = 0
    BY FS_EmptySet
  <1>8. Cardinality(SUBSET S) = 2^k /\ Cardinality(SUBSET T) = 2^(k + 1) /\ 2^k \in Nat
    BY PowerIsNat DEF S, T
  <1> QED
    BY <1>5, <1>6, <1>7, <1>8

\* The first power of two, and that powers of two are numbers that outgrow the exponent.
LEMMA Powers2 ==
  /\ 2^0 = 1
  /\ \A k \in Nat : 2^k \in Nat /\ 2^k > k
  <1>1. 2^0 = 1
    OBVIOUS
  <1> DEFINE S == {k \in Nat : 2^k > k}
  <1>2. 0 \in S
    BY <1>1
  <1>3. ASSUME NEW k \in Nat, k \in S
        PROVE  k + 1 \in S
    <2>1. 2^(k + 1) = 2 * 2^k /\ 2^k \in Nat /\ 2^k > k
      BY <1>3, PowerDoubles, PowerIsNat
    <2>2. ASSUME NEW p \in Nat, p > k
          PROVE  2 * p > k + 1
      BY <2>2
    <2> QED
      BY <2>1, <2>2
  <1>4. Nat \subseteq S
    <2> HIDE DEF S
    <2> QED
      BY <1>2, <1>3, Induction
  <1> QED
    BY <1>1, <1>4, PowerIsNat

(* An exponent that is a sum.                                              *)
LEMMA PowerOfSum ==
  ASSUME NEW a \in Nat, NEW b \in Nat
  PROVE  2^(a + b) = 2^a * 2^b
  <1> DEFINE S == {k \in Nat : 2^(a + k) = 2^a * 2^k}
  <1>1. 0 \in S
    BY Powers2
  <1>2. ASSUME NEW k \in Nat, k \in S
        PROVE  k + 1 \in S
    <2>1. a + (k + 1) = (a + k) + 1
      OBVIOUS
    <2>2. 2^(a + (k + 1)) = 2 * 2^(a + k) /\ 2^(k + 1) = 2 * 2^k
      BY <2>1, PowerDoubles
    <2>3. \A p, q \in Nat : 2 * (p * q) = p * (2 * q)
      OBVIOUS
    <2> QED
      BY <1>2, <2>2, <2>3, PowerIsNat
  <1>3. Nat \subseteq S
    <2> HIDE DEF S
    <2> QED
      BY <1>1, <1>2, Induction
  <1> QED
    BY <1>3

\* A greater exponent is a power at least twice as great.
LEMMA PowerMonotone ==
  ASSUME NEW a \in Nat, NEW b \in Nat, a < b
  PROVE  2 * 2^a <= 2^b
  <1> DEFINE c == b - (a + 1)
  <1>1. c \in Nat /\ b = (a + 1) + c
    OBVIOUS
  <1> HIDE DEF c
  <1>2. 2^b = (2 * 2^a) * 2^c
    <2>1. 2^((a + 1) + c) = 2^(a + 1) * 2^c
      BY <1>1, PowerOfSum
    <2> QED
      BY <1>1, <2>1, PowerDoubles
  <1>3. 2^c \in Nat \ {0} /\ 2^a \in Nat
    BY <1>1, Powers2
  <1>4. \A p \in Nat, q \in Nat \ {0} : p * q >= p
    OBVIOUS
  <1> QED
    BY <1>2, <1>3, <1>4

(* What FloorLog2 and CeilLog2 compute.                                    *)
LEMMA FloorLog2Is ==
  ASSUME NEW k \in Nat, NEW n \in Nat, 2^k <= n, n < 2 * 2^k
  PROVE  FloorLog2(n) = k
  <1>1. k \in 0..n /\ n < 2^(k + 1)
    BY Powers2, PowerDoubles
  <1>2. ASSUME NEW j \in 0..n, 2^j <= n, n < 2^(j + 1)
        PROVE  j = k
    <2>1. 2^(j + 1) = 2 * 2^j /\ 2^j \in Nat /\ 2^k \in Nat
      BY PowerDoubles, Powers2
    <2>2. CASE j < k
      BY <2>1, <2>2, <1>2, PowerMonotone
    <2>3. CASE k < j
      BY <2>1, <2>3, <1>2, PowerMonotone
    <2> QED
      BY <2>2, <2>3
  <1> QED
    BY <1>1, <1>2 DEF FloorLog2

\* CeilLog2 is the least exponent of a power that is not below the number.
LEMMA CeilLog2Is ==
  ASSUME NEW n \in Nat \ {0}
  PROVE  /\ CeilLog2(n) \in Nat
         /\ n <= 2^CeilLog2(n)
         /\ \A j \in 0..CeilLog2(n) - 1 : 2^j < n
  <1> DEFINE T == {k \in Nat : n <= 2^k}
  <1>1. n \in T
    BY Powers2
  <1>2. PICK k \in T : \A j \in T : ~(<<j, k>> \in OpToRel(<, Nat))
    <2>1. T \subseteq Nat /\ T # {}
      BY <1>1
    <2> HIDE DEF T
    <2> QED
      BY <2>1, NatLessThanWellFounded, WFMin
  <1>3. \A j \in 0..k - 1 : 2^j < n
    <2> TAKE j \in 0..k - 1
    <2>1. <<j, k>> \in OpToRel(<, Nat) /\ j \in Nat
      BY DEF OpToRel
    <2>2. j \notin T
      BY <1>2, <2>1
    <2>3. 2^j \in Nat
      BY <2>1, Powers2
    <2>4. ~(n <= 2^j)
      BY <2>1, <2>2, Zenon
    <2> HIDE DEF T
    <2> QED
      BY <2>3, <2>4
  <1>4. k <= n
    <2>1. ASSUME n < k
          PROVE  FALSE
      BY <1>3, <2>1, Powers2
    <2> QED
      BY <2>1
  <1> DEFINE P(m) == n <= 2^m /\ \A j \in 0..m - 1 : 2^j < n
  <1>5. \E m \in 0..n : P(m)
    BY <1>3, <1>4
  <1>6. CeilLog2(n) = CHOOSE m \in 0..n : P(m)
    BY Zenon DEF CeilLog2
  <1>7. CeilLog2(n) \in 0..n /\ P(CeilLog2(n))
    <2> HIDE DEF P
    <2> QED
      BY <1>5, <1>6, Zenon
  <1> QED
    BY <1>7

\* CeilLog2 of a power of two is its exponent.
LEMMA CeilLog2OfPower ==
  ASSUME NEW k \in Nat
  PROVE  CeilLog2(2^k) = k
  <1> DEFINE c == CeilLog2(2^k)
  <1>1. 2^k \in Nat \ {0}
    BY Powers2
  <1>2. c \in Nat /\ 2^k <= 2^c /\ \A j \in 0..c - 1 : 2^j < 2^k
    BY <1>1, CeilLog2Is
  <1> HIDE DEF c
  <1>3. ~(c < k)
    BY <1>1, <1>2, PowerMonotone, Powers2
  <1>4. ~(k < c)
    BY <1>1, <1>2
  <1> QED
    BY <1>2, <1>3, <1>4 DEF c

\* The nodes of the trees; a hash is the sequence of the balances below.
Node == [sum : Nat, hash : Seq(Nat)]

\* The nodes of a tree whose first leaf has index m: what is above the leaves
\* is made from its children.
Heap(t, m) ==
    /\ t \in [1..2 * m - 1 -> Node]
    /\ \A i \in 1..m - 1 : t[i] = getParentNodeFromChildren(t[2 * i], t[2 * i + 1])

\* What LeafNode and getParentNodeFromChildren make are nodes, and a leaf shows its balance.
LEMMA NodesAreNodes ==
  /\ \A balance \in Nat : LeafNode(balance) \in Node
  /\ \A l, r \in Node : getParentNodeFromChildren(l, r) \in Node
  /\ \A b, c \in Nat : LeafNode(b) = LeafNode(c) => b = c
  BY DEF LeafNode, getHashForBalance, getParentNodeFromChildren, Node

(* The recursion of TreeNodes is well-founded: the indices of the children *)
(* of a node are greater than its own, and there is a last one.            *)
LEMMA TreeNodesIs ==
  ASSUME NEW first \in Nat \ {0}, NEW leaves \in Seq(Node)
  PROVE  /\ Heap(TreeNodes(leaves, first), first)
         /\ \A j \in 0..first - 1 :
                TreeNodes(leaves, first)[first + j] =
                    IF j < Len(leaves) THEN leaves[j + 1] ELSE LeafNode(0)
  <1> DEFINE D == 1..2 * first - 1
             Leaf(i) == IF i - first < Len(leaves) THEN leaves[i - first + 1] ELSE LeafNode(0)
             Value(f, i) == IF i < first
                            THEN getParentNodeFromChildren(f[2 * i], f[2 * i + 1])
                            ELSE Leaf(i)
             From(k, f) == \A i \in D : i >= first - k => f[i] = Value(f, i)
             S == {k \in Nat : k < first => \E f \in [D -> Node] : From(k, f)}
  <1>1. \A i \in D : i >= first => Leaf(i) \in Node
    BY NodesAreNodes
  <1>2. 0 \in S
    <2> DEFINE f == [i \in D |-> IF i < first THEN LeafNode(0) ELSE Leaf(i)]
    <2>1. f \in [D -> Node]
      <3> HIDE DEF Leaf
      <3> QED
        BY <1>1, NodesAreNodes
    <2>2. From(0, f)
      <3> HIDE DEF Leaf
      <3> QED
        OBVIOUS
    <2> HIDE DEF f, From
    <2> QED
      BY <2>1, <2>2
  <1>3. ASSUME NEW k \in Nat, k \in S
        PROVE  k + 1 \in S
    <2> SUFFICES ASSUME k + 1 < first
                 PROVE  \E f \in [D -> Node] : From(k + 1, f)
      <3> HIDE DEF From, D
      <3> QED
        OBVIOUS
    <2>1. PICK f \in [D -> Node] : From(k, f)
      <3> HIDE DEF From
      <3> QED
        BY <1>3
    <2> DEFINE x == first - (k + 1)
               g == [f EXCEPT ![x] = getParentNodeFromChildren(f[2 * x], f[2 * x + 1])]
    <2>2. x \in 1..first - 1 /\ x \in D /\ 2 * x \in D /\ 2 * x + 1 \in D
      OBVIOUS
    <2>3. g \in [D -> Node]
      <3>1. getParentNodeFromChildren(f[2 * x], f[2 * x + 1]) \in Node
        <4> HIDE DEF x, D
        <4> QED
          BY <2>2, NodesAreNodes
      <3> HIDE DEF x
      <3> QED
        BY <3>1
    <2>4. ASSUME NEW i \in D, i >= x
          PROVE  g[i] = Value(g, i)
      <3>1. CASE i = x
        <4>1. g[2 * x] = f[2 * x] /\ g[2 * x + 1] = f[2 * x + 1]
          <5> HIDE DEF D
          <5> QED
            BY <2>2
        <4>2. g[x] = getParentNodeFromChildren(f[2 * x], f[2 * x + 1])
          <5> HIDE DEF D, x
          <5> QED
            BY <2>2
        <4>3. Value(g, x) = getParentNodeFromChildren(g[2 * x], g[2 * x + 1])
          <5> HIDE DEF Leaf, g
          <5> QED
            BY <2>2
        <4> HIDE DEF g, x
        <4> QED
          BY <3>1, <4>1, <4>2, <4>3
      <3>2. CASE i # x
        <4>1. i >= first - k
          BY <2>4, <3>2
        <4>2. f[i] = Value(f, i)
          <5> HIDE DEF Value
          <5> QED
            BY <2>1, <4>1
        <4>3. g[i] = f[i]
          <5> HIDE DEF x, D
          <5> QED
            BY <3>2
        <4>4. i < first => g[2 * i] = f[2 * i] /\ g[2 * i + 1] = f[2 * i + 1]
          <5>1. i < first => 2 * i \in D /\ 2 * i + 1 \in D /\ 2 * i # x /\ 2 * i + 1 # x
            BY <2>4
          <5> HIDE DEF x, D
          <5> QED
            BY <5>1
        <4> HIDE DEF Leaf, g
        <4> QED
          BY <4>2, <4>3, <4>4
      <3> QED
        BY <3>1, <3>2
    <2>5. From(k + 1, g)
      <3> HIDE DEF Value, g
      <3> QED
        BY <2>4
    <2> HIDE DEF From, g
    <2> QED
      BY <2>3, <2>5
  <1>4. Nat \subseteq S
    <2> HIDE DEF S
    <2> QED
      BY <1>2, <1>3, Induction
  <1>5. PICK f \in [D -> Node] : From(first - 1, f)
    <2>1. first - 1 \in S
      <3> HIDE DEF S
      <3> QED
        BY <1>4
    <2> HIDE DEF From
    <2> QED
      BY <2>1
  <1>6. f = [i \in D |-> Value(f, i)]
    <2>1. \A i \in D : f[i] = Value(f, i)
      <3> HIDE DEF Value
      <3> QED
        BY <1>5
    <2> HIDE DEF Value, D
    <2> QED
      BY <2>1
  <1> DEFINE t == TreeNodes(leaves, first)
  <1>7. t = CHOOSE h : h = [i \in D |-> Value(h, i)]
    BY Zenon DEF TreeNodes
  <1>8. t = [i \in D |-> Value(t, i)]
    <2> HIDE DEF Value, D, t
    <2> QED
      BY <1>6, <1>7, Zenon
  <1>9. \A i \in D : t[i] = Value(t, i)
    <2> HIDE DEF Value, D, t
    <2> QED
      BY <1>8
  <1>10. t \in [D -> Node]
    <2> DEFINE N == {k \in Nat : \A i \in D : i >= first - k => t[i] \in Node}
    <2> HIDE DEF t
    <2>1. 0 \in N
      <3> HIDE DEF Leaf
      <3> QED
        BY <1>1, <1>9
    <2>2. ASSUME NEW k \in Nat, k \in N
          PROVE  k + 1 \in N
      <3> SUFFICES ASSUME NEW i \in D, i >= first - (k + 1)
                   PROVE  t[i] \in Node
        OBVIOUS
      <3>1. CASE i < first
        <4>1. 2 * i \in D /\ 2 * i + 1 \in D /\ 2 * i >= first - k /\ 2 * i + 1 >= first - k
          BY <3>1
        <4>2. t[2 * i] \in Node /\ t[2 * i + 1] \in Node
          BY <2>2, <4>1
        <4>3. t[i] = getParentNodeFromChildren(t[2 * i], t[2 * i + 1])
          <5> HIDE DEF Leaf
          <5> QED
            BY <1>9, <3>1
        <4> QED
          BY <4>2, <4>3, NodesAreNodes
      <3>2. CASE ~(i < first)
        <4> HIDE DEF Leaf
        <4> QED
          BY <1>1, <1>9, <3>2
      <3> QED
        BY <3>1, <3>2
    <2>3. Nat \subseteq N
      <3> HIDE DEF N
      <3> QED
        BY <2>1, <2>2, Induction
    <2>4. \A i \in D : t[i] \in Node
      <3>1. first \in N
        <4> HIDE DEF N
        <4> QED
          BY <2>3
      <3> QED
        BY <3>1
    <2>5. DOMAIN t = D /\ t = [i \in D |-> t[i]]
      <3> HIDE DEF Value, D
      <3> QED
        BY <1>8
    <2> HIDE DEF D
    <2> QED
      BY <2>4, <2>5
  <1>11. \A i \in 1..first - 1 : t[i] = getParentNodeFromChildren(t[2 * i], t[2 * i + 1])
    <2> HIDE DEF Leaf, t
    <2> QED
      BY <1>9
  <1>12. \A j \in 0..first - 1 :
             t[first + j] = IF j < Len(leaves) THEN leaves[j + 1] ELSE LeafNode(0)
    <2> TAKE j \in 0..first - 1
    <2>1. first + j \in D /\ ~(first + j < first) /\ (first + j) - first = j
      OBVIOUS
    <2> HIDE DEF t, D
    <2> QED
      BY <1>9, <2>1
  <1> QED
    BY <1>10, <1>11, <1>12 DEF Heap

(* The sums of the first numbers of a list exist.                          *)
LEMMA SumsExist ==
  ASSUME NEW n \in Nat, NEW g \in [1..n -> Nat]
  PROVE  \E f \in [0..n -> Nat] : f[0] = 0 /\ \A k \in 1..n : f[k] = f[k - 1] + g[k]
  <1> DEFINE UpTo(m, f) == f[0] = 0 /\ \A k \in 1..n : k <= m => f[k] = f[k - 1] + g[k]
             S == {m \in Nat : m <= n => \E f \in [0..n -> Nat] : UpTo(m, f)}
  <1>1. 0 \in S
    <2>1. [k \in 0..n |-> 0] \in [0..n -> Nat] /\ UpTo(0, [k \in 0..n |-> 0])
      OBVIOUS
    <2> HIDE DEF UpTo
    <2> QED
      BY <2>1
  <1>2. ASSUME NEW m \in Nat, m \in S
        PROVE  m + 1 \in S
    <2>1. ASSUME m + 1 <= n
          PROVE  \E f \in [0..n -> Nat] : UpTo(m + 1, f)
      <3>1. PICK f \in [0..n -> Nat] : UpTo(m, f)
        <4> HIDE DEF UpTo
        <4> QED
          BY <1>2, <2>1
      <3> DEFINE h == [f EXCEPT ![m + 1] = f[m] + g[m + 1]]
      <3>2. h \in [0..n -> Nat] /\ h[m + 1] = f[m] + g[m + 1]
            /\ \A k \in 0..n : k # m + 1 => h[k] = f[k]
        BY <2>1
      <3> HIDE DEF h
      <3>3. h[0] = 0
        BY <3>1, <3>2
      <3>4. ASSUME NEW k \in 1..n, k <= m + 1
            PROVE  h[k] = h[k - 1] + g[k]
        <4>1. k - 1 \in 0..n /\ k - 1 # m + 1
          BY <3>4
        <4>2. CASE k = m + 1
          <5>1. k - 1 = m
            BY <4>2
          <5> QED
            BY <3>2, <4>1, <4>2, <5>1
        <4>3. CASE k # m + 1
          <5>1. h[k] = f[k] /\ h[k - 1] = f[k - 1] /\ k <= m
            BY <3>2, <3>4, <4>1, <4>3
          <5> QED
            BY <3>1, <5>1
        <4> QED
          BY <4>2, <4>3
      <3> QED
        BY <3>2, <3>3, <3>4
    <2> HIDE DEF UpTo
    <2> QED
      BY <2>1
  <1>3. n \in S
    <2> HIDE DEF S
    <2> QED
      BY <1>1, <1>2, Induction
  <1>4. PICK f \in [0..n -> Nat] : UpTo(n, f)
    <2> HIDE DEF UpTo
    <2> QED
      BY <1>3
  <1>5. f[0] = 0 /\ \A k \in 1..n : f[k] = f[k - 1] + g[k]
    BY <1>4
  <1> QED
    BY <1>5, Zenon

\* Snapshots of any length, with any powers and delegates.
Snapshot == Seq([power : Nat, delegate : Nat])

(* DelegatedTo counts the power of the delegators one by one.              *)
LEMMA DelegatedToIs ==
  ASSUME NEW s \in Snapshot, NEW m
  PROVE  /\ DelegatedTo(s, m) \in [0..Len(s) -> Nat]
         /\ DelegatedTo(s, m)[0] = 0
         /\ \A k \in 1..Len(s) :
                DelegatedTo(s, m)[k] = DelegatedTo(s, m)[k - 1]
                    + (IF s[k].delegate = m THEN s[k].power ELSE 0)
  <1> DEFINE n == Len(s)
             Given(k) == IF s[k].delegate = m THEN s[k].power ELSE 0
             Value(f, k) == IF k = 0 THEN 0 ELSE f[k - 1] + Given(k)
             F == [k \in 1..n |-> Given(k)]
             t == DelegatedTo(s, m)
  <1>1. n \in Nat /\ \A k \in 1..n : Given(k) \in Nat
    <2>1. s \in Seq([power : Nat, delegate : Nat])
      BY DEF Snapshot
    <2>2. \A k \in 1..Len(s) : s[k] \in [power : Nat, delegate : Nat]
      BY <2>1, ElementOfSeq
    <2> QED
      BY <2>1, <2>2
  <1>2. F \in [1..n -> Nat] /\ \A k \in 1..n : F[k] = Given(k)
    <2> HIDE DEF Given, n
    <2> QED
      BY <1>1
  <1>3. PICK f \in [0..n -> Nat] : f[0] = 0 /\ \A k \in 1..n : f[k] = f[k - 1] + F[k]
    <2> HIDE DEF F, n
    <2> QED
      BY <1>1, <1>2, SumsExist
  <1>4. \A k \in 1..n : f[k] = f[k - 1] + Given(k)
    <2> HIDE DEF F, Given, n
    <2> QED
      BY <1>2, <1>3
  <1>5. f = [k \in 0..n |-> Value(f, k)]
    <2>1. \A k \in 0..n : f[k] = Value(f, k)
      <3> HIDE DEF Given, n
      <3> QED
        BY <1>1, <1>3, <1>4
    <2> HIDE DEF Value, n
    <2> QED
      BY <2>1
  <1>6. t = CHOOSE h : h = [k \in 0..n |-> Value(h, k)]
    BY Zenon DEF DelegatedTo
  <1>7. t = [k \in 0..n |-> Value(t, k)]
    <2> HIDE DEF Value, n, t
    <2> QED
      BY <1>5, <1>6, Zenon
  <1>8. \A k \in 0..n : t[k] = Value(t, k)
    <2> HIDE DEF Value, n, t
    <2> QED
      BY <1>7
  <1>9. t[0] = 0 /\ \A k \in 1..n : t[k] = t[k - 1] + Given(k)
    <2> HIDE DEF Given, n, t
    <2> QED
      BY <1>1, <1>8
  <1> HIDE DEF t
  <1>10. \A k \in 0..n : t[k] \in Nat
    <2> DEFINE S == {k \in Nat : k <= n => t[k] \in Nat}
    <2> HIDE DEF Given, n
    <2>1. 0 \in S
      BY <1>9
    <2>2. ASSUME NEW k \in Nat, k \in S
          PROVE  k + 1 \in S
      BY <2>2, <1>1, <1>9
    <2>3. Nat \subseteq S
      <3> HIDE DEF S
      <3> QED
        BY <2>1, <2>2, Induction
    <2> QED
      BY <2>3, <1>1
  <1>11. t \in [0..n -> Nat]
    <2> HIDE DEF Value, n
    <2> QED
      BY <1>7, <1>10
  <1> QED
    BY <1>9, <1>11 DEF t

\* The nodes on the way up from a node, each made with a partner of the proof.
Rises(up, node, index, proof) ==
    /\ up = [k \in 0..Len(proof) |-> up[k]]
    /\ up[0] = node
    /\ \A k \in 1..Len(proof) :
           up[k] = IF (index \div 2^(k - 1)) % 2 = 0
                   THEN getParentNodeFromChildren(up[k - 1], proof[k])
                   ELSE getParentNodeFromChildren(proof[k], up[k - 1])

(* A function that goes up like FoldProof ends where FoldProof does.       *)
LEMMA FoldProofIs ==
  ASSUME NEW node, NEW index, NEW proof, Len(proof) \in Nat, NEW up,
         Rises(up, node, index, proof)
  PROVE  FoldProof(node, index, proof) = up[Len(proof)]
  <1> DEFINE n == Len(proof)
             Above(x, k) == IF (index \div 2^(k - 1)) % 2 = 0
                           THEN getParentNodeFromChildren(x, proof[k])
                           ELSE getParentNodeFromChildren(proof[k], x)
             Value(f, k) == IF k = 0 THEN node ELSE Above(f[k - 1], k)
             t == CHOOSE h : h = [k \in 0..n |-> Value(h, k)]
  <1>1. up = [k \in 0..n |-> Value(up, k)]
    <2>1. \A k \in 0..n : up[k] = Value(up, k)
      <3>1. \A k \in 1..n : up[k] = Above(up[k - 1], k)
        BY DEF Rises
      <3>2. up[0] = node /\ n \in Nat
        BY DEF Rises
      <3> HIDE DEF Above, n
      <3> QED
        BY <3>1, <3>2
    <2>2. up = [k \in 0..n |-> up[k]]
      BY DEF Rises
    <2> HIDE DEF Value, n
    <2> QED
      BY <2>1, <2>2
  <1>2. FoldProof(node, index, proof) = t[n]
    BY Zenon DEF FoldProof
  <1>3. t = [k \in 0..n |-> Value(t, k)]
    <2> HIDE DEF Value, n
    <2> QED
      BY <1>1, Zenon
  <1>4. \A k \in 0..n : t[k] = Value(t, k) /\ up[k] = Value(up, k)
    <2> HIDE DEF Value, n, t
    <2> QED
      BY <1>1, <1>3
  <1> HIDE DEF t, Above
  <1> DEFINE S == {k \in Nat : k <= n => t[k] = up[k]}
  <1>5. 0 \in S
    BY <1>4
  <1>6. ASSUME NEW k \in Nat, k \in S
        PROVE  k + 1 \in S
    <2> SUFFICES ASSUME k + 1 <= n
                 PROVE  t[k + 1] = up[k + 1]
      OBVIOUS
    <2>1. (k + 1) - 1 = k /\ k + 1 # 0 /\ k \in 0..n /\ k + 1 \in 0..n /\ k <= n
      OBVIOUS
    <2>2. t[k] = up[k]
      BY <1>6, <2>1
    <2>3. t[k + 1] = Above(t[k], k + 1) /\ up[k + 1] = Above(up[k], k + 1)
      <3> HIDE DEF n
      <3> QED
        BY <1>4, <2>1
    <2> QED
      BY <2>2, <2>3
  <1>7. n \in S
    <2> HIDE DEF S
    <2> QED
      BY <1>5, <1>6, Induction
  <1> QED
    BY <1>2, <1>7

(* Quotients and remainders.                                               *)
LEMMA Quotient ==
  ASSUME NEW a \in Nat, NEW m \in Nat \ {0}, NEW j \in 0..m - 1
  PROVE  (a * m + j) \div m = a /\ (a * m + j) % m = j
  OBVIOUS

\* A number from its quotient and its remainder.
LEMMA Division ==
  ASSUME NEW y \in Nat, NEW p \in Nat \ {0}
  PROVE  /\ y \div p \in Nat /\ y % p \in 0..p - 1
         /\ y = (y \div p) * p + (y % p)
  <1>1. y % p \in 0..p - 1
    OBVIOUS
  <1>2. y = p * (y \div p) + (y % p)
    OBVIOUS
  <1>3. y \div p \in Nat
    OBVIOUS
  <1> QED
    BY <1>1, <1>2, <1>3

\* A multiple of the divisor adds its factor to the quotient.
LEMMA QuotientOfSum ==
  ASSUME NEW a \in Nat, NEW c \in Nat, NEW p \in Nat \ {0}
  PROVE  (a * p + c) \div p = a + (c \div p)
  <1> DEFINE q == c \div p
             j == c % p
  <1>1. q \in Nat /\ j \in 0..p - 1 /\ c = q * p + j
    BY Division
  <1> HIDE DEF q, j
  <1>2. a * p + c = (a + q) * p + j
    BY <1>1
  <1>3. a + q \in Nat
    BY <1>1
  <1> QED
    BY <1>1, <1>2, <1>3, Quotient DEF q

\* The parent of an ancestor is the ancestor one level up.
LEMMA HalfOfQuotient ==
  ASSUME NEW y \in Nat, NEW p \in Nat \ {0}
  PROVE  (y \div p) \div 2 = y \div (2 * p)
  <1> DEFINE q == y \div p
             j == y % p
             h == q \div 2
             b == q % 2
  <1>1. q \in Nat /\ j \in 0..p - 1 /\ y = q * p + j
    BY Division
  <1> HIDE DEF q, j
  <1>2. h \in Nat /\ b \in 0..1 /\ q = 2 * h + b
    BY <1>1
  <1> HIDE DEF h, b
  <1>3. y = h * (2 * p) + (b * p + j)
    BY <1>1, <1>2
  <1>4. b * p + j \in 0..2 * p - 1
    BY <1>1, <1>2
  <1>5. 2 * p \in Nat \ {0}
    OBVIOUS
  <1>6. y \div (2 * p) = h
    BY <1>2, <1>3, <1>4, <1>5, Quotient
  <1> QED
    BY <1>6 DEF h, q

(* LeafAbove halves an index until it is that of a leaf.                   *)
LEMMA LeafAboveIs ==
  ASSUME NEW first \in Nat \ {0}, NEW r \in first..2 * first - 1,
         NEW l \in Nat, NEW j \in 0..2^l - 1
  PROVE  LeafAbove(first, r * 2^l + j) = r
  <1> DEFINE v == r * 2^l + j
             Value(f, i) == IF i > 2 * first - 1 THEN f[i \div 2] ELSE i
             UpTo(k, f) == \A i \in 0..v : i <= k => f[i] = Value(f, i)
             S == {k \in Nat : \E f \in [0..v -> Nat] : UpTo(k, f)}
  <1>1. v \in Nat
    BY Powers2
  <1> HIDE DEF v
  <1>2. 0 \in S
    <2>1. [i \in 0..v |-> i] \in [0..v -> Nat] /\ UpTo(0, [i \in 0..v |-> i])
      BY <1>1
    <2> HIDE DEF UpTo
    <2> QED
      BY <2>1
  <1>3. ASSUME NEW k \in Nat, k \in S
        PROVE  k + 1 \in S
    <2>1. PICK f \in [0..v -> Nat] : UpTo(k, f)
      <3> HIDE DEF UpTo
      <3> QED
        BY <1>3
    <2> DEFINE g == [f EXCEPT ![k + 1] = Value(f, k + 1)]
    <2>2. CASE k + 1 <= v
      <3>1. (k + 1) \div 2 \in 0..k /\ k + 1 \in 0..v
        BY <2>2
      <3>2. Value(f, k + 1) \in Nat
        BY <1>1, <2>2, <3>1
      <3>3. g \in [0..v -> Nat] /\ g[k + 1] = Value(f, k + 1)
            /\ \A i \in 0..v : i # k + 1 => g[i] = f[i]
        <4> HIDE DEF Value
        <4> QED
          BY <3>1, <3>2
      <3> HIDE DEF g
      <3>4. ASSUME NEW i \in 0..v, i <= k + 1
            PROVE  g[i] = Value(g, i)
        <4>1. i > 2 * first - 1 => i \div 2 \in 0..k /\ i \div 2 \in 0..v
          BY <1>1, <3>4
        <4>2. i > 2 * first - 1 => g[i \div 2] = f[i \div 2]
          BY <3>3, <4>1
        <4>3. CASE i = k + 1
          BY <3>3, <4>2, <4>3
        <4>4. CASE i # k + 1
          <5>1. g[i] = f[i] /\ i <= k
            BY <3>3, <3>4, <4>4
          <5>2. f[i] = Value(f, i)
            <6> HIDE DEF Value
            <6> QED
              BY <2>1, <5>1
          <5> QED
            BY <4>2, <5>1, <5>2
        <4> QED
          BY <4>3, <4>4
      <3>5. UpTo(k + 1, g)
        <4> HIDE DEF Value
        <4> QED
          BY <3>4
      <3> HIDE DEF UpTo
      <3> QED
        BY <3>3, <3>5
    <2>3. CASE ~(k + 1 <= v)
      <3>1. UpTo(k + 1, f)
        <4> HIDE DEF Value
        <4> QED
          BY <1>1, <2>1, <2>3
      <3> HIDE DEF UpTo
      <3> QED
        BY <3>1
    <2> QED
      BY <2>2, <2>3
  <1>4. PICK f \in [0..v -> Nat] : UpTo(v, f)
    <2>1. v \in S
      <3> HIDE DEF S
      <3> QED
        BY <1>1, <1>2, <1>3, Induction
    <2> HIDE DEF UpTo
    <2> QED
      BY <2>1
  <1>5. f = [i \in 0..v |-> Value(f, i)]
    <2>1. \A i \in 0..v : f[i] = Value(f, i)
      <3> HIDE DEF Value
      <3> QED
        BY <1>1, <1>4
    <2> HIDE DEF Value
    <2> QED
      BY <2>1
  <1> DEFINE t == CHOOSE h : h = [i \in 0..v |-> Value(h, i)]
  <1>6. LeafAbove(first, v) = t[v]
    BY Zenon DEF LeafAbove
  <1>7. \A i \in 0..v : t[i] = Value(t, i)
    <2>1. t = [i \in 0..v |-> Value(t, i)]
      <3> HIDE DEF Value
      <3> QED
        BY <1>5, Zenon
    <2> HIDE DEF Value, t
    <2> QED
      BY <2>1
  <1> HIDE DEF t
  <1> DEFINE N == {k \in Nat : \A c \in 0..2^k - 1 : r * 2^k + c <= v => t[r * 2^k + c] = r}
  <1>8. 0 \in N
    <2>1. 2^0 = 1 /\ r * 1 + 0 = r /\ r \in Nat /\ ~(r > 2 * first - 1)
      OBVIOUS
    <2>2. r <= v => t[r] = r
      BY <1>1, <1>7, <2>1
    <2>3. \A c \in 0..1 - 1 : r * 1 + c <= v => t[r * 1 + c] = r
      BY <2>1, <2>2
    <2> QED
      BY <2>1, <2>3
  <1>9. ASSUME NEW k \in Nat, k \in N
        PROVE  k + 1 \in N
    <2> DEFINE p == 2^k
    <2>1. 2^(k + 1) = 2 * p /\ p \in Nat \ {0}
      BY PowerDoubles, Powers2
    <2>2. \A c \in 0..p - 1 : r * p + c <= v => t[r * p + c] = r
      BY <1>9
    <2> HIDE DEF p
    <2>3. ASSUME NEW c \in 0..2 * p - 1, r * (2 * p) + c <= v
          PROVE  t[r * (2 * p) + c] = r
      <3> DEFINE i == r * (2 * p) + c
                 h == c \div 2
      <3>1. h \in 0..p - 1 /\ c >= 2 * h /\ c < 2 * h + 2
        BY <2>1
      <3>2. i \in 0..v /\ i > 2 * first - 1
        <4>1. \A x \in Nat, y \in Nat \ {0} : x * (2 * y) >= 2 * x
          OBVIOUS
        <4>2. r * (2 * p) >= 2 * r /\ r * (2 * p) \in Nat
          BY <2>1, <4>1
        <4> QED
          BY <1>1, <2>3, <4>2
      <3>3. i \div 2 = r * p + h
        <4>1. r * p \in Nat /\ r * (2 * p) = 2 * (r * p)
          BY <2>1
        <4>2. \A x \in Nat : (2 * x + c) \div 2 = x + c \div 2
          OBVIOUS
        <4> QED
          BY <4>1, <4>2
      <3>4. r * p + h <= v
        <4>1. r * p \in Nat /\ r * (2 * p) = 2 * (r * p) /\ h \in Nat
          BY <2>1, <3>1
        <4> HIDE DEF h
        <4> QED
          BY <1>1, <2>3, <4>1, <3>1
      <3> HIDE DEF i, h
      <3>5. t[i] = t[r * p + h]
        BY <1>7, <3>2, <3>3
      <3> QED
        BY <2>2, <3>1, <3>4, <3>5 DEF i
    <2>4. \A q : q = 2 * p => \A c \in 0..q - 1 : r * q + c <= v => t[r * q + c] = r
      BY <2>3
    <2>5. \A c \in 0..2^(k + 1) - 1 : r * 2^(k + 1) + c <= v => t[r * 2^(k + 1) + c] = r
      BY <2>1, <2>4, Zenon
    <2> QED
      BY <2>5
  <1>10. l \in N
    <2> HIDE DEF N
    <2> QED
      BY <1>8, <1>9, Induction
  <1>11. r * 2^l + j = v
    BY DEF v
  <1>12. t[v] = r
    BY <1>10, <1>11, <1>1
  <1> QED
    BY <1>6, <1>11, <1>12

\* The q nodes of a level that are below the node at x.
Window(w, nodes, x, q) ==
    /\ w \in Seq(Node) /\ Len(w) = q
    /\ \A k \in 0..q - 1 : w[k + 1] = nodes[x * q + k]

(* A node is determined by the nodes r levels below it.                    *)
LEMMA SameBelow ==
  ASSUME NEW m \in Nat \ {0}, NEW n \in Nat \ {0}, NEW t, NEW u, Heap(t, m), Heap(u, n),
         NEW x \in Nat \ {0}, NEW y \in Nat \ {0}, NEW r \in Nat,
         (x + 1) * 2^r <= 2 * m, (y + 1) * 2^r <= 2 * n,
         NEW w, NEW z, Window(w, t, x, 2^r), Window(z, u, y, 2^r),
         \A k \in 1..2^r : w[k] = z[k]
  PROVE  t[x] = u[y]
  <1> DEFINE Same(q) == (x + 1) * q <= 2 * m /\ (y + 1) * q <= 2 * n
                        /\ \A j \in 0..q - 1 : t[x * q + j] = u[y * q + j]
             S == {k \in Nat : Same(2^k) => t[x] = u[y]}
  <1>1. 0 \in S
    <2>1. 2^0 = 1 /\ x * 1 + 0 = x /\ y * 1 + 0 = y
      OBVIOUS
    <2>2. Same(1) => t[x] = u[y]
      BY <2>1
    <2> QED
      BY <2>1, <2>2
  <1>2. ASSUME NEW k \in Nat, k \in S
        PROVE  k + 1 \in S
    <2> DEFINE q == 2^k
    <2>1. 2^(k + 1) = 2 * q /\ q \in Nat \ {0}
      BY PowerDoubles, Powers2
    <2>2. Same(q) => t[x] = u[y]
      BY <1>2
    <2> HIDE DEF q
    <2>3. ASSUME Same(2 * q)
          PROVE  Same(q)
      <3>1. /\ x * q \in Nat /\ x * (2 * q) = 2 * (x * q) /\ (x + 1) * (2 * q) = 2 * (x * q) + 2 * q
            /\ (x + 1) * q = x * q + q /\ x * q >= 1
        BY <2>1
      <3>2. /\ y * q \in Nat /\ y * (2 * q) = 2 * (y * q) /\ (y + 1) * (2 * q) = 2 * (y * q) + 2 * q
            /\ (y + 1) * q = y * q + q /\ y * q >= 1
        BY <2>1
      <3>3. x * q + q <= m /\ y * q + q <= n
        BY <2>1, <2>3, <3>1, <3>2
      <3>4. ASSUME NEW j \in 0..q - 1
            PROVE  t[x * q + j] = u[y * q + j]
        <4> DEFINE a == x * q + j
                   b == y * q + j
        <4>1. a \in 1..m - 1 /\ b \in 1..n - 1
          BY <2>1, <3>1, <3>2, <3>3
        <4>2. 2 * j \in 0..2 * q - 1 /\ 2 * j + 1 \in 0..2 * q - 1
          BY <2>1
        <4>3. /\ 2 * a = x * (2 * q) + 2 * j /\ 2 * a + 1 = x * (2 * q) + (2 * j + 1)
              /\ 2 * b = y * (2 * q) + 2 * j /\ 2 * b + 1 = y * (2 * q) + (2 * j + 1)
          BY <2>1, <3>1, <3>2
        <4> HIDE DEF a, b
        <4>4. t[2 * a] = u[2 * b] /\ t[2 * a + 1] = u[2 * b + 1]
          BY <2>3, <4>2, <4>3
        <4>5. /\ t[a] = getParentNodeFromChildren(t[2 * a], t[2 * a + 1])
              /\ u[b] = getParentNodeFromChildren(u[2 * b], u[2 * b + 1])
          BY <4>1 DEF Heap
        <4>6. t[a] = u[b]
          BY <4>4, <4>5
        <4> QED
          BY <4>6 DEF a, b
      <3>5. (x + 1) * q <= 2 * m /\ (y + 1) * q <= 2 * n
        BY <2>1, <3>1, <3>2, <3>3
      <3> QED
        BY <3>4, <3>5
    <2> HIDE DEF Same
    <2> QED
      BY <2>1, <2>2, <2>3
  <1>3. r \in S
    <2> HIDE DEF S
    <2> QED
      BY <1>1, <1>2, Induction
  <1>4. Same(2^r)
    <2>1. 2^r \in Nat
      BY Powers2
    <2> DEFINE q == 2^r
    <2>2. /\ \A k \in 0..q - 1 : w[k + 1] = t[x * q + k] /\ z[k + 1] = u[y * q + k]
          /\ \A k \in 1..q : w[k] = z[k]
          /\ q \in Nat
      BY <2>1 DEF Window
    <2> HIDE DEF q
    <2>3. ASSUME NEW k \in 0..q - 1
          PROVE  t[x * q + k] = u[y * q + k]
      <3>1. k + 1 \in 1..q
        BY <2>2
      <3> QED
        BY <2>2, <3>1
    <2> QED
      BY <2>3 DEF q
  <1> HIDE DEF Same
  <1> QED
    BY <1>3, <1>4

(* The root of a tree has the sum of its leaves.                           *)
LEMMA SumOfLeaves ==
  ASSUME NEW d \in Nat, NEW t, Heap(t, 2^d), NEW given \in [0..2^d -> Nat],
         \A j \in 0..2^d - 1 : t[2^d + j].sum = given[j + 1] - given[j]
  PROVE  t[1].sum = given[2^d] - given[0]
  <1> DEFINE m == 2^d
             Level(q, p) == \A j \in 0..q - 1 : t[q + j].sum = given[(j + 1) * p] - given[j * p]
             S == {k \in Nat : k <= d => Level(2^(d - k), 2^k)}
  <1>m. m \in Nat \ {0}
    BY Powers2
  <1>h. \A i \in 1..m - 1 : t[i].sum = t[2 * i].sum + t[2 * i + 1].sum
    <2>1. \A i \in 1..m - 1 : t[i] = getParentNodeFromChildren(t[2 * i], t[2 * i + 1])
      BY DEF Heap
    <2>2. \A l, r : getParentNodeFromChildren(l, r).sum = l.sum + r.sum
      BY DEF getParentNodeFromChildren
    <2> HIDE DEF m
    <2> QED
      BY <2>1, <2>2
  <1>1. 0 \in S
    <2>1. d - 0 = d /\ 2^0 = 1 /\ \A j \in Nat : j * 1 = j
      OBVIOUS
    <2>2. Level(m, 1)
      <3>1. \A j \in 0..m - 1 : t[m + j].sum = given[j + 1] - given[j]
        OBVIOUS
      <3> HIDE DEF m
      <3> TAKE j \in 0..m - 1
      <3>2. (j + 1) * 1 = j + 1 /\ j * 1 = j
        BY <1>m
      <3> QED
        BY <3>1, <3>2
    <2>3. Level(2^(d - 0), 2^0)
      <3> HIDE DEF Level
      <3> QED
        BY <2>1, <2>2
    <2> HIDE DEF Level
    <2> QED
      BY <2>3
  <1>2. ASSUME NEW k \in Nat, k \in S
        PROVE  k + 1 \in S
    <2> SUFFICES ASSUME k + 1 <= d
                 PROVE  Level(2^(d - (k + 1)), 2^(k + 1))
      <3> HIDE DEF Level
      <3> QED
        OBVIOUS
    <2> DEFINE q == 2^(d - (k + 1))
               p == 2^k
    <2>1. d - (k + 1) \in Nat /\ d - k \in Nat /\ d - k = (d - (k + 1)) + 1
          /\ d = (d - k) + k
      OBVIOUS
    <2>2. q \in Nat \ {0} /\ p \in Nat \ {0} /\ 2^(k + 1) = 2 * p
      BY <2>1, PowerDoubles, Powers2
    <2>3. 2^(d - k) = 2 * q
      BY <2>1, PowerDoubles
    <2>4. m = (2 * q) * p
      <3>1. 2^((d - k) + k) = 2^(d - k) * 2^k
        BY <2>1, PowerOfSum
      <3> QED
        BY <2>1, <2>3, <3>1
    <2>5. Level(2 * q, p)
      <3>1. Level(2^(d - k), 2^k)
        <4> HIDE DEF Level
        <4> QED
          BY <1>2
      <3> HIDE DEF Level
      <3> QED
        BY <2>3, <3>1
    <2> HIDE DEF q, p, m
    <2>6. ASSUME NEW j \in 0..q - 1
          PROVE  t[q + j].sum = given[(j + 1) * (2 * p)] - given[j * (2 * p)]
      <3>1. q + j \in 1..m - 1
        <4>1. \A x, y \in Nat \ {0} : (2 * x) * y >= 2 * x
          OBVIOUS
        <4>2. m >= 2 * q
          BY <2>2, <2>4, <4>1
        <4> QED
          BY <1>m, <2>2, <4>2
      <3>2. t[q + j].sum = t[2 * (q + j)].sum + t[2 * (q + j) + 1].sum
        BY <1>h, <3>1
      <3>3. 2 * (q + j) = 2 * q + 2 * j /\ 2 * (q + j) + 1 = 2 * q + (2 * j + 1)
            /\ 2 * j \in 0..2 * q - 1 /\ 2 * j + 1 \in 0..2 * q - 1
        BY <2>2
      <3>4. t[2 * q + 2 * j].sum = given[(2 * j + 1) * p] - given[(2 * j) * p]
        BY <2>5, <3>3
      <3>5. t[2 * q + (2 * j + 1)].sum = given[((2 * j + 1) + 1) * p] - given[(2 * j + 1) * p]
        BY <2>5, <3>3
      <3>6. ((2 * j + 1) + 1) * p = (j + 1) * (2 * p) /\ (2 * j) * p = j * (2 * p)
        BY <2>2
      <3>7. /\ (2 * j) * p \in 0..m /\ (2 * j + 1) * p \in 0..m
            /\ ((2 * j + 1) + 1) * p \in 0..m
        <4>1. \A x, y, z \in Nat : x <= y => x * z <= y * z
          OBVIOUS
        <4>2. (2 * j) * p <= (2 * q) * p /\ (2 * j + 1) * p <= (2 * q) * p
              /\ ((2 * j + 1) + 1) * p <= (2 * q) * p
          BY <2>2, <4>1
        <4>3. (2 * j) * p \in Nat /\ (2 * j + 1) * p \in Nat /\ ((2 * j + 1) + 1) * p \in Nat
          BY <2>2
        <4> QED
          BY <1>m, <2>4, <4>2, <4>3
      <3>8. \A x, y, z \in Nat : (y - x) + (z - y) = z - x
        OBVIOUS
      <3>9. given[(2 * j) * p] \in Nat /\ given[(2 * j + 1) * p] \in Nat
            /\ given[((2 * j + 1) + 1) * p] \in Nat
        BY <3>7 DEF m
      <3>10. t[q + j].sum = given[((2 * j + 1) + 1) * p] - given[(2 * j) * p]
        BY <3>2, <3>3, <3>4, <3>5, <3>8, <3>9
      <3> QED
        BY <3>6, <3>10
    <2>7. Level(q, 2 * p)
      BY <2>6
    <2> HIDE DEF Level
    <2> QED
      BY <2>2, <2>7 DEF q
  <1>3. d \in S
    <2> HIDE DEF S
    <2> QED
      BY <1>1, <1>2, Induction
  <1>4. Level(1, m)
    <2>1. d - d = 0 /\ 2^0 = 1
      OBVIOUS
    <2>2. Level(2^(d - d), 2^d)
      <3> HIDE DEF Level
      <3> QED
        BY <1>3
    <2> HIDE DEF Level
    <2> QED
      BY <2>1, <2>2
  <1>5. 1 + 0 = 1 /\ (0 + 1) * m = m /\ 0 * m = 0
    BY <1>m
  <1> HIDE DEF m
  <1>6. t[1 + 0].sum = given[(0 + 1) * m] - given[0 * m]
    BY <1>4
  <1> QED
    BY <1>5, <1>6 DEF m

(* A proof that generateMerkleProof makes for the leaf of a tree folds to  *)
(* the root, also when the tree hangs below the node v of another and the  *)
(* leaf is named by its index there.                                       *)
LEMMA ProofFolds ==
  ASSUME NEW r \in Nat, NEW tree, Heap(tree.nodes, 2^r), NEW c \in 0..2^r - 1, NEW v \in Nat
  PROVE  LET proof == generateMerkleProof(tree, 2^r + c)
         IN  /\ Len(proof) = r
             /\ FoldProof(tree.nodes[2^r + c], v * 2^r + c, proof) = tree.nodes[1]
  <1> DEFINE m == 2^r
             u == tree.nodes
             local == m + c
             index == v * m + c
             proof == generateMerkleProof(tree, local)
             partner(i) == IF i % 2 = 0 THEN i + 1 ELSE i - 1
             up == [k \in 0..r |-> u[local \div 2^k]]
  <1>1. m \in Nat \ {0} /\ local \in Nat /\ index \in Nat
    <2>1. m \in Nat \ {0}
      BY Powers2
    <2> HIDE DEF m
    <2> QED
      BY <2>1
  <1>c. c \in 0..m - 1
    OBVIOUS
  <1>2. FloorLog2(local) = r
    BY <1>1, FloorLog2Is
  <1>3. proof = [k \in 1..r |-> u[partner(local \div 2^(k - 1))]]
    BY <1>2 DEF generateMerkleProof
  <1>4. Len(proof) = r
    <2> HIDE DEF partner, local, u
    <2> QED
      BY <1>3
  <1>5. ASSUME NEW k \in 1..r
        PROVE  LET p == 2^(k - 1)
                   x == local \div p
               IN  /\ x \div 2 \in 1..m - 1
                   /\ local \div 2^k = x \div 2
                   /\ (index \div p) % 2 = x % 2
                   /\ x \in Nat
    <2> DEFINE p == 2^(k - 1)
               q == 2^(r - k)
               x == local \div p
               y == c \div p
    <2>1. k - 1 \in Nat /\ r - k \in Nat /\ k = (k - 1) + 1 /\ r = (r - k) + k
      OBVIOUS
    <2>2. p \in Nat \ {0} /\ q \in Nat \ {0} /\ 2^k = 2 * p
      BY <2>1, Powers2, PowerDoubles
    <2>3. m = q * (2 * p)
      <3>1. 2^((r - k) + k) = 2^(r - k) * 2^k
        BY <2>1, PowerOfSum
      <3> QED
        BY <2>1, <2>2, <3>1
    <2> HIDE DEF p, q, m
    <2>4. local = (2 * q) * p + c /\ index = (2 * (v * q)) * p + c
      BY <2>2, <2>3
    <2>5. y \in Nat /\ c \in Nat /\ 2 * q \in Nat /\ 2 * (v * q) \in Nat
      BY <1>1, <2>2, Division
    <2>6. x = 2 * q + y /\ index \div p = 2 * (v * q) + y
      <3>1. ((2 * q) * p + c) \div p = 2 * q + (c \div p)
        BY <2>2, <2>5, QuotientOfSum
      <3>2. ((2 * (v * q)) * p + c) \div p = 2 * (v * q) + (c \div p)
        BY <2>2, <2>5, QuotientOfSum
      <3> HIDE DEF local, index
      <3> QED
        BY <2>4, <3>1, <3>2
    <2>7. x \in Nat /\ (index \div p) % 2 = x % 2
      <3>1. \A a, b \in Nat : (2 * a + b) % 2 = b % 2
        OBVIOUS
      <3>2. v * q \in Nat /\ q \in Nat
        BY <2>2
      <3> HIDE DEF y, x, index
      <3> QED
        BY <2>5, <2>6, <3>1, <3>2
    <2>8. x \div 2 = local \div (2 * p)
      <3> HIDE DEF local
      <3> QED
        BY <1>1, <2>2, HalfOfQuotient
    <2>9. y <= 2 * q - 1
      <3>1. y * p <= c /\ c < (2 * q) * p
        <4>1. c = y * p + (c % p) /\ c % p \in Nat
          BY <2>2, <2>5, Division
        <4>2. c < (2 * q) * p
          <5> HIDE DEF local, index
          <5>1. (2 * q) * p = m
            BY <2>2, <2>3
          <5> QED
            BY <1>1, <1>c, <5>1
        <4> HIDE DEF y
        <4> QED
          BY <2>2, <2>5, <4>1, <4>2
      <3>2. \A a, b \in Nat : a >= b => a * p >= b * p
        BY <2>2
      <3>3. y * p \in Nat /\ (2 * q) * p \in Nat
        BY <2>2, <2>5
      <3> HIDE DEF y
      <3> QED
        BY <2>2, <2>5, <3>1, <3>2, <3>3
    <2>10. x \div 2 \in 1..m - 1
      <3>1. x \in 2..4 * q - 1
        BY <2>2, <2>5, <2>6, <2>9
      <3>2. x \div 2 \in 1..2 * q - 1
        <4> HIDE DEF x
        <4> QED
          BY <2>2, <3>1
      <3>3. m >= 2 * q
        <4>1. \A a, b \in Nat \ {0} : a * (2 * b) >= 2 * a
          OBVIOUS
        <4> QED
          BY <2>2, <2>3, <4>1
      <3> HIDE DEF x
      <3> QED
        BY <1>1, <2>2, <3>2, <3>3
    <2> HIDE DEF x, index, local
    <2> QED
      BY <2>2, <2>7, <2>8, <2>10 DEF p, x
  <1>6. ASSUME NEW k \in 1..r
        PROVE  up[k] = IF (index \div 2^(k - 1)) % 2 = 0
                       THEN getParentNodeFromChildren(up[k - 1], proof[k])
                       ELSE getParentNodeFromChildren(proof[k], up[k - 1])
    <2> DEFINE x == local \div 2^(k - 1)
               h == x \div 2
    <2>1. h \in 1..m - 1 /\ local \div 2^k = h /\ (index \div 2^(k - 1)) % 2 = x % 2 /\ x \in Nat
      BY <1>5
    <2>2. up[k] = u[h] /\ up[k - 1] = u[x]
      <3>1. k \in 0..r /\ k - 1 \in 0..r
        OBVIOUS
      <3> HIDE DEF local, u
      <3> QED
        BY <2>1, <3>1
    <2>3. proof[k] = u[partner(x)]
      <3> HIDE DEF partner, u, local, proof
      <3> QED
        BY <1>3
    <2>4. u[h] = getParentNodeFromChildren(u[2 * h], u[2 * h + 1])
      <3> HIDE DEF h
      <3> QED
        BY <2>1 DEF Heap
    <2> HIDE DEF up, proof
    <2>5. CASE x % 2 = 0
      <3>1. x = 2 * h /\ partner(x) = 2 * h + 1
        <4> HIDE DEF x
        <4> QED
          BY <2>1, <2>5
      <3> HIDE DEF partner, h, x, index, u
      <3> QED
        BY <2>1, <2>2, <2>3, <2>4, <2>5, <3>1
    <2>6. CASE x % 2 # 0
      <3>1. x = 2 * h + 1 /\ partner(x) = 2 * h
        <4> HIDE DEF x
        <4> QED
          BY <2>1, <2>6
      <3> HIDE DEF partner, h, x, index, u
      <3> QED
        BY <2>1, <2>2, <2>3, <2>4, <2>6, <3>1
    <2> QED
      BY <2>5, <2>6
  <1>7. up[0] = u[local] /\ up[r] = u[1]
    <2>1. 0 \in 0..r /\ r \in 0..r /\ 2^0 = 1
      OBVIOUS
    <2>2. local \div 1 = local
      BY <1>1
    <2>3. local \div m = 1
      <3>1. 1 * m + c = local
        BY <1>1
      <3> HIDE DEF local
      <3> QED
        BY <1>1, <3>1, Quotient
    <2> HIDE DEF local, u
    <2> QED
      BY <2>1, <2>2, <2>3
  <1>8. FoldProof(u[local], index, proof) = up[Len(proof)]
    <2>1. up = [k \in 0..Len(proof) |-> up[k]]
      <3> HIDE DEF local, u, proof
      <3> QED
        BY <1>4
    <2>2. \A k \in 1..Len(proof) :
             up[k] = IF (index \div 2^(k - 1)) % 2 = 0
                     THEN getParentNodeFromChildren(up[k - 1], proof[k])
                     ELSE getParentNodeFromChildren(proof[k], up[k - 1])
      <3> HIDE DEF up, index, proof
      <3> QED
        BY <1>4, <1>6
    <2>3. Len(proof) \in Nat
      BY <1>4
    <2> HIDE DEF up, index, proof, local, u
    <2>4. Rises(up, u[local], index, proof)
      BY <1>7, <2>1, <2>2 DEF Rises
    <2> QED
      BY <2>3, <2>4, FoldProofIs
  <1> HIDE DEF up
  <1> QED
    BY <1>4, <1>7, <1>8

(* The nodes of the tree with a root: of the network tree, whose root is   *)
(* 1, or of the node tree below a leaf of it.                              *)
NodesAt(s, root) ==
    IF root = 1 THEN CreateNetworkVotingTree(s, 1).nodes
    ELSE CreateNodeVotingTree(s, root - FirstLeaf(s), root, 1).nodes

(* The places of the big tree, but for those at which the network tree     *)
(* ends and a node tree begins, which are the roots of node trees: the     *)
(* root of the tree they are in, the level there and the place in it.      *)
Place(d, root, level, offset) ==
    /\ root \in {1} \cup 2^d..2 * 2^d - 1
    /\ level \in 0..d
    /\ root = 1 => level < d
    /\ offset \in 0..2^level - 1

\* The virtual index of a place.
IndexOf(root, level, offset) == root * 2^level + offset

\* Two nodes are enough for the root of the network tree not to be a leaf.
Sized(s) == s \in Snapshot /\ Len(s) >= 2

\* The trees of such a snapshot have at least two places for leaves.
LEMMA SizedDepth ==
  ASSUME NEW s, Sized(s)
  PROVE  /\ CeilLog2(Len(s)) \in Nat \ {0}
         /\ 2^CeilLog2(Len(s)) \in Nat /\ 2^CeilLog2(Len(s)) >= 2
         /\ FirstLeaf(s) = 2^CeilLog2(Len(s))
  <1>1. Len(s) \in Nat \ {0} /\ Len(s) >= 2
    BY DEF Sized, Snapshot
  <1> DEFINE d == CeilLog2(Len(s))
  <1>2. d \in Nat /\ Len(s) <= 2^d
    BY <1>1, CeilLog2Is
  <1> HIDE DEF d
  <1>3. 2^d \in Nat /\ 2^0 = 1
    BY <1>2, Powers2
  <1>4. d # 0
    <2> SUFFICES ASSUME d = 0
                 PROVE  FALSE
      OBVIOUS
    <2>1. 2^d = 1
      BY <1>3, Zenon
    <2> QED
      BY <1>1, <1>2, <2>1
  <1> QED
    BY <1>1, <1>2, <1>3, <1>4 DEF d, FirstLeaf

(* A tree that is made from leaves.                                        *)
LEMMA TreeFromLeaves ==
  ASSUME NEW leaves \in Seq(Node), Len(leaves) >= 1, NEW root, NEW per,
         NEW d, d = CeilLog2(Len(leaves))
  PROVE  LET tree == CreateTreeFromLeaves(leaves, root, per)
         IN  /\ tree.depth = d /\ tree.root = root /\ tree.perRound = per
             /\ tree.nodes = TreeNodes(leaves, 2^d)
             /\ Heap(tree.nodes, 2^d)
             /\ \A k \in 0..2^d - 1 : tree.nodes[2^d + k] =
                    IF k < Len(leaves) THEN leaves[k + 1] ELSE LeafNode(0)
  <1>1. CreateTreeFromLeaves(leaves, root, per)
            = [depth |-> d, root |-> root, perRound |-> per, nodes |-> TreeNodes(leaves, 2^d)]
    BY DEF CreateTreeFromLeaves
  <1>2. d \in Nat
    <2>1. Len(leaves) \in Nat \ {0}
      OBVIOUS
    <2> QED
      BY <2>1, CeilLog2Is
  <1>3. 2^d \in Nat \ {0}
    BY <1>2, Powers2
  <1>4. /\ Heap(TreeNodes(leaves, 2^d), 2^d)
        /\ \A k \in 0..2^d - 1 : TreeNodes(leaves, 2^d)[2^d + k] =
               IF k < Len(leaves) THEN leaves[k + 1] ELSE LeafNode(0)
    BY <1>3, TreeNodesIs
  <1> QED
    BY <1>1, <1>4

(* What the leaves of the two kinds of tree are.                           *)
LEMMA NetworkTreeIs ==
  ASSUME NEW s, Sized(s), NEW per, NEW d, d = CeilLog2(Len(s))
  PROVE  LET tree == CreateNetworkVotingTree(s, per)
         IN  /\ tree.depth = d /\ tree.root = 1 /\ tree.perRound = per
             /\ Heap(tree.nodes, 2^d)
             /\ tree.nodes = CreateNetworkVotingTree(s, 1).nodes
             /\ \A k \in 0..2^d - 1 : tree.nodes[2^d + k] =
                    IF k < Len(s) THEN LeafNode(DelegatedTo(s, k + 1)[Len(s)])
                    ELSE LeafNode(0)
  <1> DEFINE leaves == [k \in 1..Len(s) |-> LeafNode(DelegatedTo(s, k)[Len(s)])]
             tree == CreateNetworkVotingTree(s, per)
  <1>1. s \in Snapshot /\ Len(s) \in Nat /\ Len(s) >= 1
    BY DEF Sized, Snapshot
  <1>2. leaves \in Seq(Node) /\ Len(leaves) = Len(s)
    <2>1. ASSUME NEW k \in 1..Len(s)
          PROVE  LeafNode(DelegatedTo(s, k)[Len(s)]) \in Node
      <3>1. DelegatedTo(s, k) \in [0..Len(s) -> Nat]
        BY <1>1, DelegatedToIs
      <3>2. DelegatedTo(s, k)[Len(s)] \in Nat
        BY <1>1, <3>1
      <3> QED
        BY <3>2, NodesAreNodes
    <2>2. leaves \in [1..Len(s) -> Node]
      BY <2>1
    <2> HIDE DEF leaves
    <2> QED
      BY <1>1, <2>2
  <1>3. /\ tree = CreateTreeFromLeaves(leaves, 1, per)
        /\ CreateNetworkVotingTree(s, 1) = CreateTreeFromLeaves(leaves, 1, 1)
    BY Zenon DEF CreateNetworkVotingTree
  <1>4. \A k \in 1..Len(s) : leaves[k] = LeafNode(DelegatedTo(s, k)[Len(s)])
    OBVIOUS
  <1> HIDE DEF leaves, tree
  <1>5. /\ tree.depth = d /\ tree.root = 1 /\ tree.perRound = per
        /\ tree.nodes = TreeNodes(leaves, 2^d)
        /\ Heap(tree.nodes, 2^d)
        /\ \A k \in 0..2^d - 1 : tree.nodes[2^d + k] =
               IF k < Len(s) THEN leaves[k + 1] ELSE LeafNode(0)
    BY <1>1, <1>2, <1>3, TreeFromLeaves
  <1>6. CreateNetworkVotingTree(s, 1).nodes = TreeNodes(leaves, 2^d)
    BY <1>1, <1>2, <1>3, TreeFromLeaves
  <1>7. \A k \in 0..2^d - 1 : k < Len(s) => k + 1 \in 1..Len(s)
    BY <1>1, SizedDepth
  <1>8. \A k \in 0..2^d - 1 : tree.nodes[2^d + k] =
            IF k < Len(s) THEN LeafNode(DelegatedTo(s, k + 1)[Len(s)]) ELSE LeafNode(0)
    BY <1>4, <1>5, <1>7
  <1> QED
    BY <1>5, <1>6, <1>8 DEF tree

\* The tree below a leaf of the network tree: what each node has delegated to that leaf.
LEMMA NodeTreeIs ==
  ASSUME NEW s, Sized(s), NEW n, NEW root, NEW per, NEW d, d = CeilLog2(Len(s))
  PROVE  LET tree == CreateNodeVotingTree(s, n, root, per)
         IN  /\ tree.depth = d /\ tree.root = root /\ tree.perRound = per
             /\ Heap(tree.nodes, 2^d)
             /\ tree.nodes = CreateNodeVotingTree(s, n, root, 1).nodes
             /\ \A k \in 0..2^d - 1 : tree.nodes[2^d + k] =
                    IF k < Len(s)
                    THEN LeafNode(IF s[k + 1].delegate = n + 1 THEN s[k + 1].power ELSE 0)
                    ELSE LeafNode(0)
  <1> DEFINE Given(k) == IF s[k].delegate = n + 1 THEN s[k].power ELSE 0
             leaves == [k \in 1..Len(s) |-> LeafNode(Given(k))]
             tree == CreateNodeVotingTree(s, n, root, per)
  <1>1. s \in Snapshot /\ Len(s) \in Nat /\ Len(s) >= 1
    BY DEF Sized, Snapshot
  <1>2. \A k \in 1..Len(s) : Given(k) \in Nat
    <2>1. s \in Seq([power : Nat, delegate : Nat])
      BY <1>1 DEF Snapshot
    <2>2. \A k \in 1..Len(s) : s[k] \in [power : Nat, delegate : Nat]
      BY <2>1, ElementOfSeq
    <2> QED
      BY <2>2
  <1>3. /\ tree = CreateTreeFromLeaves(leaves, root, per)
        /\ CreateNodeVotingTree(s, n, root, 1) = CreateTreeFromLeaves(leaves, root, 1)
    BY Zenon DEF CreateNodeVotingTree
  <1> HIDE DEF Given
  <1>4. leaves \in Seq(Node) /\ Len(leaves) = Len(s)
    <2>1. leaves \in [1..Len(s) -> Node]
      BY <1>2, NodesAreNodes
    <2> HIDE DEF leaves
    <2> QED
      BY <1>1, <2>1
  <1>5. \A k \in 1..Len(s) : leaves[k] = LeafNode(Given(k))
    OBVIOUS
  <1> HIDE DEF leaves, tree
  <1>6. /\ tree.depth = d /\ tree.root = root /\ tree.perRound = per
        /\ tree.nodes = TreeNodes(leaves, 2^d)
        /\ Heap(tree.nodes, 2^d)
        /\ \A k \in 0..2^d - 1 : tree.nodes[2^d + k] =
               IF k < Len(s) THEN leaves[k + 1] ELSE LeafNode(0)
    BY <1>1, <1>3, <1>4, TreeFromLeaves
  <1>7. CreateNodeVotingTree(s, n, root, 1).nodes = TreeNodes(leaves, 2^d)
    BY <1>1, <1>3, <1>4, TreeFromLeaves
  <1>8. \A k \in 0..2^d - 1 : k < Len(s) => k + 1 \in 1..Len(s)
    BY <1>1, SizedDepth
  <1>9. \A k \in 0..2^d - 1 : tree.nodes[2^d + k] =
            IF k < Len(s) THEN LeafNode(Given(k + 1)) ELSE LeafNode(0)
    BY <1>5, <1>6, <1>8
  <1> QED
    BY <1>6, <1>7, <1>9 DEF tree, Given

(* The tree of a place, and its index there.                               *)
LEMMA TreeOfPlace ==
  ASSUME NEW s, Sized(s), NEW per, NEW d, d = CeilLog2(Len(s)),
         NEW root, NEW level, NEW offset, Place(d, root, level, offset)
  PROVE  LET v == IndexOf(root, level, offset)
             tree == TreeOf(s, v, per)
         IN  /\ v \in Nat
             /\ tree.depth = d /\ tree.root = root /\ tree.perRound = per
             /\ tree.nodes = NodesAt(s, root)
             /\ Heap(NodesAt(s, root), 2^d)
             /\ getLocalIndexFromVirtualIndex(tree, v) = 2^level + offset
  <1> DEFINE v == IndexOf(root, level, offset)
             F == 2^d
             p == 2^level
  <1>1. /\ d \in Nat \ {0} /\ F \in Nat /\ F >= 2 /\ FirstLeaf(s) = F
        /\ level \in Nat /\ level <= d /\ p \in Nat \ {0}
        /\ root \in Nat \ {0} /\ offset \in Nat /\ offset < p
    <2>1. d \in Nat \ {0} /\ F \in Nat /\ F >= 2 /\ FirstLeaf(s) = F
      BY SizedDepth
    <2>2. level \in 0..d /\ level \in Nat /\ level <= d
      BY <2>1 DEF Place
    <2>3. p \in Nat \ {0}
      BY <2>2, Powers2
    <2>4. root \in {1} \cup F..2 * F - 1 /\ offset \in 0..p - 1
      BY DEF Place
    <2> HIDE DEF F, p
    <2> QED
      BY <2>1, <2>2, <2>3, <2>4
  <1>2. p <= F
    <2>1. CASE level = d
      BY <1>1, <2>1
    <2>2. CASE level # d
      <3>1. 2 * 2^level <= 2^d
        BY <1>1, <2>2, PowerMonotone
      <3> QED
        BY <1>1, <3>1
    <2> QED
      BY <2>1, <2>2
  <1>3. v = root * p + offset
    BY DEF IndexOf
  <1> HIDE DEF v
  <1>4. CASE root = 1
    <2>1. v < F /\ v = p + offset
      <3>1. level < d
        BY <1>4 DEF Place
      <3>2. 2 * p <= F
        BY <1>1, <3>1, PowerMonotone
      <3> HIDE DEF p, F
      <3> QED
        BY <1>1, <1>3, <1>4, <3>2
    <2>2. TreeOf(s, v, per) = CreateNetworkVotingTree(s, per)
      BY <1>1, <2>1 DEF TreeOf, getRPNodeIndexFromTreeNodeIndex
    <2>3. NodesAt(s, root) = CreateNetworkVotingTree(s, 1).nodes
      BY <1>4 DEF NodesAt
    <2>4. CreateNetworkVotingTree(s, per).nodes = CreateNetworkVotingTree(s, 1).nodes
      BY NetworkTreeIs
    <2>5. /\ CreateNetworkVotingTree(s, per).depth = d /\ CreateNetworkVotingTree(s, per).root = 1
          /\ CreateNetworkVotingTree(s, per).perRound = per
          /\ Heap(CreateNetworkVotingTree(s, per).nodes, 2^d)
      BY NetworkTreeIs
    <2>6. getLocalIndexFromVirtualIndex(TreeOf(s, v, per), v) = v
      BY <2>2, <2>5 DEF getLocalIndexFromVirtualIndex
    <2>7. v \in Nat
      <3> HIDE DEF p
      <3> QED
        BY <1>1, <2>1
    <2> QED
      BY <1>4, <2>1, <2>2, <2>3, <2>4, <2>5, <2>6, <2>7 DEF v
  <1>5. CASE root # 1
    <2>1. root \in F..2 * F - 1
      BY <1>5 DEF Place
    <2>2. v \in Nat /\ v >= F
      <3>1. \A x, y \in Nat \ {0} : x * y >= x /\ x * y \in Nat
        OBVIOUS
      <3>2. root * p >= root /\ root * p \in Nat
        BY <1>1, <3>1
      <3> HIDE DEF p, F
      <3> QED
        BY <1>1, <1>3, <2>1, <3>2
    <2>3. LeafAbove(F, v) = root
      <3>1. F \in Nat \ {0} /\ offset \in 0..2^level - 1
        BY <1>1
      <3> HIDE DEF F
      <3>2. LeafAbove(F, root * 2^level + offset) = root
        <4>1. level \in Nat
          BY <1>1
        <4> HIDE DEF p
        <4> QED
          BY <2>1, <3>1, <4>1, LeafAboveIs
      <3>3. v = root * 2^level + offset
        BY <1>3
      <3> QED
        BY <3>2, <3>3
    <2>4. getRPNodeIndexFromTreeNodeIndex(s, v) = root - F /\ root - F # -1
      <3> HIDE DEF F, p
      <3> QED
        BY <1>1, <2>1, <2>2, <2>3 DEF getRPNodeIndexFromTreeNodeIndex
    <2>5. getTreeNodeIndexFromRPNodeIndex(s, root - F) = root
      <3> HIDE DEF F, p
      <3> QED
        BY <1>1, <2>1 DEF getTreeNodeIndexFromRPNodeIndex
    <2> DEFINE tree == CreateNodeVotingTree(s, root - F, root, per)
    <2>6. TreeOf(s, v, per) = tree
      <3> HIDE DEF F, p
      <3> QED
        BY <2>4, <2>5 DEF TreeOf
    <2>7. NodesAt(s, root) = CreateNodeVotingTree(s, root - F, root, 1).nodes
      <3> HIDE DEF F, p
      <3> QED
        BY <1>1, <1>5 DEF NodesAt
    <2>8. tree.nodes = CreateNodeVotingTree(s, root - F, root, 1).nodes
      BY NodeTreeIs
    <2>9. tree.depth = d /\ tree.root = root /\ tree.perRound = per /\ Heap(tree.nodes, 2^d)
      BY NodeTreeIs
    <2> HIDE DEF tree
    <2>10. v \div root = p /\ v % root = offset
      <3>1. v = p * root + offset /\ offset \in 0..root - 1
        <4> HIDE DEF F, p
        <4> QED
          BY <1>1, <1>2, <1>3, <2>1
      <3> HIDE DEF F, p
      <3> QED
        BY <1>1, <3>1, Quotient
    <2>11. getLocalIndexFromVirtualIndex(tree, v) = p + offset
      <3> HIDE DEF F, p
      <3> QED
        BY <1>5, <2>9, <2>10 DEF getLocalIndexFromVirtualIndex
    <2> QED
      BY <2>2, <2>6, <2>7, <2>8, <2>9, <2>11 DEF v
  <1> QED
    BY <1>4, <1>5

(* The root of a node tree has what the network tree has at the leaf that  *)
(* it hangs from: the power that is delegated to the node.                 *)
LEMMA RootOfNodeTree ==
  ASSUME NEW s, Sized(s), NEW d, d = CeilLog2(Len(s)), NEW root \in 2^d..2 * 2^d - 1
  PROVE  NodesAt(s, root)[1].sum = DelegatedTo(s, root - 2^d + 1)[Len(s)]
  <1> DEFINE F == 2^d
             n == root - F
             D == DelegatedTo(s, n + 1)
             L == Len(s)
             u == CreateNodeVotingTree(s, n, root, 1).nodes
             given == [k \in 0..F |-> IF k <= L THEN D[k] ELSE D[L]]
  <1>1. d \in Nat /\ F \in Nat \ {0} /\ F >= 2 /\ FirstLeaf(s) = F
    BY SizedDepth
  <1>2. L \in Nat \ {0} /\ s \in Snapshot /\ L <= F
    <2>1. L \in Nat \ {0} /\ s \in Snapshot
      BY DEF Sized, Snapshot
    <2>2. L <= F
      BY <2>1, CeilLog2Is
    <2> QED
      BY <2>1, <2>2
  <1>3. NodesAt(s, root) = u
    <2>1. root # 1
      <3> HIDE DEF F
      <3>1. root \in F..2 * F - 1
        BY DEF F
      <3> QED
        BY <1>1, <3>1
    <2> QED
      BY <1>1, <2>1 DEF NodesAt
  <1>4. /\ D \in [0..L -> Nat] /\ D[0] = 0
        /\ \A k \in 1..L : D[k] = D[k - 1] + (IF s[k].delegate = n + 1 THEN s[k].power ELSE 0)
    BY <1>2, DelegatedToIs
  <1>5. /\ Heap(u, F)
        /\ \A k \in 0..F - 1 :
               u[F + k] = IF k < L
                          THEN LeafNode(IF s[k + 1].delegate = n + 1 THEN s[k + 1].power ELSE 0)
                          ELSE LeafNode(0)
    BY NodeTreeIs
  <1> HIDE DEF F, n, D, L, u
  <1>6. given \in [0..F -> Nat] /\ given[0] = 0 /\ given[F] = D[L]
    BY <1>1, <1>2, <1>4
  <1>7. ASSUME NEW j \in 0..F - 1
        PROVE  u[F + j].sum = given[j + 1] - given[j]
    <2>1. \A b : LeafNode(b).sum = b
      BY DEF LeafNode
    <2>2. j \in 0..F /\ j + 1 \in 0..F
      BY <1>1
    <2>3. CASE j < L
      <3>1. j + 1 \in 1..L /\ j \in 0..L /\ (j + 1) - 1 = j
        BY <1>2, <2>3
      <3> DEFINE g == IF s[j + 1].delegate = n + 1 THEN s[j + 1].power ELSE 0
      <3>2. u[F + j].sum = g
        BY <1>5, <2>1, <2>3
      <3>3. given[j + 1] = D[j + 1] /\ given[j] = D[j]
        BY <2>2, <3>1
      <3>4. D[j + 1] = D[j] + g /\ D[j] \in Nat /\ D[j + 1] \in Nat
        BY <1>4, <3>1
      <3>5. s[j + 1] \in [power : Nat, delegate : Nat]
        <4>1. s \in Seq([power : Nat, delegate : Nat])
          BY <1>2 DEF Snapshot
        <4> QED
          BY <3>1, <4>1, ElementOfSeq DEF L
      <3>6. g \in Nat
        BY <3>5
      <3> HIDE DEF g, given
      <3> QED
        BY <3>2, <3>3, <3>4, <3>6
    <2>4. CASE ~(j < L)
      <3>1. u[F + j].sum = 0
        BY <1>5, <2>1, <2>4
      <3>2. given[j + 1] = D[L] /\ given[j] = D[L] /\ D[L] \in Nat
        <4>1. D[L] \in Nat
          BY <1>2, <1>4
        <4>2. j = L \/ j > L
          BY <1>2, <2>4
        <4> QED
          BY <1>2, <2>2, <2>4, <4>1, <4>2
      <3> HIDE DEF given
      <3> QED
        BY <3>1, <3>2
    <2> QED
      BY <2>3, <2>4
  <1>8. u[1].sum = given[F] - given[0]
    <2> HIDE DEF given
    <2>1. Heap(u, 2^d) /\ given \in [0..2^d -> Nat]
          /\ \A j \in 0..2^d - 1 : u[2^d + j].sum = given[j + 1] - given[j]
      BY <1>5, <1>6, <1>7 DEF F
    <2>2. u[1].sum = given[2^d] - given[0]
      BY <1>1, <2>1, SumOfLeaves
    <2> QED
      BY <2>2 DEF F
  <1>9. u[1].sum = D[L]
    <2>1. D[L] \in Nat
      BY <1>2, <1>4
    <2> HIDE DEF given
    <2> QED
      BY <1>6, <1>8, <2>1
  <1> QED
    BY <1>3, <1>9 DEF D, L, n, F

(* Snapshots that differ at a leaf of the network tree differ at the root  *)
(* of the node tree below it.                                              *)
LEMMA DifferenceCrosses ==
  ASSUME NEW s, NEW c, Sized(s), Sized(c), Len(c) = Len(s), NEW d, d = CeilLog2(Len(s)),
         NEW k \in 0..2^d - 1, NodesAt(s, 1)[2^d + k] # NodesAt(c, 1)[2^d + k]
  PROVE  NodesAt(s, 2^d + k)[1] # NodesAt(c, 2^d + k)[1]
  <1> DEFINE F == 2^d
             r == F + k
  <1>1. F \in Nat /\ r \in F..2 * F - 1 /\ r - F + 1 = k + 1
    <2>1. F \in Nat
      BY SizedDepth
    <2>2. k \in 0..F - 1
      OBVIOUS
    <2> HIDE DEF F
    <2> QED
      BY <2>1, <2>2
  <1>2. \A t : NodesAt(t, 1) = CreateNetworkVotingTree(t, 1).nodes
    BY DEF NodesAt
  <1>3. /\ NodesAt(s, 1)[F + k] = IF k < Len(s) THEN LeafNode(DelegatedTo(s, k + 1)[Len(s)])
                                  ELSE LeafNode(0)
        /\ NodesAt(c, 1)[F + k] = IF k < Len(c) THEN LeafNode(DelegatedTo(c, k + 1)[Len(c)])
                                  ELSE LeafNode(0)
    BY <1>2, NetworkTreeIs
  <1>4. DelegatedTo(s, k + 1)[Len(s)] # DelegatedTo(c, k + 1)[Len(c)]
    BY <1>3
  <1>5. /\ NodesAt(s, r)[1].sum = DelegatedTo(s, r - F + 1)[Len(s)]
        /\ NodesAt(c, r)[1].sum = DelegatedTo(c, r - F + 1)[Len(c)]
    BY <1>1, RootOfNodeTree
  <1> HIDE DEF F, r
  <1> QED
    BY <1>1, <1>4, <1>5 DEF r, F

-----------------------------------------------------------------------------
\* How far below a level of a tree of depth d the pollard of a node there is.
Down(d, per, level) == IF level + per <= d THEN per ELSE d - level

\* The levels of a round stay in the tree, and there is at least one above its leaves.
LEMMA DownIs ==
  ASSUME NEW d \in Nat, NEW per \in Nat \ {0}, NEW level \in 0..d
  PROVE  /\ Down(d, per, level) \in 0..d /\ Down(d, per, level) <= per
         /\ level + Down(d, per, level) <= d
         /\ level < d => Down(d, per, level) >= 1
         /\ level + Down(d, per, level) = d \/ Down(d, per, level) = per
  BY DEF Down

\* A tree with its depth, and the place of an index in its array.
Addressed(tree, v, d, per, local) ==
    /\ tree.depth = d /\ tree.perRound = per /\ Heap(tree.nodes, 2^d)
    /\ getLocalIndexFromVirtualIndex(tree, v) = local

(* The pollard of a node: the nodes of the tree some levels below it.      *)
LEMMA PollardIs ==
  ASSUME NEW d \in Nat, NEW per \in Nat \ {0}, NEW level \in 0..d,
         NEW offset \in 0..2^level - 1, NEW tree, NEW v,
         Addressed(tree, v, d, per, 2^level + offset)
  PROVE  LET x == 2^level + offset
             q == 2^Down(d, per, level)
         IN  /\ (x + 1) * q <= 2 * 2^d
             /\ x \in Nat \ {0}
             /\ Window(generatePollard(tree, v), tree.nodes, x, q)
  <1> DEFINE x == 2^level + offset
             r == Down(d, per, level)
             q == 2^r
             p == 2^level
             F == 2^d
             u == tree.nodes
  <1>1. r \in Nat /\ level \in Nat /\ level + r <= d /\ level + r \in Nat
    <2>1. r \in 0..d /\ level + r <= d
      BY DownIs
    <2> HIDE DEF r
    <2> QED
      BY <2>1
  <1>2. p \in Nat \ {0} /\ q \in Nat \ {0} /\ F \in Nat \ {0}
    <2> HIDE DEF r
    <2> QED
      BY <1>1, Powers2
  <1>3. offset \in 0..p - 1 /\ x = p + offset
    OBVIOUS
  <1>4. x \in Nat \ {0} /\ p <= x /\ x < 2 * p
    <2> HIDE DEF p, x
    <2> QED
      BY <1>2, <1>3
  <1>5. FloorLog2(x) = level
    <2> HIDE DEF x
    <2> QED
      BY <1>1, <1>4, FloorLog2Is
  <1>6. RelativeDepth(tree, x) = r
    <2> HIDE DEF x
    <2> QED
      BY <1>5 DEF RelativeDepth, Down, Addressed
  <1>7. generatePollard(tree, v) = SubSeq(u, x * q, x * q + q - 1)
    <2>1. getLocalIndexFromVirtualIndex(tree, v) = x
      BY DEF Addressed
    <2> HIDE DEF x, r
    <2> QED
      BY <1>6, <2>1 DEF generatePollard
  <1>8. p * q <= F
    <2>1. 2^(level + r) = p * q
      <3> HIDE DEF r
      <3> QED
        BY <1>1, PowerOfSum
    <2>2. 2^(level + r) <= F
      <3>1. CASE level + r = d
        <4>1. 2^(level + r) = F
          <5> HIDE DEF r
          <5> QED
            BY <3>1, Zenon
        <4> HIDE DEF F, r
        <4> QED
          BY <1>2, <4>1
      <3>2. CASE level + r # d
        <4>1. 2 * 2^(level + r) <= F /\ 2^(level + r) \in Nat
          <5> HIDE DEF r
          <5> QED
            BY <1>1, <3>2, PowerMonotone, Powers2
        <4> HIDE DEF F, r
        <4> QED
          BY <1>2, <4>1
      <3> QED
        BY <3>1, <3>2
    <2> QED
      BY <2>1, <2>2, Zenon
  <1> HIDE DEF p, q, F, x, u, r
  <1>9. /\ x * q \in Nat /\ x * q >= 1 /\ (x + 1) * q = x * q + q
        /\ x * q + q <= 2 * F
    <2>1. \A a, b \in Nat : a <= b => a * q <= b * q
      BY <1>2
    <2>2. x + 1 <= 2 * p /\ (2 * p) * q = 2 * (p * q) /\ p * q \in Nat
      BY <1>2, <1>4
    <2>3. (x + 1) * q <= (2 * p) * q
      BY <1>2, <1>4, <2>1, <2>2
    <2>4. x * q \in Nat /\ x * q >= 1 /\ (x + 1) * q = x * q + q
      BY <1>2, <1>4
    <2> QED
      BY <1>2, <1>8, <2>2, <2>3, <2>4
  <1>10. \A k \in 0..q - 1 : x * q + k \in 1..2 * F - 1
    BY <1>2, <1>9
  <1>11. \A i \in x * q..x * q + q - 1 : u[i] \in Node
    <2>1. u \in [1..2 * F - 1 -> Node]
      BY DEF Addressed, Heap, F, u
    <2> QED
      BY <1>2, <1>9, <2>1
  <1> DEFINE a == x * q
  <1>12. a \in Nat /\ a + q - 1 \in Nat
    BY <1>2, <1>9
  <1> HIDE DEF a
  <1>13. /\ SubSeq(u, a, a + q - 1) \in Seq(Node)
         /\ Len(SubSeq(u, a, a + q - 1)) = q
         /\ \A i \in 1..q : SubSeq(u, a, a + q - 1)[i] = u[a + i - 1]
    <2>1. \A i \in a..a + q - 1 : u[i] \in Node
      BY <1>11 DEF a
    <2>2. a \in Int /\ a + q - 1 \in Int /\ a <= a + q - 1 /\ (a + q - 1) - a + 1 = q
      BY <1>2, <1>12
    <2> QED
      BY <2>1, <2>2, SubSeqProperties
  <1>14. \A k \in 0..q - 1 : generatePollard(tree, v)[k + 1] = u[x * q + k]
    <2> TAKE k \in 0..q - 1
    <2>1. k + 1 \in 1..q /\ a + (k + 1) - 1 = a + k
      BY <1>2, <1>12
    <2> QED
      BY <1>7, <1>13, <2>1 DEF a
  <1>15. Window(generatePollard(tree, v), u, x, q)
    BY <1>7, <1>13, <1>14 DEF Window, a
  <1> QED
    BY <1>4, <1>9, <1>15 DEF x, q, F, r, u

\* An exponent that is not smaller is a power that is not smaller.
LEMMA PowerWeaklyMonotone ==
  ASSUME NEW a \in Nat, NEW b \in Nat, a <= b
  PROVE  2^a <= 2^b
  <1>1. 2^a \in Nat /\ 2^b \in Nat
    BY Powers2
  <1>2. CASE a = b
    BY <1>1, <1>2
  <1>3. CASE a # b
    <2>1. 2 * 2^a <= 2^b
      BY <1>3, PowerMonotone
    <2> QED
      BY <1>1, <2>1
  <1> QED
    BY <1>2, <1>3

\* The walk comes to the levels of the network tree at which a round ends.
Aligned(per, root, level) == root = 1 => level = 0 \/ level >= per

(* The first node of a pollard is not as far to the right of the left edge *)
(* as there are nodes on the level of the pollard's root: that is why the  *)
(* quotient and the remainder give its place back.                         *)
LEMMA PollardFits ==
  ASSUME NEW d \in Nat \ {0}, NEW per \in Nat \ {0}, NEW root, NEW level, NEW offset,
         Place(d, root, level, offset), Aligned(per, root, level)
  PROVE  LET v == IndexOf(root, level, offset)
         IN  v \in Nat \ {0} /\ (v = 1 \/ 2^Down(d, per, level) <= v)
  <1> DEFINE v == IndexOf(root, level, offset)
             r == Down(d, per, level)
             p == 2^level
             F == 2^d
  <1>1. level \in 0..d /\ root \in {1} \cup F..2 * F - 1 /\ offset \in 0..p - 1
    BY DEF Place
  <1>2. r \in 0..d /\ r <= per
    BY <1>1, DownIs
  <1>3. p \in Nat \ {0} /\ F \in Nat \ {0} /\ 2^r \in Nat \ {0}
    <2>1. level \in Nat /\ r \in Nat
      <3> HIDE DEF r
      <3> QED
        BY <1>1, <1>2
    <2> HIDE DEF r
    <2> QED
      BY <2>1, Powers2
  <1>4. v = root * p + offset
    BY DEF IndexOf
  <1> HIDE DEF v, r, p, F
  <1>5. v \in Nat \ {0} /\ v >= p /\ v >= root
    <2>1. root \in Nat \ {0}
      BY <1>1, <1>3
    <2>2. \A a, b \in Nat \ {0} : a * b \in Nat /\ a * b >= a /\ a * b >= b
      OBVIOUS
    <2>3. root * p \in Nat /\ root * p >= p /\ root * p >= root
      BY <1>3, <2>1, <2>2
    <2> QED
      BY <1>1, <1>3, <1>4, <2>1, <2>3
  <1>6. CASE root = 1 /\ level = 0
    <2>1. p = 1
      <3>1. 2^0 = 1
        OBVIOUS
      <3> QED
        BY <1>6, <3>1, Zenon DEF p
    <2>2. v = 1
      BY <1>1, <1>4, <1>5, <1>6, <2>1
    <2> QED
      BY <1>5, <2>2, Zenon DEF v
  <1>7. CASE root = 1 /\ level >= per
    <2>1. 2^r <= 2^level
      BY <1>1, <1>2, <1>7, PowerWeaklyMonotone
    <2> QED
      BY <1>3, <1>5, <2>1 DEF r, p, v
  <1>8. CASE root # 1
    <2>1. 2^r <= 2^d
      BY <1>2, PowerWeaklyMonotone
    <2>2. root >= F /\ root \in Nat
      BY <1>1, <1>3, <1>8
    <2> QED
      BY <1>3, <1>5, <2>1, <2>2 DEF r, F, v
  <1> QED
    BY <1>6, <1>7, <1>8 DEF Aligned

(* A proposer's answer, made by GetArtifactsForChallengeResponse, folds to *)
(* the node it is the pollard of, with snapshots of every size and every   *)
(* number of levels per round, in the network tree and in the node trees:  *)
(* the contract can check it against the node that was challenged.         *)
THEOREM AnswersFold ==
  ASSUME NEW s, Sized(s), NEW per \in Nat \ {0}, NEW root, NEW level, NEW offset,
         Place(CeilLog2(Len(s)), root, level, offset)
  PROVE  LET v == IndexOf(root, level, offset)
             tree == TreeOf(s, v, per)
         IN  CreateTreeFromLeaves(generatePollard(tree, v), 1, per).nodes[1]
                 = tree.nodes[getLocalIndexFromVirtualIndex(tree, v)]
  <1> DEFINE d == CeilLog2(Len(s))
             v == IndexOf(root, level, offset)
             tree == TreeOf(s, v, per)
             x == 2^level + offset
             r == Down(d, per, level)
             pollard == generatePollard(tree, v)
             u == CreateTreeFromLeaves(pollard, 1, per).nodes
  <1>1. d \in Nat /\ level \in 0..d /\ offset \in 0..2^level - 1
    BY SizedDepth DEF Place
  <1>2. Addressed(tree, v, d, per, x)
    <2>1. Place(d, root, level, offset)
      OBVIOUS
    <2> HIDE DEF d
    <2>2. /\ tree.depth = d /\ tree.perRound = per /\ tree.nodes = NodesAt(s, root)
          /\ Heap(NodesAt(s, root), 2^d) /\ getLocalIndexFromVirtualIndex(tree, v) = x
      BY <2>1, TreeOfPlace DEF d
    <2> QED
      BY <2>2, Zenon DEF Addressed
  <1> HIDE DEF d, v, tree
  <1>3. /\ (x + 1) * 2^r <= 2 * 2^d /\ x \in Nat \ {0}
        /\ Window(pollard, tree.nodes, x, 2^r)
    BY <1>1, <1>2, PollardIs
  <1>4. r \in Nat /\ 2^r \in Nat \ {0} /\ 2^d \in Nat \ {0}
    <2>1. r \in 0..d
      BY <1>1, DownIs
    <2> HIDE DEF r
    <2>2. r \in Nat
      BY <1>1, <2>1
    <2> QED
      BY <1>1, <2>2, Powers2
  <1> HIDE DEF x, r, pollard
  <1>5. pollard \in Seq(Node) /\ Len(pollard) = 2^r /\ Len(pollard) >= 1
    BY <1>3, <1>4 DEF Window
  <1>6. r = CeilLog2(Len(pollard))
    BY <1>4, <1>5, CeilLog2OfPower
  <1>7. /\ Heap(u, 2^r)
        /\ \A k \in 0..2^r - 1 : u[2^r + k] = IF k < Len(pollard) THEN pollard[k + 1] ELSE LeafNode(0)
    BY <1>5, <1>6, TreeFromLeaves
  <1> HIDE DEF u
  <1>8. Window(pollard, u, 1, 2^r)
    <2> DEFINE q == 2^r
    <2> HIDE DEF q
    <2>1. \A k \in 0..q - 1 : pollard[k + 1] = u[1 * q + k]
      BY <1>4, <1>5, <1>7 DEF q
    <2> QED
      BY <1>5, <2>1, Zenon DEF Window, q
  <1>9. (1 + 1) * 2^r <= 2 * 2^r
    <2> DEFINE q == 2^r
    <2> HIDE DEF q
    <2>1. (1 + 1) * q <= 2 * q
      BY <1>4 DEF q
    <2> QED
      BY <2>1 DEF q
  <1>10. tree.nodes[x] = u[1]
    <2>1. Heap(tree.nodes, 2^d)
      BY <1>2 DEF Addressed
    <2>2. 1 \in Nat \ {0} /\ \A k \in 1..2^r : pollard[k] = pollard[k]
      OBVIOUS
    <2> QED
      BY <1>3, <1>4, <1>7, <1>8, <1>9, <2>1, <2>2, SameBelow
  <1> QED
    BY <1>2, <1>10, Zenon DEF Addressed, v, tree, pollard, u, x

(* What GetArtifactsForVoting gives a node to vote with is the power       *)
(* delegated to it, and although that power is the sum of its own tree and *)
(* the proof is made from the network tree, the proof of a leaf with that  *)
(* power folds to the network root, for every snapshot.                    *)
THEOREM VotesFold ==
  ASSUME NEW s, Sized(s), NEW per \in Nat \ {0}, NEW n \in 0..Len(s) - 1
  PROVE  LET vote == GetArtifactsForVoting(s, n, per)
         IN  /\ vote.power = DelegatedTo(s, n + 1)[Len(s)]
             /\ FoldProof(LeafNode(vote.power), getTreeNodeIndexFromRPNodeIndex(s, n), vote.proof)
                    = CreateNetworkVotingTree(s, per).nodes[1]
  <1> DEFINE d == CeilLog2(Len(s))
             F == 2^d
             net == CreateNetworkVotingTree(s, per)
             given == DelegatedTo(s, n + 1)[Len(s)]
  <1>1. d \in Nat /\ F \in Nat \ {0} /\ FirstLeaf(s) = F
    BY SizedDepth
  <1>2. Len(s) \in Nat /\ Len(s) <= F
    <2>1. Len(s) \in Nat \ {0}
      BY DEF Sized, Snapshot
    <2> QED
      BY <2>1, CeilLog2Is
  <1> HIDE DEF F, d
  <1>3. n \in 0..F - 1 /\ n \in Nat /\ n < Len(s)
    BY <1>1, <1>2
  <1>4. getTreeNodeIndexFromRPNodeIndex(s, n) = F + n
    BY <1>1 DEF getTreeNodeIndexFromRPNodeIndex
  <1>5. CreateNodeVotingTree(s, n, F + n, per).nodes[1].sum = given
    <2>1. F + n \in F..2 * F - 1 /\ (F + n) - F = n /\ F + n # 1
      <3>1. F >= 2
        BY SizedDepth DEF F, d
      <3> QED
        BY <1>1, <1>3, <3>1
    <2>2. NodesAt(s, F + n)[1].sum = DelegatedTo(s, (F + n) - F + 1)[Len(s)]
      BY <2>1, RootOfNodeTree DEF F, d
    <2>3. NodesAt(s, F + n) = CreateNodeVotingTree(s, n, F + n, 1).nodes
      BY <1>1, <2>1 DEF NodesAt
    <2>4. CreateNodeVotingTree(s, n, F + n, per).nodes = CreateNodeVotingTree(s, n, F + n, 1).nodes
      BY NodeTreeIs
    <2> QED
      BY <2>1, <2>2, <2>3, <2>4
  <1>6. Heap(net.nodes, F) /\ net.nodes[F + n] = LeafNode(given)
    <2>1. /\ Heap(net.nodes, 2^d)
          /\ \A k \in 0..2^d - 1 : net.nodes[2^d + k] =
                 IF k < Len(s) THEN LeafNode(DelegatedTo(s, k + 1)[Len(s)]) ELSE LeafNode(0)
      BY NetworkTreeIs DEF d
    <2> HIDE DEF net
    <2> QED
      BY <1>3, <2>1 DEF F
  <1> HIDE DEF net, given
  <1>7. FoldProof(net.nodes[F + n], 1 * F + n, generateMerkleProof(net, F + n)) = net.nodes[1]
    <2>1. n \in 0..2^d - 1 /\ Heap(net.nodes, 2^d) /\ 1 \in Nat
      BY <1>3, <1>6 DEF F
    <2> QED
      BY <1>1, <2>1, ProofFolds DEF F
  <1>8. 1 * F + n = F + n
    BY <1>1
  <1>9. GetArtifactsForVoting(s, n, per) =
            [power |-> given, node |-> n, proof |-> generateMerkleProof(net, F + n)]
    BY <1>4, <1>5, Zenon DEF GetArtifactsForVoting, net
  <1> QED
    BY <1>4, <1>6, <1>7, <1>8, <1>9 DEF net, given

\* The snapshots s and c give a place, from which a round starts, different values.
Wrong(s, c, d, per, root, level, offset) ==
    /\ Place(d, root, level, offset) /\ level < d /\ Aligned(per, root, level)
    /\ NodesAt(s, root)[2^level + offset] # NodesAt(c, root)[2^level + offset]

\* A node below that place with different values, and a proof of the claimed one.
Finds(found, s, c, d, per, root, level, offset) ==
    LET v == IndexOf(root, level, offset)
        x == 2^level + offset
        r == Down(d, per, level)
        q == 2^r
    IN  \E k \in 0..q - 1 :
            /\ found.index = v * q + k
            /\ found.node = NodesAt(c, root)[x * q + k]
            /\ found.node # NodesAt(s, root)[x * q + k]
            /\ Len(found.proof) = r
            /\ FoldProof(found.node, found.index, found.proof)
                   = CreateTreeFromLeaves(generatePollard(TreeOf(c, v, per), v), 1, per).nodes[1]

\* Two trees with equal windows below a place are equal there.
LEMMA EqualAbove ==
  ASSUME NEW m \in Nat \ {0}, NEW t, NEW u, Heap(t, m), Heap(u, m),
         NEW x \in Nat \ {0}, NEW r \in Nat, (x + 1) * 2^r <= 2 * m,
         NEW w, NEW z, Window(w, t, x, 2^r), Window(z, u, x, 2^r),
         \A k \in 1..2^r : w[k] = z[k]
  PROVE  t[x] = u[x]
  BY SameBelow

(* The check of a pollard, made at a place where the two snapshots differ, *)
(* finds a node below it where they differ, with a proof that folds to the *)
(* root of the claimed pollard.                                            *)
LEMMA CheckFinds ==
  ASSUME NEW s, NEW c, Sized(s), Sized(c), Len(c) = Len(s),
         NEW d, d = CeilLog2(Len(s)), NEW per \in Nat \ {0},
         NEW root, NEW level, NEW offset,
         Wrong(s, c, d, per, root, level, offset)
  PROVE  LET v == IndexOf(root, level, offset)
             pollard == generatePollard(TreeOf(c, v, per), v)
             found == CheckForChallengeableArtifacts(TreeOf(s, v, per), v, pollard)
         IN  Finds(found, s, c, d, per, root, level, offset)
  <1> USE DEF Wrong
  <1> DEFINE v == IndexOf(root, level, offset)
             T == TreeOf(s, v, per)
             U == TreeOf(c, v, per)
             local == generatePollard(T, v)
             pollard == generatePollard(U, v)
             found == CheckForChallengeableArtifacts(T, v, pollard)
             x == 2^level + offset
             r == Down(d, per, level)
             q == 2^r
             a == NodesAt(s, root)
             b == NodesAt(c, root)
             wrong == {k \in DOMAIN local : local[k] # pollard[k]}
             first == CHOOSE j \in wrong : \A i \in wrong : j <= i
             subtree == CreateTreeFromLeaves(pollard, v, per)
  <1>1. d \in Nat \ {0} /\ level \in 0..d /\ offset \in 0..2^level - 1
    BY SizedDepth DEF Place
  <1>2. /\ T.depth = d /\ T.perRound = per /\ T.nodes = a /\ Heap(a, 2^d)
        /\ getLocalIndexFromVirtualIndex(T, v) = x
    BY TreeOfPlace
  <1>3. /\ U.depth = d /\ U.perRound = per /\ U.nodes = b /\ Heap(b, 2^d)
        /\ getLocalIndexFromVirtualIndex(U, v) = x
    BY TreeOfPlace
  <1>4. r \in Nat /\ q \in Nat \ {0}
    <2>1. r \in 0..d
      BY <1>1, DownIs
    <2> HIDE DEF r
    <2>2. r \in Nat
      BY <1>1, <2>1
    <2> QED
      BY <2>2, Powers2
  <1>5. /\ (x + 1) * q <= 2 * 2^d /\ x \in Nat \ {0}
        /\ Window(local, a, x, q)
    <2>1. Addressed(T, v, d, per, x)
      BY <1>2, Zenon DEF Addressed
    <2> HIDE DEF a, T, v
    <2>2. d \in Nat
      BY <1>1
    <2> QED
      BY <1>1, <1>2, <2>1, <2>2, PollardIs
  <1>6. Window(pollard, b, x, q)
    <2>1. Addressed(U, v, d, per, x)
      BY <1>3, Zenon DEF Addressed
    <2> HIDE DEF b, U, v
    <2>2. d \in Nat
      BY <1>1
    <2> QED
      BY <1>1, <1>3, <2>1, <2>2, PollardIs
  <1>7. v \in Nat \ {0} /\ (v = 1 \/ q <= v)
    BY <1>1, PollardFits
  <1>8. a[x] # b[x]
    OBVIOUS
  <1> HIDE DEF v, T, U, local, pollard, x, r, a, b
  <1>9. wrong # {}
    <2> SUFFICES ASSUME wrong = {}
                 PROVE  FALSE
      OBVIOUS
    <2>1. DOMAIN local = 1..q
      <3> HIDE DEF q
      <3> QED
        BY <1>4, <1>5 DEF Window
    <2>2. \A k \in 1..q : local[k] = pollard[k]
      BY <2>1
    <2>3. 2^d \in Nat \ {0} /\ r \in Nat
      BY <1>1, <1>4, Powers2
    <2>4. (x + 1) * 2^r <= 2 * 2^d /\ x \in Nat \ {0}
      BY <1>5
    <2>5. /\ Heap(a, 2^d) /\ Heap(b, 2^d) /\ Window(local, a, x, 2^r) /\ Window(pollard, b, x, 2^r)
          /\ \A k \in 1..2^r : local[k] = pollard[k]
      BY <1>2, <1>3, <1>5, <1>6, <2>2
    <2> HIDE DEF wrong, first, found, subtree, q, Wrong
    <2>6. a[x] = b[x]
      BY <2>3, <2>4, <2>5, EqualAbove
    <2> QED
      BY <1>8, <2>6
  <1>10. first \in wrong
    <2>1. wrong \subseteq Nat
      <3>1. DOMAIN local = 1..q
        <4> HIDE DEF q
        <4> QED
          BY <1>4, <1>5 DEF Window
      <3> HIDE DEF q
      <3> QED
        BY <1>4, <3>1
    <2> HIDE DEF wrong
    <2>2. PICK j \in wrong : \A i \in wrong : ~(<<i, j>> \in OpToRel(<, Nat))
      BY <1>9, <2>1, NatLessThanWellFounded, WFMin
    <2>3. ASSUME NEW i \in wrong
          PROVE  j <= i
      <3>1. i \in Nat /\ j \in Nat /\ ~(<<i, j>> \in OpToRel(<, Nat))
        BY <2>1, <2>2, Zenon
      <3> QED
        BY <3>1 DEF OpToRel
    <2> QED
      BY <2>3, Zenon
  <1> HIDE DEF first
  <1> DEFINE k == first - 1
  <1>11. first \in 1..q /\ k \in 0..q - 1 /\ first = k + 1 /\ local[k + 1] # pollard[k + 1]
    <2>1. first \in DOMAIN local /\ local[first] # pollard[first]
      BY <1>10
    <2>2. DOMAIN local = 1..q
      <3> HIDE DEF q
      <3> QED
        BY <1>4, <1>5 DEF Window
    <2> HIDE DEF q, wrong
    <2>3. first \in 1..q
      BY <2>1, <2>2
    <2>4. first = k + 1 /\ k \in 0..q - 1
      BY <1>4, <2>3
    <2> HIDE DEF k
    <2> QED
      BY <2>1, <2>3, <2>4
  <1> HIDE DEF k
  <1>12. found = getArtifactsForChallenge(subtree, PollardIndex(q, first, v))
    <2>1. subtree = CreateTreeFromLeaves(pollard, v, T.perRound)
      BY <1>2
    <2>2. Len(local) = q /\ ~(Len(local) # Len(pollard)) /\ wrong # {}
      BY <1>5, <1>6, <1>9 DEF Window
    <2> HIDE DEF q, subtree
    <2> QED
      BY <2>1, <2>2, Zenon DEF CheckForChallengeableArtifacts, local, first
  <1>13. PollardIndex(q, first, v) = v * q + k
    <2>1. q + first - 1 = q + k /\ q + k \in Nat /\ q <= q + k /\ q + k < 2 * q
      <3> HIDE DEF q
      <3> QED
        BY <1>4, <1>11
    <2>2. FloorLog2(q + k) = r
      BY <1>4, <2>1, FloorLog2Is
    <2>3. getVirtualIndexFromLocalIndex(q + k, v) = IF v = 1 THEN q + k ELSE q * v + ((q + k) - q)
      BY <2>2 DEF getVirtualIndexFromLocalIndex
    <2>4. PollardIndex(q, first, v) = getVirtualIndexFromLocalIndex(q + k, v)
      BY <2>1 DEF PollardIndex
    <2> HIDE DEF q
    <2> QED
      BY <1>4, <1>7, <1>11, <2>3, <2>4
  <1>14. /\ subtree.root = v /\ Heap(subtree.nodes, 2^r)
         /\ subtree.nodes = TreeNodes(pollard, 2^r)
         /\ subtree.nodes[q + k] = pollard[k + 1]
         /\ CreateTreeFromLeaves(pollard, 1, per).nodes = TreeNodes(pollard, 2^r)
    <2>1. Len(pollard) >= 1 /\ k < Len(pollard)
      <3> HIDE DEF q
      <3> QED
        BY <1>4, <1>6, <1>11 DEF Window
    <2>2. r = CeilLog2(Len(pollard))
      BY <1>4, <1>6, CeilLog2OfPower DEF Window
    <2>3. CreateTreeFromLeaves(pollard, 1, per).nodes = TreeNodes(pollard, 2^r)
      BY <1>6, <2>1, <2>2, TreeFromLeaves DEF Window
    <2>4. /\ subtree.root = v /\ Heap(subtree.nodes, 2^r)
          /\ subtree.nodes = TreeNodes(pollard, 2^r)
          /\ \A i \in 0..2^r - 1 : subtree.nodes[2^r + i] =
                 IF i < Len(pollard) THEN pollard[i + 1] ELSE LeafNode(0)
      BY <1>6, <2>1, <2>2, TreeFromLeaves DEF Window
    <2>5. subtree.nodes[q + k] = pollard[k + 1]
      BY <1>11, <2>1, <2>4
    <2> QED
      BY <2>3, <2>4, <2>5
  <1> HIDE DEF subtree
  <1>15. getLocalIndexFromVirtualIndex(subtree, v * q + k) = q + k
    <2> HIDE DEF q
    <2>1. CASE v = 1
      BY <1>4, <1>11, <1>14, <2>1 DEF getLocalIndexFromVirtualIndex
    <2>2. CASE v # 1
      <3>1. k \in 0..v - 1 /\ v * q + k = q * v + k
        BY <1>4, <1>7, <1>11, <2>2
      <3>2. (q * v + k) \div v = q /\ (q * v + k) % v = k
        BY <1>4, <1>7, <3>1, Quotient
      <3> QED
        BY <1>14, <2>2, <3>1, <3>2 DEF getLocalIndexFromVirtualIndex
    <2> QED
      BY <2>1, <2>2
  <1>16. found = [index |-> v * q + k, node |-> subtree.nodes[q + k],
                  proof |-> generateMerkleProof(subtree, q + k)]
    <2> HIDE DEF q, found
    <2> QED
      BY <1>12, <1>13, <1>15 DEF getArtifactsForChallenge
  <1>17. /\ Len(generateMerkleProof(subtree, q + k)) = r
         /\ FoldProof(subtree.nodes[q + k], v * q + k, generateMerkleProof(subtree, q + k))
                = subtree.nodes[1]
    <2>1. k \in 0..2^r - 1 /\ v \in Nat
      BY <1>7, <1>11
    <2> QED
      BY <1>4, <1>14, <2>1, ProofFolds
  <1>18. /\ found.index = v * q + k
         /\ found.node = b[x * q + k]
         /\ found.node # a[x * q + k]
         /\ Len(found.proof) = r
         /\ FoldProof(found.node, found.index, found.proof)
                = CreateTreeFromLeaves(pollard, 1, per).nodes[1]
    <2> HIDE DEF found, q
    <2>1. local[k + 1] = a[x * q + k] /\ pollard[k + 1] = b[x * q + k]
      BY <1>5, <1>6, <1>11 DEF Window
    <2> QED
      BY <1>11, <1>14, <1>16, <1>17, <2>1
  <1>19. \E i \in 0..q - 1 :
             /\ found.index = v * q + i
             /\ found.node = b[x * q + i]
             /\ found.node # a[x * q + i]
             /\ Len(found.proof) = r
             /\ FoldProof(found.node, found.index, found.proof)
                    = CreateTreeFromLeaves(pollard, 1, per).nodes[1]
    <2> HIDE DEF found, q
    <2> QED
      BY <1>11, <1>18, Zenon
  <1> QED
    BY <1>19, Zenon DEF Finds, v, T, U, pollard, x, r, a, b

\* A challenge of the o-th node r levels below, which the snapshots give different values.
Challenges(found, s, c, d, per, root, level, offset, r, o) ==
    /\ r \in 1..per /\ level + r <= d /\ (level + r = d \/ r = per)
    /\ o \in 0..2^(level + r) - 1
    /\ found.index = IndexOf(root, level + r, o)
    /\ found.node = NodesAt(c, root)[2^(level + r) + o]
    /\ found.node # NodesAt(s, root)[2^(level + r) + o]

\* A proof of a node some levels below an index, in the pollard of a snapshot.
Proves(found, c, per, v) ==
    LET up == Len(found.proof)
    IN  /\ found.index > v /\ found.index \div 2^up = v /\ up <= per
        /\ FoldProof(found.node, found.index, found.proof)
               = CreateTreeFromLeaves(generatePollard(TreeOf(c, v, per), v), 1, per).nodes[1]

(* A check at a wrong place finds a wrong place further down and proves it. *)
LEMMA CheckChallenges ==
  ASSUME NEW s, NEW c, Sized(s), Sized(c), Len(c) = Len(s),
         NEW d, d = CeilLog2(Len(s)), NEW per \in Nat \ {0},
         NEW root, NEW level, NEW offset, Wrong(s, c, d, per, root, level, offset)
  PROVE  LET v == IndexOf(root, level, offset)
             found == CheckForChallengeableArtifacts(
                          TreeOf(s, v, per), v, generatePollard(TreeOf(c, v, per), v))
         IN  /\ Proves(found, c, per, v)
             /\ \E r, o : Challenges(found, s, c, d, per, root, level, offset, r, o)
  <1> DEFINE v == IndexOf(root, level, offset)
             found == CheckForChallengeableArtifacts(
                          TreeOf(s, v, per), v, generatePollard(TreeOf(c, v, per), v))
             r == Down(d, per, level)
             q == 2^r
             p == 2^level
             x == p + offset
             goal == CreateTreeFromLeaves(generatePollard(TreeOf(c, v, per), v), 1, per).nodes[1]
  <1>1. /\ Place(d, root, level, offset) /\ level < d /\ Aligned(per, root, level)
        /\ NodesAt(s, root)[2^level + offset] # NodesAt(c, root)[2^level + offset]
    BY DEF Wrong
  <1>2. PICK k \in 0..q - 1 :
            /\ found.index = v * q + k
            /\ found.node = NodesAt(c, root)[x * q + k]
            /\ found.node # NodesAt(s, root)[x * q + k]
            /\ Len(found.proof) = r
            /\ FoldProof(found.node, found.index, found.proof) = goal
    <2>1. Finds(found, s, c, d, per, root, level, offset)
      BY CheckFinds
    <2> QED
      BY <2>1, Zenon DEF Finds
  <1>3. d \in Nat \ {0} /\ level \in 0..d /\ level \in Nat /\ offset \in 0..p - 1
    BY <1>1, SizedDepth DEF Place
  <1> HIDE DEF found, goal, v
  <1>4. /\ r \in 0..d /\ r <= per /\ level + r <= d /\ r >= 1
        /\ level + r = d \/ r = per
    BY <1>1, <1>3, DownIs
  <1> HIDE DEF r
  <1>5. q \in Nat \ {0} /\ q >= 2 /\ p \in Nat \ {0} /\ 2^(level + r) = p * q
    <2>1. r \in Nat
      BY <1>3, <1>4
    <2>2. q > r /\ q \in Nat
      BY <2>1, Powers2
    <2>3. p \in Nat \ {0}
      BY <1>3, Powers2
    <2>4. 2^(level + r) = p * q
      BY <1>3, <2>1, PowerOfSum
    <2> HIDE DEF p, q
    <2> QED
      BY <1>4, <2>1, <2>2, <2>3, <2>4
  <1>6. v \in Nat \ {0} /\ v = root * p + offset
    BY <1>1, <1>3, PollardFits DEF IndexOf, v
  <1>7. root \in Nat
    <2>1. 2^d \in Nat
      BY <1>3, Powers2
    <2> DEFINE F == 2^d
    <2> HIDE DEF F
    <2>2. root \in {1} \cup F..2 * F - 1 /\ F \in Nat
      BY <1>1, <2>1 DEF Place, F
    <2> QED
      BY <2>2
  <1> DEFINE o == offset * q + k
  <1>k. k \in 0..q - 1
    OBVIOUS
  <1> HIDE DEF p, q
  <1>8. o \in 0..p * q - 1
    <2>1. \A a, b \in Nat : a <= b => a * q <= b * q
      BY <1>5
    <2>2. (offset + 1) * q <= p * q
      BY <1>3, <1>5, <2>1
    <2>3. (offset + 1) * q = offset * q + q /\ offset * q \in Nat /\ p * q \in Nat
      BY <1>3, <1>5
    <2> QED
      BY <1>5, <1>k, <2>2, <2>3
  <1>9. v * q + k = root * (p * q) + o /\ x * q + k = p * q + o
    <2>1. (root * p + offset) * q = root * (p * q) + offset * q
      BY <1>3, <1>5, <1>7
    <2>2. (p + offset) * q = p * q + offset * q
      BY <1>3, <1>5
    <2>3. root * (p * q) \in Nat /\ offset * q \in Nat /\ p * q \in Nat
      BY <1>3, <1>5, <1>7
    <2> QED
      BY <1>5, <1>6, <1>k, <2>1, <2>2, <2>3
  <1> HIDE DEF o, x
  <1>10. Challenges(found, s, c, d, per, root, level, offset, r, o)
    <2>1. r \in 1..per
      BY <1>3, <1>4
    <2>2. o \in 0..2^(level + r) - 1
      BY <1>5, <1>8
    <2>3. found.index = IndexOf(root, level + r, o)
      BY <1>2, <1>5, <1>9, Zenon DEF IndexOf
    <2>4. /\ found.node = NodesAt(c, root)[2^(level + r) + o]
          /\ found.node # NodesAt(s, root)[2^(level + r) + o]
      BY <1>2, <1>5, <1>9, Zenon
    <2> QED
      BY <1>4, <2>1, <2>2, <2>3, <2>4, Zenon DEF Challenges
  <1>11. Proves(found, c, per, v)
    <2>1. v * q + k > v
      <3>1. v * q >= 2 * v /\ v * q \in Nat
        <4>1. \A a, b \in Nat : b >= 2 => a * b >= 2 * a /\ a * b \in Nat
          OBVIOUS
        <4> QED
          BY <1>5, <1>6, <4>1
      <3> QED
        BY <1>5, <1>6, <1>k, <3>1
    <2>2. (v * q + k) \div q = v
      BY <1>5, <1>6, <1>k, Quotient
    <2>3. found.index > v /\ found.index \div 2^r = v
      BY <1>2, <2>1, <2>2, Zenon DEF q
    <2> QED
      BY <1>2, <1>4, <2>3, Zenon DEF Proves, goal
  <1> QED
    BY <1>10, <1>11, Zenon DEF found, v

-----------------------------------------------------------------------------
\* The two snapshots of a walk have the same nodes, two or more.
Pair ==
    /\ perRound \in Nat \ {0}
    /\ Sized(truth) /\ Sized(claim) /\ Len(claim) = Len(truth)

\* An index from which a round can start and below which the snapshots differ.
WrongAt(v) ==
    \E root, level, offset :
        /\ Wrong(truth, claim, CeilLog2(Len(truth)), perRound, root, level, offset)
        /\ v = IndexOf(root, level, offset)

\* What a check finds at the last root that was submitted.
Found == CheckForChallengeableArtifacts(TreeOf(truth, at, perRound), at, Pollard(claim, at))

(* The inductive invariant of the walk: the last root was submitted for a  *)
(* place where the snapshots differ, and what is held against the proposer *)
(* is what the check finds there.                                          *)
WalkInv ==
    /\ Pair
    /\ WrongAt(at)
    /\ accused = Unchecked \/ accused = Found

\* The snapshots of WalkInit are a pair.
LEMMA WalkStarts == WalkInit => Pair
  <1> SUFFICES ASSUME WalkInit
               PROVE  Pair
    OBVIOUS
  <1> DEFINE Given == [power : Nat, delegate : Nat]
  <1>1. PICK n \in Sizes : truth \in Snapshots(n)
    BY DEF WalkInit
  <1>2. n \in Nat /\ n >= 2
    BY <1>1, WalkAssumption
  <1>3. PICK t \in [1..n -> Powers], voters \in SUBSET (1..n) :
            truth = [k \in 1..n |-> [power |-> t[k], delegate |-> IF k \in voters THEN k ELSE n]]
    BY <1>1, SMT DEF Snapshots
  <1>4. truth \in [1..n -> Given]
    <2>1. \A k \in 1..n : t[k] \in Nat
      BY WalkAssumption
    <2>2. \A k \in 1..n : (IF k \in voters THEN k ELSE n) \in Nat
      BY <1>2
    <2>3. \A k \in 1..n :
              [power |-> t[k], delegate |-> IF k \in voters THEN k ELSE n] \in Given
      BY <2>1, <2>2
    <2> QED
      BY <1>3, <2>3
  <1> HIDE DEF Given
  <1>5. truth \in Seq(Given) /\ Len(truth) = n /\ DOMAIN truth = 1..n
    BY <1>2, <1>4
  <1>6. PICK w \in SUBSET DOMAIN truth :
            claim \in {[k \in DOMAIN truth |-> IF k \in w THEN lie[k] ELSE truth[k]] :
                          lie \in [w -> [power : Powers, delegate : {Len(truth)} \cup w]]}
    BY DEF WalkInit, Lies
  <1>7. PICK lie \in [w -> [power : Powers, delegate : {Len(truth)} \cup w]] :
            claim = [k \in DOMAIN truth |-> IF k \in w THEN lie[k] ELSE truth[k]]
    BY <1>6, Zenon
  <1>8. claim \in [1..n -> Given]
    <2>1. [power : Powers, delegate : {Len(truth)} \cup w] \subseteq Given
      <3>1. Powers \subseteq Nat
        BY WalkAssumption
      <3>2. {Len(truth)} \cup w \subseteq Nat
        BY <1>2, <1>5
      <3> QED
        BY <3>1, <3>2 DEF Given
    <2>2. \A k \in 1..n : (IF k \in w THEN lie[k] ELSE truth[k]) \in Given
      BY <1>4, <2>1
    <2> QED
      BY <1>5, <1>7, <2>2
  <1>9. claim \in Seq(Given) /\ Len(claim) = n
    BY <1>2, <1>8
  <1>10. perRound \in Nat \ {0}
    BY WalkAssumption DEF WalkInit
  <1> QED
    BY <1>2, <1>5, <1>9, <1>10 DEF Pair, Sized, Snapshot, Given

\* A proposal with a wrong root differs from the truth at index 1.
LEMMA WalkInitInv == WalkInit => WalkInv
  <1> SUFFICES ASSUME WalkInit
               PROVE  WalkInv
    OBVIOUS
  <1>1. Pair
    BY WalkStarts
  <1> DEFINE d == CeilLog2(Len(truth))
  <1>2. d \in Nat \ {0} /\ 2^0 = 1 /\ 2^0 + 0 = 1
    BY <1>1, SizedDepth, Powers2 DEF Pair
  <1>3. NodesAt(truth, 1)[1] # NodesAt(claim, 1)[1]
    <2>1. /\ CreateNetworkVotingTree(truth, perRound).nodes = CreateNetworkVotingTree(truth, 1).nodes
          /\ CreateNetworkVotingTree(claim, perRound).nodes = CreateNetworkVotingTree(claim, 1).nodes
      BY <1>1, NetworkTreeIs DEF Pair
    <2> QED
      BY <2>1 DEF WalkInit, Root, NodesAt
  <1> HIDE DEF d
  <1>4. Place(d, 1, 0, 0)
    BY <1>2 DEF Place
  <1>5. Wrong(truth, claim, d, perRound, 1, 0, 0)
    BY <1>2, <1>3, <1>4 DEF Wrong, Aligned
  <1>6. at = IndexOf(1, 0, 0)
    BY <1>2 DEF WalkInit, IndexOf
  <1> QED
    BY <1>1, <1>5, <1>6, Zenon DEF WalkInv, WrongAt, WalkInit, d

\* What a check made at the last root finds.
LEMMA RoundChallenges ==
  ASSUME Pair, WrongAt(at)
  PROVE  /\ Proves(Found, claim, perRound, at)
         /\ \E root, level, offset, r, o :
                /\ Wrong(truth, claim, CeilLog2(Len(truth)), perRound, root, level, offset)
                /\ Challenges(Found, truth, claim, CeilLog2(Len(truth)), perRound,
                              root, level, offset, r, o)
  <1> DEFINE d == CeilLog2(Len(truth))
  <1>1. PICK root, level, offset :
            /\ Wrong(truth, claim, d, perRound, root, level, offset)
            /\ at = IndexOf(root, level, offset)
    BY DEF WrongAt
  <1>2. /\ Sized(truth) /\ Sized(claim) /\ Len(claim) = Len(truth) /\ perRound \in Nat \ {0}
        /\ d = CeilLog2(Len(truth))
    BY DEF Pair
  <1>3. Found = CheckForChallengeableArtifacts(TreeOf(truth, at, perRound), at,
                    generatePollard(TreeOf(claim, at, perRound), at))
    BY DEF Found, Pollard
  <1> HIDE DEF d
  <1>4. /\ Proves(Found, claim, perRound, at)
        /\ \E r, o : Challenges(Found, truth, claim, d, perRound, root, level, offset, r, o)
    BY <1>1, <1>2, <1>3, CheckChallenges
  <1> QED
    BY <1>1, <1>4, Zenon DEF d

(* Where a challenge is: at a leaf of a node tree, at a leaf of the        *)
(* network tree, or at another place from which a round can start.         *)
LEMMA ChallengeIsWrong ==
  ASSUME Pair, NEW found, NEW d, d = CeilLog2(Len(truth)),
         NEW root, NEW level, NEW offset, NEW r, NEW o,
         Wrong(truth, claim, d, perRound, root, level, offset),
         Challenges(found, truth, claim, d, perRound, root, level, offset, r, o)
  PROVE  /\ AtTheBottom(found.index) <=> root # 1 /\ level + r = d
         /\ ~AtTheBottom(found.index) => WrongAt(found.index)
  <1> DEFINE F == 2^d
             l == level + r
             p == 2^l
  <1>1. d \in Nat /\ F \in Nat /\ F >= 2 /\ FirstLeaf(truth) = F
    BY SizedDepth DEF Pair
  <1>2. /\ root \in {1} \cup F..2 * F - 1 /\ level \in 0..d /\ level < d
        /\ Aligned(perRound, root, level)
    BY DEF Wrong, Place
  <1>3. /\ r \in 1..perRound /\ l <= d /\ (l = d \/ r = perRound)
        /\ o \in 0..p - 1 /\ found.index = IndexOf(root, l, o)
        /\ NodesAt(truth, root)[p + o] # NodesAt(claim, root)[p + o]
    BY DEF Challenges
  <1>4. perRound \in Nat \ {0} /\ Sized(truth) /\ Sized(claim) /\ Len(claim) = Len(truth)
    BY DEF Pair
  <1>5. l \in 0..d
    BY <1>1, <1>2, <1>3, <1>4
  <1>6. p \in Nat \ {0}
    BY <1>1, <1>5, Powers2
  <1>7. found.index = root * p + o
    BY <1>3 DEF IndexOf
  <1> HIDE DEF l
  <1>8. CASE l < d
    <2>1. 2 * p <= F
      BY <1>1, <1>5, <1>8, PowerMonotone
    <2> HIDE DEF F, p
    <2>2. root \in Nat /\ root + 1 <= 2 * F
      BY <1>1, <1>2
    <2>3. root * p + o < F * F
      <3>1. (root + 1) * p <= (2 * F) * p
        <4>1. \A a, b \in Nat : a <= b => a * p <= b * p
          BY <1>6
        <4> QED
          BY <1>1, <2>2, <4>1
      <3>2. (2 * F) * p = F * (2 * p)
        BY <1>1, <1>6
      <3>3. F * (2 * p) <= F * F
        <4>1. \A a, b \in Nat : a <= b => F * a <= F * b
          BY <1>1
        <4> QED
          BY <1>1, <1>6, <2>1, <4>1
      <3>4. (root + 1) * p = root * p + p /\ root * p \in Nat
        BY <1>6, <2>2
      <3>5. F * F \in Nat /\ (2 * F) * p \in Nat
        BY <1>1, <1>6
      <3> QED
        BY <1>3, <1>6, <3>1, <3>2, <3>3, <3>4, <3>5
    <2>4. ~AtTheBottom(found.index)
      <3>1. root * p + o \in Nat /\ F * F \in Nat
        BY <1>1, <1>3, <1>6, <2>2
      <3> QED
        BY <1>1, <1>7, <2>3, <3>1 DEF AtTheBottom
    <2>5. Aligned(perRound, root, l)
      BY <1>2, <1>3, <1>4, <1>8 DEF Aligned, l
    <2>6. Place(d, root, l, o)
      BY <1>2, <1>3, <1>5, <1>8 DEF Place, F, p
    <2>7. Wrong(truth, claim, d, perRound, root, l, o)
      BY <1>3, <1>8, <2>5, <2>6 DEF Wrong, p
    <2>8. WrongAt(found.index)
      BY <1>3, <2>7, Zenon DEF WrongAt
    <2>9. l # d
      BY <1>1, <1>5, <1>8
    <2> QED
      BY <2>4, <2>8, <2>9 DEF l
  <1>9. CASE l = d /\ root = 1
    <2>1. p = F
      BY <1>9
    <2> HIDE DEF p, F
    <2>2. found.index = F + o /\ o \in 0..F - 1
      BY <1>1, <1>3, <1>7, <1>9, <2>1
    <2>3. ~AtTheBottom(found.index)
      <3>1. \A a \in Nat : a >= 2 => a * a >= 2 * a /\ a * a \in Nat
        OBVIOUS
      <3>2. F * F >= 2 * F /\ F * F \in Nat
        BY <1>1, <3>1
      <3> QED
        BY <1>1, <2>2, <3>2 DEF AtTheBottom
    <2>4. NodesAt(truth, F + o)[1] # NodesAt(claim, F + o)[1]
      BY <1>3, <1>4, <1>9, <2>1, <2>2, DifferenceCrosses DEF F
    <2>5. F + o \in F..2 * F - 1 /\ F + o # 1 /\ F + o \in Nat
      BY <1>1, <2>2
    <2>6. 2^0 = 1 /\ 2^0 + 0 = 1
      BY Powers2
    <2>7. Place(d, F + o, 0, 0)
      BY <1>1, <2>5, <2>6 DEF Place, F
    <2>8. Wrong(truth, claim, d, perRound, F + o, 0, 0)
      BY <1>1, <1>2, <2>4, <2>5, <2>6, <2>7 DEF Wrong, Aligned
    <2>9. found.index = IndexOf(F + o, 0, 0)
      BY <2>2, <2>5, <2>6 DEF IndexOf
    <2>10. WrongAt(found.index)
      BY <2>8, <2>9, Zenon DEF WrongAt
    <2> QED
      BY <1>9, <2>3, <2>10 DEF l
  <1>10. CASE l = d /\ root # 1
    <2>1. p = F
      BY <1>10
    <2> HIDE DEF p, F
    <2>2. root \in Nat /\ root >= F
      BY <1>1, <1>2, <1>10
    <2>3. \A a, b \in Nat : a >= b => a * b >= b * b /\ a * b \in Nat /\ b * b \in Nat
      OBVIOUS
    <2>4. root * F >= F * F /\ root * F \in Nat /\ F * F \in Nat
      BY <1>1, <2>2, <2>3
    <2>5. AtTheBottom(found.index)
      BY <1>1, <1>3, <1>7, <2>1, <2>4 DEF AtTheBottom
    <2> QED
      BY <1>10, <2>5 DEF l
  <1>11. l < d \/ l = d
    BY <1>1, <1>5
  <1> QED
    BY <1>8, <1>9, <1>10, <1>11

\* An answered challenge is the next place where the snapshots differ.
LEMMA WalkNextInv == WalkInv /\ [WalkNext]_walkVars => WalkInv'
  <1> SUFFICES ASSUME WalkInv, [WalkNext]_walkVars
               PROVE  WalkInv'
    OBVIOUS
  <1>1. Pair /\ WrongAt(at) /\ (accused = Unchecked \/ accused = Found)
    BY DEF WalkInv
  <1>2. ASSUME UNCHANGED <<truth, claim, perRound>>
        PROVE  Pair'
    BY <1>1, <1>2 DEF Pair
  <1>3. ASSUME Check
        PROVE  WalkInv'
    <2>1. UNCHANGED <<truth, claim, perRound, at>> /\ accused' = Found
      BY <1>3 DEF Check, Found
    <2>2. (WrongAt(at))' /\ Found' = Found
      BY <1>1, <2>1 DEF WrongAt, Found, Pollard
    <2> QED
      BY <1>2, <2>1, <2>2 DEF WalkInv
  <1>4. ASSUME Respond
        PROVE  WalkInv'
    <2>1. /\ accused.index > 0 /\ ~AtTheBottom(accused.index) /\ at' = accused.index
          /\ accused' = Unchecked /\ UNCHANGED <<truth, claim, perRound>>
      BY <1>4 DEF Respond
    <2>2. accused = Found
      BY <1>1, <2>1 DEF Unchecked
    <2>3. WrongAt(accused.index)
      BY <1>1, <2>1, <2>2, RoundChallenges, ChallengeIsWrong
    <2>4. (WrongAt(at))'
      BY <2>1, <2>3 DEF WrongAt
    <2> QED
      BY <1>2, <2>1, <2>4 DEF WalkInv
  <1>5. ASSUME UNCHANGED walkVars
        PROVE  WalkInv'
    <2>1. UNCHANGED <<truth, claim, perRound, at, accused>>
      BY <1>5 DEF walkVars
    <2> QED
      BY <1>1, <1>2, <2>1 DEF WalkInv, WrongAt, Found, Pollard, Unchecked
  <1> QED
    BY <1>3, <1>4, <1>5 DEF WalkNext, Defeated

(* getChallengeOrDefeatForProposal goes on only from roots below which the *)
(* snapshots of the verifier and of the proposer differ.                   *)
THEOREM WalkInvariant == WalkSpec => []WalkInv
  BY WalkInitInv, WalkNextInv, PTL DEF WalkSpec

(* Every round finds a challenge below the last root, and the proof that   *)
(* generateMerkleProof makes for it folds to the root of the proposer's    *)
(* pollard, with snapshots of every size and every number of levels per    *)
(* round, also across the boundary between the network tree and a node     *)
(* tree.                                                                   *)
THEOREM EveryRoundIsProvableHolds == WalkSpec => []EveryRoundIsProvable
  <1>1. WalkInv => EveryRoundIsProvable
    <2> SUFFICES ASSUME WalkInv, accused # Unchecked
                 PROVE  EveryRoundIsProvable
      BY DEF EveryRoundIsProvable
    <2>1. Pair /\ WrongAt(at) /\ accused = Found
      BY DEF WalkInv
    <2>2. Proves(accused, claim, perRound, at)
      BY <2>1, RoundChallenges
    <2> QED
      BY <2>2, Zenon DEF Proves, EveryRoundIsProvable, Pollard
  <1> QED
    BY <1>1, WalkInvariant, PTL

(* A walk that getChallengeOrDefeatForProposal takes to the bottom ends at *)
(* a node whose power or delegate the proposer did get wrong.              *)
THEOREM TrueAccusationHolds == WalkSpec => []TrueAccusation
  <1>1. WalkInv => TrueAccusation
    <2> SUFFICES ASSUME WalkInv, accused.index > 0, AtTheBottom(accused.index)
                 PROVE  TrueAccusation
      BY DEF TrueAccusation
    <2> DEFINE d == CeilLog2(Len(truth))
               F == 2^d
    <2>1. Pair /\ WrongAt(at) /\ accused = Found
      BY DEF WalkInv, Unchecked
    <2>2. PICK root, level, offset, r, o :
              /\ Wrong(truth, claim, d, perRound, root, level, offset)
              /\ Challenges(accused, truth, claim, d, perRound, root, level, offset, r, o)
      BY <2>1, RoundChallenges, Zenon
    <2>3. root # 1 /\ level + r = d
      BY <2>1, <2>2, ChallengeIsWrong
    <2>4. /\ d \in Nat /\ F \in Nat /\ F >= 2 /\ FirstLeaf(truth) = F
          /\ Sized(truth) /\ Sized(claim) /\ Len(claim) = Len(truth)
      BY <2>1, SizedDepth DEF Pair
    <2>5. /\ o \in 0..F - 1 /\ accused.index = root * F + o
          /\ accused.node = NodesAt(claim, root)[F + o]
          /\ accused.node # NodesAt(truth, root)[F + o]
      BY <2>2, <2>3, Zenon DEF Challenges, IndexOf
    <2>6. root \in F..2 * F - 1
      BY <2>2, <2>3 DEF Wrong, Place
    <2> DEFINE Given(s) == IF o + 1 <= Len(s) /\ s[o + 1].delegate = root - F + 1
                           THEN s[o + 1].power ELSE 0
    <2>7. ASSUME NEW s, Sized(s), Len(s) = Len(truth)
          PROVE  NodesAt(s, root)[F + o] = LeafNode(Given(s))
      <3>1. NodesAt(s, root) = CreateNodeVotingTree(s, root - F, root, 1).nodes
        BY <2>3, <2>4, <2>7 DEF NodesAt, FirstLeaf
      <3>2. CreateNodeVotingTree(s, root - F, root, 1).nodes[F + o] =
                IF o < Len(s)
                THEN LeafNode(IF s[o + 1].delegate = (root - F) + 1 THEN s[o + 1].power ELSE 0)
                ELSE LeafNode(0)
        BY <2>5, <2>7, NodeTreeIs
      <3>3. o < Len(s) <=> o + 1 <= Len(s)
        <4>1. o \in 0..F - 1 /\ F \in Nat /\ Len(s) \in Nat
          BY <2>4, <2>5, <2>7 DEF Sized, Snapshot
        <4>2. o \in Nat
          <5> HIDE DEF F
          <5> QED
            BY <4>1
        <4> QED
          BY <4>1, <4>2
      <3> HIDE DEF F
      <3> QED
        BY <3>1, <3>2, <3>3
    <2> HIDE DEF F, d
    <2>8. accused.index \div F = root /\ accused.index % F = o
      <3>1. root \in Nat /\ F \in Nat \ {0} /\ o \in 0..F - 1
        BY <2>4, <2>5, <2>6
      <3>2. (root * F + o) \div F = root /\ (root * F + o) % F = o
        BY <3>1, Quotient
      <3> QED
        BY <2>5, <3>2
    <2>9. Given(truth) # Given(claim) /\ accused.node = LeafNode(Given(claim))
      BY <2>4, <2>5, <2>7
    <2> QED
      BY <2>4, <2>8, <2>9 DEF TrueAccusation
  <1> QED
    BY <1>1, WalkInvariant, PTL
=============================================================================
