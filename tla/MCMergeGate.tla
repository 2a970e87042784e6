---------------------------- MODULE MCMergeGate ----------------------------
(* The base starts with task 1 in each state a task can be in, ids spaced  *)
(* so that a lagging clock's record can sort between them.  It was opened  *)
(* by a release whose openings pinned no contract.                         *)
EXTENDS MergeGate, TLC

Rec(t, id, type) ==
  [task |-> t, id |-> id, type |-> type, contract |-> NoContract]

OpenTask == {Rec(1, 0, "opened")}
DoneTask == OpenTask \cup {Rec(1, 2, "completed")}
AbandonedTask == OpenTask \cup {Rec(1, 2, "abandoned")}
ReopenedTask == OpenTask \cup {Rec(1, 1, "completed"), Rec(1, 2, "reopened")}
MCLanded == {OpenTask, DoneTask, AbandonedTask, ReopenedTask}

\* Candidates are interchangeable, and so are the texts of contracts.
Symmetry == Permutations(Candidates) \cup Permutations(Contracts)

\* Once a stale verdict has merged, the contracts of what else is opened are
\* all there is to ask about.
OnlyOpenings ==
  \A c \in Candidates : \A r \in added[c] : r.type = "opened"

NextQuestion == overtaken' => OnlyOpenings'
============================================================================
