----------------------------- MODULE MergeGate -----------------------------
(***************************************************************************)
(* The base branch's journal, the candidate branches that carry records    *)
(* and work towards it, and run_gate's lifecycle checks deciding which of  *)
(* them may merge.  Each candidate has a checkout of its own, so the       *)
(* commands run there see the journal as of the branch, never the base's.  *)
(* The review-bound checks of the regular lane are module ReviewGate's;    *)
(* here they pass, which lets every merge happen they would not stop.      *)
(***************************************************************************)
EXTENDS RecordTypes, FiniteSets

CONSTANTS Tasks,       \* task numbers: 1..n
          Candidates,  \* branches that will ask to merge
          Types,       \* the record types the commands append
          Contracts,   \* the texts a task's contract can have
          Landed,      \* the journals the base may hold to begin with
          MaxId,       \* bound on the record ids
          MaxAdded     \* bound on the records the candidates add between them

\* An opening pins the contract it was made with.  Contracts stay as opened
\* here, and no amendment is appended: module ReviewGate has those.
NoContract == "none"
Record == [task : Nat, id : Int, type : RecordTypes,
           contract : Contracts \cup {NoContract}]

Of(R, t) == {r \in R : r.task = t}
TasksIn(R) == {r.task : r \in R}

\* Every task in R reads.
Reads(R) == \A t \in TasksIn(R) : Projectable(Of(R, t))

ASSUME TasksAssumption == Tasks \subseteq Nat \ {0}
ASSUME TypesAssumption == Types \subseteq RecordTypes \ {"opened", "amendment"}
ASSUME BoundsAssumption == MaxId \in Nat /\ MaxAdded \in Nat
ASSUME LandedAssumption ==
  \A R \in Landed : /\ R \subseteq Record /\ Reads(R)
                    /\ \A r, q \in R : r.id = q.id => r = q

VARIABLES base,     \* the records on the base branch
          fork,     \* fork[c]: the base's records at the merge base of c
          added,    \* added[c]: the records c adds since
          dropped,  \* dropped[c]: the records of the fork c deletes or edits
          work,     \* work[c]: c touches paths outside the journal
          stage,    \* stage[c]: how far c has come
          task,     \* task[c]: the task c passed the gate for
          stale,    \* stale[c]: something merged since c passed
          overtaken \* history: a candidate merged on a stale verdict

branch == <<fork, added, dropped, work>>
vars == <<base, branch, stage, task, stale, overtaken>>

NoTask == 0
Stages == {"none", "working", "passed"}
\* The journal in the candidate's checkout.
Checkout(c) == (fork[c] \ dropped[c]) \cup added[c]

\* Identifiers in use anywhere: no two processes draw the same.
UsedIds == {r.id : r \in base \cup UNION {added[c] : c \in Candidates}}
FreshIds == (0..MaxId) \ UsedIds

----------------------------------------------------------------------------
\* The base holds a journal that reads; no branch exists yet.
Init ==
  /\ base \in Landed
  /\ fork = [c \in Candidates |-> {}]
  /\ added = [c \in Candidates |-> {}]
  /\ dropped = [c \in Candidates |-> {}]
  /\ work = [c \in Candidates |-> FALSE]
  /\ stage = [c \in Candidates |-> "none"]
  /\ task = [c \in Candidates |-> NoTask]
  /\ stale = [c \in Candidates |-> FALSE]
  /\ overtaken = FALSE

\* A branch from the base's tip.
Branch(c) ==
  /\ stage[c] = "none"
  /\ fork' = [fork EXCEPT ![c] = base]
  /\ stage' = [stage EXCEPT ![c] = "working"]
  /\ UNCHANGED <<base, added, dropped, work, task, stale, overtaken>>

\* A branch that carries what another added: stacked work, a cherry-pick.
Stack(c, d) ==
  /\ stage[c] = "none"
  /\ stage[d] # "none"
  /\ added[d] # {}
  /\ fork' = [fork EXCEPT ![c] = fork[d]]
  /\ added' = [added EXCEPT ![c] = added[d]]
  /\ stage' = [stage EXCEPT ![c] = "working"]
  /\ UNCHANGED <<base, dropped, work, task, stale, overtaken>>

\* The verdict on an earlier commit of the branch says nothing of this one.
Ungated(c) ==
  /\ task' = [task EXCEPT ![c] = NoTask]
  /\ stale' = [stale EXCEPT ![c] = FALSE]

\* A new commit on the branch.
Recommitted(c) ==
  /\ stage[c] # "none"
  /\ stage' = [stage EXCEPT ![c] = "working"]
  /\ Ungated(c)

Add(c, r) ==
  /\ Cardinality(UNION {added[d] : d \in Candidates}) < MaxAdded
  /\ added' = [added EXCEPT ![c] = @ \cup {r}]
  /\ Recommitted(c)
  /\ UNCHANGED <<base, fork, dropped, work, overtaken>>

\* A command appends a record to task t in the checkout, which must read and
\* admit it.  Clocks differ between checkouts, so the id may sort anywhere.
Append(c, t, type) ==
  LET journal == Of(Checkout(c), t)
  IN /\ Projectable(journal)
     /\ Admits(StateOf(journal), type)
     /\ \E id \in FreshIds :
          Add(c, [task |-> t, id |-> id, type |-> type, contract |-> NoContract])

\* next_task_id: one more than the greatest number the checkout shows.
IsNextTaskId(c, t) ==
  /\ t - 1 \in TasksIn(Checkout(c)) \cup {0}
  /\ \A u \in TasksIn(Checkout(c)) : u < t

\* The contract follows from the arguments, so another command may render
\* the same one for the same number.
Open(c) ==
  \E t \in Tasks, id \in FreshIds, k \in Contracts :
    /\ IsNextTaskId(c, t)
    /\ Add(c, [task |-> t, id |-> id, type |-> "opened", contract |-> k])

\* A commit of implementation.
Implement(c) ==
  /\ ~work[c]
  /\ work' = [work EXCEPT ![c] = TRUE]
  /\ Recommitted(c)
  /\ UNCHANGED <<base, fork, added, dropped, overtaken>>

\* A commit that deletes or edits a record that was on the base; one shows
\* what more would.
Rewrite(c, r) ==
  /\ dropped[c] = {}
  /\ dropped' = [dropped EXCEPT ![c] = {r}]
  /\ Recommitted(c)
  /\ UNCHANGED <<base, fork, added, work, overtaken>>

\* Mutation: contracts are filed under record ids, so git merges both.
ConflictsOverRecord(c) == \E r \in added[c] : r.type = "opened" /\ r \in base

\* Both sides opened the task since the branch left.  The records have names
\* of their own, but each opening wrote the task's contract.md, and git
\* merges two such files only when they are the same.
Conflicts(c) ==
  \E r \in added[c] : /\ r.type = "opened"
                      /\ r \notin base
                      /\ r.task \in TasksIn(base) \ TasksIn(fork[c])
                      /\ \E o \in Of(base, r.task) :
                           o.type = "opened" /\ o.contract # r.contract

\* The branch takes up the base's tip.
Update(c) ==
  /\ fork[c] # base
  /\ ~Conflicts(c)
  /\ fork' = [fork EXCEPT ![c] = base]
  /\ added' = [added EXCEPT ![c] = @ \ base]
  /\ Recommitted(c)
  /\ UNCHANGED <<base, dropped, work, overtaken>>

----------------------------------------------------------------------------
\* Mutation: one admitted record admits the others.
AddsSomeAdmitted(c, t) ==
  /\ Of(dropped[c], t) = {}
  /\ \E r \in Of(added[c], t) : \A s \in TerminalStates :
       ClosedAs({b \in Of(base, t) : b.type \in ClosingTypes}, s)
         => s \in AdmittedAfterTerminal[r.type]

\* Every change c makes under task t is an added record the task's terminal
\* state at base admits.
AddsOnlyAdmitted(c, t) ==
  /\ Of(dropped[c], t) = {}
  /\ \A r \in Of(added[c], t) : \A s \in TerminalStates :
       ClosedAs({b \in Of(base, t) : b.type \in ClosingTypes}, s)
         => s \in AdmittedAfterTerminal[r.type]

\* The exception for a closed task: the candidate is records of that task,
\* all of them admitted, and nothing else.
AdmittedRecordsOnly(c, t) ==
  /\ added[c] # {}
  /\ ~work[c]
  /\ dropped[c] = {}
  /\ added[c] = Of(added[c], t)
  /\ AddsOnlyAdmitted(c, t)

\* The judged task reads in the checkout, the range is not empty, and work
\* has a contract at the merge base to be judged by.
Judgeable(c, t) ==
  /\ Projectable(Of(Checkout(c), t))
  /\ work[c] \/ added[c] \cup dropped[c] # {}
  /\ work[c] => t \in TasksIn(fork[c])

\* Mutation: closed-ness is read off the merge base.
NotClosedAtFork(c, t) ==
  ClosedByName(Of(fork[c], t)) => AdmittedRecordsOnly(c, t)

NotClosedAtBase(c, t) ==
  ClosedByName(Of(base, t)) => AdmittedRecordsOnly(c, t)

AppendOnly(c) == dropped[c] = {}

NoCollision(c) == added[c] \cap base = {}

\* Mutation: the checkout is projected, not what merging leaves.
CheckoutConsistent(c, t) ==
  \A u \in TasksIn(added[c]) :
     /\ Projectable(Of(Checkout(c), u))
     /\ u # t /\ ClosedByName(Of(base, u)) => AddsOnlyAdmitted(c, u)

\* Every task the candidate adds records to still projects once they join
\* the base's, and one closed at base, the judged one apart, gets admitted
\* records only.
LifecycleConsistent(c, t) ==
  \A u \in TasksIn(added[c]) :
     /\ Projectable(Of(base \cup added[c], u))
     /\ u # t /\ ClosedByName(Of(base, u)) => AddsOnlyAdmitted(c, u)

GatePasses(c, t) ==
  /\ Judgeable(c, t)
  /\ NotClosedAtBase(c, t)
  /\ AppendOnly(c)
  /\ NoCollision(c)
  /\ LifecycleConsistent(c, t)

\* run_gate for task t on the candidate's commit, against the base as it is.
Gate(c, t) ==
  /\ stage[c] = "working"
  /\ GatePasses(c, t)
  /\ stage' = [stage EXCEPT ![c] = "passed"]
  /\ task' = [task EXCEPT ![c] = t]
  /\ UNCHANGED <<base, branch, stale, overtaken>>

\* The provider merges a commit whose gate passed, if git can, and deletes
\* the branch.
Merge(c) ==
  /\ stage[c] = "passed"
  /\ ~Conflicts(c)
  /\ base' = (base \ dropped[c]) \cup added[c]
  /\ fork' = [fork EXCEPT ![c] = {}]
  /\ added' = [added EXCEPT ![c] = {}]
  /\ dropped' = [dropped EXCEPT ![c] = {}]
  /\ work' = [work EXCEPT ![c] = FALSE]
  /\ stage' = [stage EXCEPT ![c] = "none"]
  /\ task' = [task EXCEPT ![c] = NoTask]
  /\ stale' = [d \in Candidates |-> d # c /\ stage[d] = "passed"]
  /\ overtaken' = (overtaken \/ stale[c])

Next ==
  \E c \in Candidates :
    \/ Branch(c)
    \/ \E d \in Candidates \ {c} : Stack(c, d)
    \/ \E t \in Tasks, type \in Types : Append(c, t, type)
    \/ Open(c)
    \/ Implement(c)
    \/ \E r \in fork[c] : Rewrite(c, r)
    \/ Update(c)
    \/ \E t \in Tasks : Gate(c, t)
    \/ Merge(c)

Spec == Init /\ [][Next]_vars

----------------------------------------------------------------------------
\* The state has its types, and a task is judged on the commit that passed.
TypeOK ==
  /\ base \subseteq Record
  /\ fork \in [Candidates -> SUBSET Record]
  /\ added \in [Candidates -> SUBSET Record]
  /\ dropped \in [Candidates -> SUBSET Record]
  /\ work \in [Candidates -> BOOLEAN]
  /\ stage \in [Candidates -> Stages]
  /\ task \in [Candidates -> Tasks \cup {NoTask}]
  /\ stale \in [Candidates -> BOOLEAN]
  /\ overtaken \in BOOLEAN
  /\ \A c \in Candidates : stage[c] = "passed" <=> task[c] # NoTask

(***************************************************************************)
(* Every task on the base reads: as long as each candidate merges on a     *)
(* verdict given for the base it merges into, no sequence of gated merges, *)
(* from branches with any clocks and any history, leaves a journal         *)
(* project_status refuses.                                                 *)
(***************************************************************************)
BaseReads == ~overtaken => Reads(base)

\* The candidates this step merges.
Merging == {c \in Candidates : stage[c] = "passed" /\ stage'[c] = "none"}

(***************************************************************************)
(* No implementation lands on a task the base's own records close, though  *)
(* the gate reads closed-ness off file names and the branch may have       *)
(* started while the task was open.  Verdicts are fresh, as above.         *)
(***************************************************************************)
NoWorkOnClosedTask ==
  [][\A c \in Merging : work[c] /\ ~overtaken'
       => StateOf(Of(base, task[c])) = "open"]_vars

(***************************************************************************)
(* On the base a completed task comes back only by a merge that reopens it *)
(* and otherwise adds measurements, and an abandoned one never does.       *)
(* Verdicts are fresh, as above.                                           *)
(***************************************************************************)
ReopeningTravelsAlone ==
  [][\A t \in TasksIn(base) :
       LET closed == StateOf(Of(base, t))
       IN ~overtaken' /\ closed # "open" /\ StateOf(Of(base, t))' = "open"
            => /\ closed = "done"
               /\ \A r \in Of(base', t) \ base :
                    r.type \in {"reopened", "session", "check"}]_vars

(***************************************************************************)
(* Two checkouts may open the same number, both pass the gate before       *)
(* either merges, and both land if they wrote one contract; two contracts  *)
(* never land for one number, however stale the verdicts.                  *)
(***************************************************************************)
OneContractEach ==
  \A o, p \in base :
    o.type = "opened" /\ p.type = "opened" /\ o.task = p.task
      => o.contract = p.contract
============================================================================
