----------------------- MODULE GateAndOpening_proofs -----------------------
(***************************************************************************)
(* How tasks come about and land, for every value of the constants.  First *)
(* the merge gate (module MergeGate): what gated merges keep of the base   *)
(* branch.  Then open and switch off in one checkout (module OpenTask).    *)
(* The two specifications share no variable; each theorem names its own.   *)
(***************************************************************************)
EXTENDS MergeGate, OpenTask, RecordTypes_proofs

(***************************************************************************)
(* The merge gate, for any number of candidates, tasks and records: what   *)
(* holds as long as each candidate merges on a verdict given for the base  *)
(* it merges into, and what holds even when verdicts are stale.            *)
(***************************************************************************)

\* Every record there is: no two share an identifier.
Everywhere == base \cup UNION {added[c] : c \in Candidates}

(***************************************************************************)
(* The strengthening: a verdict that is not stale is still the verdict the *)
(* gate would give, for neither its branch nor the base has moved.         *)
(***************************************************************************)
VerdictsStand ==
  \A c \in Candidates :
    stage[c] = "passed" /\ ~stale[c] => GatePasses(c, task[c])

GateInv ==
  /\ TypeOK
  /\ UniqueIds(Everywhere)
  /\ VerdictsStand
  /\ Reads(base)

MergesInv == TypeOK /\ UniqueIds(Everywhere) /\ (~overtaken => GateInv)

----------------------------------------------------------------------------
\* A set that only shrinks keeps its identifiers unique.
LEMMA FewerUnique ==
  ASSUME NEW R, UniqueIds(R), NEW Q, Q \subseteq R PROVE UniqueIds(Q)
BY DEF UniqueIds

\* Records are records of the registry.
LEMMA SubsetsAreRecords ==
  ASSUME NEW R, R \subseteq Record PROVE AreRecords(R)
BY DEF Record, AreRecords

\* The records of a task on the base are records with unique identifiers.
LEMMA BaseRecords ==
  ASSUME GateInv, NEW t
  PROVE  AreRecords(Of(base, t)) /\ UniqueIds(Of(base, t))
<1>1. Of(base, t) \subseteq base /\ base \subseteq Everywhere
  BY DEF Of, Everywhere
<1>2. QED
  BY <1>1, FewerUnique, SubsetsAreRecords DEF GateInv, TypeOK

\* A task the base holds nothing of is open; one it holds projects.
LEMMA BaseTaskProjects ==
  ASSUME GateInv, NEW t
  PROVE  ClosedByName(Of(base, t)) <=> StateOf(Of(base, t)) # "open"
<1>1. CASE Of(base, t) = {}
  BY <1>1 DEF ClosedByName, StateOf, ClosedAs
<1>2. CASE Of(base, t) # {}
  <2>1. t \in TasksIn(base)
    BY <1>2 DEF Of, TasksIn
  <2>2. Projectable(Of(base, t))
    BY <2>1 DEF GateInv, Reads
  <2>3. QED
    BY <2>2, BaseRecords, ClosedByNameIsClosed
<1>3. QED
  BY <1>1, <1>2

----------------------------------------------------------------------------
\* Initially the base reads and there is no branch.
LEMMA GateInvInit == Init => GateInv
<1>1. SUFFICES ASSUME Init PROVE GateInv
  OBVIOUS
<1>2. base \subseteq Record /\ Reads(base)
      /\ \A r, q \in base : r.id = q.id => r = q
  BY <1>1, LandedAssumption DEF Init
<1>3. TypeOK
  BY <1>1, <1>2, TasksAssumption DEF Init, TypeOK, Stages, NoTask
<1>4. Everywhere = base
  BY <1>1 DEF Init, Everywhere
<1>5. QED
  BY <1>1, <1>2, <1>3, <1>4
     DEF GateInv, UniqueIds, VerdictsStand, Init

\* A new record has an identifier of its own.
LEMMA AddKeeps ==
  ASSUME TypeOK, UniqueIds(Everywhere), NEW c \in Candidates, NEW r \in Record,
         r.id \in FreshIds, Add(c, r)
  PROVE  TypeOK' /\ UniqueIds(Everywhere)'
<1>1. /\ added' = [added EXCEPT ![c] = @ \cup {r}]
      /\ stage' = [stage EXCEPT ![c] = "working"]
      /\ task' = [task EXCEPT ![c] = NoTask]
      /\ stale' = [stale EXCEPT ![c] = FALSE]
      /\ UNCHANGED <<base, fork, dropped, work, overtaken>>
  BY DEF Add, Recommitted, Ungated
<1>2. TypeOK'
  <2>1. added' \in [Candidates -> SUBSET Record]
    BY <1>1 DEF TypeOK
  <2>2. /\ stage' \in [Candidates -> Stages]
        /\ task' \in [Candidates -> Tasks \cup {NoTask}]
        /\ stale' \in [Candidates -> BOOLEAN]
        /\ overtaken' \in BOOLEAN
    BY <1>1 DEF TypeOK, Stages
  <2>3. \A d \in Candidates : stage'[d] = "passed" <=> task'[d] # NoTask
    BY <1>1 DEF TypeOK
  <2>4. QED
    BY <1>1, <2>1, <2>2, <2>3 DEF TypeOK
<1>3. Everywhere' \subseteq Everywhere \cup {r}
  BY <1>1 DEF Everywhere, TypeOK
<1>4. \A q \in Everywhere : q.id # r.id
  BY DEF FreshIds, UsedIds, Everywhere
<1>5. UniqueIds(Everywhere \cup {r})
  BY <1>4 DEF UniqueIds
<1>6. QED
  BY <1>2, <1>3, <1>5, FewerUnique DEF UniqueIds

\* Every step keeps the types and the identifiers unique.
LEMMA TypeNext ==
  ASSUME TypeOK, UniqueIds(Everywhere), Next
  PROVE  TypeOK' /\ UniqueIds(Everywhere)'
<1>1. ASSUME NEW c \in Candidates, Branch(c)
      PROVE  TypeOK' /\ Everywhere' = Everywhere
  BY <1>1 DEF Branch, TypeOK, Stages, Everywhere
<1>2. ASSUME NEW c \in Candidates, NEW d \in Candidates \ {c}, Stack(c, d)
      PROVE  TypeOK' /\ Everywhere' \subseteq Everywhere
  BY <1>2 DEF Stack, TypeOK, Stages, Everywhere
<1>3. ASSUME NEW c \in Candidates, NEW t \in Tasks, NEW type \in Types,
             Append(c, t, type)
      PROVE  TypeOK' /\ UniqueIds(Everywhere)'
  <2>1. PICK id \in FreshIds :
          Add(c, [task |-> t, id |-> id, type |-> type,
                  contract |-> NoContract])
    BY <1>3 DEF Append
  <2>2. [task |-> t, id |-> id, type |-> type, contract |-> NoContract] \in Record
    BY TasksAssumption, TypesAssumption, BoundsAssumption
       DEF Record, FreshIds
  <2>3. QED
    BY <2>1, <2>2, AddKeeps
<1>4. ASSUME NEW c \in Candidates, Open(c)
      PROVE  TypeOK' /\ UniqueIds(Everywhere)'
  <2>1. PICK t \in Tasks, id \in FreshIds, k \in Contracts :
          Add(c, [task |-> t, id |-> id, type |-> "opened", contract |-> k])
    BY <1>4 DEF Open
  <2>2. [task |-> t, id |-> id, type |-> "opened", contract |-> k] \in Record
    BY TasksAssumption, BoundsAssumption DEF Record, FreshIds, RecordTypes
  <2>3. QED
    BY <2>1, <2>2, AddKeeps
<1>5. ASSUME NEW c \in Candidates, Implement(c)
      PROVE  TypeOK' /\ Everywhere' = Everywhere
  BY <1>5 DEF Implement, Recommitted, Ungated, TypeOK, Stages, Everywhere
<1>6. ASSUME NEW c \in Candidates, NEW r \in fork[c], Rewrite(c, r)
      PROVE  TypeOK' /\ Everywhere' = Everywhere
  BY <1>6 DEF Rewrite, Recommitted, Ungated, TypeOK, Stages, Everywhere
<1>7. ASSUME NEW c \in Candidates, Update(c)
      PROVE  TypeOK' /\ Everywhere' \subseteq Everywhere
  BY <1>7 DEF Update, Recommitted, Ungated, TypeOK, Stages, Everywhere
<1>8. ASSUME NEW c \in Candidates, NEW t \in Tasks, Gate(c, t)
      PROVE  TypeOK' /\ Everywhere' = Everywhere
  BY <1>8, TasksAssumption DEF Gate, branch, TypeOK, Stages, NoTask, Everywhere
<1>9. ASSUME NEW c \in Candidates, Merge(c)
      PROVE  TypeOK' /\ Everywhere' \subseteq Everywhere
  BY <1>9 DEF Merge, TypeOK, Stages, Everywhere
<1>10. QED
  BY <1>1, <1>2, <1>3, <1>4, <1>5, <1>6, <1>7, <1>8, <1>9, FewerUnique DEF Next

----------------------------------------------------------------------------
\* The verdict depends on the base and on the candidate's own branch.
LEMMA SameVerdict ==
  ASSUME NEW c \in Candidates, NEW t, base' = base,
         fork'[c] = fork[c], added'[c] = added[c],
         dropped'[c] = dropped[c], work'[c] = work[c]
  PROVE  GatePasses(c, t)' <=> GatePasses(c, t)
<1>1. Checkout(c)' = Checkout(c)
  BY DEF Checkout
<1>2. \A u : AddsOnlyAdmitted(c, u)' <=> AddsOnlyAdmitted(c, u)
  BY DEF AddsOnlyAdmitted
<1>3. AdmittedRecordsOnly(c, t)' <=> AdmittedRecordsOnly(c, t)
  BY <1>2 DEF AdmittedRecordsOnly
<1>4. Judgeable(c, t)' <=> Judgeable(c, t)
  BY <1>1 DEF Judgeable
<1>5. NotClosedAtBase(c, t)' <=> NotClosedAtBase(c, t)
  BY <1>3 DEF NotClosedAtBase
<1>6. LifecycleConsistent(c, t)' <=> LifecycleConsistent(c, t)
  BY <1>2 DEF LifecycleConsistent
<1>7. QED
  BY <1>4, <1>5, <1>6 DEF GatePasses, AppendOnly, NoCollision

\* A step that works on one branch and judges nothing leaves the verdicts on
\* the others standing.
LEMMA WorkKeepsVerdicts ==
  ASSUME GateInv, NEW c \in Candidates, base' = base,
         stage'[c] # "passed",
         \A d \in Candidates \ {c} :
           /\ fork'[d] = fork[d] /\ added'[d] = added[d]
           /\ dropped'[d] = dropped[d] /\ work'[d] = work[d]
           /\ stage'[d] = stage[d] /\ task'[d] = task[d]
           /\ stale'[d] = stale[d]
  PROVE  VerdictsStand' /\ Reads(base)'
<1>1. ASSUME NEW d \in Candidates, stage'[d] = "passed", ~stale'[d]
      PROVE  GatePasses(d, task[d])' /\ task'[d] = task[d]
  <2>1. d # c /\ GatePasses(d, task[d])
    BY <1>1 DEF GateInv, VerdictsStand
  <2>2. GatePasses(d, task[d])' <=> GatePasses(d, task[d])
    BY <1>1, <2>1, SameVerdict
  <2>3. QED
    BY <2>1, <2>2
<1>2. QED
  BY <1>1 DEF VerdictsStand, GateInv, Reads

\* A passed verdict stands as given.
LEMMA GateKeepsVerdicts ==
  ASSUME GateInv, NEW c \in Candidates, NEW t \in Tasks, Gate(c, t)
  PROVE  VerdictsStand' /\ Reads(base)'
<1>1. /\ GatePasses(c, t) /\ task' = [task EXCEPT ![c] = t]
      /\ stage' = [stage EXCEPT ![c] = "passed"]
      /\ UNCHANGED <<base, fork, added, dropped, work, stale, overtaken>>
      /\ task \in [Candidates -> Tasks \cup {NoTask}]
      /\ stage \in [Candidates -> Stages]
  BY DEF Gate, branch, GateInv, TypeOK
<1>2. ASSUME NEW d \in Candidates, stage'[d] = "passed", ~stale'[d]
      PROVE  GatePasses(d, task[d])'
  <2>1. CASE d = c
    <3>1. task'[d] = t
      BY <1>1, <2>1
    <3>2. GatePasses(d, t)'
      BY <1>1, <2>1, SameVerdict
    <3>3. QED
      BY <3>1, <3>2
  <2>2. CASE d # c
    <3>1. task'[d] = task[d] /\ GatePasses(d, task[d])
      BY <1>1, <1>2, <2>2 DEF GateInv, VerdictsStand
    <3>2. QED
      BY <1>1, <3>1, SameVerdict
  <2>3. QED
    BY <2>1, <2>2
<1>3. QED
  BY <1>1, <1>2 DEF VerdictsStand, GateInv, Reads

\* What a standing verdict says of the base its merge leaves.
LEMMA MergedBase ==
  ASSUME ~overtaken', GateInv, NEW c \in Candidates, Merge(c)
  PROVE  /\ base' = base \cup added[c]
         /\ task[c] \in Tasks
         /\ GatePasses(c, task[c])
         /\ \A t : Of(base', t) = Of(base, t) \cup Of(added[c], t)
<1>1. stage[c] = "passed" /\ ~stale[c] /\ base' = (base \ dropped[c]) \cup added[c]
  BY DEF Merge
<1>2. GatePasses(c, task[c])
  BY <1>1 DEF GateInv, VerdictsStand
<1>3. dropped[c] = {}
  BY <1>2 DEF GatePasses, AppendOnly
<1>4. task[c] \in Tasks
  BY <1>1 DEF GateInv, TypeOK
<1>5. base' = base \cup added[c]
  BY <1>1, <1>3
<1>6. \A t : Of(base', t) = Of(base, t) \cup Of(added[c], t)
  BY <1>5 DEF Of
<1>7. QED
  BY <1>2, <1>4, <1>5, <1>6

\* A merge makes every other verdict stale and leaves tasks that read.
LEMMA MergeKeepsBaseReads ==
  ASSUME ~overtaken', GateInv, NEW c \in Candidates, Merge(c)
  PROVE  VerdictsStand' /\ Reads(base)'
<1>1. VerdictsStand'
  BY DEF Merge, VerdictsStand, GateInv, TypeOK
<1>2. ASSUME NEW t \in TasksIn(base') PROVE Projectable(Of(base', t))
  <2>1. CASE t \in TasksIn(added[c])
    <3>1. Projectable(Of(base \cup added[c], t))
      BY <2>1, MergedBase DEF GatePasses, LifecycleConsistent
    <3>2. QED
      BY <3>1, MergedBase
  <2>2. CASE t \notin TasksIn(added[c])
    <3>1. Of(added[c], t) = {}
      BY <2>2 DEF TasksIn, Of
    <3>2. Of(base', t) = Of(base, t)
      BY <3>1, MergedBase
    <3>3. t \in TasksIn(base)
      BY <1>2, <2>2, MergedBase DEF TasksIn
    <3>4. QED
      BY <3>2, <3>3 DEF GateInv, Reads
  <2>3. QED
    BY <2>1, <2>2
<1>3. QED
  BY <1>1, <1>2 DEF Reads

\* Every step keeps the invariant.
LEMMA GateInvNext == GateInv /\ ~overtaken' /\ [Next]_vars => GateInv'
<1>1. SUFFICES ASSUME GateInv, ~overtaken', [Next]_vars PROVE GateInv'
  OBVIOUS
<1>2. CASE UNCHANGED vars
  <2>1. TypeOK' /\ UniqueIds(Everywhere)' /\ Reads(base)'
    BY <1>1, <1>2 DEF vars, branch, GateInv, TypeOK, UniqueIds, Everywhere,
       Reads
  <2>2. ASSUME NEW d \in Candidates, stage'[d] = "passed", ~stale'[d]
        PROVE  GatePasses(d, task[d])'
    <3>1. GatePasses(d, task[d]) /\ task'[d] = task[d]
      BY <1>1, <1>2, <2>2 DEF vars, branch, GateInv, VerdictsStand
    <3>2. QED
      BY <1>2, <3>1, SameVerdict DEF vars, branch
  <2>3. QED
    BY <2>1, <2>2 DEF GateInv, VerdictsStand
<1>3. CASE Next
  <2>1. TypeOK' /\ UniqueIds(Everywhere)'
    BY <1>1, <1>3, TypeNext DEF GateInv
  <2>2. TypeOK
    BY <1>1 DEF GateInv
  <2>3. ASSUME NEW c \in Candidates, Branch(c)
        PROVE  VerdictsStand' /\ Reads(base)'
    BY <1>1, <2>2, <2>3, WorkKeepsVerdicts DEF Branch, TypeOK
  <2>4. ASSUME NEW c \in Candidates, NEW d \in Candidates \ {c}, Stack(c, d)
        PROVE  VerdictsStand' /\ Reads(base)'
    BY <1>1, <2>2, <2>4, WorkKeepsVerdicts DEF Stack, TypeOK
  <2>5. ASSUME NEW c \in Candidates, NEW r, Add(c, r)
        PROVE  VerdictsStand' /\ Reads(base)'
    BY <1>1, <2>2, <2>5, WorkKeepsVerdicts
       DEF Add, Recommitted, Ungated, TypeOK
  <2>6. ASSUME NEW c \in Candidates, Implement(c)
        PROVE  VerdictsStand' /\ Reads(base)'
    BY <1>1, <2>2, <2>6, WorkKeepsVerdicts
       DEF Implement, Recommitted, Ungated, TypeOK
  <2>7. ASSUME NEW c \in Candidates, NEW r \in fork[c], Rewrite(c, r)
        PROVE  VerdictsStand' /\ Reads(base)'
    BY <1>1, <2>2, <2>7, WorkKeepsVerdicts
       DEF Rewrite, Recommitted, Ungated, TypeOK
  <2>8. ASSUME NEW c \in Candidates, Update(c)
        PROVE  VerdictsStand' /\ Reads(base)'
    BY <1>1, <2>2, <2>8, WorkKeepsVerdicts
       DEF Update, Recommitted, Ungated, TypeOK
  <2>9. VerdictsStand' /\ Reads(base)'
    BY <1>1, <1>3, <2>3, <2>4, <2>5, <2>6, <2>7, <2>8, GateKeepsVerdicts,
       MergeKeepsBaseReads DEF Next, Append, Open
  <2>10. QED
    BY <2>1, <2>9 DEF GateInv
<1>4. QED
  BY <1>1, <1>2, <1>3

\* A stale merge is never taken back.
LEMMA OvertakenStays ==
  ASSUME TypeOK, [Next]_vars PROVE overtaken => overtaken'
<1>1. CASE UNCHANGED vars
  BY <1>1 DEF vars
<1>2. CASE Next
  BY <1>2 DEF Next, Branch, Stack, Append, Open, Add, Implement, Rewrite,
     Update, Gate, Merge
<1>3. QED
  BY <1>1, <1>2

\* Every step keeps the invariant of all merges.
LEMMA MergesInvNext == MergesInv /\ [Next]_vars => MergesInv'
<1>1. SUFFICES ASSUME MergesInv, [Next]_vars PROVE MergesInv'
  OBVIOUS
<1>2. TypeOK' /\ UniqueIds(Everywhere)'
  <2>1. CASE UNCHANGED vars
    BY <1>1, <2>1 DEF MergesInv, vars, branch, TypeOK, UniqueIds, Everywhere
  <2>2. CASE Next
    BY <1>1, <2>2, TypeNext DEF MergesInv
  <2>3. QED
    BY <1>1, <2>1, <2>2
<1>3. ASSUME ~overtaken' PROVE GateInv'
  <2>1. ~overtaken
    BY <1>1, <1>3, OvertakenStays DEF MergesInv
  <2>2. QED
    BY <1>1, <1>3, <2>1, GateInvNext DEF MergesInv
<1>4. QED
  BY <1>2, <1>3 DEF MergesInv

\* The invariant of every behavior.
THEOREM MergesInvHolds == Spec => []MergesInv
<1>1. Init => MergesInv
  BY GateInvInit DEF MergesInv, GateInv
<1>2. QED
  BY <1>1, MergesInvNext, PTL DEF Spec

\* The types hold in every behavior, whatever verdicts go stale.
THEOREM TypeCorrect == Spec => []TypeOK
<1>1. MergesInv => TypeOK
  BY DEF MergesInv
<1>2. QED
  BY <1>1, MergesInvHolds, PTL

(***************************************************************************)
(* As long as each candidate merges on a verdict given for the base it     *)
(* merges into, every task on the base reads.                              *)
(***************************************************************************)
THEOREM SerialisedBaseReads == Spec => []BaseReads
<1>1. MergesInv => BaseReads
  BY DEF MergesInv, GateInv, BaseReads
<1>2. QED
  BY <1>1, MergesInvHolds, PTL

----------------------------------------------------------------------------
\* A candidate leaves the "passed" stage for "none" by its own merge only.
LEMMA MergingIsMerge ==
  ASSUME TypeOK, [Next]_vars, NEW c \in Merging
  PROVE  Merge(c)
<1>1. c \in Candidates /\ stage[c] = "passed" /\ stage'[c] = "none"
  BY DEF Merging
<1>2. ~UNCHANGED vars
  BY <1>1 DEF vars
<1>3. PICK d \in Candidates :
        \/ Branch(d)
        \/ \E e \in Candidates \ {d} : Stack(d, e)
        \/ \E t \in Tasks, type \in Types : Append(d, t, type)
        \/ Open(d)
        \/ Implement(d)
        \/ \E r \in fork[d] : Rewrite(d, r)
        \/ Update(d)
        \/ \E t \in Tasks : Gate(d, t)
        \/ Merge(d)
  BY <1>2 DEF Next
<1>4. ASSUME stage' = [stage EXCEPT ![d] = "working"] PROVE FALSE
  BY <1>1, <1>4 DEF TypeOK
<1>5. ASSUME stage' = [stage EXCEPT ![d] = "passed"] PROVE FALSE
  BY <1>1, <1>5 DEF TypeOK
<1>6. Merge(d)
  BY <1>3, <1>4, <1>5
     DEF Branch, Stack, Append, Open, Add, Implement, Rewrite, Update,
         Recommitted, Gate
<1>7. d = c
  BY <1>1, <1>6 DEF Merge, TypeOK
<1>8. QED
  BY <1>6, <1>7

(***************************************************************************)
(* Whatever the branch saw when it started, work merges onto open tasks    *)
(* only: the file names the gate reads say what the records say.           *)
(***************************************************************************)
THEOREM SerialisedNoWorkOnClosedTask == Spec => NoWorkOnClosedTask
<1>1. ASSUME MergesInv, [Next]_vars, NEW c \in Merging, work[c], ~overtaken'
      PROVE  StateOf(Of(base, task[c])) = "open"
  <2>0. GateInv
    BY <1>1, OvertakenStays DEF MergesInv
  <2>1. c \in Candidates /\ Merge(c)
    BY <1>1, <2>0, MergingIsMerge DEF GateInv, Merging
  <2>2. NotClosedAtBase(c, task[c])
    BY <1>1, <2>0, <2>1, MergedBase DEF GatePasses
  <2>3. ~ClosedByName(Of(base, task[c]))
    BY <1>1, <2>2 DEF NotClosedAtBase, AdmittedRecordsOnly
  <2>4. QED
    BY <2>0, <2>3, BaseTaskProjects
<1>2. MergesInv /\ [Next]_vars
        => [\A c \in Merging : work[c] /\ ~overtaken'
              => StateOf(Of(base, task[c])) = "open"]_vars
  BY <1>1
<1>3. QED
  BY <1>2, MergesInvHolds, PTL DEF Spec, NoWorkOnClosedTask

----------------------------------------------------------------------------
\* The types admitted after completion, and after abandonment.
LEMMA AdmittedTypes ==
  ASSUME NEW t \in RecordTypes
  PROVE  /\ "done" \in AdmittedAfterTerminal[t]
              => t \in {"reopened", "session", "check"}
         /\ "abandoned" \in AdmittedAfterTerminal[t] => t \notin LifecycleTypes
<1>1. "done" \in AdmittedAfterTerminal[t]
        => t \in {"reopened", "session", "check"}
  BY DEF AdmittedAfterTerminal
<1>2. QED
  BY <1>1, AbandonedAdmitsNoLifecycle

\* A merge adds to a closed task nothing but what its state admits, whichever
\* task the gate judged.
LEMMA MergeAddsAdmitted ==
  ASSUME ~overtaken', GateInv, NEW c \in Candidates, Merge(c), NEW t,
         NEW s \in TerminalStates, ClosedAs(Of(base, t), s),
         NEW r \in Of(base', t), r \notin base
  PROVE  s \in AdmittedAfterTerminal[r.type]
<1>1. r \in Of(added[c], t)
  BY MergedBase DEF Of
<1>2. t \in TasksIn(added[c])
  BY <1>1 DEF TasksIn, Of
<1>3. StateOf(Of(base, t)) = s /\ s # "open"
  BY BaseRecords, StateOfIsClosedAs, Tables
<1>4. ClosedByName(Of(base, t))
  BY <1>3, BaseTaskProjects
<1>5. AddsOnlyAdmitted(c, t)
  <2>1. CASE t = task[c]
    BY <1>4, <2>1, MergedBase
       DEF GatePasses, NotClosedAtBase, AdmittedRecordsOnly
  <2>2. CASE t # task[c]
    BY <1>2, <1>4, <2>2, MergedBase DEF GatePasses, LifecycleConsistent
  <2>3. QED
    BY <2>1, <2>2
<1>6. ClosedAs({b \in Of(base, t) : b.type \in ClosingTypes}, s)
  <2>1. PICK b \in Of(base, t) :
          /\ ProjectsTo[b.type] = s
          /\ \A q \in Of(base, t) : q.type \in LifecycleTypes => q.id <= b.id
    BY DEF ClosedAs
  <2>2. b.type \in ClosingTypes
    BY <2>1, BaseRecords, Tables DEF AreRecords, TerminalTypes
  <2>3. QED
    BY <2>1, <2>2, Tables DEF ClosedAs
<1>7. QED
  BY <1>1, <1>5, <1>6 DEF AddsOnlyAdmitted

(***************************************************************************)
(* Merges reopen completed tasks with a reopening and measurements, and no *)
(* merge brings back an abandoned one.                                     *)
(***************************************************************************)
THEOREM SerialisedReopeningTravelsAlone == Spec => ReopeningTravelsAlone
<1> DEFINE Closed(t) == StateOf(Of(base, t))
<1>1. ASSUME GateInv, GateInv', ~overtaken', [Next]_vars,
             NEW t \in TasksIn(base), Closed(t) # "open",
             StateOf(Of(base', t)) = "open"
      PROVE  /\ Closed(t) = "done"
             /\ \A r \in Of(base', t) \ base :
                  r.type \in {"reopened", "session", "check"}
  <2>1. PICK c \in Candidates : Merge(c)
    <3>1. base' # base
      BY <1>1
    <3>2. QED
      BY <1>1, <3>1
         DEF Next, vars, branch, Branch, Stack, Append, Open, Add, Implement,
             Rewrite, Update, Gate
  <2>2. PICK s \in TerminalStates : ClosedAs(Of(base, t), s)
    BY <1>1, BaseRecords, StateOfIsClosedAs
  <2>3. Closed(t) = s
    BY <1>1, <2>2, BaseRecords, StateOfIsClosedAs
  <2>4. \A r \in Of(base', t) \ base :
          r.type \in RecordTypes /\ s \in AdmittedAfterTerminal[r.type]
    <3>1. \A r \in Of(base', t) : r.type \in RecordTypes
      BY <1>1 DEF GateInv, TypeOK, Record, Of
    <3>2. QED
      BY <1>1, <2>1, <2>2, <3>1, MergeAddsAdmitted
  <2>5. s # "abandoned"
    <3>1. SUFFICES ASSUME s = "abandoned" PROVE FALSE
      OBVIOUS
    <3>2. Of(base, t) \subseteq Of(base', t)
      BY <1>1, <2>1, MergedBase
    <3>3. \A q \in Of(base', t) : q.type \in LifecycleTypes => q \in Of(base, t)
      BY <2>4, <3>1, AdmittedTypes DEF Of
    <3>4. ClosedAs(Of(base', t), s)
      BY <2>2, <3>2, <3>3 DEF ClosedAs
    <3>5. AreRecords(Of(base', t)) /\ UniqueIds(Of(base', t))
      <4>1. Of(base', t) \subseteq base' /\ base' \subseteq Everywhere'
        BY DEF Of, Everywhere
      <4>2. base' \subseteq Record /\ UniqueIds(Everywhere')
        BY <1>1 DEF GateInv, TypeOK
      <4>3. QED
        BY <4>1, <4>2, FewerUnique, SubsetsAreRecords
    <3>6. QED
      BY <1>1, <3>4, <3>5, StateOfIsClosedAs, Tables
  <2>6. s = "done"
    BY <2>5, Tables
  <2>7. QED
    BY <2>3, <2>4, <2>6, AdmittedTypes
<1>2. MergesInv /\ MergesInv' /\ [Next]_vars
        => [\A t \in TasksIn(base) :
              LET closed == StateOf(Of(base, t))
              IN ~overtaken' /\ closed # "open" /\ StateOf(Of(base, t))' = "open"
                   => /\ closed = "done"
                      /\ \A r \in Of(base', t) \ base :
                           r.type \in {"reopened", "session", "check"}]_vars
  <2>1. \A t : StateOf(Of(base, t))' = StateOf(Of(base', t))
    BY DEF Of, StateOf, ClosedAs
  <2>2. MergesInv /\ MergesInv' /\ [Next]_vars /\ ~overtaken'
          => GateInv /\ GateInv'
    BY OvertakenStays DEF MergesInv
  <2>3. QED
    BY <1>1, <2>1, <2>2
<1>3. QED
  BY <1>2, MergesInvHolds, PTL DEF Spec, ReopeningTravelsAlone

----------------------------------------------------------------------------
\* The records that open a task.
Opened(R) == {r \in R : r.type = "opened"}

\* Each record's task was opened, and each task under one contract.
WellOpened(R) ==
  /\ \A r \in R : \E o \in Opened(R) : o.task = r.task
  /\ \A o, p \in Opened(R) : o.task = p.task => o.contract = p.contract

(***************************************************************************)
(* What a verdict says of the openings a branch carries, and goes on       *)
(* saying when it is stale, for the base only grows: every task the branch *)
(* adds to is opened by the time it lands, no task twice by the branch,    *)
(* and none that was on the base when it forked.                           *)
(***************************************************************************)
OpensOnce(c) ==
  /\ dropped[c] = {}
  /\ \A o, p \in Opened(added[c]) : o.task = p.task => o = p
  /\ \A t \in TasksIn(added[c]) :
       \E o \in Opened(base \cup added[c]) : o.task = t
  /\ \A o \in Opened(added[c]) : o.task \notin TasksIn(fork[c])

OpenedInv ==
  /\ TypeOK
  /\ UniqueIds(Everywhere)
  /\ WellOpened(base)
  /\ \A c \in Candidates : fork[c] \subseteq base
  /\ \A c \in Candidates : stage[c] = "passed" => OpensOnce(c)

\* A base that reads opens each of its tasks under one contract.
LEMMA ReadingIsWellOpened ==
  ASSUME NEW R, Reads(R) PROVE WellOpened(R)
<1>1. \A t \in TasksIn(R) : OpenedOnce(Of(R, t))
  BY DEF Reads, Projectable
<1>2. \A r \in R : \E o \in Opened(R) : o.task = r.task
  BY <1>1 DEF TasksIn, Of, OpenedOnce, Opened
<1>3. \A o, p \in Opened(R) : o.task = p.task => o = p
  BY <1>1 DEF TasksIn, Of, OpenedOnce, Opened
<1>4. QED
  BY <1>2, <1>3 DEF WellOpened

\* A passing verdict sees a branch that opens what it needs and no more.
LEMMA GateSeesOpenings ==
  ASSUME OpenedInv, NEW c \in Candidates, NEW t, GatePasses(c, t)
  PROVE  OpensOnce(c)
<1>1. /\ dropped[c] = {} /\ added[c] \cap base = {}
      /\ \A u \in TasksIn(added[c]) : OpenedOnce(Of(base \cup added[c], u))
  BY DEF GatePasses, AppendOnly, NoCollision, LifecycleConsistent, Projectable
<1>2. \A o \in Opened(added[c]) : o.task \in TasksIn(added[c])
  BY DEF Opened, TasksIn
<1>3. \A o, p \in Opened(base \cup added[c]) :
        o.task = p.task /\ o \in added[c] => o = p
  BY <1>1 DEF OpenedOnce, Opened, Of, TasksIn
<1>4. \A u \in TasksIn(added[c]) :
        \E o \in Opened(base \cup added[c]) : o.task = u
  BY <1>1 DEF OpenedOnce, Opened, Of
<1>5. ASSUME NEW o \in Opened(added[c]), o.task \in TasksIn(fork[c])
      PROVE  FALSE
  <2>1. PICK r \in base : r.task = o.task
    BY <1>5 DEF OpenedInv, TasksIn
  <2>2. PICK q \in Opened(base) : q.task = o.task
    BY <2>1 DEF OpenedInv, WellOpened
  <2>3. o = q
    BY <1>3, <1>5, <2>2 DEF Opened
  <2>4. QED
    BY <1>1, <1>5, <2>2, <2>3 DEF Opened
<1>6. QED
  BY <1>1, <1>3, <1>4, <1>5 DEF OpensOnce, Opened

\* A second opening of a number merges only with the contract it has.
LEMMA MergeOpensOnce ==
  ASSUME OpenedInv, NEW c \in Candidates, Merge(c)
  PROVE  /\ base' = base \cup added[c]
         /\ WellOpened(base')
<1>1. OpensOnce(c) /\ ~Conflicts(c)
  BY DEF Merge, OpenedInv
<1>2. base' = base \cup added[c]
  BY <1>1 DEF Merge, OpensOnce
<1>3. /\ \A r \in base : \E o \in Opened(base) : o.task = r.task
      /\ \A o, p \in Opened(base) : o.task = p.task => o.contract = p.contract
  BY DEF OpenedInv, WellOpened
<1>4. \A r \in base' : \E o \in Opened(base') : o.task = r.task
  BY <1>1, <1>2, <1>3 DEF OpensOnce, Opened, TasksIn
<1>5. ASSUME NEW o \in Opened(base), NEW p \in Opened(added[c]),
             o.task = p.task
      PROVE  o.contract = p.contract
  <2>1. p.task \in TasksIn(base) \ TasksIn(fork[c])
    BY <1>1, <1>5 DEF OpensOnce, Opened, TasksIn
  <2>2. CASE p \in base
    BY <1>3, <1>5, <2>2 DEF Opened
  <2>3. CASE p \notin base
    <3>1. o \in Of(base, p.task)
      BY <1>5 DEF Opened, Of
    <3>2. QED
      BY <1>1, <1>5, <2>1, <2>3, <3>1 DEF Conflicts, Opened
  <2>4. QED
    BY <2>2, <2>3
<1>6. \A o, p \in Opened(base') : o.task = p.task => o.contract = p.contract
  <2>1. ASSUME NEW o \in Opened(base'), NEW p \in Opened(base'),
               o.task = p.task
        PROVE  o.contract = p.contract
    <3>1. /\ o \in Opened(base) \/ o \in Opened(added[c])
          /\ p \in Opened(base) \/ p \in Opened(added[c])
      BY <1>2, <2>1 DEF Opened
    <3>2. QED
      BY <1>1, <1>3, <1>5, <2>1, <3>1 DEF OpensOnce
  <2>2. QED
    BY <2>1
<1>7. QED
  BY <1>2, <1>4, <1>6 DEF WellOpened

\* A step on one branch that judges nothing says nothing new of openings.
LEMMA WorkKeepsOpenings ==
  ASSUME OpenedInv, NEW c \in Candidates, base' = base,
         fork'[c] \subseteq base, stage'[c] # "passed",
         \A d \in Candidates \ {c} :
           /\ fork'[d] = fork[d] /\ added'[d] = added[d]
           /\ dropped'[d] = dropped[d] /\ stage'[d] = stage[d]
  PROVE  /\ WellOpened(base')
         /\ \A d \in Candidates : fork'[d] \subseteq base'
         /\ \A d \in Candidates : stage'[d] = "passed" => OpensOnce(d)'
<1>1. WellOpened(base')
  BY DEF OpenedInv
<1>2. \A d \in Candidates : fork'[d] \subseteq base'
  BY DEF OpenedInv
<1>3. ASSUME NEW d \in Candidates, stage'[d] = "passed"
      PROVE  OpensOnce(d)'
  BY <1>3 DEF OpenedInv, OpensOnce, Opened, TasksIn
<1>4. QED
  BY <1>1, <1>2, <1>3

\* A merge clears its own branch; to the others the base has grown.
LEMMA MergeKeepsOpenings ==
  ASSUME OpenedInv, NEW c \in Candidates, Merge(c)
  PROVE  /\ \A d \in Candidates : fork'[d] \subseteq base'
         /\ \A d \in Candidates : stage'[d] = "passed" => OpensOnce(d)'
<1>1. /\ base \subseteq base'
      /\ \A d \in Candidates \ {c} :
           /\ fork'[d] = fork[d] /\ added'[d] = added[d]
           /\ dropped'[d] = dropped[d] /\ stage'[d] = stage[d]
      /\ fork'[c] = {} /\ stage'[c] = "none"
  BY MergeOpensOnce DEF Merge, OpenedInv, TypeOK
<1>2. \A d \in Candidates : fork'[d] \subseteq base'
  BY <1>1 DEF OpenedInv
<1>3. ASSUME NEW d \in Candidates, stage'[d] = "passed"
      PROVE  OpensOnce(d)'
  <2>1. d # c /\ OpensOnce(d)
    BY <1>1, <1>3 DEF OpenedInv
  <2>2. Opened(base \cup added[d]) \subseteq Opened(base' \cup added[d])
    BY <1>1 DEF Opened
  <2>3. QED
    BY <1>1, <2>1, <2>2 DEF OpensOnce, Opened, TasksIn
<1>4. QED
  BY <1>2, <1>3

LEMMA OpenedInvNext == OpenedInv /\ [Next]_vars => OpenedInv'
<1> SUFFICES ASSUME OpenedInv, [Next]_vars PROVE OpenedInv'
  OBVIOUS
<1>1. CASE UNCHANGED vars
  <2>1. /\ UNCHANGED <<base, fork, added, dropped, stage>>
        /\ TypeOK' /\ UniqueIds(Everywhere)'
    BY <1>1 DEF vars, branch, OpenedInv, TypeOK, UniqueIds, Everywhere
  <2>2. WellOpened(base') /\ \A c \in Candidates : OpensOnce(c)' <=> OpensOnce(c)
    BY <2>1 DEF OpenedInv, OpensOnce
  <2>3. QED
    BY <2>1, <2>2 DEF OpenedInv
<1>2. CASE Next
  <2> DEFINE Kept == /\ WellOpened(base')
                     /\ \A d \in Candidates : fork'[d] \subseteq base'
                     /\ \A d \in Candidates :
                          stage'[d] = "passed" => OpensOnce(d)'
  <2>0. TypeOK /\ \A d \in Candidates : fork[d] \subseteq base
    BY DEF OpenedInv
  <2>1. TypeOK' /\ UniqueIds(Everywhere)'
    BY <1>2, TypeNext DEF OpenedInv
  <2>2. ASSUME NEW c \in Candidates, Branch(c) PROVE Kept
    BY <2>0, <2>2, WorkKeepsOpenings DEF Branch, TypeOK
  <2>3. ASSUME NEW c \in Candidates, NEW d \in Candidates \ {c}, Stack(c, d)
        PROVE  Kept
    BY <2>0, <2>3, WorkKeepsOpenings DEF Stack, TypeOK
  <2>4. ASSUME NEW c \in Candidates, NEW r, Add(c, r) PROVE Kept
    BY <2>0, <2>4, WorkKeepsOpenings DEF Add, Recommitted, TypeOK
  <2>5. ASSUME NEW c \in Candidates, Implement(c) PROVE Kept
    BY <2>0, <2>5, WorkKeepsOpenings DEF Implement, Recommitted, TypeOK
  <2>6. ASSUME NEW c \in Candidates, NEW r \in fork[c], Rewrite(c, r)
        PROVE  Kept
    BY <2>0, <2>6, WorkKeepsOpenings DEF Rewrite, Recommitted, TypeOK
  <2>7. ASSUME NEW c \in Candidates, Update(c) PROVE Kept
    BY <2>0, <2>7, WorkKeepsOpenings DEF Update, Recommitted, TypeOK
  <2>8. ASSUME NEW c \in Candidates, NEW t \in Tasks, Gate(c, t) PROVE Kept
    <3>1. /\ UNCHANGED <<base, fork, added, dropped>>
          /\ stage' = [stage EXCEPT ![c] = "passed"]
          /\ OpensOnce(c)
      BY <2>8, GateSeesOpenings DEF Gate, branch
    <3>2. \A d \in Candidates : stage'[d] = "passed" => OpensOnce(d)
      BY <2>0, <3>1 DEF OpenedInv, TypeOK
    <3>3. \A d \in Candidates : OpensOnce(d)' <=> OpensOnce(d)
      BY <3>1 DEF OpensOnce
    <3>4. QED
      BY <2>0, <3>1, <3>2, <3>3 DEF OpenedInv
  <2>9. ASSUME NEW c \in Candidates, Merge(c) PROVE Kept
    BY <2>9, MergeOpensOnce, MergeKeepsOpenings
  <2>10. Kept
    BY <1>2, <2>2, <2>3, <2>4, <2>5, <2>6, <2>7, <2>8, <2>9
       DEF Next, Append, Open
  <2>11. QED
    BY <2>1, <2>10 DEF OpenedInv
<1>3. QED
  BY <1>1, <1>2

(***************************************************************************)
(* All the openings of a number that land pin one contract, however stale  *)
(* the verdicts: what the gate misses, the collision in git stops, unless  *)
(* there is none.                                                          *)
(***************************************************************************)
THEOREM OneContractLands == Spec => []OneContractEach
<1>1. Init => OpenedInv
  <2>1. HAVE Init
  <2>2. TypeOK /\ UniqueIds(Everywhere) /\ Reads(base)
    BY <2>1, GateInvInit DEF GateInv
  <2>3. WellOpened(base)
    BY <2>2, ReadingIsWellOpened
  <2>4. \A c \in Candidates : fork[c] = {} /\ stage[c] = "none"
    BY <2>1 DEF Init
  <2>5. QED
    BY <2>2, <2>3, <2>4 DEF OpenedInv
<1>2. OpenedInv => OneContractEach
  BY DEF OpenedInv, WellOpened, Opened, OneContractEach
<1>3. QED
  BY <1>1, <1>2, OpenedInvNext, PTL DEF Spec

----------------------------------------------------------------------------
(***************************************************************************)
(* Opening tasks and switching extensions off, for any number of commands, *)
(* extensions and tasks.                                                   *)
(*                                                                         *)
(* A directory is made whole before it is renamed, and a name is given     *)
(* once, so what the tasks hold never changes.  What makes the switches    *)
(* inductive is that a text once read stays true: an entry is off by a     *)
(* task that was opened for it, and that task stays, so putting a stale    *)
(* text back loses an entry and never invents one.                         *)
(***************************************************************************)

Places == {"idle", "checked", "refused", "allocated", "contract", "record",
           "opened", "done", "failed", "killed"}
Texts == [Extensions -> Numbers \cup {On}]
CommandStates == [pc : Places, what : Extensions \cup {Plain},
                  number : Numbers \cup {0}, read : Texts]

Whole(directory) == directory.contract /\ directory.record
\* Every extension that a text says is off is off by a task of its own.
OffByOwn(text) ==
  \A e \in Extensions : text[e] # On =>
    text[e] \in DOMAIN tasks /\ tasks[text[e]].what = e

\* What a command's place says of its directory and of its task.
Progress(c) ==
  /\ cmds[c].pc \in {"idle", "checked", "refused", "allocated", "done",
                     "failed", "opened"} => staged[c] = NoDirectory
  /\ cmds[c].pc \in {"allocated", "contract", "record", "opened"}
       => cmds[c].number \in Numbers
  /\ cmds[c].pc = "record" => staged[c] = Directory(c, TRUE, TRUE)
  /\ cmds[c].pc = "opened" =>
       /\ cmds[c].number \in DOMAIN tasks
       /\ tasks[cmds[c].number].what = cmds[c].what

OpeningInv ==
  /\ DOMAIN tasks \subseteq Numbers
  /\ \A n \in DOMAIN tasks : tasks[n] \in Directories /\ Whole(tasks[n])
  /\ staged \in [Commands -> Directories \cup {NoDirectory}]
  /\ switches \in Texts
  /\ cmds \in [Commands -> CommandStates]
  /\ OffByOwn(switches)
  /\ \A c \in Commands : OffByOwn(cmds[c].read) /\ Progress(c)

----------------------------------------------------------------------------
LEMMA OpeningInvInit == OpeningInit => OpeningInv
<1>1. SUFFICES ASSUME OpeningInit PROVE OpeningInv
  OBVIOUS
<1>2. DOMAIN tasks = {}
  BY <1>1 DEF OpeningInit
<1>3. switches \in Texts /\ \A e \in Extensions : switches[e] = On
  BY <1>1 DEF OpeningInit, Texts
<1>4. cmds \in [Commands -> CommandStates]
  BY <1>1, <1>3 DEF OpeningInit, CommandStates, Places
<1>5. \A c \in Commands : cmds[c].read = switches /\ cmds[c].pc = "idle"
  BY <1>1 DEF OpeningInit
<1>6. OffByOwn(switches)
  BY <1>3 DEF OffByOwn
<1>7. QED
  BY <1>1, <1>2, <1>3, <1>4, <1>5, <1>6 DEF OpeningInit, OpeningInv, Progress

\* The tasks a step leaves: those there were, unchanged, and whole ones.
Grown ==
  /\ \A n \in DOMAIN tasks : n \in DOMAIN tasks' /\ tasks'[n] = tasks[n]
  /\ DOMAIN tasks' \subseteq Numbers
  /\ \A n \in DOMAIN tasks' : tasks'[n] \in Directories /\ Whole(tasks'[n])

\* A text that was true of the tasks stays true of more of them.
LEMMA TextsStayTrue ==
  ASSUME Grown, NEW text, OffByOwn(text)
  PROVE  \A e \in Extensions : text[e] # On =>
           text[e] \in DOMAIN tasks' /\ tasks'[text[e]].what = e
BY DEF Grown, OffByOwn

\* A step of c alone, with its place, its directory and its text accounted
\* for, keeps the invariant.
LEMMA StepKeeps ==
  ASSUME OpeningInv, Grown, NEW c \in Commands, NEW s \in CommandStates,
         cmds' = [cmds EXCEPT ![c] = s],
         NEW d \in Directories \cup {NoDirectory},
         staged' = [staged EXCEPT ![c] = d],
         switches' \in Texts, OffByOwn(switches)', OffByOwn(s.read),
         s.pc \in {"idle", "checked", "refused", "allocated", "done",
                   "failed", "opened"} => d = NoDirectory,
         s.pc \in {"allocated", "contract", "record", "opened"}
           => s.number \in Numbers,
         s.pc = "record" => d = [contract |-> TRUE, record |-> TRUE,
                                 by |-> c, what |-> s.what],
         s.pc = "opened" => /\ s.number \in DOMAIN tasks'
                            /\ tasks'[s.number].what = s.what
  PROVE  OpeningInv'
<1>1. /\ cmds' \in [Commands -> CommandStates] /\ cmds'[c] = s
      /\ \A b \in Commands \ {c} : cmds'[b] = cmds[b]
  BY DEF OpeningInv
<1>2. /\ staged' \in [Commands -> Directories \cup {NoDirectory}]
      /\ staged'[c] = d
      /\ \A b \in Commands \ {c} : staged'[b] = staged[b]
  BY DEF OpeningInv
<1>3. ASSUME NEW b \in Commands PROVE OffByOwn(cmds[b].read)'
  <2>1. OffByOwn(cmds'[b].read)
    BY <1>1 DEF OpeningInv
  <2>2. QED
    BY <2>1, TextsStayTrue DEF OffByOwn
<1>4. ASSUME NEW b \in Commands PROVE Progress(b)'
  <2>1. CASE b = c
    BY <1>1, <1>2, <2>1 DEF Progress, Directory
  <2>2. CASE b # c
    <3>1. Progress(b) /\ cmds'[b] = cmds[b] /\ staged'[b] = staged[b]
      BY <1>1, <1>2, <2>2 DEF OpeningInv
    <3>2. QED
      BY <3>1 DEF Progress, Directory, Grown
  <2>3. QED
    BY <2>1, <2>2
<1>5. QED
  BY <1>1, <1>2, <1>3, <1>4 DEF OpeningInv, Grown

\* A command that only moves to a place where nothing is asked of it.
LEMMA MovingKeeps ==
  ASSUME OpeningInv, NEW c \in Commands, NEW p \in Places,
         cmds' = [cmds EXCEPT ![c].pc = p], tasks' = tasks,
         switches' \in Texts, OffByOwn(switches)',
         \/ p \in {"checked", "done", "failed"} /\ staged' = Cleaned(c)
         \/ p = "killed" /\ staged' = staged
  PROVE  OpeningInv'
<1> DEFINE s == [cmds[c] EXCEPT !.pc = p]
           d == IF p = "killed" THEN staged[c] ELSE NoDirectory
<1>1. cmds[c] \in CommandStates /\ OffByOwn(cmds[c].read)
  BY DEF OpeningInv
<1>2. /\ s \in CommandStates /\ s.pc = p /\ s.read = cmds[c].read
      /\ cmds' = [cmds EXCEPT ![c] = s]
  BY <1>1 DEF CommandStates
<1>3. /\ d \in Directories \cup {NoDirectory}
      /\ staged' = [staged EXCEPT ![c] = d]
  BY DEF OpeningInv, Cleaned
<1>4. Grown
  BY DEF OpeningInv, Grown
<1> HIDE DEF s
<1>5. QED
  BY <1>1, <1>2, <1>3, <1>4, StepKeeps

\* What others do to the tasks and to the switches.
LEMMA OthersKeep ==
  ASSUME OpeningInv, Grown, UNCHANGED <<staged, cmds>>,
         switches' \in Texts, OffByOwn(switches)'
  PROVE  OpeningInv'
<1>1. ASSUME NEW b \in Commands PROVE (OffByOwn(cmds[b].read) /\ Progress(b))'
  <2>1. OffByOwn(cmds[b].read) /\ Progress(b)
    BY DEF OpeningInv
  <2>2. OffByOwn(cmds[b].read)'
    BY <2>1, TextsStayTrue DEF OffByOwn
  <2>3. Progress(b)'
    BY <2>1 DEF Progress, Directory, Grown
  <2>4. QED
    BY <2>2, <2>3
<1>2. QED
  BY <1>1 DEF OpeningInv, Grown

----------------------------------------------------------------------------
\* Each step leaves every task there was as it was, and adds whole ones only.
LEMMA TasksGrow == OpeningInv /\ [OpeningNext]_openingVars => Grown
<1> SUFFICES ASSUME OpeningInv, [OpeningNext]_openingVars PROVE Grown
  OBVIOUS
<1>1. CASE tasks' = tasks
  BY <1>1 DEF OpeningInv, Grown
<1>2. ASSUME NEW c \in Commands, Rename(c) PROVE Grown
  <2>1. cmds[c].pc = "record" /\ Progress(c) /\ cmds[c] \in CommandStates
    BY <1>2 DEF Rename, At, OpeningInv
  <2>2. /\ staged[c] \in Directories /\ Whole(staged[c])
        /\ cmds[c].number \in Numbers
    <3>1. /\ staged[c] = [contract |-> TRUE, record |-> TRUE,
                           by |-> c, what |-> cmds[c].what]
          /\ cmds[c].number \in Numbers
      BY <2>1 DEF Progress, Directory
    <3>2. cmds[c].what \in Extensions \cup {Plain}
      BY <2>1 DEF CommandStates
    <3>3. QED
      BY <3>1, <3>2 DEF Directories, Whole
  <2>3. /\ tasks' = [n \in DOMAIN tasks \cup {cmds[c].number} |->
             IF n = cmds[c].number THEN staged[c] ELSE tasks[n]]
        /\ cmds[c].number \notin DOMAIN tasks
    BY <1>2 DEF Rename, Taken
  <2>4. QED
    BY <2>2, <2>3 DEF OpeningInv, Grown
<1>3. ASSUME NEW n \in Numbers, Pull(n) PROVE Grown
  <2> DEFINE pulled == [contract |-> TRUE, record |-> TRUE,
                        by |-> Elsewhere, what |-> Plain]
  <2>1. pulled \in Directories /\ Whole(pulled)
    BY DEF Directories, Whole
  <2>2. /\ tasks' = [m \in DOMAIN tasks \cup {n} |->
             IF m = n THEN pulled ELSE tasks[m]]
        /\ n \notin DOMAIN tasks
    BY <1>3 DEF Pull
  <2> HIDE DEF pulled
  <2>3. QED
    BY <2>1, <2>2 DEF OpeningInv, Grown
<1>4. QED
  BY <1>1, <1>2, <1>3
     DEF OpeningNext, openingVars, StartOpen, StartSwitchOff, Allocate,
     StageContract, StageRecord, Stage, OpenFails, Fail, WriteSwitch,
     EndsAfterRename, Killed, SwitchOn

LEMMA OpeningInvNext == OpeningInv /\ [OpeningNext]_openingVars => OpeningInv'
<1> SUFFICES ASSUME OpeningInv, [OpeningNext]_openingVars PROVE OpeningInv'
  OBVIOUS
<1>0. Grown /\ switches \in Texts /\ OffByOwn(switches)
  BY TasksGrow DEF OpeningInv
<1>1. switches' = switches => switches' \in Texts /\ OffByOwn(switches)'
  BY <1>0, TextsStayTrue DEF OffByOwn
<1>2. ASSUME NEW c \in Commands, StartOpen(c) PROVE OpeningInv'
  <2>1. staged' = Cleaned(c)
    BY <1>2 DEF StartOpen, At, OpeningInv, Progress, Cleaned
  <2>2. "checked" \in Places
    BY DEF Places
  <2>3. QED
    BY <1>1, <1>2, <2>1, <2>2, MovingKeeps DEF StartOpen, Goto
<1>3. ASSUME NEW c \in Commands, NEW e \in Extensions, StartSwitchOff(c, e)
      PROVE  OpeningInv'
  <2> DEFINE s == [pc |-> IF switches[e] = On THEN "checked" ELSE "refused",
                   what |-> e, number |-> 0, read |-> switches]
  <2>1. s \in CommandStates
    BY <1>0 DEF CommandStates, Places
  <2>2. staged' = [staged EXCEPT ![c] = NoDirectory]
    BY <1>3 DEF StartSwitchOff, At, OpeningInv, Progress
  <2>3. cmds' = [cmds EXCEPT ![c] = s] /\ switches' = switches
    BY <1>3 DEF StartSwitchOff
  <2>4. s.pc \in {"checked", "refused"} /\ OffByOwn(s.read)
    BY <1>0
  <2> HIDE DEF s
  <2>5. QED
    BY <1>0, <1>1, <2>1, <2>2, <2>3, <2>4, StepKeeps
<1>4. ASSUME NEW c \in Commands, Allocate(c) PROVE OpeningInv'
  <2> DEFINE s == [cmds[c] EXCEPT !.pc = "allocated", !.number = NextTask]
  <2>1. cmds[c] \in CommandStates /\ OffByOwn(cmds[c].read)
    BY DEF OpeningInv
  <2>2. /\ s \in CommandStates /\ s.pc = "allocated" /\ s.number \in Numbers
        /\ s.read = cmds[c].read
    BY <1>4, <2>1 DEF CommandStates, Places, Allocate
  <2>3. staged' = [staged EXCEPT ![c] = NoDirectory]
    BY <1>4 DEF Allocate, At, OpeningInv, Progress
  <2>4. cmds' = [cmds EXCEPT ![c] = s] /\ switches' = switches
    BY <1>4 DEF Allocate
  <2> HIDE DEF s
  <2>5. QED
    BY <1>0, <1>1, <2>1, <2>2, <2>3, <2>4, StepKeeps
<1>5. ASSUME NEW c \in Commands, StageContract(c) \/ StageRecord(c)
      PROVE  OpeningInv'
  <2> DEFINE p == IF StageContract(c) THEN "contract" ELSE "record"
             s == [cmds[c] EXCEPT !.pc = p]
             d == Directory(c, TRUE, p = "record")
  <2>1. /\ cmds[c] \in CommandStates /\ OffByOwn(cmds[c].read)
        /\ cmds[c].number \in Numbers
    BY <1>5 DEF StageContract, StageRecord, At, OpeningInv, Progress
  <2>2. /\ s \in CommandStates /\ s.pc = p /\ s.number \in Numbers
        /\ s.read = cmds[c].read /\ s.what = cmds[c].what
    BY <2>1 DEF CommandStates, Places
  <2>3. cmds' = [cmds EXCEPT ![c] = s] /\ switches' = switches
    BY <1>5 DEF StageContract, StageRecord, Goto
  <2>4. staged' = [staged EXCEPT ![c] = d]
    BY <1>5 DEF StageContract, StageRecord, Stage, At
  <2>5. d \in Directories \cup {NoDirectory}
    BY <2>1 DEF Directory, Directories, CommandStates
  <2>6. p = "record" => d = [contract |-> TRUE, record |-> TRUE,
                             by |-> c, what |-> s.what]
    BY <2>2 DEF Directory
  <2>7. p \in {"contract", "record"}
    OBVIOUS
  <2> HIDE DEF s, d, p
  <2>8. QED
    BY <1>0, <1>1, <2>1, <2>2, <2>3, <2>4, <2>5, <2>6, <2>7, StepKeeps
<1>6. ASSUME NEW c \in Commands, Rename(c) PROVE OpeningInv'
  <2> DEFINE p == IF cmds[c].what = Plain THEN "done" ELSE "opened"
             s == [cmds[c] EXCEPT !.pc = p]
  <2>1. /\ cmds[c] \in CommandStates /\ OffByOwn(cmds[c].read)
        /\ cmds[c].number \in Numbers /\ staged[c] = Directory(c, TRUE, TRUE)
    BY <1>6 DEF Rename, At, OpeningInv, Progress
  <2>2. /\ s \in CommandStates /\ s.pc = p /\ s.number = cmds[c].number
        /\ s.read = cmds[c].read /\ s.what = cmds[c].what
    BY <2>1 DEF CommandStates, Places
  <2>3. /\ cmds' = [cmds EXCEPT ![c] = s] /\ switches' = switches
        /\ staged' = [staged EXCEPT ![c] = NoDirectory]
    BY <1>6 DEF Rename, Goto, Cleaned
  <2>4. s.number \in DOMAIN tasks' /\ tasks'[s.number].what = s.what
    BY <1>6, <2>1, <2>2 DEF Rename, Directory
  <2>5. p \in {"done", "opened"}
    OBVIOUS
  <2> HIDE DEF s, p
  <2>6. QED
    BY <1>0, <1>1, <2>1, <2>2, <2>3, <2>4, <2>5, StepKeeps
<1>7. ASSUME NEW c \in Commands, OpenFails(c) PROVE OpeningInv'
  <2>1. "failed" \in Places
    BY DEF Places
  <2>2. QED
    BY <1>1, <1>7, <2>1, MovingKeeps DEF OpenFails, Fail, Goto
<1>8. ASSUME NEW c \in Commands, WriteSwitch(c) PROVE OpeningInv'
  <2>1. /\ Progress(c) /\ cmds[c] \in CommandStates /\ cmds[c].pc = "opened"
        /\ OffByOwn(cmds[c].read)
    BY <1>8 DEF WriteSwitch, At, OpeningInv
  <2>2. /\ cmds[c].number \in DOMAIN tasks /\ cmds[c].number \in Numbers
        /\ tasks[cmds[c].number].what = cmds[c].what
        /\ staged[c] = NoDirectory
    BY <2>1 DEF Progress
  <2>3. /\ switches' = [cmds[c].read EXCEPT ![cmds[c].what] = cmds[c].number]
        /\ tasks' = tasks /\ staged' = staged
        /\ cmds' = [cmds EXCEPT ![c].pc = "done"]
    BY <1>8 DEF WriteSwitch, EntryTask, Goto
  <2>4. switches' \in Texts
    BY <2>1, <2>2, <2>3 DEF CommandStates, Texts
  <2>5. OffByOwn(switches)'
    BY <2>1, <2>2, <2>3 DEF OffByOwn, CommandStates, Texts
  <2>6. staged' = Cleaned(c) /\ "done" \in Places
    BY <2>2, <2>3 DEF Cleaned, OpeningInv, Places
  <2>7. QED
    BY <2>3, <2>4, <2>5, <2>6, MovingKeeps
<1>9. ASSUME NEW c \in Commands, EndsAfterRename(c) PROVE OpeningInv'
  <2>1. staged' = Cleaned(c)
    BY <1>9 DEF EndsAfterRename, At, OpeningInv, Progress, Cleaned
  <2>2. "failed" \in Places
    BY DEF Places
  <2>3. QED
    BY <1>1, <1>9, <2>1, <2>2, MovingKeeps DEF EndsAfterRename, Goto
<1>10. ASSUME NEW c \in Commands, Killed(c) PROVE OpeningInv'
  <2>1. "killed" \in Places
    BY DEF Places
  <2>2. QED
    BY <1>1, <1>10, <2>1, MovingKeeps DEF Killed, Goto
<1>11. ASSUME NEW n \in Numbers, Pull(n) PROVE OpeningInv'
  BY <1>0, <1>1, <1>11, OthersKeep DEF Pull
<1>12. ASSUME NEW e \in Extensions, SwitchOn(e) PROVE OpeningInv'
  <2>1. switches' = [switches EXCEPT ![e] = On] /\ tasks' = tasks
    BY <1>12 DEF SwitchOn
  <2>2. switches' \in Texts /\ OffByOwn(switches)'
    BY <1>0, <2>1 DEF OffByOwn, Texts
  <2>3. QED
    BY <1>0, <1>12, <2>2, OthersKeep DEF SwitchOn
<1>13. CASE UNCHANGED openingVars
  BY <1>0, <1>1, <1>13, OthersKeep DEF openingVars
<1>14. QED
  BY <1>2, <1>3, <1>4, <1>5, <1>6, <1>7, <1>8, <1>9, <1>10, <1>11, <1>12,
     <1>13 DEF OpeningNext

LEMMA OpeningInvHolds == OpeningSpec => []OpeningInv
BY OpeningInvInit, OpeningInvNext, PTL DEF OpeningSpec

----------------------------------------------------------------------------
\* A task that other commands see has its contract and its opened record,
\* wherever its opener is killed or fails.
THEOREM VisibleIsWhole == OpeningSpec => []VisibleTaskIsWhole
<1>1. OpeningInv => VisibleTaskIsWhole
  BY DEF OpeningInv, VisibleTaskIsWhole, OpeningTypeOK, Progress, Whole,
         CommandStates, Texts
<1>2. QED
  BY <1>1, OpeningInvHolds, PTL

\* A task directory stays its opener's, whoever else got the same number.
THEOREM TasksStayTheirOpeners == OpeningSpec => NoTaskIsOverwritten
<1> DEFINE Kept == \A n \in DOMAIN tasks :
                     n \in DOMAIN tasks' /\ tasks'[n] = tasks[n]
<1>1. OpeningInv /\ [OpeningNext]_openingVars => [Kept]_openingVars
  BY TasksGrow DEF Grown
<1>2. QED
  BY <1>1, OpeningInvHolds, PTL DEF OpeningSpec, NoTaskIsOverwritten

\* An extension that is off is off by a task that was opened to switch off
\* that extension, whatever text a command put back.
THEOREM OffByOwnTask == OpeningSpec => []OffByItsOwnTask
<1>1. OpeningInv => OffByItsOwnTask
  BY DEF OpeningInv, OffByItsOwnTask, OffByOwn
<1>2. QED
  BY <1>1, OpeningInvHolds, PTL
============================================================================
