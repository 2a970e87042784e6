------------------------- MODULE RecordTypes_proofs -------------------------
(***************************************************************************)
(* What the definitions of RecordTypes say of a journal that grows by one  *)
(* record, for every set of records.  Cited by the proofs about the loop,  *)
(* about the commands that append and about the gate.                      *)
(***************************************************************************)
EXTENDS RecordTypes, WellFoundedInduction, TLAPS

\* R holds records with identifiers and registered types.
AreRecords(R) == \A r \in R : r.id \in Int /\ r.type \in RecordTypes
UniqueIds(R) == \A r, q \in R : r.id = q.id => r = q
\* n sorts after every record of R.
IsNewest(n, R) == \A r \in R : r.id < n.id

----------------------------------------------------------------------------
\* The registry's tables, row by row: what each type projects to and which
\* terminal states admit it.
LEMMA Tables ==
  /\ LifecycleTypes = {"opened", "completed", "abandoned", "reopened"}
  /\ TerminalTypes = {"completed", "abandoned"}
  /\ ClosingTypes = {"completed", "abandoned", "reopened"}
  /\ LifecycleTypes \subseteq RecordTypes
  /\ ProjectsTo["opened"] = "open" /\ ProjectsTo["reopened"] = "open"
  /\ ProjectsTo["completed"] = "done" /\ ProjectsTo["abandoned"] = "abandoned"
  /\ \A t \in RecordTypes \ LifecycleTypes : ProjectsTo[t] = NoState
  /\ AdmittedAfterTerminal["opened"] = {}
  /\ AdmittedAfterTerminal["reopened"] = {"done"}
  /\ TerminalStates = {"done", "abandoned"}
  /\ NoState \notin States /\ "open" \notin TerminalStates
<1>1. /\ ProjectsTo["opened"] = "open" /\ ProjectsTo["reopened"] = "open"
      /\ ProjectsTo["completed"] = "done"
      /\ ProjectsTo["abandoned"] = "abandoned"
  BY DEF ProjectsTo, RecordTypes
<1>2. \A t \in RecordTypes \ {"opened", "completed", "abandoned", "reopened"} :
        ProjectsTo[t] = NoState
  BY DEF ProjectsTo
<1>3. NoState \notin States /\ "open" \notin TerminalStates
  BY DEF NoState, States, TerminalStates
<1>4. LifecycleTypes = {"opened", "completed", "abandoned", "reopened"}
  BY <1>1, <1>2 DEF LifecycleTypes, NoState, RecordTypes
<1>5. TerminalTypes = {"completed", "abandoned"}
  BY <1>1, <1>2 DEF TerminalTypes, TerminalStates, NoState, RecordTypes
<1>6. /\ AdmittedAfterTerminal["opened"] = {}
      /\ AdmittedAfterTerminal["reopened"] = {"done"}
  BY DEF AdmittedAfterTerminal, RecordTypes, TerminalStates
<1>7. QED
  BY <1>1, <1>2, <1>3, <1>4, <1>5, <1>6
     DEF ClosingTypes, TerminalStates, RecordTypes

\* No lifecycle record follows an abandonment.
LEMMA AbandonedAdmitsNoLifecycle ==
  ASSUME NEW t \in RecordTypes, "abandoned" \in AdmittedAfterTerminal[t]
  PROVE  t \notin LifecycleTypes
<1>1. t \in {"session", "check"}
  BY DEF AdmittedAfterTerminal
<1>2. QED
  BY <1>1, Tables

----------------------------------------------------------------------------
\* At the end of a journal the terminal state in force is the state the
\* journal is closed as.
LEMMA TerminalBeforeNewest ==
  ASSUME NEW R, AreRecords(R), NEW n, AreRecords({n}), IsNewest(n, R), NEW s
  PROVE  TerminalBefore(R \cup {n}, n.id, s) <=> ClosedAs(R, s)
<1>1. n.id \in Int /\ \A r \in R : r.id \in Int /\ r.id < n.id
  BY DEF AreRecords, IsNewest
<1>2. ASSUME TerminalBefore(R \cup {n}, n.id, s) PROVE ClosedAs(R, s)
  <2>1. PICK q \in R \cup {n} :
          /\ q.id < n.id /\ s \in TerminalStates /\ ProjectsTo[q.type] = s
          /\ \A p \in R \cup {n} :
               p.type \in LifecycleTypes /\ p.id < n.id => p.id <= q.id
    BY <1>2 DEF TerminalBefore
  <2>2. q \in R
    BY <2>1, <1>1
  <2>3. QED
    BY <2>1, <2>2, <1>1 DEF ClosedAs
<1>3. ASSUME ClosedAs(R, s) PROVE TerminalBefore(R \cup {n}, n.id, s)
  <2>1. PICK r \in R : /\ s \in TerminalStates /\ ProjectsTo[r.type] = s
                       /\ \A q \in R : q.type \in LifecycleTypes
                                         => q.id <= r.id
    BY <1>3 DEF ClosedAs
  <2>2. \A p \in R \cup {n} :
          p.type \in LifecycleTypes /\ p.id < n.id => p.id <= r.id
    BY <2>1, <1>1
  <2>3. QED
    BY <2>1, <2>2, <1>1 DEF TerminalBefore
<1>4. QED
  BY <1>2, <1>3

\* A record that sorts last leaves what was in force before the others.
LEMMA TerminalBeforeOthers ==
  ASSUME NEW R, AreRecords(R), NEW n, AreRecords({n}), IsNewest(n, R),
         NEW r \in R, NEW s
  PROVE  TerminalBefore(R \cup {n}, r.id, s) <=> TerminalBefore(R, r.id, s)
<1>1. n.id \in Int /\ \A q \in R : q.id \in Int /\ q.id < n.id
  BY DEF AreRecords, IsNewest
<1>2. \A q \in R \cup {n} : q.id < r.id => q \in R
  BY <1>1
<1>3. QED
  BY <1>2 DEF TerminalBefore

\* What a journal is closed as once a last record joins it: what that record
\* projects to if it is lifecycle, what it was closed as if not.
LEMMA ClosedAsAfterNewest ==
  ASSUME NEW R, AreRecords(R), NEW n, AreRecords({n}), IsNewest(n, R),
         NEW s \in TerminalStates
  PROVE  ClosedAs(R \cup {n}, s)
           <=> IF n.type \in LifecycleTypes THEN ProjectsTo[n.type] = s
                                            ELSE ClosedAs(R, s)
<1>1. /\ n.id \in Int /\ n.type \in RecordTypes
      /\ \A r \in R : r.id \in Int /\ r.id < n.id /\ r.type \in RecordTypes
  BY DEF AreRecords, IsNewest
<1>2. CASE n.type \in LifecycleTypes
  <2>1. ASSUME ClosedAs(R \cup {n}, s) PROVE ProjectsTo[n.type] = s
    <3>1. PICK r \in R \cup {n} :
            /\ ProjectsTo[r.type] = s
            /\ \A q \in R \cup {n} : q.type \in LifecycleTypes => q.id <= r.id
      BY <2>1 DEF ClosedAs
    <3>2. r = n
      BY <3>1, <1>1, <1>2
    <3>3. QED
      BY <3>1, <3>2
  <2>2. ASSUME ProjectsTo[n.type] = s PROVE ClosedAs(R \cup {n}, s)
    <3>1. \A q \in R \cup {n} : q.id <= n.id
      BY <1>1
    <3>2. QED
      BY <2>2, <3>1 DEF ClosedAs
  <2>3. QED
    BY <1>2, <2>1, <2>2
<1>3. CASE n.type \notin LifecycleTypes
  <2>1. ProjectsTo[n.type] # s
    BY <1>1, <1>3, Tables DEF States
  <2>2. QED
    BY <1>3, <2>1 DEF ClosedAs
<1>4. QED
  BY <1>2, <1>3

----------------------------------------------------------------------------
\* A journal is closed as one state at most.
LEMMA ClosedAsOne ==
  ASSUME NEW R, AreRecords(R), UniqueIds(R), NEW s, NEW u,
         ClosedAs(R, s), ClosedAs(R, u)
  PROVE  s = u
<1>1. PICK r \in R : /\ s \in TerminalStates /\ ProjectsTo[r.type] = s
                     /\ \A p \in R : p.type \in LifecycleTypes => p.id <= r.id
  BY DEF ClosedAs
<1>2. PICK q \in R : /\ u \in TerminalStates /\ ProjectsTo[q.type] = u
                     /\ \A p \in R : p.type \in LifecycleTypes => p.id <= q.id
  BY DEF ClosedAs
<1>3. r.type \in LifecycleTypes /\ q.type \in LifecycleTypes
  BY <1>1, <1>2, Tables DEF AreRecords, LifecycleTypes
<1>4. r.id = q.id
  BY <1>1, <1>2, <1>3 DEF AreRecords
<1>5. QED
  BY <1>1, <1>2, <1>4 DEF UniqueIds

\* StateOf names the state a journal is closed as, and "open" if it is not.
LEMMA StateOfIsClosedAs ==
  ASSUME NEW R, AreRecords(R), UniqueIds(R)
  PROVE  /\ \A s \in TerminalStates : StateOf(R) = s <=> ClosedAs(R, s)
         /\ StateOf(R) \in States
         /\ StateOf(R) = "open" <=> \A s \in TerminalStates : ~ClosedAs(R, s)
<1>1. ~(ClosedAs(R, "done") /\ ClosedAs(R, "abandoned"))
  BY ClosedAsOne
<1>2. TerminalStates = {"done", "abandoned"}
  BY Tables
<1>3. QED
  BY <1>1, <1>2 DEF StateOf, States

(***************************************************************************)
(* load_task_for_record's test is enough: a record that the state of a     *)
(* readable journal admits, and that sorts after every record of it,       *)
(* leaves a readable journal.                                              *)
(***************************************************************************)
LEMMA AdmittedRecordKeepsProjectable ==
  ASSUME NEW R, AreRecords(R), UniqueIds(R), Projectable(R),
         NEW n, AreRecords({n}), IsNewest(n, R),
         n.type # "opened", Admits(StateOf(R), n.type)
  PROVE  Projectable(R \cup {n})
<1>1. OpenedOnce(R \cup {n})
  BY DEF Projectable, OpenedOnce
<1>2. NothingAfterTerminal(R \cup {n})
  <2>1. ASSUME NEW s \in TerminalStates, ClosedAs(R, s)
        PROVE  s \in AdmittedAfterTerminal[n.type]
    <3>1. StateOf(R) = s /\ s # "open"
      BY <2>1, StateOfIsClosedAs, Tables
    <3>2. QED
      BY <3>1 DEF Admits
  <2>2. ASSUME NEW s \in TerminalStates, TerminalBefore(R \cup {n}, n.id, s)
        PROVE  s \in AdmittedAfterTerminal[n.type]
    BY <2>1, <2>2, TerminalBeforeNewest
  <2>3. ASSUME NEW r \in R, NEW s \in TerminalStates,
               TerminalBefore(R \cup {n}, r.id, s)
        PROVE  s \in AdmittedAfterTerminal[r.type]
    BY <2>3, TerminalBeforeOthers DEF Projectable, NothingAfterTerminal
  <2>4. QED
    BY <2>2, <2>3 DEF NothingAfterTerminal
<1>3. ReopensClosed(R \cup {n})
  <2>1. ASSUME n.type = "reopened"
        PROVE  \E s \in TerminalStates : TerminalBefore(R \cup {n}, n.id, s)
    <3>1. StateOf(R) # "open"
      BY <2>1 DEF Admits
    <3>2. PICK s \in TerminalStates : ClosedAs(R, s)
      BY <3>1, StateOfIsClosedAs
    <3>3. QED
      BY <3>2, TerminalBeforeNewest
  <2>2. ASSUME NEW r \in R, r.type = "reopened"
        PROVE  \E s \in TerminalStates : TerminalBefore(R \cup {n}, r.id, s)
    BY <2>2, TerminalBeforeOthers DEF Projectable, ReopensClosed
  <2>3. QED
    BY <2>1, <2>2 DEF ReopensClosed
<1>4. QED
  BY <1>1, <1>2, <1>3 DEF Projectable

(***************************************************************************)
(* The gate's closed_at_base, which reads file names and opens no record,  *)
(* agrees with project_status on every journal that projects.              *)
(***************************************************************************)
THEOREM ClosedByNameIsClosed ==
  ASSUME NEW R, AreRecords(R), UniqueIds(R), Projectable(R)
  PROVE  ClosedByName(R) <=> StateOf(R) # "open"
<1>1. ASSUME ClosedByName(R) PROVE StateOf(R) # "open"
  <2>1. PICK r \in R : /\ r.type \in ClosingTypes \ {"reopened"}
                       /\ \A q \in R : q.type \in ClosingTypes
                                         => q.id <= r.id
    BY <1>1 DEF ClosedByName
  <2>2. ProjectsTo[r.type] \in TerminalStates
    BY <2>1, Tables
  <2>3. ASSUME NEW o \in R, o.type = "opened" PROVE o.id <= r.id
    <3>1. SUFFICES ASSUME r.id < o.id PROVE FALSE
      BY DEF AreRecords
    <3>2. ASSUME NEW p \in R, p.type \in LifecycleTypes, p.id < o.id
          PROVE  p.id <= r.id
      <4>1. p.type # "opened"
        BY <3>2, <2>3 DEF Projectable, OpenedOnce, AreRecords
      <4>2. QED
        BY <3>2, <4>1, <2>1, Tables
    <3>3. TerminalBefore(R, o.id, ProjectsTo[r.type])
      BY <2>2, <3>1, <3>2 DEF TerminalBefore
    <3>4. ProjectsTo[r.type] \in AdmittedAfterTerminal["opened"]
      BY <2>2, <2>3, <3>3 DEF Projectable, NothingAfterTerminal
    <3>5. QED
      BY <3>4, Tables
  <2>4. \A q \in R : q.type \in LifecycleTypes => q.id <= r.id
    BY <2>1, <2>3, Tables
  <2>5. ClosedAs(R, ProjectsTo[r.type])
    BY <2>2, <2>4 DEF ClosedAs
  <2>6. QED
    BY <2>2, <2>5, StateOfIsClosedAs
<1>2. ASSUME StateOf(R) # "open" PROVE ClosedByName(R)
  <2>1. PICK s \in TerminalStates : ClosedAs(R, s)
    BY <1>2, StateOfIsClosedAs
  <2>2. PICK r \in R : /\ ProjectsTo[r.type] = s
                       /\ \A q \in R : q.type \in LifecycleTypes
                                         => q.id <= r.id
    BY <2>1 DEF ClosedAs
  <2>3. r.type \in TerminalTypes
    BY <2>1, <2>2 DEF TerminalTypes, AreRecords
  <2>4. QED
    BY <2>2, <2>3, Tables DEF ClosedByName
<1>3. QED
  BY <1>1, <1>2
----------------------------------------------------------------------------
(***************************************************************************)
(* What a journal that projects says once a record joins it anywhere, not  *)
(* at its end alone: commands that race, or whose clocks lag, insert.      *)
(***************************************************************************)
\* r is the last lifecycle record of R.
IsLastLifecycle(r, R) ==
  /\ r \in R /\ r.type \in LifecycleTypes
  /\ \A q \in R : q.type \in LifecycleTypes => q.id <= r.id

\* A set of numbers has a least one.
LEMMA LeastNumber ==
  ASSUME NEW S, S \subseteq Nat, S # {}
  PROVE  \E m \in S : \A x \in S : m <= x
<1>1. PICK Less : /\ IsWellFoundedOn(Less, Nat)
                  /\ \A x, y \in Nat : y < x => <<y, x>> \in Less
  <2> DEFINE Below == OpToRel(<, Nat)
  <2>1. IsWellFoundedOn(Below, Nat)
    BY NatLessThanWellFounded
  <2>2. \A x, y \in Nat : y < x => <<y, x>> \in Below
    BY DEF OpToRel
  <2> HIDE DEF Below
  <2>3. QED
    BY <2>1, <2>2
<1>2. PICK m \in S : \A x \in S : ~(<<x, m>> \in Less)
  BY <1>1, WFMin
<1>3. \A x \in S : ~(x < m) /\ x \in Nat /\ m \in Nat
  BY <1>1, <1>2
<1>4. QED
  BY <1>2, <1>3

\* Of the lifecycle records after a record, one is the first.
LEMMA FirstLifecycleAfter ==
  ASSUME NEW R, AreRecords(R), NEW n \in R,
         ~IsLastLifecycle(n, R), n.type \in LifecycleTypes
  PROVE  \E f \in R : /\ f.type \in LifecycleTypes /\ n.id < f.id
                      /\ \A q \in R : q.type \in LifecycleTypes /\ n.id < q.id
                                       => f.id <= q.id
<1> DEFINE Later == {q \in R : q.type \in LifecycleTypes /\ n.id < q.id}
           Gaps == {q.id - n.id : q \in Later}
<1>1. PICK p \in R : p.type \in LifecycleTypes /\ n.id < p.id
  BY DEF IsLastLifecycle, AreRecords
<1>2. Gaps \subseteq Nat /\ Gaps # {}
  BY <1>1 DEF AreRecords
<1> HIDE DEF Gaps
<1>3. PICK g \in Gaps : \A h \in Gaps : g <= h
  BY <1>2, LeastNumber
<1> USE DEF Gaps
<1>4. PICK f \in Later : g = f.id - n.id
  BY <1>3
<1>5. \A q \in Later : f.id <= q.id
  <2>1. SUFFICES ASSUME NEW q \in Later PROVE f.id <= q.id
    OBVIOUS
  <2>2. f.id - n.id <= q.id - n.id
    BY <1>3, <1>4
  <2>3. q.id \in Int /\ n.id \in Int /\ f.id \in Int
    BY DEF AreRecords
  <2>4. QED
    BY <2>2, <2>3
<1>6. QED
  BY <1>5

\* An abandonment in a journal that projects is its last lifecycle record.
LEMMA AbandonmentIsLast ==
  ASSUME NEW R, AreRecords(R), Projectable(R),
         NEW a \in R, a.type = "abandoned"
  PROVE  IsLastLifecycle(a, R)
<1>1. SUFFICES ASSUME ~IsLastLifecycle(a, R) PROVE FALSE
  OBVIOUS
<1>2. a.type \in LifecycleTypes
  BY Tables
<1>3. PICK f \in R : /\ f.type \in LifecycleTypes /\ a.id < f.id
                    /\ \A q \in R : q.type \in LifecycleTypes /\ a.id < q.id
                                     => f.id <= q.id
  BY <1>1, <1>2, FirstLifecycleAfter
<1>4. \A p \in R : p.type \in LifecycleTypes /\ p.id < f.id => p.id <= a.id
  BY <1>3 DEF AreRecords
<1>5. TerminalBefore(R, f.id, "abandoned")
  BY <1>3, <1>4, Tables DEF TerminalBefore
<1>6. "abandoned" \in AdmittedAfterTerminal[f.type]
  BY <1>5, Tables DEF Projectable, NothingAfterTerminal
<1>7. QED
  BY <1>3, <1>6, AbandonedAdmitsNoLifecycle DEF AreRecords

\* A journal that projects is abandoned if and only if it holds an
\* abandonment.
LEMMA AbandonedIsRecorded ==
  ASSUME NEW R, AreRecords(R), UniqueIds(R), Projectable(R)
  PROVE  StateOf(R) = "abandoned" <=> \E a \in R : a.type = "abandoned"
<1>1. ASSUME NEW a \in R, a.type = "abandoned" PROVE StateOf(R) = "abandoned"
  <2>1. ClosedAs(R, "abandoned")
    BY <1>1, AbandonmentIsLast, Tables DEF ClosedAs, IsLastLifecycle
  <2>2. QED
    BY <2>1, StateOfIsClosedAs, Tables
<1>2. ASSUME StateOf(R) = "abandoned"
      PROVE  \E a \in R : a.type = "abandoned"
  <2>1. PICK r \in R : ProjectsTo[r.type] = "abandoned"
    BY <1>2, StateOfIsClosedAs, Tables DEF ClosedAs
  <2>2. r.type \in RecordTypes
    BY DEF AreRecords
  <2>3. r.type \in LifecycleTypes
    BY <2>1, <2>2, Tables DEF NoState
  <2>4. r.type = "abandoned"
    BY <2>1, <2>3, Tables
  <2>5. QED
    BY <2>4
<1>3. QED
  BY <1>1, <1>2

\* A journal is closed as what its last lifecycle record projects to.
LEMMA StateOfIsLast ==
  ASSUME NEW R, AreRecords(R), UniqueIds(R), NEW r, IsLastLifecycle(r, R)
  PROVE  StateOf(R) = ProjectsTo[r.type]
<1>1. ASSUME NEW s, ClosedAs(R, s) PROVE s = ProjectsTo[r.type]
  <2>1. PICK q \in R : /\ s \in TerminalStates /\ ProjectsTo[q.type] = s
                      /\ \A p \in R : p.type \in LifecycleTypes
                                       => p.id <= q.id
    BY <1>1 DEF ClosedAs
  <2>2. q.type \in LifecycleTypes
    BY <2>1, Tables DEF LifecycleTypes, AreRecords
  <2>3. q.id = r.id
    BY <2>1, <2>2 DEF IsLastLifecycle, AreRecords
  <2>4. QED
    BY <2>1, <2>3 DEF IsLastLifecycle, UniqueIds
<1>2. CASE ProjectsTo[r.type] \in TerminalStates
  <2>1. ClosedAs(R, ProjectsTo[r.type])
    BY <1>2 DEF ClosedAs, IsLastLifecycle
  <2>2. QED
    BY <1>2, <2>1, StateOfIsClosedAs
<1>3. CASE ProjectsTo[r.type] \notin TerminalStates
  <2>1. \A s \in TerminalStates : ~ClosedAs(R, s)
    BY <1>1, <1>3
  <2>2. r.type \in {"opened", "reopened"}
    BY <1>3, Tables DEF IsLastLifecycle
  <2>3. QED
    BY <2>1, <2>2, StateOfIsClosedAs, Tables
<1>4. QED
  BY <1>2, <1>3
\* A completion, an abandonment or a reopening that joins a journal without
\* wedging it sorts after every lifecycle record, whatever clock stamped it.
LEMMA JoiningClosingIsLast ==
  ASSUME NEW R, NEW n, n \notin R,
         AreRecords(R \cup {n}), UniqueIds(R \cup {n}),
         Projectable(R), Projectable(R \cup {n}), n.type \in ClosingTypes
  PROVE  IsLastLifecycle(n, R \cup {n})
<1> DEFINE S == R \cup {n}
<1>1. SUFFICES ASSUME ~IsLastLifecycle(n, S) PROVE FALSE
  OBVIOUS
<1>2. n.type \in LifecycleTypes /\ n \in S
  BY Tables
<1>3. PICK f \in S : /\ f.type \in LifecycleTypes /\ n.id < f.id
                    /\ \A q \in S : q.type \in LifecycleTypes /\ n.id < q.id
                                     => f.id <= q.id
  BY <1>1, <1>2, FirstLifecycleAfter
<1>4. \A q \in S : q.id \in Int /\ q.type \in RecordTypes
  BY DEF AreRecords
<1>5. \A p \in S : p.type \in LifecycleTypes /\ p.id < f.id => p.id <= n.id
  BY <1>3, <1>4
<1>6. f \in R
  BY <1>3, <1>4
<1>7. \A p \in R : p.id # n.id
  BY DEF UniqueIds
<1>8. CASE n.type = "abandoned"
  BY <1>1, <1>2, <1>8, AbandonmentIsLast
<1>9. CASE n.type = "completed"
  <2>1. TerminalBefore(S, f.id, "done")
    BY <1>3, <1>5, <1>9, Tables DEF TerminalBefore
  <2>2. "done" \in AdmittedAfterTerminal[f.type]
    BY <2>1, Tables DEF Projectable, NothingAfterTerminal
  <2>3. f.type = "reopened"
    BY <2>2, <1>3, Tables DEF AdmittedAfterTerminal
  <2>4. PICK s \in TerminalStates : TerminalBefore(R, f.id, s)
    BY <2>3, <1>6 DEF Projectable, ReopensClosed
  <2>5. PICK q \in R :
          /\ q.id < f.id /\ ProjectsTo[q.type] = s
          /\ \A p \in R : p.type \in LifecycleTypes /\ p.id < f.id
                           => p.id <= q.id
    BY <2>4 DEF TerminalBefore
  <2>6. q.type \in LifecycleTypes
    BY <2>5, <1>4, Tables DEF LifecycleTypes
  <2>7. q.id < n.id
    BY <2>5, <2>6, <1>4, <1>5, <1>7
  <2>8. TerminalBefore(S, n.id, s)
    BY <2>5, <2>7, <1>3, <1>4 DEF TerminalBefore
  <2>9. s \in AdmittedAfterTerminal["completed"]
    BY <2>8, <1>2, <1>9 DEF Projectable, NothingAfterTerminal
  <2>10. QED
    BY <2>9 DEF AdmittedAfterTerminal, RecordTypes
<1>10. CASE n.type = "reopened"
  <2>1. PICK s \in TerminalStates : TerminalBefore(S, n.id, s)
    BY <1>2, <1>10 DEF Projectable, ReopensClosed
  <2>2. s = "done"
    BY <2>1, <1>2, <1>10, Tables DEF Projectable, NothingAfterTerminal
  <2>3. PICK q \in S :
          /\ q.id < n.id /\ ProjectsTo[q.type] = "done"
          /\ \A p \in S : p.type \in LifecycleTypes /\ p.id < n.id
                           => p.id <= q.id
    BY <2>1, <2>2 DEF TerminalBefore
  <2>4. q \in R /\ q.id < f.id
    BY <2>3, <1>3, <1>4
  <2>5. \A p \in R : p.type \in LifecycleTypes /\ p.id < f.id
                     => p.id <= q.id
    BY <2>3, <1>4, <1>5, <1>7
  <2>6. TerminalBefore(R, f.id, "done")
    BY <2>3, <2>4, <2>5, Tables DEF TerminalBefore
  <2>7. "done" \in AdmittedAfterTerminal[f.type]
    BY <2>6, <1>6, Tables DEF Projectable, NothingAfterTerminal
  <2>8. f.type = "reopened"
    BY <2>7, <1>3, Tables DEF AdmittedAfterTerminal
  <2>9. PICK u \in TerminalStates : TerminalBefore(S, f.id, u)
    BY <2>8, <1>3 DEF Projectable, ReopensClosed
  <2>10. PICK v \in S :
           /\ v.id < f.id /\ ProjectsTo[v.type] = u
           /\ \A p \in S : p.type \in LifecycleTypes /\ p.id < f.id
                            => p.id <= v.id
    BY <2>9 DEF TerminalBefore
  <2>11. v.type \in LifecycleTypes
    BY <2>10, <1>4, Tables DEF LifecycleTypes
  <2>12. v.id = n.id
    BY <2>10, <2>11, <1>2, <1>3, <1>4, <1>5
  <2>13. v = n
    BY <2>12, <1>2 DEF UniqueIds
  <2>14. QED
    BY <2>9, <2>10, <2>13, <1>10, Tables
<1>11. QED
  BY <1>8, <1>9, <1>10, Tables

(***************************************************************************)
(* How a reader's state moves when one record joins a journal, anywhere,   *)
(* and both project: along the lifecycle, and nowhere else.                *)
(***************************************************************************)
LEMMA JoiningMovesAlongLifecycle ==
  ASSUME NEW R, NEW n, n \notin R,
         AreRecords(R \cup {n}), UniqueIds(R \cup {n}),
         Projectable(R), Projectable(R \cup {n}), n.type # "opened"
  PROVE  /\ n.type \notin LifecycleTypes => StateOf(R \cup {n}) = StateOf(R)
         /\ n.type = "completed"
              => StateOf(R) = "open" /\ StateOf(R \cup {n}) = "done"
         /\ n.type = "abandoned"
              => StateOf(R) = "open" /\ StateOf(R \cup {n}) = "abandoned"
         /\ n.type = "reopened"
              => StateOf(R) = "done" /\ StateOf(R \cup {n}) = "open"
<1> DEFINE S == R \cup {n}
<1>1. AreRecords(R) /\ UniqueIds(R)
  BY DEF AreRecords, UniqueIds
<1>2. n.id \in Int /\ n.type \in RecordTypes /\ \A p \in R : p.id # n.id
  BY DEF AreRecords, UniqueIds
<1>3. ASSUME n.type \notin LifecycleTypes PROVE StateOf(S) = StateOf(R)
  <2>1. ASSUME NEW s PROVE ClosedAs(S, s) <=> ClosedAs(R, s)
    <3>1. \A q \in S : q.type \in LifecycleTypes => q \in R
      BY <1>3
    <3>2. s \in TerminalStates => ProjectsTo[n.type] # s
      BY <1>2, <1>3, Tables DEF NoState
    <3>3. QED
      BY <3>1, <3>2 DEF ClosedAs
  <2>2. QED
    BY <2>1 DEF StateOf
<1>4. ASSUME n.type \in ClosingTypes
      PROVE  IsLastLifecycle(n, S) /\ StateOf(S) = ProjectsTo[n.type]
  BY <1>4, JoiningClosingIsLast, StateOfIsLast
<1>5. ASSUME n.type \in ClosingTypes, NEW s \in TerminalStates
      PROVE  ClosedAs(R, s) <=> TerminalBefore(S, n.id, s)
  <2>1. \A q \in R : q.type \in LifecycleTypes => q.id < n.id
    BY <1>1, <1>2, <1>4, <1>5 DEF IsLastLifecycle, AreRecords
  <2>2. ASSUME ClosedAs(R, s) PROVE TerminalBefore(S, n.id, s)
    <3>1. PICK r \in R : /\ ProjectsTo[r.type] = s
                        /\ \A q \in R : q.type \in LifecycleTypes
                                         => q.id <= r.id
      BY <2>2 DEF ClosedAs
    <3>2. r.type \in LifecycleTypes
      BY <3>1, <1>1, Tables DEF LifecycleTypes, AreRecords
    <3>3. QED
      BY <3>1, <3>2, <2>1, <1>2 DEF TerminalBefore
  <2>3. ASSUME TerminalBefore(S, n.id, s) PROVE ClosedAs(R, s)
    <3>1. PICK q \in S :
            /\ q.id < n.id /\ ProjectsTo[q.type] = s
            /\ \A p \in S : p.type \in LifecycleTypes /\ p.id < n.id
                             => p.id <= q.id
      BY <2>3 DEF TerminalBefore
    <3>2. q \in R
      BY <3>1, <1>2
    <3>3. QED
      BY <3>1, <3>2, <2>1 DEF ClosedAs
  <2>4. QED
    BY <2>2, <2>3
<1>6. ASSUME NEW s \in TerminalStates, TerminalBefore(S, n.id, s)
      PROVE  s \in AdmittedAfterTerminal[n.type]
  BY <1>6 DEF Projectable, NothingAfterTerminal
<1>7. ASSUME n.type \in {"completed", "abandoned"} PROVE StateOf(R) = "open"
  <2>1. n.type \in ClosingTypes /\ AdmittedAfterTerminal[n.type] = {}
    BY <1>7, Tables DEF AdmittedAfterTerminal, RecordTypes
  <2>2. \A s \in TerminalStates : ~ClosedAs(R, s)
    BY <2>1, <1>5, <1>6
  <2>3. QED
    BY <2>2, <1>1, StateOfIsClosedAs
<1>8. ASSUME n.type = "reopened" PROVE StateOf(R) = "done"
  <2>1. PICK s \in TerminalStates : TerminalBefore(S, n.id, s)
    BY <1>8 DEF Projectable, ReopensClosed
  <2>2. s = "done"
    BY <2>1, <1>6, <1>8, Tables
  <2>3. ClosedAs(R, "done")
    BY <2>1, <2>2, <1>5, <1>8, Tables
  <2>4. QED
    BY <2>3, <1>1, StateOfIsClosedAs, Tables
<1>9. QED
  BY <1>3, <1>4, <1>7, <1>8, Tables
============================================================================
