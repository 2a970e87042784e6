------------------------ MODULE LogAndSteps_proofs ------------------------
(***************************************************************************)
(* What is derived from records and log events, for every value of the     *)
(* constants.  First project_status: it computes what RecordTypes defines, *)
(* on every sequence of records of every length, where TLC checks it up to *)
(* three.  Then the in-flight steps (module Steps), then the process log   *)
(* (module ProcessLog), which shares no variable with the other two.       *)
(***************************************************************************)
EXTENDS Steps, ProcessLog, RecordTypes_proofs, SequenceTheorems,
        FiniteSetTheorems

\* The records read so far would be accepted but for a missing opened one.
Placed(R) ==
  /\ \A o, p \in R : o.type = "opened" /\ p.type = "opened" => o = p
  /\ NothingAfterTerminal(R)
  /\ ReopensClosed(R)

\* What the three locals remember of the records read.
LocalsSummarise ==
  /\ hasOpened <=> \E r \in read : r.type = "opened"
  /\ state = NoState <=> \A r \in read : r.type \notin LifecycleTypes
  /\ \A s \in TerminalStates : state = s <=> ClosedAs(read, s)

\* The inductive invariant of the loop.
LoopInv ==
  /\ LoopTypeOK
  /\ UniqueIds(read)
  /\ ~raised => Placed(read) /\ LocalsSummarise
  /\ raised => ~Placed(read)
  /\ ~raised /\ (\E r \in read : r.type = "abandoned") => state = "abandoned"

----------------------------------------------------------------------------
\* A record read is a record, and it sorts after those read before it.
LEMMA RecordsRead ==
  ASSUME LoopTypeOK, NEW t \in Types, NEW id \in 0..MaxId,
         \A r \in read : r.id < id
  PROVE  /\ AreRecords(read)
         /\ [id |-> id, type |-> t] \in Record
         /\ AreRecords({[id |-> id, type |-> t]})
         /\ IsNewest([id |-> id, type |-> t], read)
<1>1. t \in RecordTypes /\ id \in Nat
  BY TypesAssumption, MaxIdAssumption
<1>2. QED
  BY <1>1 DEF LoopTypeOK, Record, AreRecords, IsNewest

\* The loop refuses a record exactly when it cannot be placed after the
\* others.
LEMMA RefusesIffUnplaced ==
  ASSUME LoopInv, ~raised, NEW n, AreRecords({n}), AreRecords(read),
         IsNewest(n, read)
  PROVE  Refuses(n.type) <=> ~Placed(read \cup {n})
<1> DEFINE R == read \cup {n}
<1>1. /\ Placed(read)
      /\ hasTerminal <=> state \in TerminalStates
      /\ hasOpened <=> \E r \in read : r.type = "opened"
      /\ \A s \in TerminalStates : state = s <=> ClosedAs(read, s)
  BY DEF LoopInv, LocalsSummarise, LoopTypeOK
<1>2. \A s \in TerminalStates :
        TerminalBefore(R, n.id, s) <=> hasTerminal /\ state = s
  BY <1>1, TerminalBeforeNewest
<1>3. n \notin read
  BY DEF IsNewest, AreRecords
<1>4. (\A o, p \in R : o.type = "opened" /\ p.type = "opened" => o = p)
        <=> ~(n.type = "opened" /\ hasOpened)
  BY <1>1, <1>3 DEF Placed
<1>5. NothingAfterTerminal(R)
        <=> ~(hasTerminal /\ state \notin AdmittedAfterTerminal[n.type])
  <2>1. \A r \in read : \A s \in TerminalStates :
          TerminalBefore(R, r.id, s) => s \in AdmittedAfterTerminal[r.type]
    BY <1>1, TerminalBeforeOthers DEF Placed, NothingAfterTerminal
  <2>2. NothingAfterTerminal(R)
          <=> \A s \in TerminalStates : TerminalBefore(R, n.id, s)
                => s \in AdmittedAfterTerminal[n.type]
    BY <2>1 DEF NothingAfterTerminal
  <2>3. QED
    BY <1>1, <1>2, <2>2
<1>6. ReopensClosed(R) <=> ~(n.type = "reopened" /\ ~hasTerminal)
  <2>1. \A r \in read : r.type = "reopened"
          => \E s \in TerminalStates : TerminalBefore(R, r.id, s)
    BY <1>1, TerminalBeforeOthers DEF Placed, ReopensClosed
  <2>2. QED
    BY <1>1, <1>2, <2>1 DEF ReopensClosed
<1>7. QED
  BY <1>4, <1>5, <1>6 DEF Refuses, Placed

\* A record that is placed leaves locals that summarise it too.
LEMMA LocalsStaySummaries ==
  ASSUME LoopInv, ~raised, NEW n, AreRecords({n}), AreRecords(read),
         IsNewest(n, read), ~Refuses(n.type),
         read' = read \cup {n},
         hasOpened' = (hasOpened \/ n.type = "opened"),
         hasTerminal' = HasTerminalAfter(n.type),
         state' = StateAfter(n.type)
  PROVE  LocalsSummarise' /\ (hasTerminal' <=> state' \in TerminalStates)
                          /\ state' \in States \cup {NoState}
<1>1. /\ hasTerminal <=> state \in TerminalStates
      /\ state \in States \cup {NoState}
      /\ LocalsSummarise
  BY DEF LoopInv, LoopTypeOK
<1>2. n.type \in RecordTypes
  BY DEF AreRecords
<1>3. /\ hasOpened' <=> \E r \in read' : r.type = "opened"
      /\ state' = NoState <=> \A r \in read' : r.type \notin LifecycleTypes
  BY <1>1, <1>2, Tables DEF LocalsSummarise, StateAfter, States
<1>4. ASSUME NEW s \in TerminalStates
      PROVE  state' = s <=> ClosedAs(read', s)
  <2>1. ClosedAs(read', s)
          <=> IF n.type \in LifecycleTypes THEN ProjectsTo[n.type] = s
                                           ELSE ClosedAs(read, s)
    BY ClosedAsAfterNewest
  <2>2. n.type \in LifecycleTypes <=> ProjectsTo[n.type] # NoState
    BY <1>2 DEF LifecycleTypes
  <2>3. QED
    BY <1>1, <2>1, <2>2 DEF StateAfter, LocalsSummarise
<1>5. LocalsSummarise'
  BY <1>3, <1>4 DEF LocalsSummarise
<1>6. hasTerminal' <=> state' \in TerminalStates
  <2>1. CASE n.type \in {"completed", "abandoned"}
    BY <2>1, Tables DEF HasTerminalAfter, StateAfter, States
  <2>2. CASE n.type = "reopened"
    BY <2>2, Tables DEF HasTerminalAfter, StateAfter, States
  <2>3. CASE n.type = "opened"
    <3>1. ~hasTerminal
      BY <2>3, <1>1, Tables DEF Refuses
    <3>2. QED
      BY <2>3, <3>1, Tables DEF HasTerminalAfter, StateAfter, States
  <2>4. CASE n.type \notin LifecycleTypes
    BY <2>4, <1>1, <1>2, Tables DEF HasTerminalAfter, StateAfter
  <2>5. QED
    BY <2>1, <2>2, <2>3, <2>4, Tables
<1>7. state' \in States \cup {NoState}
  BY <1>1, <1>2, Tables DEF StateAfter, States
<1>8. QED
  BY <1>5, <1>6, <1>7

----------------------------------------------------------------------------
\* Before the first record the locals summarise the empty journal.
LEMMA LoopInvInit == LoopInit => LoopInv
<1>1. SUFFICES ASSUME LoopInit PROVE LoopInv
  OBVIOUS
<1>2. LoopTypeOK
  BY <1>1, Tables DEF LoopInit, LoopTypeOK, States
<1>3. Placed(read) /\ UniqueIds(read)
  BY <1>1 DEF LoopInit, Placed, NothingAfterTerminal, ReopensClosed, UniqueIds
<1>4. LocalsSummarise
  BY <1>1, Tables DEF LoopInit, LocalsSummarise, ClosedAs, States
<1>5. QED
  BY <1>1, <1>2, <1>3, <1>4 DEF LoopInv, LoopInit

\* Each iteration keeps the invariant.
LEMMA LoopInvNext == LoopInv /\ [LoopNext]_loopVars => LoopInv'
<1>1. SUFFICES ASSUME LoopInv, [LoopNext]_loopVars PROVE LoopInv'
  OBVIOUS
<1>2. CASE UNCHANGED loopVars
  BY <1>1, <1>2 DEF loopVars, LoopInv, LoopTypeOK, UniqueIds, LocalsSummarise, Placed
<1>3. ASSUME NEW t \in Types, ReadRecord(t) PROVE LoopInv'
  <2>1. PICK id \in 0..MaxId :
          /\ \A r \in read : r.id < id
          /\ read' = read \cup {[id |-> id, type |-> t]}
    BY <1>3 DEF ReadRecord
  <2> DEFINE n == [id |-> id, type |-> t]
  <2>2. /\ AreRecords(read) /\ n \in Record
        /\ AreRecords({n}) /\ IsNewest(n, read)
    BY <1>1, <2>1, RecordsRead DEF LoopInv
  <2>3. UniqueIds(read')
    BY <1>1, <2>1, <2>2 DEF LoopInv, UniqueIds, IsNewest, AreRecords
  <2>4. read' \subseteq Record
    BY <1>1, <2>1, <2>2 DEF LoopInv, LoopTypeOK
  <2>5. ~raised /\ n.type = t
    BY <1>3 DEF ReadRecord
  <2>6. Refuses(t) <=> ~Placed(read')
    BY <1>1, <2>1, <2>2, <2>5, RefusesIffUnplaced
  <2>7. CASE Refuses(t)
    BY <1>1, <1>3, <2>3, <2>4, <2>6, <2>7
       DEF ReadRecord, LoopInv, LoopTypeOK
  <2>8. CASE ~Refuses(t)
    <3>1. /\ hasOpened' = (hasOpened \/ t = "opened")
          /\ hasTerminal' = HasTerminalAfter(t)
          /\ state' = StateAfter(t)
          /\ raised' = raised
      BY <1>3, <2>8 DEF ReadRecord
    <3>2. /\ LocalsSummarise'
          /\ hasTerminal' <=> state' \in TerminalStates
          /\ state' \in States \cup {NoState}
      BY <1>1, <2>1, <2>2, <2>5, <2>8, <3>1, LocalsStaySummaries
    <3>3. hasOpened' \in BOOLEAN /\ hasTerminal' \in BOOLEAN
      BY <1>1, <3>1 DEF LoopInv, LoopTypeOK, HasTerminalAfter
    <3>4. LoopTypeOK'
      BY <1>1, <2>4, <3>1, <3>2, <3>3 DEF LoopInv, LoopTypeOK
    <3>5. ASSUME NEW r \in read', r.type = "abandoned"
          PROVE  state' = "abandoned"
      <4>1. CASE r \in read
        <5>1. state = "abandoned" /\ hasTerminal
          BY <1>1, <2>5, <3>5, <4>1, Tables DEF LoopInv, LoopTypeOK
        <5>2. t \notin LifecycleTypes
          BY <2>8, <5>1, TypesAssumption, AbandonedAdmitsNoLifecycle
             DEF Refuses
        <5>3. QED
          BY <3>1, <5>1, <5>2, TypesAssumption, Tables DEF StateAfter
      <4>2. CASE r = n
        BY <2>5, <3>1, <3>5, <4>2, Tables DEF StateAfter, States
      <4>3. QED
        BY <2>1, <4>1, <4>2
    <3>6. QED
      BY <2>3, <2>5, <2>6, <2>8, <3>1, <3>2, <3>4, <3>5 DEF LoopInv
  <2>9. QED
    BY <2>7, <2>8
<1>4. QED
  BY <1>1, <1>2, <1>3 DEF LoopNext

\* The loop's invariant holds throughout.
THEOREM LoopInvHolds == LoopSpec => []LoopInv
BY LoopInvInit, LoopInvNext, PTL DEF LoopSpec

\* The locals of project_status keep their types, and has_terminal_record
\* is set exactly while the state is terminal.
THEOREM TypeCorrect == LoopSpec => []LoopTypeOK
<1>1. LoopInv => LoopTypeOK
  BY DEF LoopInv
<1>2. QED
  BY <1>1, LoopInvHolds, PTL

(***************************************************************************)
(* project_status raises on the journals that do not project and on no     *)
(* other, whatever their length.                                           *)
(***************************************************************************)
THEOREM RaisesCorrectly == LoopSpec => []LoopRaisesOnBadJournals
<1>1. ASSUME LoopInv PROVE LoopRaisesOnBadJournals
  <2>1. CASE raised
    BY <1>1, <2>1
       DEF LoopInv, LoopRaisesOnBadJournals, Raises, Projectable, Placed,
           OpenedOnce
  <2>2. CASE ~raised
    <3>1. Placed(read) /\ LocalsSummarise
      BY <1>1, <2>2 DEF LoopInv
    <3>2. hasOpened => state # NoState
      BY <3>1, Tables DEF LocalsSummarise
    <3>3. Projectable(read) <=> hasOpened
      BY <3>1 DEF Projectable, OpenedOnce, Placed, LocalsSummarise
    <3>4. QED
      BY <2>2, <3>2, <3>3 DEF LoopRaisesOnBadJournals, Raises
  <2>3. QED
    BY <2>1, <2>2
<1>2. QED
  BY <1>1, LoopInvHolds, PTL

(***************************************************************************)
(* The state project_status returns is that of the last lifecycle record.  *)
(***************************************************************************)
THEOREM ReturnsLastState == LoopSpec => []LoopReturnsLastState
<1>1. ASSUME LoopInv PROVE LoopReturnsLastState
  <2>1. SUFFICES ASSUME ~Raises PROVE state = StateOf(read)
    BY DEF LoopReturnsLastState
  <2>2. /\ UniqueIds(read) /\ LocalsSummarise
        /\ state \in States
    BY <1>1, <2>1 DEF LoopInv, Raises, LoopTypeOK
  <2>3. AreRecords(read)
    BY <1>1 DEF LoopInv, LoopTypeOK, Record, AreRecords
  <2>4. QED
    BY <2>2, <2>3, StateOfIsClosedAs DEF LocalsSummarise, States
<1>2. QED
  BY <1>1, LoopInvHolds, PTL

(***************************************************************************)
(* project_status computes the projection: it raises on the journals that  *)
(* do not project and returns the state of the others, for any journal.    *)
(***************************************************************************)
THEOREM LoopIsTheProjection == LoopSpec => []LoopComputesProjection
<1>1. LoopTypeOK /\ LoopRaisesOnBadJournals /\ LoopReturnsLastState
        => LoopComputesProjection
  BY DEF LoopComputesProjection
<1>2. QED
  BY <1>1, TypeCorrect, RaisesCorrectly, ReturnsLastState, PTL

(***************************************************************************)
(* A journal that project_status reads and that holds an abandonment is    *)
(* abandoned, whatever was recorded after it.                              *)
(***************************************************************************)
THEOREM AbandonmentIsFinal == LoopSpec => []AbandonedIsFinal
<1>1. LoopInv => AbandonedIsFinal
  BY DEF LoopInv, AbandonedIsFinal, Raises
<1>2. QED
  BY <1>1, LoopInvHolds, PTL

----------------------------------------------------------------------------
(***************************************************************************)
(* In-flight steps, for any clocks that are off by at most Skew, any       *)
(* number of steps, records, sweeps and days.                              *)
(***************************************************************************)
allVars == <<loopVars, stepVars>>

\* A stamp given at t: off by at most Skew, or unreadable.
DatedNear(at, t) ==
  at = Undated \/ (at \in Int /\ t - Skew <= at /\ at <= t + Skew)

StepEvents ==
  [event : {"step-started"}, task : {This}, step : StepIds,
   activity : Activities, at : Int, written : Nat]
    \cup [event : {"step-ended"}, task : Tasks, step : StepIds]

\* Every record read has a stamp, given when it landed.
RecordsStamped ==
  /\ \A r \in read : r.id \in DOMAIN stamps
  /\ \A id \in DOMAIN stamps :
       /\ stamps[id].landed \in 0 .. time
       /\ DatedNear(stamps[id].at, stamps[id].landed)

\* So has every announcement of when it was written.
StartsDated ==
  \A i \in DOMAIN log : log[i].event = "step-started" =>
    log[i].written \in 0 .. time /\ DatedNear(log[i].at, log[i].written)

\* A step is announced before anything else is logged of it, and once.
StartsFirst ==
  \A i, j \in DOMAIN log :
    log[i].event = "step-started" /\ log[j].step = log[i].step => i <= j

\* What orders records and events: their stamps, and the log's order.
StepsInv ==
  /\ time \in Nat
  /\ log \in Seq(StepEvents)
  /\ RecordsStamped
  /\ StartsDated
  /\ StartsFirst

\* A step of the steps is a step of the loop, or leaves the loop alone.
LEMMA StepsRunTheLoop == [StepsNext]_allVars => [LoopNext]_loopVars
<1>1. SUFFICES ASSUME [StepsNext]_allVars PROVE [LoopNext]_loopVars
  OBVIOUS
<1>2. CASE UNCHANGED allVars
  BY <1>2 DEF allVars
<1>3. CASE StepsNext
  BY <1>3 DEF StepsNext, RecordLands, StartStep, EndStep, Sweep,
     SweepSkipping, TimePasses, LoopNext
<1>4. QED
  BY <1>1, <1>2, <1>3

(***************************************************************************)
(* Records that land one by one between events and sweeps are projected    *)
(* like any others.                                                        *)
(***************************************************************************)
THEOREM LandedRecordsProject == StepsSpec => []LoopComputesProjection
<1>1. StepsInit => LoopInit
  BY DEF StepsInit
<1>2. StepsSpec => LoopSpec
  BY <1>1, StepsRunTheLoop, PTL DEF StepsSpec, LoopSpec, allVars
<1>3. QED
  BY <1>2, LoopIsTheProjection, PTL

\* A record is read, and stamped now if nothing has its id.
Lands(new) ==
  /\ read' = read \cup {new}
  /\ DOMAIN stamps' = DOMAIN stamps \cup {new.id}
  /\ \A id \in DOMAIN stamps : stamps'[id] = stamps[id]
  /\ \/ new.id \in DOMAIN stamps
     \/ stamps'[new.id].landed = time /\ DatedNear(stamps'[new.id].at, time)

\* The record that lands is the one the loop reads.
LEMMA LandedRecord ==
  ASSUME StepsInv, NEW t \in Types, RecordLands(t)
  PROVE  \E new : Lands(new)
<1>1. PICK id \in 0 .. MaxId :
        /\ \A r \in read : r.id < id
        /\ read' = read \cup {[id |-> id, type |-> t]}
  BY DEF RecordLands, ReadRecord
<1> DEFINE new == [id |-> id, type |-> t]
<1>2. new \notin read
  BY <1>1, MaxIdAssumption
<1> DEFINE picked == CHOOSE r \in read' : r \notin read
<1>3. picked = new
  BY <1>1, <1>2
<1>4. PICK activity \in IF t = "session" THEN Activities ELSE {"none"},
           at \in IF t \in Closing THEN Stamped ELSE {Undated} :
        stamps' = [i \in DOMAIN stamps \cup {picked.id} |->
                     IF i \in DOMAIN stamps THEN stamps[i]
                     ELSE [activity |-> activity, at |-> at, landed |-> time]]
  BY DEF RecordLands
<1> HIDE DEF picked
<1>5. DatedNear(at, time)
  BY ClockAssumption DEF Stamped, DatedNear, StepsInv, Undated
<1>6. \A i \in DOMAIN stamps : stamps'[i] = stamps[i]
  BY <1>4
<1>7. picked.id = id
  BY <1>3
<1>8. \/ id \in DOMAIN stamps
      \/ stamps'[id].landed = time /\ DatedNear(stamps'[id].at, time)
  BY <1>4, <1>5, <1>7
<1>9. new.id = id
  OBVIOUS
<1>10. QED
  BY <1>1, <1>4, <1>6, <1>7, <1>8, <1>9 DEF Lands

\* A log that has lost events keeps the order of those it has.
LEMMA ThinnedLog ==
  ASSUME StepsInv, log' \in Seq(StepEvents), NEW f \in [DOMAIN log' -> DOMAIN log],
         \A i, j \in DOMAIN log' : i < j => f[i] < f[j],
         \A i \in DOMAIN log' : log'[i] = log[f[i]],
         UNCHANGED <<loopVars, stamps, time>>
  PROVE  StepsInv'
<1>1. time' \in Nat /\ RecordsStamped'
  BY DEF StepsInv, loopVars, RecordsStamped, DatedNear
<1>2. StartsDated'
  BY DEF StepsInv, StartsDated, DatedNear
<1>3. ASSUME NEW i \in DOMAIN log', NEW j \in DOMAIN log', j < i,
             log'[i].event = "step-started", log'[j].step = log'[i].step
      PROVE  FALSE
  <2>1. f[i] \in DOMAIN log /\ f[j] \in DOMAIN log /\ f[j] < f[i]
    BY <1>3
  <2>2. f[i] <= f[j]
    BY <1>3, <2>1 DEF StepsInv, StartsFirst
  <2>3. DOMAIN log \subseteq Nat
    BY DEF StepsInv
  <2>4. QED
    BY <2>1, <2>2, <2>3
<1>4. DOMAIN log' \subseteq Nat
  OBVIOUS
<1>5. StartsFirst'
  BY <1>3, <1>4 DEF StartsFirst
<1>6. QED
  BY <1>1, <1>2, <1>5 DEF StepsInv

\* A sweep shifts the log; one that skips a deletion takes a hole out of it.
LEMMA SweepThins ==
  ASSUME StepsInv, NEW n \in 1 .. Len(log), log' = AfterSweep(n)
  PROVE  /\ log' \in Seq(StepEvents)
         /\ DOMAIN log' = 1 .. Len(log) - n
         /\ \A i \in DOMAIN log' : n + i \in DOMAIN log /\ log'[i] = log[n + i]
<1>1. log \in Seq(StepEvents) /\ n \in Nat /\ Len(log) \in Nat
  BY DEF StepsInv
<1>2. log' = SubSeq(log, n + 1, Len(log))
  BY DEF AfterSweep
<1>3. QED
  BY <1>1, <1>2

LEMMA SkippingThins ==
  ASSUME StepsInv, NEW n \in 2 .. Len(log),
         log' = SubSeq(log, 1, n - 1) \o SubSeq(log, n + 1, Len(log))
  PROVE  /\ log' \in Seq(StepEvents)
         /\ DOMAIN log' = 1 .. Len(log) - 1
         /\ \A i \in DOMAIN log' :
              LET k == IF i < n THEN i ELSE i + 1
              IN k \in DOMAIN log /\ log'[i] = log[k]
<1>1. log \in Seq(StepEvents) /\ n \in Nat /\ Len(log) \in Nat
  BY DEF StepsInv
<1> DEFINE a == SubSeq(log, 1, n - 1)
           b == SubSeq(log, n + 1, Len(log))
<1>2. /\ a \in Seq(StepEvents) /\ Len(a) = n - 1
      /\ \A i \in 1 .. n - 1 : a[i] = log[i]
  BY <1>1
<1>3. /\ b \in Seq(StepEvents) /\ Len(b) = Len(log) - n
      /\ \A i \in 1 .. Len(log) - n : b[i] = log[n + i]
  BY <1>1
<1> HIDE DEF a, b
<1>4. log' = a \o b
  BY DEF a, b
<1>5. Len(a) + Len(b) = Len(log) - 1
  BY <1>1, <1>2, <1>3
<1>6. /\ log' \in Seq(StepEvents)
      /\ Len(log') = Len(log) - 1
  <2>1. log' \in Seq(StepEvents) /\ Len(log') = Len(a) + Len(b)
    BY <1>2, <1>3, <1>4, ConcatProperties
  <2>2. QED
    BY <1>5, <2>1
<1>7. DOMAIN log' = 1 .. Len(log) - 1
  BY <1>6
<1>8. ASSUME NEW i \in 1 .. Len(log) - 1, i < n
      PROVE  i \in DOMAIN log /\ log'[i] = log[i]
  <2>1. i \in 1 .. Len(a)
    BY <1>1, <1>2, <1>8
  <2>2. (a \o b)[i] = a[i]
    BY <1>2, <1>3, <2>1
  <2>3. QED
    BY <1>1, <1>2, <1>4, <2>1, <2>2
<1>9. ASSUME NEW i \in 1 .. Len(log) - 1, ~(i < n)
      PROVE  i + 1 \in DOMAIN log /\ log'[i] = log[i + 1]
  <2>1. /\ i - Len(a) \in 1 .. Len(b)
        /\ i \in 1 .. Len(a) + Len(b)
        /\ ~(i <= Len(a))
        /\ n + (i - Len(a)) = i + 1
    BY <1>1, <1>2, <1>3, <1>5, <1>9
  <2>2. (a \o b)[i] = b[i - Len(a)]
    BY <1>2, <1>3, <2>1, ConcatProperties
  <2>3. b[i - Len(a)] = log[n + (i - Len(a))]
    BY <1>3, <2>1
  <2>4. i + 1 \in DOMAIN log
    BY <1>1, <1>9
  <2>5. QED
    BY <1>4, <2>1, <2>2, <2>3, <2>4
<1>10. QED
  BY <1>6, <1>7, <1>8, <1>9

\* An event is logged last.
LEMMA LoggedLast ==
  ASSUME StepsInv, NEW e \in StepEvents, log' = Append(log, e),
         UNCHANGED <<loopVars, stamps, time>>,
         e.event = "step-started" =>
           /\ \A i \in DOMAIN log : log[i].step # e.step
           /\ e.written = time /\ DatedNear(e.at, time)
  PROVE  StepsInv'
<1>1. time' \in Nat /\ RecordsStamped'
  BY DEF StepsInv, loopVars, RecordsStamped, DatedNear
<1>2. /\ log' \in Seq(StepEvents)
      /\ Len(log) \in Nat /\ DOMAIN log = 1 .. Len(log)
      /\ DOMAIN log' = 1 .. Len(log) + 1
      /\ log'[Len(log) + 1] = e
      /\ \A i \in DOMAIN log : log'[i] = log[i]
  BY DEF StepsInv
<1>3. StartsDated'
  BY <1>2 DEF StepsInv, StartsDated, DatedNear
<1>4. StartsFirst'
  BY <1>2 DEF StepsInv, StartsFirst
<1>5. QED
  BY <1>1, <1>2, <1>3, <1>4 DEF StepsInv

LEMMA StepsInvNext == StepsInv /\ [StepsNext]_allVars => StepsInv'
<1>1. SUFFICES ASSUME StepsInv, [StepsNext]_allVars PROVE StepsInv'
  OBVIOUS
<1>2. CASE UNCHANGED allVars
  BY <1>1, <1>2 DEF allVars, loopVars, stepVars, StepsInv, RecordsStamped,
     StartsDated, StartsFirst, DatedNear
<1>3. ASSUME NEW t \in Types, RecordLands(t) PROVE StepsInv'
  <2>1. UNCHANGED <<log, time>>
    BY <1>3 DEF RecordLands
  <2>2. PICK new : Lands(new)
    BY <1>1, <1>3, LandedRecord
  <2>3. RecordsStamped'
    BY <1>1, <2>1, <2>2 DEF Lands, StepsInv, RecordsStamped, DatedNear
  <2>4. QED
    BY <1>1, <2>1, <2>3 DEF StepsInv, StartsDated, StartsFirst, DatedNear
<1>4. ASSUME NEW s \in StepIds, StartStep(s) PROVE StepsInv'
  <2>1. PICK activity \in Activities, at \in Stamped :
          log' = Append(log, [event |-> "step-started", task |-> This, step |-> s,
                              activity |-> activity, at |-> at, written |-> time])
    BY <1>4 DEF StartStep
  <2>2. DatedNear(at, time) /\ at \in Int /\ time \in Nat
    BY <1>1, ClockAssumption DEF Stamped, DatedNear, StepsInv, Undated
  <2>3. \A i \in DOMAIN log : log[i].step # s
    BY <1>4 DEF StartStep, Logged
  <2>4. [event |-> "step-started", task |-> This, step |-> s,
         activity |-> activity, at |-> at, written |-> time] \in StepEvents
    BY <2>2 DEF StepEvents
  <2>5. QED
    BY <1>1, <1>4, <2>1, <2>2, <2>3, <2>4, LoggedLast DEF StartStep
<1>5. ASSUME NEW s \in StepIds, EndStep(s) PROVE StepsInv'
  <2>1. PICK task \in Tasks :
          log' = Append(log, [event |-> "step-ended", task |-> task, step |-> s])
    BY <1>5 DEF EndStep
  <2>2. [event |-> "step-ended", task |-> task, step |-> s] \in StepEvents
    BY DEF StepEvents
  <2>3. QED
    BY <1>1, <1>5, <2>1, <2>2, LoggedLast DEF EndStep
<1>6. ASSUME Sweep PROVE StepsInv'
  <2>1. PICK n \in 1 .. Len(log) : log' = AfterSweep(n)
    BY <1>6 DEF Sweep
  <2> DEFINE f == [i \in DOMAIN log' |-> n + i]
  <2>2. f \in [DOMAIN log' -> DOMAIN log] /\ n \in Nat
    BY <1>1, <2>1, SweepThins DEF StepsInv
  <2>3. \A i, j \in DOMAIN log' : i < j => f[i] < f[j]
    BY <1>1, <2>1, <2>2, SweepThins DEF StepsInv
  <2>4. \A i \in DOMAIN log' : log'[i] = log[f[i]]
    BY <1>1, <2>1, SweepThins
  <2> HIDE DEF f
  <2>5. log' \in Seq(StepEvents)
    BY <1>1, <2>1, SweepThins
  <2>6. QED
    BY <1>1, <1>6, <2>2, <2>3, <2>4, <2>5, ThinnedLog DEF Sweep
<1>7. ASSUME SweepSkipping PROVE StepsInv'
  <2>1. PICK n \in 2 .. Len(log) :
          log' = SubSeq(log, 1, n - 1) \o SubSeq(log, n + 1, Len(log))
    BY <1>7 DEF SweepSkipping
  <2> DEFINE f == [i \in DOMAIN log' |-> IF i < n THEN i ELSE i + 1]
  <2>2. f \in [DOMAIN log' -> DOMAIN log] /\ DOMAIN log' \subseteq Nat
    BY <1>1, <2>1, SkippingThins
  <2>3. \A i, j \in DOMAIN log' : i < j => f[i] < f[j]
    BY <2>2
  <2>4. \A i \in DOMAIN log' : log'[i] = log[f[i]]
    BY <1>1, <2>1, SkippingThins
  <2> HIDE DEF f
  <2>5. log' \in Seq(StepEvents)
    BY <1>1, <2>1, SkippingThins
  <2>6. QED
    BY <1>1, <1>7, <2>2, <2>3, <2>4, <2>5, ThinnedLog DEF SweepSkipping
<1>8. ASSUME TimePasses PROVE StepsInv'
  <2>1. UNCHANGED <<read, stamps, log>> /\ time' = time + 1 /\ time \in Nat
    BY <1>1, <1>8 DEF TimePasses, loopVars, StepsInv
  <2>2. time' \in Nat /\ RecordsStamped'
    BY <1>1, <2>1 DEF StepsInv, RecordsStamped, DatedNear
  <2>3. StartsDated'
    BY <1>1, <2>1 DEF StepsInv, StartsDated, DatedNear
  <2>4. QED
    BY <1>1, <2>1, <2>2, <2>3 DEF StepsInv, StartsFirst
<1>9. QED
  BY <1>1, <1>2, <1>3, <1>4, <1>5, <1>6, <1>7, <1>8 DEF StepsNext

THEOREM StepsInvHolds == StepsSpec => []StepsInv
<1>1. StepsInit => StepsInv
  <2>1. SUFFICES ASSUME StepsInit PROVE StepsInv
    OBVIOUS
  <2>2. read = {} /\ stamps = << >> /\ log = << >> /\ time = 0
    BY <2>1 DEF StepsInit, LoopInit
  <2>3. QED
    BY <2>2 DEF StepsInv, RecordsStamped, StartsDated, StartsFirst
<1>2. QED
  BY <1>1, StepsInvNext, PTL DEF StepsSpec, allVars

\* An announcement in the log is the only one of its step.
LEMMA StartedOnce ==
  ASSUME StepsInv, NEW d \in StartedSteps, NEW e \in StartedSteps,
         d.step = e.step
  PROVE  d = e
<1>1. PICK i \in DOMAIN log : log[i] = d /\ d.event = "step-started"
  BY DEF StartedSteps, Logged
<1>2. PICK j \in DOMAIN log : log[j] = e /\ e.event = "step-started"
  BY DEF StartedSteps, Logged
<1>3. i <= j /\ j <= i
  BY <1>1, <1>2 DEF StepsInv, StartsFirst
<1>4. i \in Nat /\ j \in Nat
  BY DEF StepsInv
<1>5. QED
  BY <1>1, <1>2, <1>3, <1>4

\* So a step is shown open by what its one announcement says.
LEMMA ShownOpen ==
  ASSUME StepsInv, NEW e \in StartedSteps
  PROVE  e.step \in OpenSteps
           <=> e.step \notin EndedSteps /\ ~ClosedBy(e.activity, e.at)
<1>1. ASSUME e.step \in OpenSteps
      PROVE  e.step \notin EndedSteps /\ ~ClosedBy(e.activity, e.at)
  <2>1. PICK d \in StartedSteps : /\ d.step = e.step
                                 /\ d.step \notin EndedSteps
                                 /\ ~ClosedBy(d.activity, d.at)
    BY <1>1 DEF OpenSteps
  <2>2. d = e
    BY <2>1, StartedOnce
  <2>3. QED
    BY <2>1, <2>2
<1>2. ASSUME e.step \notin EndedSteps, ~ClosedBy(e.activity, e.at)
      PROVE  e.step \in OpenSteps
  BY <1>2 DEF OpenSteps
<1>3. QED
  BY <1>1, <1>2

(***************************************************************************)
(* The record a step's work lands closes the step once the two lie further *)
(* apart than two clocks can disagree, and no record that lay further      *)
(* before it does, for any Skew.                                           *)
(***************************************************************************)
THEOREM WorkClosesSteps == StepsSpec => []StepsCloseByTheirWork
<1>1. ASSUME StepsInv, NEW e \in StartedSteps, e.at # Undated,
             NEW r \in read, ClosesStep(r, e.activity)
      PROVE  LET later == stamps[r.id].landed - e.written
             IN /\ e.step \in OpenSteps /\ stamps[r.id].at # Undated
                     => later <= 2 * Skew
                /\ stamps[r.id].at > e.at => later > -2 * Skew
  <2>1. /\ e.at \in Int /\ e.written \in Nat
        /\ e.written - Skew <= e.at /\ e.at <= e.written + Skew
    BY <1>1 DEF StepsInv, StartsDated, StartedSteps, Logged, DatedNear
  <2> DEFINE at == stamps[r.id].at
             landed == stamps[r.id].landed
  <2>2. /\ landed \in Nat
        /\ \/ at = Undated
           \/ at \in Int /\ landed - Skew <= at /\ at <= landed + Skew
    BY <1>1 DEF StepsInv, RecordsStamped, DatedNear
  <2>3. e.step \in OpenSteps => ~(at > e.at)
    BY <1>1, ShownOpen DEF ClosedBy
  <2> HIDE DEF at, landed
  <2>4. e.step \in OpenSteps /\ at # Undated => landed - e.written <= 2 * Skew
    BY <2>1, <2>2, <2>3, ClockAssumption
  <2>5. at > e.at => landed - e.written > -2 * Skew
    BY <2>1, <2>2, ClockAssumption DEF Undated
  <2>6. QED
    BY <2>4, <2>5 DEF at, landed
<1>2. ASSUME StepsInv PROVE StepsCloseByTheirWork
  <2>1. SUFFICES ASSUME NEW e \in StartedSteps, e.at # Undated
        PROVE  LET Work == {r \in read : ClosesStep(r, e.activity)}
                   Later(r) == stamps[r.id].landed - e.written
               IN /\ e.step \in OpenSteps =>
                       \A r \in Work :
                         stamps[r.id].at # Undated => Later(r) <= 2 * Skew
                  /\ e.step \notin OpenSteps =>
                       \/ e.step \in EndedSteps
                       \/ \E r \in Work : Later(r) > -2 * Skew
    BY DEF StepsCloseByTheirWork
  <2>2. ASSUME e.step \notin OpenSteps, e.step \notin EndedSteps
        PROVE  \E r \in read : /\ ClosesStep(r, e.activity)
                               /\ stamps[r.id].at > e.at
    BY <1>2, <2>2, ShownOpen DEF ClosedBy
  <2>3. QED
    BY <1>1, <1>2, <2>1, <2>2
<1>3. QED
  BY <1>2, StepsInvHolds, PTL

----------------------------------------------------------------------------
\* Records that land leave what was closed closed.
LEMMA ClosedStays ==
  ASSUME StepsInv, NEW new, Lands(new), NEW activity, NEW at,
         ClosedBy(activity, at)
  PROVE  ClosedBy(activity, at)'
<1>1. PICK r \in read : ClosesStep(r, activity) /\ stamps[r.id].at > at
  BY DEF ClosedBy
<1>2. r \in read' /\ stamps'[r.id] = stamps[r.id]
  BY DEF Lands, StepsInv, RecordsStamped
<1>3. ClosesStep(r, activity)'
  BY <1>1, <1>2 DEF ClosesStep
<1>4. QED
  BY <1>1, <1>2, <1>3 DEF ClosedBy

\* A sweep that keeps a step's announcement keeps its end.
LEMMA SweepKeepsEnds ==
  ASSUME StepsInv, Sweep, NEW e \in StartedSteps, e \in Logged',
         e.step \in EndedSteps
  PROVE  e.step \in EndedSteps'
<1>1. PICK n \in 1 .. Len(log) : log' = AfterSweep(n)
  BY DEF Sweep
<1>2. PICK k \in DOMAIN log' : log'[k] = e
  BY DEF Logged
<1>3. PICK j \in DOMAIN log : /\ log[j].event = "step-ended"
                             /\ log[j].task = This
                             /\ log[j].step = e.step
  BY DEF EndedSteps, Logged
<1>4. n + k \in DOMAIN log /\ log[n + k] = e
  BY <1>1, <1>2, SweepThins
<1>5. n + k <= j
  BY <1>3, <1>4 DEF StepsInv, StartsFirst, StartedSteps
<1>6. /\ Len(log) \in Nat /\ DOMAIN log = 1 .. Len(log) /\ n \in Nat
      /\ DOMAIN log' = 1 .. Len(log) - n
  BY <1>1, SweepThins DEF StepsInv
<1>7. j - n \in DOMAIN log' /\ n + (j - n) = j
  BY <1>2, <1>5, <1>6
<1>8. log'[j - n] = log[j]
  BY <1>1, <1>7, SweepThins
<1>9. QED
  BY <1>3, <1>7, <1>8 DEF EndedSteps, Logged

\* What a step of the log leaves of a step that was shown closed.
LEMMA StaysClosed ==
  ASSUME StepsInv, StepsInv', NEW e \in StartedSteps, e.step \notin OpenSteps,
         UNCHANGED <<loopVars, stamps>>,
         \A d \in StartedSteps' : d.step = e.step => d \in StartedSteps,
         e \in StartedSteps' /\ e.step \in EndedSteps => e.step \in EndedSteps'
  PROVE  e.step \notin OpenSteps'
<1>1. ASSUME e.step \in OpenSteps' PROVE FALSE
  <2>1. PICK d \in StartedSteps' : /\ d.step = e.step
                                  /\ d.step \notin EndedSteps'
                                  /\ ~ClosedBy(d.activity, d.at)'
    BY <1>1 DEF OpenSteps
  <2>2. d = e
    BY <2>1, StartedOnce
  <2>3. e.step \notin EndedSteps
    BY <2>1, <2>2
  <2>4. ~ClosedBy(e.activity, e.at)
    BY <2>1, <2>2 DEF loopVars, ClosedBy, ClosesStep
  <2>5. QED
    BY <2>3, <2>4, ShownOpen
<1>2. QED
  BY <1>1

\* Every step leaves closed what was closed, a sweep that skips a deletion
\* apart.
LEMMA ClosedStaysClosed ==
  ASSUME StepsInv, StepsInv', [StepsNext]_allVars, ~skipped',
         NEW e \in StartedSteps, e.step \notin OpenSteps
  PROVE  e.step \notin OpenSteps'
<1>1. CASE UNCHANGED allVars
  BY <1>1, StaysClosed DEF allVars, stepVars, StartedSteps, EndedSteps, Logged
<1>2. ASSUME NEW t \in Types, RecordLands(t) PROVE e.step \notin OpenSteps'
  <2>1. PICK new : Lands(new)
    BY <1>2, LandedRecord
  <2>2. UNCHANGED log
    BY <1>2 DEF RecordLands
  <2>3. e \in StartedSteps' /\ EndedSteps' = EndedSteps
    BY <2>2 DEF StartedSteps, EndedSteps, Logged
  <2>4. e.step \in EndedSteps \/ ClosedBy(e.activity, e.at)
    BY ShownOpen
  <2>5. e.step \in EndedSteps' \/ ClosedBy(e.activity, e.at)'
    BY <2>1, <2>3, <2>4, ClosedStays
  <2>6. e.step \in OpenSteps'
          <=> e.step \notin EndedSteps' /\ ~ClosedBy(e.activity, e.at)'
    <3>1. ASSUME e.step \in OpenSteps'
          PROVE  e.step \notin EndedSteps' /\ ~ClosedBy(e.activity, e.at)'
      <4>1. PICK d \in StartedSteps' : /\ d.step = e.step
                                      /\ d.step \notin EndedSteps'
                                      /\ ~ClosedBy(d.activity, d.at)'
        BY <3>1 DEF OpenSteps
      <4>2. d \in StartedSteps
        BY <2>2 DEF StartedSteps, Logged
      <4>3. d = e
        BY <4>1, <4>2, StartedOnce
      <4>4. QED
        BY <4>1, <4>3
    <3>2. ASSUME e.step \notin EndedSteps', ~ClosedBy(e.activity, e.at)'
          PROVE  e.step \in OpenSteps'
      BY <2>3, <3>2 DEF OpenSteps
    <3>3. QED
      BY <3>1, <3>2
  <2>7. QED
    BY <2>5, <2>6
<1>3. ASSUME NEW s \in StepIds, StartStep(s) PROVE e.step \notin OpenSteps'
  <2>1. PICK new : /\ log' = Append(log, new) /\ new.step = s
                   /\ new.event = "step-started"
    BY <1>3 DEF StartStep
  <2>2. log \in Seq(StepEvents) /\ Logged' = Logged \cup {new}
    <3>1. log \in Seq(StepEvents)
      BY DEF StepsInv
    <3>2. QED
      BY <2>1, <3>1 DEF Logged
  <2>3. e.step # s
    BY <1>3 DEF StartStep, StartedSteps
  <2>4. QED
    BY <1>3, <2>1, <2>2, <2>3, StaysClosed
       DEF StartStep, StartedSteps, EndedSteps
<1>4. ASSUME NEW s \in StepIds, EndStep(s) PROVE e.step \notin OpenSteps'
  <2>1. PICK new : log' = Append(log, new) /\ new.event = "step-ended"
    BY <1>4 DEF EndStep
  <2>2. log \in Seq(StepEvents) /\ Logged' = Logged \cup {new}
    <3>1. log \in Seq(StepEvents)
      BY DEF StepsInv
    <3>2. QED
      BY <2>1, <3>1 DEF Logged
  <2>3. QED
    BY <1>4, <2>1, <2>2, StaysClosed DEF EndStep, StartedSteps, EndedSteps
<1>5. ASSUME Sweep PROVE e.step \notin OpenSteps'
  <2>1. PICK n \in 1 .. Len(log) : log' = AfterSweep(n)
    BY <1>5 DEF Sweep
  <2>2. Logged' \subseteq Logged
    BY <2>1, SweepThins DEF Logged
  <2>3. UNCHANGED <<loopVars, stamps>>
    BY <1>5 DEF Sweep
  <2>4. QED
    BY <1>5, <2>2, <2>3, SweepKeepsEnds, StaysClosed DEF StartedSteps
<1>6. ~SweepSkipping
  BY DEF SweepSkipping
<1>7. ASSUME TimePasses PROVE e.step \notin OpenSteps'
  BY <1>7, StaysClosed DEF TimePasses, StartedSteps, EndedSteps, Logged
<1>8. QED
  BY <1>1, <1>2, <1>3, <1>4, <1>5, <1>6, <1>7 DEF StepsNext

(***************************************************************************)
(* Whatever lands, is logged or swept, a step that was shown closed is not *)
(* shown open again.                                                       *)
(***************************************************************************)
THEOREM ClosedStepsStayClosed == StepsSpec => NoStepRevives
<1>1. StepsInv /\ StepsInv' /\ [StepsNext]_allVars
        => [\A e \in StartedSteps :
              e.step \notin OpenSteps /\ ~skipped'
                => e.step \notin OpenSteps']_allVars
  BY ClosedStaysClosed
<1>2. QED
  BY <1>1, StepsInvHolds, PTL DEF StepsSpec, NoStepRevives, allVars

----------------------------------------------------------------------------
(***************************************************************************)
(* The process log.  What its files hold, for any number of writers and    *)
(* payloads, under any interleaving of appends, rotations, sweeps, reads   *)
(* and payload writes that fail or are killed at any step.                 *)
(***************************************************************************)
EventsBy(x) == IF x \in Writers THEN {x} \X (1 .. MaxEvents) ELSE {<<x, 1>>}
LogFile(x) == [lines : Seq(EventsBy(x) \cup {Lost}), torn : BOOLEAN,
               at : Nat, old : BOOLEAN]
Sighting == [name : Names, size : Nat, at : Nat]
WriterSteps == {"unopened", "sweeping", "open", "rotating", "gone"}
WriterState == [pc : WriterSteps, suffix : 0 .. Keep, count : 0 .. MaxEvents,
                listed : SUBSET Names, total : Int,
                candidates : SUBSET Sighting]
ReadState == [listed : SUBSET (Writers \X (0 .. Keep)),
              found : [Events -> Nat],
              before : SUBSET Events, on : BOOLEAN, calm : BOOLEAN]

FilesTyped ==
  /\ DOMAIN files \subseteq Names
  /\ \A f \in DOMAIN files : files[f] \in LogFile(f[1])
  /\ \A f \in DOMAIN files : files[f].torn => f[1] \in halved
  /\ \A f \in DOMAIN files : files[f].at < clock

StateTyped ==
  /\ clock \in Nat /\ days \in Nat
  /\ writers \in [Writers -> WriterState]
  /\ staged \in [Payloads -> {"unwritten", "staged", "filled", "published",
                              "given up"}]
  /\ reader \in ReadState
  /\ written \subseteq Events
  /\ shed \subseteq Events \cup Payloads \X {1}
  /\ halved \subseteq Writers

\* A writer that has not claimed its file has none, and a rotation under way
\* has freed the suffix it moves the next file to.
FreeNames ==
  /\ \A w \in Writers : writers[w].pc \in {"unopened", "sweeping"}
       => \A k \in 0 .. Keep : <<w, k>> \notin DOMAIN files
  /\ \A w \in Writers : writers[w].pc = "rotating" /\ writers[w].suffix < Keep
       => <<w, writers[w].suffix + 1>> \notin DOMAIN files

\* A writer counts the events it wrote, and its files hold no other.
Counted ==
  /\ \A e \in written : writers[e[1]].pc \in {"open", "rotating", "gone"}
  /\ \A e \in written : writers[e[1]].pc # "gone"
       => e[2] <= writers[e[1]].count
  /\ \A f \in DOMAIN files : f[1] \in Writers
       => EventsOf(files[f]) \subseteq written

\* The events of one file are in the order they were appended.
LinesInOrder ==
  \A f \in DOMAIN files : f[1] \in Writers =>
    \A i, j \in DOMAIN files[f].lines :
      /\ i < j
      /\ files[f].lines[i] # Lost
      /\ files[f].lines[j] # Lost
      => files[f].lines[i][2] < files[f].lines[j][2]

\* An event is lost with its file, or to half a line.
Kept ==
  \A e \in written \ shed : e[1] \notin halved
    => \E f \in DOMAIN files : f[1] = e[1] /\ e \in EventsOf(files[f])

\* A payload has one name at a time, and the final one once it has content.
PayloadNames ==
  \A p \in Payloads :
    /\ staged[p] = "unwritten" => <<p, 0>> \notin DOMAIN files
    /\ staged[p] # "published" => <<p, 1>> \notin DOMAIN files
    /\ staged[p] = "published" => <<p, 0>> \notin DOMAIN files
    /\ staged[p] = "filled" /\ <<p, 0>> \in DOMAIN files
         => files[<<p, 0>>].lines # << >>
    /\ <<p, 1>> \in DOMAIN files => files[<<p, 1>>].lines # << >>

\* Until a day has passed nothing is old, and a sweep takes finished files.
YoungToday ==
  days = 0 =>
    /\ \A f \in DOMAIN files : ~files[f].old
    /\ \A w \in Writers : \A c \in writers[w].candidates : ~Unfinished(c.name)
\* Only a sweep under way has candidates.
CandidatesInSweep ==
  \A w \in Writers : writers[w].pc # "sweeping" => writers[w].candidates = {}

\* A calm read has returned an event once, from a file it is done with, or
\* will meet it in a file it has yet to read.
StillListed(e) ==
  \E f \in reader.listed \cap DOMAIN files :
    f[1] = e[1] /\ e \in EventsOf(files[f])
CalmRead ==
  reader.on /\ reader.calm =>
    /\ reader.before \subseteq written
    /\ \A e \in reader.before \ shed : e[1] \notin halved =>
         IF StillListed(e) THEN reader.found[e] = 0 ELSE reader.found[e] = 1

LogInv ==
  /\ FilesTyped /\ StateTyped /\ FreeNames /\ Counted
  /\ RotationsInOrder /\ LinesInOrder
  /\ Kept /\ PayloadNames /\ YoungToday /\ CandidatesInSweep /\ CalmRead

----------------------------------------------------------------------------
\* The parts of a name, of an event, and what a file can hold.
LEMMA NameParts ==
  ASSUME NEW f \in Names
  PROVE  /\ f = <<f[1], f[2]>> /\ f[2] \in Nat
         /\ f[1] \in Writers => f[2] \in 0 .. Keep
         /\ f[1] \notin Writers => f[1] \in Payloads /\ f[2] \in {0, 1}
BY BoundsAssumption, NamesAssumption DEF Names

LEMMA EventParts ==
  ASSUME NEW e \in Events
  PROVE  /\ e = <<e[1], e[2]>> /\ e[1] \in Writers
         /\ e[2] \in 1 .. MaxEvents /\ e # Lost
BY DEF Events, Lost

LEMMA FileHolds ==
  ASSUME NEW x, NEW file \in LogFile(x)
  PROVE  /\ file.lines \in Seq(EventsBy(x) \cup {Lost})
         /\ DOMAIN file.lines = 1 .. Len(file.lines)
         /\ Len(file.lines) \in Nat
         /\ \A e : e \in EventsOf(file) <=>
              e # Lost /\ \E i \in DOMAIN file.lines : file.lines[i] = e
         /\ EventsOf(file) \subseteq EventsBy(x)
<1>1. file.lines \in Seq(EventsBy(x) \cup {Lost})
  BY DEF LogFile
<1>2. \A i \in DOMAIN file.lines : file.lines[i] \in EventsBy(x) \cup {Lost}
  BY <1>1
<1>3. QED
  BY <1>1, <1>2 DEF EventsOf

\* A file keeps what it holds when it is touched or renamed.
LEMMA SameLinesSameEvents ==
  ASSUME NEW a, NEW b, a.lines = b.lines
  PROVE  EventsOf(a) = EventsOf(b)
BY DEF EventsOf

\* What With, Without and Renamed leave.
LEMMA NamesLeft ==
  ASSUME NEW f, NEW g, NEW file
  PROVE  /\ DOMAIN With(f, file) = DOMAIN files \cup {f}
         /\ With(f, file)[f] = file
         /\ \A h \in DOMAIN files \ {f} : With(f, file)[h] = files[h]
         /\ DOMAIN Without(f) = DOMAIN files \ {f}
         /\ \A h \in DOMAIN files \ {f} : Without(f)[h] = files[h]
         /\ DOMAIN Renamed(f, g) = (DOMAIN files \ {f}) \cup {g}
         /\ Renamed(f, g)[g] = files[f]
         /\ \A h \in DOMAIN files \ {f, g} : Renamed(f, g)[h] = files[h]
BY DEF With, Without, Renamed

\* The events of a writer's file are its own.
LEMMA OwnEvents ==
  ASSUME FilesTyped, NEW f \in DOMAIN files, NEW e \in EventsOf(files[f])
  PROVE  /\ f[1] \in Writers => e \in Events /\ e[1] = f[1]
         /\ f[1] \notin Writers => e = <<f[1], 1>>
<1>1. files[f] \in LogFile(f[1])
  BY DEF FilesTyped
<1>2. e \in EventsBy(f[1])
  BY <1>1, FileHolds
<1>3. QED
  BY <1>2 DEF EventsBy, Events

\* An event is in one file of its writer.
LEMMA InOneFile ==
  ASSUME FilesTyped, RotationsInOrder,
         NEW f \in DOMAIN files, NEW g \in DOMAIN files,
         f[1] \in Writers, f[1] = g[1],
         NEW e \in EventsOf(files[f]), e \in EventsOf(files[g])
  PROVE  f = g
<1>1. f = <<f[1], f[2]>> /\ g = <<g[1], g[2]>> /\ f[2] \in Nat /\ g[2] \in Nat
  BY NameParts DEF FilesTyped
<1>2. e[2] \in Int
  BY OwnEvents, EventParts
<1>3. ~(f[2] > g[2]) /\ ~(g[2] > f[2])
  BY <1>2 DEF RotationsInOrder
<1>4. QED
  BY <1>1, <1>3

\* What only depends on the files holds while they stay as they are.
LEMMA SameFiles ==
  ASSUME LogInv, UNCHANGED <<files, clock, written, shed, halved, staged>>
  PROVE  /\ FilesTyped' /\ RotationsInOrder' /\ LinesInOrder' /\ Kept'
         /\ PayloadNames'
BY DEF LogInv, FilesTyped, RotationsInOrder, LinesInOrder, Kept, PayloadNames

\* A step of a writer that touches no file: it starts or continues its sweep,
\* gives a rotation up, or ends.
LEMMA WriterStays ==
  ASSUME LogInv, NEW w \in Writers, NEW s \in WriterState, Move(w, s),
         UNCHANGED <<files, clock, days, staged, reader, written, shed, halved>>,
         s.pc \in {"sweeping", "open", "gone"},
         s.pc = "sweeping" => writers[w].pc \in {"unopened", "sweeping"},
         s.pc = "open"
           => writers[w].pc = "rotating" /\ s.count = writers[w].count,
         s.pc # "sweeping" => s.candidates = {},
         days = 0 => \A c \in s.candidates : ~Unfinished(c.name)
  PROVE  LogInv'
<1>1. /\ FilesTyped' /\ RotationsInOrder' /\ LinesInOrder' /\ Kept'
      /\ PayloadNames'
  BY SameFiles
<1>2. /\ writers' = [writers EXCEPT ![w] = s]
      /\ writers \in [Writers -> WriterState]
  BY DEF Move, LogInv, StateTyped
<1>3. StateTyped'
  BY <1>2 DEF LogInv, StateTyped
<1>4. FreeNames'
  BY <1>2 DEF LogInv, FreeNames
<1>5. Counted'
  <2>1. \A e \in written : e[1] \in Writers
    BY EventParts DEF LogInv, StateTyped
  <2>2. ASSUME NEW e \in written
        PROVE  /\ writers'[e[1]].pc \in {"open", "rotating", "gone"}
               /\ writers'[e[1]].pc # "gone" => e[2] <= writers'[e[1]].count
    BY <1>2, <2>1 DEF LogInv, Counted
  <2>3. \A f \in DOMAIN files : f[1] \in Writers
          => EventsOf(files[f]) \subseteq written
    BY DEF LogInv, Counted
  <2>4. QED
    BY <2>2, <2>3 DEF Counted
<1>6. YoungToday' /\ CandidatesInSweep'
  BY <1>2 DEF LogInv, YoungToday, CandidatesInSweep
<1>7. CalmRead'
  BY DEF LogInv, CalmRead, StillListed
<1>8. QED
  BY <1>1, <1>3, <1>4, <1>5, <1>6, <1>7 DEF LogInv

\* A step of the reader changes what it has read, and nothing else.
LEMMA ReaderSteps ==
  ASSUME LogInv, reader' \in ReadState, CalmRead',
         UNCHANGED <<files, clock, days, writers, staged, written, shed, halved>>
  PROVE  LogInv'
<1>1. /\ FilesTyped' /\ RotationsInOrder' /\ LinesInOrder' /\ Kept'
      /\ PayloadNames'
  BY SameFiles
<1>2. StateTyped'
  BY DEF LogInv, StateTyped
<1>3. FreeNames' /\ Counted' /\ YoungToday' /\ CandidatesInSweep'
  BY DEF LogInv, FreeNames, Counted, YoungToday, CandidatesInSweep
<1>4. QED
  BY <1>1, <1>2, <1>3 DEF LogInv

\* Nothing is written yet.
LEMMA LogInvInit == Init => LogInv
<1>1. SUFFICES ASSUME Init PROVE LogInv
  OBVIOUS
<1>2. DOMAIN files = {} /\ written = {} /\ shed = {} /\ halved = {}
  BY <1>1 DEF Init
<1>3. NotOpen \in WriterState /\ NotOpen.pc = "unopened"
      /\ NotOpen.candidates = {}
  BY BoundsAssumption DEF NotOpen, WriterState, WriterSteps
<1>4. NotReading \in ReadState /\ ~NotReading.on
  BY DEF NotReading, ReadState
<1>5. FilesTyped /\ StateTyped
  BY <1>1, <1>2, <1>3, <1>4 DEF Init, FilesTyped, StateTyped
<1>6. FreeNames /\ Counted /\ RotationsInOrder /\ LinesInOrder /\ Kept
  BY <1>2, <1>1, <1>3 DEF Init, FreeNames, Counted, RotationsInOrder,
     LinesInOrder, Kept
<1>7. PayloadNames /\ YoungToday /\ CandidatesInSweep /\ CalmRead
  BY <1>1, <1>2, <1>3, <1>4 DEF Init, PayloadNames, YoungToday,
     CandidatesInSweep, CalmRead
<1>8. QED
  BY <1>5, <1>6, <1>7 DEF LogInv

\* A sweep begins.
LEMMA LogInvList ==
  ASSUME LogInv, NEW w \in Writers, ListDirectory(w)
  PROVE  LogInv'
<1> DEFINE s == [writers[w] EXCEPT !.pc = "sweeping", !.listed = DOMAIN files]
<1>1. writers[w] \in WriterState /\ DOMAIN files \subseteq Names
  BY DEF LogInv, StateTyped, FilesTyped
<1>2. s \in WriterState /\ s.pc = "sweeping"
      /\ s.candidates = writers[w].candidates
  BY <1>1 DEF WriterState, WriterSteps
<1>3. writers[w].pc = "unopened" /\ Move(w, s)
  BY DEF ListDirectory, At
<1>4. writers[w].candidates = {}
  BY <1>3 DEF LogInv, CandidatesInSweep
<1> HIDE DEF s
<1>5. QED
  BY <1>2, <1>3, <1>4, WriterStays DEF ListDirectory

\* A sweep looks at one file.
LEMMA LogInvStat ==
  ASSUME LogInv, NEW w \in Writers, NEW f \in Names, StatEntry(w, f)
  PROVE  LogInv'
<1>1. writers[w] \in WriterState /\ writers[w].pc = "sweeping"
  BY DEF LogInv, StateTyped, StatEntry, At
<1>2. CASE f \notin DOMAIN files
  <2> DEFINE s == [writers[w] EXCEPT !.listed = @ \ {f}]
  <2>1. /\ s \in WriterState /\ s.pc = "sweeping" /\ Move(w, s)
        /\ s.candidates = writers[w].candidates
    BY <1>1, <1>2 DEF WriterState, WriterSteps, StatEntry
  <2> HIDE DEF s
  <2>2. QED
    BY <1>1, <2>1, WriterStays DEF StatEntry, LogInv, YoungToday
<1>3. CASE f \in DOMAIN files
  <2> DEFINE C == IF Candidate(f) THEN writers[w].candidates \cup {Seen(f)}
                                  ELSE writers[w].candidates
             T == writers[w].total + Seen(f).size
             s == [writers[w] EXCEPT !.listed = @ \ {f}, !.total = T,
                                     !.candidates = C]
  <2>1. Seen(f) \in Sighting /\ Seen(f).name = f
    <3>1. files[f] \in LogFile(f[1])
      BY <1>3 DEF LogInv, FilesTyped
    <3>2. Len(files[f].lines) \in Nat /\ files[f].at \in Nat
      BY <3>1, FileHolds DEF LogFile
    <3>3. QED
      BY <3>2 DEF Seen, Sighting
  <2>2. C \in SUBSET Sighting
    BY <1>1, <2>1 DEF WriterState
  <2>3. days = 0 => \A c \in C : ~Unfinished(c.name)
    BY <1>3, <2>1 DEF LogInv, YoungToday, Candidate
  <2>4. T \in Int
    BY <1>1, <2>1 DEF Sighting, WriterState
  <2> HIDE DEF C, T
  <2>5. s \in WriterState /\ s.pc = "sweeping" /\ s.candidates = C
    BY <1>1, <2>2, <2>4 DEF WriterState, WriterSteps
  <2>6. Move(w, s)
    BY <1>3 DEF StatEntry, C, T
  <2> HIDE DEF s
  <2>7. QED
    BY <1>1, <2>3, <2>5, <2>6, WriterStays DEF StatEntry
<1>4. QED
  BY <1>2, <1>3

\* Files that go, or move to another name, keep what they hold: old names the
\* file each came from.  The order of a writer's suffixes is kept.
LEMMA Carried ==
  ASSUME LogInv, NEW old, UNCHANGED <<clock, written, halved>>,
         shed \subseteq shed',
         \A h \in DOMAIN files' :
           /\ h \in Names
           /\ old[h] \in DOMAIN files
           /\ old[h][1] = h[1]
           /\ files'[h] = files[old[h]],
         \A h, k \in DOMAIN files' :
           h[1] \in Writers /\ h[1] = k[1] /\ h[2] > k[2]
             => old[h][2] > old[k][2],
         \A f \in DOMAIN files : f[1] \in Writers =>
           \/ EventsOf(files[f]) \subseteq shed'
           \/ \E h \in DOMAIN files' : h[1] = f[1] /\ files'[h] = files[f]
  PROVE  /\ FilesTyped' /\ RotationsInOrder' /\ LinesInOrder' /\ Kept'
         /\ \A h \in DOMAIN files' : h[1] \in Writers
              => EventsOf(files'[h]) \subseteq written'
<1>1. FilesTyped'
  BY DEF LogInv, FilesTyped
<1>2. RotationsInOrder'
  <2>1. SUFFICES ASSUME NEW h \in DOMAIN files', NEW k \in DOMAIN files',
                        h[1] \in Writers, h[1] = k[1], h[2] > k[2],
                        NEW a \in EventsOf(files'[h]),
                        NEW b \in EventsOf(files'[k])
                 PROVE  a[2] < b[2]
    BY DEF RotationsInOrder, EventsOf
  <2>2. /\ old[h] \in DOMAIN files /\ old[k] \in DOMAIN files
        /\ old[h][1] \in Writers /\ old[h][1] = old[k][1]
        /\ old[h][2] > old[k][2]
        /\ a \in EventsOf(files[old[h]]) /\ b \in EventsOf(files[old[k]])
    BY <2>1
  <2>3. QED
    BY <2>2 DEF LogInv, RotationsInOrder
<1>3. LinesInOrder'
  BY DEF LogInv, LinesInOrder
<1>4. Kept'
  <2>1. SUFFICES ASSUME NEW e \in written, e \notin shed', e[1] \notin halved
                 PROVE  \E h \in DOMAIN files' :
                          h[1] = e[1] /\ e \in EventsOf(files'[h])
    BY DEF Kept, EventsOf
  <2>2. e[1] \in Writers
    BY EventParts DEF LogInv, StateTyped
  <2>3. PICK f \in DOMAIN files : f[1] = e[1] /\ e \in EventsOf(files[f])
    BY <2>1 DEF LogInv, Kept
  <2>4. PICK h \in DOMAIN files' : h[1] = f[1] /\ files'[h] = files[f]
    BY <2>1, <2>2, <2>3
  <2>5. QED
    BY <2>3, <2>4
<1>5. \A h \in DOMAIN files' : h[1] \in Writers
        => EventsOf(files'[h]) \subseteq written'
  BY DEF LogInv, Counted
<1>6. QED
  BY <1>1, <1>2, <1>3, <1>4, <1>5

\* A read under way keeps its promise while the files it has yet to read hold
\* what they held of the events it is to return.
LEMMA ReadGoesOn ==
  ASSUME LogInv, UNCHANGED reader, written \subseteq written',
         halved \subseteq halved', shed \subseteq shed',
         \A e \in reader.before \ shed' : \A f \in reader.listed :
           f[1] = e[1] /\ e \in Events /\ e \in written =>
             (f \in DOMAIN files /\ e \in EventsOf(files[f])
                <=> f \in DOMAIN files' /\ e \in EventsOf(files'[f]))
  PROVE  CalmRead'
<1>1. SUFFICES ASSUME reader.on, reader.calm PROVE CalmRead'
  BY DEF CalmRead
<1>2. reader.before \subseteq written' /\ reader.before \subseteq written
      /\ reader.before \subseteq Events
  BY <1>1 DEF LogInv, CalmRead, StateTyped
<1>3. ASSUME NEW e \in reader.before, e \notin shed', e[1] \notin halved'
      PROVE  IF StillListed(e)' THEN reader.found[e] = 0
                                ELSE reader.found[e] = 1
  <2>1. StillListed(e) <=> StillListed(e)'
    BY <1>2, <1>3 DEF StillListed, EventsOf
  <2>2. QED
    BY <1>1, <1>3, <2>1 DEF LogInv, CalmRead
<1>4. QED
  BY <1>2, <1>3 DEF CalmRead

\* The oldest of some candidates is one of them.
LEMMA OldestIsCandidate ==
  ASSUME NEW C, C \subseteq Sighting, C # {}
  PROVE  OldestOf(C) \in C
<1> DEFINE Times == {c.at : c \in C}
<1>1. Times \subseteq Nat /\ Times # {}
  BY DEF Sighting
<1> HIDE DEF Times
<1>2. PICK t \in Times : \A u \in Times : t <= u
  BY <1>1, LeastNumber
<1>3. \E c \in C : \A d \in C : c.at <= d.at
  BY <1>2 DEF Times
<1>4. QED
  BY <1>3 DEF OldestOf

\* A sweep deletes the oldest candidate, or fails to.
LEMMA LogInvSweep ==
  ASSUME LogInv, NEW w \in Writers, SweepOne(w)
  PROVE  LogInv'
<1> DEFINE oldest == OldestOf(writers[w].candidates)
           f == oldest.name
           rest == [writers[w] EXCEPT !.candidates = @ \ {oldest}]
           less == [rest EXCEPT !.total = @ - oldest.size]
<1>1. /\ writers[w] \in WriterState /\ writers[w].pc = "sweeping"
      /\ writers \in [Writers -> WriterState]
  BY DEF LogInv, StateTyped, SweepOne, At
<1>2. oldest \in Sighting
  BY <1>1, OldestIsCandidate DEF WriterState, SweepOne
<1>3. \A s \in {rest, less} :
        /\ s \in WriterState /\ s.pc = "sweeping"
        /\ s.candidates \subseteq writers[w].candidates
  <2>1. rest \in WriterState /\ rest.pc = "sweeping"
        /\ rest.candidates \subseteq writers[w].candidates
    BY <1>1 DEF WriterState, WriterSteps
  <2>2. rest.total - oldest.size \in Int
    BY <1>2, <2>1 DEF WriterState, Sighting
  <2> HIDE DEF rest, oldest
  <2>3. less \in WriterState /\ less.pc = "sweeping"
        /\ less.candidates = rest.candidates
    BY <2>1, <2>2 DEF WriterState, WriterSteps
  <2>4. QED
    BY <2>1, <2>3
<1>4. \/ /\ f \in DOMAIN files /\ files' = Without(f)
         /\ shed' = shed \cup EventsOf(files[f]) /\ Move(w, less)
      \/ Move(w, rest) /\ UNCHANGED <<files, shed>>
  BY DEF SweepOne
<1>5. UNCHANGED <<clock, days, staged, reader, written, halved>>
  BY DEF SweepOne
<1> HIDE DEF oldest, f, rest, less
<1>6. CASE Move(w, rest) /\ UNCHANGED <<files, shed>>
  BY <1>1, <1>3, <1>5, <1>6, WriterStays DEF LogInv, YoungToday
<1>7. CASE /\ f \in DOMAIN files /\ files' = Without(f)
           /\ shed' = shed \cup EventsOf(files[f]) /\ Move(w, less)
  <2>1. /\ DOMAIN files' = DOMAIN files \ {f}
        /\ \A h \in DOMAIN files' : files'[h] = files[h]
    BY <1>7 DEF Without
  <2>2. writers' = [writers EXCEPT ![w] = less]
    BY <1>7 DEF Move
  <2>3. /\ FilesTyped' /\ RotationsInOrder' /\ LinesInOrder' /\ Kept'
        /\ \A h \in DOMAIN files' : h[1] \in Writers
             => EventsOf(files'[h]) \subseteq written'
    <3> DEFINE old == [h \in Names |-> h]
    <3>1. \A h \in DOMAIN files' : h \in Names /\ old[h] = h
      BY <2>1 DEF LogInv, FilesTyped
    <3>2. \A g \in DOMAIN files : \/ EventsOf(files[g]) \subseteq shed'
                                  \/ g \in DOMAIN files'
      BY <1>7, <2>1
    <3> HIDE DEF old
    <3>3. QED
      BY <1>5, <1>7, <2>1, <3>1, <3>2, Carried
  <2>4. EventsOf(files[f]) \subseteq Events \cup Payloads \X {1}
    <3>1. f \in Names
      BY <1>7 DEF LogInv, FilesTyped
    <3>2. QED
      BY <1>7, <3>1, OwnEvents, NameParts DEF LogInv
  <2>5. StateTyped'
    BY <1>1, <1>3, <1>5, <1>7, <2>2, <2>4 DEF LogInv, StateTyped
  <2>6. FreeNames' /\ YoungToday' /\ CandidatesInSweep'
    BY <1>1, <1>3, <1>5, <2>1, <2>2
       DEF LogInv, FreeNames, YoungToday, CandidatesInSweep
  <2>7. Counted'
    <3>1. \A e \in written : e[1] \in Writers
      BY EventParts DEF LogInv, StateTyped
    <3>2. \A e \in written : e[1] # w
      BY <1>1 DEF LogInv, Counted
    <3>3. QED
      BY <1>5, <2>2, <2>3, <3>1, <3>2 DEF LogInv, Counted, EventsOf
  <2>8. PayloadNames'
    BY <1>5, <2>1 DEF LogInv, PayloadNames
  <2>9. CalmRead'
    BY <1>5, <1>7, <2>1, ReadGoesOn
  <2>10. QED
    BY <2>3, <2>5, <2>6, <2>7, <2>8, <2>9 DEF LogInv
<1>8. QED
  BY <1>4, <1>6, <1>7

\* A writer ends, or gives a rotation up.
LEMMA LogInvEnd ==
  ASSUME LogInv, NEW w \in Writers, WriterEnds(w) \/ RotationFails(w)
  PROVE  LogInv'
<1>1. writers[w] \in WriterState
  BY DEF LogInv, StateTyped
<1>2. CASE WriterEnds(w)
  <2> DEFINE s == [NotOpen EXCEPT !.pc = "gone"]
  <2>1. s \in WriterState /\ s.pc = "gone" /\ s.candidates = {}
    BY BoundsAssumption DEF NotOpen, WriterState, WriterSteps
  <2>2. Move(w, s)
    BY <1>2 DEF WriterEnds
  <2> HIDE DEF s
  <2>3. QED
    BY <1>2, <2>1, <2>2, WriterStays DEF WriterEnds
<1>3. CASE RotationFails(w)
  <2> DEFINE s == [writers[w] EXCEPT !.pc = "open", !.suffix = 0]
  <2>1. writers[w].pc = "rotating" /\ Move(w, s)
    BY <1>3 DEF RotationFails, At
  <2>2. /\ s \in WriterState /\ s.pc = "open" /\ s.count = writers[w].count
        /\ s.candidates = writers[w].candidates
    <3>1. "open" \in WriterSteps /\ 0 \in 0 .. Keep
      BY BoundsAssumption DEF WriterSteps
    <3>2. QED
      BY <1>1, <3>1 DEF WriterState
  <2>3. writers[w].candidates = {}
    BY <2>1 DEF LogInv, CandidatesInSweep
  <2> HIDE DEF s
  <2>4. QED
    BY <1>3, <2>1, <2>2, <2>3, WriterStays DEF RotationFails
<1>4. QED
  BY <1>2, <1>3

\* A rotation deletes the oldest file, or moves one into the suffix it freed.
LEMMA LogInvRotate ==
  ASSUME LogInv, NEW w \in Writers, RotateStep(w)
  PROVE  LogInv'
<1> DEFINE n == writers[w].suffix
           f == <<w, n>>
           g == <<w, n + 1>>
           last == [writers[w] EXCEPT !.pc = "open", !.suffix = 0]
           lower == n - 1
           next == [writers[w] EXCEPT !.suffix = lower]
           s == IF n = 0 THEN last ELSE next
<1>1. /\ writers[w] \in WriterState /\ writers[w].pc = "rotating"
      /\ writers \in [Writers -> WriterState]
      /\ n \in 0 .. Keep
  BY DEF LogInv, StateTyped, RotateStep, At, WriterState
<1>2. /\ files' = IF f \notin DOMAIN files THEN files
                  ELSE IF n = Keep THEN Without(f) ELSE Renamed(f, g)
      /\ shed' = IF n = Keep /\ f \in DOMAIN files
                   THEN shed \cup EventsOf(files[f]) ELSE shed
      /\ writers' = [writers EXCEPT ![w] = s]
      /\ reader' = [reader EXCEPT !.calm = ~reader.on]
      /\ UNCHANGED <<clock, days, staged, written, halved>>
  BY <1>1 DEF RotateStep, FirstSuffix, Deleted, NextSuffix, Move
<1>3. /\ s \in WriterState /\ s.count = writers[w].count
      /\ s.candidates = writers[w].candidates
      /\ n = 0 => s.pc = "open"
      /\ n # 0 => s.pc = "rotating" /\ s.suffix = n - 1
  <2>1. /\ last \in WriterState /\ last.count = writers[w].count
        /\ last.candidates = writers[w].candidates /\ last.pc = "open"
    <3>1. "open" \in WriterSteps /\ 0 \in 0 .. Keep
      BY BoundsAssumption DEF WriterSteps
    <3>2. QED
      BY <1>1, <3>1 DEF WriterState
  <2>2. ASSUME n # 0 PROVE n - 1 \in 0 .. Keep
    BY <1>1, <2>2, BoundsAssumption
  <2>3. ASSUME n # 0
        PROVE  /\ next \in WriterState /\ next.count = writers[w].count
               /\ next.candidates = writers[w].candidates
               /\ next.pc = "rotating" /\ next.suffix = lower
    <3>1. lower \in 0 .. Keep
      BY <2>2, <2>3
    <3> HIDE DEF n, lower
    <3>2. QED
      BY <1>1, <3>1 DEF WriterState
  <2>4. QED
    BY <2>1, <2>3
<1>4. n < Keep => g \notin DOMAIN files
  BY <1>1 DEF LogInv, FreeNames
<1>5. /\ f \in DOMAIN files /\ n = Keep =>
           /\ DOMAIN files' = DOMAIN files \ {f}
           /\ \A h \in DOMAIN files' : files'[h] = files[h]
      /\ f \in DOMAIN files /\ n # Keep =>
           /\ DOMAIN files' = (DOMAIN files \ {f}) \cup {g}
           /\ files'[g] = files[f]
           /\ \A h \in DOMAIN files' \ {g} : files'[h] = files[h]
  BY <1>2 DEF Without, Renamed
<1>6. f[1] = w /\ f[2] = n /\ g[1] = w /\ g[2] = n + 1
  OBVIOUS
<1>7. n # Keep => g \in Names
  BY <1>1, BoundsAssumption DEF Names
<1> HIDE DEF n, f, g, lower, last, next, s
<1>8. DOMAIN files \subseteq Names /\ \A h \in Names : h = <<h[1], h[2]>>
  BY NameParts DEF LogInv, FilesTyped
<1>9. /\ FilesTyped' /\ RotationsInOrder' /\ LinesInOrder' /\ Kept'
      /\ \A h \in DOMAIN files' : h[1] \in Writers
           => EventsOf(files'[h]) \subseteq written'
  <2>1. CASE f \notin DOMAIN files
    <3>1. files' = files /\ shed' = shed
      BY <1>2, <2>1
    <3>2. QED
      BY <1>2, <3>1 DEF LogInv, FilesTyped, RotationsInOrder, LinesInOrder,
         Kept, Counted
  <2>2. CASE f \in DOMAIN files /\ n = Keep
    <3> DEFINE old == [h \in Names |-> h]
    <3>1. \A h \in DOMAIN files' : h \in Names /\ old[h] = h
      BY <1>5, <1>8, <2>2
    <3>2. \A h \in DOMAIN files : \/ EventsOf(files[h]) \subseteq shed'
                                  \/ h \in DOMAIN files'
      BY <1>2, <1>5, <2>2
    <3> HIDE DEF old
    <3>3. QED
      BY <1>2, <1>5, <2>2, <3>1, <3>2, Carried
  <2>3. CASE f \in DOMAIN files /\ n # Keep
    <3> DEFINE old == [h \in Names |-> IF h = g THEN f ELSE h]
    <3>1. \A h \in DOMAIN files' : /\ h \in Names
                                   /\ old[h] = IF h = g THEN f ELSE h
      BY <1>5, <1>7, <1>8, <2>3
    <3> HIDE DEF old
    <3>2. \A h \in DOMAIN files' : /\ old[h] \in DOMAIN files
                                   /\ old[h][1] = h[1]
                                   /\ files'[h] = files[old[h]]
      BY <1>5, <1>6, <2>3, <3>1
    <3>3. ASSUME NEW h \in DOMAIN files', NEW k \in DOMAIN files',
                 h[1] = k[1], h[2] > k[2]
          PROVE  old[h][2] > old[k][2]
      <4>1. h[2] \in Nat /\ k[2] \in Nat /\ n \in Nat
        BY <1>1, <3>1, NameParts
      <4>2. CASE h = g
        <5>1. k # g /\ k[1] = w /\ k # f
          BY <1>5, <1>6, <2>3, <3>3, <4>1, <4>2
        <5>2. k[2] # n
          BY <5>1, <1>8, <3>1 DEF f
        <5>3. k[2] < n
          BY <1>6, <3>3, <4>1, <4>2, <5>2
        <5>4. QED
          BY <1>6, <3>1, <4>1, <4>2, <5>1, <5>3
      <4>3. CASE k = g
        <5>1. QED
          BY <1>6, <3>1, <3>3, <4>1, <4>3
      <4>4. CASE h # g /\ k # g
        BY <3>1, <3>3, <4>4
      <4>5. QED
        BY <4>2, <4>3, <4>4
    <3>4. \A h \in DOMAIN files : \E k \in DOMAIN files' :
            k[1] = h[1] /\ files'[k] = files[h]
      <4>1. SUFFICES ASSUME NEW h \in DOMAIN files
                     PROVE  \E k \in DOMAIN files' :
                              k[1] = h[1] /\ files'[k] = files[h]
        OBVIOUS
      <4>2. CASE h = f
        BY <1>5, <1>6, <2>3, <4>2
      <4>3. CASE h # f
        <5>1. h # g
          BY <1>1, <1>4, <2>3, BoundsAssumption
        <5>2. QED
          BY <1>5, <2>3, <4>3, <5>1
      <4>4. QED
        BY <4>2, <4>3
    <3>5. QED
      BY <1>2, <2>3, <3>1, <3>2, <3>3, <3>4, Carried
  <2>4. QED
    BY <2>1, <2>2, <2>3
<1>10. StateTyped'
  <2>1. f \in DOMAIN files => EventsOf(files[f]) \subseteq Events
    BY <1>6, OwnEvents DEF LogInv
  <2>2. reader' \in ReadState
    BY <1>2 DEF LogInv, StateTyped, ReadState
  <2>3. QED
    BY <1>1, <1>2, <1>3, <2>1, <2>2 DEF LogInv, StateTyped
<1>11. FreeNames'
  <2>1. ASSUME NEW v \in Writers, v # w, NEW k \in Int,
               <<v, k>> \in DOMAIN files'
        PROVE  <<v, k>> \in DOMAIN files
    BY <1>2, <1>5, <1>6, <2>1
  <2>2. n # 0 => f \notin DOMAIN files'
    BY <1>1, <1>2, <1>5, <1>6
  <2>3. n # 0 => <<w, s.suffix + 1>> = f
    BY <1>1, <1>3 DEF f
  <2>4. ASSUME NEW v \in Writers, v # w PROVE writers'[v] = writers[v]
    BY <1>1, <1>2, <2>4
  <2>5. writers'[w] = s
    BY <1>1, <1>2
  <2>6. \A v \in Writers : writers[v] \in WriterState
    BY <1>1
  <2>7. QED
    BY <1>3, <2>1, <2>2, <2>3, <2>4, <2>5, <2>6, BoundsAssumption
       DEF LogInv, FreeNames, WriterState
<1>12. Counted'
  <2>1. \A e \in written : e[1] \in Writers
    BY EventParts DEF LogInv, StateTyped
  <2>2. ASSUME NEW e \in written
        PROVE  /\ writers'[e[1]].pc \in {"open", "rotating", "gone"}
               /\ writers'[e[1]].pc # "gone" => e[2] <= writers'[e[1]].count
    BY <1>1, <1>2, <1>3, <2>1 DEF LogInv, Counted
  <2>3. QED
    BY <1>2, <1>9, <2>2 DEF Counted, EventsOf
<1>13. PayloadNames'
  <2>1. ASSUME NEW p \in Payloads, NEW k \in {0, 1}
        PROVE  /\ <<p, k>> \in DOMAIN files' <=> <<p, k>> \in DOMAIN files
               /\ <<p, k>> \in DOMAIN files => files'[<<p, k>>] = files[<<p, k>>]
    <3>1. p # w
      BY NamesAssumption
    <3>2. QED
      BY <1>2, <1>5, <1>6, <3>1
  <2>2. QED
    BY <1>2, <2>1 DEF LogInv, PayloadNames
<1>14. YoungToday' /\ CandidatesInSweep'
  <2>1. \A h \in DOMAIN files' : \E k \in DOMAIN files : files'[h] = files[k]
    BY <1>2, <1>5
  <2>2. \A v \in Writers : /\ writers'[v].candidates = writers[v].candidates
                           /\ writers[v].pc # "sweeping"
                                <=> writers'[v].pc # "sweeping"
    BY <1>1, <1>2, <1>3
  <2>3. QED
    BY <1>2, <2>1, <2>2 DEF LogInv, YoungToday, CandidatesInSweep
<1>15. CalmRead'
  <2>1. reader'.calm = ~reader.on /\ reader'.on = reader.on
    BY <1>2 DEF LogInv, StateTyped, ReadState
  <2>2. QED
    BY <2>1 DEF CalmRead
<1>16. QED
  BY <1>9, <1>10, <1>11, <1>12, <1>13, <1>14, <1>15 DEF LogInv

\* What a writer's current file holds before it is touched.
Held(w) == IF <<w, 0>> \in DOMAIN files THEN EventsOf(files[<<w, 0>>]) ELSE {}

\* A writer touches its current file: what it held stays, and what is added
\* to it is written now and follows everything the writer wrote.
LEMMA Touched ==
  ASSUME LogInv, NEW w \in Writers, NEW file \in LogFile(w),
         NEW W \in SUBSET Events, NEW s \in WriterState, Move(w, s),
         s.pc = "open" \/ (s.pc = "rotating" /\ s.suffix = Keep),
         s.candidates = {},
         \A e \in written \cup W : e[1] = w => e[2] <= s.count,
         files' = With(<<w, 0>>, file), written' = written \cup W,
         clock' = clock + 1, halved \subseteq halved',
         halved' \subseteq Writers,
         UNCHANGED <<days, shed, reader, staged>>,
         file.torn => w \in halved', file.at < clock', ~file.old,
         \A e \in W : e[1] = w /\ \A d \in written : d[1] = w => d[2] < e[2],
         \A e \in W : w \in halved' \/ e \in EventsOf(file),
         Held(w) \subseteq EventsOf(file), EventsOf(file) \subseteq Held(w) \cup W,
         \A i, j \in DOMAIN file.lines :
           i < j /\ file.lines[i] # Lost /\ file.lines[j] # Lost
             => file.lines[i][2] < file.lines[j][2]
  PROVE  LogInv'
<1> DEFINE c == <<w, 0>>
<1>1. /\ DOMAIN files' = DOMAIN files \cup {c}
      /\ files'[c] = file
      /\ \A h \in DOMAIN files' \ {c} : h \in DOMAIN files /\ files'[h] = files[h]
  BY DEF With
<1>2. c \in Names /\ c[1] = w /\ c[2] = 0
  BY BoundsAssumption DEF Names
<1> HIDE DEF c
<1>3. DOMAIN files' \subseteq Names
  BY <1>1, <1>2 DEF LogInv, FilesTyped
<1>4. clock \in Nat /\ clock' \in Nat
  <2>1. clock \in Nat
    BY DEF LogInv, StateTyped
  <2>2. QED
    BY <2>1
<1>5. FilesTyped'
  <2>1. ASSUME NEW h \in DOMAIN files'
        PROVE  /\ files'[h] \in LogFile(h[1])
               /\ files'[h].torn => h[1] \in halved'
               /\ files'[h].at < clock'
    <3>1. CASE h = c
      BY <1>1, <1>2, <3>1
    <3>2. CASE h # c
      <4>1. h \in DOMAIN files /\ files'[h] = files[h]
        BY <1>1, <3>2
      <4>2. /\ files[h] \in LogFile(h[1]) /\ files[h].at < clock
            /\ files[h].torn => h[1] \in halved
        BY <4>1 DEF LogInv, FilesTyped
      <4>3. files[h].at \in Nat
        BY <4>2 DEF LogFile
      <4>4. QED
        BY <1>4, <4>1, <4>2, <4>3
    <3>3. QED
      BY <3>1, <3>2
  <2>2. QED
    BY <1>3, <2>1 DEF FilesTyped
<1>6. \A h \in DOMAIN files : h[1] \in Writers
        => /\ EventsOf(files[h]) \subseteq written
           /\ \A e \in EventsOf(files[h]) : e[1] = h[1] /\ e[2] \in Int
  BY OwnEvents, EventParts DEF LogInv, Counted
<1>7. \A h \in DOMAIN files' : h[1] \in Writers
        => EventsOf(files'[h]) \subseteq written'
  BY <1>1, <1>2, <1>6 DEF Held, c
<1>8. RotationsInOrder'
  <2>1. SUFFICES ASSUME NEW f \in DOMAIN files', NEW g \in DOMAIN files',
                        f[1] \in Writers, f[1] = g[1], f[2] > g[2],
                        NEW a \in EventsOf(files'[f]),
                        NEW b \in EventsOf(files'[g])
                 PROVE  a[2] < b[2]
    BY DEF RotationsInOrder, EventsOf
  <2>2. f # c
    BY <1>2, <1>3, <2>1, NameParts
  <2>3. f \in DOMAIN files /\ a \in EventsOf(files[f])
    BY <1>1, <2>2
  <2>4. CASE g # c
    <3>1. g \in DOMAIN files /\ b \in EventsOf(files[g])
      BY <1>1, <2>4
    <3>2. QED
      BY <2>1, <2>3, <3>1 DEF LogInv, RotationsInOrder
  <2>5. CASE g = c /\ b \in Held(w)
    <3>1. g \in DOMAIN files /\ b \in EventsOf(files[g])
      BY <2>5 DEF Held, c
    <3>2. QED
      BY <2>1, <2>3, <3>1 DEF LogInv, RotationsInOrder
  <2>6. CASE g = c /\ b \notin Held(w)
    <3>1. b \in W
      BY <1>1, <2>6
    <3>2. a \in written /\ a[1] = w
      BY <1>2, <1>6, <2>1, <2>3, <2>6
    <3>3. QED
      BY <3>1, <3>2
  <2>7. QED
    BY <2>4, <2>5, <2>6
<1>9. LinesInOrder'
  <2>1. ASSUME NEW f \in DOMAIN files', f[1] \in Writers,
               NEW i \in DOMAIN files'[f].lines, NEW j \in DOMAIN files'[f].lines,
               i < j, files'[f].lines[i] # Lost, files'[f].lines[j] # Lost
        PROVE  files'[f].lines[i][2] < files'[f].lines[j][2]
    BY <1>1, <2>1 DEF LogInv, LinesInOrder
  <2>2. QED
    BY <2>1 DEF LinesInOrder, Lost
<1>10. Kept'
  <2>1. SUFFICES ASSUME NEW e \in written', e \notin shed, e[1] \notin halved'
                 PROVE  \E h \in DOMAIN files' :
                          h[1] = e[1] /\ e \in EventsOf(files'[h])
    BY DEF Kept, EventsOf
  <2>2. CASE e \in W
    BY <1>1, <1>2, <2>1, <2>2
  <2>3. CASE e \in written
    <3>1. PICK h \in DOMAIN files : h[1] = e[1] /\ e \in EventsOf(files[h])
      BY <2>1, <2>3 DEF LogInv, Kept
    <3>2. CASE h = c
      BY <1>1, <3>1, <3>2 DEF Held, c
    <3>3. CASE h # c
      BY <1>1, <3>1, <3>3
    <3>4. QED
      BY <3>2, <3>3
  <2>4. QED
    BY <2>2, <2>3
<1>11. PayloadNames'
  <2>1. ASSUME NEW p \in Payloads, NEW k \in {0, 1}
        PROVE  /\ <<p, k>> \in DOMAIN files' <=> <<p, k>> \in DOMAIN files
               /\ <<p, k>> \in DOMAIN files => files'[<<p, k>>] = files[<<p, k>>]
    <3>1. p # w
      BY NamesAssumption
    <3>2. QED
      BY <1>1, <1>2, <3>1
  <2>2. QED
    BY <2>1 DEF LogInv, PayloadNames
<1>12. CalmRead'
  <2>1. ASSUME NEW e \in Events, e \in written, NEW f, f[1] = e[1]
        PROVE  f \in DOMAIN files /\ e \in EventsOf(files[f])
                 <=> f \in DOMAIN files' /\ e \in EventsOf(files'[f])
    <3>1. CASE f # c
      BY <1>1, <3>1
    <3>2. CASE f = c
      <4>1. e[1] = w /\ e[2] \in Int
        BY <1>2, <2>1, <3>2, EventParts
      <4>2. e \notin W
        BY <2>1, <4>1
      <4>3. e \in EventsOf(file) <=> e \in Held(w)
        BY <4>2
      <4>4. QED
        BY <1>1, <3>2, <4>3 DEF Held, c
    <3>3. QED
      BY <3>1, <3>2
  <2>2. QED
    BY <2>1, ReadGoesOn
<1>13. /\ writers' = [writers EXCEPT ![w] = s]
       /\ writers \in [Writers -> WriterState]
  BY DEF Move, LogInv, StateTyped
<1>14. StateTyped'
  BY <1>4, <1>13 DEF LogInv, StateTyped
<1>15. FreeNames'
  <2>1. ASSUME NEW v \in Writers, v # w, NEW k, <<v, k>> \in DOMAIN files'
        PROVE  <<v, k>> \in DOMAIN files /\ writers'[v] = writers[v]
    BY <1>1, <1>2, <1>13, <2>1
  <2>2. writers'[w] = s
    BY <1>13
  <2>3. ASSUME NEW v \in Writers, writers'[v].pc \in {"unopened", "sweeping"},
               NEW k \in 0 .. Keep
        PROVE  <<v, k>> \notin DOMAIN files'
    <3>1. v # w
      BY <2>2, <2>3
    <3>2. QED
      BY <2>1, <2>3, <3>1 DEF LogInv, FreeNames
  <2>4. ASSUME NEW v \in Writers, writers'[v].pc = "rotating",
               writers'[v].suffix < Keep
        PROVE  <<v, writers'[v].suffix + 1>> \notin DOMAIN files'
    <3>1. v # w
      BY <2>2, <2>4, BoundsAssumption
    <3>2. writers'[v] = writers[v]
      BY <1>13, <3>1
    <3>3. <<v, writers[v].suffix + 1>> \notin DOMAIN files
      BY <2>4, <3>2 DEF LogInv, FreeNames
    <3>4. QED
      BY <2>1, <3>1, <3>2, <3>3
  <2>5. QED
    BY <2>3, <2>4 DEF FreeNames
<1>16. Counted'
  <2>1. \A e \in written' : e[1] \in Writers
    BY EventParts DEF LogInv, StateTyped
  <2>2. ASSUME NEW e \in written'
        PROVE  /\ writers'[e[1]].pc \in {"open", "rotating", "gone"}
               /\ writers'[e[1]].pc # "gone" => e[2] <= writers'[e[1]].count
    BY <1>13, <2>1 DEF LogInv, Counted
  <2>3. QED
    BY <1>7, <2>2 DEF Counted, EventsOf
<1>17. YoungToday'
  <2>1. ASSUME days = 0, NEW h \in DOMAIN files' PROVE ~files'[h].old
    BY <1>1, <2>1 DEF LogInv, YoungToday
  <2>2. ASSUME days = 0, NEW v \in Writers, NEW d \in writers'[v].candidates
        PROVE  ~Unfinished(d.name)
    BY <1>13, <2>2 DEF LogInv, YoungToday
  <2>3. QED
    BY <2>1, <2>2 DEF YoungToday
<1>18. CandidatesInSweep'
  BY <1>13 DEF LogInv, CandidatesInSweep
<1>19. QED
  BY <1>5, <1>8, <1>9, <1>10, <1>11, <1>12, <1>14, <1>15, <1>16, <1>17, <1>18
     DEF LogInv

LEMMA ClockRuns ==
  ASSUME LogInv
  PROVE  clock \in Nat
BY DEF LogInv, StateTyped

\* A line is added at the end.
LEMMA LineAdded ==
  ASSUME NEW S, NEW lines \in Seq(S), NEW x \in S
  PROVE  /\ Append(lines, x) \in Seq(S)
         /\ DOMAIN Append(lines, x) = DOMAIN lines \cup {Len(lines) + 1}
         /\ DOMAIN lines = 1 .. Len(lines) /\ Len(lines) \in Nat
         /\ Append(lines, x)[Len(lines) + 1] = x
         /\ \A i \in DOMAIN lines : Append(lines, x)[i] = lines[i]
OBVIOUS

\* The file an append opens is a file of the writer.
LEMMA OpenedFile ==
  ASSUME LogInv, NEW w \in Writers
  PROVE  /\ Opened(w) \in LogFile(w)
         /\ EventsOf(Opened(w)) = Held(w)
         /\ Opened(w).torn => w \in halved
         /\ \A i, j \in DOMAIN Opened(w).lines :
              i < j /\ Opened(w).lines[i] # Lost /\ Opened(w).lines[j] # Lost
                => Opened(w).lines[i][2] < Opened(w).lines[j][2]
<1> DEFINE c == <<w, 0>>
<1>1. c[1] = w
  OBVIOUS
<1>2. CASE c \in DOMAIN files
  <2>1. Opened(w) = files[c] /\ Held(w) = EventsOf(files[c])
    BY <1>2 DEF Opened, Held
  <2> HIDE DEF c
  <2>2. QED
    BY <1>1, <1>2, <2>1 DEF LogInv, FilesTyped, LinesInOrder
<1>3. CASE c \notin DOMAIN files
  <2>1. /\ Opened(w) = Fresh /\ Held(w) = {}
        /\ Opened(w).lines = << >> /\ ~Opened(w).torn
    BY <1>3 DEF Opened, Held, Fresh
  <2>2. Fresh \in LogFile(w)
    BY ClockRuns DEF Fresh, LogFile
  <2>3. EventsOf(Opened(w)) = {}
    BY <2>1 DEF EventsOf
  <2>4. QED
    BY <2>1, <2>2, <2>3
<1>4. QED
  BY <1>2, <1>3

\* A writer that opens claims its file, or gives up.
LEMMA LogInvClaim ==
  ASSUME LogInv, NEW w \in Writers, ClaimFile(w)
  PROVE  LogInv'
<1>1. /\ writers[w].pc = "sweeping"
      /\ UNCHANGED <<days, staged, reader, written, shed, halved>>
  BY DEF ClaimFile, At
<1>2. CASE Move(w, [NotOpen EXCEPT !.pc = "gone"]) /\ UNCHANGED <<files, clock>>
  <2> DEFINE s == [NotOpen EXCEPT !.pc = "gone"]
  <2>1. s \in WriterState /\ s.pc = "gone" /\ s.candidates = {}
    BY BoundsAssumption DEF NotOpen, WriterState, WriterSteps
  <2> HIDE DEF s
  <2>2. QED
    BY <1>1, <1>2, <2>1, WriterStays DEF s
<1>3. CASE /\ files' = With(<<w, 0>>, Fresh) /\ Tick
           /\ Move(w, [NotOpen EXCEPT !.pc = "open"])
  <2> DEFINE s == [NotOpen EXCEPT !.pc = "open"]
  <2>1. s \in WriterState /\ s.pc = "open" /\ s.candidates = {}
    BY BoundsAssumption DEF NotOpen, WriterState, WriterSteps
  <2>2. <<w, 0>> \notin DOMAIN files
    BY <1>1, BoundsAssumption DEF LogInv, FreeNames
  <2>3. Opened(w) = Fresh
    BY <2>2 DEF Opened
  <2>4. Fresh \in LogFile(w) /\ EventsOf(Fresh) = Held(w)
    BY <2>3, OpenedFile
  <2>5. ~Fresh.torn /\ Fresh.at = clock /\ ~Fresh.old /\ Fresh.lines = << >>
    BY DEF Fresh
  <2>6. \A e \in written : e[1] # w
    BY <1>1 DEF LogInv, Counted
  <2>7. clock' = clock + 1 /\ clock < clock'
    BY <1>3, ClockRuns DEF Tick
  <2>8. Move(w, s) /\ halved \subseteq Writers
    BY <1>3 DEF LogInv, StateTyped
  <2> DEFINE W == {}
  <2>9. /\ W \in SUBSET Events /\ written' = written \cup W
        /\ \A e \in W : FALSE
    BY <1>1
  <2> HIDE DEF s, W
  <2>10. /\ \A e \in written \cup W : e[1] = w => e[2] <= s.count
         /\ Held(w) \subseteq EventsOf(Fresh)
         /\ EventsOf(Fresh) \subseteq Held(w) \cup W
         /\ DOMAIN Fresh.lines = {}
    BY <2>4, <2>5, <2>6, <2>9
  <2>11. QED
    BY <1>1, <1>3, <2>1, <2>4, <2>5, <2>6, <2>7, <2>8, <2>9, <2>10,
       Touched
<1>4. QED
  BY <1>2, <1>3 DEF ClaimFile

\* An append adds the event, or a line that reads back as none.
LEMMA LogInvAppend ==
  ASSUME LogInv, NEW w \in Writers, AppendEvent(w)
  PROVE  LogInv'
<1> DEFINE event == <<w, writers[w].count + 1>>
           was == Opened(w)
           line == IF was.torn THEN Lost ELSE event
           file == Appended(was, event)
           pc == IF Len(file.lines) < RotateAt THEN "open" ELSE "rotating"
           s == [writers[w] EXCEPT !.count = @ + 1, !.suffix = Keep, !.pc = pc]
<1>1. /\ writers[w] \in WriterState /\ writers[w].pc = "open"
      /\ writers[w].count < MaxEvents
  BY DEF LogInv, StateTyped, AppendEvent, At
<1>2. writers[w].count \in 0 .. MaxEvents
  BY <1>1 DEF WriterState
<1>3. /\ event \in Events /\ event[1] = w /\ event[2] = writers[w].count + 1
      /\ event # Lost
  <2>1. event \in Events
    BY <1>1, <1>2, BoundsAssumption DEF Events
  <2>2. QED
    BY <2>1, EventParts
<1>4. /\ was \in LogFile(w) /\ EventsOf(was) = Held(w)
      /\ was.torn => w \in halved
      /\ \A i, j \in DOMAIN was.lines :
           i < j /\ was.lines[i] # Lost /\ was.lines[j] # Lost
             => was.lines[i][2] < was.lines[j][2]
  BY OpenedFile
<1>5. /\ files' = With(<<w, 0>>, file) /\ written' = written \cup {event}
      /\ Move(w, s) /\ clock' = clock + 1
      /\ UNCHANGED <<days, staged, reader, shed, halved>>
  BY DEF AppendEvent, Tick
<1>6. s \in WriterState /\ s.candidates = writers[w].candidates
      /\ s.count = writers[w].count + 1 /\ s.suffix = Keep /\ s.pc = pc
  <2> DEFINE n == writers[w].count + 1
  <2>1. n \in 0 .. MaxEvents /\ Keep \in 0 .. Keep
    BY <1>1, <1>2, BoundsAssumption
  <2>2. pc \in WriterSteps
    BY DEF WriterSteps
  <2>3. s = [writers[w] EXCEPT !.count = n, !.suffix = Keep, !.pc = pc]
    OBVIOUS
  <2> HIDE DEF n, s, pc
  <2>4. /\ s \in WriterState /\ s.candidates = writers[w].candidates
        /\ s.count = n /\ s.suffix = Keep /\ s.pc = pc
    BY <1>1, <2>1, <2>2, <2>3 DEF WriterState
  <2>5. QED
    BY <2>4 DEF n
<1>7. /\ file.lines = Append(was.lines, line) /\ ~file.torn
      /\ file.at = clock /\ ~file.old
      /\ file \in LogFile(w)
  <2>1. clock \in Nat
    BY ClockRuns
  <2>2. line \in EventsBy(w) \cup {Lost}
    BY <1>3 DEF EventsBy, Events
  <2>3. Append(was.lines, line) \in Seq(EventsBy(w) \cup {Lost})
    BY <1>4, <2>2 DEF LogFile
  <2>4. file = [was EXCEPT !.lines = Append(was.lines, line), !.torn = FALSE,
                           !.at = clock, !.old = FALSE]
    BY DEF Appended
  <2> HIDE DEF file, was, line
  <2>5. QED
    BY <1>4, <2>1, <2>3, <2>4 DEF LogFile
<1> HIDE DEF event, was, line, file, pc, s
<1>8. /\ was.lines \in Seq(EventsBy(w) \cup {Lost})
      /\ line \in EventsBy(w) \cup {Lost}
      /\ line = IF was.torn THEN Lost ELSE event
      /\ \A e \in EventsOf(was) : e[2] <= writers[w].count /\ e[2] \in Int
      /\ \A e : e \in EventsOf(was) <=>
           e # Lost /\ \E i \in DOMAIN was.lines : was.lines[i] = e
      /\ \A e : e \in EventsOf(file) <=>
           e # Lost /\ \E i \in DOMAIN file.lines : file.lines[i] = e
  <2>1. line \in EventsBy(w) \cup {Lost}
    BY <1>3 DEF EventsBy, Events, line
  <2>2. \A e \in Held(w) : e \in written /\ e[1] = w
    <3>1. <<w, 0>>[1] = w
      OBVIOUS
    <3>2. QED
      BY <3>1, OwnEvents DEF Held, LogInv, Counted
  <2>3. \A e \in Held(w) : e[2] <= writers[w].count /\ e[2] \in Int
    <3>1. written \subseteq Events
      BY DEF LogInv, StateTyped
    <3>2. \A e \in Held(w) : e[2] \in Int
      BY <2>2, <3>1, EventParts
    <3>3. \A e \in Held(w) : e[2] <= writers[w].count
      BY <1>1, <2>2 DEF LogInv, Counted
    <3>4. QED
      BY <3>2, <3>3
  <2>4. QED
    BY <1>4, <1>7, <2>1, <2>3, FileHolds DEF line
<1>9. /\ DOMAIN file.lines = DOMAIN was.lines \cup {Len(was.lines) + 1}
      /\ DOMAIN was.lines = 1 .. Len(was.lines) /\ Len(was.lines) \in Nat
      /\ file.lines[Len(was.lines) + 1] = line
      /\ \A i \in DOMAIN was.lines : file.lines[i] = was.lines[i]
  BY <1>7, <1>8, LineAdded
<1>10. /\ EventsOf(was) \subseteq EventsOf(file)
       /\ EventsOf(file) \subseteq EventsOf(was) \cup {event}
       /\ was.torn \/ event \in EventsOf(file)
  BY <1>3, <1>8, <1>9
<1>11. ASSUME NEW i \in DOMAIN file.lines, NEW j \in DOMAIN file.lines,
              i < j, file.lines[i] # Lost, file.lines[j] # Lost
       PROVE  file.lines[i][2] < file.lines[j][2]
  <2>1. i \in DOMAIN was.lines
    BY <1>9, <1>11
  <2>2. CASE j \in DOMAIN was.lines
    BY <1>4, <1>9, <1>11, <2>1, <2>2
  <2>3. CASE j = Len(was.lines) + 1
    <3>1. file.lines[j] = event
      BY <1>8, <1>9, <1>11, <2>3
    <3>2. file.lines[i] \in EventsOf(was)
      BY <1>8, <1>9, <1>11, <2>1
    <3>3. QED
      BY <1>2, <1>3, <1>8, <3>1, <3>2
  <2>4. QED
    BY <1>9, <2>2, <2>3
<1>12. \A d \in written : d[1] = w => d[2] <= writers[w].count /\ d[2] \in Int
  <2>1. written \subseteq Events
    BY DEF LogInv, StateTyped
  <2>2. QED
    BY <1>1, <2>1, EventParts DEF LogInv, Counted
<1> DEFINE W == {event}
<1>13. /\ W \in SUBSET Events /\ written' = written \cup W
       /\ \A e \in W : e[1] = w
            /\ \A d \in written : d[1] = w => d[2] < e[2]
       /\ \A e \in W : w \in halved' \/ e \in EventsOf(file)
       /\ \A e \in written \cup W : e[1] = w => e[2] <= s.count
       /\ Held(w) \subseteq EventsOf(file)
       /\ EventsOf(file) \subseteq Held(w) \cup W
  BY <1>2, <1>3, <1>4, <1>5, <1>6, <1>10, <1>12
<1>14. /\ s.pc = "open" \/ (s.pc = "rotating" /\ s.suffix = Keep)
       /\ s.candidates = {}
  BY <1>1, <1>6 DEF LogInv, CandidatesInSweep, pc
<1>15. file.at < clock' /\ halved' \subseteq Writers /\ halved \subseteq halved'
  <2>1. halved \subseteq Writers
    BY DEF LogInv, StateTyped
  <2>2. QED
    BY <1>5, <1>7, <2>1, ClockRuns
<1> HIDE DEF W
<1>16. QED
  BY <1>5, <1>6, <1>7, <1>11, <1>13, <1>14, <1>15, Touched

\* A failed append adds no line, and may leave half of one.
LEMMA LogInvAppendFails ==
  ASSUME LogInv, NEW w \in Writers, AppendFails(w)
  PROVE  LogInv'
<1> DEFINE was == Opened(w)
           n == writers[w].count + 1
           s == [writers[w] EXCEPT !.count = n]
<1>1. /\ writers[w] \in WriterState /\ writers[w].pc = "open"
      /\ writers[w].count < MaxEvents
  BY DEF LogInv, StateTyped, AppendFails, At
<1>2. PICK torn \in BOOLEAN :
        /\ files' = With(<<w, 0>>, [was EXCEPT !.torn = @ \/ torn, !.at = clock,
                                               !.old = FALSE])
        /\ halved' = IF torn THEN halved \cup {w} ELSE halved
  BY DEF AppendFails
<1> DEFINE file == [was EXCEPT !.torn = @ \/ torn, !.at = clock, !.old = FALSE]
<1>3. /\ Move(w, s) /\ clock' = clock + 1
      /\ UNCHANGED <<days, staged, reader, written, shed>>
  BY DEF AppendFails, Tick
<1>4. /\ was \in LogFile(w) /\ EventsOf(was) = Held(w)
      /\ was.torn => w \in halved
      /\ \A i, j \in DOMAIN was.lines :
           i < j /\ was.lines[i] # Lost /\ was.lines[j] # Lost
             => was.lines[i][2] < was.lines[j][2]
  BY OpenedFile
<1>5. writers[w].count \in 0 .. MaxEvents /\ n \in 0 .. MaxEvents
  BY <1>1, BoundsAssumption DEF WriterState
<1> HIDE DEF was
<1>6. /\ file.lines = was.lines /\ file \in LogFile(w) /\ file.at = clock
      /\ ~file.old /\ (file.torn <=> was.torn \/ torn)
  BY <1>4, ClockRuns DEF LogFile
<1> HIDE DEF n, file
<1>7. s \in WriterState /\ s.pc = "open" /\ s.count = n
      /\ s.candidates = writers[w].candidates
  BY <1>1, <1>5 DEF WriterState
<1>8. s.candidates = {}
  BY <1>1, <1>7 DEF LogInv, CandidatesInSweep
<1>9. EventsOf(file) = Held(w)
  BY <1>4, <1>6, SameLinesSameEvents
<1>10. \A d \in written : d[1] = w => d[2] <= n
  <2>1. \A d \in written : d[1] \in Writers /\ d[2] \in Int
    <3>1. written \subseteq Events
      BY DEF LogInv, StateTyped
    <3>2. QED
      BY <3>1, EventParts
  <2>2. \A d \in written : d[1] = w => d[2] <= writers[w].count
    BY <1>1 DEF LogInv, Counted
  <2>3. QED
    BY <1>5, <2>1, <2>2 DEF n
<1> DEFINE W == {}
<1>11. /\ W \in SUBSET Events /\ written' = written \cup W
       /\ \A e \in W : FALSE
       /\ \A e \in written \cup W : e[1] = w => e[2] <= s.count
       /\ Held(w) \subseteq EventsOf(file)
       /\ EventsOf(file) \subseteq Held(w) \cup W
  BY <1>3, <1>7, <1>9, <1>10
<1>12. /\ file.at < clock' /\ halved' \subseteq Writers /\ halved \subseteq halved'
       /\ file.torn => w \in halved'
  <2>1. halved \subseteq Writers
    BY DEF LogInv, StateTyped
  <2>2. QED
    BY <1>2, <1>3, <1>4, <1>6, <2>1, ClockRuns
<1>13. \A i, j \in DOMAIN file.lines :
         i < j /\ file.lines[i] # Lost /\ file.lines[j] # Lost
           => file.lines[i][2] < file.lines[j][2]
  BY <1>4, <1>6
<1>14. files' = With(<<w, 0>>, file)
  BY <1>2 DEF file
<1> HIDE DEF W, s
<1>15. QED
  BY <1>3, <1>6, <1>7, <1>8, <1>11, <1>12, <1>13, <1>14, Touched

\* Of the files, a step touched the two names of payload p alone, and left
\* them as PayloadNames asks.
TouchedPayload(p) ==
  /\ \A h \in DOMAIN files : h[1] # p
       => h \in DOMAIN files' /\ files'[h] = files[h]
  /\ \A h \in DOMAIN files' : h[1] # p => h \in DOMAIN files
  /\ \A h \in DOMAIN files' : h[1] = p =>
       /\ h \in Names /\ files'[h] \in LogFile(p) /\ ~files'[h].torn
       /\ files'[h].at < clock'
       /\ days = 0 => ~files'[h].old

LeftNamed(p) ==
  /\ staged'[p] = "unwritten" => <<p, 0>> \notin DOMAIN files'
  /\ staged'[p] # "published" => <<p, 1>> \notin DOMAIN files'
  /\ staged'[p] = "published" => <<p, 0>> \notin DOMAIN files'
  /\ staged'[p] = "filled" /\ <<p, 0>> \in DOMAIN files'
       => files'[<<p, 0>>].lines # << >>
  /\ <<p, 1>> \in DOMAIN files' => files'[<<p, 1>>].lines # << >>

Progress == {"unwritten", "staged", "filled", "published", "given up"}

LEMMA PayloadSteps ==
  ASSUME LogInv, NEW p \in Payloads,
         UNCHANGED <<days, writers, reader, written, shed, halved>>,
         clock' \in {clock, clock + 1}, NEW x \in Progress,
         staged' = [staged EXCEPT ![p] = x],
         TouchedPayload(p), LeftNamed(p)
  PROVE  LogInv'
<1>1. p \notin Writers
  BY NamesAssumption
<1>2. clock \in Nat /\ clock' \in Nat /\ clock <= clock'
  <2>1. clock \in Nat
    BY ClockRuns
  <2>2. QED
    BY <2>1
<1>3. FilesTyped'
  <2>1. ASSUME NEW h \in DOMAIN files'
        PROVE  /\ h \in Names
               /\ files'[h] \in LogFile(h[1])
               /\ files'[h].torn => h[1] \in halved'
               /\ files'[h].at < clock'
    <3>1. CASE h[1] = p
      BY <3>1 DEF TouchedPayload
    <3>2. CASE h[1] # p
      <4>1. h \in DOMAIN files /\ files'[h] = files[h]
        BY <3>2 DEF TouchedPayload
      <4>2. /\ h \in Names /\ files[h] \in LogFile(h[1])
            /\ files[h].torn => h[1] \in halved
            /\ files[h].at < clock
        BY <4>1 DEF LogInv, FilesTyped
      <4>3. files[h].at \in Nat
        BY <4>2 DEF LogFile
      <4>4. files[h].at < clock'
        BY <1>2, <4>2, <4>3
      <4>5. QED
        BY <4>1, <4>2, <4>4
    <3>3. QED
      BY <3>1, <3>2
  <2>2. QED
    BY <2>1 DEF FilesTyped
<1>4. \A h : h[1] \in Writers =>
        /\ h \in DOMAIN files' <=> h \in DOMAIN files
        /\ h \in DOMAIN files => files'[h] = files[h]
  BY <1>1 DEF TouchedPayload
<1>5. StateTyped'
  BY <1>2 DEF LogInv, StateTyped, Progress
<1>6. FreeNames'
  <2>1. \A v \in Writers : \A k :
          <<v, k>> \in DOMAIN files' <=> <<v, k>> \in DOMAIN files
    <3>1. \A v \in Writers : \A k : <<v, k>>[1] = v
      OBVIOUS
    <3>2. QED
      BY <1>4, <3>1
  <2>2. QED
    BY <2>1 DEF LogInv, FreeNames
<1>7. Counted'
  <2>1. \A h \in DOMAIN files' : h[1] \in Writers
          => EventsOf(files'[h]) \subseteq written'
    BY <1>4 DEF LogInv, Counted
  <2>2. QED
    BY <2>1 DEF LogInv, Counted, EventsOf
<1>8. RotationsInOrder'
  <2>1. SUFFICES ASSUME NEW f \in DOMAIN files', NEW g \in DOMAIN files',
                        f[1] \in Writers, f[1] = g[1], f[2] > g[2],
                        NEW a \in EventsOf(files'[f]),
                        NEW b \in EventsOf(files'[g])
                 PROVE  a[2] < b[2]
    BY DEF RotationsInOrder, EventsOf
  <2>2. /\ f \in DOMAIN files /\ g \in DOMAIN files
        /\ a \in EventsOf(files[f]) /\ b \in EventsOf(files[g])
    BY <1>4, <2>1
  <2>3. QED
    BY <2>1, <2>2 DEF LogInv, RotationsInOrder
<1>9. LinesInOrder'
  <2>1. \A f \in DOMAIN files' : f[1] \in Writers
          => f \in DOMAIN files /\ files'[f] = files[f]
    BY <1>4
  <2>2. QED
    BY <2>1 DEF LogInv, LinesInOrder
<1>10. Kept'
  <2>1. SUFFICES ASSUME NEW e \in written, e \notin shed, e[1] \notin halved
                 PROVE  \E h \in DOMAIN files' :
                          h[1] = e[1] /\ e \in EventsOf(files'[h])
    BY DEF Kept, EventsOf
  <2>2. e[1] \in Writers
    BY EventParts DEF LogInv, StateTyped
  <2>3. PICK h \in DOMAIN files : h[1] = e[1] /\ e \in EventsOf(files[h])
    BY <2>1 DEF LogInv, Kept
  <2>4. QED
    BY <1>4, <2>2, <2>3
<1>11. PayloadNames'
  <2>1. ASSUME NEW q \in Payloads, q # p, NEW k \in {0, 1}
        PROVE  /\ <<q, k>> \in DOMAIN files' <=> <<q, k>> \in DOMAIN files
               /\ <<q, k>> \in DOMAIN files => files'[<<q, k>>] = files[<<q, k>>]
    <3>1. <<q, k>>[1] # p
      BY <2>1
    <3>2. QED
      BY <3>1 DEF TouchedPayload
  <2>2. \A q \in Payloads \ {p} : staged'[q] = staged[q]
    BY DEF LogInv, StateTyped
  <2>3. QED
    BY <2>1, <2>2 DEF LogInv, PayloadNames, LeftNamed
<1>12. YoungToday'
  <2>1. ASSUME days = 0, NEW h \in DOMAIN files' PROVE ~files'[h].old
    BY <2>1 DEF LogInv, YoungToday, TouchedPayload
  <2>2. QED
    BY <2>1 DEF LogInv, YoungToday
<1>13. CandidatesInSweep'
  BY DEF LogInv, CandidatesInSweep
<1>14. CalmRead'
  <2>1. ASSUME NEW e \in Events, NEW f, f[1] = e[1]
        PROVE  f \in DOMAIN files /\ e \in EventsOf(files[f])
                 <=> f \in DOMAIN files' /\ e \in EventsOf(files'[f])
    BY <1>4, <2>1, EventParts
  <2>2. QED
    BY <2>1, ReadGoesOn
<1>15. QED
  BY <1>3, <1>5, <1>6, <1>7, <1>8, <1>9, <1>10, <1>11, <1>12, <1>13, <1>14
     DEF LogInv

\* The two names of a payload.
LEMMA PayloadFile ==
  ASSUME LogInv, NEW p \in Payloads
  PROVE  /\ <<p, 0>> \in Names /\ <<p, 1>> \in Names /\ <<p, 0>> # <<p, 1>>
         /\ <<p, 0>>[1] = p /\ <<p, 1>>[1] = p
         /\ \A h \in Names : h[1] = p => h = <<p, 0>> \/ h = <<p, 1>>
         /\ \A h \in DOMAIN files : h[1] = p =>
              /\ files[h] \in LogFile(p) /\ ~files[h].torn
              /\ files[h].at < clock
              /\ days = 0 => ~files[h].old
         /\ Fresh \in LogFile(p) /\ ~Fresh.torn /\ Fresh.at = clock
         /\ ~Fresh.old
         /\ << <<p, 1>> >> \in Seq(EventsBy(p) \cup {Lost})
<1>1. p \notin Writers /\ halved \subseteq Writers
  BY NamesAssumption DEF LogInv, StateTyped
<1>2. /\ <<p, 0>> \in Names /\ <<p, 1>> \in Names /\ <<p, 0>> # <<p, 1>>
      /\ <<p, 0>>[1] = p /\ <<p, 1>>[1] = p
  BY DEF Names
<1>3. \A h \in Names : h[1] = p => h = <<p, 0>> \/ h = <<p, 1>>
  BY <1>1, NameParts
<1>4. \A h \in DOMAIN files : h[1] = p =>
        /\ files[h] \in LogFile(p) /\ ~files[h].torn
        /\ files[h].at < clock
        /\ days = 0 => ~files[h].old
  BY <1>1 DEF LogInv, FilesTyped, YoungToday
<1>5. Fresh \in LogFile(p) /\ ~Fresh.torn /\ Fresh.at = clock /\ ~Fresh.old
  BY ClockRuns DEF Fresh, LogFile
<1>6. << <<p, 1>> >> \in Seq(EventsBy(p) \cup {Lost})
  <2>1. <<p, 1>> \in EventsBy(p)
    BY <1>1 DEF EventsBy
  <2> DEFINE x == <<p, 1>>
             S == EventsBy(p) \cup {Lost}
  <2>2. x \in S
    BY <2>1
  <2> HIDE DEF x, S
  <2>3. << x >> \in Seq(S)
    BY <2>2
  <2>4. QED
    BY <2>3 DEF x, S
<1>7. QED
  BY <1>2, <1>3, <1>4, <1>5, <1>6

\* The staging file is created.
LEMMA LogInvStage ==
  ASSUME LogInv, NEW p \in Payloads, StagePayload(p)
  PROVE  LogInv'
<1> DEFINE c == <<p, 0>>
           d == <<p, 1>>
<1>1. /\ staged[p] = "unwritten" /\ files' = With(c, Fresh)
      /\ staged' = [staged EXCEPT ![p] = "staged"] /\ clock' = clock + 1
      /\ UNCHANGED <<days, writers, reader, written, shed, halved>>
  BY DEF StagePayload, Staging, Tick
<1>2. /\ DOMAIN files' = DOMAIN files \cup {c}
      /\ files'[c] = Fresh
      /\ \A h \in DOMAIN files' \ {c} : h \in DOMAIN files /\ files'[h] = files[h]
  BY <1>1 DEF With
<1>3. d \notin DOMAIN files /\ c # d
  BY <1>1 DEF LogInv, PayloadNames
<1>4. clock < clock' /\ clock \in Nat
  BY <1>1, ClockRuns
<1>5. /\ c \in Names /\ c[1] = p
      /\ \A h \in Names : h[1] = p => h = c \/ h = d
      /\ DOMAIN files \subseteq Names
      /\ Fresh \in LogFile(p) /\ ~Fresh.torn /\ Fresh.at = clock /\ ~Fresh.old
  BY PayloadFile DEF LogInv, FilesTyped
<1> HIDE DEF c, d
<1>6. TouchedPayload(p)
  BY <1>2, <1>3, <1>4, <1>5 DEF TouchedPayload
<1>7. staged'[p] = "staged"
  BY <1>1 DEF LogInv, StateTyped
<1>8. LeftNamed(p)
  BY <1>2, <1>3, <1>7 DEF LeftNamed, d
<1>9. QED
  BY <1>1, <1>6, <1>8, PayloadSteps DEF Progress

\* The content is written.
LEMMA LogInvFill ==
  ASSUME LogInv, NEW p \in Payloads, FillPayload(p)
  PROVE  LogInv'
<1> DEFINE c == <<p, 0>>
           d == <<p, 1>>
           content == << <<p, 1>> >>
           file == [Fresh EXCEPT !.lines = content]
<1>1. /\ staged[p] = "staged"
      /\ files' = IF c \in DOMAIN files THEN With(c, file) ELSE files
      /\ staged' = [staged EXCEPT ![p] = "filled"] /\ clock' = clock + 1
      /\ UNCHANGED <<days, writers, reader, written, shed, halved>>
  BY DEF FillPayload, Staging, Tick
<1>2. /\ DOMAIN files' = DOMAIN files
      /\ c \in DOMAIN files => files'[c] = file
      /\ \A h \in DOMAIN files' \ {c} : files'[h] = files[h]
  BY <1>1 DEF With
<1>3. d \notin DOMAIN files /\ c # d
  BY <1>1 DEF LogInv, PayloadNames
<1>4. clock < clock' /\ clock \in Nat
  BY <1>1, ClockRuns
<1>5. content # << >> /\ content \in Seq(EventsBy(p) \cup {Lost})
  BY PayloadFile
<1>6. /\ c[1] = p
      /\ \A h \in Names : h[1] = p => h = c \/ h = d
      /\ DOMAIN files \subseteq Names
      /\ Fresh \in LogFile(p) /\ ~Fresh.torn /\ Fresh.at = clock /\ ~Fresh.old
  BY PayloadFile DEF LogInv, FilesTyped
<1> HIDE DEF c, d, content
<1>7. /\ file \in LogFile(p) /\ ~file.torn /\ file.at = clock /\ ~file.old
      /\ file.lines # << >>
  BY <1>5, <1>6 DEF LogFile
<1> HIDE DEF file
<1>8. TouchedPayload(p)
  BY <1>2, <1>3, <1>4, <1>6, <1>7 DEF TouchedPayload
<1>9. staged'[p] = "filled"
  BY <1>1 DEF LogInv, StateTyped
<1>10. LeftNamed(p)
  BY <1>2, <1>3, <1>7, <1>9 DEF LeftNamed, c, d
<1>11. QED
  BY <1>1, <1>8, <1>10, PayloadSteps DEF Progress

\* The staging file is renamed to the final name, or is gone.
LEMMA LogInvPublish ==
  ASSUME LogInv, NEW p \in Payloads, PublishPayload(p)
  PROVE  LogInv'
<1> DEFINE c == <<p, 0>>
           d == <<p, 1>>
<1>1. /\ staged[p] = "filled"
      /\ UNCHANGED <<clock, days, writers, reader, written, shed, halved>>
      /\ IF c \in DOMAIN files
           THEN /\ files' = Renamed(c, d)
                /\ staged' = [staged EXCEPT ![p] = "published"]
           ELSE /\ staged' = [staged EXCEPT ![p] = "given up"]
                /\ files' = files
  BY DEF PublishPayload, Staging
<1>2. /\ d \notin DOMAIN files
      /\ c \in DOMAIN files => files[c].lines # << >>
  BY <1>1 DEF LogInv, PayloadNames
<1>3. /\ c \in Names /\ d \in Names /\ c # d /\ c[1] = p /\ d[1] = p
      /\ \A h \in Names : h[1] = p => h = c \/ h = d
      /\ DOMAIN files \subseteq Names
      /\ \A h \in DOMAIN files : h[1] = p =>
           /\ files[h] \in LogFile(p) /\ ~files[h].torn
           /\ files[h].at < clock
           /\ days = 0 => ~files[h].old
  BY PayloadFile DEF LogInv, FilesTyped
<1>4. ASSUME c \in DOMAIN files
      PROVE  /\ DOMAIN files' = (DOMAIN files \ {c}) \cup {d}
             /\ files'[d] = files[c]
             /\ \A h \in DOMAIN files' \ {d} : files'[h] = files[h]
  BY <1>1, <1>4 DEF Renamed
<1>5. DOMAIN staged = Payloads
  BY DEF LogInv, StateTyped
<1>6. CASE c \in DOMAIN files
  <2>1. staged'[p] = "published"
    BY <1>1, <1>5, <1>6
  <2> HIDE DEF c, d
  <2>2. TouchedPayload(p)
    BY <1>1, <1>2, <1>3, <1>4, <1>6 DEF TouchedPayload
  <2>3. LeftNamed(p)
    BY <1>2, <1>3, <1>4, <1>6, <2>1 DEF LeftNamed, c, d
  <2>4. QED
    BY <1>1, <1>6, <2>2, <2>3, PayloadSteps DEF Progress
<1>7. CASE c \notin DOMAIN files
  <2>1. staged'[p] = "given up"
    BY <1>1, <1>5, <1>7
  <2> HIDE DEF c, d
  <2>2. TouchedPayload(p)
    BY <1>1, <1>3, <1>7 DEF TouchedPayload
  <2>3. LeftNamed(p)
    BY <1>1, <1>2, <1>7, <2>1 DEF LeftNamed, c, d
  <2>4. QED
    BY <1>1, <1>7, <2>2, <2>3, PayloadSteps DEF Progress
<1>8. QED
  BY <1>6, <1>7

\* The payload is given up; its staging file goes, or stays.
LEMMA LogInvGiveUp ==
  ASSUME LogInv, NEW p \in Payloads, GiveUpPayload(p)
  PROVE  LogInv'
<1> DEFINE c == <<p, 0>>
           d == <<p, 1>>
<1>1. /\ staged[p] \in {"staged", "filled"}
      /\ files' \in {files, Without(c)}
      /\ staged' = [staged EXCEPT ![p] = "given up"]
      /\ UNCHANGED <<clock, days, writers, reader, written, shed, halved>>
  BY DEF GiveUpPayload, Staging
<1>2. /\ DOMAIN files' \subseteq DOMAIN files
      /\ \A h \in DOMAIN files \ {c} : h \in DOMAIN files'
      /\ \A h \in DOMAIN files' : files'[h] = files[h]
  BY <1>1 DEF Without
<1>3. d \notin DOMAIN files
  BY <1>1 DEF LogInv, PayloadNames
<1>4. /\ c[1] = p
      /\ DOMAIN files \subseteq Names
      /\ \A h \in DOMAIN files : h[1] = p =>
           /\ files[h] \in LogFile(p) /\ ~files[h].torn
           /\ files[h].at < clock
           /\ days = 0 => ~files[h].old
  BY PayloadFile DEF LogInv, FilesTyped
<1>5. staged'[p] = "given up"
  BY <1>1 DEF LogInv, StateTyped
<1> HIDE DEF c, d
<1>6. TouchedPayload(p)
  BY <1>1, <1>2, <1>4 DEF TouchedPayload
<1>7. LeftNamed(p)
  BY <1>2, <1>3, <1>5 DEF LeftNamed, d
<1>8. QED
  BY <1>1, <1>6, <1>7, PayloadSteps DEF Progress

----------------------------------------------------------------------------
\* A read begins: every event to return is in one of the files listed.
LEMMA LogInvReadLists ==
  ASSUME LogInv, ReaderLists
  PROVE  LogInv'
<1> DEFINE listed == {f \in DOMAIN files : Read(f)}
           r == [NotReading EXCEPT !.on = TRUE, !.before = written,
                                   !.listed = listed]
<1>1. /\ reader' = r
      /\ UNCHANGED <<files, clock, days, writers, staged, written, shed, halved>>
  BY DEF ReaderLists
<1>2. listed \subseteq Writers \X (0 .. Keep) /\ written \subseteq Events
  <2>1. DOMAIN files \subseteq Names /\ written \subseteq Events
    BY DEF LogInv, FilesTyped, StateTyped
  <2>2. QED
    BY <2>1, NameParts DEF Read
<1>3. /\ r \in ReadState /\ r.on /\ r.listed = listed /\ r.before = written
      /\ r.found = [e \in Events |-> 0]
  BY <1>2 DEF NotReading, ReadState
<1>4. CalmRead'
  <2>1. SUFFICES ASSUME NEW e \in written, e \notin shed, e[1] \notin halved
                 PROVE  StillListed(e)' /\ r.found[e] = 0
    BY <1>1, <1>3 DEF CalmRead
  <2>2. PICK f \in DOMAIN files : f[1] = e[1] /\ e \in EventsOf(files[f])
    BY <2>1 DEF LogInv, Kept
  <2>3. f[1] \in Writers /\ e \in Events
    BY <1>2, <2>2, EventParts
  <2>4. f \in listed
    BY <2>3 DEF Read
  <2>5. StillListed(e)'
    BY <1>1, <1>3, <2>2, <2>4 DEF StillListed, EventsOf
  <2>6. QED
    BY <1>3, <2>3, <2>5
<1>5. QED
  BY <1>1, <1>3, <1>4, ReaderSteps

\* A line that reads back occurs once in its file.
LEMMA OccursOnce ==
  ASSUME LogInv, NEW f \in DOMAIN files, f[1] \in Writers,
         NEW e \in Events
  PROVE  Occurrences(files[f], e) = IF e \in EventsOf(files[f]) THEN 1 ELSE 0
<1> DEFINE lines == files[f].lines
           I == {i \in DOMAIN lines : lines[i] = e}
<1>1. files[f] \in LogFile(f[1])
  BY DEF LogInv, FilesTyped
<1>2. /\ e # Lost
      /\ e \in EventsOf(files[f]) <=> \E i \in DOMAIN lines : lines[i] = e
      /\ DOMAIN lines \subseteq Int
  <2>1. e # Lost
    BY EventParts
  <2>2. /\ \A x : x \in EventsOf(files[f]) <=>
             x # Lost /\ \E i \in DOMAIN lines : lines[i] = x
        /\ DOMAIN lines = 1 .. Len(lines)
    BY <1>1, FileHolds
  <2>3. QED
    BY <2>1, <2>2
<1>3. CASE e \notin EventsOf(files[f])
  <2>1. I = {}
    BY <1>2, <1>3
  <2>2. QED
    BY <1>3, <2>1, FS_EmptySet DEF Occurrences
<1>4. CASE e \in EventsOf(files[f])
  <2>1. PICK i \in DOMAIN lines : lines[i] = e
    BY <1>2, <1>4
  <2>2. ASSUME NEW j \in DOMAIN lines, lines[j] = e PROVE i = j
    <3>1. ~(i < j) /\ ~(j < i)
      <4>1. e[2] \in Int /\ ~(e[2] < e[2])
        BY EventParts
      <4>2. QED
        BY <1>2, <2>1, <2>2, <4>1 DEF LogInv, LinesInOrder
    <3>2. QED
      BY <1>2, <3>1
  <2>3. I = {i}
    BY <2>1, <2>2
  <2>4. QED
    BY <1>4, <2>3, FS_Singleton DEF Occurrences
<1>5. QED
  BY <1>3, <1>4

\* A file is read: what it holds is returned once, and is in no other file.
LEMMA LogInvReadFile ==
  ASSUME LogInv, NEW f \in Names, ReadFile(f)
  PROVE  LogInv'
<1> DEFINE found == [e \in Events |-> reader.found[e] + Occurrences(files[f], e)]
           r == [reader EXCEPT !.listed = @ \ {f}, !.found = found]
           none == [reader EXCEPT !.listed = @ \ {f},
                                  !.calm = @ /\ f \notin DOMAIN files]
<1>1. /\ f \in reader.listed
      /\ UNCHANGED <<files, clock, days, writers, staged, written, shed, halved>>
      /\ \/ f \in DOMAIN files /\ reader' = r
         \/ reader' = none
  BY DEF ReadFile
<1>2. /\ reader \in ReadState /\ reader.listed \subseteq Writers \X (0 .. Keep)
      /\ reader.found \in [Events -> Nat]
  BY DEF LogInv, StateTyped, ReadState
<1>3. f[1] \in Writers
  BY <1>1, <1>2
<1>4. ASSUME reader.on, reader.calm
      PROVE  /\ reader.before \subseteq written /\ reader.before \subseteq Events
             /\ \A e \in reader.before \ shed : e[1] \notin halved =>
                  IF StillListed(e) THEN reader.found[e] = 0
                                    ELSE reader.found[e] = 1
  BY <1>4 DEF LogInv, CalmRead, StateTyped
<1>5. CASE f \in DOMAIN files /\ reader' = r
  <2>1. /\ found \in [Events -> Nat]
        /\ \A e \in Events :
             found[e] = IF e \in EventsOf(files[f]) THEN reader.found[e] + 1
                                                    ELSE reader.found[e]
    <3>1. \A e \in Events : Occurrences(files[f], e)
            = IF e \in EventsOf(files[f]) THEN 1 ELSE 0
      BY <1>3, <1>5, OccursOnce
    <3>2. QED
      BY <1>2, <1>5, <3>1
  <2> HIDE DEF found
  <2>2. /\ r \in ReadState /\ r.on = reader.on /\ r.calm = reader.calm
        /\ r.before = reader.before /\ r.found = found
        /\ r.listed = reader.listed \ {f}
    BY <1>2, <2>1 DEF ReadState
  <2> HIDE DEF r
  <2>3. CalmRead'
    <3>1. SUFFICES ASSUME reader.on, reader.calm PROVE CalmRead'
      BY <1>5, <2>2 DEF CalmRead
    <3>2. ASSUME NEW e \in reader.before, e \notin shed, e[1] \notin halved
          PROVE  IF StillListed(e)' THEN found[e] = 0 ELSE found[e] = 1
      <4>1. /\ e \in Events
            /\ IF StillListed(e) THEN reader.found[e] = 0 ELSE reader.found[e] = 1
        BY <1>4, <3>1, <3>2
      <4>2. StillListed(e)' <=>
              \E g \in (reader.listed \ {f}) \cap DOMAIN files :
                g[1] = e[1] /\ e \in EventsOf(files[g])
        BY <1>1, <1>5, <2>2 DEF StillListed, EventsOf
      <4>3. CASE e \in EventsOf(files[f])
        <5>1. f[1] = e[1]
          BY <1>3, <1>5, <4>3, OwnEvents DEF LogInv
        <5>2. StillListed(e)
          BY <1>1, <1>5, <4>3, <5>1 DEF StillListed
        <5>3. ~StillListed(e)'
          <6>1. ASSUME NEW g \in reader.listed \cap DOMAIN files,
                       g[1] = e[1], e \in EventsOf(files[g])
                PROVE  g = f
            BY <1>3, <1>5, <4>3, <5>1, <6>1, InOneFile DEF LogInv
          <6>2. QED
            BY <4>2, <6>1
        <5>4. QED
          BY <2>1, <4>1, <4>3, <5>2, <5>3
      <4>4. CASE e \notin EventsOf(files[f])
        <5>1. StillListed(e)' <=> StillListed(e)
          BY <4>2, <4>4 DEF StillListed
        <5>2. QED
          BY <2>1, <4>1, <4>4, <5>1
      <4>5. QED
        BY <4>3, <4>4
    <3>3. QED
      BY <1>1, <1>4, <1>5, <2>2, <3>1, <3>2 DEF CalmRead
  <2>4. QED
    BY <1>1, <1>5, <2>2, <2>3, ReaderSteps
\* What cannot be read ends the calm; a file that is gone held nothing.
<1>6. CASE reader' = none
  <2>1. /\ none \in ReadState /\ none.on = reader.on
        /\ none.calm => reader.calm /\ f \notin DOMAIN files
        /\ none.before = reader.before /\ none.found = reader.found
        /\ none.listed = reader.listed \ {f}
    BY <1>2 DEF ReadState
  <2> HIDE DEF none
  <2>2. CalmRead'
    <3>1. SUFFICES ASSUME reader.on, reader.calm, f \notin DOMAIN files
                   PROVE  CalmRead'
      BY <1>6, <2>1 DEF CalmRead
    <3>2. ASSUME NEW e
          PROVE  StillListed(e)' <=> StillListed(e)
      BY <1>1, <1>6, <2>1, <3>1 DEF StillListed, EventsOf
    <3>3. QED
      BY <1>1, <1>4, <1>6, <2>1, <3>1, <3>2 DEF CalmRead
  <2>3. QED
    BY <1>1, <1>6, <2>1, <2>2, ReaderSteps
<1>7. QED
  BY <1>1, <1>5, <1>6

\* A read returns.
LEMMA LogInvReturns ==
  ASSUME LogInv, ReaderReturns
  PROVE  LogInv'
<1>1. NotReading \in ReadState /\ ~NotReading.on
  BY DEF NotReading, ReadState
<1>2. /\ reader' = NotReading
      /\ UNCHANGED <<files, clock, days, writers, staged, written, shed, halved>>
  BY DEF ReaderReturns
<1>3. CalmRead'
  BY <1>1, <1>2 DEF CalmRead
<1>4. QED
  BY <1>1, <1>2, <1>3, ReaderSteps

----------------------------------------------------------------------------
\* A day passes between two sweeps: every file is old, and holds what it held.
LEMMA LogInvDay ==
  ASSUME LogInv, DayPasses
  PROVE  LogInv'
<1>1. /\ days' = days + 1 /\ days \in Nat
      /\ \A w \in Writers : writers[w].pc # "sweeping"
      /\ files' = [f \in DOMAIN files |-> [files[f] EXCEPT !.old = TRUE]]
      /\ UNCHANGED <<clock, writers, staged, reader, written, shed, halved>>
  BY DEF DayPasses, At, LogInv, StateTyped
<1>2. DOMAIN files' = DOMAIN files
  BY <1>1
<1>3. ASSUME NEW f \in DOMAIN files
      PROVE  /\ files[f] \in LogFile(f[1]) /\ files'[f] \in LogFile(f[1])
             /\ files'[f].lines = files[f].lines
             /\ files'[f].torn = files[f].torn /\ files'[f].at = files[f].at
             /\ EventsOf(files'[f]) = EventsOf(files[f])
  <2>1. files[f] \in LogFile(f[1])
    BY DEF LogInv, FilesTyped
  <2>2. files'[f] = [files[f] EXCEPT !.old = TRUE]
    BY <1>1
  <2>3. /\ files'[f] \in LogFile(f[1]) /\ files'[f].lines = files[f].lines
        /\ files'[f].torn = files[f].torn /\ files'[f].at = files[f].at
    BY <2>1, <2>2 DEF LogFile
  <2>4. QED
    BY <2>1, <2>3, SameLinesSameEvents
<1>4. FilesTyped'
  <2>1. \A f \in DOMAIN files : files[f].at < clock
    BY DEF LogInv, FilesTyped
  <2>2. \A f \in DOMAIN files : files'[f].at < clock'
    BY <1>1, <1>3, <2>1
  <2>3. QED
    BY <1>1, <1>2, <1>3, <2>2 DEF LogInv, FilesTyped
<1>5. StateTyped'
  <2>1. days' \in Nat
    BY <1>1
  <2>2. QED
    BY <1>1, <2>1 DEF LogInv, StateTyped
<1>6. FreeNames' /\ CandidatesInSweep'
  BY <1>1, <1>2 DEF LogInv, FreeNames, CandidatesInSweep
<1>7. Counted'
  <2>1. \A h \in DOMAIN files' : h[1] \in Writers
          => EventsOf(files'[h]) \subseteq written'
    BY <1>1, <1>2, <1>3 DEF LogInv, Counted
  <2>2. QED
    BY <1>1, <2>1 DEF LogInv, Counted, EventsOf
<1>8. RotationsInOrder'
  <2>1. SUFFICES ASSUME NEW f \in DOMAIN files', NEW g \in DOMAIN files',
                        f[1] \in Writers, f[1] = g[1], f[2] > g[2],
                        NEW a \in EventsOf(files'[f]),
                        NEW b \in EventsOf(files'[g])
                 PROVE  a[2] < b[2]
    BY DEF RotationsInOrder, EventsOf
  <2>2. /\ f \in DOMAIN files /\ g \in DOMAIN files
        /\ a \in EventsOf(files[f]) /\ b \in EventsOf(files[g])
    BY <1>2, <1>3
  <2>3. QED
    BY <2>1, <2>2 DEF LogInv, RotationsInOrder
<1>9. LinesInOrder'
  BY <1>2, <1>3 DEF LogInv, LinesInOrder
<1>10. Kept'
  <2>1. SUFFICES ASSUME NEW e \in written, e \notin shed, e[1] \notin halved
                 PROVE  \E h \in DOMAIN files' :
                          h[1] = e[1] /\ e \in EventsOf(files'[h])
    BY <1>1 DEF Kept, EventsOf
  <2>2. PICK h \in DOMAIN files : h[1] = e[1] /\ e \in EventsOf(files[h])
    BY <2>1 DEF LogInv, Kept
  <2>3. QED
    BY <1>2, <1>3, <2>2
<1>11. PayloadNames'
  BY <1>1, <1>2, <1>3 DEF LogInv, PayloadNames
<1>12. YoungToday'
  BY <1>1 DEF YoungToday
<1>13. CalmRead'
  BY <1>1, <1>2, <1>3, ReadGoesOn
<1>14. QED
  BY <1>4, <1>5, <1>6, <1>7, <1>8, <1>9, <1>10, <1>11, <1>12, <1>13 DEF LogInv

\* Every step of the log keeps it.
LEMMA LogInvNext == LogInv /\ [Next]_vars => LogInv'
<1>1. SUFFICES ASSUME LogInv, [Next]_vars PROVE LogInv'
  OBVIOUS
<1>2. CASE UNCHANGED vars
  <2>1. /\ FilesTyped' /\ RotationsInOrder' /\ LinesInOrder' /\ Kept'
        /\ PayloadNames'
    BY <1>1, <1>2, SameFiles DEF vars
  <2>2. StateTyped' /\ FreeNames' /\ CandidatesInSweep' /\ YoungToday'
    BY <1>1, <1>2
       DEF vars, LogInv, StateTyped, FreeNames, CandidatesInSweep, YoungToday
  <2>3. Counted' /\ CalmRead'
    BY <1>1, <1>2 DEF vars, LogInv, Counted, CalmRead, StillListed, EventsOf
  <2>4. QED
    BY <2>1, <2>2, <2>3 DEF LogInv
<1>3. ASSUME NEW w \in Writers,
             \/ ListDirectory(w) \/ (\E f \in Names : StatEntry(w, f))
             \/ SweepOne(w) \/ ClaimFile(w)
             \/ AppendEvent(w) \/ AppendFails(w)
             \/ RotateStep(w) \/ RotationFails(w)
             \/ WriterEnds(w)
      PROVE  LogInv'
  BY <1>1, <1>3, LogInvList, LogInvStat, LogInvSweep, LogInvClaim,
     LogInvAppend, LogInvAppendFails, LogInvRotate, LogInvEnd
<1>4. ASSUME NEW p \in Payloads,
             \/ StagePayload(p) \/ FillPayload(p)
             \/ PublishPayload(p) \/ GiveUpPayload(p)
      PROVE  LogInv'
  BY <1>1, <1>4, LogInvStage, LogInvFill, LogInvPublish, LogInvGiveUp
<1>5. CASE ReaderLists \/ (\E f \in Names : ReadFile(f)) \/ ReaderReturns
  BY <1>1, <1>5, LogInvReadLists, LogInvReadFile, LogInvReturns
<1>6. CASE DayPasses
  BY <1>1, <1>6, LogInvDay
<1>7. QED
  BY <1>1, <1>2, <1>3, <1>4, <1>5, <1>6 DEF Next

\* The invariant holds under any interleaving and any failures.
THEOREM LogInvHolds == Spec => []LogInv
BY LogInvInit, LogInvNext, PTL DEF Spec

(***************************************************************************)
(* Whatever fails, whoever sweeps or rotates, an event write_event         *)
(* returned for reads back until its file is deleted; half a line costs    *)
(* its writer alone.                                                       *)
(***************************************************************************)
THEOREM WrittenIsRead == Spec => []WhatIsWrittenIsRead
<1>1. ASSUME LogInv PROVE WhatIsWrittenIsRead
  <2>1. TypeOK
    <3>1. \A f \in DOMAIN files : f[1] \in Writers
            => EventsOf(files[f]) \subseteq Events
      BY <1>1, OwnEvents DEF LogInv
    <3>2. /\ DOMAIN files \subseteq Names
          /\ \A f \in DOMAIN files : /\ files[f].torn => f[1] \in halved
                                    /\ files[f].at < clock
      BY <1>1 DEF LogInv, FilesTyped
    <3>3. \A w \in Writers :
            /\ writers[w].suffix \in 0 .. Keep
            /\ \A c \in writers[w].candidates : c.name \in Names
      <4>1. \A w \in Writers : writers[w] \in WriterState
        BY <1>1 DEF LogInv, StateTyped
      <4>2. QED
        BY <4>1 DEF WriterState, Sighting
    <3>4. reader.listed \subseteq Names
      BY <1>1 DEF LogInv, StateTyped, ReadState, Names
    <3>5. QED
      BY <1>1, <3>1, <3>2, <3>3, <3>4 DEF LogInv, StateTyped, TypeOK
  <2>2. \A e \in written \ shed : e[1] \in halved \/ e \in Readable
    BY <1>1 DEF LogInv, Kept, Readable
  <2>3. QED
    BY <2>1, <2>2 DEF WhatIsWrittenIsRead
<1>2. QED
  BY <1>1, LogInvHolds, PTL

(***************************************************************************)
(* A writer's suffixes stay in the order of its events, also when a        *)
(* rotation fails half way and is started over.                            *)
(***************************************************************************)
THEOREM SuffixesInOrder == Spec => []RotationsInOrder
<1>1. LogInv => RotationsInOrder
  BY DEF LogInv
<1>2. QED
  BY <1>1, LogInvHolds, PTL

\* A payload under its final name has its content.
THEOREM PublishedPayloadIsWhole == Spec => []PublishedIsWhole
<1>1. LogInv => PublishedIsWhole
  BY DEF LogInv, PayloadNames, PublishedIsWhole
<1>2. QED
  BY <1>1, LogInvHolds, PTL

(***************************************************************************)
(* A read beside which no rotation runs returns each event once, whatever  *)
(* is appended, swept or published meanwhile.                              *)
(***************************************************************************)
THEOREM CalmReadIsComplete == Spec => []CalmReadFindsEachEventOnce
<1>1. LogInv => CalmReadFindsEachEventOnce
  BY DEF LogInv, CalmRead, StillListed, CalmReadFindsEachEventOnce
<1>2. QED
  BY <1>1, LogInvHolds, PTL

\* A file that may still be written shares no event with one that may not.
LEMMA UnfinishedApart ==
  ASSUME LogInv, NEW f \in DOMAIN files, NEW g \in DOMAIN files,
         Unfinished(f), ~Unfinished(g)
  PROVE  EventsOf(files[f]) \cap EventsOf(files[g]) = {}
<1>1. SUFFICES ASSUME NEW e \in EventsOf(files[f]), e \in EventsOf(files[g])
               PROVE  FALSE
  OBVIOUS
<1>2. /\ f \in Names /\ g \in Names /\ f[2] = 0 /\ g[2] # 0 /\ f # g
  BY DEF LogInv, FilesTyped, Unfinished
<1>3. f[1] = g[1]
  BY <1>1, OwnEvents DEF LogInv
<1>4. CASE f[1] \in Writers
  BY <1>1, <1>2, <1>3, <1>4, InOneFile DEF LogInv
<1>5. CASE f[1] \notin Writers
  <2>1. PICK p \in Payloads : f = <<p, 0>> /\ g = <<p, 1>>
    BY <1>2, <1>3, <1>5, NameParts
  <2>2. QED
    BY <2>1 DEF LogInv, PayloadNames
<1>6. QED
  BY <1>4, <1>5

(***************************************************************************)
(* Until a day has passed no sweep and no rotation deletes what a file     *)
(* that may still be written holds, wherever other commands stand.         *)
(***************************************************************************)
THEOREM YoungFilesStay == Spec => YoungFilesAreLeftAlone
<1> DEFINE Alone == days = 0 => \A f \in DOMAIN files : Unfinished(f)
                      => EventsOf(files[f]) \cap shed' \subseteq shed
<1>1. ASSUME LogInv, [Next]_vars PROVE Alone \/ UNCHANGED vars
  <2>1. ASSUME shed' = shed PROVE Alone
    BY <2>1
  <2>2. ASSUME NEW g \in DOMAIN files, shed' = shed \cup EventsOf(files[g]),
               days = 0 => ~Unfinished(g)
        PROVE  Alone
    <3>1. ASSUME days = 0, NEW f \in DOMAIN files, Unfinished(f)
          PROVE  EventsOf(files[f]) \cap shed' \subseteq shed
      <4>1. EventsOf(files[f]) \cap EventsOf(files[g]) = {}
        BY <1>1, <2>2, <3>1, UnfinishedApart
      <4>2. QED
        BY <2>2, <4>1
    <3>2. QED
      BY <3>1
  <2> HIDE DEF Alone
  <2>3. ASSUME NEW w \in Writers, SweepOne(w) PROVE Alone
    <3> DEFINE C == writers[w].candidates
               oldest == OldestOf(C)
    <3>1. C \subseteq Sighting /\ C # {}
      <4>1. writers[w] \in WriterState
        BY <1>1 DEF LogInv, StateTyped
      <4>2. QED
        BY <2>3, <4>1 DEF SweepOne, WriterState
    <3>2. oldest \in C
      BY <3>1, OldestIsCandidate
    <3>3. days = 0 => ~Unfinished(oldest.name)
      BY <1>1, <3>2 DEF LogInv, YoungToday
    <3>4. \/ shed' = shed
          \/ /\ oldest.name \in DOMAIN files
             /\ shed' = shed \cup EventsOf(files[oldest.name])
      BY <2>3 DEF SweepOne
    <3> HIDE DEF C, oldest
    <3>5. QED
      BY <2>1, <2>2, <3>3, <3>4
  <2>4. ASSUME NEW w \in Writers, RotateStep(w) PROVE Alone
    <3> DEFINE g == <<w, Keep>>
    <3>1. ~Unfinished(g)
      BY BoundsAssumption DEF Unfinished
    <3>2. \/ shed' = shed
          \/ g \in DOMAIN files /\ shed' = shed \cup EventsOf(files[g])
      BY <2>4 DEF RotateStep, Deleted
    <3> HIDE DEF g
    <3>3. QED
      BY <2>1, <2>2, <3>1, <3>2
  <2>5. ASSUME NEW w \in Writers,
               \/ ListDirectory(w) \/ (\E f \in Names : StatEntry(w, f))
               \/ ClaimFile(w) \/ AppendEvent(w) \/ AppendFails(w)
               \/ RotationFails(w) \/ WriterEnds(w)
        PROVE  Alone
    BY <2>1, <2>5 DEF ListDirectory, StatEntry, ClaimFile, AppendEvent,
       AppendFails, RotationFails, WriterEnds
  <2>6. ASSUME NEW p \in Payloads,
               \/ StagePayload(p) \/ FillPayload(p)
               \/ PublishPayload(p) \/ GiveUpPayload(p)
        PROVE  Alone
    BY <2>1, <2>6 DEF StagePayload, FillPayload, PublishPayload, GiveUpPayload
  <2>7. ASSUME \/ ReaderLists \/ (\E f \in Names : ReadFile(f))
               \/ ReaderReturns \/ DayPasses
        PROVE  Alone
    BY <2>1, <2>7 DEF ReaderLists, ReadFile, ReaderReturns, DayPasses
  <2>8. QED
    BY <1>1, <2>3, <2>4, <2>5, <2>6, <2>7 DEF Next
<1>2. QED
  BY <1>1, LogInvHolds, PTL DEF Spec, YoungFilesAreLeftAlone
============================================================================
