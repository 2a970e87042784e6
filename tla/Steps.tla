------------------------------- MODULE Steps -------------------------------
(***************************************************************************)
(* The in-flight steps of a task, as status and doctor show them.  A step  *)
(* is announced and ended in this clone's process log; the journal, which  *)
(* other machines write too, closes it with the record its work lands.     *)
(* The two are ordered by wall clocks only, every stamp of which may be    *)
(* off by Skew; a sweep of the log drops events.                           *)
(* The records of the task are those the loop of module Projection reads:  *)
(* a record that lands is one more for it to read.                         *)
(***************************************************************************)
EXTENDS Projection, Sequences

CONSTANTS StepIds,     \* ids step start generates
          Activities,  \* the session activities
          Skew,        \* bound on what a stamp is off by
          MaxTime      \* bound on the time that passes

ASSUME ClockAssumption == Skew \in Nat /\ MaxTime \in Nat

VARIABLES stamps,   \* by record: its activity, its created_at, when it landed
          log,      \* step events in the order written, a writer's file each
          time,     \* true time
          skipped   \* history: a sweep failed to delete a file and went on

stepVars == <<stamps, log, time, skipped>>

This == "this"
Tasks == {This, "another"}
\* _START_OF_TIME, and a time that cannot be read: before every dated one.
Undated == -100
Stamped == {time + d : d \in -Skew .. Skew} \cup {Undated}

Logged == {log[i] : i \in DOMAIN log}

StepsInit ==
  /\ LoopInit
  /\ stamps = << >>
  /\ log = << >>
  /\ time = 0
  /\ skipped = FALSE

\* The types that close some step; of another the stamps are never asked.
Closing == {"completed", "abandoned", "review", "session"}

\* A record lands and is read.
RecordLands(t) ==
  /\ ReadRecord(t)
  /\ \E activity \in IF t = "session" THEN Activities ELSE {"none"},
        at \in IF t \in Closing THEN Stamped ELSE {Undated} :
       LET new == CHOOSE r \in read' : r \notin read
       IN stamps' = [id \in DOMAIN stamps \cup {new.id} |->
            IF id \in DOMAIN stamps THEN stamps[id]
            ELSE [activity |-> activity, at |-> at, landed |-> time]]
  /\ UNCHANGED <<log, time, skipped>>

\* _run_start, under a fresh id (one whose events are all gone stands for
\* another); _run_end, under the id and the task given.
StartStep(s) ==
  /\ \A e \in Logged : e.step # s
  /\ \E activity \in Activities, at \in Stamped :
       log' = Append(log, [event |-> "step-started", task |-> This, step |-> s,
                           activity |-> activity, at |-> at, written |-> time])
  /\ UNCHANGED <<loopVars, stamps, time, skipped>>
EndStep(s) ==
  /\ \E task \in Tasks :
       log' = Append(log, [event |-> "step-ended", task |-> task, step |-> s])
  /\ UNCHANGED <<loopVars, stamps, time, skipped>>

----------------------------------------------------------------------------
\* open_steps.

EndedSteps ==
  {e.step : e \in {d \in Logged : d.event = "step-ended" /\ d.task = This}}
StartedSteps == {e \in Logged : e.event = "step-started" /\ e.task = This}

\* _closes_step: a review step ends with the review, any other with a session
\* of its activity, all of them with the task's closing.
ClosesStep(r, activity) ==
  \/ r.type \in {"completed", "abandoned"}
  \/ activity = "review" /\ r.type = "review"
  \/ activity # "review" /\ r.type = "session" /\ stamps[r.id].activity = activity

\* Mutation: any record of the closing kind will do.
ClosedByAny(activity, at) == \E r \in read : ClosesStep(r, activity)
\* _closed_by: by one stamped later than the step's start.
ClosedBy(activity, at) ==
  \E r \in read : ClosesStep(r, activity) /\ stamps[r.id].at > at

OpenSteps ==
  {e.step : e \in {d \in StartedSteps : /\ d.step \notin EndedSteps
                                        /\ ~ClosedBy(d.activity, d.at)}}

----------------------------------------------------------------------------
\* A sweep of the log deletes the oldest files; a deletion that fails is
\* skipped.  A started step is not announced again.

\* Mutation: a sweep takes the newest first.
NewestFirst(n) == SubSeq(log, 1, Len(log) - n)
AfterSweep(n) == SubSeq(log, n + 1, Len(log))

Sweep ==
  /\ \E n \in 1 .. Len(log) : log' = AfterSweep(n)
  /\ UNCHANGED <<loopVars, stamps, time, skipped>>
SweepSkipping ==
  /\ \E i \in 2 .. Len(log) :
       log' = SubSeq(log, 1, i - 1) \o SubSeq(log, i + 1, Len(log))
  /\ skipped' = TRUE
  /\ UNCHANGED <<loopVars, stamps, time>>

TimePasses ==
  /\ time < MaxTime
  /\ time' = time + 1
  /\ UNCHANGED <<loopVars, stamps, log, skipped>>

StepsNext ==
  \/ \E t \in Types : RecordLands(t)
  \/ \E s \in StepIds : StartStep(s) \/ EndStep(s)
  \/ Sweep \/ SweepSkipping \/ TimePasses

StepsSpec == StepsInit /\ [][StepsNext]_<<loopVars, stepVars>>

----------------------------------------------------------------------------
\* Two clocks never disagree for longer than they are off: the record a
\* step's work lands closes it, once the two lie further apart than the
\* stamps can be off, and no record that lay further before it does.
StepsCloseByTheirWork ==
  \A e \in StartedSteps : e.at # Undated =>
    LET Work == {r \in read : ClosesStep(r, e.activity)}
        Later(r) == stamps[r.id].landed - e.written
    IN /\ e.step \in OpenSteps =>
            \A r \in Work : stamps[r.id].at # Undated => Later(r) <= 2 * Skew
       /\ e.step \notin OpenSteps =>
            \/ e.step \in EndedSteps
            \/ \E r \in Work : Later(r) > -2 * Skew

\* A step the view has shown closed is never shown open again: the journal
\* only grows, and a sweep drops a step's start before its end - unless it
\* failed to delete the start.
NoStepRevives ==
  [][\A e \in StartedSteps :
       e.step \notin OpenSteps /\ ~skipped' => e.step \notin OpenSteps']_
    <<loopVars, stepVars>>
=============================================================================
