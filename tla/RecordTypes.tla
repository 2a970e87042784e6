---------------------------- MODULE RecordTypes ----------------------------
(***************************************************************************)
(* The one registry of journal record types and what a task's records      *)
(* mean: which state a type projects to, which types a closed task still   *)
(* admits, when a set of records projects at all, and to which state.      *)
(*                                                                         *)
(* A journal is a set of records [id, type, ...].  The id leads the file   *)
(* name, so reading the records in path order is reading them by id; the   *)
(* definitions below quantify over that order instead of looping over it.  *)
(* Module Projection is the loop of project_status itself, and             *)
(* LogAndSteps_proofs shows that the loop computes what is defined here.    *)
(***************************************************************************)
EXTENDS Integers

\* attestation.RECORD_TYPES, the types it declares.
RecordTypes ==
  {"opened", "review", "acceptance", "completed", "abandoned", "reopened",
   "amendment", "session", "finding", "check", "agreement",
   "acknowledgement", "ext"}

TerminalStates == {"done", "abandoned"}
NoState == "none"
States == {"open"} \cup TerminalStates

\* The state a record of each type projects to; NoState for the types that
\* are not lifecycle.
ProjectsTo ==
  [t \in RecordTypes |->
     CASE t \in {"opened", "reopened"} -> "open"
       [] t = "completed" -> "done"
       [] t = "abandoned" -> "abandoned"
       [] OTHER -> NoState]

\* Mutation: the registry's row for reopened with both terminal states.
ReopeningAfterEither ==
  [t \in RecordTypes |->
     IF t \in {"session", "check", "reopened"} THEN TerminalStates ELSE {}]

\* The terminal states after which a record of each type is still admitted:
\* measurements follow either, a reopening follows completion only.
AdmittedAfterTerminal ==
  [t \in RecordTypes |->
     CASE t \in {"session", "check"} -> TerminalStates
       [] t = "reopened" -> {"done"}
       [] OTHER -> {}]

TerminalTypes == {t \in RecordTypes : ProjectsTo[t] \in TerminalStates}
\* The types the gate reads the closed-ness of a task off, by file name.
ClosingTypes == {"completed", "abandoned", "reopened"}
LifecycleTypes == {t \in RecordTypes : ProjectsTo[t] # NoState}

----------------------------------------------------------------------------
\* s is the terminal state in force just before id: some record projects to
\* it, and no lifecycle record lies between that record and id.
TerminalBefore(R, id, s) ==
  \E q \in R : /\ q.id < id
               /\ s \in TerminalStates
               /\ ProjectsTo[q.type] = s
               /\ \A p \in R : p.type \in LifecycleTypes /\ p.id < id
                                  => p.id <= q.id

\* Exactly one opened record.
OpenedOnce(R) ==
  /\ \E o \in R : o.type = "opened"
  /\ \A o, p \in R : o.type = "opened" /\ p.type = "opened" => o = p

\* Nothing follows a terminal record unless that state admits it.
NothingAfterTerminal(R) ==
  \A r \in R : \A s \in TerminalStates :
     TerminalBefore(R, r.id, s) => s \in AdmittedAfterTerminal[r.type]

\* A reopening reopens something closed.
ReopensClosed(R) ==
  \A r \in R : r.type = "reopened"
     => \E s \in TerminalStates : TerminalBefore(R, r.id, s)

\* project_status derives a state from R instead of raising.
Projectable(R) ==
  OpenedOnce(R) /\ NothingAfterTerminal(R) /\ ReopensClosed(R)

\* s is the state of the last lifecycle record of R, and it is terminal.
ClosedAs(R, s) ==
  \E r \in R : /\ s \in TerminalStates
               /\ ProjectsTo[r.type] = s
               /\ \A q \in R : q.type \in LifecycleTypes => q.id <= r.id

\* The state project_status derives from a projectable R.
StateOf(R) ==
  IF ClosedAs(R, "done") THEN "done"
  ELSE IF ClosedAs(R, "abandoned") THEN "abandoned" ELSE "open"

\* The gate's closed_at_base, decided on file names: the greatest name among
\* the closings and reopenings is not a reopening.
ClosedByName(R) ==
  \E r \in R : /\ r.type \in ClosingTypes \ {"reopened"}
              /\ \A q \in R : q.type \in ClosingTypes => q.id <= r.id

\* Mutation: an open task admits every type.
AdmitsAllWhenOpen(state, type) ==
  state = "open" \/ state \in AdmittedAfterTerminal[type]

\* load_task_for_record: what a task in a state lets a command append.  An
\* open task refuses only a reopening.
Admits(state, type) ==
  IF state = "open" THEN type # "reopened"
  ELSE state \in AdmittedAfterTerminal[type]
============================================================================
