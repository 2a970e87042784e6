----------------------------- MODULE Projection -----------------------------
(***************************************************************************)
(* status.project_status as it runs: a loop over a task's records in path  *)
(* order that keeps three locals and raises on the first record it cannot  *)
(* place.  Each step reads the next record; the file names are ULIDs, so   *)
(* the ids read are increasing.                                            *)
(***************************************************************************)
EXTENDS RecordTypes

CONSTANTS Types,  \* the record types read
          MaxId   \* bound on the records read

ASSUME TypesAssumption == Types \subseteq RecordTypes
ASSUME MaxIdAssumption == MaxId \in Nat

VARIABLES read,         \* the records consumed so far
          state,        \* the loop's `state`, NoState for None
          hasOpened,    \* the loop's `has_opened_record`
          hasTerminal,  \* the loop's `has_terminal_record`
          raised        \* TRUE once the loop raised TaskStatusError

loopVars == <<read, state, hasOpened, hasTerminal, raised>>

Record == [id : Nat, type : RecordTypes]

LoopInit ==
  /\ read = {}
  /\ state = NoState
  /\ hasOpened = FALSE
  /\ hasTerminal = FALSE
  /\ raised = FALSE

\* Mutation: a second opened record passes.
RefusesButSecondOpened(t) ==
  \/ hasTerminal /\ state \notin AdmittedAfterTerminal[t]
  \/ t = "reopened" /\ ~hasTerminal

\* The record is refused: after a terminal record that does not admit it, a
\* reopening of an open task, or a second opened record.
Refuses(t) ==
  \/ hasTerminal /\ state \notin AdmittedAfterTerminal[t]
  \/ t = "reopened" /\ ~hasTerminal
  \/ t = "opened" /\ hasOpened

\* has_terminal_record after a record of type t.
HasTerminalAfter(t) ==
  (hasTerminal /\ t # "reopened") \/ t \in TerminalTypes

\* `state` after a record of type t.
StateAfter(t) == IF ProjectsTo[t] = NoState THEN state ELSE ProjectsTo[t]

\* One iteration of the loop over a record of type t.  The loop leaves on a
\* raise, with its locals as they stand.
ReadRecord(t) ==
  /\ ~raised
  /\ \E id \in 0..MaxId :
       /\ \A r \in read : r.id < id
       /\ read' = read \cup {[id |-> id, type |-> t]}
  /\ IF Refuses(t)
       THEN raised' = TRUE /\ UNCHANGED <<state, hasOpened, hasTerminal>>
       ELSE /\ hasOpened' = (hasOpened \/ t = "opened")
            /\ hasTerminal' = HasTerminalAfter(t)
            /\ state' = StateAfter(t)
            /\ UNCHANGED raised

LoopNext == \E t \in Types : ReadRecord(t)

LoopSpec == LoopInit /\ [][LoopNext]_loopVars

\* The call raises: inside the loop, or after it when nothing opened the task.
Raises == raised \/ ~hasOpened \/ state = NoState

----------------------------------------------------------------------------
\* The locals have their types, and the flag follows the state.
LoopTypeOK ==
  /\ read \subseteq Record
  /\ state \in States \cup {NoState}
  /\ hasOpened \in BOOLEAN
  /\ hasTerminal \in BOOLEAN
  /\ raised \in BOOLEAN
  /\ hasTerminal <=> state \in TerminalStates

(***************************************************************************)
(* Whatever records a task holds, project_status raises exactly when they  *)
(* do not project: the three loop flags summarise the whole prefix.        *)
(***************************************************************************)
LoopRaisesOnBadJournals == Raises <=> ~Projectable(read)

(***************************************************************************)
(* When project_status returns, the state it returns is that of the last   *)
(* lifecycle record, reopenings included.                                  *)
(***************************************************************************)
LoopReturnsLastState == ~Raises => state = StateOf(read)

\* The loop is the projection, with its locals of their types.
LoopComputesProjection ==
  LoopTypeOK /\ LoopRaisesOnBadJournals /\ LoopReturnsLastState

(***************************************************************************)
(* A readable journal that holds an abandoned record reads as abandoned:   *)
(* no later record, a reopening included, brings the task back.            *)
(***************************************************************************)
AbandonedIsFinal ==
  ~Raises /\ (\E r \in read : r.type = "abandoned") => state = "abandoned"
============================================================================
