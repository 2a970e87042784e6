---------------------------- MODULE TaskJournal ----------------------------
(***************************************************************************)
(* One task's journal under the commands that append to it.  A command is  *)
(* a process of its own and nothing locks the journal: it loads the task   *)
(* (load_task_for_record), takes an identifier from its host's clock       *)
(* (generate_ulid), creates the record file exclusively and then writes    *)
(* its bytes (write_record).  Between any two of these steps other         *)
(* commands run, and a process may be killed.                              *)
(***************************************************************************)
EXTENDS RecordTypes, FiniteSets

CONSTANTS Writers,     \* the hosts commands run on
          Types,       \* the record types their commands append
          MaxLag,      \* bound: how far a host's clock runs behind, in ms
          MaxTime,     \* bound on the clock: the commands that may start
          PerMs,       \* bound: identifiers a millisecond can hold
          MayCrash     \* TRUE: a running command may be killed

ASSUME WritersAssumption == Writers # {}
ASSUME TypesAssumption == Types \subseteq RecordTypes \ {"opened"}
ASSUME BoundsAssumption ==
  /\ MaxLag \in Nat
  /\ MaxTime \in Nat
  /\ PerMs \in Nat \ {0}
ASSUME SwitchesAssumption == MayCrash \in BOOLEAN

VARIABLES now,     \* the true time, in ms
          lag,     \* lag[w]: how far the clock of w runs behind
          files,   \* the record files: id, type, and whether the body is there
          pc,      \* pc[w]: the step the command of w has reached
          want,    \* want[w]: the record type it appends
          stamp,   \* stamp[w]: the identifier it took
          newest,  \* history: the id of the closing or reopening written last
          overlapped  \* history: a command started while another ran

vars == <<now, lag, files, pc, want, stamp, newest, overlapped>>

NoType == "none"
Steps == {"idle", "loaded", "stamped", "created"}

\* Mutation: the random bits lead the identifier.
IdsRandomFirst(m) == 0..((MaxLag + MaxTime) * PerMs + PerMs - 1)

\* A ULID orders by its millisecond, then by its random bits: the ids of
\* millisecond m are the PerMs numbers from m * PerMs.
IdsOfMs(m) == (m * PerMs)..(m * PerMs + PerMs - 1)

File == [id : Int, type : RecordTypes, whole : BOOLEAN]

Whole(F) == {f \in F : f.whole}

\* Mutation: a file that does not parse is passed over.
ReadableSkippingTorn(F) == Projectable(Whole(F))

\* read_records refuses a task holding one file it cannot parse;
\* project_status refuses records that do not project.
Readable(F) == (\A f \in F : f.whole) /\ Projectable(F)

Running == {w \in Writers : pc[w] # "idle"}

----------------------------------------------------------------------------
\* open_task left the task with its opened record, stamped by some host.
Init ==
  /\ now = MaxLag
  /\ lag \in [Writers -> 0..MaxLag]
  /\ \E w \in Writers : \E id \in IdsOfMs(now - lag[w]) :
       files = {[id |-> id, type |-> "opened", whole |-> TRUE]}
  /\ pc = [w \in Writers |-> "idle"]
  /\ want = [w \in Writers |-> NoType]
  /\ stamp = [w \in Writers |-> 0]
  /\ newest = 0
  /\ overlapped = FALSE

\* load_task_for_record: the journal reads, and its state admits the record.
\* Starting a process takes longer than a millisecond, so the clock has
\* moved since any command that ended before.  A command the journal refuses
\* changes nothing.
Load(w, t) ==
  /\ pc[w] = "idle"
  /\ now < MaxTime
  /\ Readable(files)
  /\ Admits(StateOf(files), t)
  /\ now' = now + 1
  /\ pc' = [pc EXCEPT ![w] = "loaded"]
  /\ want' = [want EXCEPT ![w] = t]
  /\ overlapped' = (overlapped \/ Running # {})
  /\ UNCHANGED <<lag, files, stamp, newest>>

\* Eighty random bits: no two processes draw the same.
Taken(id) ==
  \/ \E f \in files : f.id = id
  \/ \E v \in Writers : pc[v] = "stamped" /\ stamp[v] = id

\* generate_ulid in a fresh process: the host's millisecond and random bits.
Stamp(w) ==
  /\ pc[w] = "loaded"
  /\ \E id \in IdsOfMs(now - lag[w]) :
       /\ ~Taken(id)
       /\ stamp' = [stamp EXCEPT ![w] = id]
  /\ pc' = [pc EXCEPT ![w] = "stamped"]
  /\ UNCHANGED <<now, lag, files, want, newest, overlapped>>

\* _create_exclusive: the file exists from here on, still empty.
Create(w) ==
  /\ pc[w] = "stamped"
  /\ files' = files \cup
       {[id |-> stamp[w], type |-> want[w], whole |-> FALSE]}
  /\ pc' = [pc EXCEPT ![w] = "created"]
  /\ UNCHANGED <<now, lag, want, stamp, newest, overlapped>>

\* The process is gone, and what it held in memory with it.
Exit(w) ==
  /\ pc' = [pc EXCEPT ![w] = "idle"]
  /\ want' = [want EXCEPT ![w] = NoType]
  /\ stamp' = [stamp EXCEPT ![w] = 0]

\* The body reaches the file and the command ends.
WriteBody(w) ==
  /\ pc[w] = "created"
  /\ files' = {f \in files : f.id # stamp[w]} \cup
       {[id |-> stamp[w], type |-> want[w], whole |-> TRUE]}
  /\ newest' = IF want[w] \in ClosingTypes THEN stamp[w] ELSE newest
  /\ Exit(w)
  /\ UNCHANGED <<now, lag, overlapped>>

\* The process is killed, or the disk is full: what it created stays.
Crash(w) ==
  /\ MayCrash
  /\ pc[w] # "idle"
  /\ Exit(w)
  /\ UNCHANGED <<now, lag, files, newest, overlapped>>

Next ==
  \E w \in Writers :
    \/ \E t \in Types : Load(w, t)
    \/ Stamp(w)
    \/ Create(w)
    \/ WriteBody(w)
    \/ Crash(w)

Spec == Init /\ [][Next]_vars

----------------------------------------------------------------------------
\* The state has its types, and each identifier names one record.
TypeOK ==
  /\ now \in Nat
  /\ lag \in [Writers -> 0..MaxLag]
  /\ files \subseteq File
  /\ pc \in [Writers -> Steps]
  /\ want \in [Writers -> Types \cup {NoType}]
  /\ stamp \in [Writers -> Int]
  /\ newest \in Int
  /\ overlapped \in BOOLEAN
  /\ \A f, g \in files : f.id = g.id => f = g

\* No command is between its load and its last byte.
Settled == Running = {}

\* The discipline an unlocked journal leaves to its users: commands one at a
\* time, on hosts whose clocks agree.
Disciplined == ~overlapped /\ \A w \in Writers : lag[w] = 0

(***************************************************************************)
(* Every command that ended left records that project, wherever commands   *)
(* were killed: the next command can read the task.  It is owed to the     *)
(* discipline.                                                             *)
(***************************************************************************)
CommandsLeaveJournalReadable ==
  Disciplined /\ Settled => Projectable(Whole(files))

(***************************************************************************)
(* The record written last among the closings and reopenings is the one    *)
(* with the greatest file name: what the gate's closed-at-base check,      *)
(* which reads names and no record, relies on.                             *)
(***************************************************************************)
LatestIsGreatestName ==
  Disciplined => \A f \in Whole(files) :
                   f.type \in ClosingTypes => f.id <= newest

(***************************************************************************)
(* A command killed between creating its record and writing it costs that  *)
(* record and no more, on any clocks: every later command refuses the torn *)
(* file instead of working around it, so there is one file to repair.      *)
(***************************************************************************)
CrashTearsOneRecord ==
  ~overlapped /\ Settled => Cardinality({f \in files : ~f.whole}) <= 1

----------------------------------------------------------------------------
\* The lifecycle a task promises, as seen by a reader of the finished records.
Visible == IF Projectable(Whole(files)) THEN StateOf(Whole(files))
                                        ELSE "unreadable"
Lifecycle == INSTANCE AbstractLifecycle WITH
  state <- Visible,
  abandoned <- \E f \in Whole(files) : f.type = "abandoned"

(***************************************************************************)
(* Under any interleaving, clock lag and crash, what a reader sees moves   *)
(* only along the lifecycle: a verdict is never undone except by a         *)
(* reopening of a completed task, and whatever races, the journal is       *)
(* either right or refused.                                                *)
(***************************************************************************)
ImplementsLifecycle == Lifecycle!Spec
============================================================================
