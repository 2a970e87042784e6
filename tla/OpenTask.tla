------------------------------ MODULE OpenTask ------------------------------
(***************************************************************************)
(* open and extension switch off in one checkout.  Both open a task: the   *)
(* next number, a staging directory beside the tasks, the contract and the *)
(* opened record in it, one rename.  switch off reads the switches file    *)
(* before and replaces it after.  Commands overlap and are killed at any   *)
(* step; meanwhile tasks arrive with a pull, and switches are edited.      *)
(***************************************************************************)
EXTENDS Integers, FiniteSetsExt

CONSTANTS Commands,    \* processes, each runs one command
          Extensions,  \* the shared extensions
          MaxTask      \* bound on the task numbers

ASSUME MaxTaskAssumption == MaxTask \in Nat \ {0}

Numbers == 1 .. MaxTask
On == 0          \* in place of the task that switched an extension off
Plain == "open"  \* the command is open, not switch off
Elsewhere == "another checkout"

VARIABLES tasks,     \* the task directories, by number
          staged,    \* what each command's staging directory holds
          switches,  \* the switches file: per extension, the task
          cmds       \* the commands: [pc, what, number, read]

openingVars == <<tasks, staged, switches, cmds>>

\* A directory: what it holds, who made it, and what its contract is about.
Directory(c, contract, record) ==
  [contract |-> contract, record |-> record, by |-> c, what |-> cmds[c].what]
NoDirectory == [contract |-> FALSE]

At(c, pc) == cmds[c].pc = pc
Goto(c, pc) == cmds' = [cmds EXCEPT ![c].pc = pc]

\* The finally clause: the staging directory goes, however open_task ends.
Cleaned(c) == [staged EXCEPT ![c] = NoDirectory]

Fail(c) ==
  /\ Goto(c, "failed")
  /\ staged' = Cleaned(c)
  /\ UNCHANGED <<tasks, switches>>
----------------------------------------------------------------------------
OpeningInit ==
  /\ tasks = << >>
  /\ staged = [c \in Commands |-> NoDirectory]
  /\ switches = [e \in Extensions |-> On]
  /\ cmds = [c \in Commands |-> [pc |-> "idle", what |-> Plain, number |-> 0,
                                 read |-> switches]]

StartOpen(c) ==
  /\ At(c, "idle")
  /\ Goto(c, "checked")
  /\ UNCHANGED <<tasks, staged, switches>>

\* switch off reads the file and checks the rewrite before there is a task.
StartSwitchOff(c, e) ==
  /\ At(c, "idle")
  /\ cmds' = [cmds EXCEPT ![c] =
       [pc |-> IF switches[e] = On THEN "checked" ELSE "refused",
        what |-> e, number |-> 0, read |-> switches]]
  /\ UNCHANGED <<tasks, staged, switches>>

\* next_task_id: one more than the greatest number under tasks/.
NextTask == Max(DOMAIN tasks \cup {0}) + 1

Allocate(c) ==
  /\ At(c, "checked")
  /\ NextTask \in Numbers
  /\ cmds' = [cmds EXCEPT ![c].pc = "allocated", ![c].number = NextTask]
  /\ UNCHANGED <<tasks, staged, switches>>

\* Mutation: the rename goes over whatever is there.
NeverTaken(n) == FALSE

Taken(n) == n \in DOMAIN tasks

\* Mutation: the task directory is filled where it stands.
StageInPlace(c, directory) ==
  /\ tasks' = [n \in DOMAIN tasks \cup {cmds[c].number} |->
                 IF n = cmds[c].number THEN directory ELSE tasks[n]]
  /\ UNCHANGED staged

\* The staging directory is under the journal root and not under tasks/.
Stage(c, directory) ==
  /\ staged' = [staged EXCEPT ![c] = directory]
  /\ UNCHANGED tasks

StageContract(c) ==
  /\ At(c, "allocated")
  /\ ~Taken(cmds[c].number)
  /\ Goto(c, "contract")
  /\ Stage(c, Directory(c, TRUE, FALSE))
  /\ UNCHANGED switches

StageRecord(c) ==
  /\ At(c, "contract")
  /\ Goto(c, "record")
  /\ Stage(c, Directory(c, TRUE, TRUE))
  /\ UNCHANGED switches

\* The rename; a directory of that name, there by now, makes it fail.
Rename(c) ==
  /\ At(c, "record")
  /\ ~Taken(cmds[c].number)
  /\ tasks' = [n \in DOMAIN tasks \cup {cmds[c].number} |->
                 IF n = cmds[c].number THEN staged[c] ELSE tasks[n]]
  /\ staged' = Cleaned(c)
  /\ Goto(c, IF cmds[c].what = Plain THEN "done" ELSE "opened")
  /\ UNCHANGED switches

\* Any step of open_task may fail, and a number taken by now does fail.
OpenFails(c) == cmds[c].pc \in {"allocated", "contract", "record"} /\ Fail(c)

\* Mutation: the placeholder the rewrite was checked with stays in.
PlaceholderTask(c) == 1

\* The entry names the task that was opened.
EntryTask(c) == cmds[c].number

\* The text read before the task was opened, with the one entry changed,
\* replaces the file.
WriteSwitch(c) ==
  /\ At(c, "opened")
  /\ switches' = [cmds[c].read EXCEPT ![cmds[c].what] = EntryTask(c)]
  /\ Goto(c, "done")
  /\ UNCHANGED <<tasks, staged>>

\* The created files do not read back, or the switches file cannot be
\* replaced: an error, and the task stands.
EndsAfterRename(c) ==
  /\ At(c, "opened")
  /\ Goto(c, "failed")
  /\ UNCHANGED <<tasks, staged, switches>>

Killed(c) ==
  /\ cmds[c].pc \in {"checked", "allocated", "contract", "record", "opened"}
  /\ Goto(c, "killed")
  /\ UNCHANGED <<tasks, staged, switches>>

\* A pull brings a task that was opened elsewhere.
Pull(n) ==
  /\ ~(n \in DOMAIN tasks)
  /\ tasks' = [m \in DOMAIN tasks \cup {n} |->
       IF m = n THEN [contract |-> TRUE, record |-> TRUE, by |-> Elsewhere,
                      what |-> Plain] ELSE tasks[m]]
  /\ UNCHANGED <<staged, switches, cmds>>

\* An operational task by hand switches an extension on again.
SwitchOn(e) ==
  /\ switches' = [switches EXCEPT ![e] = On]
  /\ UNCHANGED <<tasks, staged, cmds>>

OpeningNext ==
  \/ \E c \in Commands :
       \/ StartOpen(c) \/ (\E e \in Extensions : StartSwitchOff(c, e))
       \/ Allocate(c) \/ StageContract(c) \/ StageRecord(c) \/ Rename(c)
       \/ OpenFails(c) \/ WriteSwitch(c) \/ EndsAfterRename(c) \/ Killed(c)
  \/ \E n \in Numbers : Pull(n)
  \/ \E e \in Extensions : SwitchOn(e)

OpeningSpec == OpeningInit /\ [][OpeningNext]_openingVars
----------------------------------------------------------------------------
Directories ==
  [contract : BOOLEAN, record : BOOLEAN, by : Commands \cup {Elsewhere},
   what : Extensions \cup {Plain}]

\* The state has its types; only a command that ended by itself or has not
\* begun to stage has no staging directory.
OpeningTypeOK ==
  /\ DOMAIN tasks \subseteq Numbers
  /\ \A n \in DOMAIN tasks : tasks[n] \in Directories
  /\ \A c \in Commands :
       /\ staged[c] \in Directories \cup {NoDirectory}
       /\ cmds[c].number \in Numbers \cup {0}
       /\ cmds[c].pc \in {"done", "failed", "opened"} => staged[c] = NoDirectory
  /\ switches \in [Extensions -> Numbers \cup {On}]

(***************************************************************************)
(* A task that other commands see has its contract and its opened record,  *)
(* wherever the command that opens it stops.                               *)
(***************************************************************************)
VisibleTaskIsWhole ==
  /\ OpeningTypeOK
  /\ \A n \in DOMAIN tasks : tasks[n].contract /\ tasks[n].record

(***************************************************************************)
(* A task directory stays its opener's: neither a second command that got  *)
(* the same number nor one that a pull overtook writes over it.            *)
(***************************************************************************)
NoTaskIsOverwritten ==
  [][\A n \in DOMAIN tasks : n \in DOMAIN tasks' /\ tasks'[n] = tasks[n]]_openingVars

(***************************************************************************)
(* An extension that is off is off by a task that was opened to switch off *)
(* that extension.                                                         *)
(***************************************************************************)
OffByItsOwnTask ==
  \A e \in Extensions : switches[e] # On =>
    switches[e] \in DOMAIN tasks /\ tasks[switches[e]].what = e
=============================================================================
