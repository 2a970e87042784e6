----------------------------- MODULE TrustStore -----------------------------
(***************************************************************************)
(* The clone's own answers about extensions: trust.toml, which trust and   *)
(* untrust rewrite, and the personal switches.toml, which disable and      *)
(* enable rewrite.  A command reads the whole file, changes one entry in   *)
(* memory and renames a new file over the old; trust and untrust then log  *)
(* the change.  There is no lock, any step may fail or be killed, and the  *)
(* extensions change in the working tree all the while.                    *)
(***************************************************************************)
EXTENDS Integers

CONSTANTS Commands,  \* processes, each runs one command after the other
          Shared,    \* names of shared extensions
          Personal,  \* names of the clone's personal extensions
          Versions,  \* what a shared extension's directory may hold
          MaxRuns    \* bound on the commands that start

ASSUME VersionsAssumption == Versions \subseteq Nat \ {0}
ASSUME NamesAssumption == Shared \cap Personal = {}
ASSUME BoundsAssumption == MaxRuns \in Nat

None == 0          \* no grant, no switch, no directory
Off == -1          \* the state of a personal switch
Names == Shared \cup Personal
Values == Versions \cup {None, Off}
Verbs == {"trust", "untrust", "disable", "enable"}

VARIABLES file,    \* both files, one entry per name
          tree,    \* the shared extensions' directories in the working tree
          log,     \* the trust-changed events: [name, value]
          runs,    \* commands started
          cmds,    \* the commands: [pc, verb, name, read, value]
          landed,  \* history: the entries a rewrite has put in place
          overtaken  \* history: the commands whose file was rewritten
                     \* after they had read it

vars == <<file, tree, log, runs, cmds, landed, overtaken>>

Idle == [pc |-> "idle", verb |-> "trust", name |-> None,
         read |-> [n \in Names |-> None], value |-> None]
----------------------------------------------------------------------------
Init ==
  /\ file = [n \in Names |-> None]
  /\ tree \in [Shared -> Versions \cup {None}]
  /\ log = {}
  /\ runs = 0
  /\ cmds = [c \in Commands |-> Idle]
  /\ landed = {}
  /\ overtaken = {}

\* Shared extensions are trusted, personal ones switched.
Takes(verb, name) ==
  (verb \in {"trust", "untrust"}) <=> (name \in Shared)

\* untrust and enable refuse where there is nothing to remove.
Refused(verb, name) ==
  verb \in {"untrust", "enable"} /\ file[name] = None

\* The command reads the file.
Start(c, verb, name) ==
  /\ cmds[c].pc = "idle"
  /\ runs < MaxRuns
  /\ Takes(verb, name)
  /\ ~Refused(verb, name)
  /\ runs' = runs + 1
  /\ cmds' = [cmds EXCEPT ![c] =
       [pc |-> IF verb = "trust" THEN "hash" ELSE "write", verb |-> verb,
        name |-> name, read |-> file,
        value |-> IF verb = "disable" THEN Off ELSE None]]
  /\ overtaken' = overtaken \ {c}
  /\ UNCHANGED <<file, tree, log, landed>>

\* trust hashes the directory the working tree holds by now.
Hash(c) ==
  /\ cmds[c].pc = "hash"
  /\ tree[cmds[c].name] # None
  /\ cmds' = [cmds EXCEPT ![c].pc = "write", ![c].value = tree[cmds[c].name]]
  /\ UNCHANGED <<file, tree, log, runs, landed, overtaken>>

\* Grants and personal switches are two files.
SameFile(m, n) == (m \in Shared) <=> (n \in Shared)

\* Mutation: the new file is built from the one entry.
OnlyThisEntry(c) ==
  [n \in Names |-> IF n = cmds[c].name THEN cmds[c].value
                   ELSE IF SameFile(n, cmds[c].name) THEN None ELSE file[n]]

\* What was read of the command's file, with its entry.
Rewritten(c) ==
  [n \in Names |-> IF n = cmds[c].name THEN cmds[c].value
                   ELSE IF SameFile(n, cmds[c].name) THEN cmds[c].read[n]
                   ELSE file[n]]

\* The rename over the old file.  A switch is not logged.
Write(c) ==
  /\ cmds[c].pc = "write"
  /\ file' = Rewritten(c)
  /\ overtaken' = overtaken \cup
       {d \in Commands \ {c} : cmds[d].pc \in {"hash", "write"}
                               /\ SameFile(cmds[d].name, cmds[c].name)}
  /\ landed' = landed \cup {[name |-> cmds[c].name, value |-> cmds[c].value]}
  /\ cmds' = [cmds EXCEPT ![c] =
       IF cmds[c].name \in Shared THEN [@ EXCEPT !.pc = "log"] ELSE Idle]
  /\ UNCHANGED <<tree, log, runs>>

\* Mutation: the event is written with the decision.
LogsEarly == {"write", "log"}

\* The event follows the file.
LogsFrom == {"log"}

Log(c) ==
  /\ cmds[c].pc \in LogsFrom
  /\ log' = log \cup {[name |-> cmds[c].name, value |-> cmds[c].value]}
  /\ cmds' = [cmds EXCEPT ![c] = Idle]
  /\ UNCHANGED <<file, tree, runs, landed, overtaken>>

\* A missing directory, an error, a kill: the command is gone, the file as
\* it was, or changed and not logged.
Ends(c) ==
  /\ cmds[c].pc # "idle"
  /\ cmds' = [cmds EXCEPT ![c] = Idle]
  /\ UNCHANGED <<file, tree, log, runs, landed, overtaken>>

\* A checkout changes the directory.
Checkout(e, v) ==
  /\ tree' = [tree EXCEPT ![e] = v]
  /\ UNCHANGED <<file, log, runs, cmds, landed, overtaken>>

Next ==
  \/ \E c \in Commands :
       \/ \E verb \in Verbs, name \in Names : Start(c, verb, name)
       \/ Hash(c) \/ Write(c) \/ Log(c) \/ Ends(c)
  \/ \E e \in Shared, v \in Versions \cup {None} : Checkout(e, v)

Spec == Init /\ [][Next]_vars
----------------------------------------------------------------------------
\* The state has its types.
TypeOK ==
  /\ file \in [Names -> Values]
  /\ \A n \in Personal : file[n] \in {None, Off}
  /\ \A n \in Shared : file[n] # Off
  /\ tree \in [Shared -> Versions \cup {None}]
  /\ log \cup landed \subseteq [name : Names, value : Values]
  /\ runs \in 0 .. MaxRuns
  /\ overtaken \subseteq Commands
  /\ \A c \in Commands :
       /\ cmds[c].read \in [Names -> Values]
       /\ cmds[c].value \in Values
       /\ cmds[c].pc = "log" => cmds[c].name \in Shared

(***************************************************************************)
(* The log tells of no grant and no removal that did not reach trust.toml, *)
(* wherever the commands that changed it were stopped.                     *)
(***************************************************************************)
LoggedChangesLanded == TypeOK /\ log \subseteq landed

(***************************************************************************)
(* A command whose file nobody rewrote since it read it changes what the   *)
(* file says of the extension it names and nothing else.                   *)
(***************************************************************************)
OnlyTheNamedEntryChanges ==
  [][\A n \in Names : file'[n] # file[n] =>
       \E c \in Commands :
         /\ cmds[c].pc = "write" /\ cmds'[c].pc # "write"
         /\ cmds[c].name = n \/ c \in overtaken]_vars
=============================================================================
