-------------------------- MODULE TrustStore_proofs --------------------------
(***************************************************************************)
(* The clone's grants and personal switches, for any number of commands,   *)
(* extensions and versions.                                                *)
(*                                                                         *)
(* A command that rewrites a file changes the entry it names because what  *)
(* it read of the others is what the file still says: the invariant keeps  *)
(* that of every command that has read and that nobody overtook.  A grant  *)
(* it logs it has put in place, which the invariant says of every command  *)
(* that is about to log.                                                   *)
(***************************************************************************)
EXTENDS TrustStore, TLAPS

Places == {"idle", "hash", "write", "log"}
\* A grant is a version, a personal switch is off; either may be missing.
Fits(n, v) == IF n \in Shared THEN v \in Versions \cup {None}
                              ELSE v \in {None, Off}
Files == {f \in [Names -> Values] : \A n \in Names : Fits(n, f[n])}
CommandStates == [pc : Places, verb : Verbs, name : Names \cup {None},
                  read : Files, value : Values]

\* What a command holds, by its place; e is the entry it writes.
Holds(s) ==
  /\ s.pc # "idle" => s.name \in Names
  /\ s.pc = "hash" => s.name \in Shared
  /\ s.pc = "write" => Fits(s.name, s.value)
  /\ s.pc = "log" => s.name \in Shared

Pending(s) == s.pc \in {"hash", "write"}
\* What it read of its file is what its file says.
Current(s) ==
  Pending(s) => \A n \in Names : SameFile(n, s.name) => s.read[n] = file[n]
\* What it is about to log has been put in place.
Placed(s) == s.pc = "log" => [name |-> s.name, value |-> s.value] \in landed

IInv ==
  /\ file \in Files
  /\ tree \in [Shared -> Versions \cup {None}]
  /\ log \subseteq landed
  /\ landed \subseteq [name : Names, value : Values]
  /\ runs \in 0 .. MaxRuns
  /\ overtaken \subseteq Commands
  /\ cmds \in [Commands -> CommandStates]
  /\ \A c \in Commands : Holds(cmds[c]) /\ Placed(cmds[c])
  /\ \A c \in Commands \ overtaken : Current(cmds[c])

----------------------------------------------------------------------------
LEMMA IdleFits == Idle \in CommandStates /\ Idle.pc = "idle"
<1>1. [n \in Names |-> None] \in Files
  BY DEF Files, Fits, Values
<1>2. QED
  BY <1>1 DEF Idle, CommandStates, Places, Verbs, Values

LEMMA IInvInit == Init => IInv
<1>1. SUFFICES ASSUME Init PROVE IInv
  OBVIOUS
<1>2. file \in Files
  BY <1>1 DEF Init, Files, Fits, Values
<1>3. cmds \in [Commands -> CommandStates]
  BY <1>1, IdleFits DEF Init
<1>4. \A c \in Commands : cmds[c].pc = "idle"
  BY <1>1, IdleFits DEF Init
<1>5. runs \in 0 .. MaxRuns
  BY <1>1, BoundsAssumption DEF Init
<1>6. QED
  BY <1>1, <1>2, <1>3, <1>4, <1>5
  DEF Init, IInv, Holds, Placed, Current, Pending

\* A step of c that leaves the files alone.
LEMMA StepKeeps ==
  ASSUME IInv, NEW c \in Commands, NEW s \in CommandStates,
         cmds' = [cmds EXCEPT ![c] = s], file' = file, tree' = tree,
         landed' = landed, log' \subseteq landed, runs' \in 0 .. MaxRuns,
         overtaken' \in {overtaken, overtaken \ {c}},
         Holds(s), Placed(s), c \notin overtaken' => Current(s)
  PROVE  IInv'
<1>1. /\ cmds' \in [Commands -> CommandStates] /\ cmds'[c] = s
      /\ \A b \in Commands \ {c} : cmds'[b] = cmds[b]
  BY DEF IInv
<1>2. ASSUME NEW b \in Commands PROVE (Holds(cmds[b]) /\ Placed(cmds[b]))'
  <2>1. CASE b = c
    BY <1>1, <2>1 DEF Holds, Placed
  <2>2. CASE b # c
    BY <1>1, <2>2 DEF IInv, Holds, Placed
  <2>3. QED
    BY <2>1, <2>2
<1>3. ASSUME NEW b \in Commands \ overtaken' PROVE Current(cmds[b])'
  <2>1. CASE b = c
    BY <1>1, <1>3, <2>1 DEF Current, Pending
  <2>2. CASE b # c
    BY <1>1, <1>3, <2>2 DEF IInv, Current, Pending
  <2>3. QED
    BY <2>1, <2>2
<1>4. QED
  BY <1>1, <1>2, <1>3 DEF IInv

\* A command that ends.
LEMMA EndingKeeps ==
  ASSUME IInv, NEW c \in Commands, cmds' = [cmds EXCEPT ![c] = Idle],
         log' \subseteq landed,
         UNCHANGED <<file, tree, runs, landed, overtaken>>
  PROVE  IInv'
<1>1. Holds(Idle) /\ Placed(Idle) /\ Current(Idle)
  BY IdleFits DEF Holds, Placed, Current, Pending
<1>2. runs' \in 0 .. MaxRuns
  BY DEF IInv
<1>3. QED
  BY <1>1, <1>2, IdleFits, StepKeeps

\* What a rewrite puts in place fits, and reads like the file of its command
\* but for the entry named, unless the command was overtaken.
LEMMA RewriteFits ==
  ASSUME IInv, NEW c \in Commands, cmds[c].pc = "write"
  PROVE  /\ Rewritten(c) \in Files
         /\ \A n \in Names : ~SameFile(n, cmds[c].name)
              => Rewritten(c)[n] = file[n]
         /\ c \notin overtaken =>
              \A n \in Names \ {cmds[c].name} : Rewritten(c)[n] = file[n]
<1>1. /\ cmds[c] \in CommandStates /\ Holds(cmds[c]) /\ file \in Files
      /\ c \notin overtaken => Current(cmds[c])
  BY DEF IInv
<1>2. /\ cmds[c].read \in Files /\ cmds[c].value \in Values
      /\ cmds[c].name \in Names /\ Fits(cmds[c].name, cmds[c].value)
  BY <1>1 DEF CommandStates, Holds
<1>3. ASSUME NEW n \in Names
      PROVE  /\ Rewritten(c)[n] = IF n = cmds[c].name THEN cmds[c].value
                                  ELSE IF SameFile(n, cmds[c].name)
                                  THEN cmds[c].read[n] ELSE file[n]
             /\ Rewritten(c)[n] \in Values /\ Fits(n, Rewritten(c)[n])
  <2>1. Rewritten(c)[n] = IF n = cmds[c].name THEN cmds[c].value
                          ELSE IF SameFile(n, cmds[c].name)
                          THEN cmds[c].read[n] ELSE file[n]
    BY DEF Rewritten
  <2>2. /\ cmds[c].read[n] \in Values /\ Fits(n, cmds[c].read[n])
        /\ file[n] \in Values /\ Fits(n, file[n])
    BY <1>1, <1>2 DEF Files
  <2>3. QED
    BY <1>2, <2>1, <2>2
<1>4. Rewritten(c) \in Files
  <2>1. Rewritten(c) \in [Names -> Values]
    BY <1>3 DEF Rewritten
  <2>2. QED
    BY <1>3, <2>1 DEF Files
<1>5. ASSUME NEW n \in Names, ~SameFile(n, cmds[c].name)
      PROVE  Rewritten(c)[n] = file[n]
  BY <1>3, <1>5 DEF SameFile
<1>6. ASSUME c \notin overtaken, NEW n \in Names \ {cmds[c].name}
      PROVE  Rewritten(c)[n] = file[n]
  BY <1>1, <1>3, <1>6 DEF Current, Pending
<1>7. QED
  BY <1>4, <1>5, <1>6

LEMMA IInvNext == IInv /\ [Next]_vars => IInv'
<1> SUFFICES ASSUME IInv, [Next]_vars PROVE IInv'
  OBVIOUS
<1>1. ASSUME NEW c \in Commands, NEW verb \in Verbs, NEW name \in Names,
             Start(c, verb, name)
      PROVE  IInv'
  <2> DEFINE s == [pc |-> IF verb = "trust" THEN "hash" ELSE "write",
                   verb |-> verb, name |-> name, read |-> file,
                   value |-> IF verb = "disable" THEN Off ELSE None]
  <2>1. s \in CommandStates
    BY DEF CommandStates, Places, Values, IInv
  <2>2. Holds(s)
    BY <1>1, NamesAssumption DEF Start, Takes, Holds, Fits, Names, Verbs
  <2>3. Placed(s) /\ Current(s)
    BY DEF Placed, Current
  <2>4. cmds' = [cmds EXCEPT ![c] = s] /\ overtaken' = overtaken \ {c}
        /\ UNCHANGED <<file, tree, log, landed>>
    BY <1>1 DEF Start
  <2>5. runs' \in 0 .. MaxRuns /\ log' \subseteq landed
    BY <1>1, BoundsAssumption DEF Start, IInv
  <2> HIDE DEF s
  <2>6. QED
    BY <2>1, <2>2, <2>3, <2>4, <2>5, StepKeeps
<1>2. ASSUME NEW c \in Commands, Hash(c) PROVE IInv'
  <2> DEFINE s == [cmds[c] EXCEPT !.pc = "write", !.value = tree[cmds[c].name]]
  <2>1. /\ cmds[c] \in CommandStates /\ cmds[c].pc = "hash"
        /\ cmds[c].name \in Shared
        /\ c \notin overtaken => Current(cmds[c])
    BY <1>2 DEF Hash, IInv, Holds
  <2>2. tree[cmds[c].name] \in Versions \cup {None}
    BY <2>1 DEF IInv
  <2>3. /\ s \in CommandStates /\ s.pc = "write" /\ s.name = cmds[c].name
        /\ s.read = cmds[c].read /\ s.value = tree[cmds[c].name]
    BY <2>1, <2>2 DEF CommandStates, Places, Values
  <2>4. cmds' = [cmds EXCEPT ![c] = s]
        /\ UNCHANGED <<file, tree, log, runs, landed, overtaken>>
    BY <1>2 DEF Hash
  <2> HIDE DEF s
  <2>5. Holds(s) /\ Placed(s)
    BY <2>1, <2>2, <2>3 DEF Holds, Placed, Fits, Names
  <2>6. c \notin overtaken' => Current(s)
    BY <2>1, <2>3, <2>4 DEF Current, Pending
  <2>7. runs' \in 0 .. MaxRuns /\ log' \subseteq landed
    BY <2>4 DEF IInv
  <2>8. QED
    BY <2>3, <2>4, <2>5, <2>6, <2>7, StepKeeps
<1>3. ASSUME NEW c \in Commands, Write(c) PROVE IInv'
  <2> DEFINE s == IF cmds[c].name \in Shared
                    THEN [cmds[c] EXCEPT !.pc = "log"] ELSE Idle
             entry == [name |-> cmds[c].name, value |-> cmds[c].value]
  <2>1. /\ cmds[c] \in CommandStates /\ cmds[c].pc = "write"
        /\ cmds[c].name \in Names
    BY <1>3 DEF Write, IInv, Holds
  <2>2. /\ s \in CommandStates /\ ~Pending(s) /\ Holds(s)
        /\ s.pc = "log" => s.name = cmds[c].name /\ s.value = cmds[c].value
    BY <2>1, IdleFits DEF CommandStates, Places, Holds, Pending
  <2>3. cmds' = [cmds EXCEPT ![c] = s]
    BY <1>3 DEF Write
  <2>4. /\ landed' = landed \cup {entry}
        /\ file' = Rewritten(c)
        /\ overtaken' = overtaken \cup
             {d \in Commands \ {c} : Pending(cmds[d])
                                     /\ SameFile(cmds[d].name, cmds[c].name)}
        /\ UNCHANGED <<tree, log, runs>>
    BY <1>3 DEF Write, Pending
  <2> HIDE DEF s
  <2>5. entry \in [name : Names, value : Values]
    BY <2>1 DEF CommandStates
  <2>6. /\ cmds' \in [Commands -> CommandStates] /\ cmds'[c] = s
        /\ \A b \in Commands \ {c} : cmds'[b] = cmds[b]
    BY <2>2, <2>3 DEF IInv
  <2>7. ASSUME NEW b \in Commands PROVE (Holds(cmds[b]) /\ Placed(cmds[b]))'
    <3>1. CASE b = c
      BY <2>2, <2>4, <2>6, <3>1 DEF Holds, Placed
    <3>2. CASE b # c
      BY <2>4, <2>6, <3>2 DEF IInv, Holds, Placed
    <3>3. QED
      BY <3>1, <3>2
  <2>8. /\ Rewritten(c) \in Files
        /\ \A n \in Names : ~SameFile(n, cmds[c].name)
             => Rewritten(c)[n] = file[n]
    BY <2>1, RewriteFits
  <2>9. ASSUME NEW b \in Commands \ overtaken' PROVE Current(cmds[b])'
    <3>1. CASE b = c
      BY <2>2, <2>6, <3>1 DEF Current, Pending
    <3>2. CASE b # c
      <4>1. Current(cmds[b]) /\ cmds'[b] = cmds[b]
        BY <2>4, <2>6, <2>9, <3>2 DEF IInv
      <4>2. Pending(cmds[b]) => ~SameFile(cmds[b].name, cmds[c].name)
        BY <2>4, <2>9, <3>2
      <4>3. Pending(cmds[b]) => \A n \in Names :
              SameFile(n, cmds[b].name) => file'[n] = file[n]
        BY <2>4, <2>8, <4>2 DEF SameFile
      <4>4. QED
        BY <4>1, <4>3 DEF Current, Pending
    <3>3. QED
      BY <3>1, <3>2
  <2>10. QED
    BY <2>4, <2>5, <2>6, <2>7, <2>8, <2>9 DEF IInv
<1>4. ASSUME NEW c \in Commands, Log(c) PROVE IInv'
  <2>1. [name |-> cmds[c].name, value |-> cmds[c].value] \in landed
    BY <1>4 DEF Log, LogsFrom, IInv, Placed
  <2>2. QED
    BY <1>4, <2>1, EndingKeeps DEF Log, IInv
<1>5. ASSUME NEW c \in Commands, Ends(c) PROVE IInv'
  BY <1>5, EndingKeeps DEF Ends, IInv
<1>6. ASSUME NEW e \in Shared, NEW v \in Versions \cup {None}, Checkout(e, v)
      PROVE  IInv'
  BY <1>6 DEF Checkout, IInv, Placed, Current
<1>7. CASE UNCHANGED vars
  BY <1>7 DEF vars, IInv, Placed, Current
<1>8. QED
  BY <1>1, <1>2, <1>3, <1>4, <1>5, <1>6, <1>7 DEF Next

LEMMA IInvHolds == Spec => []IInv
BY IInvInit, IInvNext, PTL DEF Spec

----------------------------------------------------------------------------
\* The log tells of no grant and no removal that did not reach its file,
\* wherever the commands that changed it were stopped.
THEOREM LogFollowsFile == Spec => []LoggedChangesLanded
<1>1. IInv => LoggedChangesLanded
  <2>1. SUFFICES ASSUME IInv PROVE LoggedChangesLanded
    OBVIOUS
  <2>2. /\ file \in [Names -> Values]
        /\ \A n \in Names : Fits(n, file[n])
    BY <2>1 DEF IInv, Files
  <2>3. \A n \in Personal : file[n] \in {None, Off}
    BY <2>2, NamesAssumption DEF Fits, Names
  <2>4. \A n \in Shared : file[n] # Off
    BY <2>2, VersionsAssumption DEF Fits, Names, Off, None
  <2>5. ASSUME NEW c \in Commands
        PROVE  /\ cmds[c].read \in [Names -> Values]
               /\ cmds[c].value \in Values
               /\ cmds[c].pc = "log" => cmds[c].name \in Shared
    BY <2>1 DEF IInv, CommandStates, Files, Holds
  <2>6. QED
    BY <2>1, <2>2, <2>3, <2>4, <2>5 DEF IInv, LoggedChangesLanded, TypeOK
<1>2. QED
  BY <1>1, IInvHolds, PTL

\* A command whose file nobody rewrote since it read it changes the entry it
\* names and no other.
THEOREM NamedEntryOnly == Spec => OnlyTheNamedEntryChanges
<1> DEFINE A == \A n \in Names : file'[n] # file[n] =>
                  \E c \in Commands :
                    /\ cmds[c].pc = "write" /\ cmds'[c].pc # "write"
                    /\ cmds[c].name = n \/ c \in overtaken
<1>1. IInv /\ [Next]_vars => [A]_vars
  <2>1. SUFFICES ASSUME IInv, Next, NEW n \in Names, file'[n] # file[n]
                 PROVE  \E c \in Commands :
                          /\ cmds[c].pc = "write" /\ cmds'[c].pc # "write"
                          /\ cmds[c].name = n \/ c \in overtaken
    OBVIOUS
  <2>2. PICK c \in Commands : Write(c)
    BY <2>1 DEF Next, Start, Hash, Log, Ends, Checkout
  <2>3. /\ cmds[c].pc = "write" /\ file' = Rewritten(c)
        /\ cmds[c] \in CommandStates
        /\ cmds' = [cmds EXCEPT ![c] =
             IF cmds[c].name \in Shared THEN [@ EXCEPT !.pc = "log"] ELSE Idle]
    BY <2>1, <2>2 DEF Write, IInv
  <2>4. cmds'[c].pc # "write"
    BY <2>1, <2>3, IdleFits DEF IInv, CommandStates
  <2>5. cmds[c].name = n \/ c \in overtaken
    BY <2>1, <2>3, RewriteFits
  <2>6. QED
    BY <2>3, <2>4, <2>5
<1>2. QED
  BY <1>1, IInvHolds, PTL DEF Spec, OnlyTheNamedEntryChanges
=============================================================================
