------------------------------ MODULE StageRun ------------------------------
(***************************************************************************)
(* complete on the embedded lane: the pre-gate stages of the shared        *)
(* extensions, the gate, the completed record, the post-gate stages.       *)
(* Extension code comes from the candidate's merge base and runs under a   *)
(* local grant; an unchecked pre-gate-stop stage pauses the completion.    *)
(* While a run is in flight the operator trusts and untrusts extensions,   *)
(* accepts pauses and merges, and the stages do what they like: fail,      *)
(* hang, leave a child behind that holds their pipe, edit their own copy.  *)
(*                                                                         *)
(* The candidates of one task are given with what their trees hold; which  *)
(* of them the gate passes is ReviewGate's and MergeGate's affair.         *)
(***************************************************************************)
EXTENDS Integers, Sequences, FiniteSets

CONSTANTS Extensions,  \* shared extensions
          Versions,    \* what an extension's directory may hold
          Plan,        \* the stages declared: a sequence of [ext, phase]
          Commits,     \* names of the candidate commits
          Fork,        \* Fork[c]: the tree at the merge base of c
          Own,         \* Own[c]: the tree of c itself
          SwitchOnly,  \* candidates whose diff is the switches file alone,
                       \* under a contract scoped to it
          InCI,        \* CI=true: no grant is asked
          MaxEvents    \* bound on the pauses accepted and the merges

Phases == {"pre-gate-warn", "pre-gate-stop", "post-gate"}
NotReadable == 0  \* in place of a version: the manifest does not parse
NoGrant == 0

\* A tree: the extensions' directories, whether its switches file is one the
\* parser reads, and the extensions the file switches off or, if it does
\* not read, the ones it names.
Tree == [content : [Extensions -> Versions \cup {NotReadable}],
         parses : BOOLEAN, off : SUBSET Extensions]

ASSUME VersionsAssumption == Versions \subseteq Nat \ {0}
ASSUME PlanAssumption == Plan \in Seq([ext : Extensions, phase : Phases])
ASSUME TreesAssumption ==
  Fork \in [Commits -> Tree] /\ Own \in [Commits -> Tree]
ASSUME SwitchOnlyAssumption ==
  /\ SwitchOnly \subseteq Commits
  /\ \A c \in SwitchOnly : Own[c].content = Fork[c].content
ASSUME SwitchAssumption == InCI \in BOOLEAN
ASSUME BoundAssumption == MaxEvents \in Nat

VARIABLES trust,      \* trust.toml: the version granted per extension
          trustReads, \* FALSE: trust.toml is not of the recorded shape
          accepted,   \* acceptance records of a pause: commit and extension
          merged,     \* the candidates the target branch contains
          completed,  \* the completed record, if any
          run         \* the complete command in flight

vars == <<trust, trustReads, accepted, merged, completed, run>>

NoCommit == "none"

(***************************************************************************)
(* The command in flight: where it is, the candidate, whether --target was *)
(* given, the phase, the stages still to run, the grants as read and       *)
(* whether they read, the acceptances as read and whether they were asked  *)
(* for, the extensions with a pause that stands, those with a stop stage   *)
(* left unchecked, and the stage's process: the code in its copy now and   *)
(* when it started, whether it is alive, and whether a child of its own    *)
(* holds its pipe.                                                         *)
(***************************************************************************)
Idle ==
  [pc |-> "idle", commit |-> NoCommit, target |-> FALSE,
   phase |-> "pre", todo |-> {},
   grants |-> [e \in Extensions |-> NoGrant], grantsRead |-> TRUE,
   asked |-> FALSE, acceptances |-> {}, pauses |-> {}, unchecked |-> {},
   copy |-> NoGrant, started |-> NoGrant, alive |-> FALSE, piped |-> FALSE]

\* The stages of a phase, by their place in the plan, which is their order.
StagesOf(phase) ==
  {i \in DOMAIN Plan : Plan[i].phase = "post-gate" <=> phase = "post"}

Turn == CHOOSE i \in run.todo : \A j \in run.todo : i <= j
Current == Plan[Turn]

\* Mutation: the lane is asked for only once the manifests have been read.
OperationalOnceRead(c) ==
  /\ c \in SwitchOnly
  /\ Fork[c].parses
  /\ \A e \in Extensions : Fork[c].content[e] # NotReadable

\* The gate's operational lane: the diff only switches extensions, and the
\* base's own switches file is one it can be judged against.
Operational(c) == c \in SwitchOnly /\ Fork[c].parses

\* Switches are read from the merge base.
SwitchedOff(c, e) == Fork[c].parses /\ e \in Fork[c].off

ManifestsRead(c) == \A e \in Extensions : Fork[c].content[e] # NotReadable
----------------------------------------------------------------------------
Init ==
  /\ trust \in [Extensions -> Versions \cup {NoGrant}]
  /\ trustReads \in BOOLEAN
  /\ ~trustReads => trust = [e \in Extensions |-> NoGrant]
  /\ accepted = {}
  /\ merged = {}
  /\ completed = {}
  /\ run = Idle

\* extension trust: the directory in the working tree, whatever it holds.
Trust(e, v) ==
  /\ trustReads
  /\ trust' = [trust EXCEPT ![e] = v]
  /\ UNCHANGED <<trustReads, accepted, merged, completed, run>>

\* extension untrust.
Untrust(e) == trust[e] # NoGrant /\ Trust(e, NoGrant)

MoreEvents == Cardinality(accepted) + Cardinality(merged) < MaxEvents

\* accept --pause, on an open task.
AcceptPause(c, e) ==
  /\ completed = {}
  /\ MoreEvents
  /\ accepted' = accepted \cup {<<c, e>>}
  /\ UNCHANGED <<trust, trustReads, merged, completed, run>>

\* The candidate lands on the target branch.
Land(c) ==
  /\ MoreEvents
  /\ merged' = merged \cup {c}
  /\ UNCHANGED <<trust, trustReads, accepted, completed, run>>

----------------------------------------------------------------------------
environment == <<trust, trustReads, accepted, merged>>

\* The grants, read once for the stages of a phase.
Planned(c, phase, target) ==
  [Idle EXCEPT !.pc = "stages", !.commit = c, !.phase = phase,
               !.target = target, !.todo = StagesOf(phase),
               !.grants = trust,
               !.grantsRead = trustReads \/ InCI \/ StagesOf(phase) = {}]

\* complete starts: the task is open.  An operational change runs no
\* pre-gate stage and has no manifest read for it; otherwise a manifest
\* the base cannot parse ends the run here.
Start(c, target) ==
  /\ run.pc = "idle"
  /\ completed = {}
  /\ \/ /\ Operational(c)
        /\ run' = [Idle EXCEPT !.pc = "gate", !.commit = c, !.target = target]
     \/ /\ ~Operational(c)
        /\ run' = IF ManifestsRead(c)
                    THEN Planned(c, "pre", target)
                    ELSE [Idle EXCEPT !.pc = "refused", !.commit = c]
  /\ UNCHANGED <<environment, completed>>

\* Mutation: an acceptance of the extension's pause serves any commit.
AcceptedForAny(acceptances, c, e) ==
  \E d \in Commits : <<d, e>> \in acceptances

\* The acceptance record that lifts the pause names this commit.
PauseAccepted(acceptances, c, e) == <<c, e>> \in acceptances

\* The stage is over.
Advanced == [run EXCEPT !.pc = "stages", !.todo = @ \ {Turn},
                        !.started = NoGrant, !.alive = FALSE, !.piped = FALSE]
Advance == run' = Advanced

\* A stage that is neither checked nor switched off: a pre-gate-stop one
\* pauses unless the journal, read for the first such stage and kept,
\* accepts it.  A journal that does not read accepts nothing.
Unchecked ==
  LET e == Current.ext
  IN IF Current.phase # "pre-gate-stop" THEN Advance
     ELSE \E journal \in {accepted, {}} :
       LET acceptances == IF run.asked THEN run.acceptances ELSE journal
       IN run' = [Advanced EXCEPT
            !.asked = TRUE, !.acceptances = acceptances,
            !.unchecked = @ \cup {e},
            !.pauses = IF PauseAccepted(acceptances, run.commit, e)
                         THEN @ ELSE @ \cup {e}]

\* Mutation: one materialized copy serves all stages of a run.
CopyKept(c, e) ==
  IF run.copy # NoGrant THEN run.copy ELSE Fork[c].content[e]

\* Every stage materializes the merge base's directory afresh.
Materialized(c, e) == Fork[c].content[e]

\* A switches file that does not parse blocks the extensions it names.
Blocked(c, e) == ~Fork[c].parses /\ e \in Fork[c].off

\* The outcomes that start nothing: switched off at base; named by a file
\* that does not parse; no grants to read, which owes no line; and
\* otherwise a directory, a grant, a command or a snapshot not as it must be.
NotStarted ==
  /\ run.pc = "stages" /\ run.todo # {}
  /\ IF SwitchedOff(run.commit, Current.ext) THEN Advance
     ELSE IF ~run.grantsRead /\ ~Blocked(run.commit, Current.ext) THEN Advance
     ELSE Unchecked
  /\ UNCHANGED <<environment, completed>>

\* The grant covers the materialized copy, and the stage's process starts.
Launch ==
  LET e == Current.ext
      copy == Materialized(run.commit, e)
  IN /\ run.pc = "stages" /\ run.todo # {}
     /\ ~SwitchedOff(run.commit, e)
     /\ ~Blocked(run.commit, e)
     /\ run.grantsRead
     /\ InCI \/ run.grants[e] = copy
     /\ \E piped \in BOOLEAN :
          run' = [run EXCEPT !.pc = "running", !.copy = copy,
                             !.started = copy,
                             !.alive = TRUE, !.piped = piped]
     /\ UNCHANGED <<environment, completed>>

----------------------------------------------------------------------------
\* What the stage does: edits its copy, exits, lets go of the pipe.
Tamper(v) ==
  /\ run.pc = "running" /\ run.alive
  /\ run' = [run EXCEPT !.copy = v]
  /\ UNCHANGED <<environment, completed>>

StageExits ==
  /\ run.alive
  /\ run' = [run EXCEPT !.alive = FALSE]
  /\ UNCHANGED <<environment, completed>>

PipeCloses ==
  /\ run.piped
  /\ run' = [run EXCEPT !.piped = FALSE]
  /\ UNCHANGED <<environment, completed>>

\* communicate returns: the process is gone and nothing holds its pipe.
Collect ==
  /\ run.pc = "running"
  /\ ~run.alive /\ ~run.piped
  /\ Advance \/ Unchecked
  /\ UNCHANGED <<environment, completed>>

\* SIGKILL to the process group leaves the stage's process no choice.
AfterKill == FALSE

\* The time limit: the whole process group is killed, and the pipe drained.
TimeLimit ==
  /\ run.pc = "running"
  /\ run' = [run EXCEPT !.pc = "draining", !.alive = AfterKill]
  /\ UNCHANGED <<environment, completed>>

\* Mutation: the drain has no limit of its own.
DrainUntilClosed == ~run.piped

\* The drain ends when the pipe closes or at its own time limit.
DrainEnds == TRUE

Drained ==
  /\ run.pc = "draining"
  /\ DrainEnds
  /\ Unchecked
  /\ UNCHANGED <<environment, completed>>

----------------------------------------------------------------------------
\* The pre-gate stages are over.  A pause holds until the candidate is in
\* the target; unreadable grants refuse.
EndPreGate ==
  /\ run.pc = "stages" /\ run.phase = "pre"
  /\ run.todo = {}
  /\ run' = [run EXCEPT !.pc =
       IF ~run.grantsRead THEN "refused"
       ELSE IF run.pauses = {} \/ (run.target /\ run.commit \in merged)
         THEN "gate" ELSE "paused"]
  /\ UNCHANGED <<environment, completed>>

\* complete_task: the task is loaded again, and the gate says yes or no.
GateSays(passed) ==
  /\ run.pc = "gate"
  /\ run' = IF passed /\ completed = {} THEN [run EXCEPT !.pc = "passed"]
                                        ELSE Idle
  /\ UNCHANGED <<environment, completed>>

\* The completed record, and the plan of the post-gate stages.
Record ==
  /\ run.pc = "passed"
  /\ completed' = completed \cup
       {[commit |-> run.commit, unchecked |-> run.unchecked]}
  /\ run' = IF ManifestsRead(run.commit)
              THEN Planned(run.commit, "post", run.target) ELSE Idle
  /\ UNCHANGED <<environment>>

EndPostGate ==
  /\ run.pc = "stages" /\ run.phase = "post"
  /\ run.todo = {}
  /\ run' = Idle
  /\ UNCHANGED <<environment, completed>>

\* A paused or refused command exits; any command may be killed.
Exit ==
  /\ run.pc \in {"paused", "refused"}
  /\ run' = Idle
  /\ UNCHANGED <<environment, completed>>

Killed ==
  /\ run.pc # "idle"
  /\ run' = Idle
  /\ UNCHANGED <<environment, completed>>

\* The command's own steps.
Step ==
  \/ NotStarted \/ Launch \/ Collect \/ TimeLimit \/ Drained
  \/ EndPreGate \/ (\E passed \in BOOLEAN : GateSays(passed)) \/ Record
  \/ EndPostGate \/ Exit

Next ==
  \/ \E e \in Extensions : Untrust(e) \/ \E v \in Versions : Trust(e, v)
  \/ \E c \in Commits :
       \/ \E e \in Extensions : AcceptPause(c, e)
       \/ Land(c)
       \/ \E target \in BOOLEAN : Start(c, target)
  \/ Step
  \/ \E v \in Versions : Tamper(v)
  \/ StageExits
  \/ PipeCloses
  \/ Killed

\* A running command takes its steps and its clocks run; nothing is asked of
\* the stages, the operator or the provider.
Spec == Init /\ [][Next]_vars /\ WF_vars(Step)

----------------------------------------------------------------------------
\* The state has its types; a stage's process lives only while it is waited
\* for.
TypeOK ==
  /\ trust \in [Extensions -> Versions \cup {NoGrant}]
  /\ trustReads \in BOOLEAN
  /\ accepted \subseteq Commits \X Extensions
  /\ merged \subseteq Commits
  /\ completed \subseteq [commit : Commits, unchecked : SUBSET Extensions]
  /\ run.commit \in Commits \cup {NoCommit}
  /\ run.grants \in [Extensions -> Versions \cup {NoGrant}]
  /\ run.pauses \subseteq run.unchecked /\ run.unchecked \subseteq Extensions
  /\ run.acceptances \subseteq accepted
  /\ run.alive => run.pc = "running"

(***************************************************************************)
(* On a workstation a stage runs the merge base's code, exactly as granted *)
(* when the run began: not the candidate's, not what an earlier stage of   *)
(* the run made of its copy, and nothing the base switched off, whatever   *)
(* the candidate's switches say, or that a broken switches file names.     *)
(***************************************************************************)
OnlyGrantedBaseCodeRuns ==
  /\ TypeOK
  /\ run.pc \in {"running", "draining"} =>
       LET e == Current.ext
       IN /\ run.started = Fork[run.commit].content[e]
          /\ InCI \/ run.started = run.grants[e]
          /\ e \notin Fork[run.commit].off

(***************************************************************************)
(* A completion went over no pause that stood: each stop stage that was    *)
(* not checked has an acceptance of that extension at that commit, unless  *)
(* the candidate was in the target already.                                *)
(***************************************************************************)
NoPauseCompletedOver ==
  \A r \in completed : \A e \in r.unchecked :
    <<r.commit, e>> \in accepted \/ r.commit \in merged

(***************************************************************************)
(* Whatever has become of the extensions, their manifests, grants and      *)
(* stages, the change that switches them off reaches the gate.             *)
(***************************************************************************)
SwitchingOffIsNeverBlocked ==
  run.commit \in SwitchOnly /\ Fork[run.commit].parses
    => run.pc \notin {"paused", "refused", "running", "draining"}
       \/ run.phase = "post"

(***************************************************************************)
(* complete ends, whatever a stage does: one that never exits, or leaves a *)
(* child behind that holds its output open, costs its time limits.         *)
(***************************************************************************)
EveryRunEnds == run.pc # "idle" ~> run.pc = "idle"
=============================================================================
