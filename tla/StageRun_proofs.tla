-------------------------- MODULE StageRun_proofs --------------------------
(***************************************************************************)
(* complete with its stages, for any extensions, trees, plans, candidates  *)
(* and number of acceptances and merges.                                   *)
(*                                                                         *)
(* Trust, acceptances and merges move while the command runs.  What makes  *)
(* its promises inductive is which of them it reads once and which only    *)
(* grow: the grants are its own copy, and a pause lifted by an acceptance  *)
(* or a merge stays lifted.                                                *)
(***************************************************************************)
EXTENDS StageRun, WellFoundedInduction, TLAPS

Places == {"idle", "stages", "running", "draining", "gate", "passed",
           "paused", "refused"}
Copies == Versions \cup {NoGrant}
RunStates ==
  [pc : Places, commit : Commits \cup {NoCommit}, target : BOOLEAN,
   phase : {"pre", "post"}, todo : SUBSET DOMAIN Plan,
   grants : [Extensions -> Copies], grantsRead : BOOLEAN,
   asked : BOOLEAN, acceptances : SUBSET (Commits \X Extensions),
   pauses : SUBSET Extensions, unchecked : SUBSET Extensions,
   copy : Copies, started : Copies, alive : BOOLEAN, piped : BOOLEAN]

EnvironmentTyped ==
  /\ trust \in [Extensions -> Copies]
  /\ trustReads \in BOOLEAN
  /\ accepted \subseteq Commits \X Extensions
  /\ merged \subseteq Commits
  /\ completed \subseteq [commit : Commits, unchecked : SUBSET Extensions]

RunTyped ==
  /\ run \in RunStates
  /\ run.pc # "idle" => run.commit \in Commits
  /\ run.alive => run.pc = "running"

\* A stage that was started is the granted one of the merge base, switched on.
StageRuns ==
  run.pc \in {"running", "draining"} =>
    /\ run.todo # {}
    /\ run.started = Fork[run.commit].content[Current.ext]
    /\ InCI \/ run.started = run.grants[Current.ext]
    /\ Current.ext \notin Fork[run.commit].off

\* Every stop stage left unchecked has a pause that stands or an acceptance,
\* and the gate is reached over no pause but a merged candidate's.
PausesStand ==
  /\ run.pauses \subseteq run.unchecked
  /\ run.acceptances \subseteq accepted
  /\ \A e \in run.unchecked \ run.pauses : <<run.commit, e>> \in accepted
  /\ run.pc \in {"gate", "passed"} => run.pauses = {} \/ run.commit \in merged

\* An operational change goes to the gate without stages.
OperationalPasses ==
  Operational(run.commit) /\ run.phase = "pre"
    => run.pc \in {"idle", "gate", "passed"}

RunInv == RunTyped /\ StageRuns /\ PausesStand /\ OperationalPasses
IInv == EnvironmentTyped /\ RunInv /\ NoPauseCompletedOver

----------------------------------------------------------------------------
\* Of the stages still to run one comes next.
LEMMA TurnIsNext ==
  ASSUME run \in RunStates, run.todo # {}
  PROVE  /\ Turn \in run.todo
         /\ Current.ext \in Extensions
         /\ Current.phase \in Phases
<1>1. run.todo \subseteq DOMAIN Plan /\ DOMAIN Plan \subseteq Nat
  BY PlanAssumption DEF RunStates
<1>2. PICK R : /\ IsWellFoundedOn(R, Nat)
               /\ \A x, y \in Nat : y < x => <<y, x>> \in R
  <2> DEFINE Less == OpToRel(<, Nat)
  <2>1. IsWellFoundedOn(Less, Nat)
    BY NatLessThanWellFounded
  <2>2. \A x, y \in Nat : y < x => <<y, x>> \in Less
    BY DEF OpToRel
  <2> HIDE DEF Less
  <2>3. QED
    BY <2>1, <2>2
<1>3. PICK i \in run.todo : \A j \in run.todo : ~(<<j, i>> \in R)
  <2>1. run.todo \subseteq Nat
    BY <1>1
  <2>2. QED
    BY <1>2, <2>1, WFMin
<1>4. \A j \in run.todo : i <= j
  <2>1. ASSUME NEW j \in run.todo PROVE ~(j < i) /\ i \in Nat /\ j \in Nat
    BY <1>1, <1>2, <1>3
  <2>2. QED
    BY <2>1
<1>5. Turn \in run.todo
  BY <1>3, <1>4 DEF Turn
<1> DEFINE Stages == [ext : Extensions, phase : Phases]
<1>6. Plan \in Seq(Stages)
  BY PlanAssumption
<1> HIDE DEF Stages
<1>7. Current \in Stages
  BY <1>1, <1>5, <1>6 DEF Current
<1>8. QED
  BY <1>5, <1>7 DEF Stages

\* The constants as the proofs use them.
LEMMA TreesOf ==
  ASSUME NEW c \in Commits
  PROVE  /\ Fork[c].content \in [Extensions -> Versions \cup {NotReadable}]
         /\ Fork[c].off \subseteq Extensions
         /\ Fork[c].parses \in BOOLEAN
BY TreesAssumption DEF Tree

LEMMA IdleTyped == Idle \in RunStates /\ ~Idle.alive
BY DEF Idle, RunStates, Places, Copies, NoGrant, NoCommit

\* The start of a phase.
LEMMA PlannedTyped ==
  ASSUME EnvironmentTyped, NEW c \in Commits, NEW phase \in {"pre", "post"},
         NEW target \in BOOLEAN
  PROVE  LET p == Planned(c, phase, target)
         IN /\ p \in RunStates
            /\ p.pc = "stages" /\ p.commit = c /\ p.phase = phase
            /\ p.pauses = {} /\ p.unchecked = {} /\ p.acceptances = {}
            /\ ~p.alive
<1>1. StagesOf(phase) \subseteq DOMAIN Plan
  BY DEF StagesOf
<1>2. (trustReads \/ InCI \/ StagesOf(phase) = {}) \in BOOLEAN
  OBVIOUS
<1>3. trust \in [Extensions -> Copies]
  BY DEF EnvironmentTyped
<1>4. QED
  BY <1>1, <1>2, <1>3 DEF Planned, Idle, RunStates, Places, Copies, NoGrant

\* The end of a stage, whatever its outcome: nothing it pauses over is lost.
LEMMA StageEnds ==
  ASSUME EnvironmentTyped, RunInv, Advance \/ Unchecked,
         run.pc \in {"stages", "running", "draining"}, run.todo # {}
  PROVE  /\ run' \in RunStates
         /\ run'.pc = "stages" /\ ~run'.alive
         /\ run'.commit = run.commit /\ run'.phase = run.phase
         /\ run'.pauses \subseteq run'.unchecked
         /\ run'.acceptances \subseteq accepted
         /\ \A e \in run'.unchecked \ run'.pauses : <<run.commit, e>> \in accepted
<1>1. /\ run \in RunStates /\ Current.ext \in Extensions
      /\ accepted \subseteq Commits \X Extensions
  BY TurnIsNext DEF EnvironmentTyped, RunInv, RunTyped
<1>2. /\ Advanced \in RunStates
      /\ Advanced.pc = "stages" /\ ~Advanced.alive
      /\ Advanced.commit = run.commit /\ Advanced.phase = run.phase
      /\ Advanced.pauses = run.pauses /\ Advanced.unchecked = run.unchecked
      /\ Advanced.acceptances = run.acceptances
  BY <1>1 DEF Advanced, RunStates, Places, Copies
<1>3. CASE Advance
  BY <1>2, <1>3 DEF Advance, RunInv, PausesStand
<1>4. ASSUME NEW acceptances \in SUBSET accepted,
             run' = [Advanced EXCEPT
               !.asked = TRUE, !.acceptances = acceptances,
               !.unchecked = @ \cup {Current.ext},
               !.pauses = IF PauseAccepted(acceptances, run.commit, Current.ext)
                            THEN @ ELSE @ \cup {Current.ext}]
      PROVE  /\ run' \in RunStates
             /\ run'.pc = "stages" /\ ~run'.alive
             /\ run'.commit = run.commit /\ run'.phase = run.phase
             /\ run'.pauses \subseteq run'.unchecked
             /\ run'.acceptances \subseteq accepted
             /\ \A e \in run'.unchecked \ run'.pauses :
                  <<run.commit, e>> \in accepted
  <2>1. /\ run'.pc = "stages" /\ ~run'.alive
        /\ run'.commit = run.commit /\ run'.phase = run.phase
        /\ run'.acceptances = acceptances
        /\ run'.unchecked = run.unchecked \cup {Current.ext}
        /\ run'.pauses = IF <<run.commit, Current.ext>> \in acceptances
                           THEN run.pauses ELSE run.pauses \cup {Current.ext}
    BY <1>2, <1>4 DEF PauseAccepted, RunStates
  <2>2. run' \in RunStates
    BY <1>1, <1>2, <1>4 DEF RunStates
  <2>3. QED
    BY <2>1, <2>2 DEF RunInv, PausesStand
<1>5. CASE Unchecked
  <2>1. CASE Current.phase # "pre-gate-stop"
    BY <1>3, <1>5, <2>1 DEF Unchecked
  <2>2. CASE Current.phase = "pre-gate-stop"
    <3>1. PICK journal \in {accepted, {}} :
            LET acceptances == IF run.asked THEN run.acceptances ELSE journal
            IN run' = [Advanced EXCEPT
                 !.asked = TRUE, !.acceptances = acceptances,
                 !.unchecked = @ \cup {Current.ext},
                 !.pauses = IF PauseAccepted(acceptances, run.commit, Current.ext)
                              THEN @ ELSE @ \cup {Current.ext}]
      BY <1>5, <2>2 DEF Unchecked
    <3>2. (IF run.asked THEN run.acceptances ELSE journal) \in SUBSET accepted
      BY DEF RunInv, PausesStand
    <3>3. QED
      BY <1>4, <3>1, <3>2
  <2>3. QED
    BY <2>1, <2>2
<1>6. QED
  BY <1>3, <1>5

----------------------------------------------------------------------------
\* Whatever moves outside the command leaves it what it was.
LEMMA OutsideKeeps ==
  ASSUME IInv, UNCHANGED run, EnvironmentTyped',
         accepted \subseteq accepted', merged \subseteq merged',
         completed' = completed
  PROVE  IInv'
<1>1. RunTyped' /\ StageRuns' /\ OperationalPasses'
  BY DEF IInv, RunInv, RunTyped, StageRuns, OperationalPasses, Current, Turn
<1>2. PausesStand'
  BY DEF IInv, RunInv, PausesStand
<1>3. NoPauseCompletedOver'
  BY DEF IInv, NoPauseCompletedOver
<1>4. QED
  BY <1>1, <1>2, <1>3 DEF IInv, RunInv

LEMMA EnvironmentSteps ==
  ASSUME IInv
  PROVE  /\ \A e \in Extensions : Untrust(e) => IInv'
         /\ \A e \in Extensions, v \in Versions : Trust(e, v) => IInv'
         /\ \A c \in Commits, e \in Extensions : AcceptPause(c, e) => IInv'
         /\ \A c \in Commits : Land(c) => IInv'
<1>1. EnvironmentTyped
  BY DEF IInv
<1>2. ASSUME NEW e \in Extensions, NEW v \in Copies, Trust(e, v) PROVE IInv'
  BY <1>1, <1>2, OutsideKeeps DEF Trust, EnvironmentTyped
<1>3. ASSUME NEW c \in Commits, NEW e \in Extensions, AcceptPause(c, e)
      PROVE  IInv'
  BY <1>1, <1>3, OutsideKeeps DEF AcceptPause, EnvironmentTyped
<1>4. ASSUME NEW c \in Commits, Land(c) PROVE IInv'
  BY <1>1, <1>4, OutsideKeeps DEF Land, EnvironmentTyped
<1>5. QED
  BY <1>2, <1>3, <1>4 DEF Untrust, Copies

\* The command's own steps leave the environment alone.
LEMMA RunSteps ==
  ASSUME IInv, UNCHANGED <<environment, completed>>, RunInv'
  PROVE  IInv'
BY DEF IInv, environment, EnvironmentTyped, NoPauseCompletedOver

\* A command that is over promises nothing.
LEMMA IdleKeeps ==
  ASSUME run' = Idle
  PROVE  RunInv'
<1>1. RunTyped'
  BY IdleTyped DEF RunTyped, Idle
<1>2. run'.pc = "idle" /\ run'.pauses = {} /\ run'.unchecked = {}
      /\ run'.acceptances = {}
  BY DEF Idle
<1>3. QED
  BY <1>1, <1>2 DEF RunInv, StageRuns, PausesStand, OperationalPasses

LEMMA StartKeeps ==
  ASSUME IInv, NEW c \in Commits, NEW target \in BOOLEAN, Start(c, target)
  PROVE  IInv'
<1>1. CASE Operational(c)
  <2>1. run' = [Idle EXCEPT !.pc = "gate", !.commit = c, !.target = target]
    BY <1>1 DEF Start
  <2>2. run' \in RunStates
    BY <2>1, IdleTyped DEF RunStates, Places
  <2>3. /\ run'.pc = "gate" /\ run'.commit = c /\ ~run'.alive
        /\ run'.pauses = {} /\ run'.unchecked = {} /\ run'.acceptances = {}
    BY <2>1 DEF Idle
  <2>4. RunInv'
    BY <2>2, <2>3 DEF RunInv, RunTyped, StageRuns, PausesStand, OperationalPasses
  <2>5. QED
    BY <2>4, RunSteps DEF Start
<1>2. CASE ~Operational(c) /\ ManifestsRead(c)
  <2>1. run' = Planned(c, "pre", target)
    BY <1>2 DEF Start
  <2>2. /\ run' \in RunStates
        /\ run'.pc = "stages" /\ run'.commit = c /\ ~run'.alive
        /\ run'.pauses = {} /\ run'.unchecked = {} /\ run'.acceptances = {}
    BY <2>1, PlannedTyped DEF IInv
  <2>3. RunTyped' /\ StageRuns' /\ PausesStand'
    BY <2>2 DEF RunTyped, StageRuns, PausesStand
  <2>4. OperationalPasses'
    BY <1>2, <2>2 DEF OperationalPasses, Operational
  <2>5. QED
    BY <2>3, <2>4, RunSteps DEF RunInv, Start
<1>3. CASE ~Operational(c) /\ ~ManifestsRead(c)
  <2>1. run' = [Idle EXCEPT !.pc = "refused", !.commit = c]
    BY <1>3 DEF Start
  <2>2. run' \in RunStates
    BY <2>1, IdleTyped DEF RunStates, Places
  <2>3. /\ run'.pc = "refused" /\ run'.commit = c /\ ~run'.alive
        /\ run'.pauses = {} /\ run'.unchecked = {} /\ run'.acceptances = {}
    BY <2>1 DEF Idle
  <2>4. RunTyped' /\ StageRuns' /\ PausesStand'
    BY <2>2, <2>3 DEF RunTyped, StageRuns, PausesStand
  <2>5. OperationalPasses'
    BY <1>3, <2>3 DEF OperationalPasses, Operational
  <2>6. QED
    BY <2>4, <2>5, RunSteps DEF RunInv, Start
<1>4. QED
  BY <1>1, <1>2, <1>3

\* A stage's end, before or after its process, leads to the next stage.
LEMMA StageEndKeeps ==
  ASSUME IInv, Advance \/ Unchecked, UNCHANGED <<environment, completed>>,
         run.pc \in {"stages", "running", "draining"}, run.todo # {}
  PROVE  IInv'
<1>1. /\ run' \in RunStates
      /\ run'.pc = "stages" /\ ~run'.alive
      /\ run'.commit = run.commit /\ run'.phase = run.phase
      /\ run'.pauses \subseteq run'.unchecked
      /\ run'.acceptances \subseteq accepted
      /\ \A e \in run'.unchecked \ run'.pauses : <<run.commit, e>> \in accepted
  BY StageEnds DEF IInv
<1>2. RunTyped'
  BY <1>1 DEF RunTyped, IInv, RunInv
<1>3. StageRuns' /\ PausesStand'
  BY <1>1 DEF StageRuns, PausesStand, environment
<1>4. OperationalPasses'
  BY <1>1 DEF OperationalPasses, Operational, IInv, RunInv
<1>5. QED
  BY <1>2, <1>3, <1>4, RunSteps DEF RunInv

\* A stage is started as it is granted.
LEMMA LaunchKeeps == ASSUME IInv, Launch PROVE IInv'
<1> DEFINE e == Current.ext
           copy == Materialized(run.commit, e)
<1>1. PICK piped \in BOOLEAN :
        run' = [run EXCEPT !.pc = "running", !.copy = copy, !.started = copy,
                           !.alive = TRUE, !.piped = piped]
  BY DEF Launch
<1>2. /\ run \in RunStates /\ run.commit \in Commits
      /\ run.todo # {} /\ run.pc = "stages"
  BY DEF Launch, IInv, RunInv, RunTyped
<1>3. e \in Extensions /\ copy \in Copies /\ copy = Fork[run.commit].content[e]
  BY <1>2, TurnIsNext, TreesOf DEF Materialized, Copies, NotReadable, NoGrant
<1>4. /\ e \notin Fork[run.commit].off
      /\ InCI \/ run.grants[e] = copy
  BY <1>2, TreesOf DEF Launch, SwitchedOff, Blocked
<1>5. run' \in RunStates
  BY <1>1, <1>2, <1>3 DEF RunStates, Places
<1>6. /\ run'.pc = "running" /\ run'.started = copy /\ run'.alive
      /\ run'.commit = run.commit /\ run'.phase = run.phase
      /\ run'.todo = run.todo /\ run'.grants = run.grants
      /\ run'.pauses = run.pauses /\ run'.unchecked = run.unchecked
      /\ run'.acceptances = run.acceptances
  BY <1>1, <1>2 DEF RunStates
<1>7. Current' = Current
  BY <1>6 DEF Current, Turn
<1>8. RunTyped'
  BY <1>2, <1>5, <1>6 DEF RunTyped
<1>9. StageRuns'
  BY <1>2, <1>3, <1>4, <1>6, <1>7 DEF StageRuns
<1>10. PausesStand'
  BY <1>6 DEF PausesStand, IInv, RunInv, Launch, environment
<1>11. OperationalPasses'
  BY <1>2, <1>6 DEF OperationalPasses, Operational, IInv, RunInv
<1>12. QED
  BY <1>8, <1>9, <1>10, <1>11, RunSteps DEF RunInv, Launch

\* What a started stage or its pipe does changes nothing it is known by.
LEMMA StageMoves ==
  ASSUME IInv, UNCHANGED <<environment, completed>>,
         run.pc # "idle", run' \in RunStates,
         \/ run'.pc = run.pc
         \/ run.pc = "running" /\ run'.pc = "draining",
         run'.alive => run'.pc = "running",
         run'.commit = run.commit, run'.phase = run.phase,
         run'.todo = run.todo, run'.grants = run.grants,
         run'.started = run.started,
         run'.pauses = run.pauses, run'.unchecked = run.unchecked,
         run'.acceptances = run.acceptances
  PROVE  IInv'
<1>1. RunTyped'
  BY DEF RunTyped, IInv, RunInv
<1>2. Current' = Current
  BY DEF Current, Turn
<1>3. StageRuns'
  BY <1>2 DEF StageRuns, IInv, RunInv
<1>4. PausesStand'
  BY DEF PausesStand, IInv, RunInv, environment
<1>5. OperationalPasses'
  BY DEF OperationalPasses, Operational, IInv, RunInv
<1>6. QED
  BY <1>1, <1>3, <1>4, <1>5, RunSteps DEF RunInv

LEMMA StageBehaviorKeeps ==
  ASSUME IInv
  PROVE  /\ \A v \in Versions : Tamper(v) => IInv'
         /\ StageExits => IInv'
         /\ PipeCloses => IInv'
         /\ TimeLimit => IInv'
<1>1. /\ run \in RunStates
      /\ run.alive => run.pc = "running"
  BY DEF IInv, RunInv, RunTyped
<1>2. ASSUME NEW v \in Versions, Tamper(v) PROVE IInv'
  <2>1. run' = [run EXCEPT !.copy = v] /\ run.pc = "running"
        /\ UNCHANGED <<environment, completed>>
    BY <1>2 DEF Tamper
  <2>2. run' \in RunStates
    BY <1>1, <2>1 DEF RunStates, Copies
  <2>3. QED
    BY <1>1, <2>1, <2>2, StageMoves DEF RunStates
<1>3. ASSUME StageExits PROVE IInv'
  <2>1. run' = [run EXCEPT !.alive = FALSE] /\ run.pc = "running"
        /\ UNCHANGED <<environment, completed>>
    BY <1>1, <1>3 DEF StageExits
  <2>2. run' \in RunStates
    BY <1>1, <2>1 DEF RunStates
  <2>3. QED
    BY <1>1, <2>1, <2>2, StageMoves DEF RunStates
<1>4. ASSUME PipeCloses PROVE IInv'
  <2>1. run' = [run EXCEPT !.piped = FALSE]
        /\ UNCHANGED <<environment, completed>>
    BY <1>4 DEF PipeCloses
  <2>2. run' \in RunStates
    BY <1>1, <2>1 DEF RunStates
  <2>3. CASE run.pc # "idle"
    BY <1>1, <2>1, <2>2, <2>3, StageMoves DEF RunStates
  <2>4. CASE run.pc = "idle"
    <3>1. /\ run'.pc = run.pc /\ run'.alive = run.alive
          /\ run'.commit = run.commit /\ run'.phase = run.phase
          /\ run'.pauses = run.pauses /\ run'.unchecked = run.unchecked
          /\ run'.acceptances = run.acceptances
      BY <1>1, <2>1 DEF RunStates
    <3>2. RunTyped' /\ StageRuns' /\ OperationalPasses'
      BY <1>1, <2>2, <2>4, <3>1
         DEF RunTyped, StageRuns, OperationalPasses
    <3>3. PausesStand'
      BY <2>1, <3>1 DEF PausesStand, IInv, RunInv, environment
    <3>4. QED
      BY <2>1, <3>2, <3>3, RunSteps DEF RunInv
  <2>5. QED
    BY <2>3, <2>4
<1>5. ASSUME TimeLimit PROVE IInv'
  <2>1. run' = [run EXCEPT !.pc = "draining", !.alive = FALSE]
        /\ run.pc = "running" /\ UNCHANGED <<environment, completed>>
    BY <1>5 DEF TimeLimit, AfterKill
  <2>2. run' \in RunStates
    BY <1>1, <2>1 DEF RunStates, Places
  <2>3. QED
    BY <1>1, <2>1, <2>2, StageMoves DEF RunStates
<1>6. QED
  BY <1>2, <1>3, <1>4, <1>5

\* The gate is asked over no pause that stands.
LEMMA EndPreGateKeeps == ASSUME IInv, EndPreGate PROVE IInv'
<1> DEFINE next == IF ~run.grantsRead THEN "refused"
                   ELSE IF run.pauses = {} \/ (run.target /\ run.commit \in merged)
                     THEN "gate" ELSE "paused"
<1>1. /\ run' = [run EXCEPT !.pc = next]
      /\ run.pc = "stages" /\ run.phase = "pre"
      /\ UNCHANGED <<environment, completed>>
  BY DEF EndPreGate
<1>2. /\ run \in RunStates /\ run.commit \in Commits /\ ~run.alive
      /\ ~Operational(run.commit)
  BY <1>1 DEF IInv, RunInv, RunTyped, OperationalPasses
<1>3. /\ next \in {"refused", "gate", "paused"}
      /\ next = "gate" => run.pauses = {} \/ run.commit \in merged
  OBVIOUS
<1> HIDE DEF next
<1>4. /\ run' \in RunStates
      /\ run'.pc = next /\ run'.alive = run.alive
      /\ run'.commit = run.commit
      /\ run'.pauses = run.pauses /\ run'.unchecked = run.unchecked
      /\ run'.acceptances = run.acceptances
  BY <1>1, <1>2, <1>3 DEF RunStates, Places
<1>5. RunTyped' /\ StageRuns'
  BY <1>2, <1>3, <1>4 DEF RunTyped, StageRuns
<1>6. PausesStand'
  BY <1>1, <1>3, <1>4 DEF PausesStand, IInv, RunInv, environment
<1>7. OperationalPasses'
  BY <1>2, <1>4 DEF OperationalPasses, Operational
<1>8. QED
  BY <1>1, <1>5, <1>6, <1>7, RunSteps DEF RunInv

LEMMA GateKeeps ==
  ASSUME IInv, NEW passed \in BOOLEAN, GateSays(passed)
  PROVE  IInv'
<1>1. CASE run' = Idle
  BY <1>1, IdleKeeps, RunSteps DEF GateSays
<1>2. CASE run' = [run EXCEPT !.pc = "passed"]
  <2>1. /\ run \in RunStates /\ run.pc = "gate" /\ ~run.alive
        /\ run.commit \in Commits
    BY DEF GateSays, IInv, RunInv, RunTyped
  <2>2. /\ run' \in RunStates
        /\ run'.pc = "passed" /\ run'.alive = run.alive
        /\ run'.commit = run.commit
        /\ run'.pauses = run.pauses /\ run'.unchecked = run.unchecked
        /\ run'.acceptances = run.acceptances
    BY <1>2, <2>1 DEF RunStates, Places
  <2>3. RunTyped' /\ StageRuns' /\ OperationalPasses'
    BY <2>1, <2>2 DEF RunTyped, StageRuns, OperationalPasses
  <2>4. PausesStand'
    BY <2>1, <2>2 DEF PausesStand, IInv, RunInv, GateSays, environment
  <2>5. QED
    BY <2>3, <2>4, RunSteps DEF RunInv, GateSays
<1>3. QED
  BY <1>1, <1>2 DEF GateSays

\* The completed record names stages all of whose pauses were lifted.
LEMMA RecordKeeps == ASSUME IInv, Record PROVE IInv'
<1>1. /\ run \in RunStates /\ run.commit \in Commits /\ run.pc = "passed"
      /\ UNCHANGED environment
      /\ completed' = completed \cup
           {[commit |-> run.commit, unchecked |-> run.unchecked]}
  BY DEF Record, IInv, RunInv, RunTyped
<1>2. EnvironmentTyped'
  <2>1. run.unchecked \subseteq Extensions
    BY <1>1 DEF RunStates
  <2>2. QED
    BY <1>1, <2>1 DEF IInv, EnvironmentTyped, environment
<1>3. \A e \in run.unchecked :
        <<run.commit, e>> \in accepted \/ run.commit \in merged
  BY <1>1 DEF IInv, RunInv, PausesStand
<1>4. NoPauseCompletedOver'
  <2>1. ASSUME NEW r \in completed', NEW e \in r.unchecked
        PROVE  <<r.commit, e>> \in accepted \/ r.commit \in merged
    <3>1. CASE r \in completed
      BY <2>1, <3>1 DEF IInv, NoPauseCompletedOver
    <3>2. CASE r = [commit |-> run.commit, unchecked |-> run.unchecked]
      BY <1>3, <2>1, <3>2
    <3>3. QED
      BY <1>1, <2>1, <3>1, <3>2
  <2>2. QED
    BY <1>1, <2>1 DEF NoPauseCompletedOver, environment
<1>5. RunInv'
  <2>1. CASE ManifestsRead(run.commit)
    <3>1. run' = Planned(run.commit, "post", run.target)
      BY <2>1 DEF Record
    <3>2. run.target \in BOOLEAN /\ EnvironmentTyped
      BY <1>1 DEF RunStates, IInv
    <3>3. /\ run' \in RunStates
          /\ run'.pc = "stages" /\ run'.commit = run.commit /\ ~run'.alive
          /\ run'.phase = "post" /\ run'.pauses = {}
          /\ run'.unchecked = {} /\ run'.acceptances = {}
      BY <1>1, <3>1, <3>2, PlannedTyped
    <3>4. QED
      BY <1>1, <3>3 DEF RunInv, RunTyped, StageRuns, PausesStand,
         OperationalPasses
  <2>2. CASE ~ManifestsRead(run.commit)
    BY <2>2, IdleKeeps DEF Record
  <2>3. QED
    BY <2>1, <2>2
<1>6. QED
  BY <1>2, <1>4, <1>5 DEF IInv

LEMMA StepKeeps == ASSUME IInv, Step PROVE IInv'
<1>1. ASSUME NotStarted PROVE IInv'
  BY <1>1, StageEndKeeps DEF NotStarted
<1>2. ASSUME Collect PROVE IInv'
  BY <1>2, StageEndKeeps DEF Collect, IInv, RunInv, StageRuns
<1>3. ASSUME Drained PROVE IInv'
  BY <1>3, StageEndKeeps DEF Drained, IInv, RunInv, StageRuns
<1>4. ASSUME EndPostGate \/ Exit PROVE IInv'
  BY <1>4, IdleKeeps, RunSteps DEF EndPostGate, Exit
<1>5. QED
  BY <1>1, <1>2, <1>3, <1>4, LaunchKeeps, StageBehaviorKeeps,
     EndPreGateKeeps, GateKeeps, RecordKeeps DEF Step

LEMMA IInvNext == IInv /\ [Next]_vars => IInv'
<1>1. SUFFICES ASSUME IInv, [Next]_vars PROVE IInv'
  OBVIOUS
<1>2. CASE UNCHANGED vars
  BY <1>1, <1>2, OutsideKeeps DEF vars, IInv, EnvironmentTyped
<1>3. ASSUME Killed PROVE IInv'
  BY <1>1, <1>3, IdleKeeps, RunSteps DEF Killed
<1>4. CASE Next
  BY <1>1, <1>3, <1>4, EnvironmentSteps, StartKeeps, StepKeeps,
     StageBehaviorKeeps DEF Next
<1>5. QED
  BY <1>1, <1>2, <1>4

LEMMA IInvInit == Init => IInv
<1>1. SUFFICES ASSUME Init PROVE IInv
  OBVIOUS
<1>2. EnvironmentTyped
  BY <1>1 DEF Init, EnvironmentTyped, Copies
<1>3. RunInv
  BY <1>1, IdleTyped DEF Init, Idle, RunInv, RunTyped, StageRuns,
     PausesStand, OperationalPasses
<1>4. QED
  BY <1>1, <1>2, <1>3 DEF Init, IInv, NoPauseCompletedOver

THEOREM IInvHolds == Spec => []IInv
BY IInvInit, IInvNext, PTL DEF Spec

(***************************************************************************)
(* Whatever the grants, the trees, the switches and the stages do, code    *)
(* that runs is the merge base's, as granted when the run began.           *)
(***************************************************************************)
THEOREM GrantedBaseCodeRuns == Spec => []OnlyGrantedBaseCodeRuns
<1>1. ASSUME IInv PROVE OnlyGrantedBaseCodeRuns
  <2>1. TypeOK
    BY <1>1 DEF IInv, EnvironmentTyped, RunInv, RunTyped, PausesStand,
       RunStates, Copies, TypeOK
  <2>2. QED
    BY <1>1, <2>1 DEF OnlyGrantedBaseCodeRuns, IInv, RunInv, StageRuns
<1>2. QED
  BY <1>1, IInvHolds, PTL

(***************************************************************************)
(* A completion went over no pause that stood, whenever the acceptances    *)
(* were read and whatever was accepted or merged meanwhile.                *)
(***************************************************************************)
THEOREM PausesHold == Spec => []NoPauseCompletedOver
<1>1. IInv => NoPauseCompletedOver
  BY DEF IInv
<1>2. QED
  BY <1>1, IInvHolds, PTL

(***************************************************************************)
(* The change that only switches extensions off reaches the gate, however  *)
(* broken the extensions are.                                              *)
(***************************************************************************)
THEOREM SwitchingOffPasses == Spec => []SwitchingOffIsNeverBlocked
<1>1. ASSUME IInv PROVE SwitchingOffIsNeverBlocked
  <2>1. run.phase \in {"pre", "post"}
    BY <1>1 DEF IInv, RunInv, RunTyped, RunStates
  <2>2. QED
    BY <1>1, <2>1 DEF IInv, RunInv, OperationalPasses, Operational,
       SwitchingOffIsNeverBlocked
<1>2. QED
  BY <1>1, IInvHolds, PTL
============================================================================
