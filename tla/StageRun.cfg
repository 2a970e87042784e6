\* Four candidates, each with a stop stage per extension and one after the
\* gate, under any grants, with two acceptances or merges meanwhile and every
\* behavior of a stage.
SPECIFICATION Spec
CONSTANTS
  Extensions = {"lint", "spec"}
  Versions = {1, 2}
  Plan <- MCPlan
  Commits = {"plain", "sly", "garbled", "operational"}
  Fork <- MCFork
  Own <- MCOwn
  SwitchOnly = {"operational"}
  InCI = FALSE
  MaxEvents = 2
ACTION_CONSTRAINT NextQuestion
INVARIANTS
  OnlyGrantedBaseCodeRuns
  NoPauseCompletedOver
  SwitchingOffIsNeverBlocked
PROPERTY
  EveryRunEnds
CHECK_DEADLOCK FALSE
