\* One representative of each row of the registry the projection tells apart:
\* the four lifecycle types, a measurement and a work record; one step.
SPECIFICATION StepsSpec
CONSTANTS
  s1 = s1
  Types = {"opened", "completed", "abandoned", "reopened", "session", "review"}
  MaxId = 2
  StepIds = {s1}
  Activities = {"implementation", "review"}
  Skew = 1
  MaxTime = 3
INVARIANTS
  LoopComputesProjection
  StepsCloseByTheirWork
PROPERTIES
  NoStepRevives
CONSTRAINT Few
CHECK_DEADLOCK FALSE
