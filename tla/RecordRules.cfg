\* Every type, written by a command or added by a candidate, with up to three
\* optional arguments, one value not well formed and any schema.
SPECIFICATION RulesSpec
SYMMETRY TaskSymmetry
CONSTANTS
  RuleTypes = {"opened", "review", "acceptance", "completed", "abandoned", "reopened", "amendment", "session", "finding", "check", "agreement", "acknowledgement", "ext"}
  t1 = t1
  t2 = t2
  Tasks = {t1, t2}
  MaxGiven = 3
INVARIANTS
  WhateverEntersIsRead
  StampIsLeastAdmitting
CHECK_DEADLOCK FALSE
