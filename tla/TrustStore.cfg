\* Commands that overlap and are killed anywhere.
SPECIFICATION Spec
CONSTANTS
  c1 = c1
  c2 = c2
  lint = lint
  spec = spec
  mine = mine
  draft = draft
  Commands = {c1, c2}
  Shared = {lint, spec}
  Personal = {mine, draft}
  Versions = {1, 2}
  MaxRuns = 4
SYMMETRY Symmetric
INVARIANTS
  LoggedChangesLanded
PROPERTIES
  OnlyTheNamedEntryChanges
CHECK_DEADLOCK FALSE
