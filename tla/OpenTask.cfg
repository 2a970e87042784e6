\* Three commands that overlap, with pulls and edits by hand.
SPECIFICATION OpeningSpec
CONSTANTS
  c1 = c1
  c2 = c2
  c3 = c3
  lint = lint
  spec = spec
  Commands = {c1, c2, c3}
  Extensions = {lint, spec}
  MaxTask = 3
SYMMETRY Symmetric
INVARIANTS
  VisibleTaskIsWhole
  OffByItsOwnTask
PROPERTIES
  NoTaskIsOverwritten
CHECK_DEADLOCK FALSE
