\* Two branches at a time that carry two records between them: every way for
\* a branch to be behind the base when it is gated or merged, and every pair
\* of records it can bring to a task in any state and to a second task.
SPECIFICATION Spec
SYMMETRY Symmetry
ACTION_CONSTRAINT NextQuestion
CONSTANTS
  Tasks = {1, 2}
  Candidates = {c1, c2}
  Types = {"review", "completed", "reopened"}
  Contracts = {k1, k2}
  Landed <- MCLanded
  MaxId = 3
  MaxAdded = 2
INVARIANTS
  BaseReads
  OneContractEach
PROPERTIES
  NoWorkOnClosedTask
  ReopeningTravelsAlone
CHECK_DEADLOCK FALSE
