\* Two hosts, clocks up to 1 ms apart, overlapping commands, kills: three
\* commands, enough to complete, reopen and complete again, and for two in
\* flight with others that load what they left.
SPECIFICATION Spec
SYMMETRY HostSymmetry
CONSTANTS
  Writers = {w1, w2}
  Types = {"review", "session", "completed", "abandoned", "reopened"}
  MaxLag = 1
  MaxTime = 4
  PerMs = 2
  MayCrash = TRUE
INVARIANTS
  CommandsLeaveJournalReadable
  LatestIsGreatestName
  CrashTearsOneRecord
PROPERTY ImplementsLifecycle
CHECK_DEADLOCK FALSE
