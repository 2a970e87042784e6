\* One launch beside two moves of others, or with a record-check or record-ext
\* beside one; a log of two entries is over its cap.
SPECIFICATION EvidenceSpec
CONSTANTS
  l1 = l1
  c1 = c1
  Launches = {l1}
  Recorders = {c1}
  Cap = 1
  Moves = 2
ACTION_CONSTRAINT NextQuestion
INVARIANTS
  PaidOutputIsWhereItSays
  RecordSaysWhatTheReviewerSaw
  MarkupNeverCostsTheVerdict
  CheckOutputOutlivesOwnSweep
CHECK_DEADLOCK FALSE
