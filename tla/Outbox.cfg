\* Two sends and the changes of others around them.
SPECIFICATION Spec
CONSTANTS
  s1 = s1
  s2 = s2
  d1 = d1
  d2 = d2
  fit = fit
  hazy = hazy
  theirs = theirs
  leak = leak
  Sends = {s1, s2}
  Names = {d1, d2}
  Contents = {fit, hazy, theirs, leak}
  Unfilled = {hazy, theirs}
  Leaks = {leak}
  Claimed = {theirs}
  MaxRuns = 3
  MaxEdits = 3
ACTION_CONSTRAINT NextQuestion
SYMMETRY Symmetric
PROPERTIES
  OnlyCheckedFilesAreSent
  NoFindingIsSentTwice
  RefusalLeavesAsFound
CHECK_DEADLOCK FALSE
