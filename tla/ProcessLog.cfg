\* Two writers, one payload and a reader, any operation of which may fail.
SPECIFICATION Spec
CONSTANTS
  w1 = w1
  w2 = w2
  p1 = p1
  Writers = {w1, w2}
  Payloads = {p1}
  MaxEvents = 3
  RotateAt = 1
  Keep = 2
  Cap = 1
  Days = 1
SYMMETRY Symmetric
ACTION_CONSTRAINT NextQuestion
INVARIANTS
  WhatIsWrittenIsRead
  RotationsInOrder
  PublishedIsWhole
  CalmReadFindsEachEventOnce
PROPERTIES
  YoungFilesAreLeftAlone
CHECK_DEADLOCK FALSE
