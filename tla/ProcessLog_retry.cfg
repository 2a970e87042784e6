\* One writer the rotations of which fail half way.
SPECIFICATION Spec
CONSTANTS
  w1 = w1
  Writers = {w1}
  Payloads = {}
  MaxEvents = 5
  RotateAt = 1
  Keep = 2
  Cap = 9
  Days = 0
PROPERTIES
  RotationDropsOnlyTheSixth
CHECK_DEADLOCK FALSE
