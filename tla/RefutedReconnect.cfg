SPECIFICATION ViewSpec
CONSTANTS
  ViewJob = {a, b}
  NoJob = NoJob
  Slot = {w1, w2, w3, w4}
  MaxSwitches = 2
PROPERTIES
  ReconnectsUnlessClosed
CHECK_DEADLOCK FALSE
