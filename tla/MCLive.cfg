SPECIFICATION LiveSpec
CONSTANTS
  NoState = NoState
  Client = {c1}
  MaxBeats = 1
  ViewJob = {a, b}
  NoJob = NoJob
  Slot = {w1, w2, w3, w4}
  MaxSwitches = 1
  Handoff = {h1, h2}
  FirstService = first
INVARIANTS LiveTypeOK DeliveredResultCounts ExtraConnectionsComeFromSwitches
PROPERTIES StoppedChildEnds SubscribersLearnTheEnd GhostsComeFromWaits StaysConnected ServiceReturns
CHECK_DEADLOCK FALSE
