SPECIFICATION CancelFairSpec
CONSTANTS
  r1 = r1
  r2 = r2
  j1 = j1
  j2 = j2
  c1 = c1
  c2 = c2
  NoOne = NoOne
  NoJob = NoJob
  Runtime = {r1, r2}
  Job = {j1}
  Request = {c1}
  Cancellable = {j1, j2}
  Provider = "sqlite"
  MaxConcurrent = 1
  MaxRuns = 2
  MaxFaults = 0
  TimelyHeartbeats = TRUE
  Stops = {}
PROPERTIES
  CancellationsComplete
CHECK_DEADLOCK FALSE
