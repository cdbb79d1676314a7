SPECIFICATION FairSpec
CONSTANTS
  r1 = r1
  r2 = r2
  j1 = j1
  j2 = j2
  c1 = c1
  c2 = c2
  NoOne = NoOne
  NoJob = NoJob
  Runtime = {r1, r2}
  Job = {j1}
  Request = {}
  Cancellable = {j1, j2}
  Provider = "firebase"
  MaxConcurrent = 1
  MaxRuns = 2
  MaxFaults = 0
  TimelyHeartbeats = TRUE
  Stops = {"kill"}
PROPERTIES
  JobsReachAnEnd
CHECK_DEADLOCK FALSE
