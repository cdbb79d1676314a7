--------------------------- MODULE MCJobLifecycle ---------------------------
(* Model values for the runs of JobLifecycle, and the symmetry of those that *)
(* check no liveness property.                                               *)
EXTENDS JobLifecycle, TLC

CONSTANTS r1, r2, j1, j2, c1, c2

Symmetric == Permutations(Runtime) \cup Permutations(Job) \cup Permutations(Request)

(* The bounds of the run cancel.  A behaviour follows one job: either j1, which *)
(* can be cancelled, on one runtime with two requests, or j2, whose skill       *)
(* refuses cancellation and leaves no output, on two runtimes with one request. *)
RacingRequests == submission[j2].stage = "none" /\ mode[r2] = "off"
RefusedRequest == submission[j1].stage = "none" /\ requests[c2] = Idle /\ files = {}

CancelSpec == Init /\ [][Next /\ (RacingRequests' \/ RefusedRequest')]_vars
=============================================================================
