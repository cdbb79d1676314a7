------------------------------ MODULE Deployment ------------------------------
(***************************************************************************)
(* A deployment from the health console: services/deploymentService.js     *)
(* hands over to a detached command shell, which runs stop-services.ps1    *)
(* and, if that exits with 0, launcher.ps1; server.js starts the new       *)
(* backend; AdminHealthView.vue polls until a backend answers.             *)
(*                                                                         *)
(* The host is a Windows one.  The services a handoff launches are named   *)
(* after it; at most one process listens on a port.                        *)
(***************************************************************************)
CONSTANTS Handoff, FirstService

ASSUME DeploymentAssumption == FirstService \notin Handoff

Services == Handoff \cup {FirstService}
Ports    == {"backend", "frontend"}

VARIABLES
    process,            \* [Services -> [Ports -> "none" | "booting" | "listening"]]
    foreignListener,    \* a process that is not node listens on the frontend's port
    handoff,            \* [Handoff -> how far its scripts are]
    listed,             \* [Handoff -> what stop-services.ps1 has still to stop]
    handoffInProgress,  \* the flag of deploymentService.js
    console,            \* what the health console shows of a deployment
    spoilt              \* the handoffs that failed, or met another one (see ServiceReturns)

deploymentVars == <<process, foreignListener, handoff, listed, handoffInProgress, console, spoilt>>
hostVars       == <<process, foreignListener>>

Listening(port) == {s \in Services : process[s][port] = "listening"}

DeploymentTypeOK ==
    /\ process \in [Services -> [Ports -> {"none", "booting", "listening"}]]
    /\ foreignListener \in BOOLEAN
    /\ handoff \in [Handoff -> {"none", "accepted", "spawned", "stopping", "waiting", "stopped", "built", "ended"}]
    /\ listed \in [Handoff -> SUBSET (Services \X Ports)]
    /\ handoffInProgress \in BOOLEAN
    /\ console \in {"idle", "waiting", "ready", "failed"}
    /\ spoilt \subseteq Handoff

DeploymentInit ==
    /\ foreignListener \in BOOLEAN
    /\ process = [s \in Services |-> [port \in Ports |->
                    IF s = FirstService /\ (port = "backend" \/ ~foreignListener) THEN "listening" ELSE "none"]]
    /\ handoff = [d \in Handoff |-> "none"] /\ listed = [d \in Handoff |-> {}]
    /\ handoffInProgress = FALSE /\ console = "idle"
    /\ spoilt = {}

HandoffIs(d, stage) == handoff[d] = stage
HandoffTo(d, stage) == handoff' = [handoff EXCEPT ![d] = stage]
GivesUp(d) == HandoffTo(d, "ended") /\ spoilt' = spoilt \cup {d}

-----------------------------------------------------------------------------
(* startDeployment.  Another administrator's console may send the request; this one's *)
(* button is disabled while it waits.                                                 *)
Underway(e) ==
    ~(HandoffIs(e, "none") \/ HandoffIs(e, "ended")) \/ \E port \in Ports : process[e][port] = "booting"
OverlapWith(d) == LET met == {e \in Handoff : Underway(e)} IN IF met = {} THEN {} ELSE met \cup {d}

StartDeployment(d) ==
    /\ HandoffIs(d, "none") /\ Listening("backend") # {}
    /\ ~handoffInProgress
    /\ handoffInProgress' = TRUE
    /\ HandoffTo(d, "accepted")
    /\ console' \in {console} \cup IF console = "waiting" THEN {} ELSE {"waiting"}
    /\ spoilt' = spoilt \cup OverlapWith(d)
    /\ UNCHANGED <<hostVars, listed>>

(* A missing script, a log that cannot be written, a handoff already in progress *)
DeploymentRefused ==
    /\ Listening("backend") # {} /\ console # "waiting"
    /\ console' = "failed"
    /\ UNCHANGED <<hostVars, handoff, listed, handoffInProgress, spoilt>>

(* setImmediate, then the shell's 'spawn' or 'error': both clear the flag *)
HandoffSpawned(d) ==
    /\ HandoffIs(d, "accepted")
    /\ handoffInProgress' = FALSE
    /\ \/ HandoffTo(d, "spawned") /\ UNCHANGED spoilt
       \/ GivesUp(d)
    /\ UNCHANGED <<hostVars, listed, console>>

-----------------------------------------------------------------------------
(* stop-services.ps1 *)

Targets == {t \in Services \X Ports : process[t[1]][t[2]] = "listening"}

(* Get-TargetListeners throws when netstat fails as well, which ends the script.  A *)
(* listener that is not node's is skipped and fails it, as does one that remains.  *)
ListListeners(d) ==
    /\ HandoffIs(d, "spawned")
    /\ \/ /\ listed' = [listed EXCEPT ![d] = Targets] /\ UNCHANGED spoilt
          /\ IF Targets = {} /\ ~foreignListener THEN HandoffTo(d, "stopped") ELSE HandoffTo(d, "stopping")
       \/ GivesUp(d) /\ UNCHANGED listed
    /\ UNCHANGED <<hostVars, handoffInProgress, console>>

(* Mutant: the script stops one listener and leaves the loop *)
AfterStoppingOne(d, t) == {}

AfterStopping(d, t) == listed[d] \ {t}

(* A listed process that has stopped meanwhile is passed over.  The flag is the backend's own. *)
StopListener(d) ==
    /\ HandoffIs(d, "stopping")
    /\ \E t \in listed[d] :
          /\ process' = [process EXCEPT ![t[1]][t[2]] = "none"]
          /\ listed' = [listed EXCEPT ![d] = AfterStopping(d, t)]
          /\ handoffInProgress' = (handoffInProgress /\ t[2] # "backend")
    /\ UNCHANGED <<foreignListener, handoff, console, spoilt>>

(* Stop-Process fails: Write-Error ends the script, as errors stop it.  What it had *)
(* stopped before stays stopped, and nothing is launched.                          *)
StopFails(d) ==
    /\ HandoffIs(d, "stopping") /\ listed[d] # {}
    /\ GivesUp(d)
    /\ listed' = [listed EXCEPT ![d] = {}]
    /\ UNCHANGED <<hostVars, handoffInProgress, console>>

AllStopped(d) ==
    /\ HandoffIs(d, "stopping") /\ listed[d] = {}
    /\ HandoffTo(d, "waiting")
    /\ UNCHANGED <<hostVars, listed, handoffInProgress, console, spoilt>>

(* After half a second: the launcher runs only if nothing listens any more *)
StopScriptEnds(d) ==
    /\ HandoffIs(d, "waiting")
    /\ \/ HandoffTo(d, IF Targets = {} /\ ~foreignListener THEN "stopped" ELSE "ended") /\ UNCHANGED spoilt
       \/ GivesUp(d)
    /\ UNCHANGED <<hostVars, listed, handoffInProgress, console>>

-----------------------------------------------------------------------------
(* launcher.ps1: the profile, the submodules, the environment and the build come *)
(* first, when the old services have been stopped already                        *)
FrontendBuilt(d) ==
    /\ HandoffIs(d, "stopped")
    /\ \/ HandoffTo(d, "built") /\ UNCHANGED spoilt
       \/ GivesUp(d)
    /\ UNCHANGED <<hostVars, listed, handoffInProgress, console>>

ServicesLaunched(d) ==
    /\ HandoffIs(d, "built")
    /\ process' = [process EXCEPT ![d] = [port \in Ports |-> "booting"]]
    /\ HandoffTo(d, "ended")
    /\ UNCHANGED <<foreignListener, listed, handoffInProgress, console, spoilt>>

PortTaken(port) == Listening(port) # {} \/ (port = "frontend" /\ foreignListener)

(* startServer: packages, storage, database and queue first, then the port *)
ServerListens(s, port) ==
    /\ process[s][port] = "booting"
    /\ process' = [process EXCEPT ![s][port] = IF PortTaken(port) THEN "none" ELSE "listening"]
    /\ UNCHANGED <<foreignListener, handoff, listed, handoffInProgress, console, spoilt>>

StartServerThrows(s) ==
    /\ process[s].backend = "booting"
    /\ process' = [process EXCEPT ![s].backend = "none"]
    /\ spoilt' = spoilt \cup ({s} \cap Handoff)
    /\ UNCHANGED <<foreignListener, handoff, listed, handoffInProgress, console>>

(* checkDeploymentHealth: whichever backend answers, the old one included *)
CheckDeploymentHealth ==
    /\ console = "waiting" /\ Listening("backend") # {}
    /\ console' = "ready"
    /\ UNCHANGED <<hostVars, handoff, listed, handoffInProgress, spoilt>>

ScriptStep(d) ==
    \/ HandoffSpawned(d) \/ ListListeners(d) \/ StopListener(d) \/ StopFails(d) \/ AllStopped(d)
    \/ StopScriptEnds(d) \/ FrontendBuilt(d) \/ ServicesLaunched(d)

DeploymentNext ==
    \/ DeploymentRefused \/ CheckDeploymentHealth
    \/ \E d \in Handoff : StartDeployment(d) \/ ScriptStep(d)
    \/ \E s \in Services : StartServerThrows(s) \/ \E port \in Ports : ServerListens(s, port)

(* The shell and the services run on their own; the console's timer fires every 15 seconds *)
DeploymentFairness ==
    /\ \A d \in Handoff : WF_deploymentVars(ScriptStep(d))
    /\ \A s \in Services, port \in Ports : WF_deploymentVars(ServerListens(s, port))
    /\ WF_deploymentVars(CheckDeploymentHealth)

-----------------------------------------------------------------------------
(* A deployment brings a new backend: once it is accepted, the backend it launched    *)
(* listens, unless a listener is not the platform's, one of its own calls fails (the  *)
(* shell, a listing, a stop, the build, the start), or it meets another handoff: one  *)
(* is asked for before the scripts and services of the other have settled.  The stop  *)
(* script then may find a port taken again after it has stopped the backend.  No flag *)
(* guards against that: handoffInProgress is cleared once the shell is spawned.  What *)
(* becomes of one deployment is no excuse for another one that did not meet it.       *)
ServiceReturns ==
    \A d \in Handoff : HandoffIs(d, "accepted") ~>
                          (foreignListener \/ d \in spoilt \/ process[d].backend = "listening")
=============================================================================
