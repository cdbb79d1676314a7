---------------------------- MODULE LivePlatform ----------------------------
(***************************************************************************)
(* Four parts in which something must eventually happen: the process of a  *)
(* skill, the events of a job, the browser's connection to them, and a     *)
(* deployment.  They share no state, so a behaviour looks at one of them   *)
(* while the others rest; the properties hold of each behaviour.           *)
(***************************************************************************)
EXTENDS SkillProcess, LiveEvents, LiveView, Deployment

VARIABLE watched    \* the part a behaviour looks at

liveVars == <<processVars, eventVars, viewVars, deploymentVars, watched>>

LiveTypeOK == ProcessTypeOK /\ EventTypeOK /\ ViewTypeOK /\ DeploymentTypeOK

LiveInit ==
    /\ watched \in {"process", "events", "view", "deployment"}
    /\ ProcessInit /\ EventInit /\ ViewInit /\ DeploymentInit

LiveNext ==
    /\ UNCHANGED watched
    /\ \/ watched = "process" /\ ProcessNext /\ UNCHANGED <<eventVars, viewVars, deploymentVars>>
       \/ watched = "events" /\ EventNext /\ UNCHANGED <<processVars, viewVars, deploymentVars>>
       \/ watched = "view" /\ ViewNext /\ UNCHANGED <<processVars, eventVars, deploymentVars>>
       \/ watched = "deployment" /\ DeploymentNext /\ UNCHANGED <<processVars, eventVars, viewVars>>

(* Each part is as fair as its own module says.  Nothing fair can happen in a part *)
(* that has not begun (no skill spawned, no job claimed, no page opened, no         *)
(* deployment asked for), so the fairness of those that rest asks nothing.          *)
LiveFairness == ProcessFairness /\ EventFairness /\ ViewFairness /\ DeploymentFairness

LiveSpec == LiveInit /\ [][LiveNext]_liveVars /\ LiveFairness
=============================================================================
