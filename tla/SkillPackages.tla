------------------------------ MODULE SkillPackages ------------------------------
(***************************************************************************)
(* The approved skill packages (skills/skillPackageService.js and its      *)
(* approvedSkills.json), which are verified when the backend starts, when  *)
(* a job is created, when it is claimed and, for tx-pr-auditor, once more  *)
(* before the child process is spawned; the files may be replaced at any   *)
(* time.  Two packages, the auditor and create-pr-cd on which it depends,  *)
(* and the life of one job.                                                *)
(***************************************************************************)
EXTENDS Naturals

CONSTANTS
    Auditor, Creator,   \* the two packages
    NoTask

ASSUME PackagesAssumption == Auditor # Creator

Package == {Auditor, Creator}

(* The contents a package may have; the third one is a release, the second is not *)
Body == 1..3

VersionOf(body) == IF body = 3 THEN "new" ELSE "old"

(* What skill.json of the auditor declares of its dependency *)
Needs(p)       == IF p = Auditor THEN {Creator} ELSE {}
Supports(body) == IF body = 3 THEN {"old", "new"} ELSE {"old"}

VARIABLES
    packages,      \* [Package -> the content of its runtime files, whatever their line ends are]
    reviewed,      \* approvedSkills.json: [Package -> the content that is approved]
    approvals,     \* the approvals the backend has read
    backend,       \* "up", "down"
    task           \* the job

packageVars == <<packages, reviewed, approvals, backend, task>>

PackageTypeOK ==
    /\ {packages, reviewed, approvals} \subseteq [Package -> Body] /\ backend \in {"up", "down"}
    /\ task # NoTask => /\ task.stage \in {"queued", "checked", "running", "recorded", "failed"} /\ task.skill \in Package
                        /\ {task.checked, task.ran, task.frozen, task.used} \subseteq Body \cup {0}

PackageInit ==
    /\ packages = [p \in Package |-> 1]
    /\ reviewed = [p \in Package |-> 1] /\ approvals = reviewed
    /\ backend = "up" /\ task = NoTask

-----------------------------------------------------------------------------
(* skills/skillPackageService.js *)

(* calculatePackageFingerprint, of text with normalized line ends *)
Fingerprint(p) == packages[p]

ManifestIsApproved(p, approved) == VersionOf(Fingerprint(p)) = VersionOf(approved[p])

IsApproved(p, approved) == ManifestIsApproved(p, approved) /\ Fingerprint(p) = approved[p]

(* loadApprovedSkill returns; else it throws *)
Loads(p, approved) ==
    /\ IsApproved(p, approved)
    /\ \A d \in Needs(p) : IsApproved(d, approved) /\ VersionOf(Fingerprint(d)) \in Supports(Fingerprint(p))

-----------------------------------------------------------------------------
(* Files are edited, or updated from the repository *)
PackageChanges ==
    /\ \E p \in Package, b \in Body : packages' = [packages EXCEPT ![p] = b]
    /\ UNCHANGED <<reviewed, approvals, backend, task>>

ApprovalChanges ==
    /\ \E p \in Package : reviewed' = [reviewed EXCEPT ![p] = Fingerprint(p)]
    /\ UNCHANGED <<packages, approvals, backend, task>>

(* A job that had begun fails; the server does not start unless every package is approved *)
BackendRestarts ==
    /\ approvals' = reviewed
    /\ backend' = IF \A p \in Package : Loads(p, reviewed) THEN "up" ELSE "down"
    /\ task' = IF task # NoTask /\ task.stage \in {"checked", "running"} THEN [task EXCEPT !.stage = "failed"] ELSE task
    /\ UNCHANGED <<packages, reviewed>>

-----------------------------------------------------------------------------
TaskIs(stage) == backend = "up" /\ task # NoTask /\ task.stage = stage

(* createSkillJob: the identity of the dependency is frozen in skill-input.json *)
CreateTask ==
    /\ backend = "up" /\ task = NoTask
    /\ \E p \in Package : /\ Loads(p, approvals)
                          /\ task' = [stage |-> "queued", skill |-> p, checked |-> 0, ran |-> 0, used |-> 0,
                                      frozen |-> IF Needs(p) = {} THEN 0 ELSE Fingerprint(Creator)]
    /\ UNCHANGED <<packages, reviewed, approvals, backend>>

(* runGenericSkillJob, before it awaits the save of the job and the event *)
CheckPackage ==
    /\ TaskIs("queued")
    /\ task' = IF Loads(task.skill, approvals) THEN [task EXCEPT !.stage = "checked", !.checked = Fingerprint(task.skill)]
                                               ELSE [task EXCEPT !.stage = "failed"]
    /\ UNCHANGED <<packages, reviewed, approvals, backend>>

(* Mutant: any approved dependency will do *)
DependencyIsApproved == task.skill = Auditor => Loads(Auditor, approvals)

DependencyIsAsFrozen == task.skill = Auditor => Loads(Auditor, approvals) /\ task.frozen = Fingerprint(Creator)

(* executeProcess *)
SpawnSkill ==
    /\ TaskIs("checked")
    /\ task' = IF DependencyIsAsFrozen
               THEN [task EXCEPT !.stage = "running", !.ran = Fingerprint(task.skill),
                                 !.used = IF task.skill = Auditor THEN Fingerprint(Creator) ELSE 0]
               ELSE [task EXCEPT !.stage = "failed"]
    /\ UNCHANGED <<packages, reviewed, approvals, backend>>

(* Mutant: the version in the result is not looked at *)
AnyVersion == TRUE

ResultVersionIsRight == VersionOf(task.ran) = VersionOf(task.checked)

(* validateResult and persistResult, which records the package that was checked *)
RecordSkill ==
    /\ TaskIs("running")
    /\ task' = [task EXCEPT !.stage = IF ResultVersionIsRight THEN "recorded" ELSE "failed"]
    /\ UNCHANGED <<packages, reviewed, approvals, backend>>

PackageNext ==
    \/ PackageChanges \/ ApprovalChanges \/ BackendRestarts
    \/ CreateTask \/ CheckPackage \/ SpawnSkill \/ RecordSkill

-----------------------------------------------------------------------------
(* An audit runs with the very dependency it was created with, and itself as it is   *)
(* approved when it starts, although packages, approvals and the backend change      *)
(* between its creation, its claim and its start.  Of every job the version that is  *)
(* recorded is the version that ran, although the files may be replaced after they   *)
(* were checked.                                                                     *)
RunsAsReviewed ==
    task # NoTask /\ task.stage \in {"running", "recorded"} =>
        /\ task.skill = Auditor => task.used = task.frozen
        /\ task.skill = Auditor /\ task.stage = "running" => task.ran = approvals[Auditor]
        /\ task.stage = "recorded" => VersionOf(task.ran) = VersionOf(task.checked)
=============================================================================
