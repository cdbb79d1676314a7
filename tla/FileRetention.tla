---------------------------- MODULE FileRetention ----------------------------
(***************************************************************************)
(* The files of one job after its folders were made: the records that      *)
(* models/JobFile.js keeps of them, services/cleanupService.js, which      *)
(* removes files whose retention has passed, and the readers of the files  *)
(* in services/jobService.js, above all rerunJob.                          *)
(*                                                                         *)
(* runCleanup is called by no route or timer of this repository: a cleaner *)
(* is whatever process calls it, and two may do so at once.                *)
(***************************************************************************)
EXTENDS Naturals, FiniteSets

CONSTANTS
    Input, Required,  \* input files of the job, and those the skill cannot do without
    Output,           \* its output files
    Cleaner

ASSUME FileAssumption == Required \subseteq Input /\ Input \cap Output = {}

VARIABLES
    fileJob,   \* the status of the job: "queued", "running" or "ended"
    creation,  \* createSkillJob at insertMany: "inserting", "answered" or "crashed"
    tracked,   \* files with a record in job_files
    marked,    \* records with deletedAt and fileAvailable = FALSE
    onDisk,    \* files that exist
    clock,     \* time since the creation, in units of the retention
    cleaner,   \* [Cleaner -> how far its runCleanup is]
    rerun      \* rerunJob

fileVars == <<fileJob, creation, tracked, marked, onDisk, clock, cleaner, rerun>>

File == Input \cup Output
NoRun == [at |-> "idle", todo |-> {}]

FileTypeOK ==
    /\ fileJob \in {"queued", "running", "ended"}
    /\ creation \in {"inserting", "answered", "crashed"}
    /\ {tracked, marked, onDisk} \subseteq SUBSET File
    /\ clock \in 0..3
    /\ cleaner \in [Cleaner -> [at : {"idle", "next", "checked", "deleted"}, todo : SUBSET File]]
    /\ rerun \in [at : {"idle", "check", "read", "created", "refused"}, todo : SUBSET File, got : SUBSET Input,
                seen : SUBSET File, whole : BOOLEAN]

FileInit ==
    /\ fileJob = "queued" /\ creation = "inserting"
    /\ tracked = {} /\ marked = {} /\ onDisk = Input
    /\ clock = 0
    /\ cleaner = [c \in Cleaner |-> NoRun]
    /\ rerun = [at |-> "idle", todo |-> {}, got |-> {}, seen |-> {}, whole |-> FALSE]

-----------------------------------------------------------------------------
(* The job: insertMany writes one record after the other, and a reconciliation  *)
(* may start the job in between; an output is on disk before it has a record.   *)
InsertRecord ==
    /\ creation = "inserting"
    /\ \/ /\ ~(Input \subseteq tracked) /\ UNCHANGED creation
          /\ tracked' = tracked \cup {CHOOSE f \in Input \ tracked : TRUE}
       \/ Input \subseteq tracked /\ creation' = "answered" /\ UNCHANGED tracked
       \/ creation' = "crashed" /\ UNCHANGED tracked
    /\ UNCHANGED <<fileJob, marked, onDisk, clock, cleaner, rerun>>

JobStarts ==
    /\ fileJob = "queued" /\ fileJob' = "running"
    /\ UNCHANGED <<creation, tracked, marked, onDisk, clock, cleaner, rerun>>

OutputRecorded ==
    /\ fileJob = "running"
    /\ \E f \in Output \ tracked : tracked' = tracked \cup {f} /\ onDisk' = onDisk \cup {f}
    /\ UNCHANGED <<fileJob, creation, marked, clock, cleaner, rerun>>

JobEnds ==
    /\ fileJob # "ended" /\ fileJob' = "ended"
    /\ UNCHANGED <<creation, tracked, marked, onDisk, clock, cleaner, rerun>>

(* 0 before, 1 at and 2 after the time of retentionUntil.  The inputs of a job  *)
(* expire together and before its outputs, which are recorded when it runs.     *)
Age(f) == IF f \in Input THEN (IF clock = 3 THEN 2 ELSE clock) ELSE (IF clock = 0 THEN 0 ELSE clock - 1)

TimePasses ==
    /\ clock < 3 /\ clock' = clock + 1
    /\ UNCHANGED <<fileJob, creation, tracked, marked, onDisk, cleaner, rerun>>

-----------------------------------------------------------------------------
(* cleanupService.js.  retentionUntil <= now makes a candidate; for a reader a *)
(* file is expired only when retentionUntil < now.                             *)

Candidates == {f \in tracked \ marked : Age(f) >= 1}

(* Mutant: a job that does not run has ended *)
DeletableUnlessRunning == fileJob # "running"

Deletable == fileJob = "ended"

(* getCleanupPlan: an empty plan ends the cleanup *)
PlanCleanup(c) ==
    /\ cleaner[c] = NoRun
    /\ LET plan == IF Deletable THEN Candidates ELSE {}
       IN plan # {} /\ cleaner' = [cleaner EXCEPT ![c] = [at |-> "next", todo |-> plan]]
    /\ UNCHANGED <<fileJob, creation, tracked, marked, onDisk, clock, rerun>>

(* runCleanup takes the candidates in an order of their own; ChosenOf names the one at hand *)
ChosenOf(c) == CHOOSE f \in cleaner[c].todo : TRUE

Going(c, stage) == cleaner' = [cleaner EXCEPT ![c].at = stage]

(* findById and the second classifyCandidate *)
CheckCandidate(c) ==
    /\ cleaner[c].at = "next" /\ Deletable
    /\ Going(c, "checked")
    /\ UNCHANGED <<fileJob, creation, tracked, marked, onDisk, clock, rerun>>

(* deleteFileSafe, which accepts that the file is gone; or it throws, and the *)
(* candidate is left to the next cleanup.                                     *)
DeleteFile(c) ==
    /\ cleaner[c].at = "checked"
    /\ onDisk' = onDisk \ {ChosenOf(c)} /\ Going(c, "deleted")
    /\ UNCHANGED <<fileJob, creation, tracked, marked, clock, rerun>>

Done(c, f) ==
    cleaner' = [cleaner EXCEPT ![c] = IF @.todo = {f} THEN NoRun ELSE [at |-> "next", todo |-> @.todo \ {f}]]

DeleteFails(c) ==
    /\ cleaner[c].at = "checked" /\ Done(c, ChosenOf(c))
    /\ UNCHANGED <<fileJob, creation, tracked, marked, onDisk, clock, rerun>>

(* Mutant: the record is marked first *)
ReadyToMarkEarly(c) == cleaner[c].at \in {"checked", "deleted"}

ReadyToMark(c) == cleaner[c].at = "deleted"

(* markFileUnavailable, by updateOne: a copy of the record is written back *)
MarkUnavailable(c) ==
    /\ ReadyToMark(c)
    /\ marked' = marked \cup {ChosenOf(c)} /\ Done(c, ChosenOf(c))
    /\ UNCHANGED <<fileJob, creation, tracked, onDisk, clock, rerun>>

(* The process of the cleaner ends, between the deletion and the mark for instance *)
CleanerCrashes(c) ==
    /\ cleaner[c] # NoRun /\ cleaner' = [cleaner EXCEPT ![c] = NoRun]
    /\ UNCHANGED <<fileJob, creation, tracked, marked, onDisk, clock, rerun>>

-----------------------------------------------------------------------------
(* Readers: isExpired, resolveTrackedFilePath and getFileAvailability, for a *)
(* copy of the records with these marks                                      *)
Available(f, marks) == f \in onDisk /\ Age(f) # 2 /\ f \notin marks

(* rerunJob, whatever the status of the job: the records are read once, the  *)
(* files one after the other; whole remembers whether the creation of the    *)
(* job had been answered.                                                    *)
RerunStarts ==
    /\ rerun.at = "idle"
    /\ LET inputs == tracked \cap Input IN
       rerun' = [at |-> IF inputs = {} THEN "refused" ELSE "check", todo |-> inputs, got |-> {},
                 seen |-> marked, whole |-> creation = "answered"]
    /\ UNCHANGED <<fileJob, creation, tracked, marked, onDisk, clock, cleaner>>

(* Mutant: a file that is unavailable is left out *)
UnavailableSkips(f) ==
    IF rerun.todo = {f} THEN [rerun EXCEPT !.at = "read", !.todo = {}] ELSE [rerun EXCEPT !.todo = @ \ {f}]

UnavailableRefuses(f) == [rerun EXCEPT !.at = "refused"]

CheckInput(f) ==
    /\ rerun.at = "check" /\ f \in rerun.todo
    /\ rerun' = IF Available(f, rerun.seen) THEN [rerun EXCEPT !.at = "read"] ELSE UnavailableRefuses(f)
    /\ UNCHANGED <<fileJob, creation, tracked, marked, onDisk, clock, cleaner>>

(* readFile throws when the file has been deleted since the check.  After the  *)
(* last file createSkillJob makes the new job, if nothing required is missing. *)
ReadInput(f) ==
    /\ rerun.at = "read" /\ f \in rerun.todo
    /\ LET got == rerun.got \cup {f} IN
       rerun' = IF f \notin onDisk THEN [rerun EXCEPT !.at = "refused"]
                ELSE [rerun EXCEPT !.at = IF rerun.todo # {f} THEN "check"
                                          ELSE IF Required \subseteq got THEN "created" ELSE "refused",
                                   !.todo = @ \ {f}, !.got = got]
    /\ UNCHANGED <<fileJob, creation, tracked, marked, onDisk, clock, cleaner>>

(* Bound: one rerun, the end of a behaviour, since it leaves the files as they were *)
FileNext ==
    /\ rerun.at \notin {"created", "refused"}
    /\ \/ InsertRecord \/ JobStarts \/ OutputRecorded \/ JobEnds \/ TimePasses \/ RerunStarts
       \/ \E f \in Input : CheckInput(f) \/ ReadInput(f)
       \/ \E c \in Cleaner : \/ PlanCleanup(c) \/ CheckCandidate(c) \/ DeleteFile(c) \/ DeleteFails(c)
                             \/ MarkUnavailable(c) \/ CleanerCrashes(c)

-----------------------------------------------------------------------------
(* Whenever cleaners run and crash: a job that is queued or runs keeps its      *)
(* files, whatever their age; a record says that a file was removed only when   *)
(* it is gone; and a rerun of a job whose creation had been answered has all of *)
(* its inputs or is refused, although cleaners delete while it reads them.      *)
RetentionIsSafe ==
    /\ fileJob # "ended" => tracked \subseteq onDisk
    /\ marked \cap onDisk = {}
    /\ rerun.at = "created" /\ rerun.whole => rerun.got = Input
=============================================================================
