------------------------------ MODULE SkillRun ------------------------------
(***************************************************************************)
(* backend/src/skills/genericSkillRunner.js: one execution of a claimed    *)
(* job, from the read of its document to the write of its result.  The     *)
(* child process is abstracted to the result envelope it leaves (its stop  *)
(* and kill timers are another component).                                 *)
(*                                                                         *)
(* base is the document as the execution read or last wrote it, want the   *)
(* copy in memory that the next job.save() writes.                         *)
(***************************************************************************)
EXTENDS JobQueue

VARIABLE files   \* jobs with output records in job_files

SkillTypeOK == files \in SUBSET Job

SkillInit == files = {}

Advance(i, stage, base, want) ==
    runs' = [runs EXCEPT ![i] = [@ EXCEPT !.stage = stage, !.base = base, !.want = want]]

(* The adapter has ended: the finally block of executeClaimedJob stops the heartbeat *)
Stop(i) ==
    runs' = [runs EXCEPT ![i] = [@ EXCEPT !.stage = "finalizing", !.beats = FALSE,
                                          !.base = Absent, !.want = Absent]]

At(i, stage) == Running(runs[i].rt) /\ runs[i].stage = stage

UntouchedBySkill == <<localVars, submission>>

(* job.save() of the copy in memory throws: a conflict, or the store fails. *)
(* Otherwise it leaves one of Saves in the store, and Saved in memory.      *)
SaveThrows(run) ==
    /\ \/ SaveConflicts(docs[run.job], run.base, run.want) /\ UNCHANGED faults
       \/ Fault
    /\ UNCHANGED docs
Saves(run, aged) ==
    IF SaveConflicts(docs[run.job], run.base, run.want) THEN {}
    ELSE SaveResults(docs[run.job], run.base, run.want, aged)
Saved(run, d) == IF Provider = "sqlite" THEN d ELSE [run.want EXCEPT !.qr = d.qr]

(* resolveJobAdapter, Job.findOne and loadApprovedSkill.  A package that no longer *)
(* verifies makes the adapter throw before anything is written.                   *)
RunLoad(i) ==
    LET d == docs[runs[i].job] IN
    /\ At(i, "starting")
    /\ \/ Advance(i, "loaded", d, [d EXCEPT !.status = "generating"])
       \/ Stop(i)
    /\ UNCHANGED <<UntouchedBySkill, docs, files, faults>>

(* job.status = 'generating'; await job.save(); await publishJobEvent(...), all *)
(* before the try statement: an error ends the execution.                      *)
RunBegin(i) ==
    LET run == runs[i] IN
    /\ At(i, "loaded")
    /\ \/ SaveThrows(run) /\ Stop(i)
       \/ \E d \in Saves(run, FALSE) :
             /\ Store(run.job, d)
             /\ \/ Advance(i, "working", Saved(run, d), Saved(run, d)) /\ UNCHANGED faults
                \/ Fault /\ Stop(i)
    /\ UNCHANGED <<UntouchedBySkill, files>>

(* Mutant: the outputs are not looked at *)
ResultStatusBlind(result, outputs) ==
    CASE result = "succeeded" -> "completed" [] result = "failed" -> "failed" [] OTHER -> "cancelled"

ResultStatus(result, outputs) ==
    CASE result = "succeeded" -> "completed"
      [] result = "failed"    -> "failed"
      [] result = "cancelled" -> IF outputs THEN "cancelled_with_partial_result" ELSE "cancelled"

(* executeProcess returns with a valid envelope: persistResult inserts the output *)
(* records and fills in the copy.  A skill reports a cancellation when it was     *)
(* asked to stop; it may as well have finished before it noticed.                 *)
RunExit(i) ==
    LET run == runs[i] IN
    /\ At(i, "working")
    /\ \E result \in {"succeeded", "failed", "cancelled"}, outputs \in BOOLEAN :
          /\ result = "cancelled" => run.job \in cancelFlag[run.rt]
          /\ files' = IF outputs THEN files \cup {run.job} ELSE files
          /\ Advance(i, "saving", run.base, [run.base EXCEPT !.status = ResultStatus(result, outputs),
                                                             !.outputs = outputs])
    /\ UNCHANGED <<UntouchedBySkill, docs, faults>>

(* No result.json, a timeout, or an envelope that does not validate: failJob *)
RunExitInvalid(i) ==
    /\ At(i, "working")
    /\ Advance(i, "failing", runs[i].base, [runs[i].base EXCEPT !.status = "failed"])
    /\ UNCHANGED <<UntouchedBySkill, docs, files, faults>>

(* The job.save() of persistResult; an error is caught and goes to failJob *)
RunPersist(i) ==
    LET run == runs[i] IN
    /\ At(i, "saving")
    /\ \/ SaveThrows(run) /\ Advance(i, "failing", run.base, [run.want EXCEPT !.status = "failed"])
       \/ \E d \in Saves(run, TRUE) : 
             /\ Store(run.job, d) /\ UNCHANGED faults
             /\ Advance(i, "publishing", Saved(run, d), Saved(run, d))
    /\ UNCHANGED <<UntouchedBySkill, files>>

(* publishJobEvent reads the job again: if that read fails the catch clause *)
(* runs failJob although the result has been saved.                         *)
RunPublish(i) ==
    LET run == runs[i] IN
    /\ At(i, "publishing")
    /\ \/ Stop(i) /\ UNCHANGED faults
       \/ Fault /\ Advance(i, "failing", run.base, [run.base EXCEPT !.status = "failed"])
    /\ UNCHANGED <<UntouchedBySkill, docs, files>>

(* The job.save() of failJob; an error is thrown out of the adapter *)
RunFail(i) ==
    LET run == runs[i] IN
    /\ At(i, "failing")
    /\ \/ SaveThrows(run)
       \/ \E d \in Saves(run, TRUE) : Store(run.job, d) /\ UNCHANGED faults
    /\ Stop(i)
    /\ UNCHANGED <<UntouchedBySkill, files>>

(* The child process ends, and the runner does the rest *)
ChildExits(i) == RunExit(i) \/ RunExitInvalid(i)
RunnerStep(i) == RunLoad(i) \/ RunBegin(i) \/ RunPersist(i) \/ RunPublish(i) \/ RunFail(i)

SkillStep(i) == RunnerStep(i) \/ ChildExits(i)
=============================================================================
