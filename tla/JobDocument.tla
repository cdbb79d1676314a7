---------------------------- MODULE JobDocument ----------------------------
(***************************************************************************)
(* The durable job document and the pure functions the code applies to it. *)
(*                                                                         *)
(* Every writer of a job goes through one of two doors:                    *)
(*   - transactJob (queue/jobQueue.js): an updater computed from the       *)
(*     document it replaces, atomic (see RestTransaction and               *)
(*     SqliteTransaction);                                                 *)
(*   - Job.save (models/Job.js): the copy a handler read earlier is        *)
(*     written back, whole under Firebase, field by field with a conflict  *)
(*     check under SQLite.                                                 *)
(* This module gives the updaters, with the condition under which each     *)
(* returns undefined (no write), and both forms of save.  A definition     *)
(* marked "Mutant" is a mistake that is not in the code: it stands for the *)
(* definition after it to show that a property notices the difference.     *)
(***************************************************************************)
CONSTANTS
    Runtime,     \* runtime instances: one per process start, never reused
    Request,     \* cancellation requests received over HTTP
    Cancellable, \* jobs whose skill manifest does not refuse cancellation
    NoOne,       \* "null" for an owner or a heartbeat stamp
    Provider     \* config.dbProvider

ASSUME ProviderAssumption == Provider \in {"firebase", "sqlite"}
ASSUME NoOneAssumption == NoOne \notin Runtime \cup Request \cup {"runtime"}
ASSUME StampAssumption == "runtime" \notin Request

(* "generating" stands for the six running phases, of which the registered *)
(* adapters only write this one; "completed" also stands for               *)
(* "completed_with_warning".  "absent" is a path that holds no document.   *)
RunningStatuses  == {"generating"}
ActiveStatuses   == {"queued", "cancelling"} \cup RunningStatuses
TerminalStatuses == {"completed", "failed", "cancelled", "cancelled_with_partial_result"}
Statuses         == ActiveStatuses \cup TerminalStatuses \cup {"absent"}

(* The queueRuntime subdocument.  leaseExpiresAt is abstracted to "none",  *)
(* "valid" (in the future) and "expired".  heartbeatAt is kept because it  *)
(* makes two texts of a queueRuntime differ: NoOne is null, a request is   *)
(* the time that cancellation was recorded, "runtime" any other time.      *)
QueueRuntimes == [queueState : {"queued", "running", "cancelling", "terminal"},
                  owner : Runtime \cup {NoOne},
                  lease : {"none", "valid", "expired"},
                  heartbeatAt : Request \cup {"runtime", NoOne},
                  cancelRequested : BOOLEAN,
                  reconciliation : {"none", "pending", "recovered"}]

(* outputs: outputFileCount is not 0.  cancellation: the request that last wrote *)
(* job.cancellation; every request writes other times, so it stands for the text. *)
Documents == [status : Statuses, outputs : BOOLEAN, cancellation : Request \cup {NoOne},
              qr : QueueRuntimes]

Released(reconciliation) ==
    [queueState |-> "queued", owner |-> NoOne, lease |-> "none", heartbeatAt |-> NoOne,
     cancelRequested |-> FALSE, reconciliation |-> reconciliation]

Absent  == [status |-> "absent", outputs |-> FALSE, cancellation |-> NoOne, qr |-> Released("none")]
Created == [Absent EXCEPT !.status = "queued"]

Exists(d)     == d.status # "absent"
IsTerminal(d) == d.status \in TerminalStatuses
IsActive(d)   == d.status \in ActiveStatuses

(* isLeaseValid, and the guard three updaters share: somebody works on the job *)
IsLeaseValid(q) == q.lease = "valid"
Held(q)         == q.queueState \in {"running", "cancelling"} /\ IsLeaseValid(q)
OwnedBy(q, r)   == q.owner = r

-----------------------------------------------------------------------------
(* claimJob: only the status, and a lease another runtime holds, refuse a claim *)
(* Mutant: the lease is not looked at *)
ClaimAllowedLeaseless(d, r) == d.status = "queued"

ClaimAllowed(d, r) ==
    /\ d.status = "queued"
    /\ ~ (d.qr.queueState = "running" /\ IsLeaseValid(d.qr) /\ ~OwnedBy(d.qr, r))

Claimed(d, r) ==
    [d EXCEPT !.qr = [@ EXCEPT !.queueState = "running", !.owner = r, !.lease = "valid",
                               !.heartbeatAt = "runtime", !.cancelRequested = FALSE]]

(* renewLease *)
RenewAllowed(d, r) == Exists(d) /\ OwnedBy(d.qr, r) /\ ~IsTerminal(d)

(* Mutant: the queue state is copied from the status *)
RenewedFromStatus(d) ==
    [d EXCEPT !.qr = [@ EXCEPT !.queueState = d.status, !.lease = "valid", !.heartbeatAt = "runtime"]]

(* Mutant: a heartbeat resets the request to cancel *)
RenewedForgetfully(d) ==
    [d EXCEPT !.qr = [@ EXCEPT !.queueState = "running", !.lease = "valid",
                               !.heartbeatAt = "runtime", !.cancelRequested = FALSE]]

Renewed(d) ==
    [d EXCEPT !.qr = [@ EXCEPT !.queueState = IF d.status = "cancelling" THEN "cancelling" ELSE "running",
                               !.lease = "valid", !.heartbeatAt = "runtime"]]

(* finalizeClaim: a run that left no terminal status is recorded as failed *)
FinalizeAllowed(d, r) == Exists(d) /\ OwnedBy(d.qr, r)

(* Mutant: any status is replaced, not only one the run should have left behind *)
FinalizedAsFailed(d) ==
    [d EXCEPT !.status = "failed",
              !.qr = [@ EXCEPT !.queueState = "terminal", !.lease = "none", !.heartbeatAt = "runtime"]]

Finalized(d) ==
    [d EXCEPT !.status = IF IsActive(d) THEN "failed" ELSE @,
              !.qr = [@ EXCEPT !.queueState = "terminal", !.lease = "none", !.heartbeatAt = "runtime"]]

(* persistQueuedState *)
(* Mutant: a job somebody works on is queued again *)
PersistAllowedHeld(d) == Exists(d) /\ ~IsTerminal(d)

PersistAllowed(d) == Exists(d) /\ ~IsTerminal(d) /\ ~Held(d.qr)
Persisted(d)      == [d EXCEPT !.status = "queued", !.qr = Released("none")]

(* reconcileInterruptedJob *)
(* Mutant: the lease is not looked at *)
ReconcileAllowedLeaseless(d) == IsActive(d)

(* Mutant: a job that waits is left to the runtime that queued it *)
ReconcileAllowedStarted(d) == IsActive(d) /\ d.status # "queued" /\ ~Held(d.qr)

ReconcileAllowed(d) == IsActive(d) /\ ~Held(d.qr)

Reconciled(d) ==
    IF d.status = "queued" THEN [d EXCEPT !.qr = Released("recovered")]
    ELSE [d EXCEPT !.status = IF d.status # "cancelling" THEN "failed"
                              ELSE IF d.outputs THEN "cancelled_with_partial_result"
                              ELSE "cancelled",
                   !.qr = [@ EXCEPT !.queueState = "terminal", !.lease = "none",
                                    !.heartbeatAt = "runtime", !.reconciliation = "recovered"]]

(* shutdownQueue: the lease is given a deadline of now *)
ReleaseAllowed(d, r) == Exists(d) /\ OwnedBy(d.qr, r)

(* Mutant: the owner is cleared, the deadline kept *)
ReleasedWithoutDeadline(d) ==
    [d EXCEPT !.qr = [@ EXCEPT !.owner = NoOne, !.heartbeatAt = "runtime", !.reconciliation = "pending"]]

ReleasedForRestart(d) ==
    [d EXCEPT !.qr = [@ EXCEPT !.lease = "expired", !.heartbeatAt = "runtime",
                               !.reconciliation = "pending"]]

(* cancelQueuedJob: allowRunning is false for a skill that cannot be cancelled *)
(* Mutant: a claimed job counts as waiting until its status says otherwise *)
CancelAllowedByStatus(d, j) == Exists(d) /\ ~IsTerminal(d) /\ (j \in Cancellable \/ d.status = "queued")

CancelAllowed(d, j) ==
    /\ Exists(d) /\ ~IsTerminal(d)
    /\ \/ j \in Cancellable
       \/ d.status = "queued" /\ d.qr.queueState \notin {"running", "cancelling"}

CancelMarked(d, c) ==
    [d EXCEPT !.qr = [@ EXCEPT !.queueState = IF Held(d.qr) THEN "cancelling" ELSE "terminal",
                               !.lease = IF Held(d.qr) THEN d.qr.lease ELSE "none",
                               !.heartbeatAt = c, !.cancelRequested = TRUE]]

-----------------------------------------------------------------------------
(* Job.save.  base is the copy as it was read (the snapshot captured by the *)
(* constructor), want the copy as the handler left it, cur the stored one.  *)

(* A lease that runs out does not change the text of the document *)
Text(q) == [q EXCEPT !.lease = IF @ = "expired" THEN "valid" ELSE @]

(* The text now stored is the one read before only if both carry no stamp: *)
(* an updater that stamps a queueRuntime never produces an earlier text.   *)
SinceRead(f, cur, base) ==
    IF f = "qr" THEN cur.qr # base.qr \/ cur.qr.heartbeatAt # NoOne ELSE cur[f] # base[f]
Disagrees(f, cur, want) ==
    IF f = "qr" THEN Text(cur.qr) # Text(want.qr) ELSE cur[f] # want[f]

(* Every write that ends a job stamps completedAt or cancelledAt: two ends never agree *)
EndedSince(cur, base, want) == IsTerminal(cur) /\ ~IsTerminal(base) /\ IsTerminal(want)

Fields == {"status", "outputs", "cancellation", "qr"}
Changed(base, want) == {f \in Fields : want[f] # base[f]}

(* Mutant: no field is compared *)
SaveConflictsNever(cur, base, want) == Provider = "sqlite" /\ ~Exists(cur)

SaveConflicts(cur, base, want) ==
    /\ Provider = "sqlite"
    /\ \/ ~Exists(cur) \/ EndedSince(cur, base, want)
       \/ \E f \in Changed(base, want) : SinceRead(f, cur, base) /\ Disagrees(f, cur, want)

(* The fields that are written: the changed ones under SQLite, under Firebase *)
(* every field the copy has (a job nobody cancelled has no cancellation).     *)
Written(base, want) ==
    IF Provider = "sqlite" THEN Changed(base, want)
    ELSE {f \in Fields : f = "cancellation" => want[f] # NoOne}

(* The lease in a copy was valid when it was read; when the copy is written  *)
(* back its deadline may have passed.  aged: heartbeats have renewed the     *)
(* stored lease since, so the copy is older even if it looks the same.       *)
WrittenLeases(cur, want, aged) ==
    IF ~aged /\ ~Disagrees("qr", cur, want) THEN {cur.qr.lease}
    ELSE IF want.qr.lease = "valid" THEN {"valid", "expired"}
    ELSE {want.qr.lease}

SaveResults(cur, base, want, aged) ==
    {[status       |-> IF "status" \in Written(base, want) THEN want.status ELSE cur.status,
      outputs      |-> IF "outputs" \in Written(base, want) THEN want.outputs ELSE cur.outputs,
      cancellation |-> IF "cancellation" \in Written(base, want) THEN want.cancellation
                       ELSE cur.cancellation,
      qr           |-> IF "qr" \in Written(base, want) THEN [want.qr EXCEPT !.lease = l]
                       ELSE cur.qr] : l \in WrittenLeases(cur, want, aged)}
=============================================================================
