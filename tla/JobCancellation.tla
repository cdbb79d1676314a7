-------------------------- MODULE JobCancellation --------------------------
(***************************************************************************)
(* POST /jobs/:jobId/cancel: cancelJob (services/jobService.js) around     *)
(* cancelQueuedJob (queue/jobQueue.js).  A request reads the job, records  *)
(* the cancellation in a transaction, and then saves the copy it read,     *)
(* with the status it derives from that copy and from process-local state  *)
(* read before the transaction.                                            *)
(***************************************************************************)
EXTENDS JobQueue

VARIABLE requests   \* [Request -> the state of each request's handler]

RequestStages == {"idle", "read", "saving", "answered", "rejected", "dead"}
Requests == [stage : RequestStages, rt : Runtime \cup {NoOne}, job : Job \cup {NoJob},
             base : Documents, want : Documents, index : Nat, wasActive : BOOLEAN]

Idle == [stage |-> "idle", rt |-> NoOne, job |-> NoJob, base |-> Absent, want |-> Absent,
         index |-> 0, wasActive |-> FALSE]

CancelTypeOK ==
    /\ requests \in [Request -> Requests]
    /\ \A c \in Request : requests[c].stage \in {"read", "saving"} =>
                           requests[c].rt \in Runtime /\ requests[c].job \in Job

CancelInit == requests = [c \in Request |-> Idle]

(* queuedJobIds.indexOf(jobId), counting from 1; 0 when it is not there *)
IndexOf(q, j) ==
    IF \E i \in DOMAIN q : q[i] = j
    THEN CHOOSE i \in DOMAIN q : q[i] = j /\ \A k \in DOMAIN q : q[k] = j => i <= k
    ELSE 0

(* queuedJobIds.splice(index, 1); nothing happens past the end *)
Splice(q, i) == IF i > Len(q) THEN q ELSE SubSeq(q, 1, i - 1) \o SubSeq(q, i + 1, Len(q))

Answer(c, stage) == requests' = [requests EXCEPT ![c] = [Idle EXCEPT !.stage = stage,
                                                    !.job = requests[c].job]]

(* assertJobExists, the early return for a terminal job, and cancelQueuedJob up *)
(* to its transaction.                                                          *)
CancelRead(c, r, j) ==
    /\ mode[r] = "up" /\ requests[c].stage = "idle" /\ Exists(docs[j])
    /\ requests' = [requests EXCEPT ![c] =
          IF IsTerminal(docs[j]) THEN [Idle EXCEPT !.stage = "answered", !.job = j]
          ELSE [stage |-> "read", rt |-> r, job |-> j, base |-> docs[j], want |-> docs[j],
                index |-> IndexOf(queued[r], j), wasActive |-> j \in active[r]]]
    /\ UNCHANGED queueVars

(* What cancelJob will save, from the copy it read and the answer of the queue. *)
(* buildCancellationMetadata keeps what an earlier request wrote, unless it adds *)
(* that the cancellation is complete.                                           *)
CancelledStatus(base) ==
    IF base.status # "queued" /\ base.outputs THEN "cancelled_with_partial_result" ELSE "cancelled"

Recorded(c, base, completes) ==
    IF base.cancellation # NoOne /\ ~completes THEN base.cancellation ELSE c

(* The transaction of cancelQueuedJob, what it does to the process-local queue, *)
(* and the part of cancelJob up to job.save().                                  *)
CancelMark(c) ==
    LET req     == requests[c]
        r       == req.rt
        j       == req.job
        commits == CancelAllowed(docs[j], j)
        d       == IF commits THEN CancelMarked(docs[j], c) ELSE docs[j]
        running == d.qr.queueState = "cancelling" /\ IsLeaseValid(d.qr)
        Save(status, completes) ==
            /\ requests' = [requests EXCEPT ![c].stage = "saving",
                              ![c].want = [req.base EXCEPT !.status = status, !.qr = d.qr,
                                           !.cancellation = Recorded(c, req.base, completes)]]
            /\ UNCHANGED faults
    IN
    /\ req.stage = "read" /\ Running(r)
    /\ Store(j, d)
    /\ \/ /\ j \notin Cancellable /\ ~commits /\ ~IsTerminal(d)
          /\ Answer(c, "rejected")
          /\ UNCHANGED <<queued, known, cancelFlag, faults>>
       \/ /\ j \in Cancellable \/ commits \/ IsTerminal(d)
          /\ \/ /\ req.index # 0 /\ ~running
                /\ queued' = [queued EXCEPT ![r] = Splice(@, req.index)]
                /\ Forget(r, j)
                /\ UNCHANGED cancelFlag
                /\ Save("cancelled", TRUE)
             \/ /\ req.index = 0 \/ running
                /\ running \/ req.wasActive
                /\ cancelFlag' = [cancelFlag EXCEPT ![r] = IF req.wasActive THEN @ \cup {j} ELSE @]
                /\ UNCHANGED <<queued, known>>
                /\ Save("cancelling", FALSE) \/ (Fault /\ Answer(c, "rejected"))
             \/ /\ req.index = 0 /\ ~running /\ ~req.wasActive
                /\ UNCHANGED <<queued, known, cancelFlag>>
                /\ Save(CancelledStatus(req.base), req.base.status # "queued")
    /\ UNCHANGED <<mode, active, claiming, toRelease, submission, runs>>

(* job.save() of cancelJob: answered, or rejected when it throws *)
CancelSave(c) ==
    LET req == requests[c]
        cur == docs[req.job]
    IN
    /\ req.stage = "saving" /\ Running(req.rt)
    /\ \/ /\ \/ SaveConflicts(cur, req.base, req.want) /\ UNCHANGED faults
             \/ Fault
          /\ Answer(c, "rejected") /\ UNCHANGED docs
       \/ /\ ~SaveConflicts(cur, req.base, req.want)
          /\ \E d \in SaveResults(cur, req.base, req.want, FALSE) : Store(req.job, d)
          /\ Answer(c, "answered") /\ UNCHANGED faults
    /\ UNCHANGED <<localVars, submission, runs>>

CancelStep(c) ==
    \/ \E r \in Runtime, j \in Job : CancelRead(c, r, j)
    \/ CancelMark(c) \/ CancelSave(c)

ForgetRequests(r) ==
    requests' = [c \in Request |-> IF requests[c].rt = r
                                   THEN [Idle EXCEPT !.stage = "dead", !.job = requests[c].job]
                                   ELSE requests[c]]
=============================================================================
