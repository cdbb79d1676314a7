------------------------------ MODULE JobQueue ------------------------------
(***************************************************************************)
(* backend/src/queue/jobQueue.js: the durable queue.  The job documents    *)
(* are shared by every runtime (docs); the arrays and sets of a runtime    *)
(* are its own and vanish with it.                                         *)
(*                                                                         *)
(* Every function of the queue runs up to its transaction in one step      *)
(* (reading process-local state), and the transaction with what follows    *)
(* the await in a second one, so process-local state read before an await  *)
(* may be stale after it.                                                  *)
(*                                                                         *)
(* A claim starts an execution: it is appended to runs, where the module   *)
(* SkillRun moves it forward.  Executions stay in runs when they end.      *)
(***************************************************************************)
EXTENDS JobDocument, Naturals, Sequences, FiniteSets

CONSTANTS
    Job,
    NoJob,
    MaxConcurrent,     \* config.limits.maxConcurrentJobs
    MaxRuns,           \* bound: executions started in a behaviour
    MaxFaults,         \* bound: failed calls to the store or the event publisher
    TimelyHeartbeats,  \* no live runtime misses a lease deadline
    Stops              \* how runtimes are stopped: "kill", "SIGTERM"

ASSUME NoJobAssumption == NoJob \notin Job
ASSUME LimitAssumption == MaxConcurrent \in Nat \ {0} /\ MaxRuns \in Nat /\ MaxFaults \in Nat
ASSUME EnvironmentAssumption == TimelyHeartbeats \in BOOLEAN /\ Stops \subseteq {"kill", "SIGTERM"}

VARIABLES
    docs,        \* the jobs collection of the store
    mode,        \* [Runtime -> "off", "up", "stopping", "dead"]
    queued,      \* queuedJobIds
    known,       \* knownJobIds
    active,      \* activeJobIds
    claiming,    \* the job drainQueue shifted and is claiming, or NoJob
    cancelFlag,  \* jobs whose workerState has cancellationRequested
    toRelease,   \* the jobs shutdownQueue has still to release
    submission,  \* how far the creation of each job has come, and where
    runs,        \* the executions ever started, in order
    faults       \* faults so far

queueVars == <<docs, mode, queued, known, active, claiming, cancelFlag, toRelease,
               submission, runs, faults>>
localVars == <<mode, queued, known, active, claiming, cancelFlag, toRelease>>

RunStages == {"starting", "loaded", "working", "saving", "failing", "publishing",
              "finalizing", "done", "dead"}
(* beats: its heartbeat timer is set.  lapsed records that the lease it executes *)
(* under has ended; the execution itself notices nothing.                        *)
Runs == [rt : Runtime, job : Job, stage : RunStages, beats : BOOLEAN, lapsed : BOOLEAN,
         base : Documents, want : Documents]
Submissions == [stage : {"none", "created", "checked", "done", "dead"}, rt : Runtime \cup {NoOne}]

QueueTypeOK ==
    /\ docs \in [Job -> Documents]
    /\ mode \in [Runtime -> {"off", "up", "stopping", "dead"}]
    /\ queued \in [Runtime -> Seq(Job)]
    /\ known \in [Runtime -> SUBSET Job]
    /\ active \in [Runtime -> SUBSET Job]
    /\ claiming \in [Runtime -> Job \cup {NoJob}]
    /\ cancelFlag \in [Runtime -> SUBSET Job]
    /\ toRelease \in [Runtime -> SUBSET Job]
    /\ submission \in [Job -> Submissions]
    /\ runs \in Seq(Runs)
    /\ faults \in 0..MaxFaults

QueueInit ==
    /\ docs = [j \in Job |-> Absent]
    /\ mode = [r \in Runtime |-> "off"]
    /\ queued = [r \in Runtime |-> <<>>]
    /\ known = [r \in Runtime |-> {}]
    /\ active = [r \in Runtime |-> {}]
    /\ claiming = [r \in Runtime |-> NoJob]
    /\ cancelFlag = [r \in Runtime |-> {}]
    /\ toRelease = [r \in Runtime |-> {}]
    /\ submission = [j \in Job |-> [stage |-> "none", rt |-> NoOne]]
    /\ runs = <<>>
    /\ faults = 0

-----------------------------------------------------------------------------
Running(r)   == mode[r] \in {"up", "stopping"}
Ended(run)   == run.stage \in {"done", "dead"}
InQueue(r, j) == \E i \in DOMAIN queued[r] : queued[r][i] = j
RunsOf(r, j) == {i \in DOMAIN runs : runs[i].rt = r /\ runs[i].job = j /\ ~Ended(runs[i])}

NewRun(r, j) == [rt |-> r, job |-> j, stage |-> "starting", beats |-> TRUE, lapsed |-> FALSE,
                 base |-> Absent, want |-> Absent]

Store(j, d) == docs' = [docs EXCEPT ![j] = d]

(* knownJobIds.add, queuedJobIds.push, workerStateService.createState *)
Push(r, j) ==
    /\ known' = [known EXCEPT ![r] = @ \cup {j}]
    /\ queued' = [queued EXCEPT ![r] = Append(@, j)]
    /\ cancelFlag' = [cancelFlag EXCEPT ![r] = @ \ {j}]

(* Mutant: the job stays known *)
ForgetNothing(r, j) == UNCHANGED known

Forget(r, j) == known' = [known EXCEPT ![r] = @ \ {j}]

(* Mutant: off by one *)
HasCapacityForOneMore(r) == Cardinality(active[r]) <= MaxConcurrent

HasCapacity(r) == Cardinality(active[r]) < MaxConcurrent

Fault == faults < MaxFaults /\ faults' = faults + 1

(* The runs of job j on runtime r once the lease they share has ended *)
Lapse(r, j) ==
    [i \in DOMAIN runs |-> IF i \in RunsOf(r, j) THEN [runs[i] EXCEPT !.lapsed = TRUE] ELSE runs[i]]

-----------------------------------------------------------------------------
(* createSkillJob writes the document, then its input files, then enqueues *)
Submit(r, j) ==
    /\ mode[r] = "up" /\ submission[j].stage = "none"
    /\ Store(j, Created)
    /\ submission' = [submission EXCEPT ![j] = [stage |-> "created", rt |-> r]]
    /\ UNCHANGED <<localVars, runs, faults>>

(* enqueueJob up to its transaction: nothing to do for a job this runtime has *)
EnqueueCheck(r, j) ==
    /\ Running(r) /\ submission[j] = [stage |-> "created", rt |-> r]
    /\ submission' = [submission EXCEPT ![j].stage =
          IF j \in known[r] \cup active[r] \/ InQueue(r, j) THEN "done" ELSE "checked"]
    /\ UNCHANGED <<docs, localVars, runs, faults>>

(* enqueueJob from persistQueuedState on *)
EnqueuePersist(r, j) ==
    /\ Running(r) /\ submission[j] = [stage |-> "checked", rt |-> r]
    /\ submission' = [submission EXCEPT ![j].stage = "done"]
    /\ IF PersistAllowed(docs[j]) THEN Store(j, Persisted(docs[j])) ELSE UNCHANGED docs
    /\ IF docs'[j].status = "queued" THEN Push(r, j) ELSE UNCHANGED <<known, queued, cancelFlag>>
    /\ UNCHANGED <<mode, active, claiming, toRelease, runs, faults>>

(* One turn of the drainQueue loop up to claimJob; drainInProgress allows one at a time *)
DrainShift(r) ==
    /\ Running(r) /\ claiming[r] = NoJob
    /\ HasCapacity(r) /\ queued[r] # <<>>
    /\ claiming' = [claiming EXCEPT ![r] = Head(queued[r])]
    /\ queued' = [queued EXCEPT ![r] = Tail(@)]
    /\ UNCHANGED <<docs, mode, known, active, cancelFlag, toRelease, submission, runs, faults>>

(* claimJob, and either known.delete or the start of executeClaimedJob *)
DrainClaim(r) ==
    LET j == claiming[r] IN
    /\ Running(r) /\ j # NoJob
    /\ claiming' = [claiming EXCEPT ![r] = NoJob]
    /\ \/ /\ ClaimAllowed(docs[j], r) /\ Len(runs) < MaxRuns
          /\ Store(j, Claimed(docs[j], r))
          /\ active' = [active EXCEPT ![r] = @ \cup {j}]
          /\ runs' = Append(runs, NewRun(r, j))
          /\ UNCHANGED known
       \/ /\ ~ClaimAllowed(docs[j], r)
          /\ Forget(r, j)
          /\ UNCHANGED <<docs, active, runs>>
    /\ UNCHANGED <<mode, queued, cancelFlag, toRelease, submission, faults>>

(* claimJob throws: drainQueue leaves its loop, and the shifted job stays in known. *)
(* The store may have applied the claim although its answer was lost.              *)
DrainFault(r) ==
    LET j == claiming[r] IN
    /\ Running(r) /\ j # NoJob /\ Fault
    /\ claiming' = [claiming EXCEPT ![r] = NoJob]
    /\ \/ UNCHANGED docs
       \/ ClaimAllowed(docs[j], r) /\ Store(j, Claimed(docs[j], r))
    /\ UNCHANGED <<mode, queued, known, active, cancelFlag, toRelease, submission, runs>>

(* renewLease, from the timer of startLeaseHeartbeat.  It also carries a      *)
(* cancellation that was recorded elsewhere to the runtime that executes the *)
(* job.                                                                      *)
Renew(r, j) ==
    /\ Running(r) /\ \E i \in RunsOf(r, j) : runs[i].beats
    /\ LET d == IF RenewAllowed(docs[j], r) THEN Renewed(docs[j]) ELSE docs[j]
       IN  /\ Store(j, d)
           /\ cancelFlag' = [cancelFlag EXCEPT ![r] = IF d.qr.cancelRequested THEN @ \cup {j} ELSE @]
    /\ UNCHANGED <<mode, queued, known, active, claiming, toRelease, submission, runs, faults>>

(* The finally block of executeClaimedJob: finalizeClaim, whose error is only *)
(* logged, and the removal of the job from the sets.                         *)
Finalize(i) ==
    LET r == runs[i].rt
        j == runs[i].job
        done == [runs[i] EXCEPT !.stage = "done"]
    IN
    /\ Running(r) /\ runs[i].stage = "finalizing"
    /\ active' = [active EXCEPT ![r] = @ \ {j}]
    /\ Forget(r, j)
    /\ \/ /\ FinalizeAllowed(docs[j], r)
          /\ Store(j, Finalized(docs[j]))
          /\ runs' = [Lapse(r, j) EXCEPT ![i] = done]
          /\ UNCHANGED faults
       \/ /\ ~FinalizeAllowed(docs[j], r)
          /\ runs' = [runs EXCEPT ![i] = done]
          /\ UNCHANGED <<docs, faults>>
       \/ /\ Fault
          /\ runs' = [runs EXCEPT ![i] = done]
          /\ UNCHANGED docs
    /\ UNCHANGED <<mode, queued, claiming, cancelFlag, toRelease, submission>>

(* One job of reconcileQueue, at startup or every reconciliation interval *)
Reconcile(r, j) ==
    /\ mode[r] = "up" /\ ReconcileAllowed(docs[j])
    /\ Store(j, Reconciled(docs[j]))
    /\ IF docs[j].status = "queued"
       THEN IF j \in known[r] THEN UNCHANGED <<known, queued, cancelFlag>> ELSE Push(r, j)
       ELSE /\ cancelFlag' = [cancelFlag EXCEPT ![r] = @ \ {j}]
            /\ UNCHANGED <<known, queued>>
    /\ UNCHANGED <<mode, active, claiming, toRelease, submission, runs, faults>>

-----------------------------------------------------------------------------
Start(r) ==
    /\ mode[r] = "off"
    /\ mode' = [mode EXCEPT ![r] = "up"]
    /\ UNCHANGED <<docs, queued, known, active, claiming, cancelFlag, toRelease, submission,
                   runs, faults>>

(* SIGTERM: shutdownQueue clears the timers, then releases its active jobs in turn *)
Shutdown(r) ==
    /\ "SIGTERM" \in Stops /\ mode[r] = "up"
    /\ mode' = [mode EXCEPT ![r] = "stopping"]
    /\ toRelease' = [toRelease EXCEPT ![r] = active[r]]
    /\ UNCHANGED <<docs, queued, known, active, claiming, cancelFlag, submission, runs, faults>>

ShutdownRelease(r, j) ==
    /\ mode[r] = "stopping" /\ j \in toRelease[r]
    /\ toRelease' = [toRelease EXCEPT ![r] = @ \ {j}]
    /\ LET released == ReleaseAllowed(docs[j], r) IN
       /\ Store(j, IF released THEN ReleasedForRestart(docs[j]) ELSE docs[j])
       /\ runs' = [i \in DOMAIN runs |->
                     IF i \in RunsOf(r, j)
                     THEN [runs[i] EXCEPT !.beats = FALSE, !.lapsed = @ \/ released]
                     ELSE runs[i]]
    /\ UNCHANGED <<mode, queued, known, active, claiming, cancelFlag, submission, faults>>

(* The process is killed, or ends after SIGTERM: its memory and its executions are gone *)
Exit(r) ==
    /\ \/ mode[r] = "up" /\ "kill" \in Stops
       \/ mode[r] = "stopping"
    /\ mode' = [mode EXCEPT ![r] = "dead"]
    /\ queued' = [queued EXCEPT ![r] = <<>>]
    /\ known' = [known EXCEPT ![r] = {}]
    /\ active' = [active EXCEPT ![r] = {}]
    /\ claiming' = [claiming EXCEPT ![r] = NoJob]
    /\ cancelFlag' = [cancelFlag EXCEPT ![r] = {}]
    /\ toRelease' = [toRelease EXCEPT ![r] = {}]
    /\ runs' = [i \in DOMAIN runs |->
                  IF runs[i].rt = r /\ ~Ended(runs[i])
                  THEN [runs[i] EXCEPT !.stage = "dead", !.beats = FALSE,
                                        !.base = Absent, !.want = Absent]
                  ELSE runs[i]]
    /\ submission' = [j \in Job |->
                        IF submission[j].rt = r /\ submission[j].stage # "done"
                        THEN [submission[j] EXCEPT !.stage = "dead"] ELSE submission[j]]
    /\ UNCHANGED <<docs, faults>>

(* Time passes a lease deadline.  A live runtime renews three times per lease, so  *)
(* under TimelyHeartbeats only an owner that is dead or that has released the lease *)
(* can be late.                                                                    *)
LeaseExpires(j) ==
    LET r == docs[j].qr.owner IN
    /\ IsLeaseValid(docs[j].qr)
    /\ TimelyHeartbeats => \A i \in RunsOf(r, j) : ~runs[i].beats /\ runs[i].stage # "finalizing"
    /\ Store(j, [docs[j] EXCEPT !.qr.lease = "expired"])
    /\ runs' = Lapse(r, j)
    /\ UNCHANGED <<localVars, submission, faults>>

QueueNext ==
    \/ \E r \in Runtime, j \in Job :
          \/ Submit(r, j) \/ EnqueueCheck(r, j) \/ EnqueuePersist(r, j)
          \/ Renew(r, j) \/ Reconcile(r, j) \/ ShutdownRelease(r, j)
    \/ \E r \in Runtime :
          DrainShift(r) \/ DrainClaim(r) \/ DrainFault(r) \/ Start(r) \/ Shutdown(r)
    \/ \E i \in DOMAIN runs : Finalize(i)
    \/ \E j \in Job : LeaseExpires(j)
=============================================================================
