---------------------------- MODULE JobLifecycle ----------------------------
(***************************************************************************)
(* The life of a job: the durable queue of every runtime (JobQueue), the   *)
(* executions it starts (SkillRun) and the cancellation requests users     *)
(* send (JobCancellation), over one store.                                 *)
(***************************************************************************)
EXTENDS SkillRun, JobCancellation

vars == <<queueVars, files, requests>>

TypeOK == QueueTypeOK /\ SkillTypeOK /\ CancelTypeOK

Init == QueueInit /\ SkillInit /\ CancelInit

QueueStep   == QueueNext /\ UNCHANGED <<files, requests>>
RunStep     == (\E i \in DOMAIN runs : SkillStep(i)) /\ UNCHANGED requests
RequestStep == (\E c \in Request : CancelStep(c)) /\ UNCHANGED files
ProcessExit == \E r \in Runtime : Exit(r) /\ ForgetRequests(r) /\ UNCHANGED files

Next == QueueStep \/ RunStep \/ RequestStep \/ ProcessExit

Spec == Init /\ [][Next]_vars

-----------------------------------------------------------------------------
(* Fairness.  A promise that is awaited is settled and a microtask runs;   *)
(* heartbeats and reconciliation are on timers; a lease deadline passes.   *)
(* None of it is due from a process that has ended, none is due to start.  *)
FairQueue ==
    /\ \A r \in Runtime :
          WF_vars((DrainShift(r) \/ DrainClaim(r)) /\ UNCHANGED <<files, requests>>)
    /\ \A r \in Runtime, j \in Job :
          /\ WF_vars((EnqueueCheck(r, j) \/ EnqueuePersist(r, j)) /\ UNCHANGED <<files, requests>>)
          /\ WF_vars(Reconcile(r, j) /\ UNCHANGED <<files, requests>>)
          /\ WF_vars(Renew(r, j) /\ UNCHANGED <<files, requests>>)
    /\ \A j \in Job : WF_vars(LeaseExpires(j) /\ UNCHANGED <<files, requests>>)
    /\ \A i \in 1..MaxRuns :
          /\ WF_vars(i \in DOMAIN runs /\ Finalize(i) /\ UNCHANGED <<files, requests>>)
          /\ WF_vars(i \in DOMAIN runs /\ RunnerStep(i) /\ UNCHANGED requests)

(* executeProcess stops a child that exceeds timeoutSeconds, so every child ends,  *)
(* if its sentinel can be written and no descendant of it holds its pipes for ever *)
(* (see StoppedChildEnds in SkillProcess).  The second specification takes that    *)
(* for granted as well.                                                            *)
FairSpec ==
    /\ Spec /\ FairQueue
    /\ \A i \in 1..MaxRuns : WF_vars(i \in DOMAIN runs /\ ChildExits(i) /\ UNCHANGED requests)

(* A weaker assumption: a child is due to end only once it is told to stop, by *)
(* the poll of executeProcess that sees the cancellation flag.                 *)
CancelFairSpec ==
    /\ Spec /\ FairQueue
    /\ \A i \in 1..MaxRuns :
          WF_vars(/\ i \in DOMAIN runs /\ runs[i].job \in cancelFlag[runs[i].rt]
                  /\ RunExit(i) /\ UNCHANGED requests)
    /\ \A c \in Request : WF_vars((CancelMark(c) \/ CancelSave(c)) /\ UNCHANGED files)

-----------------------------------------------------------------------------
(* Safety *)

Live(i)    == ~Ended(runs[i])
Overlap(i, k) == runs[i].job = runs[k].job /\ Live(i) /\ Live(k) /\ ~runs[i].lapsed /\ ~runs[k].lapsed

(* Two runtimes never execute one job at the same time, unless one of them has *)
(* outlived its lease: claimJob refuses a job that another runtime holds.      *)
ExclusiveRuns == \A i, k \in DOMAIN runs : Overlap(i, k) => runs[i].rt = runs[k].rt

(* An execution that has kept its lease is the one the store names as the owner, *)
(* in a state that keeps claims and reconciliation elsewhere away from the job.  *)
RunsHoldTheirLease ==
    \A i \in DOMAIN runs :
        Live(i) /\ ~runs[i].lapsed =>
            Held(docs[runs[i].job].qr) /\ OwnedBy(docs[runs[i].job].qr, runs[i].rt)

(* No handler takes a valid lease from the runtime that holds it, whether in a *)
(* claim or by writing back an old copy of the document.                       *)
ForeignLeaseRejects ==
    [][\A j \in Job : IsLeaseValid(docs[j].qr) => docs'[j].qr.owner = docs[j].qr.owner]_vars

(* "Terminal: never re-execute": no handler, with however old a copy of the job, *)
(* moves a terminal job to another status.                                      *)
TerminalIsFinal ==
    [][\A j \in Job : IsTerminal(docs[j]) => docs'[j].status = docs[j].status]_vars

(* A job whose skill was started is not put back in the queue: skills declare no *)
(* continuation, so what is interrupted fails instead of running a second time.  *)
(* An enqueueJob that is slower than another runtime's claim does put it back.   *)
StartedIsNotRequeued ==
    [][\A j \in Job :
          docs[j].status \in RunningStatuses \cup {"cancelling"} => docs'[j].status # "queued"]_vars

(* When a skill reports that it was cancelled, that result is what gets recorded: *)
(* cancelled jobs with valid partial output become cancelled_with_partial_result. *)
CancelledResultIsKept ==
    [][\A i \in DOMAIN runs :
          /\ runs[i].stage = "saving"
          /\ runs[i].want.status \in {"cancelled", "cancelled_with_partial_result"}
          => runs'[i].stage # "failing"]_vars

(* Partial output is never hidden: a job with output records does not end as plain *)
(* "cancelled", whoever computes that status from whichever copy.                 *)
PartialOutputIsKept == \A j \in files : docs[j].status # "cancelled"

(* Who cancelled a job, and when, is not lost: a request replaces the record of *)
(* another one only if it has read it, so that what it writes is built on it.   *)
CancelRecordKept ==
    [][\A j \in Job :
          docs[j].cancellation # NoOne /\ docs'[j].cancellation # docs[j].cancellation =>
              \E c \in Request : /\ docs'[j].cancellation = c
                                 /\ requests[c].base.cancellation = docs[j].cancellation]_vars

(* A skill that refuses cancellation and has been claimed is left alone by a  *)
(* request that found the job still waiting: the request's transaction looks  *)
(* at the queue state a claim leaves, and its save conflicts with the claim.  *)
UncancellableRunsUndisturbed ==
    \A i \in DOMAIN runs :
        Live(i) /\ ~runs[i].lapsed /\ runs[i].job \notin Cancellable =>
            docs[runs[i].job].status \notin {"cancelling", "cancelled", "cancelled_with_partial_result"}

(* knownJobIds keeps reconciliation from queueing a job twice; so a job in it is *)
(* really queued, being claimed, or executing, or nobody would ever take it up.  *)
KnownJobsAreTracked ==
    \A r \in Runtime : \A j \in known[r] : InQueue(r, j) \/ claiming[r] = j \/ j \in active[r]

(* drainQueue compares activeJobIds with the limit before it awaits a claim, and *)
(* adds to them after it.                                                       *)
ActiveWithinLimit == \A r \in Runtime : Cardinality(active[r]) <= MaxConcurrent

-----------------------------------------------------------------------------
(* The queue keeps its contract: the store's documents, seen through Held, *)
(* move as JobContract allows.                                             *)
PhaseOf(d) ==
    CASE d.status = "absent" -> "none"
      [] d.status = "queued" -> "waiting"
      [] IsTerminal(d)       -> "ended"
      [] OTHER               -> "started"

Contract == INSTANCE JobContract WITH
    phase  <- [j \in Job |-> PhaseOf(docs[j])],
    holder <- [j \in Job |-> IF Held(docs[j].qr) THEN docs[j].qr.owner ELSE NoOne]

(* Every step on a job is one the contract knows: in particular a hold passes *)
(* from one runtime to another only through being lost, and an end is final.  *)
KeepsContract == Contract!ContractSpec

-----------------------------------------------------------------------------
(* Liveness *)

SomeRuntimeStays == <>[](\E r \in Runtime : mode[r] = "up")

(* A job that exists ends, although the runtime that created it or executes it *)
(* may be killed at any point, as long as one runtime stays up.                *)
JobsReachAnEnd == SomeRuntimeStays => \A j \in Job : Exists(docs[j]) ~> IsTerminal(docs[j])

(* A cancellation that was answered as recorded reaches the child process, also *)
(* of another runtime, and the job ends.                                       *)
CancellationsComplete ==
    SomeRuntimeStays =>
        \A c \in Request, j \in Job :
            (requests[c].stage = "answered" /\ requests[c].job = j) ~> IsTerminal(docs[j])
=============================================================================
