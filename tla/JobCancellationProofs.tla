----------------------- MODULE JobCancellationProofs -----------------------
(***************************************************************************)
(* Cancellation requests against executions under SQLite: what they can    *)
(* disturb as long as no call fails, whatever runtimes are killed.         *)
(***************************************************************************)
EXTENDS JobContractProofs

(* The environment.  SIGTERM and a late heartbeat end a lease while its *)
(* execution goes on; requests and kills are allowed.                   *)
Attended == Provider = "sqlite" /\ TimelyHeartbeats /\ "SIGTERM" \notin Stops

(* A request to a job that another runtime has claimed takes the lease out of   *)
(* claimJob's sight, and a second runtime takes the job.  That cannot happen to *)
(* a job whose skill refuses cancellation, nor with one runtime.                *)
Shielded(j) == j \notin Cancellable \/ \A r, s \in Runtime : r = s

CancelStatuses == {"cancelled", "cancelled_with_partial_result"}

Executions(j) == {i \in DOMAIN runs : ~Ended(runs[i]) /\ runs[i].job = j}

(* A document under an execution on r, and how far the two have come *)
Working(d, r) ==
    /\ Exists(d) /\ d.qr.queueState \in {"running", "cancelling"} /\ d.qr.lease = "valid"
    /\ d.qr.owner = r /\ d.qr.heartbeatAt # NoOne

RunInStep(run, d) ==
    \/ run.stage = "starting" /\ d.status \in {"queued", "cancelling"}
    \/ /\ run.stage = "loaded" /\ d.status \in {"queued", "cancelling"}
       /\ run.base.status \in {"queued", "cancelling"} /\ run.want.status = "generating"
    \/ /\ run.stage \in {"working", "saving", "failing"} /\ d.status \in {"generating", "cancelling"}
       /\ run.base.status = "generating"
       /\ run.stage = "saving" => run.want.status \in TerminalStatuses
       /\ run.stage = "failing" => run.want.status = "failed"
    \/ run.stage = "publishing" /\ IsTerminal(d)
    \/ run.stage = "finalizing"

RunFits(run, d) ==
    /\ run.want.qr = run.base.qr /\ (run.beats \/ run.stage = "finalizing")
    /\ run.stage \in {"loaded", "saving", "failing"} => Exists(run.want)
    /\ Shielded(run.job) => Working(d, run.rt) /\ RunInStep(run, d)
    /\ run.job \notin Cancellable => {d.status, run.want.status} \cap CancelStatuses = {}

(* A job whose skill refuses cancellation: no request has touched the lease *)
Untouched(q) == q.queueState # "cancelling" /\ (q.queueState = "running" => ~q.cancelRequested)

JobFits(j) ==
    /\ submission[j].stage = "none" => docs[j] = Absent
    /\ \A i \in Executions(j) : RunFits(runs[i], docs[j]) /\ j \in active[runs[i].rt]
    /\ \A i, k \in Executions(j) : Shielded(j) \/ runs[i].rt = runs[k].rt => i = k
    /\ \A r \in Runtime : j \in active[r] => \E i \in Executions(j) : runs[i].rt = r
    /\ j \notin Cancellable =>
          /\ docs[j].status # "cancelling" /\ Untouched(docs[j].qr)
          /\ \A r \in Runtime : j \in cancelFlag[r] => IsTerminal(docs[j])

(* A stamp is new: nothing carries it before its request has written it *)
StampIsNew(c) ==
    requests[c].stage \in {"idle", "read"} =>
        /\ \A j \in Job : docs[j].qr.heartbeatAt # c
        /\ \A b \in Request : requests[b].stage = "saving" => requests[b].want.qr.heartbeatAt # c

(* A request that has read its job, and one that is about to save its copy.  The  *)
(* copy differs from the one it read in queueRuntime, so a heartbeat or a claim   *)
(* in between makes its save conflict, unless the job is left "cancelling".       *)
ReadFits(c, req) ==
    /\ Exists(docs[req.job]) /\ Exists(req.base) /\ ~IsTerminal(req.base)
    /\ req.base.qr.heartbeatAt # c
    /\ req.job \notin Cancellable => req.base.status # "cancelling"
    /\ Shielded(req.job) /\ req.wasActive =>
          IsTerminal(docs[req.job]) \/ \E i \in Executions(req.job) : runs[i].rt = req.rt

Pledge(req) ==
    /\ req.want.qr # req.base.qr
    /\ \/ req.want.status = "cancelling" /\ req.job \in Cancellable
       \/ req.want.status \in CancelStatuses /\ req.want.qr.queueState = "terminal"

SaveFits(req) ==
    /\ Exists(docs[req.job]) /\ Exists(req.base) /\ ~IsTerminal(req.base)
    /\ req.want.outputs = req.base.outputs
    /\ req.want.status \in {"cancelling"} \cup CancelStatuses
    /\ req.job \notin Cancellable => req.base.status # "cancelling" /\ Untouched(req.want.qr)
    /\ Shielded(req.job) => IsTerminal(docs[req.job]) \/ Pledge(req)

RequestFits(c) ==
    /\ StampIsNew(c)
    /\ requests[c].stage = "read"   => ReadFits(c, requests[c])
    /\ requests[c].stage = "saving" => SaveFits(requests[c])

CancelInv ==
    /\ \A r \in Runtime : mode[r] # "stopping"
    /\ \A j \in Job : JobFits(j)
    /\ \A c \in Request : RequestFits(c)

-----------------------------------------------------------------------------
(* A step of the queue or of an execution concerns one job *)

(* What the step leaves alone of the others *)
Rests(k) ==
    /\ docs'[k] = docs[k] /\ Executions(k)' = Executions(k)
    /\ \A i \in Executions(k) : /\ SameRun(runs'[i], runs[i])
                                /\ k \in active[runs[i].rt] => k \in active'[runs[i].rt]
    /\ submission'[k].stage = "none" => submission[k].stage = "none"
    /\ \A r \in Runtime : k \in active'[r] => k \in active[r]
    /\ \A r \in Runtime : k \in cancelFlag'[r] => k \in cancelFlag[r]

(* What requests rely on for the job itself *)
Advances(j) ==
    /\ docs'[j].qr.heartbeatAt \in {docs[j].qr.heartbeatAt, "runtime", NoOne}
    /\ Exists(docs[j]) => Exists(docs'[j])
    /\ Shielded(j) => /\ IsTerminal(docs[j]) => IsTerminal(docs'[j])
                      /\ \/ IsTerminal(docs'[j])
                         \/ \A i \in Executions(j) : i \in Executions(j)' /\ runs'[i].rt = runs[i].rt

LEMMA RestingJobFits ==
    ASSUME NEW k \in Job, JobFits(k), Rests(k)
    PROVE  JobFits(k)'
PROOF
<1>1. \A i \in Executions(k) : RunFits(runs'[i], docs'[k]) /\ k \in active'[runs'[i].rt]
    BY DEF JobFits, Rests, SameRun, RunFits, RunInStep
<1>2. \A i, m \in Executions(k) : Shielded(k) \/ runs'[i].rt = runs'[m].rt => i = m
    BY DEF JobFits, Rests, SameRun
<1>3. Executions(k)' = Executions(k) /\ docs'[k] = docs[k]
    BY DEF Rests
<1> HIDE DEF Executions
<1>4. (submission[k].stage = "none" => docs[k] = Absent)'
    BY DEF JobFits, Rests
<1>5. k \notin Cancellable => \A r \in Runtime : k \in cancelFlag'[r] => IsTerminal(docs'[k])
    BY DEF JobFits, Rests
<1>6. \A r \in Runtime : k \in active'[r] => \E i \in Executions(k) : runs'[i].rt = r
    BY DEF JobFits, Rests, SameRun
<1> QED BY <1>1, <1>2, <1>3, <1>4, <1>5, <1>6 DEF JobFits

LEMMA RestingRequestFits ==
    ASSUME TypeOK, NEW j \in Job, UNCHANGED requests, Advances(j),
           \A k \in Job : k # j => Rests(k),
           NEW c \in Request, RequestFits(c)
    PROVE  RequestFits(c)'
PROOF
<1>1. requests[c].stage \in {"read", "saving"} => requests[c].job \in Job
    BY DEF TypeOK, CancelTypeOK
<1>2. StampIsNew(c)'
    BY StampAssumption, NoOneAssumption DEF RequestFits, StampIsNew, Advances, Rests
<1>3. \A k \in Job : /\ Exists(docs[k]) => Exists(docs'[k])
                     /\ Shielded(k) /\ IsTerminal(docs[k]) => IsTerminal(docs'[k])
    BY DEF Advances, Rests
<1>4. ASSUME requests[c].stage = "read" PROVE ReadFits(c, requests[c])'
    <2> DEFINE k == requests[c].job
    <2>1. ReadFits(c, requests[c]) /\ k \in Job
        BY <1>1, <1>4 DEF RequestFits
    <2>2. ASSUME Shielded(k), NEW i \in Executions(k), ~IsTerminal(docs'[k])
          PROVE  i \in Executions(k)' /\ runs'[i].rt = runs[i].rt
        BY <2>1, <2>2 DEF Advances, Rests, SameRun
    <2> HIDE DEF Executions
    <2>3. Shielded(k) /\ requests[c].wasActive =>
              IsTerminal(docs'[k]) \/ \E i \in Executions(k)' : runs'[i].rt = requests[c].rt
        BY <1>3, <2>1, <2>2 DEF ReadFits
    <2> QED BY <1>3, <2>1, <2>3 DEF ReadFits
<1>5. ASSUME requests[c].stage = "saving" PROVE SaveFits(requests[c])'
    BY <1>1, <1>3, <1>5 DEF RequestFits, SaveFits, Pledge
<1> QED BY <1>2, <1>4, <1>5 DEF RequestFits

LEMMA JobStep ==
    ASSUME TypeOK, CancelInv, NEW j \in Job, UNCHANGED <<mode, requests>>,
           \A k \in Job : k # j => Rests(k), Advances(j), JobFits(j)'
    PROVE  CancelInv'
PROOF
<1>1. \A k \in Job : JobFits(k)'
    BY RestingJobFits DEF CancelInv
<1>2. \A c \in Request : RequestFits(c)'
    BY RestingRequestFits DEF CancelInv
<1> QED BY <1>1, <1>2 DEF CancelInv
-----------------------------------------------------------------------------
(* The updaters *)

LEMMA UpdaterEffects ==
    ASSUME NEW d \in Documents, NEW r
    PROVE  /\ Claimed(d, r).status = d.status /\ Untouched(Claimed(d, r).qr)
           /\ Claimed(d, r).qr.heartbeatAt = "runtime"
           /\ Exists(d) => Working(Claimed(d, r), r)
           /\ Renewed(d).status = d.status /\ Renewed(d).qr.heartbeatAt = "runtime"
           /\ Renewed(d).qr.cancelRequested = d.qr.cancelRequested
           /\ d.status # "cancelling" => Renewed(d).qr.queueState = "running"
           /\ Working(d, r) => Working(Renewed(d), r)
           /\ Persisted(d).status = "queued" /\ Persisted(d).qr = Released("none")
           /\ Reconciled(d).qr.heartbeatAt \in {"runtime", NoOne} /\ Untouched(Reconciled(d).qr)
           /\ d.status = "queued" => Reconciled(d).status = "queued"
           /\ d.status # "queued" => IsTerminal(Reconciled(d))
           /\ Finalized(d).qr.heartbeatAt = "runtime" /\ Untouched(Finalized(d).qr)
           /\ Finalized(d).status = IF IsActive(d) THEN "failed" ELSE d.status
           /\ Exists(d) => IsTerminal(Finalized(d))
PROOF
<1> USE NoOneAssumption
<1>1. d.qr \in QueueRuntimes
    BY DEF Documents
<1>2. /\ Claimed(d, r).status = d.status /\ Untouched(Claimed(d, r).qr)
      /\ Claimed(d, r).qr.heartbeatAt = "runtime"
      /\ Exists(d) => Working(Claimed(d, r), r)
    BY <1>1 DEF Claimed, Documents, QueueRuntimes, Untouched, Working, Exists
<1>3. /\ Renewed(d).status = d.status /\ Renewed(d).qr.heartbeatAt = "runtime"
      /\ Renewed(d).qr.cancelRequested = d.qr.cancelRequested
      /\ d.status # "cancelling" => Renewed(d).qr.queueState = "running"
    BY <1>1 DEF Renewed, Documents, QueueRuntimes
<1>4. Working(d, r) => Working(Renewed(d), r)
    BY <1>1 DEF Renewed, Documents, QueueRuntimes, Working, Exists
<1>5. Persisted(d).status = "queued" /\ Persisted(d).qr = Released("none")
    BY DEF Persisted, Documents
<1>6. /\ Reconciled(d).qr.heartbeatAt \in {"runtime", NoOne} /\ Untouched(Reconciled(d).qr)
      /\ d.status = "queued" => Reconciled(d).status = "queued"
      /\ d.status # "queued" => IsTerminal(Reconciled(d))
    BY <1>1 DEF Reconciled, Released, Documents, QueueRuntimes, Untouched, IsTerminal, TerminalStatuses
<1>7. /\ Finalized(d).qr.heartbeatAt = "runtime" /\ Untouched(Finalized(d).qr)
      /\ Finalized(d).status = IF IsActive(d) THEN "failed" ELSE d.status
    BY <1>1 DEF Finalized, Documents, QueueRuntimes, Untouched
<1>8. Exists(d) => IsTerminal(Finalized(d))
    BY <1>7 DEF IsTerminal, IsActive, Exists, Documents, Statuses, TerminalStatuses, ActiveStatuses
<1> QED BY <1>2, <1>3, <1>4, <1>5, <1>6, <1>7, <1>8

(* A job that nobody holds is not being executed *)
LEMMA UnheldIsIdle ==
    ASSUME NEW j, JobFits(j), Shielded(j), ~Held(docs[j].qr)
    PROVE  Executions(j) = {}
PROOF
<1>1. \A r : ~Working(docs[j], r)
    BY DEF Working, Held, IsLeaseValid
<1>2. \A i \in Executions(j) : runs[i].job = j /\ RunFits(runs[i], docs[j])
    BY DEF JobFits, Executions
<1> QED BY <1>1, <1>2 DEF RunFits

(* Of an execution of a job that is not shielded its document says nothing *)
LEMMA OnlyShieldedFit ==
    ASSUME NEW run, NEW d, NEW e, RunFits(run, d), ~Shielded(run.job)
    PROVE  RunFits(run, e)
PROOF
BY DEF RunFits, Shielded

-----------------------------------------------------------------------------
(* Steps of the queue that touch no execution *)

LEMMA DocumentStep ==
    ASSUME TypeOK, CancelInv, NEW j \in Job, NEW d, Store(j, d),
           UNCHANGED <<mode, requests, runs, active>>,
           \A k \in Job : submission'[k].stage = "none" =>
                             submission[k].stage = "none" /\ (k = j => d = docs[j]),
           \A k \in Job, r \in Runtime : k # j /\ k \in cancelFlag'[r] => k \in cancelFlag[r],
           d.qr.heartbeatAt \in {docs[j].qr.heartbeatAt, "runtime", NoOne},
           Exists(docs[j]) => Exists(d),
           Shielded(j) /\ IsTerminal(docs[j]) => IsTerminal(d),
           \A i \in Executions(j) : RunFits(runs[i], d),
           j \notin Cancellable =>
              /\ d.status # "cancelling" /\ Untouched(d.qr)
              /\ \A r \in Runtime : j \in cancelFlag'[r] => IsTerminal(d)
    PROVE  CancelInv'
PROOF
<1>1. docs'[j] = d /\ \A k \in Job : k # j => docs'[k] = docs[k]
    BY DEF Store, TypeOK, QueueTypeOK
<1>2. \A k \in Job : Executions(k)' = Executions(k)
    BY DEF Executions
<1>3. \A i : SameRun(runs'[i], runs[i])
    BY DEF SameRun
<1> HIDE DEF Executions
<1>4. \A k \in Job : k # j => Rests(k)
    BY <1>1, <1>2, <1>3 DEF Rests
<1>5. Advances(j)
    BY <1>1, <1>2 DEF Advances
<1>6. JobFits(j)
    BY DEF CancelInv
<1>7. JobFits(j)'
    BY <1>1, <1>2, <1>6 DEF JobFits
<1> QED BY <1>4, <1>5, <1>7, JobStep

LEMMA IdleStep ==
    ASSUME TypeOK, CancelInv, UNCHANGED <<requests, docs, runs, active, cancelFlag>>,
           \A r \in Runtime : mode'[r] # "stopping",
           \A k \in Job : submission'[k].stage = "none" => submission[k].stage = "none"
    PROVE  CancelInv'
PROOF
<1>1. \A k \in Job : Executions(k)' = Executions(k)
    BY DEF Executions
<1> HIDE DEF Executions
<1>2. \A k \in Job : JobFits(k)'
    BY <1>1 DEF CancelInv, JobFits
<1>3. ASSUME NEW c \in Request
      PROVE  RequestFits(c)'
    <2>1. requests[c].stage \in {"read", "saving"} => requests[c].job \in Job
        BY DEF TypeOK, CancelTypeOK
    <2>2. StampIsNew(c)'
        BY DEF CancelInv, RequestFits, StampIsNew
    <2>3. requests[c].stage = "read" => ReadFits(c, requests[c])'
        BY <1>1, <2>1 DEF CancelInv, RequestFits, ReadFits
    <2>4. requests[c].stage = "saving" => SaveFits(requests[c])'
        BY <2>1 DEF CancelInv, RequestFits, SaveFits
    <2> QED BY <2>2, <2>3, <2>4 DEF RequestFits
<1> QED BY <1>2, <1>3 DEF CancelInv

LEMMA SubmissionCancels ==
    ASSUME TypeOK, CancelInv, UNCHANGED requests, NEW r \in Runtime, NEW j \in Job,
           Submit(r, j) \/ EnqueueCheck(r, j) \/ EnqueuePersist(r, j)
    PROVE  CancelInv'
PROOF
<1>1. /\ docs[j] \in Documents /\ submission \in [Job -> Submissions]
      /\ cancelFlag \in [Runtime -> SUBSET Job] /\ docs \in [Job -> Documents]
      /\ JobFits(j) /\ \A q \in Runtime : mode[q] # "stopping"
    BY DEF TypeOK, QueueTypeOK, CancelInv
<1>2. UNCHANGED <<runs, active, mode>>
    BY DEF Submit, EnqueueCheck, EnqueuePersist, localVars
<1>3. \A k \in Job : submission'[k].stage = "none" => submission[k].stage = "none" /\ k # j
    BY <1>1 DEF Submit, EnqueueCheck, EnqueuePersist, Submissions
<1>4. \A k \in Job, q \in Runtime : k \in cancelFlag'[q] => k \in cancelFlag[q]
    BY <1>1 DEF Submit, EnqueueCheck, EnqueuePersist, Push, localVars
<1>5. CASE Submit(r, j)
    <2>1. docs[j] = Absent /\ Store(j, Created)
        BY <1>1, <1>5 DEF Submit, JobFits
    <2>2. /\ ~Held(docs[j].qr) /\ ~Exists(docs[j]) /\ ~IsTerminal(docs[j])
          /\ Created.qr = docs[j].qr /\ Created.status = "queued" /\ Untouched(Created.qr)
        BY <2>1 DEF Absent, Created, Released, Held, IsLeaseValid, IsTerminal, TerminalStatuses,
                    Exists, Untouched
    <2>3. j \notin Cancellable => \A q \in Runtime : j \notin cancelFlag'[q]
        BY <1>1, <1>4, <2>2 DEF JobFits
    <2>4. \A i \in Executions(j) : RunFits(runs[i], Created)
        <3>1. Shielded(j) => Executions(j) = {}
            BY <1>1, <2>2, UnheldIsIdle
        <3>2. \A i \in Executions(j) : runs[i].job = j /\ RunFits(runs[i], docs[j])
            BY <1>1 DEF JobFits, Executions
        <3> QED BY <3>1, <3>2, OnlyShieldedFit
    <2> QED
        BY <1>2, <1>3, <1>4, <2>1, <2>2, <2>3, <2>4, DocumentStep
<1>6. CASE UNCHANGED docs
    <2>1. Store(j, docs[j])
        BY <1>1, <1>6 DEF Store
    <2>2. \A i \in Executions(j) : RunFits(runs[i], docs[j])
        BY <1>1 DEF JobFits
    <2>3. j \notin Cancellable => /\ docs[j].status # "cancelling" /\ Untouched(docs[j].qr)
                                  /\ \A q \in Runtime : j \in cancelFlag'[q] => IsTerminal(docs[j])
        BY <1>1, <1>4 DEF JobFits
    <2> QED BY <1>2, <1>3, <1>4, <2>1, <2>2, <2>3, DocumentStep
<1>7. CASE EnqueuePersist(r, j) /\ PersistAllowed(docs[j])
    <2> DEFINE d == Persisted(docs[j])
    <2>1. Store(j, d) /\ ~Held(docs[j].qr) /\ ~IsTerminal(docs[j])
        BY <1>7 DEF EnqueuePersist, PersistAllowed
    <2>2. d.status = "queued" /\ d.qr.heartbeatAt = NoOne /\ Untouched(d.qr)
        BY <1>1, UpdaterEffects DEF Released, Untouched
    <2>3. \A i \in Executions(j) : RunFits(runs[i], d)
        <3>1. Shielded(j) => Executions(j) = {}
            BY <1>1, <2>1, UnheldIsIdle
        <3>2. \A i \in Executions(j) : runs[i].job = j /\ RunFits(runs[i], docs[j])
            BY <1>1 DEF JobFits, Executions
        <3> QED BY <3>1, <3>2, OnlyShieldedFit
    <2>4. j \notin Cancellable => \A q \in Runtime : j \notin cancelFlag'[q]
        BY <1>1, <1>4, <2>1 DEF JobFits
    <2>5. Exists(d)
        BY <2>2 DEF Exists
    <2> HIDE DEF d
    <2> QED BY <1>2, <1>3, <1>4, <2>1, <2>2, <2>3, <2>4, <2>5, DocumentStep
<1> QED BY <1>5, <1>6, <1>7 DEF EnqueueCheck, EnqueuePersist

LEMMA RenewCancels ==
    ASSUME TypeOK, CancelInv, UNCHANGED requests, NEW r \in Runtime, NEW j \in Job, Renew(r, j)
    PROVE  CancelInv'
PROOF
<1>1. /\ docs[j] \in Documents /\ cancelFlag \in [Runtime -> SUBSET Job] /\ JobFits(j)
      /\ docs \in [Job -> Documents] /\ runs \in Seq(Runs)
    BY DEF TypeOK, QueueTypeOK, CancelInv
<1> DEFINE d == IF RenewAllowed(docs[j], r) THEN Renewed(docs[j]) ELSE docs[j]
<1>2. /\ Store(j, d) /\ UNCHANGED <<mode, runs, active, submission>>
      /\ cancelFlag' = [cancelFlag EXCEPT ![r] = IF d.qr.cancelRequested THEN @ \cup {j} ELSE @]
    BY DEF Renew
<1>3. PICK i \in Executions(j) : runs[i].rt = r
    BY DEF Renew, RunsOf, Executions
<1>4. /\ d.status = docs[j].status /\ d.qr.heartbeatAt \in {docs[j].qr.heartbeatAt, "runtime"}
      /\ d.qr.cancelRequested = docs[j].qr.cancelRequested
      /\ \A q : Working(docs[j], q) => Working(d, q)
      /\ docs[j].status # "cancelling" => d.qr.queueState \in {docs[j].qr.queueState, "running"}
    BY <1>1, UpdaterEffects
<1> HIDE DEF d
<1>5. \A m \in Executions(j) : RunFits(runs[m], d)
    <2>1. \A m \in Executions(j) : RunFits(runs[m], docs[j])
        BY <1>1 DEF JobFits
    <2>2. \A m \in Executions(j) : RunInStep(runs[m], docs[j]) => RunInStep(runs[m], d)
        BY <1>4 DEF RunInStep, IsTerminal
    <2> QED BY <1>4, <2>1, <2>2 DEF RunFits
<1>6. j \notin Cancellable => Working(docs[j], r) /\ ~docs[j].qr.cancelRequested
    <2>1. RunFits(runs[i], docs[j]) /\ runs[i].job = j
        BY <1>1, <1>3 DEF JobFits, Executions
    <2>2. j \notin Cancellable => Working(docs[j], r) /\ Untouched(docs[j].qr)
        BY <1>1, <1>3, <2>1 DEF JobFits, RunFits, Shielded
    <2> QED BY <2>2 DEF Working, Untouched
<1>7. j \notin Cancellable => /\ d.status # "cancelling" /\ Untouched(d.qr)
                              /\ \A q \in Runtime : j \in cancelFlag'[q] => IsTerminal(d)
    <2>1. j \notin Cancellable => d.status # "cancelling" /\ Untouched(d.qr)
        BY <1>1, <1>4, <1>6 DEF JobFits, Untouched
    <2>2. j \notin Cancellable => cancelFlag' = cancelFlag
        BY <1>1, <1>2, <1>4, <1>6
    <2>3. IsTerminal(d) <=> IsTerminal(docs[j])
        BY <1>4 DEF IsTerminal
    <2> QED BY <1>1, <2>1, <2>2, <2>3 DEF JobFits
<1>8. \A k \in Job, q \in Runtime : k # j /\ k \in cancelFlag'[q] => k \in cancelFlag[q]
    BY <1>1, <1>2
<1>9. \A k \in Job : submission'[k].stage = "none" => submission[k].stage = "none" /\ (k = j => d = docs[j])
    <2>1. submission[j].stage # "none" \/ d = docs[j]
        <3>1. docs[j] = Absent => ~RenewAllowed(docs[j], r)
            BY DEF RenewAllowed, Exists, Absent
        <3> QED BY <1>1, <3>1 DEF JobFits, d
    <2> QED BY <1>2, <2>1
<1>10. (Exists(docs[j]) => Exists(d)) /\ (IsTerminal(docs[j]) => IsTerminal(d))
    BY <1>4 DEF Exists, IsTerminal
<1> QED BY <1>2, <1>4, <1>5, <1>7, <1>8, <1>9, <1>10, DocumentStep

LEMMA ReconcileCancels ==
    ASSUME TypeOK, CancelInv, UNCHANGED requests, NEW r \in Runtime, NEW j \in Job, Reconcile(r, j)
    PROVE  CancelInv'
PROOF
<1>1. /\ docs[j] \in Documents /\ cancelFlag \in [Runtime -> SUBSET Job] /\ JobFits(j)
      /\ docs \in [Job -> Documents]
    BY DEF TypeOK, QueueTypeOK, CancelInv
<1> DEFINE d == Reconciled(docs[j])
<1>2. /\ Store(j, d) /\ UNCHANGED <<mode, runs, active, submission>>
      /\ ~Held(docs[j].qr) /\ IsActive(docs[j])
    BY DEF Reconcile, ReconcileAllowed
<1>3. ~IsTerminal(docs[j]) /\ Exists(docs[j])
    BY <1>2 DEF IsActive, IsTerminal, Exists, ActiveStatuses, TerminalStatuses, RunningStatuses
<1>4. /\ d.qr.heartbeatAt \in {"runtime", NoOne} /\ Untouched(d.qr)
      /\ d.status = "queued" \/ IsTerminal(d)
    BY <1>1, UpdaterEffects
<1>5. \A k \in Job, q \in Runtime : k \in cancelFlag'[q] => k \in cancelFlag[q]
    BY <1>1 DEF Reconcile, Push
<1> HIDE DEF d
<1>6. d.status # "cancelling" /\ Exists(d)
    BY <1>4 DEF IsTerminal, TerminalStatuses, Exists
<1>7. \A i \in Executions(j) : RunFits(runs[i], d)
    <2>1. Shielded(j) => Executions(j) = {}
        BY <1>1, <1>2, UnheldIsIdle
    <2>2. \A i \in Executions(j) : runs[i].job = j /\ RunFits(runs[i], docs[j])
        BY <1>1 DEF JobFits, Executions
    <2> QED BY <2>1, <2>2, OnlyShieldedFit
<1>8. submission[j].stage # "none"
    BY <1>1, <1>3 DEF JobFits, Absent, Exists
<1>9. j \notin Cancellable => \A q \in Runtime : j \notin cancelFlag'[q]
    BY <1>1, <1>3, <1>5 DEF JobFits
<1> QED BY <1>2, <1>3, <1>4, <1>5, <1>6, <1>7, <1>8, <1>9, DocumentStep

(* A claim finds no execution of a shielded job, and none here of any other *)
LEMMA ClaimFindsNoExecution ==
    ASSUME TypeOK, ClaimsOnce, NEW r \in Runtime, claiming[r] # NoJob, JobFits(claiming[r]),
           ClaimAllowed(docs[claiming[r]], r), NEW i \in Executions(claiming[r])
    PROVE  ~Shielded(claiming[r]) /\ runs[i].rt # r
PROOF
<1> DEFINE j == claiming[r]
<1>1. runs[i].job = j /\ RunFits(runs[i], docs[j]) /\ j \in active[runs[i].rt] /\ runs[i].rt \in Runtime
    BY RunsAt DEF JobFits, Executions, TypeOK, QueueTypeOK, Runs
<1>2. runs[i].rt # r
    BY <1>1 DEF ClaimsOnce
<1>3. ASSUME j \notin Cancellable PROVE FALSE
    <2>1. Working(docs[j], runs[i].rt) /\ Untouched(docs[j].qr)
        BY <1>1, <1>3 DEF JobFits, RunFits, Shielded
    <2> QED BY <1>2, <2>1 DEF Working, Untouched, ClaimAllowed, IsLeaseValid, OwnedBy
<1> QED BY <1>1, <1>2, <1>3 DEF Shielded

LEMMA NewRunCancels ==
    ASSUME TypeOK, CancelInv, ClaimsOnce, NEW r \in Runtime, NEW j \in Job, j = claiming[r],
           j # NoJob, ClaimAllowed(docs[j], r), Store(j, Claimed(docs[j], r)),
           runs' = Append(runs, NewRun(r, j)), active' = [active EXCEPT ![r] = @ \cup {j}],
           UNCHANGED <<mode, requests, submission, cancelFlag>>
    PROVE  CancelInv'
PROOF
<1> DEFINE d == Claimed(docs[j], r)
<1> DEFINE n == Len(runs) + 1
<1>1. /\ docs \in [Job -> Documents] /\ runs \in Seq(Runs) /\ active \in [Runtime -> SUBSET Job]
      /\ docs[j] \in Documents /\ JobFits(j) /\ docs[j].status = "queued"
      /\ \A i \in DOMAIN runs : runs[i].rt \in Runtime
    BY RunsAt DEF TypeOK, QueueTypeOK, CancelInv, ClaimAllowed, Runs
<1>2. docs'[j] = d /\ \A k \in Job : k # j => docs'[k] = docs[k]
    BY <1>1 DEF Store
<1>3. Exists(docs[j]) /\ ~IsTerminal(docs[j]) /\ docs[j] # Absent
    BY <1>1 DEF Exists, IsTerminal, TerminalStatuses, Absent
<1>4. /\ d.status = "queued" /\ Untouched(d.qr) /\ d.qr.heartbeatAt = "runtime"
      /\ Working(d, r)
    BY <1>1, <1>3, UpdaterEffects
<1> HIDE DEF d
<1>5. Len(runs) \in Nat /\ DOMAIN runs = 1..Len(runs)
    BY <1>1, LenProperties
<1>6. /\ DOMAIN runs' = DOMAIN runs \cup {n} /\ n \notin DOMAIN runs
      /\ \A i \in DOMAIN runs : runs'[i] = runs[i]
      /\ runs'[n] = NewRun(r, j)
    BY <1>1, <1>5
<1> HIDE DEF n
<1>7. /\ NewRun(r, j).job = j /\ NewRun(r, j).rt = r /\ ~Ended(NewRun(r, j))
    BY DEF NewRun, Ended
<1>8. RunFits(NewRun(r, j), d)
    BY <1>4 DEF NewRun, RunFits, RunInStep, CancelStatuses, Absent
<1>9. Executions(j)' = Executions(j) \cup {n} /\ \A k \in Job : k # j => Executions(k)' = Executions(k)
    BY <1>6, <1>7 DEF Executions
<1>10. \A k \in Job : \A i \in Executions(k) :
           runs'[i] = runs[i] /\ runs[i].rt \in Runtime /\ i # n /\ runs[i].job = k
    BY <1>1, <1>6 DEF Executions
<1>11. \A i \in Executions(j) : ~Shielded(j) /\ runs[i].rt # r
    BY <1>1, ClaimFindsNoExecution
<1> HIDE DEF Executions
<1>12. /\ \A q \in Runtime : active[q] \subseteq active'[q] /\ (q # r => active'[q] = active[q])
       /\ \A q \in Runtime : \A k \in Job : k # j /\ k \in active'[q] => k \in active[q]
       /\ j \in active'[r]
    BY <1>1
<1>13. \A k \in Job : k # j => Rests(k)
    BY <1>2, <1>9, <1>10, <1>12 DEF Rests, SameRun
<1>14. Advances(j)
    BY <1>2, <1>3, <1>4, <1>9, <1>10 DEF Advances, Exists
<1>15. \A i \in Executions(j) \cup {n} : RunFits(runs'[i], d) /\ j \in active'[runs'[i].rt]
    <2>1. ASSUME NEW i \in Executions(j)
          PROVE  RunFits(runs'[i], d) /\ j \in active'[runs'[i].rt]
        <3>1. RunFits(runs[i], docs[j]) /\ j \in active[runs[i].rt]
            BY <1>1 DEF JobFits
        <3>2. runs'[i] = runs[i] /\ runs[i].rt \in Runtime /\ runs[i].job = j
            BY <1>10
        <3>3. RunFits(runs[i], d)
            BY <1>11, <3>1, <3>2, OnlyShieldedFit
        <3> QED BY <1>12, <3>1, <3>2, <3>3
    <2>2. runs'[n].rt = r /\ RunFits(runs'[n], d)
        BY <1>6, <1>7, <1>8
    <2> QED BY <1>12, <2>1, <2>2
<1>16. \A i, k \in Executions(j) \cup {n} : Shielded(j) \/ runs'[i].rt = runs'[k].rt => i = k
    <2>1. \A i \in Executions(j) : runs'[i].rt = runs[i].rt
        BY <1>10
    <2>2. \A i, k \in Executions(j) : Shielded(j) \/ runs[i].rt = runs[k].rt => i = k
        BY <1>1 DEF JobFits
    <2>3. runs'[n].rt = r
        BY <1>6, <1>7
    <2> SUFFICES ASSUME NEW i \in Executions(j) \cup {n}, NEW k \in Executions(j) \cup {n},
                        Shielded(j) \/ runs'[i].rt = runs'[k].rt
                 PROVE  i = k
        OBVIOUS
    <2>4. CASE i \in Executions(j) /\ k \in Executions(j)
        BY <2>1, <2>2, <2>4
    <2> QED BY <1>11, <2>1, <2>3, <2>4
<1>17. submission'[j].stage = "none" => docs'[j] = Absent
    BY <1>1, <1>3 DEF JobFits
<1>18. j \notin Cancellable => /\ d.status # "cancelling" /\ Untouched(d.qr)
                               /\ \A q \in Runtime : j \in cancelFlag'[q] => IsTerminal(d)
    BY <1>1, <1>3, <1>4 DEF JobFits
<1>19. \A q \in Runtime : j \in active'[q] => \E i \in Executions(j) \cup {n} : runs'[i].rt = q
    <2>1. \A i \in Executions(j) : runs'[i].rt = runs[i].rt
        BY <1>10
    <2>2. \A q \in Runtime : j \in active[q] => \E i \in Executions(j) : runs'[i].rt = q
        <3>1. \A q \in Runtime : j \in active[q] => \E i \in Executions(j) : runs[i].rt = q
            BY <1>1 DEF JobFits
        <3> QED BY <2>1, <3>1
    <2>3. runs'[n].rt = r
        BY <1>6, <1>7
    <2> QED BY <1>12, <2>2, <2>3
<1>20. JobFits(j)'
    BY <1>2, <1>9, <1>15, <1>16, <1>17, <1>18, <1>19 DEF JobFits
<1> QED BY <1>13, <1>14, <1>20, JobStep

LEMMA DrainCancels ==
    ASSUME TypeOK, CancelInv, ClaimsOnce, UNCHANGED <<requests, faults>>, NEW r \in Runtime,
           DrainShift(r) \/ DrainClaim(r) \/ DrainFault(r)
    PROVE  CancelInv'
PROOF
<1>1. ~DrainFault(r)
    BY LimitAssumption DEF DrainFault, Fault, TypeOK, QueueTypeOK
<1>2. UNCHANGED <<mode, submission, cancelFlag>>
    BY <1>1 DEF DrainShift, DrainClaim
<1>3. CASE UNCHANGED <<docs, runs, active>>
    <2>1. \A q \in Runtime : mode'[q] # "stopping"
        BY <1>2 DEF CancelInv
    <2> QED BY <1>2, <1>3, <2>1, IdleStep
<1>4. ASSUME claiming[r] # NoJob, ClaimAllowed(docs[claiming[r]], r),
             Store(claiming[r], Claimed(docs[claiming[r]], r)),
             runs' = Append(runs, NewRun(r, claiming[r])),
             active' = [active EXCEPT ![r] = @ \cup {claiming[r]}]
      PROVE  CancelInv'
    <2>1. claiming[r] \in Job
        BY <1>4 DEF TypeOK, QueueTypeOK
    <2> QED BY <1>2, <1>4, <2>1, NewRunCancels
<1> QED BY <1>1, <1>3, <1>4 DEF DrainShift, DrainClaim

(* Steps in which executions end or leases do *)

LEMMA SameRunFits ==
    ASSUME NEW a, NEW b, SameRun(a, b), NEW d, RunFits(b, d)
    PROVE  RunFits(a, d)
PROOF
BY DEF SameRun, RunFits, RunInStep

LEMMA FinalizeCancels ==
    ASSUME Provider = "sqlite", TypeOK, CancelInv, UNCHANGED <<requests, faults>>,
           NEW i \in DOMAIN runs, Finalize(i), NEW j \in Job, j = runs[i].job
    PROVE  CancelInv'
PROOF
<1> DEFINE r == runs[i].rt
<1> DEFINE d == IF FinalizeAllowed(docs[j], r) THEN Finalized(docs[j]) ELSE docs[j]
<1> DEFINE done == [runs[i] EXCEPT !.stage = "done"]
<1>1. /\ docs \in [Job -> Documents] /\ runs \in Seq(Runs) /\ active \in [Runtime -> SUBSET Job]
      /\ \A k \in DOMAIN runs : runs[k] \in Runs /\ runs[k].job \in Job /\ runs[k].rt \in Runtime
    BY RunsAt DEF TypeOK, QueueTypeOK, Runs
<1>2. docs[j] \in Documents /\ JobFits(j) /\ r \in Runtime
    BY <1>1 DEF CancelInv
<1>3. /\ active' = [active EXCEPT ![r] = @ \ {j}] /\ UNCHANGED <<mode, submission, cancelFlag>>
      /\ i \in Executions(j)
    BY DEF Finalize, Ended, Executions
<1>4. /\ Store(j, d)
      /\ runs' = [runs EXCEPT ![i] = done] \/ runs' = [Lapse(r, j) EXCEPT ![i] = done]
    <2>1. ~Fault
        BY LimitAssumption DEF Fault, TypeOK, QueueTypeOK
    <2>2. UNCHANGED docs => Store(j, docs[j])
        BY <1>1 DEF Store
    <2> QED BY <2>1, <2>2 DEF Finalize
<1>5. /\ DOMAIN runs' = DOMAIN runs /\ Ended(runs'[i])
      /\ \A k \in DOMAIN runs : k # i => SameRun(runs'[k], runs[k])
    <2>1. Ended(done)
        BY <1>1 DEF Runs, Ended
    <2>2. /\ DOMAIN Lapse(r, j) = DOMAIN runs
          /\ \A k \in DOMAIN runs : SameRun(Lapse(r, j)[k], runs[k])
        <3>1. \A run \in Runs : SameRun([run EXCEPT !.lapsed = TRUE], run)
            BY DEF SameRun, Runs
        <3> QED BY <1>1, <3>1 DEF Lapse, SameRun
    <2>3. \A k \in DOMAIN runs : SameRun(runs[k], runs[k])
        BY DEF SameRun
    <2> HIDE DEF done, r, d
    <2> QED BY <1>4, <2>1, <2>2, <2>3
<1>6. /\ Executions(j)' = Executions(j) \ {i}
      /\ \A k \in Job : k # j => Executions(k)' = Executions(k)
      /\ \A k \in Job : \A m \in Executions(k) : m # i => SameRun(runs'[m], runs[m])
    BY <1>5 DEF Executions, SameRun, Ended
<1>7. \A k \in Job : \A m \in Executions(k) : runs[m].job = k /\ runs[m].rt \in Runtime /\ (k # j => m # i)
    BY <1>1 DEF Executions
<1>8. docs'[j] = d /\ \A k \in Job : k # j => docs'[k] = docs[k]
    BY <1>1, <1>2, <1>4 DEF Store
<1>9. /\ Exists(docs[j]) => Exists(d)
      /\ d.qr.heartbeatAt \in {docs[j].qr.heartbeatAt, "runtime"}
      /\ docs[j] = Absent => d = Absent
    <2>1. docs[j] = Absent => ~FinalizeAllowed(docs[j], r)
        BY DEF FinalizeAllowed, Exists, Absent
    <2>2. IsTerminal(Finalized(docs[j])) => Exists(Finalized(docs[j]))
        BY DEF IsTerminal, TerminalStatuses, Exists
    <2> QED BY <1>2, <2>1, <2>2, UpdaterEffects
<1>10. Shielded(j) => IsTerminal(d) /\ Executions(j)' = {}
    <2>1. Shielded(j) => Working(docs[j], r) /\ Executions(j) = {i}
        BY <1>2, <1>3 DEF JobFits, RunFits
    <2>2. Working(docs[j], r) => FinalizeAllowed(docs[j], r) /\ Exists(docs[j])
        BY DEF Working, FinalizeAllowed, OwnedBy
    <2> QED BY <1>2, <1>6, <2>1, <2>2, UpdaterEffects
<1>11. j \notin Cancellable => d.status # "cancelling" /\ Untouched(d.qr)
    <2>1. j \notin Cancellable => docs[j].status # "cancelling" /\ Untouched(docs[j].qr)
        BY <1>2 DEF JobFits
    <2> QED BY <1>2, <2>1, UpdaterEffects
<1> HIDE DEF d, Executions, r, done
<1>12. /\ \A q \in Runtime : q # r => active'[q] = active[q]
       /\ \A q \in Runtime : \A k \in active[q] : k # j => k \in active'[q]
       /\ \A q \in Runtime : \A k \in active'[q] : k \in active[q]
       /\ j \notin active'[r]
    BY <1>1, <1>2, <1>3
<1>13. \A k \in Job : k # j => Rests(k)
    BY <1>3, <1>6, <1>7, <1>8, <1>12 DEF Rests, SameRun
<1>14. Advances(j)
    BY <1>8, <1>9, <1>10 DEF Advances
<1>15. ASSUME NEW m \in Executions(j)'
       PROVE  RunFits(runs'[m], d) /\ j \in active'[runs'[m].rt]
    <2>1. ~Shielded(j) /\ m \in Executions(j) /\ m # i
        BY <1>6, <1>10, <1>15
    <2>2. RunFits(runs[m], docs[j]) /\ j \in active[runs[m].rt] /\ runs[m].rt # r
        BY <1>2, <1>3, <2>1 DEF JobFits, r
    <2>3. SameRun(runs'[m], runs[m]) /\ runs[m].job = j /\ runs[m].rt \in Runtime
        BY <1>2, <1>6, <1>7, <2>1
    <2>4. RunFits(runs[m], d)
        BY <2>1, <2>2, <2>3, OnlyShieldedFit
    <2>5. runs'[m].rt = runs[m].rt
        BY <2>3 DEF SameRun
    <2> QED BY <1>12, <2>2, <2>3, <2>4, <2>5, SameRunFits
<1>16. \A m, k \in Executions(j)' : Shielded(j) \/ runs'[m].rt = runs'[k].rt => m = k
    <2>1. \A m \in Executions(j)' : m \in Executions(j) /\ runs'[m].rt = runs[m].rt
        BY <1>2, <1>6 DEF SameRun
    <2> QED BY <1>2, <2>1 DEF JobFits
<1>17. \A q \in Runtime : j \in active'[q] => \E m \in Executions(j)' : runs'[m].rt = q
    <2> SUFFICES ASSUME NEW q \in Runtime, j \in active'[q] PROVE \E m \in Executions(j)' : runs'[m].rt = q
        OBVIOUS
    <2>1. q # r /\ j \in active[q]
        BY <1>12
    <2>2. PICK m \in Executions(j) : runs[m].rt = q
        BY <1>2, <2>1 DEF JobFits
    <2>3. m # i
        BY <2>1, <2>2 DEF r
    <2>4. SameRun(runs'[m], runs[m])
        BY <1>6, <2>3
    <2> QED BY <1>6, <2>2, <2>3, <2>4 DEF SameRun
<1>18. JobFits(j)'
    <2>1. submission'[j].stage = "none" => docs'[j] = Absent
        BY <1>2, <1>3, <1>8, <1>9 DEF JobFits
    <2>2. j \notin Cancellable => Shielded(j)
        BY DEF Shielded
    <2> QED BY <1>8, <1>10, <1>11, <1>15, <1>16, <1>17, <2>1, <2>2 DEF JobFits
<1> QED BY <1>2, <1>3, <1>13, <1>14, <1>18, JobStep

(* A lease under which an execution beats does not run out *)
LEMMA LeaseExpiresCancels ==
    ASSUME TimelyHeartbeats, TypeOK, CancelInv, UNCHANGED requests, NEW j \in Job, LeaseExpires(j)
    PROVE  CancelInv'
PROOF
<1> DEFINE r == docs[j].qr.owner
<1> DEFINE d == [docs[j] EXCEPT !.qr.lease = "expired"]
<1>1. /\ docs \in [Job -> Documents] /\ runs \in Seq(Runs) /\ docs[j] \in Documents /\ JobFits(j)
      /\ \A k \in DOMAIN runs : runs[k] \in Runs
    BY RunsAt DEF TypeOK, QueueTypeOK, CancelInv
<1>2. /\ Store(j, d) /\ runs' = Lapse(r, j) /\ UNCHANGED <<mode, active, submission, cancelFlag>>
      /\ \A i \in RunsOf(r, j) : ~runs[i].beats /\ runs[i].stage # "finalizing"
      /\ IsLeaseValid(docs[j].qr)
    BY DEF LeaseExpires, localVars
<1>3. /\ d.status = docs[j].status /\ d.qr.heartbeatAt = docs[j].qr.heartbeatAt
      /\ Untouched(docs[j].qr) => Untouched(d.qr)
    BY <1>1 DEF Documents, QueueRuntimes, Untouched
<1> HIDE DEF d
<1>4. docs'[j] = d /\ \A k \in Job : k # j => docs'[k] = docs[k]
    BY <1>1, <1>2 DEF Store
<1>5. DOMAIN runs' = DOMAIN runs /\ \A k \in DOMAIN runs : SameRun(runs'[k], runs[k])
    <2>1. \A run \in Runs : SameRun([run EXCEPT !.lapsed = TRUE], run) /\ SameRun(run, run)
        BY DEF SameRun, Runs
    <2> QED BY <1>1, <1>2, <2>1 DEF Lapse
<1>6. \A k \in Job : /\ Executions(k)' = Executions(k)
                     /\ \A m \in Executions(k) : SameRun(runs'[m], runs[m]) /\ runs[m].job = k
    BY <1>5 DEF Executions, SameRun, Ended
<1>7. ASSUME NEW m \in Executions(j), Shielded(j)
      PROVE  FALSE
    <2>1. RunFits(runs[m], docs[j]) /\ runs[m].job = j
        BY <1>1, <1>7 DEF JobFits, Executions
    <2>2. runs[m].rt = r /\ (runs[m].beats \/ runs[m].stage = "finalizing")
        BY <1>7, <2>1 DEF RunFits, Working
    <2>3. m \in RunsOf(r, j)
        BY <1>7, <2>1, <2>2 DEF Executions, RunsOf
    <2> QED BY <1>2, <2>2, <2>3
<1> HIDE DEF Executions, r
<1>8. \A k \in Job : k # j => Rests(k)
    BY <1>2, <1>4, <1>6 DEF Rests, SameRun
<1>9. Advances(j)
    BY <1>3, <1>4, <1>6 DEF Advances, Exists, IsTerminal, SameRun
<1>10. ASSUME NEW m \in Executions(j)
       PROVE  RunFits(runs'[m], d) /\ j \in active'[runs'[m].rt]
    <2>1. RunFits(runs[m], docs[j]) /\ j \in active[runs[m].rt] /\ runs[m].job = j
        BY <1>1, <1>6 DEF JobFits
    <2>2. RunFits(runs[m], d)
        BY <1>7, <2>1, OnlyShieldedFit
    <2>3. SameRun(runs'[m], runs[m])
        BY <1>6
    <2>4. runs'[m].rt = runs[m].rt
        BY <2>3 DEF SameRun
    <2> QED BY <1>2, <2>1, <2>2, <2>3, <2>4, SameRunFits
<1>11. \A m, k \in Executions(j) : Shielded(j) \/ runs'[m].rt = runs'[k].rt => m = k
    <2>1. \A m \in Executions(j) : runs'[m].rt = runs[m].rt
        BY <1>6 DEF SameRun
    <2> QED BY <1>1, <2>1 DEF JobFits
<1>12. submission'[j].stage = "none" => docs'[j] = Absent
    <2>1. docs[j] # Absent
        BY <1>2, FreshIsOrderly DEF IsLeaseValid
    <2> QED BY <1>1, <1>2, <2>1 DEF JobFits
<1>13. j \notin Cancellable => /\ d.status # "cancelling" /\ Untouched(d.qr)
                               /\ \A q \in Runtime : j \in cancelFlag'[q] => IsTerminal(d)
    BY <1>1, <1>2, <1>3 DEF JobFits, IsTerminal
<1>14. \A q \in Runtime : j \in active'[q] => \E m \in Executions(j) : runs'[m].rt = q
    BY <1>1, <1>2, <1>6 DEF JobFits, SameRun
<1>15. JobFits(j)'
    BY <1>4, <1>6, <1>10, <1>11, <1>12, <1>13, <1>14 DEF JobFits
<1> QED BY <1>2, <1>8, <1>9, <1>15, JobStep

LEMMA ExitCancels ==
    ASSUME TypeOK, CancelInv, NEW r \in Runtime, Exit(r), ForgetRequests(r)
    PROVE  CancelInv'
PROOF
<1>1. /\ active \in [Runtime -> SUBSET Job] /\ cancelFlag \in [Runtime -> SUBSET Job]
      /\ submission \in [Job -> Submissions] /\ requests \in [Request -> Requests]
      /\ mode \in [Runtime -> {"off", "up", "stopping", "dead"}]
      /\ \A k \in DOMAIN runs : runs[k] \in Runs /\ runs[k].rt \in Runtime
    BY RunsAt DEF TypeOK, QueueTypeOK, CancelTypeOK, Runs
<1>2. /\ UNCHANGED docs /\ DOMAIN runs' = DOMAIN runs
      /\ \A k \in DOMAIN runs : IF runs[k].rt = r /\ ~Ended(runs[k]) THEN Ended(runs'[k])
                                 ELSE runs'[k] = runs[k]
      /\ \A q \in Runtime : IF q = r THEN active'[q] = {} ELSE active'[q] = active[q]
      /\ \A q \in Runtime : cancelFlag'[q] \subseteq cancelFlag[q]
      /\ \A q \in Runtime : mode'[q] # "stopping"
    <2>1. \A k \in DOMAIN runs : Ended([runs[k] EXCEPT !.stage = "dead", !.beats = FALSE,
                                                        !.base = Absent, !.want = Absent])
        BY <1>1 DEF Ended, Runs
    <2> QED BY <1>1, <2>1 DEF Exit, CancelInv
<1>3. \A k \in Job : submission'[k].stage = "none" => submission[k].stage = "none"
    <2>1. \A k \in Job : [submission[k] EXCEPT !.stage = "dead"].stage = "dead"
        BY <1>1 DEF Submissions
    <2> QED BY <2>1 DEF Exit
<1>4. \A k \in Job : /\ Executions(k)' = {i \in Executions(k) : runs[i].rt # r}
                     /\ \A i \in Executions(k)' : runs'[i] = runs[i] /\ runs[i].rt \in Runtime
    BY <1>1, <1>2 DEF Executions
<1> HIDE DEF Executions
<1>5. ASSUME NEW k \in Job
      PROVE  JobFits(k)'
    <2>1. JobFits(k)
        BY DEF CancelInv
    <2>2. \A i \in Executions(k)' : RunFits(runs'[i], docs'[k]) /\ k \in active'[runs'[i].rt]
        BY <1>2, <1>4, <2>1 DEF JobFits
    <2>3. \A i, m \in Executions(k)' : Shielded(k) \/ runs'[i].rt = runs'[m].rt => i = m
        BY <1>4, <2>1 DEF JobFits
    <2>4. k \notin Cancellable => /\ docs'[k].status # "cancelling" /\ Untouched(docs'[k].qr)
                                  /\ \A q \in Runtime : k \in cancelFlag'[q] => IsTerminal(docs'[k])
        BY <1>2, <2>1 DEF JobFits
    <2>5. submission'[k].stage = "none" => docs'[k] = Absent
        BY <1>2, <1>3, <2>1 DEF JobFits
    <2>6. \A q \in Runtime : k \in active'[q] => \E i \in Executions(k)' : runs'[i].rt = q
        BY <1>2, <1>4, <2>1 DEF JobFits
    <2> QED BY <2>2, <2>3, <2>4, <2>5, <2>6 DEF JobFits
<1>6. \A c \in Request :
          requests'[c].stage # "dead" => requests'[c] = requests[c] /\ requests[c].rt # r
    BY DEF ForgetRequests, Idle
<1>7. ASSUME NEW c \in Request
      PROVE  RequestFits(c)'
    <2>1. RequestFits(c) /\ (requests[c].stage \in {"read", "saving"} => requests[c].job \in Job)
        BY DEF CancelInv, TypeOK, CancelTypeOK
    <2>2. StampIsNew(c)'
        BY <1>2, <1>6, <2>1 DEF RequestFits, StampIsNew
    <2>3. requests'[c].stage = "read" => ReadFits(c, requests[c])'
        BY <1>2, <1>4, <1>6, <2>1 DEF RequestFits, ReadFits
    <2>4. requests'[c].stage = "saving" => SaveFits(requests[c])'
        BY <1>2, <1>6, <2>1 DEF RequestFits, SaveFits
    <2> QED BY <2>2, <2>3, <2>4 DEF RequestFits
<1> QED BY <1>2, <1>5, <1>7 DEF CancelInv

-----------------------------------------------------------------------------
(* The steps of an execution: under SQLite they leave the queueRuntime alone *)

LEMMA ExecutionCancels ==
    ASSUME TypeOK, CancelInv, UNCHANGED <<active, mode, submission, requests, cancelFlag>>,
           NEW i \in DOMAIN runs, ~Ended(runs[i]), NEW j \in Job, j = runs[i].job,
           NEW new, runs' = [runs EXCEPT ![i] = new], ~Ended(new), new.rt = runs[i].rt, new.job = j,
           NEW d, Store(j, d), d.qr = docs[j].qr, d = docs[j] \/ (Exists(docs[j]) /\ Exists(d)),
           RunFits(new, d), Shielded(j) /\ d.status # docs[j].status => d.status # "cancelling",
           Shielded(j) /\ IsTerminal(docs[j]) => IsTerminal(d)
    PROVE  CancelInv'
PROOF
<1>1. docs'[j] = d /\ (\A k \in Job : k # j => docs'[k] = docs[k]) /\ JobFits(j)
    BY DEF Store, TypeOK, QueueTypeOK, CancelInv
<1>2. /\ DOMAIN runs' = DOMAIN runs /\ runs'[i] = new
      /\ \A k \in DOMAIN runs : k # i => runs'[k] = runs[k]
    OBVIOUS
<1>3. /\ \A k \in Job : Executions(k)' = Executions(k)
      /\ i \in Executions(j)
      /\ \A k \in Job : \A m \in Executions(k) : runs[m].job = k /\ runs'[m].rt = runs[m].rt
      /\ \A k \in Job : \A m \in Executions(k) : k # j \/ m # i => runs'[m] = runs[m]
    BY <1>2 DEF Executions
<1> HIDE DEF Executions
<1>4. \A k \in Job : k # j => Rests(k)
    BY <1>1, <1>3 DEF Rests, SameRun
<1>5. Exists(docs[j]) => Exists(d)
    OBVIOUS
<1>6. Advances(j)
    BY <1>1, <1>3, <1>5 DEF Advances
<1>7. ASSUME NEW m \in Executions(j)
      PROVE  RunFits(runs'[m], d) /\ j \in active'[runs'[m].rt]
    <2>1. RunFits(runs[m], docs[j]) /\ j \in active'[runs'[m].rt]
        BY <1>1, <1>3 DEF JobFits
    <2>2. CASE m = i
        BY <1>2, <2>1, <2>2
    <2>3. CASE m # i
        <3>1. runs'[m] = runs[m] /\ runs[m].job = j
            BY <1>3, <2>3
        <3>2. ~Shielded(j)
            BY <1>1, <1>3, <2>3 DEF JobFits
        <3> QED BY <2>1, <3>1, <3>2, OnlyShieldedFit
    <2> QED BY <2>2, <2>3
<1>8. \A m, k \in Executions(j) : Shielded(j) \/ runs'[m].rt = runs'[k].rt => m = k
    BY <1>1, <1>3 DEF JobFits
<1>9. submission'[j].stage = "none" => docs'[j] = Absent
    BY <1>1 DEF JobFits, Exists, Absent
<1>10. j \notin Cancellable => /\ d.status # "cancelling" /\ Untouched(d.qr)
                               /\ \A q \in Runtime : j \in cancelFlag'[q] => IsTerminal(d)
    <2>1. j \notin Cancellable => Shielded(j)
        BY DEF Shielded
    <2> QED BY <1>1, <2>1 DEF JobFits
<1>11. JobFits(j)'
    BY <1>1, <1>3, <1>7, <1>8, <1>9, <1>10 DEF JobFits
<1> QED BY <1>4, <1>6, <1>11, JobStep

(* The same for the two ways an execution moves on *)
LEMMA AdvanceCancels ==
    ASSUME TypeOK, CancelInv, UNCHANGED <<active, mode, submission, requests, cancelFlag>>,
           NEW i \in DOMAIN runs, ~Ended(runs[i]), runs[i].stage # "finalizing",
           NEW j \in Job, j = runs[i].job, NEW stage, stage \notin {"done", "dead"},
           NEW base, NEW want, Advance(i, stage, base, want), want.qr = base.qr, Exists(want),
           NEW d, Store(j, d), d.qr = docs[j].qr, d = docs[j] \/ (Exists(docs[j]) /\ Exists(d)),
           Shielded(j) => RunInStep([stage |-> stage, base |-> base, want |-> want], d),
           j \notin Cancellable => {d.status, want.status} \cap CancelStatuses = {},
           Shielded(j) /\ d.status # docs[j].status => d.status # "cancelling",
           Shielded(j) /\ IsTerminal(docs[j]) => IsTerminal(d)
    PROVE  CancelInv'
PROOF
<1> DEFINE new == [runs[i] EXCEPT !.stage = stage, !.base = base, !.want = want]
<1>1. /\ new.job = j /\ new.rt = runs[i].rt /\ new.beats = runs[i].beats
      /\ new.stage = stage /\ new.base = base /\ new.want = want
    BY RunsAt DEF TypeOK, QueueTypeOK, Runs
<1>2. runs' = [runs EXCEPT ![i] = new]
    BY DEF Advance
<1> HIDE DEF new
<1>3. RunFits(runs[i], docs[j])
    BY DEF CancelInv, JobFits, Executions
<1>4. new.beats
    BY <1>1, <1>3 DEF RunFits
<1>5. RunInStep([stage |-> stage, base |-> base, want |-> want], d) => RunInStep(new, d)
    BY <1>1 DEF RunInStep
<1>6. Working(docs[j], runs[i].rt) => Working(d, runs[i].rt)
    BY DEF Working
<1>7. RunFits(new, d)
    BY <1>1, <1>3, <1>4, <1>5, <1>6 DEF RunFits
<1>8. ~Ended(new)
    BY <1>1 DEF Ended
<1> QED BY <1>1, <1>2, <1>7, <1>8, ExecutionCancels

LEMMA StopCancels ==
    ASSUME TypeOK, CancelInv, UNCHANGED <<active, mode, submission, requests, cancelFlag>>,
           NEW i \in DOMAIN runs, ~Ended(runs[i]), NEW j \in Job, j = runs[i].job, Stop(i),
           NEW d, Store(j, d), d.qr = docs[j].qr, d = docs[j] \/ (Exists(docs[j]) /\ Exists(d)),
           j \notin Cancellable => d.status \notin CancelStatuses,
           Shielded(j) /\ d.status # docs[j].status => d.status # "cancelling",
           Shielded(j) /\ IsTerminal(docs[j]) => IsTerminal(d)
    PROVE  CancelInv'
PROOF
<1> DEFINE new == [runs[i] EXCEPT !.stage = "finalizing", !.beats = FALSE,
                                  !.base = Absent, !.want = Absent]
<1>1. /\ new.job = j /\ new.rt = runs[i].rt /\ new.stage = "finalizing"
      /\ new.base = Absent /\ new.want = Absent
    BY RunsAt DEF TypeOK, QueueTypeOK, Runs
<1>2. runs' = [runs EXCEPT ![i] = new]
    BY DEF Stop
<1> HIDE DEF new
<1>3. RunFits(runs[i], docs[j])
    BY DEF CancelInv, JobFits, Executions
<1>4. Working(docs[j], runs[i].rt) => Working(d, runs[i].rt)
    BY DEF Working
<1>5. Absent.status \notin CancelStatuses
    BY DEF Absent, CancelStatuses
<1>6. RunFits(new, d)
    BY <1>1, <1>3, <1>4, <1>5 DEF RunFits, RunInStep
<1>7. ~Ended(new)
    BY <1>1 DEF Ended
<1> QED BY <1>1, <1>2, <1>6, <1>7, ExecutionCancels

(* What job.save() of an execution leaves: the status it wants, if it wants another *)
LEMMA ExecutionSaves ==
    ASSUME Provider = "sqlite", TypeOK, NEW i \in DOMAIN runs, NEW aged \in BOOLEAN,
           runs[i].want.qr = runs[i].base.qr, Exists(runs[i].want),
           NEW d \in Saves(runs[i], aged)
    PROVE  /\ Saved(runs[i], d) = d /\ Exists(docs[runs[i].job]) /\ Exists(d)
           /\ d.qr = docs[runs[i].job].qr /\ d.status \in {docs[runs[i].job].status, runs[i].want.status}
           /\ runs[i].want.status # runs[i].base.status => d.status = runs[i].want.status
PROOF
<1> DEFINE run == runs[i]
<1> DEFINE cur == docs[runs[i].job]
<1>1. ~SaveConflicts(cur, run.base, run.want) /\ d \in SaveResults(cur, run.base, run.want, aged)
    BY DEF Saves
<1>2. Exists(cur) /\ Saved(run, d) = d
    BY <1>1 DEF SaveConflicts, Saved
<1>3. d.qr = cur.qr /\ d.status \in {cur.status, run.want.status}
    BY <1>1, SaveKeepsQueueRuntime
<1>4. run.want.status # run.base.status => d.status = run.want.status
    BY <1>1 DEF SaveResults, Written, Changed, Fields
<1> QED BY <1>2, <1>3, <1>4 DEF Exists

LEMMA RunCancels ==
    ASSUME Provider = "sqlite", TypeOK, CancelInv, UNCHANGED faults, RunStep
    PROVE  CancelInv'
PROOF
<1>1. PICK i \in DOMAIN runs : SkillStep(i)
    BY DEF RunStep
<1> DEFINE run == runs[i]
<1>2. PICK j \in Job : j = run.job
    BY RunsAt DEF TypeOK, QueueTypeOK, Runs
<1> DEFINE cur == docs[j]
<1>3. /\ cur \in Documents /\ run.base \in Documents /\ run.want \in Documents
      /\ docs \in [Job -> Documents] /\ run.rt \in Runtime
    BY RunsAt, <1>2 DEF TypeOK, QueueTypeOK, Runs
<1>4. UNCHANGED <<active, mode, submission, requests, cancelFlag>>
    BY <1>1 DEF RunStep, SkillStep, RunnerStep, ChildExits, RunLoad, RunBegin, RunExit, RunExitInvalid,
                RunPersist, RunPublish, RunFail, UntouchedBySkill, localVars
<1>5. ~Ended(run) /\ run.stage # "finalizing"
    BY <1>1 DEF SkillStep, RunnerStep, ChildExits, RunLoad, RunBegin, RunExit, RunExitInvalid,
                RunPersist, RunPublish, RunFail, At, Ended
<1>6. RunFits(run, cur) /\ JobFits(j)
    BY <1>2, <1>5 DEF CancelInv, JobFits, Executions
<1>7. UNCHANGED docs => Store(j, cur)
    BY <1>3 DEF Store
<1>8. \A c \in Documents : \A s : [c EXCEPT !.status = s].qr = c.qr /\ [c EXCEPT !.status = s].status = s
    BY DEF Documents
<1>9. /\ "failed" \in TerminalStatuses /\ "generating" \notin TerminalStatuses
      /\ "absent" \notin TerminalStatuses /\ "cancelling" \notin TerminalStatuses
      /\ "failed" \notin CancelStatuses /\ "generating" \notin CancelStatuses
      /\ CancelStatuses \subseteq TerminalStatuses
    BY DEF TerminalStatuses, CancelStatuses
<1>10. (j \notin Cancellable => Shielded(j)) /\ ~Fault
    BY LimitAssumption DEF Shielded, Fault, TypeOK, QueueTypeOK
<1>11. j \notin Cancellable => {cur.status, run.want.status} \cap CancelStatuses = {}
    BY <1>2, <1>6 DEF RunFits
<1>12. run.want.qr = run.base.qr /\ (Shielded(j) => RunInStep(run, cur))
    BY <1>2, <1>6 DEF RunFits
<1>13. ASSUME NEW aged \in BOOLEAN, NEW d \in Saves(run, aged), Exists(run.want)
       PROVE  /\ Saved(run, d) = d /\ Exists(cur) /\ Exists(d)
              /\ d.qr = cur.qr /\ d.status \in {cur.status, run.want.status}
              /\ run.want.status # run.base.status => d.status = run.want.status
    BY <1>2, <1>12, <1>13, ExecutionSaves
<1> USE <1>2, <1>3, <1>4, <1>5
(* Nothing is stored *)
<1>14. ASSUME NEW stage, stage \notin {"done", "dead"}, NEW base, NEW want, UNCHANGED docs,
              Advance(i, stage, base, want), want.qr = base.qr, Exists(want),
              Shielded(j) => RunInStep([stage |-> stage, base |-> base, want |-> want], cur),
              j \notin Cancellable => want.status \notin CancelStatuses
       PROVE  CancelInv'
    BY <1>7, <1>11, <1>14, AdvanceCancels
<1>15. ASSUME Stop(i), UNCHANGED docs
       PROVE  CancelInv'
    BY <1>7, <1>11, <1>15, StopCancels
<1> HIDE DEF run, cur
<1>16. CASE RunLoad(i)
    <2>1. run.stage = "starting" /\ UNCHANGED docs
        BY <1>16 DEF RunLoad, At, run
    <2>2. CASE Advance(i, "loaded", cur, [cur EXCEPT !.status = "generating"])
        <3> DEFINE want == [cur EXCEPT !.status = "generating"]
        <3>1. want.qr = cur.qr /\ want.status = "generating"
            BY <1>8
        <3> HIDE DEF want
        <3>2. Shielded(j) => RunInStep([stage |-> "loaded", base |-> cur, want |-> want], cur)
            BY <1>12, <2>1, <3>1 DEF RunInStep
        <3> QED BY <1>9, <1>14, <2>1, <2>2, <3>1, <3>2 DEF Exists, want
    <2> QED BY <1>15, <1>16, <2>1, <2>2 DEF RunLoad, cur, run
<1>17. CASE RunBegin(i)
    <2>1. /\ run.stage = "loaded" /\ Exists(run.want)
          /\ Shielded(j) => /\ cur.status \in {"queued", "cancelling"}
                            /\ run.base.status \in {"queued", "cancelling"} /\ run.want.status = "generating"
        BY <1>6, <1>12, <1>17 DEF RunBegin, At, run, RunFits, RunInStep
    <2>2. CASE SaveThrows(run) /\ Stop(i)
        BY <1>15, <2>2 DEF SaveThrows
    <2>3. ASSUME NEW d \in Saves(run, FALSE), Store(j, d), Advance(i, "working", Saved(run, d), Saved(run, d))
          PROVE  CancelInv'
        <3>1. /\ Saved(run, d) = d /\ Exists(cur) /\ Exists(d) /\ d.qr = cur.qr
              /\ d.status \in {cur.status, run.want.status}
              /\ Shielded(j) => d.status = "generating"
            BY <1>13, <2>1
        <3>2. Shielded(j) => RunInStep([stage |-> "working", base |-> d, want |-> d], d)
            BY <3>1 DEF RunInStep
        <3>3. Shielded(j) => ~IsTerminal(cur)
            BY <2>1 DEF IsTerminal, TerminalStatuses
        <3>4. j \notin Cancellable => {d.status, d.status} \cap CancelStatuses = {}
            BY <1>11, <3>1
        <3> QED BY <2>3, <3>1, <3>2, <3>3, <3>4, AdvanceCancels DEF run, cur
    <2> QED BY <1>10, <1>17, <2>2, <2>3 DEF RunBegin, run
<1>18. CASE RunExit(i)
    <2>1. /\ run.stage = "working" /\ UNCHANGED docs
          /\ Shielded(j) => cur.status \in {"generating", "cancelling"} /\ run.base.status = "generating"
        BY <1>12, <1>18 DEF RunExit, At, run, RunInStep
    <2>2. PICK result \in {"succeeded", "failed", "cancelled"}, outputs \in BOOLEAN :
              /\ result = "cancelled" => run.job \in cancelFlag[run.rt]
              /\ Advance(i, "saving", run.base, [run.base EXCEPT !.status = ResultStatus(result, outputs),
                                                                !.outputs = outputs])
        BY <1>18 DEF RunExit, run
    <2> DEFINE want == [run.base EXCEPT !.status = ResultStatus(result, outputs), !.outputs = outputs]
    <2>3. /\ want.qr = run.base.qr /\ want.status \in TerminalStatuses
          /\ result # "cancelled" => want.status \notin CancelStatuses
        BY DEF ResultStatus, Documents, TerminalStatuses, CancelStatuses
    <2> HIDE DEF want
    <2>4. Exists(want)
        BY <1>9, <2>3 DEF Exists
    <2>5. Shielded(j) => RunInStep([stage |-> "saving", base |-> run.base, want |-> want], cur)
        BY <2>1, <2>3 DEF RunInStep
    <2>6. j \notin Cancellable => want.status \notin CancelStatuses
        <3>1. j \notin Cancellable => ~IsTerminal(cur)
            BY <1>9, <1>10, <2>1 DEF IsTerminal
        <3>2. j \notin Cancellable => j \notin cancelFlag[run.rt]
            BY <1>6, <3>1 DEF JobFits, run, cur
        <3> QED BY <2>2, <2>3, <3>2 DEF run
    <2> QED BY <1>14, <2>1, <2>2, <2>3, <2>4, <2>5, <2>6 DEF want
<1>19. CASE RunExitInvalid(i)
    <2>1. /\ run.stage = "working" /\ UNCHANGED docs
          /\ Shielded(j) => cur.status \in {"generating", "cancelling"} /\ run.base.status = "generating"
        BY <1>12, <1>19 DEF RunExitInvalid, At, run, RunInStep
    <2> DEFINE want == [run.base EXCEPT !.status = "failed"]
    <2>2. want.qr = run.base.qr /\ want.status = "failed"
        BY <1>8
    <2>3. Advance(i, "failing", run.base, want)
        BY <1>19 DEF RunExitInvalid, run
    <2> HIDE DEF want
    <2>4. Shielded(j) => RunInStep([stage |-> "failing", base |-> run.base, want |-> want], cur)
        BY <2>1, <2>2 DEF RunInStep
    <2> QED BY <1>9, <1>14, <2>1, <2>2, <2>3, <2>4 DEF Exists
<1>20. CASE RunPersist(i)
    <2>1. /\ run.stage = "saving" /\ Exists(run.want)
          /\ Shielded(j) => /\ cur.status \in {"generating", "cancelling"} /\ run.base.status = "generating"
                            /\ run.want.status \in TerminalStatuses
        BY <1>6, <1>12, <1>20 DEF RunPersist, At, run, RunFits, RunInStep
    <2>2. CASE SaveThrows(run) /\ Advance(i, "failing", run.base, [run.want EXCEPT !.status = "failed"])
        <3> DEFINE want == [run.want EXCEPT !.status = "failed"]
        <3>1. want.qr = run.base.qr /\ want.status = "failed"
            BY <1>8, <1>12
        <3> HIDE DEF want
        <3>2. Shielded(j) => RunInStep([stage |-> "failing", base |-> run.base, want |-> want], cur)
            BY <2>1, <3>1 DEF RunInStep
        <3> QED BY <1>9, <1>14, <2>2, <3>1, <3>2 DEF Exists, SaveThrows, want
    <2>3. ASSUME NEW d \in Saves(run, TRUE), Store(j, d), Advance(i, "publishing", Saved(run, d), Saved(run, d))
          PROVE  CancelInv'
        <3>1. /\ Saved(run, d) = d /\ Exists(cur) /\ Exists(d) /\ d.qr = cur.qr
              /\ d.status \in {cur.status, run.want.status}
              /\ Shielded(j) => IsTerminal(d) /\ d.status # "cancelling"
            BY <1>9, <1>13, <2>1 DEF IsTerminal
        <3>2. Shielded(j) => RunInStep([stage |-> "publishing", base |-> d, want |-> d], d)
            BY <3>1 DEF RunInStep
        <3>3. j \notin Cancellable => {d.status, d.status} \cap CancelStatuses = {}
            BY <1>11, <3>1
        <3> QED BY <2>3, <3>1, <3>2, <3>3, AdvanceCancels DEF run, cur
    <2> QED BY <1>20, <2>2, <2>3 DEF RunPersist, run
<1>21. CASE RunPublish(i)
    BY <1>10, <1>15, <1>21 DEF RunPublish
<1>22. CASE RunFail(i)
    <2>1. /\ run.stage = "failing" /\ Exists(run.want)
          /\ Shielded(j) => /\ run.base.status = "generating" /\ run.want.status = "failed"
        BY <1>6, <1>12, <1>22 DEF RunFail, At, run, RunFits, RunInStep
    <2>2. CASE SaveThrows(run) /\ Stop(i)
        BY <1>15, <2>2 DEF SaveThrows
    <2>3. ASSUME NEW d \in Saves(run, TRUE), Store(j, d), Stop(i)
          PROVE  CancelInv'
        <3>1. /\ Exists(cur) /\ Exists(d) /\ d.qr = cur.qr
              /\ d.status \in {cur.status, run.want.status}
              /\ Shielded(j) => d.status = "failed"
            BY <1>13, <2>1
        <3>2. Shielded(j) => IsTerminal(d) /\ d.status # "cancelling"
            BY <1>9, <3>1 DEF IsTerminal
        <3>3. j \notin Cancellable => d.status \notin CancelStatuses
            BY <1>11, <3>1
        <3> QED BY <2>3, <3>1, <3>2, <3>3, StopCancels DEF run, cur
    <2> QED BY <1>22, <2>2, <2>3 DEF RunFail, run
<1> QED
    BY <1>1, <1>16, <1>17, <1>18, <1>19, <1>20, <1>21, <1>22 DEF SkillStep, RunnerStep, ChildExits

-----------------------------------------------------------------------------
(* The steps of a request *)

LEMMA RequestStepCancels ==
    ASSUME TypeOK, CancelInv, NEW c \in Request, NEW j \in Job,
           UNCHANGED <<mode, runs, active, submission>>,
           \A k \in Job : k # j => docs'[k] = docs[k],
           Exists(docs[j]) => Exists(docs'[j]), IsTerminal(docs[j]) => IsTerminal(docs'[j]),
           \A k \in Job, q \in Runtime : k # j /\ k \in cancelFlag'[q] => k \in cancelFlag[q],
           \A b \in Request : b # c => requests'[b] = requests[b],
           \/ docs'[j].qr.heartbeatAt \in {docs[j].qr.heartbeatAt, c}
           \/ requests[c].stage = "saving" /\ docs'[j].qr.heartbeatAt = requests[c].want.qr.heartbeatAt,
           requests'[c].stage = "saving" => requests'[c].want.qr.heartbeatAt = docs'[j].qr.heartbeatAt,
           JobFits(j)', RequestFits(c)'
    PROVE  CancelInv'
PROOF
<1>1. \A k \in Job : /\ Executions(k)' = Executions(k)
                     /\ \A i \in Executions(k) : runs'[i] = runs[i]
    BY DEF Executions
<1> HIDE DEF Executions
<1>2. ASSUME NEW k \in Job, k # j
      PROVE  JobFits(k)'
    <2>1. Rests(k)
        BY <1>1, <1>2 DEF Rests, SameRun
    <2> QED BY <2>1, RestingJobFits DEF CancelInv
<1>3. ASSUME NEW b \in Request, b # c
      PROVE  RequestFits(b)'
    <2>1. RequestFits(b) /\ (requests[b].stage \in {"read", "saving"} => requests[b].job \in Job)
        BY DEF CancelInv, TypeOK, CancelTypeOK
    <2>2. \A k \in Job : /\ Exists(docs[k]) => Exists(docs'[k])
                         /\ IsTerminal(docs[k]) => IsTerminal(docs'[k])
        OBVIOUS
    <2>3. StampIsNew(b)'
        <3> SUFFICES ASSUME requests[b].stage \in {"idle", "read"}
                     PROVE  /\ \A k \in Job : docs'[k].qr.heartbeatAt # b
                            /\ \A a \in Request : requests'[a].stage = "saving" =>
                                                     requests'[a].want.qr.heartbeatAt # b
            BY <1>3 DEF StampIsNew
        <3>1. /\ \A k \in Job : docs[k].qr.heartbeatAt # b
              /\ \A a \in Request : requests[a].stage = "saving" => requests[a].want.qr.heartbeatAt # b
            BY <2>1 DEF RequestFits, StampIsNew
        <3>2. docs'[j].qr.heartbeatAt # b
            BY <1>3, <3>1
        <3> QED BY <1>3, <3>1, <3>2
    <2>4. requests[b].stage = "read" => ReadFits(b, requests[b])'
        BY <1>1, <1>3, <2>1, <2>2 DEF RequestFits, ReadFits
    <2>5. requests[b].stage = "saving" => SaveFits(requests[b])'
        BY <1>3, <2>1, <2>2 DEF RequestFits, SaveFits, Pledge
    <2> QED BY <1>3, <2>3, <2>4, <2>5 DEF RequestFits
<1> QED BY <1>2, <1>3 DEF CancelInv

LEMMA ReadCancels ==
    ASSUME TypeOK, CancelInv, NEW c \in Request, NEW r \in Runtime, NEW j \in Job, CancelRead(c, r, j)
    PROVE  CancelInv'
PROOF
<1>1. /\ UNCHANGED <<docs, mode, runs, active, submission, cancelFlag>>
      /\ requests \in [Request -> Requests] /\ JobFits(j) /\ RequestFits(c)
    BY DEF CancelRead, queueVars, TypeOK, CancelTypeOK, CancelInv
<1>2. JobFits(j)'
    BY <1>1 DEF JobFits, Executions
<1>3. \A b \in Request : b # c => requests'[b] = requests[b]
    BY <1>1 DEF CancelRead, Answer
<1>4. CASE IsTerminal(docs[j])
    <2>1. requests'[c].stage = "answered"
        BY <1>1, <1>4 DEF CancelRead, Idle
    <2>2. RequestFits(c)'
        BY <2>1 DEF RequestFits, StampIsNew
    <2> QED BY <1>1, <1>2, <1>3, <2>1, <2>2, RequestStepCancels
<1>5. CASE ~IsTerminal(docs[j])
    <2>1. /\ requests'[c].stage = "read" /\ requests'[c].rt = r /\ requests'[c].job = j
          /\ requests'[c].base = docs[j] /\ (requests'[c].wasActive <=> j \in active[r])
          /\ Exists(docs[j]) /\ requests[c].stage = "idle"
        BY <1>1, <1>5 DEF CancelRead
    <2>2. StampIsNew(c)'
        BY <1>1, <1>3, <2>1 DEF RequestFits, StampIsNew
    <2>3. docs[j].qr.heartbeatAt # c /\ (j \notin Cancellable => docs[j].status # "cancelling")
        BY <1>1, <2>1 DEF JobFits, RequestFits, StampIsNew
    <2>4. j \in active[r] => \E i \in Executions(j)' : runs'[i].rt = r
        BY <1>1 DEF JobFits, Executions
    <2>5. ReadFits(c, requests[c])'
        BY <1>1, <1>5, <2>1, <2>3, <2>4 DEF ReadFits
    <2>6. RequestFits(c)'
        BY <2>1, <2>2, <2>5 DEF RequestFits
    <2> QED BY <1>1, <1>2, <1>3, <2>1, <2>6, RequestStepCancels
<1> QED BY <1>4, <1>5

(* What the transaction of a request leaves of a document *)
LEMMA MarkedDocument ==
    ASSUME NEW d \in Documents, NEW c \in Request
    PROVE  LET e == CancelMarked(d, c)
           IN  /\ e.status = d.status /\ e.qr.heartbeatAt = c /\ e.qr.lease = IF Held(d.qr) THEN "valid" ELSE "none"
               /\ e.qr.queueState = IF Held(d.qr) THEN "cancelling" ELSE "terminal"
               /\ \A q : Working(d, q) => Working(e, q)
PROOF
<1>1. c # NoOne /\ d.qr \in QueueRuntimes
    BY NoOneAssumption DEF Documents
<1> QED BY <1>1 DEF CancelMarked, Documents, QueueRuntimes, Held, IsLeaseValid, Working, Exists

(* What a request that goes on will save, and when: the parts of CancelMark that *)
(* decide it.                                                                    *)
MarkedBy(c) ==
    LET d == docs[requests[c].job]
    IN  IF CancelAllowed(d, requests[c].job) THEN CancelMarked(d, c) ELSE d

StillRuns(q) == q.queueState = "cancelling" /\ IsLeaseValid(q)

WillSave(c, status) ==
    /\ requests'[c].stage = "saving" /\ requests'[c].job = requests[c].job
    /\ requests'[c].base = requests[c].base
    /\ requests'[c].want.status = status /\ requests'[c].want.qr = MarkedBy(c).qr
    /\ requests'[c].want.outputs = requests[c].base.outputs
    /\ \/ status = "cancelled" /\ ~StillRuns(MarkedBy(c).qr)
       \/ status = "cancelling" /\ (StillRuns(MarkedBy(c).qr) \/ requests[c].wasActive)
       \/ status = CancelledStatus(requests[c].base) /\ ~StillRuns(MarkedBy(c).qr)

LEMMA MarkOutcome ==
    ASSUME TypeOK, UNCHANGED faults, NEW c \in Request, CancelMark(c)
    PROVE  /\ requests[c].stage = "read" /\ Store(requests[c].job, MarkedBy(c))
           /\ UNCHANGED <<mode, active, submission, runs>>
           /\ \A b \in Request : b # c => requests'[b] = requests[b]
           /\ \/ requests'[c].stage = "rejected" /\ UNCHANGED cancelFlag
              \/ /\ \/ requests[c].job \in Cancellable \/ IsTerminal(MarkedBy(c))
                    \/ CancelAllowed(docs[requests[c].job], requests[c].job)
                 /\ \/ UNCHANGED cancelFlag
                    \/ requests[c].wasActive /\
                       cancelFlag' = [cancelFlag EXCEPT ![requests[c].rt] = @ \cup {requests[c].job}]
                 /\ \E status : WillSave(c, status)
PROOF
<1> DEFINE req == requests[c]
<1> DEFINE j == requests[c].job
<1> DEFINE r == requests[c].rt
<1> DEFINE commits == CancelAllowed(docs[j], j)
<1> DEFINE d == IF commits THEN CancelMarked(docs[j], c) ELSE docs[j]
<1> DEFINE running == d.qr.queueState = "cancelling" /\ IsLeaseValid(d.qr)
<1> DEFINE Save(status, completes) ==
        requests' = [requests EXCEPT ![c].stage = "saving",
                       ![c].want = [req.base EXCEPT !.status = status, !.qr = d.qr,
                                    !.cancellation = Recorded(c, req.base, completes)]]
<1>1. /\ requests \in [Request -> Requests] /\ req.base \in Documents /\ ~Fault
      /\ cancelFlag \in [Runtime -> SUBSET Job]
    BY LimitAssumption DEF TypeOK, QueueTypeOK, CancelTypeOK, Requests, Fault
<1>2. d = MarkedBy(c) /\ (running <=> StillRuns(MarkedBy(c).qr))
    BY DEF MarkedBy, StillRuns
<1>3. ASSUME NEW status, NEW completes, Save(status, completes),
             \/ status = "cancelled" /\ ~running
             \/ status = "cancelling" /\ (running \/ req.wasActive)
             \/ status = CancelledStatus(req.base) /\ ~running
      PROVE  WillSave(c, status) /\ \A b \in Request : b # c => requests'[b] = requests[b]
    <2>1. PICK want : want = [req.base EXCEPT !.status = status, !.qr = d.qr,
                                    !.cancellation = Recorded(c, req.base, completes)]
        OBVIOUS
    <2>2. want.status = status /\ want.qr = d.qr /\ want.outputs = req.base.outputs
        BY <1>1, <2>1 DEF Documents
    <2>3. requests' = [requests EXCEPT ![c].stage = "saving", ![c].want = want]
        BY <1>3, <2>1
    <2> HIDE DEF d, running, Save, commits
    <2>4. /\ requests'[c].stage = "saving" /\ requests'[c].job = j /\ requests'[c].base = req.base
          /\ requests'[c].want = want
          /\ \A b \in Request : b # c => requests'[b] = requests[b]
        BY <1>1, <2>3 DEF Requests
    <2> QED BY <1>2, <1>3, <2>2, <2>4 DEF WillSave
<1>4. ASSUME NEW stage, Answer(c, stage)
      PROVE  requests'[c].stage = stage /\ \A b \in Request : b # c => requests'[b] = requests[b]
    BY <1>1, <1>4 DEF Answer, Idle
<1>5. /\ requests[c].stage = "read" /\ Store(j, d) /\ UNCHANGED <<mode, active, submission, runs>>
      /\ \/ Answer(c, "rejected") /\ UNCHANGED cancelFlag
         \/ /\ j \in Cancellable \/ commits \/ IsTerminal(d)
            /\ UNCHANGED cancelFlag \/ (req.wasActive /\ cancelFlag' = [cancelFlag EXCEPT ![r] = @ \cup {j}])
            /\ \/ ~running /\ Save("cancelled", TRUE)
               \/ (running \/ req.wasActive) /\ Save("cancelling", FALSE)
               \/ ~running /\ Save(CancelledStatus(req.base), req.base.status # "queued")
    BY <1>1 DEF CancelMark
<1> HIDE DEF Save, d, running, commits
<1>6. CASE Answer(c, "rejected") /\ UNCHANGED cancelFlag
    BY <1>2, <1>4, <1>5, <1>6
<1>7. CASE ~(Answer(c, "rejected") /\ UNCHANGED cancelFlag)
    <2>1. \E status : WillSave(c, status) /\ \A b \in Request : b # c => requests'[b] = requests[b]
        BY <1>3, <1>5, <1>7
    <2> QED BY <1>2, <1>5, <1>7, <2>1 DEF commits
<1> QED BY <1>6, <1>7

LEMMA MarkCancels ==
    ASSUME TypeOK, CancelInv, UNCHANGED faults, NEW c \in Request, CancelMark(c)
    PROVE  CancelInv'
PROOF
<1>1. PICK j \in Job : j = requests[c].job
    BY DEF CancelMark, TypeOK, CancelTypeOK
<1>2. PICK r \in Runtime : r = requests[c].rt
    BY DEF CancelMark, TypeOK, CancelTypeOK
<1> DEFINE base == requests[c].base
<1> DEFINE commits == CancelAllowed(docs[j], j)
<1> DEFINE d == MarkedBy(c)
<1>3. /\ docs \in [Job -> Documents] /\ docs[j] \in Documents /\ JobFits(j) /\ ReadFits(c, requests[c])
      /\ cancelFlag \in [Runtime -> SUBSET Job]
    BY <1>1, MarkOutcome DEF TypeOK, QueueTypeOK, CancelInv, RequestFits
<1>4. d = IF commits THEN CancelMarked(docs[j], c) ELSE docs[j]
    BY <1>1 DEF MarkedBy
<1>5. /\ Store(j, d) /\ UNCHANGED <<mode, active, submission, runs>>
      /\ \A b \in Request : b # c => requests'[b] = requests[b]
    BY <1>1, MarkOutcome
<1>6. \/ requests'[c].stage = "rejected" /\ UNCHANGED cancelFlag
      \/ /\ j \in Cancellable \/ commits \/ IsTerminal(d)
         /\ \/ UNCHANGED cancelFlag
            \/ requests[c].wasActive /\ cancelFlag' = [cancelFlag EXCEPT ![r] = @ \cup {j}]
         /\ \E status : WillSave(c, status)
    BY <1>1, <1>2, MarkOutcome
<1>7. docs'[j] = d /\ \A k \in Job : k # j => docs'[k] = docs[k]
    BY <1>3, <1>5 DEF Store
<1>8. /\ d.status = docs[j].status /\ d.qr.heartbeatAt \in {docs[j].qr.heartbeatAt, c}
      /\ \A q : Working(docs[j], q) => Working(d, q)
      /\ commits => /\ d.qr.heartbeatAt = c
                    /\ IF Held(docs[j].qr) THEN StillRuns(d.qr) ELSE d.qr.queueState = "terminal"
    BY <1>3, <1>4, MarkedDocument DEF IsLeaseValid, StillRuns
<1>9. Exists(docs[j]) /\ Exists(d) /\ (IsTerminal(d) <=> IsTerminal(docs[j]))
    BY <1>1, <1>3, <1>8 DEF ReadFits, Exists, IsTerminal
<1>10. (~commits => d = docs[j]) /\ (j \in Cancellable => commits \/ IsTerminal(d))
    BY <1>4, <1>9 DEF CancelAllowed
<1> HIDE DEF commits, d
<1>11. j \notin Cancellable => /\ Shielded(j) /\ Untouched(docs[j].qr)
                               /\ \A q \in Runtime : j \in cancelFlag[q] => IsTerminal(docs[j])
    BY <1>3 DEF JobFits, Shielded
<1>12. Shielded(j) /\ requests[c].wasActive /\ ~IsTerminal(docs[j]) => Held(docs[j].qr)
    <2>1. Shielded(j) /\ requests[c].wasActive /\ ~IsTerminal(docs[j]) => Executions(j) # {}
        BY <1>1, <1>3 DEF ReadFits
    <2> QED BY <1>3, <2>1, UnheldIsIdle
<1>13. j \notin Cancellable /\ commits => ~Held(docs[j].qr) /\ ~IsTerminal(docs[j])
    BY DEF CancelAllowed, commits, Held
<1>14. JobFits(j)'
    <2>1. Executions(j)' = Executions(j) /\ \A i \in Executions(j) : runs'[i] = runs[i] /\ runs[i].job = j
        BY <1>5 DEF Executions
    <2> HIDE DEF Executions
    <2>2. \A i \in Executions(j) : RunFits(runs[i], d)
        <3>1. \A i \in Executions(j) : RunInStep(runs[i], docs[j]) => RunInStep(runs[i], d)
            BY <1>8, <1>9 DEF RunInStep
        <3>2. \A i \in Executions(j) : RunFits(runs[i], docs[j])
            BY <1>3 DEF JobFits
        <3> QED BY <1>8, <3>1, <3>2 DEF RunFits
    <2>3. j \notin Cancellable => d.status # "cancelling" /\ Untouched(d.qr)
        BY <1>3, <1>8, <1>10, <1>11, <1>13 DEF JobFits, Untouched
    <2>4. j \notin Cancellable => \A q \in Runtime : j \in cancelFlag'[q] => IsTerminal(d)
        BY <1>3, <1>6, <1>9, <1>10, <1>11, <1>12, <1>13
    <2>5. submission'[j].stage = "none" => docs'[j] = Absent
        BY <1>3, <1>5, <1>9 DEF JobFits, Absent, Exists
    <2> QED BY <1>3, <1>5, <1>7, <2>1, <2>2, <2>3, <2>4, <2>5 DEF JobFits
<1>15. ASSUME NEW status, WillSave(c, status), j \in Cancellable \/ commits \/ IsTerminal(d)
       PROVE  SaveFits(requests[c])'
    <2>1. /\ requests'[c].job = j /\ requests'[c].base = base /\ requests'[c].want.status = status
          /\ requests'[c].want.qr = d.qr /\ requests'[c].want.outputs = base.outputs
        BY <1>1, <1>15 DEF WillSave, d
    <2>2. /\ Exists(base) /\ ~IsTerminal(base) /\ base.qr.heartbeatAt # c
          /\ j \notin Cancellable => base.status # "cancelling"
        BY <1>1, <1>3 DEF ReadFits
    <2>3. status \in {"cancelling"} \cup CancelStatuses
        BY <1>15 DEF WillSave, CancelStatuses, CancelledStatus
    <2>4. j \notin Cancellable => Untouched(d.qr)
        BY <1>7, <1>14 DEF JobFits
    <2>5. ASSUME Shielded(j), ~IsTerminal(d)
          PROVE  /\ d.qr # base.qr
                 /\ \/ status = "cancelling" /\ j \in Cancellable
                    \/ status \in CancelStatuses /\ d.qr.queueState = "terminal"
        <3>1. commits
            BY <1>10, <1>15, <2>5
        <3>2. CASE StillRuns(d.qr)
            <4>1. status = "cancelling"
                BY <1>15, <3>2 DEF WillSave, d
            <4>2. j \in Cancellable
                BY <1>8, <1>13, <3>1, <3>2 DEF StillRuns
            <4> QED BY <1>8, <2>2, <3>1, <4>1, <4>2
        <3>3. CASE ~StillRuns(d.qr)
            <4>1. ~Held(docs[j].qr) /\ d.qr.queueState = "terminal"
                BY <1>8, <3>1, <3>3
            <4>2. ~requests[c].wasActive
                BY <1>9, <1>12, <2>5, <4>1
            <4>3. status \in CancelStatuses
                BY <1>15, <3>3, <4>2 DEF WillSave, CancelStatuses, CancelledStatus, d
            <4> QED BY <1>8, <2>2, <3>1, <4>1, <4>3
        <3> QED BY <3>2, <3>3
    <2> QED BY <1>7, <1>9, <2>1, <2>2, <2>3, <2>4, <2>5 DEF SaveFits, Pledge
<1>16. RequestFits(c)'
    BY <1>6, <1>15 DEF RequestFits, StampIsNew, WillSave
<1>17. requests'[c].stage = "saving" => requests'[c].want.qr.heartbeatAt = docs'[j].qr.heartbeatAt
    BY <1>6, <1>7 DEF WillSave, d
<1>18. \A k \in Job, q \in Runtime : k # j /\ k \in cancelFlag'[q] => k \in cancelFlag[q]
    BY <1>3, <1>6
<1> QED BY <1>5, <1>7, <1>8, <1>9, <1>14, <1>16, <1>17, <1>18, RequestStepCancels

(* What the save of a request leaves, if it does not conflict.  A terminal job *)
(* keeps its status, and a queueRuntime that carries a stamp stays as it is.   *)
LEMMA RequestSaves ==
    ASSUME Provider = "sqlite",
           NEW cur \in Documents, NEW base \in Documents, NEW want \in Documents,
           want.status \in {"cancelling"} \cup CancelStatuses, ~IsTerminal(base),
           ~SaveConflicts(cur, base, want),
           NEW aged \in BOOLEAN, ~aged, NEW d \in SaveResults(cur, base, want, aged)
    PROVE  /\ Exists(cur) /\ Exists(d) /\ d.status \in {cur.status, want.status}
           /\ IsTerminal(cur) => d.status = cur.status
           /\ want.status # base.status => d.status = want.status
           /\ d.qr.heartbeatAt \in {cur.qr.heartbeatAt, want.qr.heartbeatAt}
           /\ Untouched(cur.qr) /\ Untouched(want.qr) => Untouched(d.qr)
           /\ cur.qr.heartbeatAt # NoOne =>
                 d.qr = cur.qr /\ (want.qr # base.qr => want.qr.queueState = cur.qr.queueState)
PROOF
<1>1. cur.qr \in QueueRuntimes /\ want.qr \in QueueRuntimes /\ Exists(cur)
    BY DEF Documents, SaveConflicts
<1>0. /\ "status" \in Written(base, want) <=> want.status # base.status
      /\ "qr" \in Written(base, want) <=> want.qr # base.qr
    BY DEF Written, Changed, Fields
<1>2. d.status = IF want.status # base.status THEN want.status ELSE cur.status
    <2>1. d.status = IF "status" \in Written(base, want) THEN want.status ELSE cur.status
        BY DEF SaveResults
    <2> QED BY <1>0, <2>1
<1>3. Exists(d)
    BY <1>1, <1>2 DEF Exists, CancelStatuses
<1>4. IsTerminal(cur) => d.status = cur.status
    <2> SUFFICES ASSUME IsTerminal(cur), want.status # base.status PROVE FALSE
        BY <1>2
    <2>1. ~IsTerminal(want)
        BY DEF SaveConflicts, EndedSince
    <2>2. cur.status # base.status /\ cur.status # want.status
        BY <2>1 DEF IsTerminal
    <2> QED BY <2>2 DEF SaveConflicts, Changed, Fields, SinceRead, Disagrees
<1>5. PICK l \in WrittenLeases(cur, want, aged) :
          d.qr = IF "qr" \in Written(base, want) THEN [want.qr EXCEPT !.lease = l] ELSE cur.qr
    BY DEF SaveResults
<1>6. d.qr = IF want.qr # base.qr THEN [want.qr EXCEPT !.lease = l] ELSE cur.qr
    BY <1>0, <1>5
<1>7. want.qr # base.qr => /\ d.qr.heartbeatAt = want.qr.heartbeatAt /\ d.qr.queueState = want.qr.queueState
                         /\ d.qr.cancelRequested = want.qr.cancelRequested
    BY <1>1, <1>6 DEF QueueRuntimes
<1>8. ASSUME cur.qr.heartbeatAt # NoOne, want.qr # base.qr
      PROVE  d.qr = cur.qr /\ want.qr.queueState = cur.qr.queueState
    <2>1. Text(cur.qr) = Text(want.qr)
        BY <1>8 DEF SaveConflicts, Changed, Fields, SinceRead, Disagrees
    <2>2. l = cur.qr.lease
        BY <2>1 DEF WrittenLeases, Disagrees
    <2>3. /\ want.qr.queueState = cur.qr.queueState /\ want.qr.owner = cur.qr.owner
          /\ want.qr.heartbeatAt = cur.qr.heartbeatAt /\ want.qr.cancelRequested = cur.qr.cancelRequested
          /\ want.qr.reconciliation = cur.qr.reconciliation
        BY <1>1, <2>1 DEF Text, QueueRuntimes
    <2> QED BY <1>1, <1>6, <1>8, <2>2, <2>3 DEF QueueRuntimes
<1> QED BY <1>1, <1>2, <1>3, <1>4, <1>6, <1>7, <1>8 DEF Untouched

LEMMA SaveCancels ==
    ASSUME Provider = "sqlite", TypeOK, CancelInv, UNCHANGED faults, NEW c \in Request, CancelSave(c)
    PROVE  CancelInv'
PROOF
<1>1. PICK j \in Job : j = requests[c].job
    BY DEF CancelSave, TypeOK, CancelTypeOK
<1> DEFINE req == requests[c]
<1>2. /\ docs \in [Job -> Documents] /\ docs[j] \in Documents /\ JobFits(j) /\ SaveFits(req)
      /\ req.base \in Documents /\ req.want \in Documents /\ requests \in [Request -> Requests]
      /\ RequestFits(c) /\ req.stage = "saving"
    BY <1>1 DEF TypeOK, QueueTypeOK, CancelTypeOK, Requests, CancelInv, RequestFits, CancelSave
<1>3. UNCHANGED <<mode, active, submission, runs, cancelFlag>>
    BY DEF CancelSave, localVars
<1>4. /\ requests'[c].stage \in {"answered", "rejected"}
      /\ \A b \in Request : b # c => requests'[b] = requests[b]
    BY <1>2 DEF CancelSave, Answer, Idle
<1>5. RequestFits(c)'
    BY <1>4 DEF RequestFits, StampIsNew
<1>6. PICK d \in Documents :
          /\ Store(j, d)
          /\ \/ d = docs[j]
             \/ /\ ~SaveConflicts(docs[j], req.base, req.want)
                /\ d \in SaveResults(docs[j], req.base, req.want, FALSE)
    <2>1. CASE UNCHANGED docs
        BY <1>2, <2>1 DEF Store
    <2>2. CASE /\ ~SaveConflicts(docs[j], req.base, req.want)
               /\ \E d \in SaveResults(docs[j], req.base, req.want, FALSE) : Store(j, d)
        BY <1>2, <2>2, SavesAreDocuments
    <2> QED BY <1>1, <2>1, <2>2 DEF CancelSave
<1>7. docs'[j] = d /\ \A k \in Job : k # j => docs'[k] = docs[k]
    BY <1>2, <1>6 DEF Store
<1>8. /\ req.want.status \in {"cancelling"} \cup CancelStatuses /\ ~IsTerminal(req.base)
      /\ j \notin Cancellable => req.base.status # "cancelling" /\ Untouched(req.want.qr)
      /\ Shielded(j) => IsTerminal(docs[j]) \/ Pledge(req)
      /\ Exists(docs[j])
    BY <1>1, <1>2 DEF SaveFits
<1>9. d # docs[j] =>
          /\ Exists(d) /\ d.status \in {docs[j].status, req.want.status}
          /\ IsTerminal(docs[j]) => d.status = docs[j].status
          /\ req.want.status # req.base.status => d.status = req.want.status
          /\ d.qr.heartbeatAt \in {docs[j].qr.heartbeatAt, req.want.qr.heartbeatAt}
          /\ Untouched(docs[j].qr) /\ Untouched(req.want.qr) => Untouched(d.qr)
          /\ docs[j].qr.heartbeatAt # NoOne =>
                d.qr = docs[j].qr /\ (req.want.qr # req.base.qr => req.want.qr.queueState = docs[j].qr.queueState)
    <2> SUFFICES ASSUME d # docs[j]
                 PROVE  /\ Exists(d) /\ d.status \in {docs[j].status, req.want.status}
                        /\ IsTerminal(docs[j]) => d.status = docs[j].status
                        /\ req.want.status # req.base.status => d.status = req.want.status
                        /\ d.qr.heartbeatAt \in {docs[j].qr.heartbeatAt, req.want.qr.heartbeatAt}
                        /\ Untouched(docs[j].qr) /\ Untouched(req.want.qr) => Untouched(d.qr)
                        /\ docs[j].qr.heartbeatAt # NoOne =>
                              /\ d.qr = docs[j].qr
                              /\ req.want.qr # req.base.qr => req.want.qr.queueState = docs[j].qr.queueState
        OBVIOUS
    <2> HIDE DEF req
    <2>1. PICK aged \in BOOLEAN : ~aged /\ d \in SaveResults(docs[j], req.base, req.want, aged)
        BY <1>6, Zenon
    <2>2. ~SaveConflicts(docs[j], req.base, req.want)
        BY <1>6
    <2> QED BY <1>2, <1>8, <2>1, <2>2, RequestSaves
<1> HIDE DEF req
<1>10. j \notin Cancellable => /\ Shielded(j) /\ Untouched(docs[j].qr) /\ docs[j].status # "cancelling"
                               /\ \A q \in Runtime : j \in cancelFlag[q] => IsTerminal(docs[j])
    BY <1>2 DEF JobFits, Shielded
<1>11. Exists(d) /\ (IsTerminal(docs[j]) => IsTerminal(d))
    BY <1>8, <1>9 DEF IsTerminal
(* What it finds while the job is being executed *)
<1>12. ASSUME NEW i \in Executions(j)
       PROVE  RunFits(runs[i], d)
    <2>1. RunFits(runs[i], docs[j]) /\ runs[i].job = j
        BY <1>2 DEF JobFits, Executions
    <2>2. CASE d = docs[j] \/ ~Shielded(j)
        BY <2>1, <2>2, OnlyShieldedFit
    <2>3. CASE d # docs[j] /\ Shielded(j)
        <3>1. Working(docs[j], runs[i].rt) /\ RunInStep(runs[i], docs[j])
            BY <2>1, <2>3 DEF RunFits
        <3>2. d.qr = docs[j].qr /\ (req.want.qr # req.base.qr => req.want.qr.queueState # "terminal")
            BY <1>9, <2>3, <3>1 DEF Working
        <3>3. Working(d, runs[i].rt)
            BY <1>11, <3>1, <3>2 DEF Working
        <3>4. d.status = docs[j].status \/ (d.status = "cancelling" /\ j \in Cancellable /\ ~IsTerminal(docs[j]))
            BY <1>1, <1>8, <1>9, <2>3, <3>2 DEF Pledge, req
        <3>5. RunInStep(runs[i], d)
            BY <3>1, <3>4 DEF RunInStep, IsTerminal
        <3> QED BY <2>1, <3>3, <3>4, <3>5 DEF RunFits
    <2> QED BY <2>2, <2>3
<1>13. j \notin Cancellable => /\ d.status # "cancelling" /\ Untouched(d.qr)
                               /\ \A q \in Runtime : j \in cancelFlag'[q] => IsTerminal(d)
    <2>1. j \notin Cancellable => d.status # "cancelling"
        BY <1>1, <1>8, <1>9, <1>10 DEF Pledge, CancelStatuses, req
    <2> QED BY <1>3, <1>8, <1>9, <1>10, <1>11, <2>1
<1>14. JobFits(j)'
    <2>1. Executions(j)' = Executions(j) /\ \A i \in Executions(j) : runs'[i] = runs[i]
        BY <1>3 DEF Executions
    <2> HIDE DEF Executions
    <2>2. submission'[j].stage = "none" => docs'[j] = Absent
        BY <1>2, <1>3, <1>8 DEF JobFits, Absent, Exists
    <2> QED BY <1>2, <1>3, <1>7, <1>12, <1>13, <2>1, <2>2 DEF JobFits
<1>15. \/ docs'[j].qr.heartbeatAt \in {docs[j].qr.heartbeatAt, c}
       \/ requests[c].stage = "saving" /\ docs'[j].qr.heartbeatAt = requests[c].want.qr.heartbeatAt
    BY <1>2, <1>7, <1>9 DEF req
<1> QED BY <1>3, <1>4, <1>5, <1>7, <1>11, <1>14, <1>15, RequestStepCancels

-----------------------------------------------------------------------------
(* The step of the whole system *)

LEMMA CancelsStep ==
    ASSUME Attended, TypeOK, CancelInv, ClaimsOnce, UNCHANGED faults, [Next]_vars
    PROVE  CancelInv'
PROOF
<1>1. Provider = "sqlite" /\ TimelyHeartbeats /\ "SIGTERM" \notin Stops
      /\ \A r \in Runtime : mode[r] # "stopping"
    BY DEF Attended, CancelInv
<1>2. CASE QueueStep
    <2>0. UNCHANGED requests
        BY <1>2 DEF QueueStep
    <2>1. ASSUME NEW r \in Runtime, NEW j \in Job,
                 \/ Submit(r, j) \/ EnqueueCheck(r, j) \/ EnqueuePersist(r, j)
                 \/ Renew(r, j) \/ Reconcile(r, j) \/ ShutdownRelease(r, j)
          PROVE  CancelInv'
        <3>1. ~ShutdownRelease(r, j)
            BY <1>1 DEF ShutdownRelease
        <3> QED BY <2>0, <2>1, <3>1, SubmissionCancels, RenewCancels, ReconcileCancels, Zenon
    <2>2. ASSUME NEW r \in Runtime, DrainShift(r) \/ DrainClaim(r) \/ DrainFault(r)
          PROVE  CancelInv'
        BY <2>0, <2>2, DrainCancels
    <2>3. ASSUME NEW r \in Runtime, Start(r) \/ Shutdown(r)
          PROVE  CancelInv'
        <3>1. Start(r)
            BY <1>1, <2>3 DEF Shutdown
        <3>2. \A q \in Runtime : mode'[q] # "stopping"
            BY <1>1, <3>1 DEF Start, TypeOK, QueueTypeOK
        <3> QED BY <2>0, <3>1, <3>2, IdleStep DEF Start
    <2>4. ASSUME NEW i \in DOMAIN runs, Finalize(i)
          PROVE  CancelInv'
        <3>1. runs[i].job \in Job
            BY RunsAt DEF TypeOK, QueueTypeOK, Runs
        <3> QED BY <1>1, <2>0, <2>4, <3>1, FinalizeCancels
    <2> QED
        BY <1>2, <2>0, <2>1, <2>2, <2>3, <2>4, LeaseExpiresCancels, <1>1, Zenon DEF QueueStep, QueueNext
<1>3. CASE RequestStep
    <2>1. PICK c \in Request : CancelStep(c)
        BY <1>3 DEF RequestStep
    <2> QED BY <1>1, <2>1, ReadCancels, MarkCancels, SaveCancels DEF CancelStep
<1>4. CASE ProcessExit
    BY <1>4, ExitCancels DEF ProcessExit
<1>5. CASE UNCHANGED vars
    BY <1>1, <1>5, IdleStep DEF vars, queueVars
<1> QED BY <1>1, <1>2, <1>3, <1>4, <1>5, RunCancels DEF Next

LEMMA CancelsStart == Init => CancelInv
PROOF
<1> SUFFICES ASSUME Init PROVE CancelInv
    OBVIOUS
<1>1. /\ runs = <<>> /\ \A j \in Job : docs[j] = Absent
      /\ \A r \in Runtime : mode[r] = "off" /\ cancelFlag[r] = {} /\ active[r] = {}
      /\ \A c \in Request : requests[c].stage = "idle"
    BY DEF Init, QueueInit, CancelInit, Idle
<1>2. \A j \in Job : Executions(j) = {}
    BY <1>1 DEF Executions
<1>3. Absent.status # "cancelling" /\ Untouched(Absent.qr) /\ Absent.qr.heartbeatAt = NoOne
    BY DEF Absent, Released, Untouched
<1>4. \A j \in Job : JobFits(j)
    BY <1>1, <1>2, <1>3 DEF JobFits
<1>5. \A c \in Request : RequestFits(c)
    BY <1>1, <1>3, NoOneAssumption DEF RequestFits, StampIsNew
<1> QED BY <1>1, <1>4, <1>5 DEF CancelInv

LEMMA CancelsHold == Attended => (Spec /\ []ClaimsOnce => [](faults = 0 => CancelInv))
PROOF
<1> SUFFICES ASSUME Attended PROVE Spec /\ []ClaimsOnce => [](faults = 0 => CancelInv)
    OBVIOUS
<1>1. ASSUME TypeOK, faults = 0 => CancelInv, ClaimsOnce, [Next]_vars, faults' = 0
      PROVE  CancelInv'
    <2>1. faults \in Nat
        BY <1>1, LimitAssumption DEF TypeOK, QueueTypeOK
    <2>2. faults' = faults
        BY <1>1, <2>1, FaultsAreCounted
    <2> QED BY <1>1, <2>2, CancelsStep
<1>2. TypeOK /\ (faults = 0 => CancelInv) /\ ClaimsOnce /\ [Next]_vars => (faults = 0 => CancelInv)'
    BY <1>1
<1>3. Init => (faults = 0 => CancelInv)
    BY CancelsStart
<1> QED BY <1>2, <1>3, TypeCorrect, PTL DEF Spec

(* Until a call fails, a skill that refuses cancellation runs to its end whatever *)
(* requests are sent for it and however many runtimes are killed: a request that  *)
(* found the job waiting commits nothing once it is claimed, or its save          *)
(* conflicts.                                                                     *)
THEOREM UncancellableRunsAreLeftAlone ==
    Attended => (Spec /\ []ClaimsOnce => [](faults = 0 => UncancellableRunsUndisturbed))
PROOF
<1> SUFFICES ASSUME Attended
             PROVE  Spec /\ []ClaimsOnce => [](faults = 0 => UncancellableRunsUndisturbed)
    OBVIOUS
<1>1. TypeOK /\ (faults = 0 => CancelInv) => (faults = 0 => UncancellableRunsUndisturbed)
    <2> SUFFICES ASSUME TypeOK, CancelInv, NEW i \in DOMAIN runs, Live(i), runs[i].job \notin Cancellable
                 PROVE  docs[runs[i].job].status
                            \notin {"cancelling", "cancelled", "cancelled_with_partial_result"}
        BY DEF UncancellableRunsUndisturbed
    <2>1. runs[i].job \in Job /\ i \in Executions(runs[i].job)
        BY RunsAt DEF TypeOK, QueueTypeOK, Runs, Executions, Live
    <2>2. RunFits(runs[i], docs[runs[i].job]) /\ docs[runs[i].job].status # "cancelling"
        BY <2>1 DEF CancelInv, JobFits
    <2> QED BY <2>2 DEF RunFits, CancelStatuses
<1> QED BY <1>1, CancelsHold, TypeCorrect, PTL

(* The same of a runtime that executes one job at a time: it is at its limit while *)
(* it executes, so it claims no job it executes already.                          *)
THEOREM SerialUncancellableRunsAreLeftAlone ==
    Attended /\ MaxConcurrent = 1 => (Spec => [](faults = 0 => UncancellableRunsUndisturbed))
PROOF
BY UncancellableRunsAreLeftAlone, OneClaim, PTL

-----------------------------------------------------------------------------
(* Ends are final *)

LEMMA EndsStay ==
    ASSUME Attended, TypeOK, CancelInv, UNCHANGED faults, [Next]_vars,
           NEW k \in Job, Shielded(k), IsTerminal(docs[k])
    PROVE  docs'[k].status = docs[k].status
PROOF
<1>1. /\ docs \in [Job -> Documents] /\ JobFits(k) /\ Provider = "sqlite"
      /\ \A r \in Runtime : mode[r] # "stopping"
    BY DEF TypeOK, QueueTypeOK, CancelInv, Attended
<1>2. docs[k] # Absent /\ docs[k].status # "queued" /\ ~IsActive(docs[k])
    BY DEF IsTerminal, TerminalStatuses, Absent, IsActive, ActiveStatuses, RunningStatuses
<1>3. ASSUME NEW j \in Job, NEW d, Store(j, d), j = k => d.status = docs[k].status
      PROVE  docs'[k].status = docs[k].status
    BY <1>1, <1>3 DEF Store
<1>4. CASE QueueStep
    <2>1. ASSUME NEW r \in Runtime, NEW j \in Job, Submit(r, j)
          PROVE  docs'[k].status = docs[k].status
        BY <1>1, <1>2, <1>3, <2>1 DEF Submit, JobFits
    <2>2. ASSUME NEW r \in Runtime, NEW j \in Job, EnqueuePersist(r, j)
          PROVE  docs'[k].status = docs[k].status
        BY <1>3, <2>2 DEF EnqueuePersist, PersistAllowed
    <2>3. ASSUME NEW r \in Runtime, NEW j \in Job, Renew(r, j)
          PROVE  docs'[k].status = docs[k].status
        BY <1>1, <1>3, <2>3, UpdaterEffects DEF Renew
    <2>4. ASSUME NEW r \in Runtime, NEW j \in Job, Reconcile(r, j)
          PROVE  docs'[k].status = docs[k].status
        BY <1>2, <1>3, <2>4 DEF Reconcile, ReconcileAllowed
    <2>5. ASSUME NEW r \in Runtime, DrainClaim(r) \/ DrainFault(r)
          PROVE  docs'[k].status = docs[k].status
        BY <1>2, <1>3, <2>5 DEF DrainClaim, DrainFault, ClaimAllowed, TypeOK, QueueTypeOK
    <2>6. ASSUME NEW i \in DOMAIN runs, Finalize(i)
          PROVE  docs'[k].status = docs[k].status
        <3>1. runs[i].job \in Job
            BY RunsAt DEF TypeOK, QueueTypeOK, Runs
        <3> QED BY <1>1, <1>2, <1>3, <2>6, <3>1, UpdaterEffects DEF Finalize
    <2>7. ASSUME NEW j \in Job, LeaseExpires(j)
          PROVE  docs'[k].status = docs[k].status
        <3> DEFINE d == [docs[j] EXCEPT !.qr.lease = "expired"]
        <3>1. d.status = docs[j].status
            BY <1>1 DEF Documents
        <3>2. Store(j, d)
            BY <2>7 DEF LeaseExpires
        <3> HIDE DEF d
        <3> QED BY <1>3, <3>1, <3>2
    <2>8. ASSUME NEW r \in Runtime, NEW j \in Job, ShutdownRelease(r, j)
          PROVE  docs'[k].status = docs[k].status
        BY <1>1, <2>8 DEF ShutdownRelease
    <2>9. ASSUME NEW r \in Runtime, NEW j \in Job,
                 EnqueueCheck(r, j) \/ DrainShift(r) \/ Start(r) \/ Shutdown(r)
          PROVE  docs'[k].status = docs[k].status
        BY <2>9 DEF EnqueueCheck, DrainShift, Start, Shutdown
    <2> QED BY <1>4, <2>1, <2>2, <2>3, <2>4, <2>5, <2>6, <2>7, <2>8, <2>9
               DEF QueueStep, QueueNext
<1>5. CASE RunStep
    <2>1. PICK i \in DOMAIN runs : SkillStep(i)
        BY <1>5 DEF RunStep
    <2>2. runs[i].job \in Job
        BY RunsAt DEF TypeOK, QueueTypeOK, Runs
    <2>3. CASE UNCHANGED docs
        BY <2>3
    <2>4. CASE runs[i].stage \in {"loaded", "saving", "failing"} /\ \E d : Store(runs[i].job, d)
        <3>1. i \in Executions(runs[i].job)
            BY <2>4 DEF Executions, Ended
        <3>2. runs[i].job # k
            BY <1>1, <2>4, <3>1 DEF JobFits, RunFits, RunInStep, IsTerminal, TerminalStatuses
        <3> QED BY <1>3, <2>2, <2>4, <3>2
    <2> QED BY <2>1, <2>3, <2>4
            DEF SkillStep, RunnerStep, ChildExits, RunLoad, RunBegin, RunExit, RunExitInvalid,
                RunPersist, RunPublish, RunFail, At, SaveThrows
<1>6. CASE RequestStep
    <2>1. PICK c \in Request : CancelStep(c)
        BY <1>6 DEF RequestStep
    <2>2. ASSUME CancelMark(c)
          PROVE  docs'[k].status = docs[k].status
        <3>1. requests[c].job \in Job /\ Store(requests[c].job, MarkedBy(c))
            BY <2>2, MarkOutcome DEF TypeOK, CancelTypeOK
        <3>2. MarkedBy(c).status = docs[requests[c].job].status
            BY <1>1, <3>1, MarkedDocument DEF MarkedBy
        <3> QED BY <1>3, <3>1, <3>2
    <2>3. ASSUME CancelSave(c)
          PROVE  docs'[k].status = docs[k].status
        <3> DEFINE req == requests[c]
        <3>1. /\ req.job \in Job /\ req.base \in Documents /\ req.want \in Documents /\ SaveFits(req)
            BY <2>3 DEF CancelSave, TypeOK, CancelTypeOK, Requests, CancelInv, RequestFits
        <3>2. CASE UNCHANGED docs
            BY <3>2
        <3>3. ASSUME ~SaveConflicts(docs[req.job], req.base, req.want),
                     NEW d \in SaveResults(docs[req.job], req.base, req.want, FALSE), Store(req.job, d)
              PROVE  docs'[k].status = docs[k].status
            <4>1. PICK aged \in BOOLEAN : ~aged /\ d \in SaveResults(docs[req.job], req.base, req.want, aged)
                BY <3>3, Zenon
            <4> HIDE DEF req
            <4>2. req.want.status \in {"cancelling"} \cup CancelStatuses /\ ~IsTerminal(req.base)
                BY <3>1 DEF SaveFits
            <4>3. IsTerminal(docs[req.job]) => d.status = docs[req.job].status
                BY <1>1, <3>1, <3>3, <4>1, <4>2, RequestSaves
            <4> QED BY <1>3, <3>1, <3>3, <4>3
        <3> QED BY <2>3, <3>2, <3>3 DEF CancelSave
    <2> QED BY <2>1, <2>2, <2>3 DEF CancelStep, CancelRead, queueVars
<1>7. CASE ProcessExit \/ UNCHANGED vars
    BY <1>7 DEF ProcessExit, Exit, vars, queueVars
<1> QED BY <1>4, <1>5, <1>6, <1>7 DEF Next

(* With requests, too, an end is final: the execution that still works and the     *)
(* request that still saves its copy find a conflict.  The condition on every job  *)
(* excludes what breaks it, a second runtime that claims a job being cancelled.    *)
THEOREM ShieldedEndsAreFinal ==
    Attended /\ (\A j \in Job : Shielded(j)) /\ MaxConcurrent = 1 /\ MaxFaults = 0
        => (Spec => TerminalIsFinal)
PROOF
<1> SUFFICES ASSUME Attended, \A j \in Job : Shielded(j), MaxConcurrent = 1, MaxFaults = 0
             PROVE  Spec => TerminalIsFinal
    OBVIOUS
<1>1. TypeOK /\ TypeOK' /\ (faults = 0 => CancelInv) /\ [Next]_vars =>
          [\A j \in Job : IsTerminal(docs[j]) => docs'[j].status = docs[j].status]_vars
    <2> SUFFICES ASSUME TypeOK, TypeOK', faults = 0 => CancelInv, [Next]_vars, NEW k \in Job, IsTerminal(docs[k])
                 PROVE  docs'[k].status = docs[k].status
        OBVIOUS
    <2>1. faults = 0 /\ faults' = 0
        BY DEF TypeOK, QueueTypeOK
    <2> QED BY <2>1, EndsStay
<1> QED BY <1>1, CancelsHold, OneClaim, TypeCorrect, PTL DEF Spec, TerminalIsFinal

-----------------------------------------------------------------------------
(* Started jobs and partial output.  While nobody is lost, whatever has begun with *)
(* a job is an execution, which keeps the job away from everyone else.             *)

(* No call fails and no runtime is lost to another one: what the last runtime leaves *)
(* when it is killed, nobody takes up.                                               *)
Steady ==
    /\ Attended /\ MaxFaults = 0
    /\ \A j \in Job : Shielded(j)
    /\ Stops = {} \/ \A r, s \in Runtime : r = s

(* The execution has recorded its output and is on its way to an end that shows it *)
Reported(run) ==
    \/ run.stage = "saving" /\ run.want.status # "cancelled"
    \/ run.stage \in {"failing", "publishing", "finalizing"}

Settled(j) == IsTerminal(docs[j]) \/ Executions(j) # {}

QuietJob(j) ==
    /\ docs[j].qr.lease # "expired" /\ (docs[j].qr.lease = "valid" => Executions(j) # {})
    /\ docs[j].status \in RunningStatuses \cup {"cancelling"} => Executions(j) # {}
    /\ IsTerminal(docs[j]) => docs[j].qr.heartbeatAt # NoOne
    /\ j \in files => /\ docs[j].status # "cancelled"
                      /\ IsTerminal(docs[j]) \/ \E i \in Executions(j) : Reported(runs[i])

(* A request saves the lease of an execution only if that goes on or has ended its job *)
QuietRequest(req) ==
    req.stage = "saving" =>
        /\ req.want.qr.heartbeatAt # NoOne /\ req.want.qr.lease # "expired"
        /\ req.want.status = "cancelling" \/ req.want.qr.lease = "valid" => Settled(req.job)

Quiet == /\ \A j \in Job : QuietJob(j)
         /\ \A c \in Request : QuietRequest(requests[c])

LEMMA ExecutedJobs ==
    ASSUME CancelInv, NEW j \in Job, Shielded(j), NEW i \in Executions(j)
    PROVE  /\ Working(docs[j], runs[i].rt) /\ RunFits(runs[i], docs[j]) /\ RunInStep(runs[i], docs[j])
           /\ Held(docs[j].qr) /\ docs[j].qr.lease = "valid" /\ docs[j].qr.heartbeatAt # NoOne
           /\ runs[i].job = j /\ \A k \in Executions(j) : k = i
PROOF
<1>1. RunFits(runs[i], docs[j]) /\ runs[i].job = j /\ \A k \in Executions(j) : k = i
    BY DEF CancelInv, JobFits, Executions
<1>2. Working(docs[j], runs[i].rt) /\ RunInStep(runs[i], docs[j])
    BY <1>1 DEF RunFits
<1>3. Held(docs[j].qr) /\ docs[j].qr.lease = "valid" /\ docs[j].qr.heartbeatAt # NoOne
    BY <1>2 DEF Working, Held, IsLeaseValid
<1> QED BY <1>1, <1>2, <1>3

(* A job nobody works on is still to begin or has ended *)
LEMMA IdleJobs ==
    ASSUME CancelInv, Quiet, NEW j \in Job, Shielded(j), ~Held(docs[j].qr)
    PROVE  /\ Executions(j) = {} /\ docs[j].status \notin RunningStatuses \cup {"cancelling"}
           /\ docs[j].qr.lease \notin {"valid", "expired"}
           /\ ~IsTerminal(docs[j]) => j \notin files
PROOF
<1>1. Executions(j) = {}
    BY UnheldIsIdle DEF CancelInv
<1> HIDE DEF Executions
<1> QED BY <1>1 DEF Quiet, QuietJob

-----------------------------------------------------------------------------
(* A step that concerns one job *)

Stays(k) ==
    /\ docs'[k] = docs[k] /\ (k \in files' => k \in files)
    /\ Executions(k)' = Executions(k)
    /\ \A i \in Executions(k) : Reported(runs[i]) => Reported(runs'[i])

LEMMA StayingJobs ==
    ASSUME NEW k \in Job, QuietJob(k), Stays(k)
    PROVE  QuietJob(k)' /\ (Settled(k) => Settled(k)')
PROOF
<1>1. Executions(k)' = Executions(k) /\ docs'[k] = docs[k]
    BY DEF Stays
<1>2. \A i \in Executions(k) : Reported(runs[i]) => Reported(runs'[i])
    BY DEF Stays
<1> HIDE DEF Executions, Reported
<1>3. k \in files' => IsTerminal(docs'[k]) \/ \E i \in Executions(k)' : Reported(runs'[i])
    BY <1>1, <1>2 DEF Stays, QuietJob
<1>4. QuietJob(k)'
    BY <1>1, <1>3 DEF Stays, QuietJob
<1>5. Settled(k) => Settled(k)'
    BY <1>1 DEF Settled
<1> QED BY <1>4, <1>5

LEMMA QuietJobStep ==
    ASSUME TypeOK, Quiet, UNCHANGED requests, NEW j \in Job, \A k \in Job : k # j => Stays(k),
           QuietJob(j)', Settled(j) => Settled(j)'
    PROVE  Quiet'
PROOF
<1>1. ASSUME NEW k \in Job
      PROVE  QuietJob(k)' /\ (Settled(k) => Settled(k)')
    <2>1. CASE k = j
        BY <2>1, Zenon
    <2>2. CASE k # j
        <3>1. QuietJob(k) /\ Stays(k)
            BY <2>2 DEF Quiet
        <3> QED BY <3>1, StayingJobs, Zenon
    <2> QED BY <2>1, <2>2
<1>2. ASSUME NEW c \in Request
      PROVE  QuietRequest(requests[c])'
    <2>1. requests[c].stage = "saving" => requests[c].job \in Job
        BY DEF TypeOK, CancelTypeOK
    <2> HIDE DEF Settled
    <2> QED BY <1>1, <2>1 DEF Quiet, QuietRequest
<1> QED BY <1>1, <1>2, Zenon DEF Quiet

LEMMA QuietWrite ==
    ASSUME TypeOK, Quiet, UNCHANGED <<requests, runs, files>>, NEW j \in Job, NEW d, Store(j, d),
           d.qr.lease # "expired", d.qr.lease = "valid" => Executions(j) # {},
           d.status \in RunningStatuses \cup {"cancelling"} => Executions(j) # {},
           IsTerminal(d) => d.qr.heartbeatAt # NoOne,
           IsTerminal(docs[j]) => IsTerminal(d),
           j \in files => d.status # "cancelled"
    PROVE  Quiet'
PROOF
<1>1. docs'[j] = d /\ \A k \in Job : k # j => docs'[k] = docs[k]
    BY DEF Store, TypeOK, QueueTypeOK
<1>2. \A k \in Job : Executions(k)' = Executions(k)
    BY DEF Executions
<1> HIDE DEF Executions
<1>3. \A k \in Job : k # j => Stays(k)
    BY <1>1, <1>2 DEF Stays
<1>4. QuietJob(j)
    BY DEF Quiet
<1>5. j \in files => IsTerminal(d) \/ \E i \in Executions(j) : Reported(runs[i])
    BY <1>4 DEF QuietJob
<1>6. QuietJob(j)'
    BY <1>1, <1>2, <1>5 DEF QuietJob
<1>7. Settled(j) => Settled(j)'
    BY <1>1, <1>2 DEF Settled
<1> QED BY <1>3, <1>6, <1>7, QuietJobStep

LEMMA QuietRest ==
    ASSUME Quiet, UNCHANGED <<docs, requests, runs, files>>
    PROVE  Quiet'
PROOF
BY DEF Quiet, QuietJob, QuietRequest, Settled, Executions, Reported

(* The leases of the updaters *)
LEMMA UpdaterLeases ==
    ASSUME NEW d \in Documents, NEW r
    PROVE  /\ Claimed(d, r).qr.lease = "valid" /\ Renewed(d).qr.lease = "valid"
           /\ Persisted(d).qr.lease = "none" /\ Finalized(d).qr.lease = "none"
           /\ d.status = "queued" => Reconciled(d).qr.lease = "none"
PROOF
<1>1. d.qr \in QueueRuntimes
    BY DEF Documents
<1> QED BY <1>1 DEF Claimed, Renewed, Persisted, Finalized, Reconciled, Released, Documents, QueueRuntimes

-----------------------------------------------------------------------------
(* Steps of the queue *)

LEMMA SubmissionQuiet ==
    ASSUME TypeOK, CancelInv, Quiet, UNCHANGED <<requests, files>>, NEW r \in Runtime, NEW j \in Job,
           Shielded(j), Submit(r, j) \/ EnqueuePersist(r, j) \/ Reconcile(r, j)
    PROVE  Quiet'
PROOF
<1>1. docs[j] \in Documents /\ docs \in [Job -> Documents] /\ UNCHANGED runs
    BY DEF TypeOK, QueueTypeOK, Submit, EnqueuePersist, Reconcile
<1>2. CASE Submit(r, j)
    <2>1. docs[j] = Absent
        BY <1>2 DEF Submit, CancelInv, JobFits
    <2>2. ~Held(docs[j].qr) /\ ~IsTerminal(docs[j])
        BY <2>1 DEF Absent, Released, Held, IsTerminal, TerminalStatuses
    <2>3. Created.status = "queued" /\ Created.qr.lease = "none"
        BY DEF Created, Absent, Released
    <2>4. ~IsTerminal(Created) /\ Created.status \notin RunningStatuses \cup {"cancelling"}
        BY <2>3 DEF IsTerminal, TerminalStatuses, RunningStatuses
    <2>5. j \notin files
        BY <2>2, IdleJobs
    <2> QED BY <1>1, <1>2, <2>2, <2>3, <2>4, <2>5, QuietWrite DEF Submit
<1>3. CASE EnqueuePersist(r, j)
    <2>1. CASE PersistAllowed(docs[j])
        <3> DEFINE d == Persisted(docs[j])
        <3>1. ~Held(docs[j].qr) /\ ~IsTerminal(docs[j]) /\ Store(j, d)
            BY <1>3, <2>1 DEF EnqueuePersist, PersistAllowed
        <3>2. d.status = "queued" /\ d.qr.lease = "none"
            BY <1>1, UpdaterEffects, UpdaterLeases
        <3>3. ~IsTerminal(d) /\ d.status \notin RunningStatuses \cup {"cancelling"}
            BY <3>2 DEF IsTerminal, TerminalStatuses, RunningStatuses
        <3>4. j \notin files
            BY <3>1, IdleJobs
        <3> HIDE DEF d
        <3> QED BY <1>1, <3>1, <3>2, <3>3, <3>4, QuietWrite
    <2>2. CASE ~PersistAllowed(docs[j])
        BY <1>1, <1>3, <2>2, QuietRest DEF EnqueuePersist
    <2> QED BY <2>1, <2>2
<1>4. CASE Reconcile(r, j)
    <2> DEFINE d == Reconciled(docs[j])
    <2>1. ~Held(docs[j].qr) /\ IsActive(docs[j]) /\ Store(j, d)
        BY <1>4 DEF Reconcile, ReconcileAllowed
    <2>2. docs[j].status = "queued"
        BY <2>1, IdleJobs DEF IsActive, ActiveStatuses
    <2>3. d.status = "queued" /\ d.qr.lease = "none"
        BY <1>1, <2>2, UpdaterEffects, UpdaterLeases
    <2>4. ~IsTerminal(d) /\ ~IsTerminal(docs[j]) /\ d.status \notin RunningStatuses \cup {"cancelling"}
        BY <2>2, <2>3 DEF IsTerminal, TerminalStatuses, RunningStatuses
    <2>5. j \notin files
        BY <2>1, <2>4, IdleJobs
    <2> HIDE DEF d
    <2> QED BY <1>1, <2>1, <2>3, <2>4, <2>5, QuietWrite
<1> QED BY <1>2, <1>3, <1>4

LEMMA RenewQuiet ==
    ASSUME TypeOK, CancelInv, Quiet, UNCHANGED <<requests, files>>, NEW r \in Runtime, NEW j \in Job,
           Shielded(j), Renew(r, j)
    PROVE  Quiet'
PROOF
<1>1. docs[j] \in Documents /\ docs \in [Job -> Documents] /\ UNCHANGED runs
    BY DEF TypeOK, QueueTypeOK, Renew
<1>2. CASE RenewAllowed(docs[j], r)
    <2> DEFINE d == Renewed(docs[j])
    <2>1. Store(j, d)
        BY <1>2 DEF Renew
    <2>2. d.status = docs[j].status /\ d.qr.lease = "valid" /\ d.qr.heartbeatAt = "runtime"
        BY <1>1, UpdaterEffects, UpdaterLeases
    <2>3. Executions(j) # {}
        BY DEF Renew, RunsOf, Executions
    <2>4. j \in files => docs[j].status # "cancelled"
        BY DEF Quiet, QuietJob
    <2>5. IsTerminal(d) <=> IsTerminal(docs[j])
        BY <2>2 DEF IsTerminal
    <2> HIDE DEF d, Executions
    <2> QED BY <1>1, <2>1, <2>2, <2>3, <2>4, <2>5, NoOneAssumption, QuietWrite
<1>3. CASE ~RenewAllowed(docs[j], r)
    <2>1. UNCHANGED docs
        BY <1>1, <1>3 DEF Renew, Store
    <2> QED BY <1>1, <2>1, QuietRest
<1> QED BY <1>2, <1>3

LEMMA ClaimQuiet ==
    ASSUME TypeOK, CancelInv, ClaimsOnce, Quiet, UNCHANGED <<requests, files, faults>>,
           NEW r \in Runtime, DrainClaim(r) \/ DrainFault(r), \A j \in Job : Shielded(j)
    PROVE  Quiet'
PROOF
<1>0. claiming[r] \in Job
    BY NoJobAssumption DEF DrainClaim, DrainFault, TypeOK, QueueTypeOK
<1> PICK j \in Job : j = claiming[r]
    BY <1>0
<1> DEFINE d == Claimed(docs[j], r)
<1> DEFINE n == Len(runs) + 1
<1>1. DrainClaim(r) /\ docs \in [Job -> Documents] /\ runs \in Seq(Runs)
    BY LimitAssumption DEF DrainClaim, DrainFault, Fault, TypeOK, QueueTypeOK
<1>2. CASE UNCHANGED <<docs, runs>>
    BY <1>2, QuietRest
<1>3. CASE /\ ClaimAllowed(docs[j], r) /\ Store(j, d) /\ runs' = Append(runs, NewRun(r, j))
    <2>1. Executions(j) = {}
        BY <1>1, <1>3, ClaimFindsNoExecution DEF CancelInv, DrainClaim
    <2>2. /\ docs[j] \in Documents /\ docs[j].status = "queued"
          /\ d.status = "queued"
        BY <1>1, <1>3, UpdaterEffects DEF ClaimAllowed
    <2>3. d.qr.lease = "valid"
        BY <2>2, UpdaterLeases
    <2>4. ~IsTerminal(docs[j]) /\ ~IsTerminal(d)
        BY <2>2 DEF IsTerminal, TerminalStatuses
    <2> HIDE DEF d
    <2>5. docs'[j] = d /\ \A k \in Job : k # j => docs'[k] = docs[k]
        BY <1>1, <1>3 DEF Store
    <2>6. /\ DOMAIN runs' = DOMAIN runs \cup {n} /\ n \notin DOMAIN runs
          /\ \A i \in DOMAIN runs : runs'[i] = runs[i]
          /\ runs'[n] = NewRun(r, j)
        <3>1. Len(runs) \in Nat /\ DOMAIN runs = 1..Len(runs)
            BY <1>1, LenProperties
        <3> QED BY <1>1, <1>3, <3>1
    <2> HIDE DEF n
    <2>7. NewRun(r, j).job = j /\ ~Ended(NewRun(r, j))
        BY DEF NewRun, Ended
    <2>8. n \in Executions(j)' /\ \A k \in Job : k # j => Executions(k)' = Executions(k)
        BY <2>6, <2>7 DEF Executions
    <2>9. \A k \in Job : \A i \in Executions(k) : runs'[i] = runs[i]
        BY <2>6 DEF Executions
    <2> HIDE DEF Executions
    <2>10. \A k \in Job : k # j => Stays(k)
        BY <2>5, <2>8, <2>9 DEF Stays
    <2>11. j \notin files
        BY <1>1, <2>1, <2>4 DEF Quiet, QuietJob
    <2>12. QuietJob(j)'
        BY <2>2, <2>3, <2>4, <2>5, <2>8, <2>11 DEF QuietJob
    <2>13. Settled(j) => Settled(j)'
        BY <2>1, <2>4 DEF Settled
    <2> QED BY <1>1, <2>10, <2>12, <2>13, QuietJobStep
<1> QED BY <1>1, <1>2, <1>3 DEF DrainClaim

LEMMA FinalizeQuiet ==
    ASSUME TypeOK, CancelInv, Quiet, UNCHANGED <<requests, files, faults>>,
           NEW i \in DOMAIN runs, Finalize(i), NEW j \in Job, j = runs[i].job, Shielded(j)
    PROVE  Quiet'
PROOF
<1> DEFINE r == runs[i].rt
<1> DEFINE d == Finalized(docs[j])
<1> DEFINE done == [runs[i] EXCEPT !.stage = "done"]
<1>1. /\ docs \in [Job -> Documents] /\ docs[j] \in Documents /\ runs \in Seq(Runs)
      /\ \A k \in DOMAIN runs : runs[k] \in Runs
      /\ i \in Executions(j)
    BY RunsAt DEF TypeOK, QueueTypeOK, Finalize, Executions, Ended
<1>2. Working(docs[j], r)
    BY <1>1, ExecutedJobs
<1>3. Store(j, d) /\ runs' = [Lapse(r, j) EXCEPT ![i] = done]
    <2>1. ~Fault
        BY LimitAssumption DEF Fault, TypeOK, QueueTypeOK
    <2>2. FinalizeAllowed(docs[j], r)
        BY <1>2 DEF Working, FinalizeAllowed, OwnedBy
    <2> QED BY <2>1, <2>2 DEF Finalize
<1>4. /\ d.qr.lease = "none" /\ d.qr.heartbeatAt = "runtime" /\ IsTerminal(d)
      /\ d.status = IF IsActive(docs[j]) THEN "failed" ELSE docs[j].status
    BY <1>1, <1>2, UpdaterEffects, UpdaterLeases DEF Working
<1>5. docs'[j] = d /\ \A k \in Job : k # j => docs'[k] = docs[k]
    BY <1>1, <1>3 DEF Store
<1> HIDE DEF d
<1>6. DOMAIN runs' = DOMAIN runs /\ \A k \in DOMAIN runs : k # i => SameRun(runs'[k], runs[k])
    <2>1. \A run \in Runs : SameRun([run EXCEPT !.lapsed = TRUE], run) /\ SameRun(run, run)
        BY DEF SameRun, Runs
    <2>2. DOMAIN Lapse(r, j) = DOMAIN runs /\ \A k \in DOMAIN runs : SameRun(Lapse(r, j)[k], runs[k])
        BY <1>1, <2>1 DEF Lapse
    <2> HIDE DEF done, r
    <2> QED BY <1>3, <2>2
<1>7. ASSUME NEW k \in Job, k # j
      PROVE  Stays(k)
    <2>1. runs'[i].job = j
        <3>1. done.job = j
            BY <1>1 DEF Runs
        <3>2. i \in DOMAIN Lapse(r, j)
            BY DEF Lapse
        <3> HIDE DEF done, r
        <3> QED BY <1>3, <3>1, <3>2
    <2>2. Executions(k)' = Executions(k)
        BY <1>6, <1>7, <2>1 DEF Executions, SameRun, Ended
    <2>3. \A m \in Executions(k) : SameRun(runs'[m], runs[m])
        BY <1>6, <1>7 DEF Executions
    <2>4. \A m \in Executions(k) : Reported(runs[m]) => Reported(runs'[m])
        BY <2>3 DEF SameRun, Reported
    <2> QED BY <1>5, <1>7, <2>2, <2>4 DEF Stays
<1>8. j \in files => docs[j].status # "cancelled"
    BY DEF Quiet, QuietJob
<1> HIDE DEF Executions
<1>9. d.status \notin RunningStatuses \cup {"cancelling"}
    BY <1>4 DEF IsTerminal, TerminalStatuses, RunningStatuses
<1>10. QuietJob(j)'
    BY <1>4, <1>5, <1>8, <1>9, NoOneAssumption DEF QuietJob
<1>11. Settled(j)'
    BY <1>4, <1>5 DEF Settled
<1> QED BY <1>7, <1>10, <1>11, QuietJobStep

(* A lease in use does not run out: its heartbeats are in time *)
LEMMA LeasesLast ==
    ASSUME TypeOK, CancelInv, Quiet, TimelyHeartbeats, NEW j \in Job, Shielded(j), LeaseExpires(j)
    PROVE  FALSE
PROOF
<1>1. PICK i \in Executions(j) : TRUE
    BY DEF LeaseExpires, IsLeaseValid, Quiet, QuietJob
<1>2. runs[i].job = j /\ RunFits(runs[i], docs[j]) /\ docs[j].qr.owner = runs[i].rt
    BY ExecutedJobs DEF Working
<1>3. i \in RunsOf(docs[j].qr.owner, j)
    BY <1>2 DEF RunsOf, Executions
<1> QED BY <1>2, <1>3 DEF LeaseExpires, RunFits

-----------------------------------------------------------------------------
(* Steps of an execution *)

(* What a step leaves of its job, and that it does not go back behind its report *)
QuietMove(i, j) ==
    /\ \E d \in Documents :
          /\ Store(j, d) /\ d.qr = docs[j].qr
          /\ \/ d = docs[j]
             \/ /\ runs[i].stage \in {"loaded", "saving", "failing"}
                /\ d.status \in {docs[j].status, runs[i].want.status}
    /\ runs[i].stage \in {"starting", "loaded", "working", "saving", "failing", "publishing"}
    /\ \E new : runs' = [runs EXCEPT ![i] = new] /\ new.job = j /\ ~Ended(new)
    /\ runs[i].stage \in {"saving", "failing", "publishing"} => Reported(runs'[i])
    /\ \/ UNCHANGED files
       \/ /\ runs[i].stage = "working" /\ UNCHANGED docs
          /\ files' = files \cup {j} /\ Reported(runs'[i])

LEMMA RunMoves ==
    ASSUME Provider = "sqlite", TypeOK, UNCHANGED faults, NEW i \in DOMAIN runs, SkillStep(i),
           NEW j \in Job, j = runs[i].job, RunFits(runs[i], docs[j])
    PROVE  QuietMove(i, j)
PROOF
<1> DEFINE Goes == \E new : runs' = [runs EXCEPT ![i] = new] /\ new.job = j /\ ~Ended(new)
<1> DEFINE Reports == runs[i].stage \in {"saving", "failing", "publishing"} => Reported(runs'[i])
<1>1. /\ runs[i] \in Runs /\ docs \in [Job -> Documents] /\ docs[j] \in Documents /\ ~Fault
      /\ runs[i].want \in Documents /\ runs[i].base \in Documents
    BY RunsAt, LimitAssumption DEF TypeOK, QueueTypeOK, Fault, Runs
<1>2. Store(j, docs[j]) <=> UNCHANGED docs
    BY <1>1 DEF Store
<1>3. ASSUME NEW stage, NEW base, NEW want, Advance(i, stage, base, want), stage \notin {"done", "dead"}
      PROVE  runs'[i].stage = stage /\ runs'[i].want = want /\ Goes
    <2> DEFINE new == [runs[i] EXCEPT !.stage = stage, !.base = base, !.want = want]
    <2>1. new.job = j /\ ~Ended(new) /\ new.stage = stage /\ new.want = want
        BY <1>1, <1>3 DEF Runs, Ended
    <2>2. runs' = [runs EXCEPT ![i] = new]
        BY <1>3 DEF Advance
    <2> HIDE DEF new
    <2>3. runs'[i] = new
        BY <2>2 DEF TypeOK, QueueTypeOK
    <2> QED BY <2>1, <2>2, <2>3
<1>4. ASSUME Stop(i)
      PROVE  Reported(runs'[i]) /\ Goes
    <2> DEFINE new == [runs[i] EXCEPT !.stage = "finalizing", !.beats = FALSE, !.base = Absent, !.want = Absent]
    <2>1. new.job = j /\ ~Ended(new) /\ new.stage = "finalizing"
        BY <1>1 DEF Runs, Ended
    <2>2. runs' = [runs EXCEPT ![i] = new]
        BY <1>4 DEF Stop
    <2> HIDE DEF new
    <2>3. runs'[i] = new
        BY <2>2 DEF TypeOK, QueueTypeOK
    <2> QED BY <2>1, <2>2, <2>3 DEF Reported
<1> HIDE DEF Goes, Reports
<1>5. ASSUME runs[i].stage \in {"starting", "loaded", "working", "saving", "failing", "publishing"},
             Goes, Reports, UNCHANGED docs,
             \/ UNCHANGED files
             \/ runs[i].stage = "working" /\ files' = files \cup {j} /\ Reported(runs'[i])
      PROVE  QuietMove(i, j)
    BY <1>1, <1>2, <1>5 DEF QuietMove, Goes, Reports
<1>6. ASSUME runs[i].stage \in {"loaded", "saving", "failing"}, Goes, Reports, UNCHANGED files,
             NEW aged \in BOOLEAN, NEW d \in Saves(runs[i], aged), Store(j, d)
      PROVE  QuietMove(i, j)
    <2>1. runs[i].want.qr = runs[i].base.qr /\ Exists(runs[i].want)
        BY <1>6 DEF RunFits
    <2>2. d \in Documents
        BY <1>1, <1>6, SavesAreDocuments DEF Saves
    <2>3. d.qr = docs[j].qr /\ d.status \in {docs[j].status, runs[i].want.status}
        BY <1>1, <1>6, <2>1, ExecutionSaves
    <2> QED BY <1>6, <2>2, <2>3 DEF QuietMove, Goes, Reports
<1>7. runs[i].stage \in {"starting", "loaded", "working"} \/ Reported(runs'[i]) => Reports
    BY DEF Reports
<1>8. CASE RunLoad(i)
    <2>1. /\ runs[i].stage = "starting" /\ UNCHANGED <<docs, files>>
          /\ \/ Advance(i, "loaded", docs[j], [docs[j] EXCEPT !.status = "generating"])
             \/ Stop(i)
        BY <1>8 DEF RunLoad, At
    <2>2. Goes
        BY <1>3, <1>4, <2>1
    <2> QED BY <1>5, <1>7, <2>1, <2>2
<1>9. CASE RunBegin(i)
    <2>1. runs[i].stage = "loaded" /\ UNCHANGED files
        BY <1>9 DEF RunBegin, At
    <2>2. ASSUME UNCHANGED docs, Stop(i)
          PROVE  QuietMove(i, j)
        BY <1>4, <1>5, <1>7, <2>1, <2>2
    <2>3. ASSUME NEW d \in Saves(runs[i], FALSE), Store(j, d), Advance(i, "working", Saved(runs[i], d), Saved(runs[i], d))
          PROVE  QuietMove(i, j)
        <3>1. PICK aged \in BOOLEAN : d \in Saves(runs[i], aged)
            BY <2>3, Zenon
        <3>2. Goes
            BY <1>3, <2>3
        <3> QED BY <1>6, <1>7, <2>1, <2>3, <3>1, <3>2
    <2> QED BY <1>1, <1>9, <2>2, <2>3 DEF RunBegin, SaveThrows
<1>10. CASE RunExit(i)
    <2>1. PICK result \in {"succeeded", "failed", "cancelled"}, outputs \in BOOLEAN :
              /\ files' = IF outputs THEN files \cup {j} ELSE files
              /\ Advance(i, "saving", runs[i].base, [runs[i].base EXCEPT !.status = ResultStatus(result, outputs),
                                                                         !.outputs = outputs])
        BY <1>10 DEF RunExit
    <2>2. runs[i].stage = "working" /\ UNCHANGED docs
        BY <1>10 DEF RunExit, At
    <2>3. PICK want : want = [runs[i].base EXCEPT !.status = ResultStatus(result, outputs), !.outputs = outputs]
        OBVIOUS
    <2>4. want.status = ResultStatus(result, outputs)
        BY <1>1, <2>3 DEF Documents
    <2>5. outputs => want.status # "cancelled"
        BY <2>4 DEF ResultStatus
    <2>6. Goes /\ runs'[i].stage = "saving" /\ runs'[i].want = want
        BY <1>3, <2>1, <2>3
    <2>7. outputs => Reported(runs'[i])
        BY <2>5, <2>6 DEF Reported
    <2> QED BY <1>5, <1>7, <2>1, <2>2, <2>6, <2>7
<1>11. CASE RunExitInvalid(i)
    <2>1. runs[i].stage = "working" /\ UNCHANGED <<docs, files>> /\ \E want : Advance(i, "failing", runs[i].base, want)
        BY <1>11 DEF RunExitInvalid, At
    <2>2. Goes
        BY <1>3, <2>1
    <2> QED BY <1>5, <1>7, <2>1, <2>2
<1>12. CASE RunPersist(i)
    <2>1. runs[i].stage = "saving" /\ UNCHANGED files
        BY <1>12 DEF RunPersist, At
    <2>2. ASSUME UNCHANGED docs, NEW want, Advance(i, "failing", runs[i].base, want)
          PROVE  QuietMove(i, j)
        <3>1. Goes /\ Reported(runs'[i])
            BY <1>3, <2>2 DEF Reported
        <3> QED BY <1>5, <1>7, <2>1, <2>2, <3>1
    <2>3. ASSUME NEW d \in Saves(runs[i], TRUE), Store(j, d), Advance(i, "publishing", Saved(runs[i], d), Saved(runs[i], d))
          PROVE  QuietMove(i, j)
        <3>1. PICK aged \in BOOLEAN : d \in Saves(runs[i], aged)
            BY <2>3, Zenon
        <3>2. Goes /\ Reported(runs'[i])
            BY <1>3, <2>3 DEF Reported
        <3> QED BY <1>6, <1>7, <2>1, <2>3, <3>1, <3>2
    <2> QED BY <1>1, <1>12, <2>2, <2>3 DEF RunPersist, SaveThrows
<1>13. CASE RunPublish(i)
    <2>1. runs[i].stage = "publishing" /\ UNCHANGED <<docs, files>> /\ Stop(i)
        BY <1>1, <1>13 DEF RunPublish, At
    <2> QED BY <1>4, <1>5, <1>7, <2>1
<1>14. CASE RunFail(i)
    <2>1. runs[i].stage = "failing" /\ UNCHANGED files /\ Stop(i)
        BY <1>14 DEF RunFail, At
    <2>2. ASSUME UNCHANGED docs
          PROVE  QuietMove(i, j)
        BY <1>4, <1>5, <1>7, <2>1, <2>2
    <2>3. ASSUME NEW d \in Saves(runs[i], TRUE), Store(j, d)
          PROVE  QuietMove(i, j)
        <3>1. PICK aged \in BOOLEAN : d \in Saves(runs[i], aged)
            BY <2>3, Zenon
        <3> QED BY <1>4, <1>6, <1>7, <2>1, <2>3, <3>1
    <2> QED BY <1>1, <1>14, <2>2, <2>3 DEF RunFail, SaveThrows
<1> QED BY <1>8, <1>9, <1>10, <1>11, <1>12, <1>13, <1>14 DEF SkillStep, RunnerStep, ChildExits

LEMMA RunQuiet ==
    ASSUME Provider = "sqlite", TypeOK, CancelInv, Quiet, UNCHANGED faults, RunStep,
           \A j \in Job : Shielded(j)
    PROVE  Quiet'
PROOF
<1>1. PICK i \in DOMAIN runs : SkillStep(i)
    BY DEF RunStep
<1>2. PICK j \in Job : j = runs[i].job
    BY RunsAt DEF TypeOK, QueueTypeOK, Runs
<1>3. ~Ended(runs[i]) /\ runs[i].stage # "finalizing"
    BY <1>1 DEF SkillStep, RunnerStep, ChildExits, RunLoad, RunBegin, RunExit, RunExitInvalid,
                RunPersist, RunPublish, RunFail, At, Ended
<1>4. i \in Executions(j)
    BY <1>2, <1>3 DEF Executions
<1>5. /\ RunFits(runs[i], docs[j]) /\ RunInStep(runs[i], docs[j]) /\ docs[j].qr.lease = "valid"
      /\ docs[j].qr.heartbeatAt # NoOne /\ \A k \in Executions(j) : k = i
    BY <1>4, ExecutedJobs
<1>6. QuietMove(i, j) /\ UNCHANGED requests
    BY <1>1, <1>2, <1>5, RunMoves DEF RunStep
<1>7. PICK d \in Documents :
          /\ Store(j, d) /\ d.qr = docs[j].qr
          /\ \/ d = docs[j]
             \/ /\ runs[i].stage \in {"loaded", "saving", "failing"}
                /\ d.status \in {docs[j].status, runs[i].want.status}
    BY <1>6 DEF QuietMove
<1>8. docs'[j] = d /\ \A k \in Job : k # j => docs'[k] = docs[k]
    BY <1>7 DEF Store, TypeOK, QueueTypeOK
<1>9. PICK new : runs' = [runs EXCEPT ![i] = new] /\ new.job = j /\ ~Ended(new)
    BY <1>6 DEF QuietMove
<1>10. /\ DOMAIN runs' = DOMAIN runs /\ runs'[i] = new
       /\ \A k \in DOMAIN runs : k # i => runs'[k] = runs[k]
    BY <1>9 DEF TypeOK, QueueTypeOK
<1>11. \A k \in Job : Executions(k)' = Executions(k)
    BY <1>2, <1>3, <1>9, <1>10 DEF Executions
<1>12. \A k \in Job : k # j => \A m \in Executions(k) : m # i /\ runs'[m] = runs[m]
    BY <1>2, <1>10 DEF Executions
<1> HIDE DEF Executions
<1>13. \A k \in Job : k # j => Stays(k)
    BY <1>6, <1>8, <1>11, <1>12 DEF Stays, QuietMove
<1>14. ASSUME j \in files' => docs'[j].status # "cancelled" /\ Reported(runs'[i])
       PROVE  Quiet'
    <2>1. i \in Executions(j)'
        BY <1>4, <1>11
    <2> HIDE DEF Reported
    <2>2. docs'[j].qr.lease = "valid" /\ docs'[j].qr.heartbeatAt # NoOne
        BY <1>5, <1>7, <1>8
    <2>3. QuietJob(j)'
        BY <1>14, <2>1, <2>2 DEF QuietJob
    <2>4. Settled(j)'
        BY <2>1 DEF Settled
    <2> HIDE DEF Stays, QuietJob, Settled
    <2> QED BY <1>6, <1>13, <2>3, <2>4, QuietJobStep
<1>15. CASE j \notin files
    <2>1. j \in files' => docs'[j].status # "cancelled" /\ Reported(runs'[i])
        BY <1>5, <1>6, <1>15 DEF QuietMove, RunInStep
    <2> QED BY <1>15, <2>1, <1>14
<1>16. CASE j \in files
    <2>1. docs[j].status # "cancelled" /\ (IsTerminal(docs[j]) \/ Reported(runs[i]))
        BY <1>5, <1>16 DEF Quiet, QuietJob
    <2>2. runs[i].stage \in {"saving", "failing", "publishing"} /\ (runs[i].stage = "saving" => runs[i].want.status # "cancelled")
        BY <1>5, <1>6, <2>1 DEF QuietMove, RunInStep, Reported, IsTerminal, TerminalStatuses
    <2>3. Reported(runs'[i])
        BY <1>6, <2>2 DEF QuietMove
    <2>4. d.status # "cancelled"
        BY <1>5, <1>7, <2>1, <2>2 DEF RunInStep
    <2> QED BY <1>8, <1>14, <2>3, <2>4
<1> QED BY <1>15, <1>16

-----------------------------------------------------------------------------
(* Steps of a request *)

LEMMA QuietRequestStep ==
    ASSUME TypeOK, Quiet, UNCHANGED <<runs, files>>, NEW c \in Request, NEW j \in Job,
           \A k \in Job : k # j => docs'[k] = docs[k],
           \A b \in Request : b # c => requests'[b] = requests[b],
           QuietJob(j)', Settled(j) => Settled(j)', QuietRequest(requests[c])'
    PROVE  Quiet'
PROOF
<1>1. \A k \in Job : Executions(k)' = Executions(k)
    BY DEF Executions
<1> HIDE DEF Executions
<1>2. ASSUME NEW k \in Job
      PROVE  QuietJob(k)' /\ (Settled(k) => Settled(k)')
    <2>1. CASE k = j
        BY <2>1, Zenon
    <2>2. CASE k # j
        <3>1. QuietJob(k) /\ Stays(k)
            BY <1>1, <2>2 DEF Quiet, Stays
        <3> QED BY <3>1, StayingJobs, Zenon
    <2> QED BY <2>1, <2>2
<1>3. ASSUME NEW b \in Request
      PROVE  QuietRequest(requests[b])'
    <2>1. CASE b = c
        BY <2>1, Zenon
    <2>2. CASE b # c
        <3>1. requests'[b] = requests[b] /\ (requests[b].stage = "saving" => requests[b].job \in Job)
            BY <2>2 DEF TypeOK, CancelTypeOK
        <3> HIDE DEF Settled
        <3> QED BY <1>2, <3>1 DEF Quiet, QuietRequest
    <2> QED BY <2>1, <2>2
<1> QED BY <1>2, <1>3, Zenon DEF Quiet

LEMMA ReadQuiet ==
    ASSUME TypeOK, Quiet, UNCHANGED files, NEW c \in Request, NEW r \in Runtime, NEW j \in Job, CancelRead(c, r, j)
    PROVE  Quiet'
PROOF
<1>1. UNCHANGED <<docs, runs>> /\ requests \in [Request -> Requests]
    BY DEF CancelRead, queueVars, TypeOK, CancelTypeOK
<1>2. \A b \in Request : b # c => requests'[b] = requests[b]
    BY <1>1 DEF CancelRead
<1>3. requests'[c].stage # "saving"
    BY <1>1 DEF CancelRead, Idle
<1>4. QuietRequest(requests[c])'
    BY <1>3 DEF QuietRequest
<1>5. QuietJob(j)' /\ (Settled(j) => Settled(j)')
    BY <1>1 DEF Quiet, QuietJob, Settled, Executions, Reported
<1> QED BY <1>1, <1>2, <1>4, <1>5, QuietRequestStep

LEMMA MarkQuiet ==
    ASSUME TypeOK, CancelInv, Quiet, UNCHANGED <<files, faults>>, NEW c \in Request, CancelMark(c),
           \A j \in Job : Shielded(j)
    PROVE  Quiet'
PROOF
<1> DEFINE req == requests[c]
<1> DEFINE d == MarkedBy(c)
<1>1. /\ req.stage = "read" /\ Store(req.job, d) /\ UNCHANGED runs
      /\ \A b \in Request : b # c => requests'[b] = requests[b]
    BY MarkOutcome
<1>2. PICK j \in Job : j = req.job
    BY <1>1 DEF TypeOK, CancelTypeOK
<1>3. docs[j] \in Documents /\ docs \in [Job -> Documents] /\ ReadFits(c, req) /\ QuietJob(j) /\ c # NoOne
    BY <1>1, <1>2, NoOneAssumption DEF TypeOK, QueueTypeOK, CancelInv, RequestFits, Quiet
<1>4. /\ d.status = docs[j].status
      /\ \/ d = docs[j] /\ ~CancelAllowed(docs[j], j)
         \/ /\ CancelAllowed(docs[j], j) /\ d.qr.heartbeatAt = c
            /\ d.qr.lease = IF Held(docs[j].qr) THEN "valid" ELSE "none"
    BY <1>2, <1>3, MarkedDocument DEF MarkedBy
<1>5. docs'[j] = d /\ \A k \in Job : k # j => docs'[k] = docs[k]
    BY <1>1, <1>2, <1>3 DEF Store
<1>6. Executions(j)' = Executions(j)
    BY <1>1 DEF Executions
<1> HIDE DEF d, Executions
<1>7. d.qr.lease # "expired" /\ (d.qr.lease = "valid" => Executions(j) # {})
    BY <1>3, <1>4 DEF QuietJob, Held, IsLeaseValid
<1>8. IsTerminal(d) <=> IsTerminal(docs[j])
    BY <1>4 DEF IsTerminal
<1>9. IsTerminal(d) => d.qr.heartbeatAt # NoOne
    BY <1>3, <1>4, <1>8 DEF QuietJob
<1>10. j \in files => IsTerminal(d) \/ \E i \in Executions(j) : Reported(runs[i])
    BY <1>3, <1>8 DEF QuietJob
<1>11. QuietJob(j)'
    BY <1>1, <1>3, <1>4, <1>5, <1>6, <1>7, <1>9, <1>10 DEF QuietJob
<1>12. Settled(j)' <=> IsTerminal(d) \/ Executions(j) # {}
    BY <1>5, <1>6 DEF Settled
<1>13. Settled(j) => Settled(j)'
    BY <1>8, <1>12 DEF Settled
<1>14. CASE requests'[c].stage = "rejected"
    <2>1. QuietRequest(requests[c])'
        BY <1>14 DEF QuietRequest
    <2> QED BY <1>1, <1>5, <1>11, <1>13, <2>1, QuietRequestStep
<1>15. ASSUME j \in Cancellable \/ IsTerminal(d) \/ CancelAllowed(docs[j], j),
              NEW status, WillSave(c, status)
       PROVE  Quiet'
    <2>1. /\ requests'[c].job = j /\ requests'[c].want.status = status /\ requests'[c].want.qr = d.qr
          /\ status = "cancelling" => StillRuns(d.qr) \/ req.wasActive
        BY <1>2, <1>15 DEF WillSave, CancelledStatus, d
    <2>2. d.qr.heartbeatAt # NoOne
        <3>1. Exists(docs[j])
            BY <1>2, <1>3 DEF ReadFits
        <3>2. CancelAllowed(docs[j], j) \/ IsTerminal(d)
            BY <1>8, <1>15, <3>1 DEF CancelAllowed
        <3> QED BY <1>3, <1>4, <1>9, <3>2
    <2>3. req.wasActive => IsTerminal(docs[j]) \/ Executions(j) # {}
        BY <1>2, <1>3 DEF ReadFits
    <2>4. status = "cancelling" \/ d.qr.lease = "valid" => Settled(j)'
        BY <1>7, <1>8, <1>12, <2>1, <2>3 DEF StillRuns, IsLeaseValid
    <2> HIDE DEF Settled
    <2>5. QuietRequest(requests[c])'
        BY <1>7, <2>1, <2>2, <2>4 DEF QuietRequest
    <2> QED BY <1>1, <1>5, <1>11, <1>13, <2>5, QuietRequestStep
<1> QED BY <1>2, <1>14, <1>15, MarkOutcome DEF d

LEMMA SaveQuiet ==
    ASSUME Provider = "sqlite", TypeOK, CancelInv, Quiet, UNCHANGED <<files, faults>>,
           NEW c \in Request, CancelSave(c), \A j \in Job : Shielded(j)
    PROVE  Quiet'
PROOF
<1> DEFINE req == requests[c]
<1>1. /\ req.stage = "saving" /\ UNCHANGED runs /\ requests \in [Request -> Requests]
      /\ req.job \in Job /\ req.base \in Documents /\ req.want \in Documents /\ SaveFits(req)
    BY DEF CancelSave, TypeOK, CancelTypeOK, Requests, CancelInv, RequestFits
<1>2. PICK j \in Job : j = req.job
    BY <1>1
<1>3. /\ docs[j] \in Documents /\ docs \in [Job -> Documents] /\ QuietJob(j)
      /\ \A i \in Executions(j) : /\ docs[j].qr.heartbeatAt # NoOne /\ RunInStep(runs[i], docs[j])
                                  /\ docs[j].qr.queueState # "terminal"
    BY <1>2, ExecutedJobs DEF TypeOK, QueueTypeOK, Quiet, Held
<1>4. /\ \A b \in Request : b # c => requests'[b] = requests[b]
      /\ requests'[c].stage # "saving"
    BY <1>1 DEF CancelSave, Answer, Idle
<1>5. QuietRequest(requests[c])'
    BY <1>4 DEF QuietRequest
<1>6. CASE UNCHANGED docs
    <2>1. QuietJob(j)' /\ (Settled(j) => Settled(j)')
        BY <1>1, <1>3, <1>6 DEF QuietJob, Settled, Executions, Reported
    <2> QED BY <1>1, <1>4, <1>5, <1>6, <2>1, QuietRequestStep
<1>7. ASSUME ~SaveConflicts(docs[j], req.base, req.want),
             NEW aged \in BOOLEAN, ~aged, NEW d \in SaveResults(docs[j], req.base, req.want, aged), Store(j, d)
      PROVE  Quiet'
    <2>1. /\ req.want.status \in {"cancelling"} \cup CancelStatuses /\ ~IsTerminal(req.base)
          /\ IsTerminal(docs[j]) \/ Pledge(req)
          /\ req.want.qr.heartbeatAt # NoOne /\ req.want.qr.lease # "expired"
          /\ req.want.status = "cancelling" \/ req.want.qr.lease = "valid" => Settled(j)
        BY <1>1, <1>2 DEF SaveFits, Quiet, QuietRequest
    <2> HIDE DEF req
    <2>2. /\ d.status \in {docs[j].status, req.want.status}
          /\ IsTerminal(docs[j]) => d.status = docs[j].status
          /\ d.qr.heartbeatAt \in {docs[j].qr.heartbeatAt, req.want.qr.heartbeatAt}
          /\ docs[j].qr.heartbeatAt # NoOne =>
                 d.qr = docs[j].qr /\ (req.want.qr # req.base.qr => req.want.qr.queueState = docs[j].qr.queueState)
        BY <1>1, <1>3, <1>7, <2>1, RequestSaves DEF req
    <2>3. docs'[j] = d /\ \A k \in Job : k # j => docs'[k] = docs[k]
        BY <1>3, <1>7 DEF Store
    <2>4. Executions(j)' = Executions(j)
        BY <1>1 DEF Executions
    <2> HIDE DEF Executions
    <2>5. docs[j].qr.heartbeatAt = NoOne => ~Settled(j)
        BY <1>3 DEF Settled, QuietJob
    <2>6. docs[j].qr.heartbeatAt = NoOne =>
              /\ d.qr.lease \in {docs[j].qr.lease, req.want.qr.lease}
              /\ IsTerminal(d) => d.qr.heartbeatAt # NoOne
        <3>1. SUFFICES ASSUME docs[j].qr.heartbeatAt = NoOne
                       PROVE  /\ d.qr.lease \in {docs[j].qr.lease, req.want.qr.lease}
                              /\ d.qr.heartbeatAt # NoOne
            OBVIOUS
        <3>2. req.want.qr # req.base.qr /\ req.want.qr.lease # "valid"
            BY <2>1, <2>5, <3>1 DEF Pledge, Settled
        <3>3. PICK l \in {docs[j].qr.lease, req.want.qr.lease} : d.qr = [req.want.qr EXCEPT !.lease = l]
            BY <1>1, <1>7, <3>2 DEF req, SaveResults, WrittenLeases, Written, Changed, Fields
        <3>4. req.want.qr \in QueueRuntimes
            BY <1>1 DEF req, Documents
        <3> QED BY <2>1, <3>3, <3>4 DEF QueueRuntimes
    <2>7. d.qr.lease # "expired" /\ (d.qr.lease = "valid" => Executions(j) # {})
        <3>1. CASE docs[j].qr.heartbeatAt # NoOne
            BY <1>3, <2>2, <3>1 DEF QuietJob
        <3>2. CASE docs[j].qr.heartbeatAt = NoOne
            BY <1>3, <2>1, <2>5, <2>6, <3>2 DEF QuietJob, Settled
        <3> QED BY <3>1, <3>2
    <2>8. d.status \in RunningStatuses \cup {"cancelling"} => Executions(j) # {}
        BY <1>3, <2>1, <2>2 DEF QuietJob, Settled, IsTerminal, TerminalStatuses, RunningStatuses, CancelStatuses
    <2>9. IsTerminal(d) => d.qr.heartbeatAt # NoOne
        BY <2>2, <2>6
    <2>10. IsTerminal(docs[j]) => IsTerminal(d) /\ d.status = docs[j].status
        BY <2>2 DEF IsTerminal
    <2>11. j \in files => d.status # "cancelled"
        <3>1. CASE IsTerminal(docs[j])
            BY <1>3, <2>10, <3>1 DEF QuietJob
        <3>2. CASE Executions(j) = {} /\ ~IsTerminal(docs[j])
            BY <1>3, <3>2 DEF QuietJob
        <3>3. CASE Executions(j) # {} /\ ~IsTerminal(docs[j])
            <4>1. docs[j].qr.heartbeatAt # NoOne /\ docs[j].qr.queueState # "terminal" /\ Pledge(req)
                BY <1>3, <2>1, <3>3
            <4>2. req.want.status = "cancelling"
                BY <2>2, <4>1 DEF Pledge
            <4> QED BY <1>3, <2>2, <4>2 DEF QuietJob
        <3> QED BY <3>1, <3>2, <3>3
    <2>12. j \in files => IsTerminal(d) \/ \E i \in Executions(j) : Reported(runs[i])
        BY <1>3, <2>10 DEF QuietJob
    <2>13. QuietJob(j)'
        BY <1>1, <2>3, <2>4, <2>7, <2>8, <2>9, <2>11, <2>12 DEF QuietJob
    <2>14. Settled(j) => Settled(j)'
        BY <2>3, <2>4, <2>10 DEF Settled
    <2> QED BY <1>1, <1>4, <1>5, <2>3, <2>13, <2>14, QuietRequestStep
<1>8. PICK aged \in BOOLEAN : aged = FALSE
    OBVIOUS
<1> QED BY <1>2, <1>6, <1>7, <1>8, Zenon DEF CancelSave

-----------------------------------------------------------------------------
(* The invariants *)

LEMMA StaysQuiet ==
    ASSUME Attended, \A j \in Job : Shielded(j), TypeOK, CancelInv, ClaimsOnce, Quiet,
           UNCHANGED faults, [Next]_vars, ~ProcessExit
    PROVE  Quiet'
PROOF
<1>1. Provider = "sqlite" /\ TimelyHeartbeats /\ "SIGTERM" \notin Stops
      /\ \A r \in Runtime : mode[r] # "stopping"
    BY DEF Attended, CancelInv
<1>2. CASE QueueStep
    <2>0. UNCHANGED <<requests, files>>
        BY <1>2 DEF QueueStep
    <2>1. ASSUME NEW r \in Runtime, NEW j \in Job,
                 \/ Submit(r, j) \/ EnqueueCheck(r, j) \/ EnqueuePersist(r, j)
                 \/ Renew(r, j) \/ Reconcile(r, j) \/ ShutdownRelease(r, j)
          PROVE  Quiet'
        <3>1. ~ShutdownRelease(r, j)
            BY <1>1 DEF ShutdownRelease
        <3>2. ASSUME EnqueueCheck(r, j)
              PROVE  Quiet'
            BY <2>0, <3>2, QuietRest DEF EnqueueCheck
        <3> QED BY <2>0, <2>1, <3>1, <3>2, SubmissionQuiet, RenewQuiet, Zenon
    <2>2. ASSUME NEW r \in Runtime, DrainShift(r) \/ Start(r) \/ Shutdown(r)
          PROVE  Quiet'
        BY <2>0, <2>2, QuietRest DEF DrainShift, Start, Shutdown
    <2>3. ASSUME NEW r \in Runtime, DrainClaim(r) \/ DrainFault(r)
          PROVE  Quiet'
        BY <2>0, <2>3, ClaimQuiet
    <2>4. ASSUME NEW i \in DOMAIN runs, Finalize(i)
          PROVE  Quiet'
        <3>1. PICK j \in Job : j = runs[i].job
            BY RunsAt DEF TypeOK, QueueTypeOK, Runs
        <3> QED BY <2>0, <2>4, <3>1, FinalizeQuiet
    <2> QED
        BY <1>1, <1>2, <2>1, <2>2, <2>3, <2>4, LeasesLast, Zenon DEF QueueStep, QueueNext
<1>3. CASE RequestStep
    <2>1. PICK c \in Request : CancelStep(c)
        BY <1>3 DEF RequestStep
    <2>2. UNCHANGED files
        BY <1>3 DEF RequestStep
    <2> QED BY <1>1, <2>1, <2>2, ReadQuiet, MarkQuiet, SaveQuiet DEF CancelStep
<1>4. CASE UNCHANGED vars
    BY <1>4, QuietRest DEF vars, queueVars
<1>5. CASE RunStep
    BY <1>1, <1>5, RunQuiet
<1> QED BY <1>2, <1>3, <1>4, <1>5 DEF Next

LEMMA QuietStart == Init => Quiet
PROOF
<1> SUFFICES ASSUME Init PROVE Quiet
    OBVIOUS
<1>1. /\ files = {} /\ \A j \in Job : docs[j] = Absent
      /\ \A c \in Request : requests[c].stage = "idle"
    BY DEF Init, QueueInit, SkillInit, CancelInit, Idle
<1>2. Absent.status = "absent" /\ Absent.qr.lease = "none"
    BY DEF Absent, Released
<1> QED BY <1>1, <1>2 DEF Quiet, QuietJob, QuietRequest, IsTerminal, TerminalStatuses, RunningStatuses

(* Once every runtime has been lost, nothing more happens to a job *)
Deserted == \A r \in Runtime : mode[r] = "dead"

LEMMA DesertedStep ==
    ASSUME TypeOK, Deserted, [Next]_vars
    PROVE  Deserted' /\ UNCHANGED files /\ \A j \in Job : docs'[j].status = docs[j].status
PROOF
<1>1. \A r \in Runtime : ~Running(r) /\ mode[r] \notin {"up", "off", "stopping"}
    BY DEF Deserted, Running
<1>2. \A i \in DOMAIN runs : runs[i].rt \in Runtime
    BY RunsAt DEF TypeOK, QueueTypeOK, Runs
<1>3. CASE QueueStep
    <2>1. PICK j \in Job : LeaseExpires(j)
        BY <1>1, <1>2, <1>3
           DEF QueueStep, QueueNext, Submit, EnqueueCheck, EnqueuePersist, Renew, Reconcile, ShutdownRelease,
               DrainShift, DrainClaim, DrainFault, Start, Shutdown, Finalize
    <2> QED BY <1>3, <2>1 DEF LeaseExpires, Store, Deserted, localVars, QueueStep, TypeOK, QueueTypeOK, Documents
<1>4. ~RunStep
    BY <1>1, <1>2 DEF RunStep, SkillStep, RunnerStep, ChildExits, RunLoad, RunBegin, RunExit, RunExitInvalid,
                      RunPersist, RunPublish, RunFail, At
<1>5. ~RequestStep
    <2>1. \A c \in Request : requests[c].stage \in {"read", "saving"} => requests[c].rt \in Runtime
        BY DEF TypeOK, CancelTypeOK, Requests
    <2> QED BY <1>1, <2>1 DEF RequestStep, CancelStep, CancelRead, CancelMark, CancelSave
<1>6. ~ProcessExit
    BY <1>1 DEF ProcessExit, Exit
<1>7. CASE UNCHANGED vars
    BY <1>7 DEF vars, queueVars, localVars, Deserted
<1> QED BY <1>3, <1>4, <1>5, <1>6, <1>7 DEF Next

LEMMA QuietHolds == Steady => (Spec /\ []ClaimsOnce => [](PartialOutputIsKept /\ (Deserted \/ Quiet)))
PROOF
<1> SUFFICES ASSUME Steady
             PROVE  Spec /\ []ClaimsOnce => [](PartialOutputIsKept /\ (Deserted \/ Quiet))
    OBVIOUS
<1>1. Attended /\ MaxFaults = 0 /\ \A j \in Job : Shielded(j)
    BY DEF Steady
<1>2. ASSUME TypeOK, Quiet
      PROVE  PartialOutputIsKept
    BY <1>2 DEF PartialOutputIsKept, Quiet, QuietJob, TypeOK, SkillTypeOK
<1>3. Init => PartialOutputIsKept /\ (Deserted \/ Quiet)
    BY <1>2, InitType, QuietStart
<1>4. ASSUME TypeOK, TypeOK', faults = 0 => CancelInv, ClaimsOnce, PartialOutputIsKept, Deserted \/ Quiet,
             [Next]_vars
      PROVE  (PartialOutputIsKept /\ (Deserted \/ Quiet))'
    <2>1. UNCHANGED faults /\ CancelInv
        BY <1>1, <1>4 DEF TypeOK, QueueTypeOK
    <2>2. CASE Deserted
        <3>1. Deserted' /\ UNCHANGED files /\ \A j \in Job : docs'[j].status = docs[j].status
            BY <1>4, <2>2, DesertedStep
        <3> QED BY <1>4, <3>1 DEF PartialOutputIsKept, TypeOK, SkillTypeOK
    <2>3. CASE Quiet /\ ~ProcessExit
        <3>1. Quiet'
            BY <1>1, <1>4, <2>1, <2>3, StaysQuiet
        <3>2. PartialOutputIsKept'
            BY <1>4, <3>1 DEF PartialOutputIsKept, Quiet, QuietJob, TypeOK, SkillTypeOK
        <3> QED BY <3>1, <3>2
    <2>4. CASE ProcessExit
        <3>1. PICK r \in Runtime : Exit(r)
            BY <2>4 DEF ProcessExit
        <3>2. \A q \in Runtime : q = r
            BY <2>1, <3>1 DEF Exit, CancelInv, Steady
        <3>3. Deserted'
            BY <1>4, <3>1, <3>2 DEF Exit, Deserted, TypeOK, QueueTypeOK
        <3> QED BY <1>4, <2>4, <3>3 DEF ProcessExit, Exit, PartialOutputIsKept
    <2> QED BY <1>4, <2>2, <2>3, <2>4
<1>5. /\ TypeOK /\ TypeOK' /\ (faults = 0 => CancelInv) /\ ClaimsOnce
      /\ PartialOutputIsKept /\ (Deserted \/ Quiet) /\ [Next]_vars
      => (PartialOutputIsKept /\ (Deserted \/ Quiet))'
    BY <1>4
<1> QED BY <1>1, <1>3, <1>5, CancelsHold, TypeCorrect, PTL DEF Spec

(* Partial output is never hidden behind plain "cancelled": a job whose execution *)
(* has recorded output ends as that execution says, or as cancelled with partial  *)
(* result, whatever requests read before and save after.  cancelJob computes its  *)
(* status from the copy it read; it saves that copy only if no execution has come *)
(* between.                                                                       *)
THEOREM PartialOutputSurvives ==
    Steady /\ MaxConcurrent = 1 => (Spec => []PartialOutputIsKept)
PROOF
BY QuietHolds, OneClaim, PTL
=============================================================================
