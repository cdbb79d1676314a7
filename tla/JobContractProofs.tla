-------------------------- MODULE JobContractProofs --------------------------
(***************************************************************************)
(* The queue implements JobContract: proofs for a queue without            *)
(* cancellation requests whose runtimes keep their heartbeats and stop by  *)
(* being killed, for every number of runtimes, jobs and faults and for     *)
(* both providers.                                                         *)
(***************************************************************************)
EXTENDS JobLeaseProofs

(* The environment of these theorems.  A request can leave a lease in a queue   *)
(* state where claimJob does not look at it; SIGTERM and a late heartbeat end a *)
(* lease while its execution goes on to write.                                  *)
Undisturbed == Request = {} /\ TimelyHeartbeats /\ "SIGTERM" \notin Stops

(* A runtime does not claim a job that it executes.  claimJob honours only the   *)
(* leases of others, so a job that is queued twice could be claimed twice.       *)
ClaimsOnce == \A r \in Runtime : claiming[r] # NoJob => claiming[r] \notin active[r]

(* What a claim leaves, and heartbeats leave as it is *)
Worked(q, r) ==
    /\ q.queueState = "running" /\ q.lease = "valid" /\ q.heartbeatAt = "runtime"
    /\ OwnedBy(q, r)

Waits(d, r)  == d.status = "queued" /\ Worked(d.qr, r)
Begun(d, r)  == d.status = "generating" /\ Worked(d.qr, r)
Closed(d, r) == IsTerminal(d) /\ OwnedBy(d.qr, r)

(* How an execution and the document of its job go together, stage by stage. *)
(* Only an execution that failed after its result was saved finds a closed   *)
(* job, and that takes a fault (n is the number of faults so far).           *)
InStep(run, d, n) ==
    \/ run.stage = "starting" /\ Waits(d, run.rt)
    \/ /\ run.stage = "loaded" /\ Waits(d, run.rt)
       /\ run.base.qr = d.qr /\ run.base.status = "queued"
       /\ run.want.qr = d.qr /\ run.want.status = "generating"
    \/ /\ run.stage = "working" /\ Begun(d, run.rt)
       /\ run.base.qr = d.qr /\ run.base.status = "generating"
    \/ /\ run.stage = "saving" /\ Begun(d, run.rt)
       /\ run.base.qr = d.qr /\ run.base.status = "generating"
       /\ run.want.qr = d.qr /\ run.want.status \in TerminalStatuses
    \/ run.stage = "publishing" /\ Closed(d, run.rt) /\ run.base.qr = d.qr
    \/ /\ run.stage = "failing"
       /\ \/ Begun(d, run.rt) /\ run.base.status = "generating"
          \/ Closed(d, run.rt) /\ n # 0
       /\ run.want.qr = d.qr /\ run.want.status = "failed" /\ run.base.qr = d.qr
    \/ run.stage = "finalizing" /\ (IsTerminal(d) \/ Waits(d, run.rt) \/ Begun(d, run.rt))

Fits(run, d, jobs, n) ==
    run.job \in jobs /\ InStep(run, d, n) /\ (run.beats \/ run.stage = "finalizing")

ContractInv ==
    /\ \A j \in Job : Orderly(docs[j])
    /\ \A j \in Job : submission[j].stage = "none" => docs[j] = Absent
    /\ \A r \in Runtime : mode[r] # "stopping"
    /\ \A i \in DOMAIN runs :
          Live(i) => Fits(runs[i], docs[runs[i].job], active[runs[i].rt], faults)
    /\ \A i, k \in DOMAIN runs : Live(i) /\ Live(k) /\ runs[i].job = runs[k].job => i = k

-----------------------------------------------------------------------------
(* What the contract sees of a document, and the moves of one job it allows *)

HolderOf(d) == IF Held(d.qr) THEN d.qr.owner ELSE NoOne

Move(d, e) ==
    \/ PhaseOf(e) = PhaseOf(d) /\ HolderOf(e) \in {HolderOf(d), NoOne}
    \/ PhaseOf(d) = "none" /\ PhaseOf(e) = "waiting" /\ HolderOf(e) = HolderOf(d)
    \/ PhaseOf(d) = "waiting" /\ PhaseOf(e) = "waiting" /\ HolderOf(d) = NoOne /\ HolderOf(e) \in Runtime
    \/ PhaseOf(d) = "waiting" /\ PhaseOf(e) = "started" /\ HolderOf(d) # NoOne /\ HolderOf(e) = HolderOf(d)
    \/ PhaseOf(d) = "started" /\ PhaseOf(e) = "waiting" /\ HolderOf(d) = NoOne /\ HolderOf(e) = NoOne
    \/ PhaseOf(d) \in {"waiting", "started"} /\ PhaseOf(e) = "ended" /\ HolderOf(e) \in {HolderOf(d), NoOne}

(* A write that the contract allows, and that does not reopen or rewrite an end *)
(* unless a call has failed                                                     *)
Allowed(d, e) == Move(d, e) /\ (IsTerminal(d) /\ e.status # d.status => faults # 0)

Moved == UNCHANGED docs \/ \E j \in Job : \E d \in Documents : Store(j, d) /\ Allowed(docs[j], d)

LEMMA MoveIsAStep ==
    ASSUME TypeOK, NEW j \in Job, NEW d, Store(j, d), Move(docs[j], d)
    PROVE  [Contract!ContractNext]_(Contract!contractVars)
PROOF
<1> DEFINE phase  == [k \in Job |-> PhaseOf(docs[k])]
<1> DEFINE holder == [k \in Job |-> IF Held(docs[k].qr) THEN docs[k].qr.owner ELSE NoOne]
<1>1. docs \in [Job -> Documents]
    BY DEF TypeOK, QueueTypeOK
<1>2. docs' = [docs EXCEPT ![j] = d]
    BY DEF Store
<1>3. phase' = [phase EXCEPT ![j] = PhaseOf(d)]
    BY <1>1, <1>2
<1>4. holder' = [holder EXCEPT ![j] = HolderOf(d)]
    BY <1>1, <1>2 DEF HolderOf
<1>5. phase[j] = PhaseOf(docs[j]) /\ holder[j] = HolderOf(docs[j])
    BY DEF HolderOf
<1>6. /\ phase = [phase EXCEPT ![j] = phase[j]] /\ holder = [holder EXCEPT ![j] = holder[j]]
    OBVIOUS
<1> HIDE DEF phase, holder
<1>7. CASE PhaseOf(d) = PhaseOf(docs[j]) /\ HolderOf(d) \in {HolderOf(docs[j]), NoOne}
    <2>1. phase' = phase
        BY <1>3, <1>5, <1>6, <1>7
    <2>2. CASE HolderOf(d) = HolderOf(docs[j])
        <3>1. holder' = holder
            BY <1>4, <1>5, <1>6, <2>2
        <3> QED BY <2>1, <3>1 DEF Contract!contractVars, phase, holder
    <2>3. CASE HolderOf(d) = NoOne /\ HolderOf(docs[j]) # NoOne
        <3>1. holder[j] # NoOne /\ holder' = [holder EXCEPT ![j] = NoOne] /\ phase' = phase
            BY <1>4, <1>5, <2>1, <2>3
        <3> QED BY <3>1 DEF Contract!ContractNext, Contract!LoseHold, phase, holder
    <2> QED BY <1>7, <2>2, <2>3
<1>8. CASE PhaseOf(docs[j]) = "none" /\ PhaseOf(d) = "waiting" /\ HolderOf(d) = HolderOf(docs[j])
    <2>1. phase[j] = "none" /\ phase' = [phase EXCEPT ![j] = "waiting"] /\ holder' = holder
        BY <1>3, <1>4, <1>5, <1>6, <1>8
    <2> QED BY <2>1 DEF Contract!ContractNext, Contract!Create, phase, holder
<1>9. CASE /\ PhaseOf(docs[j]) = "waiting" /\ PhaseOf(d) = "waiting"
           /\ HolderOf(docs[j]) = NoOne /\ HolderOf(d) \in Runtime
    <2>1. /\ phase[j] = "waiting" /\ holder[j] = NoOne
          /\ holder' = [holder EXCEPT ![j] = HolderOf(d)] /\ phase' = phase
        BY <1>3, <1>4, <1>5, <1>6, <1>9
    <2> QED BY <1>9, <2>1 DEF Contract!ContractNext, Contract!Acquire, phase, holder
<1>10. CASE /\ PhaseOf(docs[j]) = "waiting" /\ PhaseOf(d) = "started"
            /\ HolderOf(docs[j]) # NoOne /\ HolderOf(d) = HolderOf(docs[j])
    <2>1. /\ phase[j] = "waiting" /\ holder[j] # NoOne
          /\ phase' = [phase EXCEPT ![j] = "started"] /\ holder' = holder
        BY <1>3, <1>4, <1>5, <1>6, <1>10
    <2> QED BY <2>1 DEF Contract!ContractNext, Contract!Begin, phase, holder
<1>11. CASE /\ PhaseOf(docs[j]) = "started" /\ PhaseOf(d) = "waiting"
            /\ HolderOf(docs[j]) = NoOne /\ HolderOf(d) = NoOne
    <2>1. /\ phase[j] = "started" /\ holder[j] = NoOne
          /\ phase' = [phase EXCEPT ![j] = "waiting"] /\ holder' = holder
        BY <1>3, <1>4, <1>5, <1>6, <1>11
    <2> QED BY <2>1 DEF Contract!ContractNext, Contract!GiveBack, phase, holder
<1>12. CASE /\ PhaseOf(docs[j]) \in {"waiting", "started"} /\ PhaseOf(d) = "ended"
            /\ HolderOf(d) \in {HolderOf(docs[j]), NoOne}
    <2>1. /\ phase[j] \in {"waiting", "started"} /\ phase' = [phase EXCEPT ![j] = "ended"]
          /\ holder' = holder \/ holder' = [holder EXCEPT ![j] = NoOne]
        BY <1>3, <1>4, <1>5, <1>6, <1>12
    <2> QED BY <2>1 DEF Contract!ContractNext, Contract!End, phase, holder
<1> QED BY <1>7, <1>8, <1>9, <1>10, <1>11, <1>12 DEF Move

-----------------------------------------------------------------------------
(* The updaters move a job as the contract allows *)

LEMMA PhaseFacts ==
    ASSUME NEW d \in Documents, d.status # "cancelling"
    PROVE  /\ d.status = "absent" => PhaseOf(d) = "none"
           /\ d.status = "queued" => PhaseOf(d) = "waiting"
           /\ d.status = "generating" => PhaseOf(d) = "started"
           /\ IsTerminal(d) => PhaseOf(d) = "ended"
           /\ d.status \in {"absent", "queued", "generating"} \/ IsTerminal(d)
           /\ IsTerminal(d) => d.status \notin {"absent", "queued", "generating"}
PROOF
BY DEF PhaseOf, IsTerminal, TerminalStatuses, Documents, Statuses, ActiveStatuses, RunningStatuses

LEMMA WorkedIsHeld ==
    ASSUME NEW d, NEW r, Worked(d.qr, r)
    PROVE  Held(d.qr) /\ IsLeaseValid(d.qr) /\ d.qr.owner = r /\ HolderOf(d) = r
PROOF
BY DEF Worked, Held, IsLeaseValid, OwnedBy, HolderOf

(* The owner of a document, and with it the holder, is a runtime or nobody *)
LEMMA HolderType ==
    ASSUME NEW d \in Documents
    PROVE  HolderOf(d) \in Runtime \cup {NoOne}
PROOF
BY DEF HolderOf, Documents, QueueRuntimes

LEMMA ClaimIsAllowed ==
    ASSUME NEW d \in Documents, Orderly(d), NEW r \in Runtime, ClaimAllowed(d, r)
    PROVE  Allowed(d, Claimed(d, r)) /\ Waits(Claimed(d, r), r)
PROOF
<1> DEFINE e == Claimed(d, r)
<1>1. e \in Documents /\ e.status = "queued" /\ d.status = "queued" /\ Orderly(e)
    <2>1. e.status = d.status
        BY DEF Claimed, Documents
    <2> QED BY <2>1, HoldersWriteDocuments, HoldersKeepOrder DEF ClaimAllowed
<1>2. Worked(e.qr, r)
    BY DEF Claimed, Worked, OwnedBy, Documents, QueueRuntimes
<1>3. HolderOf(d) \in {NoOne, r}
    BY DEF ClaimAllowed, Orderly, HolderOf, Held, IsLeaseValid, OwnedBy
<1>4. PhaseOf(d) = "waiting" /\ PhaseOf(e) = "waiting" /\ ~IsTerminal(d)
    BY <1>1, PhaseFacts DEF IsTerminal, TerminalStatuses
<1> HIDE DEF e
<1>5. HolderOf(e) = r
    BY <1>2, WorkedIsHeld
<1> QED BY <1>1, <1>2, <1>3, <1>4, <1>5 DEF Allowed, Move, Waits, e

LEMMA UnheldIsAllowed ==
    ASSUME NEW d \in Documents, Orderly(d)
    PROVE  /\ PersistAllowed(d) => Allowed(d, Persisted(d))
           /\ ReconcileAllowed(d) => Allowed(d, Reconciled(d))
PROOF
<1>1. /\ Persisted(d) \in Documents /\ Reconciled(d) \in Documents
      /\ Orderly(Persisted(d)) /\ Orderly(Reconciled(d))
    BY RecoveryWritesDocuments, FindersKeepOrder
<1>2. ~Held(d.qr) => HolderOf(d) = NoOne
    BY DEF HolderOf
<1>3. ASSUME PersistAllowed(d)
      PROVE  Allowed(d, Persisted(d))
    <2>1. Persisted(d).status = "queued" /\ HolderOf(Persisted(d)) = NoOne
        BY DEF Persisted, Released, HolderOf, Held, IsLeaseValid, Documents
    <2>2. PhaseOf(Persisted(d)) = "waiting"
        BY <1>1, <2>1, PhaseFacts
    <2>3. ~IsTerminal(d) /\ PhaseOf(d) \in {"waiting", "started"} /\ HolderOf(d) = NoOne
        BY <1>2, <1>3, PhaseFacts DEF PersistAllowed, Exists, Orderly
    <2> QED BY <2>1, <2>2, <2>3 DEF Allowed, Move
<1>4. ASSUME ReconcileAllowed(d)
      PROVE  Allowed(d, Reconciled(d))
    <2>1. d.status \in {"queued", "generating"} /\ HolderOf(d) = NoOne
        BY <1>2, <1>4 DEF ReconcileAllowed, IsActive, ActiveStatuses, RunningStatuses, Orderly
    <2>2. HolderOf(Reconciled(d)) = NoOne
        BY DEF Reconciled, Released, HolderOf, Held, IsLeaseValid, Documents, QueueRuntimes
    <2>3. ~IsTerminal(d)
        BY <2>1 DEF IsTerminal, TerminalStatuses
    <2>4. CASE d.status = "queued"
        <3>1. Reconciled(d).status = "queued"
            BY <2>4 DEF Reconciled, Documents
        <3> QED BY <1>1, <2>1, <2>2, <2>3, <2>4, <3>1, PhaseFacts DEF Allowed, Move
    <2>5. CASE d.status = "generating"
        <3>1. Reconciled(d).status = "failed" /\ IsTerminal(Reconciled(d))
            BY <2>5 DEF Reconciled, Documents, IsTerminal, TerminalStatuses
        <3>2. PhaseOf(d) = "started" /\ PhaseOf(Reconciled(d)) = "ended"
            BY <1>1, <2>5, <3>1, PhaseFacts DEF Orderly
        <3> QED BY <2>1, <2>2, <2>3, <3>2 DEF Allowed, Move
    <2> QED BY <2>1, <2>4, <2>5
<1> QED BY <1>3, <1>4

LEMMA FinalizeIsAllowed ==
    ASSUME NEW d \in Documents, Orderly(d), Exists(d), NEW r \in Runtime
    PROVE  Allowed(d, Finalized(d)) /\ IsTerminal(Finalized(d))
PROOF
<1> DEFINE e == Finalized(d)
<1>1. e \in Documents /\ Orderly(e)
    BY HoldersWriteDocuments, HoldersKeepOrder
<1>2. e.status = IF IsActive(d) THEN "failed" ELSE d.status
    BY DEF Finalized, Documents
<1>3. IsTerminal(e) /\ (IsTerminal(d) => e.status = d.status)
    BY <1>2 DEF IsTerminal, IsActive, Exists, Documents, Statuses, TerminalStatuses, ActiveStatuses,
                RunningStatuses
<1>4. HolderOf(e) = NoOne
    BY DEF Finalized, HolderOf, Held, IsLeaseValid, Documents, QueueRuntimes
<1>5. PhaseOf(e) = "ended" /\ PhaseOf(d) \in {"waiting", "started", "ended"}
    BY <1>1, <1>3, PhaseFacts DEF Orderly, Exists
<1> HIDE DEF e
<1> QED BY <1>3, <1>4, <1>5 DEF Allowed, Move, e

LEMMA ExpiryIsAllowed ==
    ASSUME NEW d \in Documents, Orderly(d)
    PROVE  /\ [d EXCEPT !.qr.lease = "expired"] \in Documents
           /\ [d EXCEPT !.qr.lease = "expired"].status = d.status
           /\ Allowed(d, [d EXCEPT !.qr.lease = "expired"])
PROOF
<1> DEFINE e == [d EXCEPT !.qr.lease = "expired"]
<1>1. d.qr \in QueueRuntimes
    BY DEF Documents
<1>2. [d.qr EXCEPT !.lease = "expired"] \in QueueRuntimes
    BY <1>1 DEF QueueRuntimes
<1>3. e \in Documents /\ e.status = d.status /\ Orderly(e) /\ e.qr.lease = "expired"
    BY <1>1, <1>2, ExpiryKeepsOrder DEF Documents, QueueRuntimes
<1>4. HolderOf(e) = NoOne
    BY <1>3 DEF HolderOf, Held, IsLeaseValid
<1>5. PhaseOf(e) = PhaseOf(d)
    BY <1>3 DEF PhaseOf, IsTerminal
<1> HIDE DEF e
<1> QED BY <1>3, <1>4, <1>5 DEF Allowed, Move, e

(* A heartbeat on the document of a claim finds everything it writes *)
LEMMA HeartbeatIsIdle ==
    ASSUME NEW d \in Documents, Orderly(d), NEW r, Worked(d.qr, r)
    PROVE  Renewed(d) = d
PROOF
<1>1. d.qr \in QueueRuntimes
    BY DEF Documents
<1>2. [d.qr EXCEPT !.queueState = IF d.status = "cancelling" THEN "cancelling" ELSE "running",
                   !.lease = "valid", !.heartbeatAt = "runtime"] = d.qr
    BY <1>1 DEF Worked, Orderly, QueueRuntimes
<1> QED BY <1>2 DEF Renewed, Documents

LEMMA CreationIsAllowed == Allowed(Absent, Created)
PROOF
<1>1. /\ Absent.status = "absent" /\ Created.status = "queued"
      /\ HolderOf(Absent) = NoOne /\ HolderOf(Created) = NoOne
    BY DEF Absent, Created, Released, HolderOf, Held, IsLeaseValid
<1>2. PhaseOf(Absent) = "none" /\ PhaseOf(Created) = "waiting"
    BY <1>1, FreshDocuments, PhaseFacts
<1> QED BY <1>1, <1>2 DEF Allowed, Move, IsTerminal, TerminalStatuses

-----------------------------------------------------------------------------
(* Steps beside the executions.  Those that go on keep what InStep reads of them *)

SameRun(a, b) ==
    /\ a.rt = b.rt /\ a.job = b.job /\ a.stage = b.stage /\ a.beats = b.beats
    /\ a.base = b.base /\ a.want = b.want

LEMMA InStepAges ==
    ASSUME NEW a, NEW b, SameRun(a, b), NEW d, NEW n, NEW m, InStep(b, d, n), n # 0 => m # 0
    PROVE  InStep(a, d, m)
PROOF
BY DEF SameRun, InStep

LEMMA FrameStep ==
    ASSUME TypeOK, ContractInv, faults # 0 => faults' # 0,
           \A k \in Job : Orderly(docs'[k]),
           \A k \in Job : submission'[k].stage = "none" => docs'[k] = Absent,
           \A r \in Runtime : mode'[r] # "stopping",
           DOMAIN runs' = DOMAIN runs,
           \A i \in DOMAIN runs : ~Ended(runs'[i]) =>
              /\ ~Ended(runs[i]) /\ SameRun(runs'[i], runs[i])
              /\ runs[i].job \in active'[runs[i].rt]
              /\ InStep(runs[i], docs'[runs[i].job], faults)
    PROVE  ContractInv'
PROOF
<1>1. ASSUME NEW i \in DOMAIN runs', ~Ended(runs'[i])
      PROVE  Fits(runs'[i], docs'[runs'[i].job], active'[runs'[i].rt], faults')
    <2>1. /\ ~Ended(runs[i]) /\ SameRun(runs'[i], runs[i])
          /\ runs[i].job \in active'[runs[i].rt]
          /\ InStep(runs[i], docs'[runs[i].job], faults)
        BY <1>1
    <2>2. runs'[i].job = runs[i].job /\ runs'[i].rt = runs[i].rt
          /\ runs'[i].beats = runs[i].beats /\ runs'[i].stage = runs[i].stage
        BY <2>1 DEF SameRun
    <2>3. InStep(runs'[i], docs'[runs[i].job], faults')
        BY <2>1, InStepAges
    <2>4. runs[i].beats \/ runs[i].stage = "finalizing"
        BY <1>1, <2>1 DEF ContractInv, Live, Fits
    <2> QED BY <2>1, <2>2, <2>3, <2>4 DEF Fits
<1>2. ASSUME NEW i \in DOMAIN runs', NEW k \in DOMAIN runs', ~Ended(runs'[i]), ~Ended(runs'[k]),
             runs'[i].job = runs'[k].job
      PROVE  i = k
    <2>1. ~Ended(runs[i]) /\ ~Ended(runs[k]) /\ runs[i].job = runs[k].job
        BY <1>2 DEF SameRun
    <2> QED BY <2>1 DEF ContractInv, Live
<1> QED BY <1>1, <1>2 DEF ContractInv, Live

(* A live execution finds its job held or ended *)
LEMMA NoRunHere ==
    ASSUME ContractInv, NEW j \in Job, ~Held(docs[j].qr), ~IsTerminal(docs[j]),
           NEW i \in DOMAIN runs, ~Ended(runs[i])
    PROVE  runs[i].job # j
PROOF
<1>1. \A r : ~Worked(docs[j].qr, r)
    BY DEF Worked, Held, IsLeaseValid
<1>2. InStep(runs[i], docs[runs[i].job], faults)
    BY DEF ContractInv, Live, Fits
<1> QED BY <1>1, <1>2 DEF InStep, Waits, Begun, Closed

(* One document is written, or none, while the executions rest *)
LEMMA StoreStep ==
    ASSUME TypeOK, ContractInv, faults # 0 => faults' # 0,
           NEW j \in Job, NEW d \in Documents, Store(j, d), Orderly(d),
           d = docs[j] \/ Allowed(docs[j], d),
           \A k \in Job : submission'[k].stage = "none" =>
                             submission[k].stage = "none" /\ (k = j => d = docs[j]),
           \A r \in Runtime : mode'[r] # "stopping",
           UNCHANGED <<runs, active>>,
           d = docs[j] \/ \A i \in DOMAIN runs : ~Ended(runs[i]) => runs[i].job # j
    PROVE  ContractInv' /\ Moved
PROOF
<1>1. docs \in [Job -> Documents] /\ \A i \in DOMAIN runs : runs[i].job \in Job
    BY RunsAt DEF TypeOK, QueueTypeOK, Runs
<1>2. docs'[j] = d /\ \A k \in Job : k # j => docs'[k] = docs[k]
    BY <1>1 DEF Store
<1>3. Moved
    <2>1. d = docs[j] => UNCHANGED docs
        BY <1>1 DEF Store
    <2> QED BY <2>1 DEF Moved
<1>4. \A k \in Job : Orderly(docs'[k])
    BY <1>2 DEF ContractInv
<1>5. \A k \in Job : submission'[k].stage = "none" => docs'[k] = Absent
    BY <1>2 DEF ContractInv
<1>6. \A i \in DOMAIN runs : ~Ended(runs'[i]) =>
          /\ ~Ended(runs[i]) /\ SameRun(runs'[i], runs[i])
          /\ runs[i].job \in active'[runs[i].rt]
          /\ InStep(runs[i], docs'[runs[i].job], faults)
    BY <1>1, <1>2 DEF ContractInv, Live, Fits, SameRun
<1> QED BY <1>3, <1>4, <1>5, <1>6, FrameStep

LEMMA QuietContract ==
    ASSUME TypeOK, ContractInv, UNCHANGED <<docs, runs, active>>, faults # 0 => faults' # 0,
           \A k \in Job : submission'[k].stage = "none" => submission[k].stage = "none",
           \A r \in Runtime : mode'[r] # "stopping"
    PROVE  ContractInv' /\ Moved
PROOF
<1>1. \A i \in DOMAIN runs : ~Ended(runs'[i]) =>
          /\ ~Ended(runs[i]) /\ SameRun(runs'[i], runs[i])
          /\ runs[i].job \in active'[runs[i].rt]
          /\ InStep(runs[i], docs'[runs[i].job], faults)
    BY DEF ContractInv, Live, Fits, SameRun
<1>2. (\A k \in Job : Orderly(docs'[k])) /\ \A k \in Job : submission'[k].stage = "none" => docs'[k] = Absent
    BY DEF ContractInv
<1> QED BY <1>1, <1>2, FrameStep DEF Moved

-----------------------------------------------------------------------------
(* The steps of the queue *)

LEMMA SubmissionContract ==
    ASSUME TypeOK, ContractInv, NEW r \in Runtime, NEW j \in Job,
           Submit(r, j) \/ EnqueueCheck(r, j) \/ EnqueuePersist(r, j)
    PROVE  ContractInv' /\ Moved
PROOF
<1>1. /\ docs[j] \in Documents /\ Orderly(docs[j]) /\ submission \in [Job -> Submissions]
      /\ docs \in [Job -> Documents]
    BY DEF TypeOK, QueueTypeOK, ContractInv
<1>2. UNCHANGED <<runs, active, mode, faults>>
    BY DEF Submit, EnqueueCheck, EnqueuePersist, localVars
<1>3. \A q \in Runtime : mode'[q] # "stopping"
    BY <1>2 DEF ContractInv
<1>4. \A k \in Job : submission'[k].stage = "none" => submission[k].stage = "none" /\ k # j
    BY <1>1 DEF Submit, EnqueueCheck, EnqueuePersist, Submissions
<1>5. CASE Submit(r, j)
    <2>1. docs[j] = Absent /\ Store(j, Created)
        BY <1>5 DEF Submit, ContractInv
    <2>2. ~Held(docs[j].qr) /\ ~IsTerminal(docs[j])
        BY <2>1 DEF Absent, Released, Held, IsLeaseValid, IsTerminal, TerminalStatuses
    <2>3. \A i \in DOMAIN runs : ~Ended(runs[i]) => runs[i].job # j
        BY <2>2, NoRunHere
    <2> QED
        BY <1>2, <1>3, <1>4, <2>1, <2>3, StoreStep, FreshDocuments, FreshIsOrderly, CreationIsAllowed
<1>6. CASE UNCHANGED docs
    BY <1>2, <1>3, <1>4, <1>6, QuietContract
<1>7. CASE PersistAllowed(docs[j]) /\ Store(j, Persisted(docs[j]))
    <2>1. \A i \in DOMAIN runs : ~Ended(runs[i]) => runs[i].job # j
        BY <1>7, NoRunHere DEF PersistAllowed
    <2>2. /\ Persisted(docs[j]) \in Documents /\ Orderly(Persisted(docs[j]))
          /\ Allowed(docs[j], Persisted(docs[j]))
        BY <1>1, <1>7, RecoveryWritesDocuments, FindersKeepOrder, UnheldIsAllowed
    <2> QED BY <1>2, <1>3, <1>4, <1>7, <2>1, <2>2, StoreStep
<1> QED BY <1>5, <1>6, <1>7 DEF EnqueueCheck, EnqueuePersist

LEMMA RenewContract ==
    ASSUME TypeOK, ContractInv, NEW r \in Runtime, NEW j \in Job, Renew(r, j)
    PROVE  ContractInv' /\ Moved
PROOF
<1>1. docs[j] \in Documents /\ Orderly(docs[j]) /\ docs \in [Job -> Documents]
    BY DEF TypeOK, QueueTypeOK, ContractInv
<1>2. PICK i \in RunsOf(r, j) : runs[i].beats
    BY DEF Renew
<1>3. IsTerminal(docs[j]) \/ Worked(docs[j].qr, r)
    BY <1>2 DEF RunsOf, ContractInv, Live, Fits, InStep, Waits, Begun, Closed
<1>4. (IF RenewAllowed(docs[j], r) THEN Renewed(docs[j]) ELSE docs[j]) = docs[j]
    BY <1>1, <1>3, HeartbeatIsIdle DEF RenewAllowed
<1>5. UNCHANGED docs
    BY <1>1, <1>4 DEF Renew, Store
<1> QED BY <1>5, QuietContract DEF Renew, ContractInv

LEMMA ReconcileContract ==
    ASSUME TypeOK, ContractInv, NEW r \in Runtime, NEW j \in Job, Reconcile(r, j)
    PROVE  ContractInv' /\ Moved
PROOF
<1>1. docs[j] \in Documents /\ Orderly(docs[j])
    BY DEF TypeOK, QueueTypeOK, ContractInv
<1>2. ReconcileAllowed(docs[j]) /\ ~Held(docs[j].qr) /\ ~IsTerminal(docs[j]) /\ Exists(docs[j])
    BY DEF Reconcile, ReconcileAllowed, IsActive, IsTerminal, Exists, ActiveStatuses, TerminalStatuses,
           RunningStatuses
<1>3. \A i \in DOMAIN runs : ~Ended(runs[i]) => runs[i].job # j
    BY <1>2, NoRunHere
<1>4. /\ Reconciled(docs[j]) \in Documents /\ Orderly(Reconciled(docs[j]))
      /\ Allowed(docs[j], Reconciled(docs[j]))
    BY <1>1, <1>2, RecoveryWritesDocuments, FindersKeepOrder, UnheldIsAllowed
<1>5. /\ Store(j, Reconciled(docs[j])) /\ UNCHANGED <<runs, active, mode, submission, faults>>
    BY DEF Reconcile
<1>6. submission[j].stage # "none"
    BY <1>2 DEF ContractInv, Absent, Exists
<1>7. (\A k \in Job : submission'[k].stage = "none" => submission[k].stage = "none" /\ k # j)
      /\ \A q \in Runtime : mode'[q] # "stopping"
    BY <1>5, <1>6 DEF ContractInv
<1> QED BY <1>3, <1>4, <1>5, <1>7, StoreStep

(* A claim finds no execution of the job: one elsewhere has its lease, and one *)
(* here would be among the active jobs.                                        *)
LEMMA ClaimFindsNoRun ==
    ASSUME ContractInv, ClaimsOnce, NEW r \in Runtime, claiming[r] # NoJob,
           ClaimAllowed(docs[claiming[r]], r), NEW i \in DOMAIN runs, ~Ended(runs[i])
    PROVE  runs[i].job # claiming[r]
PROOF
<1> SUFFICES ASSUME runs[i].job = claiming[r] PROVE FALSE
    OBVIOUS
<1>1. runs[i].job \in active[runs[i].rt] /\ InStep(runs[i], docs[claiming[r]], faults)
    BY DEF ContractInv, Live, Fits
<1>2. docs[claiming[r]].status = "queued"
    BY DEF ClaimAllowed
<1>3. Worked(docs[claiming[r]].qr, runs[i].rt)
    BY <1>1, <1>2 DEF InStep, Waits, Begun, Closed, IsTerminal, TerminalStatuses
<1>4. runs[i].rt = r
    BY <1>3 DEF ClaimAllowed, Worked, IsLeaseValid, OwnedBy
<1> QED BY <1>1, <1>4 DEF ClaimsOnce

LEMMA NewRunContract ==
    ASSUME TypeOK, ContractInv, NEW r \in Runtime, NEW j \in Job,
           \A i \in DOMAIN runs : ~Ended(runs[i]) => runs[i].job # j,
           submission[j].stage # "none",
           NEW d \in Documents, Store(j, d), Orderly(d), Waits(d, r), Allowed(docs[j], d),
           runs' = Append(runs, NewRun(r, j)), active' = [active EXCEPT ![r] = @ \cup {j}],
           UNCHANGED <<mode, submission, faults>>
    PROVE  ContractInv' /\ Moved
PROOF
<1>1. /\ docs \in [Job -> Documents] /\ runs \in Seq(Runs) /\ active \in [Runtime -> SUBSET Job]
      /\ \A i \in DOMAIN runs : runs[i].job \in Job /\ runs[i].rt \in Runtime
    BY RunsAt DEF TypeOK, QueueTypeOK, Runs
<1>2. docs'[j] = d /\ \A k \in Job : k # j => docs'[k] = docs[k]
    BY <1>1 DEF Store
<1>3. Len(runs) \in Nat /\ DOMAIN runs = 1..Len(runs)
    BY <1>1, LenProperties
<1>4. /\ DOMAIN runs' = 1..(Len(runs) + 1)
      /\ \A i \in DOMAIN runs : runs'[i] = runs[i]
      /\ runs'[Len(runs) + 1] = NewRun(r, j)
    BY <1>1, <1>3
<1>5. Fits(NewRun(r, j), d, active'[r], faults')
    BY <1>1 DEF NewRun, Fits, InStep
<1>6. NewRun(r, j).job = j /\ NewRun(r, j).rt = r
    BY DEF NewRun
<1>7. ASSUME NEW i \in DOMAIN runs', ~Ended(runs'[i])
      PROVE  Fits(runs'[i], docs'[runs'[i].job], active'[runs'[i].rt], faults')
    <2>1. CASE i \in DOMAIN runs
        <3>1. ~Ended(runs[i]) /\ Fits(runs[i], docs[runs[i].job], active[runs[i].rt], faults)
            BY <1>4, <1>7, <2>1 DEF ContractInv, Live
        <3>2. docs'[runs[i].job] = docs[runs[i].job] /\ runs[i].job \in active'[runs[i].rt]
            BY <1>1, <1>2, <2>1, <3>1 DEF Fits
        <3> QED BY <1>4, <2>1, <3>1, <3>2 DEF Fits
    <2>2. CASE i = Len(runs) + 1
        BY <1>2, <1>4, <1>5, <1>6, <2>2
    <2> QED BY <1>3, <1>4, <2>1, <2>2
<1>8. ASSUME NEW i \in DOMAIN runs', NEW k \in DOMAIN runs', ~Ended(runs'[i]), ~Ended(runs'[k]),
             runs'[i].job = runs'[k].job
      PROVE  i = k
    <2>1. CASE i \in DOMAIN runs /\ k \in DOMAIN runs
        BY <1>4, <1>8, <2>1 DEF ContractInv, Live
    <2>2. ASSUME NEW m \in DOMAIN runs, ~Ended(runs'[m])
          PROVE  runs'[m].job # j
        BY <1>4, <2>2
    <2> QED BY <1>3, <1>4, <1>6, <1>8, <2>1, <2>2
<1>9. (\A k \in Job : Orderly(docs'[k])) /\ \A k \in Job : submission'[k].stage = "none" => docs'[k] = Absent
    BY <1>2 DEF ContractInv
<1>10. Moved
    BY DEF Moved
<1>11. \A q \in Runtime : mode'[q] # "stopping"
    BY DEF ContractInv
<1> QED BY <1>7, <1>8, <1>9, <1>10, <1>11 DEF ContractInv, Live

LEMMA DrainContract ==
    ASSUME TypeOK, ContractInv, ClaimsOnce, NEW r \in Runtime,
           DrainShift(r) \/ DrainClaim(r) \/ DrainFault(r)
    PROVE  ContractInv' /\ Moved
PROOF
<1>1. \A q \in Runtime : mode[q] # "stopping"
    BY DEF ContractInv
<1>2. UNCHANGED <<mode, submission>> /\ (faults # 0 => faults' # 0)
    BY LimitAssumption DEF DrainShift, DrainClaim, DrainFault, Fault, TypeOK, QueueTypeOK
<1>3. CASE UNCHANGED <<docs, runs, active>>
    BY <1>1, <1>2, <1>3, QuietContract
<1>4. ASSUME claiming[r] # NoJob, ClaimAllowed(docs[claiming[r]], r),
             Store(claiming[r], Claimed(docs[claiming[r]], r)),
             \/ UNCHANGED <<runs, active>>
             \/ /\ runs' = Append(runs, NewRun(r, claiming[r])) /\ UNCHANGED faults
                /\ active' = [active EXCEPT ![r] = @ \cup {claiming[r]}]
      PROVE  ContractInv' /\ Moved
    <2> DEFINE j == claiming[r]
    <2>1. j \in Job /\ docs[j] \in Documents /\ Orderly(docs[j])
        BY <1>4 DEF TypeOK, QueueTypeOK, ContractInv
    <2>2. \A i \in DOMAIN runs : ~Ended(runs[i]) => runs[i].job # j
        BY <1>4, ClaimFindsNoRun
    <2>3. /\ Claimed(docs[j], r) \in Documents /\ Orderly(Claimed(docs[j], r))
          /\ Waits(Claimed(docs[j], r), r) /\ Allowed(docs[j], Claimed(docs[j], r))
        BY <1>4, <2>1, HoldersWriteDocuments, HoldersKeepOrder, ClaimIsAllowed
    <2>4. submission[j].stage # "none"
        BY <1>4, <2>1 DEF ContractInv, Absent, ClaimAllowed
    <2>5. \A k \in Job : submission'[k].stage = "none" => submission[k].stage = "none" /\ k # j
        BY <1>2, <2>4
    <2>6. Store(j, Claimed(docs[j], r))
        BY <1>4
    <2>7. CASE UNCHANGED <<runs, active>>
        <3> HIDE DEF j
        <3> QED BY <1>1, <1>2, <2>1, <2>2, <2>3, <2>5, <2>6, <2>7, StoreStep
    <2>8. CASE /\ runs' = Append(runs, NewRun(r, j)) /\ UNCHANGED faults
               /\ active' = [active EXCEPT ![r] = @ \cup {j}]
        <3> HIDE DEF j
        <3> QED BY <1>2, <2>1, <2>2, <2>3, <2>4, <2>6, <2>8, NewRunContract
    <2> QED BY <1>4, <2>7, <2>8
<1> QED BY <1>3, <1>4 DEF DrainShift, DrainClaim, DrainFault

(* Steps in which executions end or their leases do *)

LEMMA FinalizeContract ==
    ASSUME TypeOK, ContractInv, NEW i \in DOMAIN runs, Finalize(i)
    PROVE  ContractInv' /\ Moved
PROOF
<1> DEFINE r == runs[i].rt
<1> DEFINE j == runs[i].job
<1> DEFINE done == [runs[i] EXCEPT !.stage = "done"]
<1>1. /\ docs \in [Job -> Documents] /\ runs \in Seq(Runs) /\ active \in [Runtime -> SUBSET Job]
      /\ \A k \in DOMAIN runs : runs[k] \in Runs /\ runs[k].job \in Job /\ runs[k].rt \in Runtime
    BY RunsAt DEF TypeOK, QueueTypeOK, Runs
<1>2. docs[j] \in Documents /\ Orderly(docs[j]) /\ j \in Job /\ r \in Runtime
    BY <1>1 DEF ContractInv
<1>3. /\ active' = [active EXCEPT ![r] = @ \ {j}] /\ UNCHANGED <<mode, submission>>
      /\ ~Ended(runs[i])
    BY DEF Finalize, Ended
<1>4. faults # 0 => faults' # 0
    BY LimitAssumption DEF Finalize, Fault, TypeOK, QueueTypeOK
<1>5. done.stage = "done" /\ done.job = j /\ done.rt = r
    BY <1>1 DEF Runs
<1>6. /\ DOMAIN runs' = DOMAIN runs /\ runs'[i] = done
      /\ \A k \in DOMAIN runs : k # i => SameRun(runs'[k], runs[k])
    <2>1. runs' = [runs EXCEPT ![i] = done] \/ runs' = [Lapse(r, j) EXCEPT ![i] = done]
        BY DEF Finalize
    <2>2. /\ DOMAIN Lapse(r, j) = DOMAIN runs
          /\ \A k \in DOMAIN runs : SameRun(Lapse(r, j)[k], runs[k])
        <3>1. \A run \in Runs : SameRun([run EXCEPT !.lapsed = TRUE], run)
            BY DEF SameRun, Runs
        <3> QED BY <1>1, <3>1 DEF Lapse, SameRun
    <2>3. \A k \in DOMAIN runs : SameRun(runs[k], runs[k])
        BY DEF SameRun
    <2> HIDE DEF done, r, j
    <2> QED BY <2>1, <2>2, <2>3
<1>7. \A k \in DOMAIN runs : k # i /\ ~Ended(runs[k]) => runs[k].job # j
    BY <1>3 DEF ContractInv, Live
<1>8. \/ UNCHANGED docs
      \/ Exists(docs[j]) /\ Store(j, Finalized(docs[j]))
    BY DEF Finalize, FinalizeAllowed
<1>9. /\ Finalized(docs[j]) \in Documents /\ Orderly(Finalized(docs[j]))
      /\ Exists(docs[j]) => Allowed(docs[j], Finalized(docs[j]))
    BY <1>2, HoldersWriteDocuments, HoldersKeepOrder, FinalizeIsAllowed
<1>10. Moved
    BY <1>2, <1>8, <1>9 DEF Moved
<1>11. /\ \A k \in Job : k # j => docs'[k] = docs[k]
       /\ docs'[j] = docs[j] \/ (docs'[j] = Finalized(docs[j]) /\ Exists(docs[j]))
    BY <1>1, <1>2, <1>8 DEF Store
<1>12. \A k \in Job : Orderly(docs'[k])
    BY <1>2, <1>9, <1>11 DEF ContractInv
<1>13. \A k \in Job : submission'[k].stage = "none" => docs'[k] = Absent
    <2>1. Exists(docs[j]) => docs[j] # Absent
        BY DEF Exists, Absent
    <2> HIDE DEF r, j, done
    <2> QED BY <1>3, <1>11, <2>1 DEF ContractInv
<1>14. ASSUME NEW k \in DOMAIN runs, ~Ended(runs'[k])
       PROVE  /\ ~Ended(runs[k]) /\ SameRun(runs'[k], runs[k])
              /\ runs[k].job \in active'[runs[k].rt]
              /\ InStep(runs[k], docs'[runs[k].job], faults)
    <2>1. k # i
        BY <1>5, <1>6, <1>14 DEF Ended
    <2>2. ~Ended(runs[k]) /\ SameRun(runs'[k], runs[k])
        BY <1>6, <1>14, <2>1 DEF SameRun, Ended
    <2>3. runs[k].job # j /\ Fits(runs[k], docs[runs[k].job], active[runs[k].rt], faults)
        BY <1>7, <2>1, <2>2 DEF ContractInv, Live
    <2>4. docs'[runs[k].job] = docs[runs[k].job]
        BY <1>1, <1>11, <2>3
    <2>5. runs[k].job \in active'[runs[k].rt]
        BY <1>1, <1>2, <1>3, <2>3 DEF Fits
    <2> QED BY <2>2, <2>3, <2>4, <2>5 DEF Fits
<1>15. \A q \in Runtime : mode'[q] # "stopping"
    BY <1>3 DEF ContractInv
<1> QED BY <1>4, <1>6, <1>10, <1>12, <1>13, <1>14, <1>15, FrameStep

(* A lease under which an execution works does not run out *)
LEMMA LeaseExpiresContract ==
    ASSUME TimelyHeartbeats, TypeOK, ContractInv, NEW j \in Job, LeaseExpires(j)
    PROVE  ContractInv' /\ Moved
PROOF
<1> DEFINE r == docs[j].qr.owner
<1> DEFINE d == [docs[j] EXCEPT !.qr.lease = "expired"]
<1>1. /\ docs \in [Job -> Documents] /\ runs \in Seq(Runs) /\ docs[j] \in Documents /\ Orderly(docs[j])
      /\ \A k \in DOMAIN runs : runs[k] \in Runs /\ runs[k].job \in Job
    BY RunsAt DEF TypeOK, QueueTypeOK, Runs, ContractInv
<1>2. /\ Store(j, d) /\ runs' = Lapse(r, j) /\ UNCHANGED <<mode, active, submission, faults>>
      /\ \A i \in RunsOf(r, j) : ~runs[i].beats /\ runs[i].stage # "finalizing"
      /\ IsLeaseValid(docs[j].qr)
    BY DEF LeaseExpires, localVars
<1>3. d \in Documents /\ d.status = docs[j].status /\ Allowed(docs[j], d) /\ Orderly(d)
    BY <1>1, ExpiryIsAllowed, ExpiryKeepsOrder
<1> HIDE DEF d
<1>4. docs'[j] = d /\ \A k \in Job : k # j => docs'[k] = docs[k]
    BY <1>1, <1>2 DEF Store
<1>5. DOMAIN runs' = DOMAIN runs /\ \A k \in DOMAIN runs : SameRun(runs'[k], runs[k])
    <2>1. \A run \in Runs : SameRun([run EXCEPT !.lapsed = TRUE], run) /\ SameRun(run, run)
        BY DEF SameRun, Runs
    <2> QED BY <1>1, <1>2, <2>1 DEF Lapse
<1>6. ASSUME NEW i \in DOMAIN runs, ~Ended(runs[i]), runs[i].job = j
      PROVE  runs[i].stage = "finalizing" /\ IsTerminal(docs[j])
    <2>1. InStep(runs[i], docs[j], faults) /\ (runs[i].beats \/ runs[i].stage = "finalizing")
        BY <1>6 DEF ContractInv, Live, Fits
    <2>2. runs[i].rt # r
        BY <1>2, <1>6, <2>1 DEF RunsOf
    <2> QED BY <2>1, <2>2 DEF InStep, Waits, Begun, Closed, Worked, OwnedBy
<1>7. ASSUME NEW k \in DOMAIN runs, ~Ended(runs'[k])
      PROVE  /\ ~Ended(runs[k]) /\ SameRun(runs'[k], runs[k])
             /\ runs[k].job \in active'[runs[k].rt]
             /\ InStep(runs[k], docs'[runs[k].job], faults)
    <2>1. ~Ended(runs[k]) /\ SameRun(runs'[k], runs[k])
        BY <1>5, <1>7 DEF SameRun, Ended
    <2>2. Fits(runs[k], docs[runs[k].job], active[runs[k].rt], faults)
        BY <2>1 DEF ContractInv, Live
    <2>3. CASE runs[k].job = j
        <3>1. InStep(runs[k], d, faults)
            BY <1>3, <1>6, <2>1, <2>3 DEF InStep, IsTerminal
        <3> QED BY <1>2, <1>4, <2>1, <2>2, <2>3, <3>1 DEF Fits
    <2>4. CASE runs[k].job # j
        BY <1>1, <1>2, <1>4, <2>1, <2>2, <2>4 DEF Fits
    <2> QED BY <2>3, <2>4
<1>8. (\A k \in Job : Orderly(docs'[k])) /\ \A q \in Runtime : mode'[q] # "stopping"
    BY <1>2, <1>3, <1>4 DEF ContractInv
<1>9. \A k \in Job : submission'[k].stage = "none" => docs'[k] = Absent
    <2>1. docs[j] # Absent
        BY <1>2, FreshIsOrderly DEF IsLeaseValid
    <2> QED BY <1>2, <1>4, <2>1 DEF ContractInv
<1>10. Moved
    BY <1>2, <1>3 DEF Moved
<1> QED BY <1>2, <1>5, <1>7, <1>8, <1>9, <1>10, FrameStep

LEMMA ExitContract ==
    ASSUME TypeOK, ContractInv, NEW r \in Runtime, Exit(r)
    PROVE  ContractInv' /\ Moved
PROOF
<1>1. /\ active \in [Runtime -> SUBSET Job] /\ submission \in [Job -> Submissions]
      /\ mode \in [Runtime -> {"off", "up", "stopping", "dead"}]
      /\ \A k \in DOMAIN runs : runs[k] \in Runs /\ runs[k].rt \in Runtime
    BY RunsAt DEF TypeOK, QueueTypeOK, Runs
<1>2. /\ UNCHANGED <<docs, faults>> /\ DOMAIN runs' = DOMAIN runs
      /\ \A k \in DOMAIN runs :
            runs'[k] = IF runs[k].rt = r /\ ~Ended(runs[k])
                       THEN [runs[k] EXCEPT !.stage = "dead", !.beats = FALSE,
                                            !.base = Absent, !.want = Absent]
                       ELSE runs[k]
      /\ \A q \in Runtime : q # r => active'[q] = active[q]
    BY <1>1 DEF Exit
<1>3. \A k \in DOMAIN runs : Ended([runs[k] EXCEPT !.stage = "dead", !.beats = FALSE,
                                                  !.base = Absent, !.want = Absent])
    BY <1>1 DEF Ended, Runs
<1>4. ASSUME NEW k \in DOMAIN runs, ~Ended(runs'[k])
      PROVE  /\ ~Ended(runs[k]) /\ SameRun(runs'[k], runs[k])
             /\ runs[k].job \in active'[runs[k].rt]
             /\ InStep(runs[k], docs'[runs[k].job], faults)
    <2>1. runs'[k] = runs[k] /\ ~Ended(runs[k]) /\ runs[k].rt # r
        BY <1>2, <1>3, <1>4
    <2> QED BY <1>1, <1>2, <2>1 DEF ContractInv, Live, Fits, SameRun
<1>5. (\A k \in Job : Orderly(docs'[k])) /\ \A q \in Runtime : mode'[q] # "stopping"
    BY <1>1, <1>2 DEF ContractInv, Exit
<1>6. \A k \in Job : submission'[k].stage = "none" => docs'[k] = Absent
    <2>1. \A k \in Job : [submission[k] EXCEPT !.stage = "dead"].stage = "dead"
        BY <1>1 DEF Submissions
    <2>2. \A k \in Job : submission'[k].stage = "none" => submission[k].stage = "none"
        BY <2>1 DEF Exit
    <2> QED BY <1>2, <2>2 DEF ContractInv
<1> QED BY <1>2, <1>4, <1>5, <1>6, FrameStep DEF Moved
-----------------------------------------------------------------------------
(* The steps of an execution *)

(* A save of a copy that has the queueRuntime now stored keeps the owner, and  *)
(* changes the lease at most into one that has run out.                        *)
LEMMA SaveOutcome ==
    ASSUME NEW cur \in Documents, NEW base \in Documents, NEW want \in Documents, Orderly(cur),
           base.qr = cur.qr, want.qr = cur.qr, want.status # "cancelling",
           NEW aged \in BOOLEAN, NEW d \in SaveResults(cur, base, want, aged)
    PROVE  /\ d \in Documents /\ Orderly(d) /\ d.status \in {cur.status, want.status}
           /\ want.status # base.status => d.status = want.status
           /\ d.qr.owner = cur.qr.owner /\ HolderOf(d) \in {HolderOf(cur), NoOne}
           /\ ~aged => d.qr = cur.qr
PROOF
<1>1. cur.qr \in QueueRuntimes
    BY DEF Documents
<1>2. \A l \in WrittenLeases(cur, want, aged) : l \in {cur.qr.lease, "expired"}
    BY DEF WrittenLeases
<1>3. ~aged => WrittenLeases(cur, want, aged) = {cur.qr.lease}
    BY DEF WrittenLeases, Disagrees
<1>4. PICK l \in WrittenLeases(cur, want, aged) :
          d.qr = IF "qr" \in Written(base, want) THEN [cur.qr EXCEPT !.lease = l] ELSE cur.qr
    BY DEF SaveResults
<1>5. /\ d.qr.owner = cur.qr.owner /\ d.qr.queueState = cur.qr.queueState
      /\ d.qr.lease \in {cur.qr.lease, "expired"}
    BY <1>1, <1>2, <1>4 DEF QueueRuntimes
<1>6. [cur.qr EXCEPT !.lease = cur.qr.lease] = cur.qr
    BY <1>1 DEF QueueRuntimes
<1>7. ~aged => d.qr = cur.qr
    BY <1>3, <1>4, <1>6
<1>8. HolderOf(d) \in {HolderOf(cur), NoOne}
    BY <1>5 DEF HolderOf, Held, IsLeaseValid
<1>9. d.status = IF "status" \in Written(base, want) THEN want.status ELSE cur.status
    BY DEF SaveResults
<1>10. want.status # base.status => "status" \in Written(base, want)
    BY DEF Written, Changed, Fields
<1>11. Orderly(d)
    BY <1>5, <1>9 DEF Orderly, IsLeaseValid
<1> QED BY <1>5, <1>7, <1>8, <1>9, <1>10, <1>11, SavesAreDocuments

(* A save by the execution that holds the job, or that finds it closed *)
LEMMA SaveIsAllowed ==
    ASSUME NEW cur \in Documents, NEW base \in Documents, NEW want \in Documents, Orderly(cur),
           NEW r \in Runtime, base.qr = cur.qr, want.qr = cur.qr,
           NEW aged \in BOOLEAN, NEW d \in SaveResults(cur, base, want, aged)
    PROVE  /\ Waits(cur, r) /\ base.status = "queued" /\ want.status = "generating" /\ ~aged =>
                  Allowed(cur, d) /\ Begun(d, r)
           /\ Begun(cur, r) /\ base.status = "generating" /\ IsTerminal(want) =>
                  Allowed(cur, d) /\ Closed(d, r)
           /\ Closed(cur, r) /\ faults # 0 /\ IsTerminal(want) =>
                  Allowed(cur, d) /\ Closed(d, r)
PROOF
<1>1. r # NoOne /\ "cancelling" \notin TerminalStatuses /\ "generating" \notin TerminalStatuses
    BY NoOneAssumption DEF TerminalStatuses
<1>0. want.status # "cancelling" =>
          /\ d \in Documents /\ Orderly(d) /\ d.status \in {cur.status, want.status}
          /\ want.status # base.status => d.status = want.status
          /\ d.qr.owner = cur.qr.owner /\ HolderOf(d) \in {HolderOf(cur), NoOne}
          /\ ~aged => d.qr = cur.qr
    <2> SUFFICES ASSUME want.status # "cancelling"
                 PROVE  /\ d \in Documents /\ Orderly(d) /\ d.status \in {cur.status, want.status}
                        /\ want.status # base.status => d.status = want.status
                        /\ d.qr.owner = cur.qr.owner /\ HolderOf(d) \in {HolderOf(cur), NoOne}
                        /\ ~aged => d.qr = cur.qr
        OBVIOUS
    <2> QED BY SaveOutcome
<1>2. ASSUME Waits(cur, r), base.status = "queued", want.status = "generating", ~aged
      PROVE  Allowed(cur, d) /\ Begun(d, r)
    <2>1. d \in Documents /\ d.status = "generating" /\ d.qr = cur.qr /\ Orderly(d)
        BY <1>0, <1>2
    <2>2. HolderOf(cur) = r /\ HolderOf(d) = HolderOf(cur)
        BY <1>2, <2>1, WorkedIsHeld DEF Waits, HolderOf
    <2>3. PhaseOf(cur) = "waiting" /\ PhaseOf(d) = "started" /\ ~IsTerminal(cur)
        BY <1>2, <2>1, PhaseFacts DEF Waits, Orderly
    <2> QED BY <1>1, <1>2, <2>1, <2>2, <2>3 DEF Allowed, Move, Begun, Waits
<1>3. ASSUME IsTerminal(want)
      PROVE  /\ d \in Documents /\ Orderly(d) /\ d.status \in {cur.status, want.status}
             /\ want.status # base.status => d.status = want.status
             /\ d.qr.owner = cur.qr.owner /\ HolderOf(d) \in {HolderOf(cur), NoOne}
    BY <1>0, <1>1, <1>3 DEF IsTerminal
<1>4. ASSUME Begun(cur, r), base.status = "generating", IsTerminal(want)
      PROVE  Allowed(cur, d) /\ Closed(d, r)
    <2>1. IsTerminal(d) /\ ~IsTerminal(cur)
        BY <1>1, <1>3, <1>4 DEF IsTerminal, Begun
    <2>2. PhaseOf(cur) = "started" /\ PhaseOf(d) = "ended"
        BY <1>3, <1>4, <2>1, PhaseFacts DEF Begun, Orderly
    <2> QED BY <1>3, <1>4, <2>1, <2>2 DEF Allowed, Move, Begun, Closed, Worked, OwnedBy
<1>5. ASSUME Closed(cur, r), faults # 0, IsTerminal(want)
      PROVE  Allowed(cur, d) /\ Closed(d, r)
    <2>1. IsTerminal(d)
        BY <1>3, <1>5 DEF IsTerminal, Closed
    <2>2. PhaseOf(cur) = "ended" /\ PhaseOf(d) = "ended"
        BY <1>3, <1>5, <2>1, PhaseFacts DEF Closed, Orderly
    <2> QED BY <1>3, <1>5, <2>1, <2>2 DEF Allowed, Move, Closed, OwnedBy
<1> QED BY <1>2, <1>4, <1>5

LEMMA ExecutionContract ==
    ASSUME TypeOK, ContractInv, faults # 0 => faults' # 0, UNCHANGED <<active, mode, submission>>,
           NEW i \in DOMAIN runs, ~Ended(runs[i]), NEW new, runs' = [runs EXCEPT ![i] = new],
           new.rt = runs[i].rt, new.job = runs[i].job, new.beats \/ new.stage = "finalizing",
           NEW d \in Documents, Store(runs[i].job, d), Orderly(d),
           d = docs[runs[i].job] \/ (Exists(docs[runs[i].job]) /\ Allowed(docs[runs[i].job], d)),
           InStep(new, d, faults')
    PROVE  ContractInv' /\ Moved
PROOF
<1> DEFINE j == runs[i].job
<1>1. /\ docs \in [Job -> Documents] /\ j \in Job
      /\ \A k \in DOMAIN runs : runs[k].job \in Job
    BY RunsAt DEF TypeOK, QueueTypeOK, Runs
<1>2. docs'[j] = d /\ \A k \in Job : k # j => docs'[k] = docs[k]
    BY <1>1 DEF Store
<1>3. /\ DOMAIN runs' = DOMAIN runs /\ runs'[i] = new
      /\ \A k \in DOMAIN runs : k # i => runs'[k] = runs[k]
    OBVIOUS
<1>4. Fits(runs[i], docs[j], active[runs[i].rt], faults)
    BY DEF ContractInv, Live
<1>5. \A k \in DOMAIN runs : k # i /\ ~Ended(runs[k]) => runs[k].job # j
    BY DEF ContractInv, Live
<1>6. ASSUME NEW k \in DOMAIN runs', ~Ended(runs'[k])
      PROVE  Fits(runs'[k], docs'[runs'[k].job], active'[runs'[k].rt], faults')
    <2>1. CASE k = i
        BY <1>2, <1>3, <1>4, <2>1 DEF Fits
    <2>2. CASE k # i
        <3>1. runs'[k] = runs[k] /\ ~Ended(runs[k])
            BY <1>3, <1>6, <2>2
        <3>2. Fits(runs[k], docs[runs[k].job], active[runs[k].rt], faults) /\ runs[k].job # j
            BY <1>3, <1>5, <2>2, <3>1 DEF ContractInv, Live
        <3>3. docs'[runs[k].job] = docs[runs[k].job]
            BY <1>1, <1>2, <1>3, <3>2
        <3>4. InStep(runs[k], docs[runs[k].job], faults')
            BY <3>2, InStepAges DEF Fits, SameRun
        <3> QED BY <3>1, <3>2, <3>3, <3>4 DEF Fits
    <2> QED BY <2>1, <2>2
<1>7. ASSUME NEW k \in DOMAIN runs', NEW m \in DOMAIN runs', ~Ended(runs'[k]), ~Ended(runs'[m]),
             runs'[k].job = runs'[m].job
      PROVE  k = m
    <2>1. CASE k # i /\ m # i
        BY <1>3, <1>7, <2>1 DEF ContractInv, Live
    <2> QED BY <1>3, <1>5, <1>7, <2>1
<1>8. \A k \in Job : Orderly(docs'[k])
    BY <1>2 DEF ContractInv
<1>9. \A k \in Job : submission'[k].stage = "none" => docs'[k] = Absent
    <2>1. Exists(docs[j]) => docs[j] # Absent
        BY DEF Exists, Absent
    <2> HIDE DEF j
    <2> QED BY <1>2, <2>1 DEF ContractInv, j
<1>10. Moved
    <2>1. d = docs[j] => UNCHANGED docs
        BY <1>1 DEF Store
    <2> QED BY <1>1, <2>1 DEF Moved
<1> QED BY <1>6, <1>7, <1>8, <1>9, <1>10 DEF ContractInv, Live

(* The same for the two ways an execution moves on *)
LEMMA AdvanceContract ==
    ASSUME TypeOK, ContractInv, faults # 0 => faults' # 0, UNCHANGED <<active, mode, submission>>,
           NEW i \in DOMAIN runs, ~Ended(runs[i]), runs[i].stage # "finalizing",
           NEW stage, NEW base, NEW want, Advance(i, stage, base, want),
           NEW d \in Documents, Store(runs[i].job, d), Orderly(d),
           d = docs[runs[i].job] \/ (Exists(docs[runs[i].job]) /\ Allowed(docs[runs[i].job], d)),
           InStep([rt |-> runs[i].rt, stage |-> stage, base |-> base, want |-> want], d, faults')
    PROVE  ContractInv' /\ Moved
PROOF
<1> DEFINE new == [runs[i] EXCEPT !.stage = stage, !.base = base, !.want = want]
<1>1. /\ new.job = runs[i].job /\ new.rt = runs[i].rt /\ new.beats = runs[i].beats
      /\ new.stage = stage /\ new.base = base /\ new.want = want
    BY RunsAt DEF TypeOK, QueueTypeOK, Runs
<1>2. runs' = [runs EXCEPT ![i] = new]
    BY DEF Advance
<1>3. new.beats
    BY <1>1 DEF ContractInv, Live, Fits
<1> HIDE DEF new
<1>4. InStep(new, d, faults')
    BY <1>1 DEF InStep
<1> QED BY <1>1, <1>2, <1>3, <1>4, ExecutionContract

LEMMA StopContract ==
    ASSUME TypeOK, ContractInv, faults # 0 => faults' # 0, UNCHANGED <<active, mode, submission>>,
           NEW i \in DOMAIN runs, ~Ended(runs[i]), Stop(i),
           NEW d \in Documents, Store(runs[i].job, d), Orderly(d),
           d = docs[runs[i].job] \/ (Exists(docs[runs[i].job]) /\ Allowed(docs[runs[i].job], d)),
           IsTerminal(d) \/ Waits(d, runs[i].rt) \/ Begun(d, runs[i].rt)
    PROVE  ContractInv' /\ Moved
PROOF
<1> DEFINE new == [runs[i] EXCEPT !.stage = "finalizing", !.beats = FALSE,
                                  !.base = Absent, !.want = Absent]
<1>1. /\ new.job = runs[i].job /\ new.rt = runs[i].rt /\ new.stage = "finalizing"
    BY RunsAt DEF TypeOK, QueueTypeOK, Runs
<1>2. runs' = [runs EXCEPT ![i] = new]
    BY DEF Stop
<1> HIDE DEF new
<1>3. InStep(new, d, faults')
    BY <1>1 DEF InStep
<1> QED BY <1>1, <1>2, <1>3, ExecutionContract

LEMMA RunContract ==
    ASSUME TypeOK, ContractInv, RunStep
    PROVE  ContractInv' /\ Moved
PROOF
<1>1. PICK i \in DOMAIN runs : SkillStep(i)
    BY DEF RunStep
<1> DEFINE run == runs[i]
<1> DEFINE r == runs[i].rt
<1> DEFINE cur == docs[runs[i].job]
<1>2. /\ run \in Runs /\ run.job \in Job /\ r \in Runtime /\ cur \in Documents /\ Orderly(cur)
      /\ run.base \in Documents /\ run.want \in Documents /\ docs \in [Job -> Documents]
    BY RunsAt DEF TypeOK, QueueTypeOK, Runs, ContractInv
<1>3. UNCHANGED <<active, mode, submission>>
    BY <1>1 DEF SkillStep, RunnerStep, ChildExits, RunLoad, RunBegin, RunExit, RunExitInvalid,
                RunPersist, RunPublish, RunFail, UntouchedBySkill, localVars
<1>4. faults # 0 => faults' # 0
    <2>1. UNCHANGED faults \/ Fault
        BY <1>1 DEF SkillStep, RunnerStep, ChildExits, RunLoad, RunBegin, RunExit, RunExitInvalid,
                    RunPersist, RunPublish, RunFail, SaveThrows
    <2> QED BY <2>1, LimitAssumption DEF Fault, TypeOK, QueueTypeOK
<1>5. ~Ended(run) /\ run.stage # "finalizing"
    BY <1>1 DEF SkillStep, RunnerStep, ChildExits, RunLoad, RunBegin, RunExit, RunExitInvalid,
                RunPersist, RunPublish, RunFail, At, Ended
<1>6. InStep(run, cur, faults)
    BY <1>5 DEF ContractInv, Live, Fits
<1>7. UNCHANGED docs => Store(run.job, cur)
    BY <1>2 DEF Store
<1>8. ASSUME NEW aged \in BOOLEAN, NEW d \in Saves(run, aged)
      PROVE  /\ d \in SaveResults(cur, run.base, run.want, aged) /\ Saved(run, d).qr = d.qr
             /\ IsTerminal(run.want) => (IsTerminal(d) => IsTerminal(Saved(run, d)))
             /\ d.status = run.want.status => Saved(run, d).status = d.status
    <2>1. d \in SaveResults(cur, run.base, run.want, aged)
        BY <1>8 DEF Saves
    <2>2. d.qr \in QueueRuntimes
        BY <1>2, <2>1, SavesAreDocuments DEF Documents
    <2>3. [run.want EXCEPT !.qr = d.qr].qr = d.qr /\ [run.want EXCEPT !.qr = d.qr].status = run.want.status
        BY <1>2 DEF Documents
    <2> HIDE DEF run, cur
    <2> QED BY <2>1, <2>3 DEF Saved, IsTerminal
<1>9. \A c \in Documents : \A s : [c EXCEPT !.status = s].qr = c.qr /\ [c EXCEPT !.status = s].status = s
    BY DEF Documents
<1>10. TerminalStatuses = {"completed", "failed", "cancelled", "cancelled_with_partial_result"}
    BY DEF TerminalStatuses
<1>11. Waits(cur, r) \/ Begun(cur, r) \/ Closed(cur, r) => Exists(cur)
    BY <1>10 DEF Waits, Begun, Closed, IsTerminal, Exists
<1> USE <1>2, <1>3, <1>4, <1>5
(* Nothing is stored *)
<1>12. ASSUME NEW stage, NEW base, NEW want, Advance(i, stage, base, want), UNCHANGED docs,
              InStep([rt |-> r, stage |-> stage, base |-> base, want |-> want], cur, faults')
       PROVE  ContractInv' /\ Moved
    BY <1>7, <1>12, AdvanceContract
<1>13. ASSUME Stop(i), UNCHANGED docs, IsTerminal(cur) \/ Waits(cur, r) \/ Begun(cur, r)
       PROVE  ContractInv' /\ Moved
    BY <1>7, <1>13, StopContract
<1> HIDE DEF run, r, cur
<1>14. CASE RunLoad(i)
    <2>1. Waits(cur, r) /\ UNCHANGED docs
        BY <1>6, <1>14 DEF RunLoad, At, InStep, run, r
    <2>2. CASE Advance(i, "loaded", cur, [cur EXCEPT !.status = "generating"])
        BY <1>9, <1>12, <2>1, <2>2 DEF InStep, Waits
    <2>3. CASE Stop(i)
        BY <1>13, <2>1, <2>3
    <2> QED BY <1>14, <2>2, <2>3 DEF RunLoad, cur
<1>15. CASE RunBegin(i)
    <2>1. /\ Waits(cur, r)
          /\ run.base.qr = cur.qr /\ run.base.status = "queued"
          /\ run.want.qr = cur.qr /\ run.want.status = "generating"
        BY <1>6, <1>15 DEF RunBegin, At, InStep, run, r
    <2>2. CASE SaveThrows(run) /\ Stop(i)
        BY <1>13, <2>1, <2>2 DEF SaveThrows
    <2>3. ASSUME NEW d \in Saves(run, FALSE), Store(run.job, d),
                 Advance(i, "working", Saved(run, d), Saved(run, d)) \/ Stop(i)
          PROVE  ContractInv' /\ Moved
        <3>1. d \in SaveResults(cur, run.base, run.want, FALSE) /\ Saved(run, d).qr = d.qr
            BY <1>8
        <3>2. d \in Documents /\ Orderly(d) /\ d.status = "generating"
            BY <2>1, <3>1, SaveOutcome
        <3>3. Allowed(cur, d) /\ Begun(d, r)
            BY <2>1, <3>1, SaveIsAllowed
        <3>4. Saved(run, d).status = "generating"
            BY <1>8, <2>1, <3>2
        <3>5. Exists(cur)
            BY <1>11, <2>1
        <3>6. CASE Advance(i, "working", Saved(run, d), Saved(run, d))
            <4>1. InStep([rt |-> r, stage |-> "working", base |-> Saved(run, d), want |-> Saved(run, d)],
                         d, faults')
                BY <3>1, <3>3, <3>4 DEF InStep
            <4> QED BY <2>3, <3>2, <3>3, <3>5, <3>6, <4>1, AdvanceContract DEF run, cur, r
        <3>7. CASE Stop(i)
            BY <2>3, <3>2, <3>3, <3>5, <3>7, StopContract DEF run, cur, r
        <3> QED BY <2>3, <3>6, <3>7
    <2> QED BY <1>15, <2>2, <2>3 DEF RunBegin, run
<1>16. CASE RunExit(i)
    <2>1. Begun(cur, r) /\ run.base.qr = cur.qr /\ run.base.status = "generating" /\ UNCHANGED docs
        BY <1>6, <1>16 DEF RunExit, At, InStep, run, r
    <2>2. PICK result \in {"succeeded", "failed", "cancelled"}, outputs \in BOOLEAN :
              Advance(i, "saving", run.base, [run.base EXCEPT !.status = ResultStatus(result, outputs),
                                                             !.outputs = outputs])
        BY <1>16 DEF RunExit, run
    <2> DEFINE want == [run.base EXCEPT !.status = ResultStatus(result, outputs), !.outputs = outputs]
    <2>3. want.qr = cur.qr /\ want.status \in TerminalStatuses
        BY <1>10, <2>1 DEF ResultStatus, Documents
    <2> HIDE DEF want
    <2>4. InStep([rt |-> r, stage |-> "saving", base |-> run.base, want |-> want], cur, faults')
        BY <2>1, <2>3 DEF InStep
    <2> QED BY <1>12, <2>1, <2>2, <2>4 DEF want
<1>17. CASE RunExitInvalid(i)
    <2>1. Begun(cur, r) /\ run.base.qr = cur.qr /\ run.base.status = "generating" /\ UNCHANGED docs
        BY <1>6, <1>17 DEF RunExitInvalid, At, InStep, run, r
    <2>2. Advance(i, "failing", run.base, [run.base EXCEPT !.status = "failed"])
        BY <1>17 DEF RunExitInvalid, run
    <2> QED BY <1>9, <1>12, <2>1, <2>2 DEF InStep
<1>18. CASE RunPersist(i)
    <2>1. /\ Begun(cur, r)
          /\ run.base.qr = cur.qr /\ run.base.status = "generating"
          /\ run.want.qr = cur.qr /\ run.want.status \in TerminalStatuses
        BY <1>6, <1>18 DEF RunPersist, At, InStep, run, r
    <2>2. CASE SaveThrows(run) /\ Advance(i, "failing", run.base, [run.want EXCEPT !.status = "failed"])
        BY <1>9, <1>12, <2>1, <2>2 DEF SaveThrows, InStep
    <2>3. ASSUME NEW d \in Saves(run, TRUE), Store(run.job, d),
                 Advance(i, "publishing", Saved(run, d), Saved(run, d))
          PROVE  ContractInv' /\ Moved
        <3>1. d \in SaveResults(cur, run.base, run.want, TRUE) /\ Saved(run, d).qr = d.qr
            BY <1>8
        <3>2. d \in Documents /\ Orderly(d)
            BY <1>10, <2>1, <3>1, SaveOutcome
        <3>3. Allowed(cur, d) /\ Closed(d, r)
            BY <2>1, <3>1, SaveIsAllowed DEF IsTerminal
        <3>4. Exists(cur)
            BY <1>11, <2>1
        <3>5. InStep([rt |-> r, stage |-> "publishing", base |-> Saved(run, d), want |-> Saved(run, d)],
                     d, faults')
            BY <3>1, <3>3 DEF InStep
        <3> QED BY <2>3, <3>2, <3>3, <3>4, <3>5, AdvanceContract DEF run, cur, r
    <2> QED BY <1>18, <2>2, <2>3 DEF RunPersist, run
<1>19. CASE RunPublish(i)
    <2>1. Closed(cur, r) /\ run.base.qr = cur.qr /\ UNCHANGED docs
        BY <1>6, <1>19 DEF RunPublish, At, InStep, run, r
    <2>2. CASE Stop(i)
        BY <1>13, <2>1, <2>2 DEF Closed
    <2>3. CASE Fault /\ Advance(i, "failing", run.base, [run.base EXCEPT !.status = "failed"])
        <3>1. faults' # 0
            BY <2>3, LimitAssumption DEF Fault, TypeOK, QueueTypeOK
        <3> QED BY <1>9, <1>12, <2>1, <2>3, <3>1 DEF InStep
    <2> QED BY <1>19, <2>2, <2>3 DEF RunPublish, run
<1>20. CASE RunFail(i)
    <2>1. /\ \/ Begun(cur, r) /\ run.base.status = "generating"
             \/ Closed(cur, r) /\ faults # 0
          /\ run.want.qr = cur.qr /\ run.want.status = "failed" /\ run.base.qr = cur.qr
        BY <1>6, <1>20 DEF RunFail, At, InStep, run, r
    <2>2. CASE SaveThrows(run) /\ Stop(i)
        BY <1>13, <2>1, <2>2 DEF SaveThrows, Closed
    <2>3. ASSUME NEW d \in Saves(run, TRUE), Store(run.job, d), Stop(i)
          PROVE  ContractInv' /\ Moved
        <3>1. d \in SaveResults(cur, run.base, run.want, TRUE)
            BY <1>8
        <3>2. d \in Documents /\ Orderly(d)
            BY <2>1, <3>1, SaveOutcome
        <3>3. Allowed(cur, d) /\ Closed(d, r)
            BY <1>10, <2>1, <3>1, SaveIsAllowed DEF IsTerminal
        <3>4. Exists(cur) /\ IsTerminal(d)
            BY <1>11, <2>1, <3>3 DEF Closed
        <3> QED BY <2>3, <3>2, <3>3, <3>4, StopContract DEF run, cur, r
    <2> QED BY <1>20, <2>2, <2>3 DEF RunFail, run
<1> QED
    BY <1>1, <1>14, <1>15, <1>16, <1>17, <1>18, <1>19, <1>20 DEF SkillStep, RunnerStep, ChildExits

-----------------------------------------------------------------------------
(* The step of the whole system, and the theorems *)

LEMMA ContractStep ==
    ASSUME Undisturbed, TypeOK, ContractInv, ClaimsOnce, [Next]_vars
    PROVE  ContractInv' /\ Moved
PROOF
<1>1. Request = {} /\ TimelyHeartbeats /\ "SIGTERM" \notin Stops
      /\ \A r \in Runtime : mode[r] # "stopping"
    BY DEF Undisturbed, ContractInv
<1>2. CASE QueueStep
    <2>1. ASSUME NEW r \in Runtime, NEW j \in Job,
                 \/ Submit(r, j) \/ EnqueueCheck(r, j) \/ EnqueuePersist(r, j)
                 \/ Renew(r, j) \/ Reconcile(r, j) \/ ShutdownRelease(r, j)
          PROVE  ContractInv' /\ Moved
        <3>1. ~ShutdownRelease(r, j)
            BY <1>1 DEF ShutdownRelease
        <3> QED BY <2>1, <3>1, SubmissionContract, RenewContract, ReconcileContract, Zenon
    <2>2. ASSUME NEW r \in Runtime, DrainShift(r) \/ DrainClaim(r) \/ DrainFault(r)
          PROVE  ContractInv' /\ Moved
        BY <2>2, DrainContract
    <2>3. ASSUME NEW r \in Runtime, Start(r) \/ Shutdown(r)
          PROVE  ContractInv' /\ Moved
        <3>1. Start(r)
            BY <1>1, <2>3 DEF Shutdown
        <3>2. \A q \in Runtime : mode'[q] # "stopping"
            BY <1>1, <3>1 DEF Start, TypeOK, QueueTypeOK
        <3> QED BY <3>1, <3>2, QuietContract DEF Start
    <2> QED
        BY <1>2, <2>1, <2>2, <2>3, FinalizeContract, LeaseExpiresContract, <1>1, Zenon
           DEF QueueStep, QueueNext
<1>3. CASE ProcessExit
    BY <1>3, ExitContract DEF ProcessExit
<1>4. CASE UNCHANGED vars
    BY <1>1, <1>4, QuietContract DEF vars, queueVars
<1> QED BY <1>1, <1>2, <1>3, <1>4, RunContract DEF Next, RequestStep

LEMMA ContractStart == Init => ContractInv /\ Contract!ContractInit
PROOF
<1> SUFFICES ASSUME Init PROVE ContractInv /\ Contract!ContractInit
    OBVIOUS
<1>1. /\ runs = <<>> /\ \A j \in Job : docs[j] = Absent
      /\ \A r \in Runtime : mode[r] = "off"
    BY DEF Init, QueueInit
<1>2. DOMAIN runs = {}
    BY <1>1
<1>3. PhaseOf(Absent) = "none" /\ ~Held(Absent.qr)
    <2>1. Absent.status = "absent"
        BY DEF Absent
    <2> QED BY <2>1, PhaseFacts, FreshDocuments, FreshIsOrderly DEF Held, IsLeaseValid
<1> QED BY <1>1, <1>2, <1>3, FreshIsOrderly DEF ContractInv, Contract!ContractInit

LEMMA ContractHolds == Undisturbed => (Spec /\ []ClaimsOnce => []ContractInv)
PROOF
<1> SUFFICES ASSUME Undisturbed PROVE Spec /\ []ClaimsOnce => []ContractInv
    OBVIOUS
<1>1. TypeOK /\ ContractInv /\ ClaimsOnce /\ [Next]_vars => ContractInv'
    BY ContractStep
<1>2. Init => ContractInv
    BY ContractStart
<1> QED BY <1>1, <1>2, TypeCorrect, PTL DEF Spec

(* Whatever runtimes do, are killed or find failing, each step on a job is one the *)
(* contract of the queue knows, under both providers, as long as a runtime does    *)
(* not claim a job that it already executes.                                       *)
THEOREM QueueKeepsContract == Undisturbed => (Spec /\ []ClaimsOnce => KeepsContract)
PROOF
<1> SUFFICES ASSUME Undisturbed PROVE Spec /\ []ClaimsOnce => KeepsContract
    OBVIOUS
<1>1. TypeOK /\ ContractInv /\ ClaimsOnce /\ [Next]_vars
          => [Contract!ContractNext]_(Contract!contractVars)
    <2> SUFFICES ASSUME TypeOK, ContractInv, ClaimsOnce, [Next]_vars
                 PROVE  [Contract!ContractNext]_(Contract!contractVars)
        OBVIOUS
    <2>1. CASE UNCHANGED docs
        BY <2>1 DEF Contract!contractVars
    <2>2. ASSUME NEW j \in Job, NEW d \in Documents, Store(j, d), Allowed(docs[j], d)
          PROVE  [Contract!ContractNext]_(Contract!contractVars)
        BY <2>2, MoveIsAStep DEF Allowed
    <2> QED BY <2>1, <2>2, ContractStep DEF Moved
<1>2. Init => Contract!ContractInit
    BY ContractStart
<1> QED
    BY <1>1, <1>2, ContractHolds, TypeCorrect, PTL DEF Spec, KeepsContract, Contract!ContractSpec

(* With one job at a time, a claim finds no execution on its runtime *)
LEMMA OneClaim == MaxConcurrent = 1 => (Spec => []ClaimsOnce)
PROOF
<1> SUFFICES ASSUME MaxConcurrent = 1 PROVE Spec => []ClaimsOnce
    OBVIOUS
<1>1. RoomForTheClaim => ClaimsOnce
    <2> SUFFICES ASSUME RoomForTheClaim, NEW r \in Runtime, claiming[r] # NoJob
                 PROVE  active[r] = {}
        BY DEF ClaimsOnce
    <2>1. IsFiniteSet(active[r]) /\ Cardinality(active[r]) < 1
        BY DEF RoomForTheClaim
    <2>2. Cardinality(active[r]) = 0
        BY <2>1, FS_CardinalityType
    <2> QED BY <2>1, <2>2, FS_EmptySet
<1> QED BY <1>1, RoomIsKept, PTL

(* With MAX_CONCURRENT_JOBS = 1 the code itself sees to that condition, and the  *)
(* queue implements its contract without a further assumption.                  *)
THEOREM SerialQueueKeepsContract ==
    Undisturbed /\ MaxConcurrent = 1 => (Spec => KeepsContract)
PROOF
BY QueueKeepsContract, OneClaim, PTL

(* Then a job never has two executions that go on, lapsed or not: under timely *)
(* heartbeats the lease of a live execution does not run out.                 *)
THEOREM SerialRunsAreExclusive ==
    Undisturbed /\ MaxConcurrent = 1 => (Spec => []ExclusiveRuns)
PROOF
<1> SUFFICES ASSUME Undisturbed, MaxConcurrent = 1 PROVE Spec => []ExclusiveRuns
    OBVIOUS
<1>1. ContractInv => ExclusiveRuns
    BY DEF ContractInv, ExclusiveRuns, Overlap
<1> QED BY <1>1, ContractHolds, OneClaim, PTL

(* And an end is final: no execution writes to a job that has ended but the one   *)
(* that ended it, and that one changes the status only after a call has failed.   *)
THEOREM SerialEndsAreFinal ==
    Undisturbed /\ MaxConcurrent = 1 /\ MaxFaults = 0 => (Spec => TerminalIsFinal)
PROOF
<1> SUFFICES ASSUME Undisturbed, MaxConcurrent = 1, MaxFaults = 0 PROVE Spec => TerminalIsFinal
    OBVIOUS
<1>1. TypeOK /\ ContractInv /\ ClaimsOnce /\ [Next]_vars =>
          [\A j \in Job : IsTerminal(docs[j]) => docs'[j].status = docs[j].status]_vars
    <2> SUFFICES ASSUME TypeOK, ContractInv, ClaimsOnce, [Next]_vars, NEW k \in Job, IsTerminal(docs[k])
                 PROVE  docs'[k].status = docs[k].status
        OBVIOUS
    <2>1. faults = 0 /\ docs \in [Job -> Documents]
        BY DEF TypeOK, QueueTypeOK
    <2>2. ASSUME NEW j \in Job, NEW d \in Documents, Store(j, d), Allowed(docs[j], d)
          PROVE  docs'[k].status = docs[k].status
        BY <2>1, <2>2 DEF Allowed, Store
    <2> QED BY <2>2, ContractStep DEF Moved
<1> QED BY <1>1, ContractHolds, OneClaim, TypeCorrect, PTL DEF Spec, TerminalIsFinal
=============================================================================
