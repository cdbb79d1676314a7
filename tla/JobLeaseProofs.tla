--------------------------- MODULE JobLeaseProofs ---------------------------
(***************************************************************************)
(* The lease protects an execution: proofs for the SQLite provider and a   *)
(* queue without cancellation requests, for every number of runtimes, jobs *)
(* and faults, with or without timely heartbeats.  Both conditions are     *)
(* needed: run refuted_foreign_lease shows a lease that is taken when a    *)
(* request cancels a job, and under Firebase the save of an old copy       *)
(* overwrites the lease with the one that was read.                        *)
(***************************************************************************)
EXTENDS JobLifecycleProofs

(* A document without a cancellation, whose lease is looked at by everybody: *)
(* the guards only honour a lease in a running or cancelling queue state.    *)
Orderly(d) ==
    /\ d.status # "cancelling" /\ d.qr.queueState # "cancelling"
    /\ IsLeaseValid(d.qr) => d.qr.queueState = "running"

(* The copies of an execution: it has changed the status, never the lease *)
OrderlyCopies(run) ==
    /\ run.want.qr = run.base.qr
    /\ run.base.status # "cancelling" /\ run.want.status # "cancelling"

LeaseInv ==
    /\ \A j \in Job : Orderly(docs[j])
    /\ \A j \in Job : submission[j].stage = "none" => docs[j] = Absent
    /\ \A i \in DOMAIN runs : OrderlyCopies(runs[i])
    /\ RunsHoldTheirLease

(* What ForeignLeaseRejects says of one step *)
NoLeaseTaken == \A j \in Job : IsLeaseValid(docs[j].qr) => docs'[j].qr.owner = docs[j].qr.owner

-----------------------------------------------------------------------------
(* What the updaters do to an orderly document *)

LEMMA FreshIsOrderly == Orderly(Absent) /\ Orderly(Created) /\ Absent.qr.lease = "none"
PROOF
BY DEF Orderly, Absent, Created, Released, IsLeaseValid

LEMMA HoldersKeepOrder ==
    ASSUME NEW d \in Documents, Orderly(d), NEW r \in Runtime
    PROVE  /\ Orderly(Claimed(d, r)) /\ Held(Claimed(d, r).qr) /\ Claimed(d, r).qr.owner = r
           /\ Orderly(Renewed(d)) /\ Held(Renewed(d).qr) /\ Renewed(d).qr.owner = d.qr.owner
           /\ Orderly(Finalized(d)) /\ Finalized(d).qr.owner = d.qr.owner
           /\ Orderly(ReleasedForRestart(d)) /\ ReleasedForRestart(d).qr.owner = d.qr.owner
PROOF
<1> USE DEF Orderly, Held, IsLeaseValid
<1>1. d.qr \in QueueRuntimes
    BY DEF Documents
<1>2. Orderly(Claimed(d, r)) /\ Held(Claimed(d, r).qr) /\ Claimed(d, r).qr.owner = r
    BY <1>1 DEF Claimed, Documents, QueueRuntimes
<1>3. Orderly(Renewed(d)) /\ Held(Renewed(d).qr) /\ Renewed(d).qr.owner = d.qr.owner
    BY <1>1 DEF Renewed, Documents, QueueRuntimes
<1>4. Orderly(Finalized(d)) /\ Finalized(d).qr.owner = d.qr.owner
    BY <1>1 DEF Finalized, Documents, QueueRuntimes
<1>5. Orderly(ReleasedForRestart(d)) /\ ReleasedForRestart(d).qr.owner = d.qr.owner
    BY <1>1 DEF ReleasedForRestart, Documents, QueueRuntimes
<1> QED BY <1>2, <1>3, <1>4, <1>5

LEMMA FindersKeepOrder ==
    ASSUME NEW d \in Documents, Orderly(d)
    PROVE  Orderly(Persisted(d)) /\ Orderly(Reconciled(d))
PROOF
<1> USE DEF Orderly, IsLeaseValid
<1>1. d.qr \in QueueRuntimes
    BY DEF Documents
<1>2. Orderly(Persisted(d))
    BY DEF Persisted, Released, Documents
<1>3. Orderly(Reconciled(d))
    BY <1>1 DEF Reconciled, Released, Documents, QueueRuntimes
<1> QED BY <1>2, <1>3

LEMMA ExpiryKeepsOrder ==
    ASSUME NEW d \in Documents, Orderly(d)
    PROVE  /\ Orderly([d EXCEPT !.qr.lease = "expired"])
           /\ [d EXCEPT !.qr.lease = "expired"].qr.owner = d.qr.owner
PROOF
<1>1. d.qr \in QueueRuntimes
    BY DEF Documents
<1> QED BY <1>1 DEF Orderly, IsLeaseValid, Documents, QueueRuntimes

-----------------------------------------------------------------------------
(* One job is written while executions only end or lapse.  The hold of those *)
(* that go on is safe when the write keeps it, when there was none, or when  *)
(* the executions of the holder do not go on.                                *)
LEMMA HoldStep ==
    ASSUME LeaseInv, NEW j \in Job, NEW d, docs \in [Job -> Documents], Store(j, d), Orderly(d),
           DOMAIN runs' = DOMAIN runs,
           \A i \in DOMAIN runs :
              /\ runs[i].job \in Job
              /\ runs'[i].job = runs[i].job /\ runs'[i].rt = runs[i].rt
              /\ ~Ended(runs'[i]) => ~Ended(runs[i])
              /\ runs[i].lapsed => runs'[i].lapsed
              /\ OrderlyCopies(runs'[i]),
           \A k \in Job : submission'[k].stage = "none" =>
                             submission[k].stage = "none" /\ docs'[k] = docs[k],
           \/ Held(d.qr) /\ d.qr.owner = docs[j].qr.owner
           \/ ~Held(docs[j].qr)
           \/ /\ d.qr.owner = docs[j].qr.owner
              /\ \A i \in DOMAIN runs :
                    runs[i].job = j /\ runs[i].rt = docs[j].qr.owner =>
                        Ended(runs'[i]) \/ runs'[i].lapsed
    PROVE  LeaseInv' /\ NoLeaseTaken
PROOF
<1>1. docs'[j] = d /\ \A k \in Job : k # j => docs'[k] = docs[k]
    BY DEF Store
<1>2. \A k \in Job : Orderly(docs'[k])
    BY <1>1 DEF LeaseInv
<1>3. \A i \in DOMAIN runs' :
          Live(i)' /\ ~runs'[i].lapsed =>
              Held(docs'[runs'[i].job].qr) /\ docs'[runs'[i].job].qr.owner = runs'[i].rt
    <2> SUFFICES ASSUME NEW i \in DOMAIN runs, ~Ended(runs'[i]), ~runs'[i].lapsed
                 PROVE  Held(docs'[runs[i].job].qr) /\ docs'[runs[i].job].qr.owner = runs[i].rt
        BY DEF Live
    <2>1. Held(docs[runs[i].job].qr) /\ docs[runs[i].job].qr.owner = runs[i].rt
        BY DEF LeaseInv, RunsHoldTheirLease, Live, OwnedBy
    <2> QED BY <1>1, <2>1
<1>4. NoLeaseTaken
    <2>1. IsLeaseValid(docs[j].qr) => Held(docs[j].qr)
        BY DEF LeaseInv, Orderly, Held
    <2> QED BY <1>1, <2>1 DEF NoLeaseTaken
<1>5. RunsHoldTheirLease'
    BY <1>3 DEF RunsHoldTheirLease, OwnedBy
<1>6. \A k \in Job : submission'[k].stage = "none" => docs'[k] = Absent
    BY DEF LeaseInv
<1>7. \A i \in DOMAIN runs' : OrderlyCopies(runs'[i])
    OBVIOUS
<1> QED BY <1>2, <1>4, <1>5, <1>6, <1>7 DEF LeaseInv

-----------------------------------------------------------------------------
(* Steps of the queue that write one document *)

LEMMA SubmitHold ==
    ASSUME TypeOK, LeaseInv, NEW r \in Runtime, NEW j \in Job, Submit(r, j)
    PROVE  LeaseInv' /\ NoLeaseTaken
PROOF
<1>1. docs \in [Job -> Documents] /\ submission \in [Job -> Submissions]
      /\ \A i \in DOMAIN runs : runs[i].job \in Job
    BY RunsAt DEF TypeOK, QueueTypeOK, Runs
<1>2. ~Held(docs[j].qr)
    BY <1>1, FreshIsOrderly DEF Submit, LeaseInv, Held, IsLeaseValid
<1>3. \A k \in Job : submission'[k].stage = "none" =>
                         submission[k].stage = "none" /\ docs'[k] = docs[k]
    BY <1>1 DEF Submit, Store, Submissions
<1>4. UNCHANGED runs /\ Store(j, Created)
    BY DEF Submit
<1> QED BY <1>1, <1>2, <1>3, <1>4, FreshIsOrderly, HoldStep DEF LeaseInv

(* Steps that leave the executions and the submissions as they are *)
LEMMA PlainStep ==
    ASSUME TypeOK, LeaseInv, NEW j \in Job, NEW d, Store(j, d), Orderly(d),
           UNCHANGED runs, d = docs[j] \/ Exists(docs[j]),
           \A k \in Job : submission'[k].stage = "none" => submission[k].stage = "none",
           \/ Held(d.qr) /\ d.qr.owner = docs[j].qr.owner
           \/ ~Held(docs[j].qr)
           \/ d = docs[j]
    PROVE  LeaseInv' /\ NoLeaseTaken
PROOF
<1>1. docs \in [Job -> Documents] /\ \A i \in DOMAIN runs : runs[i].job \in Job
    BY RunsAt DEF TypeOK, QueueTypeOK, Runs
<1>2. \A k \in Job : submission'[k].stage = "none" =>
                         submission[k].stage = "none" /\ docs'[k] = docs[k]
    BY <1>1 DEF LeaseInv, Exists, Absent, Store
<1>3. \/ Held(d.qr) /\ d.qr.owner = docs[j].qr.owner
      \/ ~Held(docs[j].qr)
    OBVIOUS
<1> QED BY <1>1, <1>2, <1>3, HoldStep DEF LeaseInv

LEMMA EnqueueHold ==
    ASSUME TypeOK, LeaseInv, NEW r \in Runtime, NEW j \in Job,
           EnqueueCheck(r, j) \/ EnqueuePersist(r, j)
    PROVE  LeaseInv' /\ NoLeaseTaken
PROOF
<1>1. docs[j] \in Documents /\ submission \in [Job -> Submissions] /\ Orderly(docs[j])
      /\ docs \in [Job -> Documents]
    BY DEF TypeOK, QueueTypeOK, LeaseInv
<1>2. \A k \in Job : submission'[k].stage = "none" => submission[k].stage = "none"
    BY <1>1 DEF EnqueueCheck, EnqueuePersist, Submissions
<1>3. UNCHANGED runs
    BY DEF EnqueueCheck, EnqueuePersist
<1>4. CASE UNCHANGED docs
    BY <1>1, <1>2, <1>3, <1>4, PlainStep DEF Store
<1>5. CASE PersistAllowed(docs[j]) /\ Store(j, Persisted(docs[j]))
    <2>1. Exists(docs[j]) /\ ~Held(docs[j].qr)
        BY <1>5 DEF PersistAllowed
    <2>2. Orderly(Persisted(docs[j]))
        BY <1>1, FindersKeepOrder
    <2> QED BY <1>2, <1>3, <1>5, <2>1, <2>2, PlainStep
<1> QED BY <1>4, <1>5 DEF EnqueueCheck, EnqueuePersist

LEMMA RenewHold ==
    ASSUME TypeOK, LeaseInv, NEW r \in Runtime, NEW j \in Job, Renew(r, j)
    PROVE  LeaseInv' /\ NoLeaseTaken
PROOF
<1>1. docs[j] \in Documents /\ Orderly(docs[j])
    BY DEF TypeOK, QueueTypeOK, LeaseInv
<1>2. UNCHANGED <<runs, submission>>
    BY DEF Renew
<1>3. CASE ~RenewAllowed(docs[j], r)
    BY <1>1, <1>2, <1>3, PlainStep DEF Renew
<1>4. CASE RenewAllowed(docs[j], r)
    <2>1. Exists(docs[j])
        BY <1>4 DEF RenewAllowed
    <2>2. Store(j, Renewed(docs[j]))
        BY <1>4 DEF Renew
    <2>3. Orderly(Renewed(docs[j])) /\ Held(Renewed(docs[j]).qr)
          /\ Renewed(docs[j]).qr.owner = docs[j].qr.owner
        BY <1>1, HoldersKeepOrder
    <2> QED BY <1>2, <2>1, <2>2, <2>3, PlainStep
<1> QED BY <1>3, <1>4

LEMMA ReconcileHold ==
    ASSUME TypeOK, LeaseInv, NEW r \in Runtime, NEW j \in Job, Reconcile(r, j)
    PROVE  LeaseInv' /\ NoLeaseTaken
PROOF
<1>1. docs[j] \in Documents /\ Orderly(docs[j])
    BY DEF TypeOK, QueueTypeOK, LeaseInv
<1>2. UNCHANGED <<runs, submission>> /\ Store(j, Reconciled(docs[j]))
    BY DEF Reconcile
<1>3. Exists(docs[j]) /\ ~Held(docs[j].qr)
    BY DEF Reconcile, ReconcileAllowed, IsActive, ActiveStatuses, RunningStatuses, Exists
<1>4. Orderly(Reconciled(docs[j]))
    BY <1>1, FindersKeepOrder
<1> QED BY <1>2, <1>3, <1>4, PlainStep

-----------------------------------------------------------------------------
(* Steps in which executions end or lapse *)

LEMMA ShutdownReleaseHold ==
    ASSUME TypeOK, LeaseInv, NEW r \in Runtime, NEW j \in Job, ShutdownRelease(r, j)
    PROVE  LeaseInv' /\ NoLeaseTaken
PROOF
<1> DEFINE released == ReleaseAllowed(docs[j], r)
<1> DEFINE d == IF released THEN ReleasedForRestart(docs[j]) ELSE docs[j]
<1>1. docs[j] \in Documents /\ Orderly(docs[j]) /\ docs \in [Job -> Documents]
      /\ \A i \in DOMAIN runs : runs[i] \in Runs
    BY RunsAt DEF TypeOK, QueueTypeOK, LeaseInv
<1>2. Store(j, d) /\ UNCHANGED submission
    BY DEF ShutdownRelease
<1>3. Orderly(d) /\ d.qr.owner = docs[j].qr.owner
    BY <1>1, HoldersKeepOrder
<1>4. released => Exists(docs[j]) /\ docs[j].qr.owner = r
    BY DEF ReleaseAllowed, OwnedBy
<1> HIDE DEF released
<1>5. /\ DOMAIN runs' = DOMAIN runs
      /\ \A i \in DOMAIN runs :
            /\ i \in RunsOf(r, j) => runs'[i] = [runs[i] EXCEPT !.beats = FALSE, !.lapsed = @ \/ released]
            /\ i \notin RunsOf(r, j) => runs'[i] = runs[i]
    BY DEF ShutdownRelease, released
<1>6. \A i \in DOMAIN runs :
          /\ runs[i].job \in Job
          /\ runs'[i].job = runs[i].job /\ runs'[i].rt = runs[i].rt
          /\ ~Ended(runs'[i]) => ~Ended(runs[i])
          /\ runs[i].lapsed => runs'[i].lapsed
          /\ OrderlyCopies(runs'[i])
    <2>1. \A i \in DOMAIN runs :
              /\ runs'[i].job = runs[i].job /\ runs'[i].rt = runs[i].rt
              /\ runs'[i].stage = runs[i].stage
              /\ runs'[i].base = runs[i].base /\ runs'[i].want = runs[i].want
              /\ runs[i].lapsed => runs'[i].lapsed
        <3>1. ASSUME NEW i \in DOMAIN runs, i \in RunsOf(r, j), NEW l \in BOOLEAN,
                     runs[i].lapsed => l,
                     runs'[i] = [runs[i] EXCEPT !.beats = FALSE, !.lapsed = l]
              PROVE  /\ runs'[i].job = runs[i].job /\ runs'[i].rt = runs[i].rt
                     /\ runs'[i].stage = runs[i].stage
                     /\ runs'[i].base = runs[i].base /\ runs'[i].want = runs[i].want
                     /\ runs[i].lapsed => runs'[i].lapsed
            BY <1>1, <3>1 DEF Runs
        <3>2. \A i \in RunsOf(r, j) : (runs[i].lapsed \/ released) \in BOOLEAN
            OBVIOUS
        <3>3. \A i \in RunsOf(r, j) : runs[i].lapsed => (runs[i].lapsed \/ released)
            OBVIOUS
        <3> QED BY <1>5, <3>1, <3>2, <3>3, Zenon
    <2>2. \A i \in DOMAIN runs : runs[i].job \in Job /\ OrderlyCopies(runs[i])
        BY <1>1 DEF Runs, LeaseInv
    <2> QED BY <2>1, <2>2 DEF Ended, OrderlyCopies
<1>7. \A k \in Job : submission'[k].stage = "none" =>
                         submission[k].stage = "none" /\ docs'[k] = docs[k]
    BY <1>1, <1>2, <1>4 DEF LeaseInv, Exists, Absent, Store
<1>8. CASE released
    <2>1. \A i \in DOMAIN runs :
              runs[i].job = j /\ runs[i].rt = docs[j].qr.owner => Ended(runs'[i]) \/ runs'[i].lapsed
        BY <1>1, <1>4, <1>5, <1>8 DEF RunsOf, Runs
    <2> HIDE DEF d
    <2> QED BY <1>1, <1>2, <1>3, <1>5, <1>6, <1>7, <2>1, HoldStep
<1>9. CASE ~released
    <2>1. d = docs[j]
        BY <1>9
    <2>2. (Held(d.qr) /\ d.qr.owner = docs[j].qr.owner) \/ ~Held(docs[j].qr)
        BY <2>1
    <2> HIDE DEF d
    <2> QED BY <1>1, <1>2, <1>3, <1>5, <1>6, <1>7, <2>2, HoldStep
<1> QED BY <1>8, <1>9

LEMMA LeaseExpiresHold ==
    ASSUME TypeOK, LeaseInv, NEW j \in Job, LeaseExpires(j)
    PROVE  LeaseInv' /\ NoLeaseTaken
PROOF
<1> DEFINE r == docs[j].qr.owner
<1> DEFINE d == [docs[j] EXCEPT !.qr.lease = "expired"]
<1>1. docs[j] \in Documents /\ Orderly(docs[j]) /\ docs \in [Job -> Documents] /\ runs \in Seq(Runs)
      /\ \A i \in DOMAIN runs : runs[i] \in Runs
    BY RunsAt DEF TypeOK, QueueTypeOK, LeaseInv
<1>2. Store(j, d) /\ runs' = Lapse(r, j) /\ UNCHANGED submission /\ IsLeaseValid(docs[j].qr)
    BY DEF LeaseExpires
<1>3. Orderly(d) /\ d.qr.owner = docs[j].qr.owner
    BY <1>1, ExpiryKeepsOrder
<1>4. DOMAIN runs' = DOMAIN runs
    BY <1>1, <1>2, LapseFacts
<1>5. \A i \in DOMAIN runs :
          /\ runs[i].job \in Job
          /\ runs'[i].job = runs[i].job /\ runs'[i].rt = runs[i].rt
          /\ ~Ended(runs'[i]) => ~Ended(runs[i])
          /\ runs[i].lapsed => runs'[i].lapsed
          /\ OrderlyCopies(runs'[i])
    BY <1>1, <1>2, LapseFacts DEF Runs, Ended, OrderlyCopies, LeaseInv
<1>6. \A k \in Job : submission'[k].stage = "none" =>
                         submission[k].stage = "none" /\ docs'[k] = docs[k]
    BY <1>1, <1>2, FreshIsOrderly DEF LeaseInv, IsLeaseValid, Store
<1>7. \A i \in DOMAIN runs :
          runs[i].job = j /\ runs[i].rt = docs[j].qr.owner => Ended(runs'[i]) \/ runs'[i].lapsed
    BY <1>1, <1>2, LapseFacts DEF Ended
<1> HIDE DEF d
<1> QED BY <1>1, <1>2, <1>3, <1>4, <1>5, <1>6, <1>7, HoldStep

LEMMA FinalizeHold ==
    ASSUME TypeOK, LeaseInv, NEW i \in DOMAIN runs, Finalize(i)
    PROVE  LeaseInv' /\ NoLeaseTaken
PROOF
<1> DEFINE r == runs[i].rt
<1> DEFINE j == runs[i].job
<1> DEFINE done == [runs[i] EXCEPT !.stage = "done"]
<1>1. /\ runs \in Seq(Runs) /\ docs \in [Job -> Documents] /\ r \in Runtime /\ j \in Job
      /\ \A k \in DOMAIN runs : runs[k] \in Runs /\ runs[k].job \in Job /\ OrderlyCopies(runs[k])
      /\ docs[j] \in Documents /\ Orderly(docs[j])
    BY RunsAt DEF TypeOK, QueueTypeOK, Runs, LeaseInv
<1>2. /\ done.job = j /\ done.rt = r /\ done.lapsed = runs[i].lapsed /\ Ended(done)
      /\ done.base = runs[i].base /\ done.want = runs[i].want
    BY <1>1 DEF Runs, Ended
<1>3. UNCHANGED submission
    BY DEF Finalize
<1> HIDE DEF done
<1>4. CASE /\ FinalizeAllowed(docs[j], r) /\ Store(j, Finalized(docs[j]))
           /\ runs' = [Lapse(r, j) EXCEPT ![i] = done]
    <2>1. Exists(docs[j]) /\ docs[j].qr.owner = r
        BY <1>4 DEF FinalizeAllowed, OwnedBy
    <2>2. Orderly(Finalized(docs[j])) /\ Finalized(docs[j]).qr.owner = docs[j].qr.owner
        BY <1>1, HoldersKeepOrder
    <2>3. /\ DOMAIN runs' = DOMAIN runs
          /\ \A k \in DOMAIN runs : runs'[k] = IF k = i THEN done ELSE Lapse(r, j)[k]
        BY <1>1, <1>4, LapseFacts
    <2>4. \A k \in DOMAIN runs :
              /\ runs[k].job \in Job
              /\ runs'[k].job = runs[k].job /\ runs'[k].rt = runs[k].rt
              /\ ~Ended(runs'[k]) => ~Ended(runs[k])
              /\ runs[k].lapsed => runs'[k].lapsed
              /\ OrderlyCopies(runs'[k])
        BY <1>1, <1>2, <2>3, LapseFacts DEF Ended, OrderlyCopies
    <2>5. \A k \in DOMAIN runs :
              runs[k].job = j /\ runs[k].rt = docs[j].qr.owner => Ended(runs'[k]) \/ runs'[k].lapsed
        BY <1>1, <1>2, <2>1, <2>3, LapseFacts DEF Ended
    <2>6. \A k \in Job : submission'[k].stage = "none" =>
                             submission[k].stage = "none" /\ docs'[k] = docs[k]
        BY <1>1, <1>3, <1>4, <2>1 DEF LeaseInv, Exists, Absent, Store
    <2> HIDE DEF r, j
    <2> QED BY <1>1, <1>4, <2>2, <2>3, <2>4, <2>5, <2>6, HoldStep
<1>5. CASE UNCHANGED docs /\ runs' = [runs EXCEPT ![i] = done]
    <2>1. /\ DOMAIN runs' = DOMAIN runs
          /\ \A k \in DOMAIN runs : runs'[k] = IF k = i THEN done ELSE runs[k]
        BY <1>5
    <2>2. \A k \in DOMAIN runs :
              /\ runs[k].job \in Job
              /\ runs'[k].job = runs[k].job /\ runs'[k].rt = runs[k].rt
              /\ ~Ended(runs'[k]) => ~Ended(runs[k])
              /\ runs[k].lapsed => runs'[k].lapsed
              /\ OrderlyCopies(runs'[k])
        BY <1>1, <1>2, <2>1 DEF OrderlyCopies
    <2>3. Store(j, docs[j]) /\ (Held(docs[j].qr) \/ ~Held(docs[j].qr))
        BY <1>1, <1>5 DEF Store
    <2>4. \A k \in Job : submission'[k].stage = "none" =>
                             submission[k].stage = "none" /\ docs'[k] = docs[k]
        BY <1>3, <1>5
    <2> HIDE DEF r, j
    <2> QED BY <1>1, <2>1, <2>2, <2>3, <2>4, HoldStep
<1> QED BY <1>4, <1>5 DEF Finalize, done

(* The end of a process: nothing is stored, its executions end *)
LEMMA ExitHold ==
    ASSUME TypeOK, LeaseInv, NEW r \in Runtime, Exit(r)
    PROVE  LeaseInv' /\ NoLeaseTaken
PROOF
<1>1. /\ \A i \in DOMAIN runs : runs[i] \in Runs /\ OrderlyCopies(runs[i])
      /\ submission \in [Job -> Submissions]
    BY RunsAt DEF TypeOK, QueueTypeOK, LeaseInv
<1>2. UNCHANGED docs
    BY DEF Exit
<1>3. \A run \in Runs :
          LET gone == [run EXCEPT !.stage = "dead", !.beats = FALSE, !.base = Absent, !.want = Absent]
          IN  Ended(gone) /\ OrderlyCopies(gone)
    BY DEF Runs, Ended, OrderlyCopies, Absent
<1>4. DOMAIN runs' = DOMAIN runs
      /\ \A i \in DOMAIN runs : OrderlyCopies(runs'[i]) /\ (Ended(runs'[i]) \/ runs'[i] = runs[i])
    BY <1>1, <1>3 DEF Exit
<1>5. \A k \in Job : submission'[k].stage = "none" => submission[k].stage = "none"
    BY <1>1 DEF Exit, Submissions
<1>6. RunsHoldTheirLease'
    BY <1>2, <1>4 DEF LeaseInv, RunsHoldTheirLease, Live, Held, OwnedBy
<1>7. \A k \in Job : submission'[k].stage = "none" => docs'[k] = Absent
    BY <1>2, <1>5 DEF LeaseInv
<1>8. \A k \in Job : Orderly(docs'[k])
    BY <1>2 DEF LeaseInv
<1>9. NoLeaseTaken
    BY <1>2 DEF NoLeaseTaken
<1> QED BY <1>4, <1>6, <1>7, <1>8, <1>9 DEF LeaseInv

-----------------------------------------------------------------------------
(* A claim: the one step that starts an execution *)

LEMMA ClaimNeedsUnheld ==
    ASSUME NEW d, NEW r, Orderly(d), ClaimAllowed(d, r)
    PROVE  Exists(d) /\ (Held(d.qr) => d.qr.owner = r)
PROOF
BY DEF Orderly, ClaimAllowed, Held, OwnedBy, Exists

LEMMA ClaimHold ==
    ASSUME TypeOK, LeaseInv, NEW r \in Runtime, DrainClaim(r) \/ DrainFault(r)
    PROVE  LeaseInv' /\ NoLeaseTaken
PROOF
<1> DEFINE j == claiming[r]
<1>1. /\ j \in Job /\ runs \in Seq(Runs) /\ docs \in [Job -> Documents]
      /\ docs[j] \in Documents /\ Orderly(docs[j])
      /\ UNCHANGED submission
    BY DEF TypeOK, QueueTypeOK, DrainClaim, DrainFault, LeaseInv
<1> HIDE DEF j
<1>2. CASE UNCHANGED <<docs, runs>>
    BY <1>1, <1>2, PlainStep DEF Store
<1>3. ASSUME ClaimAllowed(docs[j], r), Store(j, Claimed(docs[j], r))
      PROVE  /\ Exists(docs[j]) /\ Orderly(Claimed(docs[j], r))
             /\ Held(Claimed(docs[j], r).qr) /\ Claimed(docs[j], r).qr.owner = r
             /\ Held(docs[j].qr) => docs[j].qr.owner = r
    BY <1>1, <1>3, ClaimNeedsUnheld, HoldersKeepOrder
<1>4. CASE ClaimAllowed(docs[j], r) /\ Store(j, Claimed(docs[j], r)) /\ UNCHANGED runs
    BY <1>1, <1>3, <1>4, PlainStep
<1>5. CASE ClaimAllowed(docs[j], r) /\ Store(j, Claimed(docs[j], r)) /\ runs' = Append(runs, NewRun(r, j))
    <2>1. /\ docs'[j] = Claimed(docs[j], r)
          /\ \A k \in Job : k # j => docs'[k] = docs[k]
        BY <1>1, <1>5 DEF Store
    <2>2. Len(runs) \in Nat /\ DOMAIN runs = 1..Len(runs)
        BY <1>1, LenProperties
    <2>3. /\ DOMAIN runs' = 1..(Len(runs) + 1)
          /\ \A i \in DOMAIN runs : runs'[i] = runs[i]
          /\ runs'[Len(runs) + 1] = NewRun(r, j)
        BY <1>1, <1>5, <2>2
    <2>4. NewRun(r, j).job = j /\ NewRun(r, j).rt = r /\ OrderlyCopies(NewRun(r, j))
        BY DEF NewRun, OrderlyCopies, Absent
    <2>5. \A i \in DOMAIN runs : runs[i].job \in Job /\ OrderlyCopies(runs[i])
        BY <1>1, RunsAt DEF Runs, LeaseInv
    <2>6. \A i \in DOMAIN runs' : OrderlyCopies(runs'[i])
        BY <2>2, <2>3, <2>4, <2>5
    <2>7. \A i \in DOMAIN runs' :
              ~Ended(runs'[i]) /\ ~runs'[i].lapsed =>
                  Held(docs'[runs'[i].job].qr) /\ docs'[runs'[i].job].qr.owner = runs'[i].rt
        <3>1. ASSUME NEW i \in DOMAIN runs, ~Ended(runs[i]), ~runs[i].lapsed
              PROVE  Held(docs'[runs[i].job].qr) /\ docs'[runs[i].job].qr.owner = runs[i].rt
            <4>1. Held(docs[runs[i].job].qr) /\ docs[runs[i].job].qr.owner = runs[i].rt
                BY <3>1 DEF LeaseInv, RunsHoldTheirLease, Live, OwnedBy
            <4> QED BY <1>3, <1>5, <2>1, <2>5, <4>1
        <3>2. Held(docs'[j].qr) /\ docs'[j].qr.owner = r
            BY <1>3, <1>5, <2>1
        <3> QED BY <2>2, <2>3, <2>4, <3>1, <3>2
    <2>8. RunsHoldTheirLease'
        BY <2>7 DEF RunsHoldTheirLease, Live, OwnedBy
    <2>9. \A k \in Job : Orderly(docs'[k])
        BY <1>3, <1>5, <2>1 DEF LeaseInv
    <2>10. \A k \in Job : submission'[k].stage = "none" => docs'[k] = Absent
        <3>1. submission[j].stage # "none"
            BY <1>1, <1>3, <1>5 DEF LeaseInv, Exists, Absent
        <3> QED BY <1>1, <2>1, <3>1 DEF LeaseInv
    <2>11. NoLeaseTaken
        <3>1. IsLeaseValid(docs[j].qr) => Held(docs[j].qr)
            BY <1>1 DEF Orderly, Held
        <3> QED BY <1>3, <1>5, <2>1, <3>1 DEF NoLeaseTaken
    <2> QED BY <2>6, <2>8, <2>9, <2>10, <2>11 DEF LeaseInv
<1> QED BY <1>2, <1>4, <1>5 DEF DrainClaim, DrainFault, j

-----------------------------------------------------------------------------
(* An execution moves on: it may save its copy, which under SQLite leaves the *)
(* queueRuntime of the document as it is.                                     *)

LEMMA ExecutionHold ==
    ASSUME TypeOK, LeaseInv, NEW i \in DOMAIN runs, NEW new, ~Ended(runs[i]),
           runs' = [runs EXCEPT ![i] = new],
           new.job = runs[i].job, new.rt = runs[i].rt, new.lapsed = runs[i].lapsed,
           OrderlyCopies(new), UNCHANGED submission,
           NEW d, Store(runs[i].job, d),
           \/ d = docs[runs[i].job]
           \/ /\ Exists(docs[runs[i].job]) /\ d.status # "cancelling"
              /\ d.qr = docs[runs[i].job].qr
    PROVE  LeaseInv' /\ NoLeaseTaken
PROOF
<1> DEFINE j == runs[i].job
<1>1. /\ docs \in [Job -> Documents] /\ j \in Job /\ Orderly(docs[j])
      /\ \A k \in DOMAIN runs : runs[k].job \in Job /\ OrderlyCopies(runs[k])
    BY RunsAt DEF TypeOK, QueueTypeOK, Runs, LeaseInv
<1>2. Orderly(d)
    BY <1>1 DEF Orderly
<1>3. /\ DOMAIN runs' = DOMAIN runs
      /\ \A k \in DOMAIN runs : runs'[k] = IF k = i THEN new ELSE runs[k]
    OBVIOUS
<1>4. \A k \in DOMAIN runs :
          /\ runs[k].job \in Job
          /\ runs'[k].job = runs[k].job /\ runs'[k].rt = runs[k].rt
          /\ ~Ended(runs'[k]) => ~Ended(runs[k])
          /\ runs[k].lapsed => runs'[k].lapsed
          /\ OrderlyCopies(runs'[k])
    BY <1>1, <1>3
<1>5. \A k \in Job : submission'[k].stage = "none" =>
                         submission[k].stage = "none" /\ docs'[k] = docs[k]
    BY <1>1 DEF LeaseInv, Exists, Absent, Store
<1>6. \/ Held(d.qr) /\ d.qr.owner = docs[j].qr.owner
      \/ ~Held(docs[j].qr)
    OBVIOUS
<1> HIDE DEF j
<1> QED BY <1>1, <1>2, <1>3, <1>4, <1>5, <1>6, HoldStep DEF j

LEMMA RunHold ==
    ASSUME Provider = "sqlite", TypeOK, LeaseInv, RunStep
    PROVE  LeaseInv' /\ NoLeaseTaken
PROOF
<1>1. PICK i \in DOMAIN runs : SkillStep(i)
    BY DEF RunStep
<1> DEFINE run == runs[i]
<1>2. /\ run \in Runs /\ OrderlyCopies(run) /\ run.job \in Job
      /\ docs \in [Job -> Documents] /\ docs[run.job] \in Documents /\ Orderly(docs[run.job])
    BY RunsAt DEF TypeOK, QueueTypeOK, Runs, LeaseInv
<1>3. ~Ended(run)
    BY <1>1 DEF SkillStep, RunnerStep, ChildExits, RunLoad, RunBegin, RunExit, RunExitInvalid,
                RunPersist, RunPublish, RunFail, At, Ended
<1>4. UNCHANGED submission
    BY <1>1 DEF SkillStep, RunnerStep, ChildExits, RunLoad, RunBegin, RunExit, RunExitInvalid,
                RunPersist, RunPublish, RunFail, UntouchedBySkill
(* What can be stored, and what the execution can become *)
<1>5. ASSUME NEW aged, NEW d \in Saves(run, aged)
      PROVE  /\ Exists(docs[run.job]) /\ d.qr = docs[run.job].qr /\ d.status # "cancelling"
             /\ Saved(run, d) = d
    <2>1. d \in SaveResults(docs[run.job], run.base, run.want, aged)
        BY <1>5 DEF Saves
    <2>2. d.qr = docs[run.job].qr /\ d.status \in {docs[run.job].status, run.want.status}
        BY <1>2, <2>1, SaveKeepsQueueRuntime DEF OrderlyCopies
    <2>3. Exists(docs[run.job])
        BY <1>5 DEF Saves, SaveConflicts
    <2> QED BY <1>2, <2>2, <2>3 DEF Orderly, OrderlyCopies, Saved
<1>6. ASSUME NEW stage, NEW base, NEW want, Advance(i, stage, base, want),
             want.qr = base.qr, base.status # "cancelling", want.status # "cancelling",
             NEW d, Store(run.job, d),
             \/ d = docs[run.job]
             \/ Exists(docs[run.job]) /\ d.status # "cancelling" /\ d.qr = docs[run.job].qr
      PROVE  LeaseInv' /\ NoLeaseTaken
    <2> DEFINE new == [run EXCEPT !.stage = stage, !.base = base, !.want = want]
    <2>1. /\ new.job = run.job /\ new.rt = run.rt /\ new.lapsed = run.lapsed
          /\ new.base = base /\ new.want = want
        BY <1>2 DEF Runs
    <2>2. runs' = [runs EXCEPT ![i] = new] /\ OrderlyCopies(new)
        BY <1>6, <2>1 DEF Advance, OrderlyCopies
    <2> HIDE DEF new
    <2> QED BY <1>3, <1>4, <1>6, <2>1, <2>2, ExecutionHold
<1>7. ASSUME Stop(i), NEW d, Store(run.job, d),
             \/ d = docs[run.job]
             \/ Exists(docs[run.job]) /\ d.status # "cancelling" /\ d.qr = docs[run.job].qr
      PROVE  LeaseInv' /\ NoLeaseTaken
    <2> DEFINE new == [run EXCEPT !.stage = "finalizing", !.beats = FALSE,
                                  !.base = Absent, !.want = Absent]
    <2>1. /\ new.job = run.job /\ new.rt = run.rt /\ new.lapsed = run.lapsed
          /\ new.base = Absent /\ new.want = Absent
        BY <1>2 DEF Runs
    <2>2. runs' = [runs EXCEPT ![i] = new] /\ OrderlyCopies(new)
        BY <1>7, <2>1 DEF Stop, OrderlyCopies, Absent
    <2> HIDE DEF new
    <2> QED BY <1>3, <1>4, <1>7, <2>1, <2>2, ExecutionHold
<1>8. UNCHANGED docs => Store(run.job, docs[run.job])
    BY <1>2 DEF Store
<1>9. ASSUME NEW stage, NEW base, NEW copy \in Documents, NEW s, s # "cancelling",
             Advance(i, stage, base, [copy EXCEPT !.status = s]),
             copy.qr = base.qr, base.status # "cancelling", UNCHANGED docs
      PROVE  LeaseInv' /\ NoLeaseTaken
    <2> DEFINE want == [copy EXCEPT !.status = s]
    <2>1. want.qr = base.qr /\ want.status # "cancelling"
        BY <1>9 DEF Documents
    <2> HIDE DEF want
    <2> QED BY <1>6, <1>8, <1>9, <2>1 DEF want
<1>10. run.base \in Documents /\ run.want \in Documents
    BY <1>2 DEF Runs
<1>11. run.want.qr = run.base.qr /\ run.base.status # "cancelling" /\ run.want.status # "cancelling"
       /\ docs[run.job].status # "cancelling"
    BY <1>2 DEF OrderlyCopies, Orderly
<1> HIDE DEF run
<1>12. CASE RunLoad(i)
    <2> DEFINE cur == docs[run.job]
    <2>1. cur \in Documents /\ cur.status # "cancelling" /\ UNCHANGED docs
        BY <1>2, <1>11, <1>12 DEF RunLoad
    <2>2. Advance(i, "loaded", cur, [cur EXCEPT !.status = "generating"]) \/ Stop(i)
        BY <1>12 DEF RunLoad, run
    <2> QED BY <1>7, <1>8, <1>9, <2>1, <2>2
<1>13. CASE RunBegin(i)
    <2>1. CASE SaveThrows(run) /\ Stop(i)
        BY <1>7, <1>8, <2>1 DEF SaveThrows
    <2>2. CASE \E d \in Saves(run, FALSE) :
                   /\ Store(run.job, d)
                   /\ Advance(i, "working", Saved(run, d), Saved(run, d)) \/ Stop(i)
        <3>1. PICK d \in Saves(run, FALSE) :
                  /\ Store(run.job, d)
                  /\ Advance(i, "working", Saved(run, d), Saved(run, d)) \/ Stop(i)
            BY <2>2
        <3>2. /\ Exists(docs[run.job]) /\ d.qr = docs[run.job].qr /\ d.status # "cancelling"
              /\ Saved(run, d) = d
            BY <1>5
        <3> QED BY <1>6, <1>7, <3>1, <3>2
    <2> QED BY <1>13, <2>1, <2>2 DEF RunBegin, run
<1>14. CASE RunExit(i)
    <2>1. PICK result \in {"succeeded", "failed", "cancelled"}, outputs \in BOOLEAN :
              Advance(i, "saving", run.base, [run.base EXCEPT !.status = ResultStatus(result, outputs),
                                                             !.outputs = outputs])
        BY <1>14 DEF RunExit, run
    <2> DEFINE want == [run.base EXCEPT !.status = ResultStatus(result, outputs), !.outputs = outputs]
    <2>2. want.qr = run.base.qr /\ want.status # "cancelling"
        BY <1>10 DEF ResultStatus, Documents
    <2> HIDE DEF want
    <2>3. UNCHANGED docs
        BY <1>14 DEF RunExit
    <2> QED BY <1>6, <1>8, <1>11, <2>1, <2>2, <2>3 DEF want
<1>15. CASE RunExitInvalid(i)
    <2>1. UNCHANGED docs /\ Advance(i, "failing", run.base, [run.base EXCEPT !.status = "failed"])
        BY <1>15 DEF RunExitInvalid, run
    <2> QED BY <1>9, <1>10, <1>11, <2>1
<1>16. CASE RunPersist(i)
    <2>1. CASE /\ SaveThrows(run)
               /\ Advance(i, "failing", run.base, [run.want EXCEPT !.status = "failed"])
        <3>1. UNCHANGED docs
            BY <2>1 DEF SaveThrows
        <3> QED BY <1>9, <1>10, <1>11, <2>1, <3>1
    <2>2. CASE \E d \in Saves(run, TRUE) :
                   Store(run.job, d) /\ Advance(i, "publishing", Saved(run, d), Saved(run, d))
        <3>1. PICK d \in Saves(run, TRUE) :
                  Store(run.job, d) /\ Advance(i, "publishing", Saved(run, d), Saved(run, d))
            BY <2>2
        <3>2. /\ Exists(docs[run.job]) /\ d.qr = docs[run.job].qr /\ d.status # "cancelling"
              /\ Saved(run, d) = d
            BY <1>5
        <3> QED BY <1>6, <3>1, <3>2
    <2> QED BY <1>16, <2>1, <2>2 DEF RunPersist, run
<1>17. CASE RunPublish(i)
    <2>1. /\ UNCHANGED docs
          /\ Stop(i) \/ Advance(i, "failing", run.base, [run.base EXCEPT !.status = "failed"])
        BY <1>17 DEF RunPublish, run
    <2> QED BY <1>7, <1>8, <1>9, <1>10, <1>11, <2>1
<1>18. CASE RunFail(i)
    <2>1. CASE SaveThrows(run) /\ Stop(i)
        BY <1>7, <1>8, <2>1 DEF SaveThrows
    <2>2. CASE \E d \in Saves(run, TRUE) : Store(run.job, d) /\ Stop(i)
        <3>1. PICK d \in Saves(run, TRUE) : Store(run.job, d) /\ Stop(i)
            BY <2>2
        <3>2. Exists(docs[run.job]) /\ d.qr = docs[run.job].qr /\ d.status # "cancelling"
            BY <1>5
        <3> QED BY <1>7, <3>1, <3>2
    <2> QED BY <1>18, <2>1, <2>2 DEF RunFail, run
<1> QED
    BY <1>1, <1>12, <1>13, <1>14, <1>15, <1>16, <1>17, <1>18 DEF SkillStep, RunnerStep, ChildExits

-----------------------------------------------------------------------------
(* Steps that write no document, and the step of the whole system *)

LEMMA QuietStep ==
    ASSUME LeaseInv, UNCHANGED <<docs, runs, submission>>
    PROVE  LeaseInv' /\ NoLeaseTaken
PROOF
<1>1. RunsHoldTheirLease'
    BY DEF LeaseInv, RunsHoldTheirLease, Live
<1> QED BY <1>1 DEF LeaseInv, NoLeaseTaken

LEMMA LeaseStep ==
    ASSUME Provider = "sqlite", Request = {}, TypeOK, LeaseInv, [Next]_vars
    PROVE  LeaseInv' /\ NoLeaseTaken
PROOF
<1>1. CASE QueueStep
    <2>1. ASSUME NEW r \in Runtime, NEW j \in Job,
                 \/ Submit(r, j) \/ EnqueueCheck(r, j) \/ EnqueuePersist(r, j)
                 \/ Renew(r, j) \/ Reconcile(r, j) \/ ShutdownRelease(r, j)
          PROVE  LeaseInv' /\ NoLeaseTaken
        BY <2>1, SubmitHold, EnqueueHold, RenewHold, ReconcileHold, ShutdownReleaseHold, Zenon
    <2>2. ASSUME NEW r \in Runtime, DrainClaim(r) \/ DrainFault(r)
          PROVE  LeaseInv' /\ NoLeaseTaken
        BY <2>2, ClaimHold
    <2>3. ASSUME NEW r \in Runtime, DrainShift(r) \/ Start(r) \/ Shutdown(r)
          PROVE  LeaseInv' /\ NoLeaseTaken
        BY <2>3, QuietStep DEF DrainShift, Start, Shutdown
    <2> QED
        BY <1>1, <2>1, <2>2, <2>3, FinalizeHold, LeaseExpiresHold, Zenon DEF QueueStep, QueueNext
<1>2. CASE ProcessExit
    BY <1>2, ExitHold DEF ProcessExit
<1>3. CASE UNCHANGED vars
    BY <1>3, QuietStep DEF vars, queueVars
<1> QED BY <1>1, <1>2, <1>3, RunHold DEF Next, RequestStep

LEMMA LeaseInit == Init => LeaseInv
PROOF
<1> SUFFICES ASSUME Init PROVE LeaseInv
    OBVIOUS
<1>1. runs = <<>> /\ \A j \in Job : docs[j] = Absent
    BY DEF Init, QueueInit
<1>2. DOMAIN runs = {}
    BY <1>1
<1> QED BY <1>1, <1>2, FreshIsOrderly DEF LeaseInv, RunsHoldTheirLease

LEMMA LeaseCorrect == Provider = "sqlite" /\ Request = {} => (Spec => []LeaseInv)
PROOF
<1> SUFFICES ASSUME Provider = "sqlite", Request = {} PROVE Spec => []LeaseInv
    OBVIOUS
<1>1. TypeOK /\ LeaseInv /\ [Next]_vars => LeaseInv'
    BY LeaseStep
<1> QED BY <1>1, LeaseInit, TypeCorrect, PTL DEF Spec

(* An execution that keeps its lease stays the owner in the store, whatever other *)
(* runtimes claim, reconcile, shut down or lose.                                  *)
THEOREM RunsKeepTheirLease ==
    Provider = "sqlite" /\ Request = {} => (Spec => []RunsHoldTheirLease)
PROOF
<1>1. LeaseInv => RunsHoldTheirLease
    BY DEF LeaseInv
<1> QED BY <1>1, LeaseCorrect, PTL

(* Hence no two runtimes execute one job under leases that still hold: the store *)
(* names one owner.                                                              *)
THEOREM RunsAreExclusive ==
    Provider = "sqlite" /\ Request = {} => (Spec => []ExclusiveRuns)
PROOF
<1>1. RunsHoldTheirLease => ExclusiveRuns
    BY DEF RunsHoldTheirLease, ExclusiveRuns, Overlap, OwnedBy
<1> QED BY <1>1, RunsKeepTheirLease, PTL

(* No step takes a valid lease from its owner *)
THEOREM LeasesAreNotTaken ==
    Provider = "sqlite" /\ Request = {} => (Spec => ForeignLeaseRejects)
PROOF
<1> SUFFICES ASSUME Provider = "sqlite", Request = {} PROVE Spec => ForeignLeaseRejects
    OBVIOUS
<1>1. TypeOK /\ LeaseInv /\ [Next]_vars =>
          [\A j \in Job : IsLeaseValid(docs[j].qr) => docs'[j].qr.owner = docs[j].qr.owner]_vars
    BY LeaseStep DEF NoLeaseTaken
<1> QED BY <1>1, LeaseCorrect, TypeCorrect, PTL DEF Spec, ForeignLeaseRejects
=============================================================================
