------------------------- MODULE JobLifecycleProofs -------------------------
(***************************************************************************)
(* Theorems about JobLifecycle, for every set of jobs, runtimes and        *)
(* requests, every limit and both providers unless a theorem says which.   *)
(***************************************************************************)
EXTENDS JobLifecycle, SequenceTheorems, FiniteSetTheorems, WellFoundedInduction, TLAPS

-----------------------------------------------------------------------------
(* The updaters and the save of JobDocument: each leaves a document behind, *)
(* and each is bound to the lease in the way the queue relies on.           *)

(* A document made by hand is a document *)
LEMMA FreshDocuments ==
    /\ Absent \in Documents
    /\ Created \in Documents
    /\ \A rec \in {"none", "pending", "recovered"} : Released(rec) \in QueueRuntimes
PROOF
<1>1. \A rec \in {"none", "pending", "recovered"} : Released(rec) \in QueueRuntimes
    BY DEF Released, QueueRuntimes
<1>2. Absent \in Documents
    BY <1>1 DEF Absent, Documents, Statuses
<1>3. Created \in Documents
    BY <1>2 DEF Created, Documents, Statuses, ActiveStatuses
<1> QED BY <1>1, <1>2, <1>3

(* Claims and heartbeats, the updaters of a runtime that works on the job *)
LEMMA HoldersWriteDocuments ==
    ASSUME NEW d \in Documents, NEW r \in Runtime
    PROVE  /\ Claimed(d, r) \in Documents
           /\ Renewed(d) \in Documents
           /\ Finalized(d) \in Documents
           /\ ReleasedForRestart(d) \in Documents
PROOF
<1>1. d.qr \in QueueRuntimes /\ d.status \in Statuses
    BY DEF Documents
<1>2. Claimed(d, r) \in Documents
    BY <1>1 DEF Claimed, Documents, QueueRuntimes
<1>3. Renewed(d) \in Documents
    BY <1>1 DEF Renewed, Documents, QueueRuntimes
<1>4. Finalized(d) \in Documents
    BY <1>1 DEF Finalized, Documents, QueueRuntimes, Statuses, TerminalStatuses
<1>5. ReleasedForRestart(d) \in Documents
    BY <1>1 DEF ReleasedForRestart, Documents, QueueRuntimes
<1> QED BY <1>2, <1>3, <1>4, <1>5

(* The updaters of a runtime that finds the job unheld, and of a cancellation *)
LEMMA FindersWriteDocuments ==
    ASSUME NEW d \in Documents, NEW c \in Request
    PROVE  CancelMarked(d, c) \in Documents
PROOF
<1>1. d.qr \in QueueRuntimes
    BY DEF Documents
<1>2. \A s \in {"cancelling", "terminal"}, l \in {d.qr.lease, "none"} :
          [d.qr EXCEPT !.queueState = s, !.lease = l, !.heartbeatAt = c, !.cancelRequested = TRUE]
              \in QueueRuntimes
    BY <1>1 DEF QueueRuntimes
<1> QED BY <1>2 DEF CancelMarked, Documents

LEMMA RecoveryWritesDocuments ==
    ASSUME NEW d \in Documents
    PROVE  Persisted(d) \in Documents /\ Reconciled(d) \in Documents
PROOF
<1>1. d.qr \in QueueRuntimes
    BY DEF Documents
<1>2. Released("none") \in QueueRuntimes /\ Released("recovered") \in QueueRuntimes
    BY FreshDocuments
<1>3. Persisted(d) \in Documents
    BY <1>2 DEF Persisted, Documents, Statuses, ActiveStatuses
<1>4. CASE d.status = "queued"
    BY <1>2, <1>3, <1>4 DEF Reconciled, Documents
<1>5. CASE d.status # "queued"
    <2>1. [d.qr EXCEPT !.queueState = "terminal", !.lease = "none", !.heartbeatAt = "runtime",
                       !.reconciliation = "recovered"] \in QueueRuntimes
        BY <1>1 DEF QueueRuntimes
    <2> QED BY <1>3, <1>5, <2>1 DEF Reconciled, Documents, Statuses, TerminalStatuses
<1> QED BY <1>4, <1>5

(* Job.save of a copy leaves a document, whichever fields it writes *)
LEMMA SavesAreDocuments ==
    ASSUME NEW cur \in Documents, NEW base \in Documents, NEW want \in Documents, NEW aged,
           NEW d \in SaveResults(cur, base, want, aged)
    PROVE  d \in Documents
PROOF
<1>1. \A l \in WrittenLeases(cur, want, aged) : l \in {"none", "valid", "expired"}
    BY DEF WrittenLeases, Documents, QueueRuntimes
<1>2. \A l \in {"none", "valid", "expired"} : [want.qr EXCEPT !.lease = l] \in QueueRuntimes
    BY DEF Documents, QueueRuntimes
<1> QED BY <1>1, <1>2 DEF SaveResults, Documents

(* What a save under SQLite leaves alone: a queueRuntime that the handler did *)
(* not change stays as it is stored, however old the copy is.                *)
LEMMA SaveKeepsQueueRuntime ==
    ASSUME Provider = "sqlite",
           NEW cur, NEW base, NEW want, NEW aged, want.qr = base.qr,
           NEW d \in SaveResults(cur, base, want, aged)
    PROVE  d.qr = cur.qr /\ d.status \in {cur.status, want.status}
PROOF
<1>1. "qr" \notin Written(base, want)
    BY DEF Written, Changed
<1> QED BY <1>1 DEF SaveResults

-----------------------------------------------------------------------------
(* Executions: what the updates of runs keep *)

LEMMA RunsAt ==
    ASSUME runs \in Seq(Runs), NEW i \in DOMAIN runs
    PROVE  /\ runs[i] \in Runs
           /\ \A run \in Runs : [runs EXCEPT ![i] = run] \in Seq(Runs)
PROOF
<1>1. DOMAIN runs = 1..Len(runs)
    BY LenProperties
<1> QED BY <1>1, ElementOfSeq, ExceptSeq

LEMMA RunsMapped ==
    ASSUME runs \in Seq(Runs), NEW f, DOMAIN f = DOMAIN runs, f = [i \in DOMAIN f |-> f[i]],
           \A i \in DOMAIN runs : f[i] \in Runs
    PROVE  f \in Seq(Runs)
PROOF
<1>1. DOMAIN runs = 1..Len(runs) /\ Len(runs) \in Nat
    BY LenProperties
<1>2. f \in [1..Len(runs) -> Runs]
    BY <1>1
<1> QED BY <1>1, <1>2, SeqDef

LEMMA LapseType ==
    ASSUME runs \in Seq(Runs), NEW r, NEW j
    PROVE  Lapse(r, j) \in Seq(Runs) /\ DOMAIN Lapse(r, j) = DOMAIN runs
PROOF
<1>1. \A i \in DOMAIN runs : Lapse(r, j)[i] \in Runs
    BY RunsAt DEF Lapse, Runs
<1>2. DOMAIN Lapse(r, j) = DOMAIN runs /\ Lapse(r, j) = [i \in DOMAIN Lapse(r, j) |-> Lapse(r, j)[i]]
    BY DEF Lapse
<1> QED BY <1>1, <1>2, RunsMapped

LEMMA LapseFacts ==
    ASSUME runs \in Seq(Runs), NEW r, NEW j
    PROVE  /\ DOMAIN Lapse(r, j) = DOMAIN runs
           /\ \A i \in DOMAIN runs :
                 LET run == Lapse(r, j)[i] IN
                 /\ run.job = runs[i].job /\ run.rt = runs[i].rt /\ run.stage = runs[i].stage
                 /\ run.base = runs[i].base /\ run.want = runs[i].want
                 /\ runs[i].lapsed => run.lapsed
                 /\ runs[i].job = j /\ runs[i].rt = r => Ended(runs[i]) \/ run.lapsed
PROOF
<1>1. \A i \in DOMAIN runs : runs[i] \in Runs
    BY RunsAt
<1>2. DOMAIN Lapse(r, j) = DOMAIN runs
    BY DEF Lapse
<1>3. \A i \in DOMAIN runs :
          Lapse(r, j)[i] = IF i \in RunsOf(r, j) THEN [runs[i] EXCEPT !.lapsed = TRUE] ELSE runs[i]
    BY DEF Lapse
<1> QED BY <1>1, <1>2, <1>3 DEF Runs, RunsOf

LEMMA NewRunType ==
    ASSUME NEW r \in Runtime, NEW j \in Job
    PROVE  NewRun(r, j) \in Runs
PROOF
BY FreshDocuments DEF NewRun, Runs, RunStages

(* The two ways an execution moves on *)
LEMMA AdvanceType ==
    ASSUME runs \in Seq(Runs), NEW i \in DOMAIN runs, NEW stage \in RunStages,
           NEW base \in Documents, NEW want \in Documents, Advance(i, stage, base, want)
    PROVE  runs' \in Seq(Runs)
PROOF
<1>1. [runs[i] EXCEPT !.stage = stage, !.base = base, !.want = want] \in Runs
    BY RunsAt DEF Runs
<1> QED BY <1>1, RunsAt DEF Advance

LEMMA StopType ==
    ASSUME runs \in Seq(Runs), NEW i \in DOMAIN runs, Stop(i)
    PROVE  runs' \in Seq(Runs)
PROOF
<1>1. [runs[i] EXCEPT !.stage = "finalizing", !.beats = FALSE, !.base = Absent, !.want = Absent]
          \in Runs
    BY RunsAt, FreshDocuments DEF Runs, RunStages
<1> QED BY <1>1, RunsAt DEF Stop

-----------------------------------------------------------------------------
(* Updates of the store and of the sets of a runtime *)
LEMMA StoreType ==
    ASSUME docs \in [Job -> Documents], NEW j \in Job, NEW d \in Documents, Store(j, d)
    PROVE  docs' \in [Job -> Documents]
PROOF
BY DEF Store

LEMMA PushType ==
    ASSUME QueueTypeOK, NEW r \in Runtime, NEW j \in Job, Push(r, j)
    PROVE  /\ queued' \in [Runtime -> Seq(Job)]
           /\ known' \in [Runtime -> SUBSET Job]
           /\ cancelFlag' \in [Runtime -> SUBSET Job]
PROOF
<1>1. Append(queued[r], j) \in Seq(Job)
    BY AppendProperties DEF QueueTypeOK
<1>2. known[r] \cup {j} \in SUBSET Job /\ cancelFlag[r] \ {j} \in SUBSET Job
    BY DEF QueueTypeOK
<1> QED BY <1>1, <1>2 DEF QueueTypeOK, Push

LEMMA ForgetType ==
    ASSUME QueueTypeOK, NEW r \in Runtime, NEW j, Forget(r, j)
    PROVE  known' \in [Runtime -> SUBSET Job]
PROOF
<1>1. known[r] \ {j} \in SUBSET Job
    BY DEF QueueTypeOK
<1> QED BY <1>1 DEF QueueTypeOK, Forget

-----------------------------------------------------------------------------
(* Every variable keeps its type: the queue's own steps *)
LEMMA QueueStepType ==
    ASSUME QueueTypeOK, QueueNext
    PROVE  QueueTypeOK'
PROOF
<1> USE DEF QueueTypeOK
<1>1. ASSUME NEW r \in Runtime, NEW j \in Job, Submit(r, j)
      PROVE  QueueTypeOK'
    BY <1>1, FreshDocuments DEF Submit, Store, Submissions, localVars
<1>2. ASSUME NEW r \in Runtime, NEW j \in Job, EnqueueCheck(r, j)
      PROVE  QueueTypeOK'
    <2>1. submission' \in [Job -> Submissions]
        BY <1>2 DEF EnqueueCheck, Submissions
    <2> QED BY <1>2, <2>1 DEF EnqueueCheck, localVars
<1>3. ASSUME NEW r \in Runtime, NEW j \in Job, EnqueuePersist(r, j)
      PROVE  QueueTypeOK'
    <2>1. docs' \in [Job -> Documents]
        <3>1. docs[j] \in Documents /\ Persisted(docs[j]) \in Documents
            BY RecoveryWritesDocuments
        <3> QED BY <1>3, <3>1, StoreType DEF EnqueuePersist
    <2>2. submission' \in [Job -> Submissions]
        BY <1>3 DEF EnqueuePersist, Submissions
    <2>3. /\ queued' \in [Runtime -> Seq(Job)]
          /\ known' \in [Runtime -> SUBSET Job]
          /\ cancelFlag' \in [Runtime -> SUBSET Job]
        BY <1>3, PushType DEF EnqueuePersist
    <2> QED BY <1>3, <2>1, <2>2, <2>3 DEF EnqueuePersist
<1>4. ASSUME NEW r \in Runtime, NEW j \in Job, Renew(r, j)
      PROVE  QueueTypeOK'
    <2>1. docs' \in [Job -> Documents]
        BY <1>4, HoldersWriteDocuments DEF Renew, Store
    <2>2. cancelFlag' \in [Runtime -> SUBSET Job]
        BY <1>4 DEF Renew
    <2> QED BY <1>4, <2>1, <2>2 DEF Renew
<1>5. ASSUME NEW r \in Runtime, NEW j \in Job, Reconcile(r, j)
      PROVE  QueueTypeOK'
    <2>1. docs' \in [Job -> Documents]
        BY <1>5, RecoveryWritesDocuments DEF Reconcile, Store
    <2>2. /\ queued' \in [Runtime -> Seq(Job)]
          /\ known' \in [Runtime -> SUBSET Job]
          /\ cancelFlag' \in [Runtime -> SUBSET Job]
        <3>1. cancelFlag[r] \ {j} \in SUBSET Job
            OBVIOUS
        <3> QED BY <1>5, <3>1, PushType DEF Reconcile
    <2> QED BY <1>5, <2>1, <2>2 DEF Reconcile
<1>6. ASSUME NEW r \in Runtime, NEW j \in Job, ShutdownRelease(r, j)
      PROVE  QueueTypeOK'
    <2>1. docs' \in [Job -> Documents]
        BY <1>6, HoldersWriteDocuments DEF ShutdownRelease, Store
    <2>2. runs' \in Seq(Runs)
        <3>1. \A i \in DOMAIN runs : runs'[i] \in Runs
            BY <1>6, RunsAt DEF ShutdownRelease, Runs, ReleaseAllowed, Exists, OwnedBy
        <3>2. DOMAIN runs' = DOMAIN runs /\ runs' = [i \in DOMAIN runs' |-> runs'[i]]
            BY <1>6 DEF ShutdownRelease
        <3> QED BY <3>1, <3>2, RunsMapped
    <2> QED BY <1>6, <2>1, <2>2 DEF ShutdownRelease
<1>7. ASSUME NEW r \in Runtime, DrainShift(r)
      PROVE  QueueTypeOK'
    BY <1>7, HeadTailProperties DEF DrainShift
<1>8. ASSUME NEW r \in Runtime, DrainClaim(r)
      PROVE  QueueTypeOK'
    <2>1. claiming[r] \in Job
        BY <1>8 DEF DrainClaim
    <2>2. docs' \in [Job -> Documents]
        <3>1. docs[claiming[r]] \in Documents /\ Claimed(docs[claiming[r]], r) \in Documents
            BY <2>1, HoldersWriteDocuments
        <3> QED BY <1>8, <2>1, <3>1, StoreType DEF DrainClaim
    <2>3. runs' \in Seq(Runs)
        <3>1. NewRun(r, claiming[r]) \in Runs
            BY <2>1, NewRunType
        <3>2. Append(runs, NewRun(r, claiming[r])) \in Seq(Runs)
            BY <3>1, AppendProperties
        <3> QED BY <1>8, <3>2 DEF DrainClaim
    <2>4. active' \in [Runtime -> SUBSET Job] /\ known' \in [Runtime -> SUBSET Job]
        <3>1. active[r] \cup {claiming[r]} \in SUBSET Job
            BY <2>1
        <3> QED BY <1>8, <3>1, ForgetType DEF DrainClaim
    <2> QED BY <1>8, <2>2, <2>3, <2>4 DEF DrainClaim
<1>9. ASSUME NEW r \in Runtime, DrainFault(r)
      PROVE  QueueTypeOK'
    <2>1. docs' \in [Job -> Documents]
        <3>1. claiming[r] \in Job
            BY <1>9 DEF DrainFault
        <3>2. docs[claiming[r]] \in Documents /\ Claimed(docs[claiming[r]], r) \in Documents
            BY <3>1, HoldersWriteDocuments
        <3> QED BY <1>9, <3>1, <3>2, StoreType DEF DrainFault
    <2>2. faults' \in 0..MaxFaults
        BY <1>9, LimitAssumption DEF DrainFault, Fault
    <2> QED BY <1>9, <2>1, <2>2 DEF DrainFault
<1>10. ASSUME NEW r \in Runtime, Start(r)
       PROVE  QueueTypeOK'
    BY <1>10 DEF Start
<1>11. ASSUME NEW r \in Runtime, Shutdown(r)
       PROVE  QueueTypeOK'
    BY <1>11 DEF Shutdown
<1>12. ASSUME NEW i \in DOMAIN runs, Finalize(i)
       PROVE  QueueTypeOK'
    <2> DEFINE r == runs[i].rt
    <2> DEFINE j == runs[i].job
    <2> DEFINE done == [runs[i] EXCEPT !.stage = "done"]
    <2>1. r \in Runtime /\ j \in Job /\ done \in Runs
        BY RunsAt DEF Runs, RunStages
    <2>2. docs' \in [Job -> Documents]
        <3>1. docs[j] \in Documents /\ Finalized(docs[j]) \in Documents
            BY <2>1, HoldersWriteDocuments
        <3> QED BY <1>12, <2>1, <3>1, StoreType DEF Finalize
    <2>3. [runs EXCEPT ![i] = done] \in Seq(Runs)
        BY <2>1, RunsAt
    <2>4. [Lapse(r, j) EXCEPT ![i] = done] \in Seq(Runs)
        <3>1. Lapse(r, j) \in Seq(Runs) /\ DOMAIN Lapse(r, j) = DOMAIN runs
            BY LapseType
        <3> QED BY <2>1, <3>1, ExceptSeq, LenProperties
    <2>5. runs' \in Seq(Runs)
        BY <1>12, <2>3, <2>4 DEF Finalize
    <2>6. faults' \in 0..MaxFaults
        BY <1>12, LimitAssumption DEF Finalize, Fault
    <2> HIDE DEF r, j, done
    <2> QED BY <1>12, <2>2, <2>5, <2>6 DEF Finalize, Forget
<1>13. ASSUME NEW j \in Job, LeaseExpires(j)
       PROVE  QueueTypeOK'
    <2>1. [docs[j] EXCEPT !.qr.lease = "expired"] \in Documents
        <3>1. docs[j] \in Documents /\ docs[j].qr \in QueueRuntimes
            BY DEF Documents
        <3>2. [docs[j].qr EXCEPT !.lease = "expired"] \in QueueRuntimes
            BY <3>1 DEF QueueRuntimes
        <3> QED BY <3>1, <3>2 DEF Documents
    <2> QED BY <1>13, <2>1, LapseType, StoreType DEF LeaseExpires, localVars
<1> QED
    BY <1>1, <1>2, <1>3, <1>4, <1>5, <1>6, <1>7, <1>8, <1>9, <1>10, <1>11, <1>12, <1>13
    DEF QueueNext

(* ... the steps of an execution *)
LEMMA RunStepType ==
    ASSUME TypeOK, RunStep
    PROVE  TypeOK'
PROOF
<1> USE DEF TypeOK, QueueTypeOK, SkillTypeOK, CancelTypeOK
<1>1. PICK i \in DOMAIN runs : SkillStep(i)
    BY DEF RunStep
<1> DEFINE run == runs[i]
<1>2. run \in Runs /\ run.job \in Job /\ run.base \in Documents /\ run.want \in Documents
    BY RunsAt DEF Runs
<1>3. docs[run.job] \in Documents
    BY <1>2
<1>4. \A s \in Statuses : /\ [docs[run.job] EXCEPT !.status = s] \in Documents
                         /\ [run.base EXCEPT !.status = s] \in Documents
                         /\ [run.want EXCEPT !.status = s] \in Documents
    BY <1>2, <1>3 DEF Documents
<1>5. ASSUME NEW aged, NEW d \in Saves(run, aged)
      PROVE  d \in Documents /\ Saved(run, d) \in Documents
    <2>1. d \in SaveResults(docs[run.job], run.base, run.want, aged)
        BY <1>5 DEF Saves
    <2>2. d \in Documents
        BY <1>2, <1>3, <2>1, SavesAreDocuments
    <2> QED BY <1>2, <2>2 DEF Saved, Documents
<1>6. {"generating", "failed"} \subseteq Statuses
    BY DEF Statuses, ActiveStatuses, RunningStatuses, TerminalStatuses
<1>7. {"loaded", "working", "saving", "failing", "publishing"} \subseteq RunStages
    BY DEF RunStages
<1>8. ASSUME UNCHANGED <<UntouchedBySkill, requests>>, docs' \in [Job -> Documents],
             runs' \in Seq(Runs), files' \in SUBSET Job, faults' \in 0..MaxFaults
      PROVE  TypeOK'
    BY <1>8 DEF UntouchedBySkill, localVars
<1>9. Fault => faults' \in 0..MaxFaults
    BY LimitAssumption DEF Fault
<1>10. UNCHANGED requests
    BY DEF RunStep
<1> HIDE DEF run
<1>11. CASE RunLoad(i)
    <2>1. runs' \in Seq(Runs)
        BY <1>3, <1>4, <1>6, <1>7, <1>11, AdvanceType, StopType DEF RunLoad, run
    <2> QED BY <1>8, <1>10, <1>11, <2>1 DEF RunLoad
<1>12. CASE RunBegin(i)
    <2>1. docs' \in [Job -> Documents]
        BY <1>2, <1>5, <1>12, StoreType DEF RunBegin, SaveThrows, run
    <2>2. runs' \in Seq(Runs)
        BY <1>5, <1>7, <1>12, AdvanceType, StopType DEF RunBegin, run
    <2>3. faults' \in 0..MaxFaults
        BY <1>9, <1>12 DEF RunBegin, SaveThrows
    <2> QED BY <1>8, <1>10, <1>12, <2>1, <2>2, <2>3 DEF RunBegin
<1>13. CASE RunExit(i)
    <2>1. PICK result \in {"succeeded", "failed", "cancelled"}, outputs \in BOOLEAN :
              /\ files' = IF outputs THEN files \cup {run.job} ELSE files
              /\ Advance(i, "saving", run.base, [run.base EXCEPT !.status = ResultStatus(result, outputs),
                                                                 !.outputs = outputs])
        BY <1>13 DEF RunExit, run
    <2>2. ResultStatus(result, outputs) \in Statuses
        BY DEF ResultStatus, Statuses, TerminalStatuses
    <2>3. [run.base EXCEPT !.status = ResultStatus(result, outputs), !.outputs = outputs] \in Documents
        BY <1>2, <2>2 DEF Documents
    <2>4. runs' \in Seq(Runs)
        BY <1>2, <1>7, <2>1, <2>3, AdvanceType
    <2>5. files' \in SUBSET Job
        BY <1>2, <2>1
    <2> QED BY <1>8, <1>10, <1>13, <2>4, <2>5 DEF RunExit
<1>14. CASE RunExitInvalid(i)
    <2>1. runs' \in Seq(Runs)
        BY <1>2, <1>4, <1>6, <1>7, <1>14, AdvanceType DEF RunExitInvalid, run
    <2> QED BY <1>8, <1>10, <1>14, <2>1 DEF RunExitInvalid
<1>15. CASE RunPersist(i)
    <2>1. docs' \in [Job -> Documents]
        BY <1>2, <1>5, <1>15, StoreType DEF RunPersist, SaveThrows, run
    <2>2. runs' \in Seq(Runs)
        BY <1>2, <1>4, <1>5, <1>6, <1>7, <1>15, AdvanceType DEF RunPersist, run
    <2>3. faults' \in 0..MaxFaults
        BY <1>9, <1>15 DEF RunPersist, SaveThrows
    <2> QED BY <1>8, <1>10, <1>15, <2>1, <2>2, <2>3 DEF RunPersist
<1>16. CASE RunPublish(i)
    <2>1. runs' \in Seq(Runs)
        BY <1>2, <1>4, <1>6, <1>7, <1>16, AdvanceType, StopType DEF RunPublish, run
    <2>2. faults' \in 0..MaxFaults
        BY <1>9, <1>16 DEF RunPublish
    <2> QED BY <1>8, <1>10, <1>16, <2>1, <2>2 DEF RunPublish
<1>17. CASE RunFail(i)
    <2>1. docs' \in [Job -> Documents]
        BY <1>2, <1>5, <1>17, StoreType DEF RunFail, SaveThrows, run
    <2>2. runs' \in Seq(Runs)
        BY <1>17, StopType DEF RunFail
    <2>3. faults' \in 0..MaxFaults
        BY <1>9, <1>17 DEF RunFail, SaveThrows
    <2> QED BY <1>8, <1>10, <1>17, <2>1, <2>2, <2>3 DEF RunFail
<1> QED
    BY <1>1, <1>11, <1>12, <1>13, <1>14, <1>15, <1>16, <1>17 DEF SkillStep, RunnerStep, ChildExits

(* ... and the steps of a cancellation request *)
LEMMA SpliceType ==
    ASSUME NEW q \in Seq(Job), NEW i \in Nat \ {0}
    PROVE  Splice(q, i) \in Seq(Job)
PROOF
<1>1. \A k \in 1..Len(q) : q[k] \in Job
    BY ElementOfSeq
<1>2. CASE i > Len(q)
    BY <1>2 DEF Splice
<1>3. CASE i <= Len(q)
    <2>1. SubSeq(q, 1, i - 1) \in Seq(Job)
        BY <1>1, <1>3, SubSeqProperties
    <2>2. SubSeq(q, i + 1, Len(q)) \in Seq(Job)
        BY <1>1, <1>3, SubSeqProperties
    <2> QED BY <1>3, <2>1, <2>2, ConcatProperties, LenProperties DEF Splice
<1> QED BY <1>2, <1>3, LenProperties

LEMMA LeastNatural ==
    ASSUME NEW S, S \subseteq Nat, S # {}
    PROVE  \E m \in S : \A k \in S : m <= k
PROOF
<1> DEFINE less == OpToRel(<, Nat)
<1>1. \A k, m \in Nat : <<k, m>> \in less <=> k < m
    BY ZenonT(30) DEF OpToRel
<1>2. IsWellFoundedOn(less, Nat)
    BY NatLessThanWellFounded
<1> HIDE DEF less
<1>3. \E m \in S : \A k \in S : ~ (<<k, m>> \in less)
    BY <1>2, WFMin, Zenon
<1>4. \A k, m \in S : ~ (<<k, m>> \in less) => ~ (k < m)
    BY <1>1, Zenon
<1>5. \A k, m \in Nat : ~ (k < m) => m <= k
    OBVIOUS
<1> QED BY <1>3, <1>4, <1>5

LEMMA IndexOfType ==
    ASSUME NEW q \in Seq(Job), NEW j
    PROVE  IndexOf(q, j) \in Nat
PROOF
<1>1. DOMAIN q = 1..Len(q) /\ Len(q) \in Nat
    BY LenProperties
<1>2. CASE ~ \E i \in DOMAIN q : q[i] = j
    BY <1>2 DEF IndexOf
<1>3. CASE \E i \in DOMAIN q : q[i] = j
    <2> DEFINE at == {i \in DOMAIN q : q[i] = j}
    <2>1. at \subseteq Nat /\ at # {}
        BY <1>1, <1>3
    <2>2. \E i \in at : \A k \in at : i <= k
        BY <2>1, LeastNatural
    <2> QED BY <1>1, <1>3, <2>2 DEF IndexOf
<1> QED BY <1>2, <1>3

LEMMA RequestStepType ==
    ASSUME TypeOK, RequestStep
    PROVE  TypeOK'
PROOF
<1> USE DEF TypeOK, QueueTypeOK, SkillTypeOK, CancelTypeOK
<1>1. PICK c \in Request : CancelStep(c)
    BY DEF RequestStep
<1>2. UNCHANGED files
    BY DEF RequestStep
<1>3. Idle \in Requests /\ \A s \in RequestStages, j \in Job \cup {NoJob} :
                               [Idle EXCEPT !.stage = s, !.job = j] \in Requests
    BY FreshDocuments DEF Idle, Requests, RequestStages
<1>4. {"answered", "rejected", "read", "saving"} \subseteq RequestStages
    BY DEF RequestStages
<1>5. ASSUME NEW s \in {"answered", "rejected"}, Answer(c, s)
      PROVE  CancelTypeOK'
    <2>1. requests[c].job \in Job \cup {NoJob}
        BY DEF Requests
    <2>2. [Idle EXCEPT !.stage = s, !.job = requests[c].job] \in Requests
        BY <1>3, <1>4, <2>1
    <2>3. [Idle EXCEPT !.stage = s, !.job = requests[c].job].stage \notin {"read", "saving"}
        BY DEF Idle
    <2> QED BY <1>5, <2>2, <2>3 DEF Answer
<1>6. Fault => faults' \in 0..MaxFaults
    BY LimitAssumption DEF Fault
<1>7. ASSUME NEW r \in Runtime, NEW j \in Job, CancelRead(c, r, j)
      PROVE  TypeOK'
    <2>1. IndexOf(queued[r], j) \in Nat
        BY IndexOfType
    <2>2. [stage |-> "read", rt |-> r, job |-> j, base |-> docs[j], want |-> docs[j],
           index |-> IndexOf(queued[r], j), wasActive |-> j \in active[r]] \in Requests
        BY <2>1 DEF Requests, RequestStages
    <2>3. [Idle EXCEPT !.stage = "answered", !.job = j] \in Requests
        BY <1>3, <1>4
    <2>4. CancelTypeOK'
        BY <1>7, <2>2, <2>3 DEF CancelRead, Idle
    <2> QED BY <1>2, <1>7, <2>4 DEF CancelRead, queueVars
<1>8. CASE CancelMark(c)
    <2> DEFINE req == requests[c]
    <2> DEFINE d == IF CancelAllowed(docs[req.job], req.job) THEN CancelMarked(docs[req.job], c)
                    ELSE docs[req.job]
    <2> DEFINE want(status, completes) ==
            [req.base EXCEPT !.status = status, !.qr = d.qr,
                             !.cancellation = Recorded(c, req.base, completes)]
    <2>1. req \in Requests /\ req.rt \in Runtime /\ req.job \in Job
        BY <1>8 DEF CancelMark
    <2>2. d \in Documents
        BY <2>1, FindersWriteDocuments
    <2>3. docs' \in [Job -> Documents]
        BY <1>8, <2>1, <2>2, StoreType DEF CancelMark
    <2>4. ASSUME NEW status \in {"cancelled", "cancelling", "cancelled_with_partial_result"},
                 NEW completes \in BOOLEAN,
                 requests' = [requests EXCEPT ![c].stage = "saving", ![c].want = want(status, completes)]
          PROVE  CancelTypeOK'
        <3>1. want(status, completes) \in Documents
            BY <2>1, <2>2 DEF Documents, Recorded, Statuses, ActiveStatuses, TerminalStatuses, Requests
        <3>2. [req EXCEPT !.stage = "saving", !.want = want(status, completes)] \in Requests
            BY <2>1, <3>1 DEF Requests, RequestStages
        <3>3. /\ [req EXCEPT !.stage = "saving", !.want = want(status, completes)].rt = req.rt
              /\ [req EXCEPT !.stage = "saving", !.want = want(status, completes)].job = req.job
            BY <2>1 DEF Requests
        <3>4. requests' = [requests EXCEPT ![c] =
                              [req EXCEPT !.stage = "saving", !.want = want(status, completes)]]
            BY <2>4
        <3> HIDE DEF want
        <3> QED BY <2>1, <3>2, <3>3, <3>4
    <2>5. CancelTypeOK'
        BY <1>5, <1>8, <2>4 DEF CancelMark, CancelledStatus
    <2>6. /\ queued' \in [Runtime -> Seq(Job)]
          /\ known' \in [Runtime -> SUBSET Job]
          /\ cancelFlag' \in [Runtime -> SUBSET Job]
        <3>1. req.index \in Nat
            BY <2>1 DEF Requests
        <3>2. req.index # 0 => Splice(queued[req.rt], req.index) \in Seq(Job)
            BY <2>1, <3>1, SpliceType
        <3>3. cancelFlag[req.rt] \cup {req.job} \in SUBSET Job
            BY <2>1
        <3>4. known' \in [Runtime -> SUBSET Job]
            BY <1>8, <2>1, ForgetType DEF CancelMark
        <3>5. queued' \in [Runtime -> Seq(Job)]
            BY <1>8, <2>1, <3>2 DEF CancelMark
        <3>6. cancelFlag' \in [Runtime -> SUBSET Job]
            BY <1>8, <2>1, <3>3 DEF CancelMark
        <3> QED BY <3>4, <3>5, <3>6
    <2>7. faults' \in 0..MaxFaults
        BY <1>6, <1>8 DEF CancelMark
    <2> QED BY <1>2, <1>8, <2>3, <2>5, <2>6, <2>7 DEF CancelMark
<1>9. CASE CancelSave(c)
    <2> DEFINE req == requests[c]
    <2>1. req \in Requests /\ req.rt \in Runtime /\ req.job \in Job
        BY <1>9 DEF CancelSave
    <2>2. docs' \in [Job -> Documents]
        <3>1. \A d \in SaveResults(docs[req.job], req.base, req.want, FALSE) : d \in Documents
            BY <2>1, SavesAreDocuments DEF Requests
        <3> QED BY <1>9, <2>1, <3>1, StoreType DEF CancelSave
    <2>3. CancelTypeOK'
        BY <1>5, <1>9 DEF CancelSave
    <2>4. faults' \in 0..MaxFaults
        BY <1>6, <1>9 DEF CancelSave
    <2> QED BY <1>2, <1>9, <2>2, <2>3, <2>4 DEF CancelSave, localVars
<1> QED BY <1>1, <1>7, <1>8, <1>9 DEF CancelStep

LEMMA ProcessExitType ==
    ASSUME TypeOK, ProcessExit
    PROVE  TypeOK'
PROOF
<1> USE DEF TypeOK, QueueTypeOK, SkillTypeOK, CancelTypeOK
<1>1. PICK r \in Runtime : Exit(r) /\ ForgetRequests(r) /\ UNCHANGED files
    BY DEF ProcessExit
<1>2. runs' \in Seq(Runs)
    <2>1. \A i \in DOMAIN runs : runs'[i] \in Runs
        <3>1. \A run \in Runs : [run EXCEPT !.stage = "dead", !.beats = FALSE, !.base = Absent,
                                            !.want = Absent] \in Runs
            BY FreshDocuments DEF Runs, RunStages
        <3> QED BY <1>1, <3>1, RunsAt DEF Exit
    <2>2. DOMAIN runs' = DOMAIN runs /\ runs' = [i \in DOMAIN runs' |-> runs'[i]]
        BY <1>1 DEF Exit
    <2> QED BY <2>1, <2>2, RunsMapped
<1>3. submission' \in [Job -> Submissions]
    <2>1. \A j \in Job : [submission[j] EXCEPT !.stage = "dead"] \in Submissions
        BY DEF Submissions
    <2> QED BY <1>1, <2>1 DEF Exit
<1>4. CancelTypeOK'
    <2>1. \A c \in Request : [Idle EXCEPT !.stage = "dead", !.job = requests[c].job] \in Requests
        BY FreshDocuments DEF Idle, Requests, RequestStages
    <2> QED BY <1>1, <2>1 DEF ForgetRequests, Idle
<1>5. queued' \in [Runtime -> Seq(Job)]
    BY <1>1, EmptySeq DEF Exit
<1>6. /\ mode' \in [Runtime -> {"off", "up", "stopping", "dead"}]
      /\ known' \in [Runtime -> SUBSET Job]
      /\ active' \in [Runtime -> SUBSET Job]
      /\ claiming' \in [Runtime -> Job \cup {NoJob}]
      /\ cancelFlag' \in [Runtime -> SUBSET Job]
      /\ toRelease' \in [Runtime -> SUBSET Job]
    BY <1>1 DEF Exit
<1> QED BY <1>1, <1>2, <1>3, <1>4, <1>5, <1>6 DEF Exit

LEMMA StepType == TypeOK /\ [Next]_vars => TypeOK'
PROOF
<1> SUFFICES ASSUME TypeOK, [Next]_vars PROVE TypeOK'
    OBVIOUS
<1>1. CASE QueueStep
    BY <1>1, QueueStepType DEF QueueStep, TypeOK, SkillTypeOK, CancelTypeOK
<1>2. CASE UNCHANGED vars
    BY <1>2 DEF vars, queueVars, TypeOK, QueueTypeOK, SkillTypeOK, CancelTypeOK
<1> QED BY <1>1, <1>2, RunStepType, RequestStepType, ProcessExitType DEF Next

LEMMA InitType == Init => TypeOK
PROOF
BY FreshDocuments, LimitAssumption, EmptySeq
DEF Init, QueueInit, SkillInit, CancelInit, TypeOK, QueueTypeOK, SkillTypeOK, CancelTypeOK,
    Submissions, Idle, Requests, RequestStages

(* Every variable stays in its type, and with it every document: no handler *)
(* leaves a status or a queue state that the code does not know.            *)
THEOREM TypeCorrect == Spec => []TypeOK
PROOF
BY InitType, StepType, PTL DEF Spec

-----------------------------------------------------------------------------
(* The concurrency limit.  drainQueue reads the size of activeJobIds before it *)
(* awaits the claim and adds to the set after it, so the bound alone is not    *)
(* inductive: while a claim is under way there must be room for it, which      *)
(* holds because drainInProgress lets only one claim be under way.             *)

RoomForTheClaim ==
    \A r \in Runtime :
        /\ IsFiniteSet(active[r])
        /\ Cardinality(active[r]) <= MaxConcurrent
        /\ claiming[r] # NoJob => Cardinality(active[r]) < MaxConcurrent

(* The handlers that change activeJobIds or the job being claimed *)
LEMMA WhoChangesActive ==
    ASSUME Next
    PROVE  \/ UNCHANGED <<active, claiming>>
           \/ \E r \in Runtime : DrainShift(r) \/ DrainClaim(r) \/ DrainFault(r) \/ Exit(r)
           \/ \E i \in DOMAIN runs : Finalize(i)
PROOF
<1>1. CASE QueueStep
    <2>1. \A r \in Runtime, j \in Job :
              \/ Submit(r, j) \/ EnqueueCheck(r, j) \/ EnqueuePersist(r, j)
              \/ Renew(r, j) \/ Reconcile(r, j) \/ ShutdownRelease(r, j)
              => UNCHANGED <<active, claiming>>
        BY DEF Submit, EnqueueCheck, EnqueuePersist, Renew, Reconcile, ShutdownRelease, localVars
    <2>2. \A r \in Runtime : Start(r) \/ Shutdown(r) => UNCHANGED <<active, claiming>>
        BY DEF Start, Shutdown
    <2>3. \A j \in Job : LeaseExpires(j) => UNCHANGED <<active, claiming>>
        BY DEF LeaseExpires, localVars
    <2> QED BY <1>1, <2>1, <2>2, <2>3, Zenon DEF QueueStep, QueueNext
<1>2. CASE RunStep
    BY <1>2 DEF RunStep, SkillStep, RunnerStep, ChildExits, RunLoad, RunBegin, RunExit,
                RunExitInvalid, RunPersist, RunPublish, RunFail, UntouchedBySkill, localVars
<1>3. CASE RequestStep
    BY <1>3 DEF RequestStep, CancelStep, CancelRead, CancelMark, CancelSave, queueVars, localVars
<1> QED BY <1>1, <1>2, <1>3 DEF Next, ProcessExit

LEMMA RoomStep ==
    ASSUME TypeOK, RoomForTheClaim, [Next]_vars
    PROVE  RoomForTheClaim'
PROOF
<1> USE DEF RoomForTheClaim
<1>0. /\ active \in [Runtime -> SUBSET Job] /\ claiming \in [Runtime -> Job \cup {NoJob}]
      /\ MaxConcurrent \in Nat \ {0}
      /\ \A r \in Runtime : Cardinality(active[r]) \in Nat
    BY FS_CardinalityType, LimitAssumption DEF TypeOK, QueueTypeOK
<1>1. CASE UNCHANGED <<active, claiming>>
    BY <1>1
<1>2. ASSUME NEW r \in Runtime, DrainShift(r)
      PROVE  RoomForTheClaim'
    BY <1>0, <1>2 DEF DrainShift, HasCapacity
<1>3. ASSUME NEW r \in Runtime, DrainClaim(r)
      PROVE  RoomForTheClaim'
    <2>1. /\ IsFiniteSet(active[r] \cup {claiming[r]})
          /\ Cardinality(active[r] \cup {claiming[r]}) <= Cardinality(active[r]) + 1
        <3>1. IsFiniteSet(active[r]) /\ Cardinality(active[r]) \in Nat
            BY <1>0
        <3>2. /\ IsFiniteSet(active[r] \cup {claiming[r]})
              /\ Cardinality(active[r] \cup {claiming[r]}) =
                    IF claiming[r] \in active[r] THEN Cardinality(active[r])
                    ELSE Cardinality(active[r]) + 1
            BY <3>1, FS_AddElement, Zenon
        <3> QED BY <3>1, <3>2
    <2>2. Cardinality(active[r]) < MaxConcurrent
        BY <1>3 DEF DrainClaim
    <2>3. Cardinality(active[r] \cup {claiming[r]}) <= MaxConcurrent
        BY <1>0, <2>1, <2>2, FS_CardinalityType
    <2>4. /\ claiming' = [claiming EXCEPT ![r] = NoJob]
          /\ active' = [active EXCEPT ![r] = @ \cup {claiming[r]}] \/ UNCHANGED active
        BY <1>3 DEF DrainClaim
    <2> QED BY <1>0, <2>1, <2>3, <2>4
<1>4. ASSUME NEW r \in Runtime, DrainFault(r)
      PROVE  RoomForTheClaim'
    BY <1>0, <1>4 DEF DrainFault
<1>5. ASSUME NEW r \in Runtime, Exit(r)
      PROVE  RoomForTheClaim'
    <2>1. IsFiniteSet({}) /\ Cardinality({}) = 0
        BY FS_EmptySet
    <2>2. active' = [active EXCEPT ![r] = {}] /\ claiming' = [claiming EXCEPT ![r] = NoJob]
        BY <1>5 DEF Exit
    <2> QED BY <1>0, <2>1, <2>2
<1>6. ASSUME NEW i \in DOMAIN runs, Finalize(i)
      PROVE  RoomForTheClaim'
    <2> DEFINE r == runs[i].rt
    <2> DEFINE j == runs[i].job
    <2>1. r \in Runtime
        BY RunsAt DEF TypeOK, QueueTypeOK, Runs
    <2>2. /\ IsFiniteSet(active[r] \ {j})
          /\ Cardinality(active[r] \ {j}) <= Cardinality(active[r])
        BY <1>0, <2>1, FS_Subset
    <2>3. active' = [active EXCEPT ![r] = @ \ {j}] /\ UNCHANGED claiming
        BY <1>6 DEF Finalize
    <2>4. Cardinality(active[r] \ {j}) \in Nat
        BY <2>2, FS_CardinalityType
    <2> HIDE DEF r, j
    <2> QED BY <1>0, <2>1, <2>2, <2>3, <2>4
<1> QED
    BY <1>1, <1>2, <1>3, <1>4, <1>5, <1>6, WhoChangesActive DEF vars, queueVars

LEMMA RoomIsKept == Spec => []RoomForTheClaim
PROOF
<1>1. Init => RoomForTheClaim
    <2>1. IsFiniteSet({}) /\ Cardinality({}) = 0
        BY FS_EmptySet
    <2>2. Init => \A r \in Runtime : active[r] = {} /\ claiming[r] = NoJob
        BY DEF Init, QueueInit
    <2>3. 0 <= MaxConcurrent
        BY LimitAssumption
    <2> QED BY <2>1, <2>2, <2>3 DEF RoomForTheClaim
<1>2. TypeOK /\ RoomForTheClaim /\ [Next]_vars => RoomForTheClaim'
    BY RoomStep
<1> QED BY <1>1, <1>2, TypeCorrect, PTL DEF Spec

(* A runtime never has more jobs active than MAX_CONCURRENT_JOBS, whatever the limit *)
(* and however claims, reconciliations and faults interleave.                        *)
THEOREM ConcurrencyIsBounded == Spec => []ActiveWithinLimit
PROOF
<1>1. RoomForTheClaim => ActiveWithinLimit
    BY DEF RoomForTheClaim, ActiveWithinLimit
<1> QED BY <1>1, RoomIsKept, PTL

-----------------------------------------------------------------------------
(* The set that keeps a job from being queued twice.  Until a call fails, and if *)
(* no request takes a job out of the queue, the invariant is inductive as it     *)
(* stands: a job moves from the queue to the claim, from the claim to the active *)
(* jobs or out of the set, and from the active jobs out of the set.              *)

LEMMA PushTracks ==
    ASSUME TypeOK, KnownJobsAreTracked, NEW r \in Runtime, NEW j \in Job, Push(r, j),
           UNCHANGED <<claiming, active>>
    PROVE  KnownJobsAreTracked'
PROOF
<1>1. queued \in [Runtime -> Seq(Job)] /\ known \in [Runtime -> SUBSET Job]
    BY DEF TypeOK, QueueTypeOK
<1>2. /\ known'[r] = known[r] \cup {j} /\ queued'[r] = Append(queued[r], j)
      /\ \A q \in Runtime : q # r => known'[q] = known[q] /\ queued'[q] = queued[q]
    BY <1>1 DEF Push
<1>3. \A k \in Job : InQueue(r, k) \/ k = j => InQueue(r, k)'
    <2>1. Len(queued[r]) \in Nat /\ DOMAIN queued[r] = 1..Len(queued[r])
        BY <1>1, LenProperties
    <2>2. /\ DOMAIN queued'[r] = 1..(Len(queued[r]) + 1)
          /\ \A i \in DOMAIN queued[r] : queued'[r][i] = queued[r][i]
          /\ queued'[r][Len(queued[r]) + 1] = j
        BY <1>1, <1>2, <2>1
    <2> QED BY <2>1, <2>2 DEF InQueue
<1>4. \A q \in Runtime, k \in Job : q # r /\ InQueue(q, k) => InQueue(q, k)'
    BY <1>2 DEF InQueue
<1> QED BY <1>1, <1>2, <1>3, <1>4 DEF KnownJobsAreTracked

LEMMA ShiftTracks ==
    ASSUME TypeOK, KnownJobsAreTracked, NEW r \in Runtime, DrainShift(r)
    PROVE  KnownJobsAreTracked'
PROOF
<1>1. /\ queued \in [Runtime -> Seq(Job)] /\ known \in [Runtime -> SUBSET Job]
      /\ claiming \in [Runtime -> Job \cup {NoJob}]
    BY DEF TypeOK, QueueTypeOK
<1>2. /\ claiming[r] = NoJob /\ queued[r] # <<>> /\ UNCHANGED <<known, active>>
      /\ claiming'[r] = Head(queued[r]) /\ queued'[r] = Tail(queued[r])
      /\ \A q \in Runtime : q # r => claiming'[q] = claiming[q] /\ queued'[q] = queued[q]
    BY <1>1 DEF DrainShift
<1>3. \A k \in Job : InQueue(r, k) => InQueue(r, k)' \/ claiming'[r] = k
    <2>1. /\ Len(queued[r]) \in Nat \ {0} /\ DOMAIN queued[r] = 1..Len(queued[r])
          /\ Head(queued[r]) = queued[r][1]
        BY <1>1, <1>2, LenProperties, EmptySeq
    <2>2. /\ DOMAIN queued'[r] = 1..(Len(queued[r]) - 1)
          /\ \A i \in 1..(Len(queued[r]) - 1) : queued'[r][i] = queued[r][i + 1]
        BY <1>1, <1>2, <2>1, HeadTailProperties
    <2>3. \A i \in DOMAIN queued[r] : i # 1 =>
              i - 1 \in 1..(Len(queued[r]) - 1) /\ (i - 1) + 1 = i
        BY <2>1
    <2> QED BY <1>2, <2>1, <2>2, <2>3 DEF InQueue
<1>4. \A q \in Runtime, k \in Job : q # r /\ InQueue(q, k) => InQueue(q, k)'
    BY <1>2 DEF InQueue
<1>5. NoJob \notin Job
    BY NoJobAssumption
<1> QED BY <1>1, <1>2, <1>3, <1>4, <1>5 DEF KnownJobsAreTracked

(* Steps that leave queuedJobIds alone *)
LEMMA SameQueueTracks ==
    ASSUME TypeOK, KnownJobsAreTracked, UNCHANGED queued,
           \A r \in Runtime : \A k \in known'[r] :
              k \in known[r] /\ (claiming[r] = k \/ k \in active[r] => claiming'[r] = k \/ k \in active'[r])
    PROVE  KnownJobsAreTracked'
PROOF
<1>1. \A r \in Runtime, k \in Job : InQueue(r, k) => InQueue(r, k)'
    BY DEF InQueue
<1> QED BY <1>1 DEF KnownJobsAreTracked, TypeOK, QueueTypeOK

LEMMA KnownStep ==
    ASSUME Request = {}, TypeOK, KnownJobsAreTracked, [Next]_vars, faults' = faults
    PROVE  KnownJobsAreTracked'
PROOF
<1>0. /\ ~Fault /\ known \in [Runtime -> SUBSET Job] /\ active \in [Runtime -> SUBSET Job]
      /\ claiming \in [Runtime -> Job \cup {NoJob}]
    BY DEF Fault, TypeOK, QueueTypeOK
<1>1. CASE UNCHANGED <<queued, known, active, claiming>>
    BY <1>1, SameQueueTracks
<1>2. ASSUME NEW r \in Runtime, NEW j \in Job, EnqueuePersist(r, j) \/ Reconcile(r, j)
      PROVE  KnownJobsAreTracked'
    BY <1>1, <1>2, PushTracks DEF EnqueuePersist, Reconcile
<1>3. ASSUME NEW r \in Runtime, DrainClaim(r)
      PROVE  KnownJobsAreTracked'
    <2>1. CASE UNCHANGED known /\ active' = [active EXCEPT ![r] = @ \cup {claiming[r]}]
        BY <1>0, <1>3, <2>1, SameQueueTracks DEF DrainClaim
    <2>2. CASE Forget(r, claiming[r]) /\ UNCHANGED active
        BY <1>0, <1>3, <2>2, SameQueueTracks DEF DrainClaim, Forget
    <2> QED BY <1>3, <2>1, <2>2 DEF DrainClaim
<1>4. ASSUME NEW i \in DOMAIN runs, Finalize(i)
      PROVE  KnownJobsAreTracked'
    <2>1. runs[i].rt \in Runtime
        BY RunsAt DEF TypeOK, QueueTypeOK, Runs
    <2> QED BY <1>0, <1>4, <2>1, SameQueueTracks DEF Finalize, Forget
<1>5. ASSUME NEW r \in Runtime, Exit(r)
      PROVE  KnownJobsAreTracked'
    <2>1. /\ known'[r] = {}
          /\ \A q \in Runtime : q # r => /\ known'[q] = known[q] /\ queued'[q] = queued[q]
                                         /\ active'[q] = active[q] /\ claiming'[q] = claiming[q]
        BY <1>0, <1>5 DEF Exit, TypeOK, QueueTypeOK
    <2> QED BY <2>1 DEF KnownJobsAreTracked, InQueue
<1>6. CASE QueueStep
    <2>1. \A r \in Runtime, j \in Job :
              \/ Submit(r, j) \/ EnqueueCheck(r, j) \/ Renew(r, j) \/ ShutdownRelease(r, j)
              => UNCHANGED <<queued, known, active, claiming>>
        BY DEF Submit, EnqueueCheck, Renew, ShutdownRelease, localVars
    <2>2. \A r \in Runtime : Start(r) \/ Shutdown(r) => UNCHANGED <<queued, known, active, claiming>>
        BY DEF Start, Shutdown
    <2>3. \A j \in Job : LeaseExpires(j) => UNCHANGED <<queued, known, active, claiming>>
        BY DEF LeaseExpires, localVars
    <2>4. \A r \in Runtime : ~DrainFault(r)
        BY <1>0 DEF DrainFault
    <2> QED
        BY <1>1, <1>2, <1>3, <1>4, <1>6, <2>1, <2>2, <2>3, <2>4, ShiftTracks, Zenon
        DEF QueueStep, QueueNext
<1>7. RunStep => UNCHANGED <<queued, known, active, claiming>>
    BY DEF RunStep, SkillStep, RunnerStep, ChildExits, RunLoad, RunBegin, RunExit,
           RunExitInvalid, RunPersist, RunPublish, RunFail, UntouchedBySkill, localVars
<1>8. UNCHANGED vars => UNCHANGED <<queued, known, active, claiming>>
    BY DEF vars, queueVars
<1>9. ~RequestStep
    BY DEF RequestStep
<1> QED BY <1>1, <1>5, <1>6, <1>7, <1>8, <1>9 DEF Next, ProcessExit

(* A call fails or it does not: faults are only ever counted *)
LEMMA FaultsAreCounted ==
    ASSUME TypeOK, [Next]_vars
    PROVE  faults' = faults \/ faults' = faults + 1
PROOF
<1>1. QueueStep => UNCHANGED faults \/ Fault
    BY DEF QueueStep, QueueNext, Submit, EnqueueCheck, EnqueuePersist, Renew, Reconcile,
           ShutdownRelease, DrainShift, DrainClaim, DrainFault, Start, Shutdown, Finalize, LeaseExpires
<1>2. RunStep => UNCHANGED faults \/ Fault
    BY DEF RunStep, SkillStep, RunnerStep, ChildExits, RunLoad, RunBegin, RunExit,
           RunExitInvalid, RunPersist, RunPublish, RunFail, SaveThrows
<1>3. RequestStep => UNCHANGED faults \/ Fault
    BY DEF RequestStep, CancelStep, CancelRead, CancelMark, CancelSave, queueVars
<1>4. ProcessExit \/ UNCHANGED vars => UNCHANGED faults
    BY DEF ProcessExit, Exit, vars, queueVars
<1> QED BY <1>1, <1>2, <1>3, <1>4 DEF Next, Fault

(* Until a call fails, knownJobIds names only jobs that this runtime has in hand: *)
(* no job that it would refuse to queue again is one that nobody takes up.  A     *)
(* claim that fails does leave such a job behind, and so does a request that      *)
(* removes another job than it meant to; hence the conditions.                    *)
THEOREM KnownJobsAreInHand ==
    Request = {} => (Spec => [](faults = 0 => KnownJobsAreTracked))
PROOF
<1> SUFFICES ASSUME Request = {} PROVE Spec => [](faults = 0 => KnownJobsAreTracked)
    OBVIOUS
<1>1. Init => KnownJobsAreTracked
    BY DEF Init, QueueInit, KnownJobsAreTracked
<1>2. ASSUME TypeOK, faults = 0 => KnownJobsAreTracked, [Next]_vars, faults' = 0
      PROVE  KnownJobsAreTracked'
    <2>1. faults \in Nat
        BY <1>2, LimitAssumption DEF TypeOK, QueueTypeOK
    <2>2. faults' = faults
        BY <1>2, <2>1, FaultsAreCounted
    <2> QED BY <1>2, <2>2, KnownStep
<1>3. TypeOK /\ (faults = 0 => KnownJobsAreTracked) /\ [Next]_vars
          => (faults = 0 => KnownJobsAreTracked)'
    BY <1>2
<1> QED BY <1>1, <1>3, TypeCorrect, PTL DEF Spec

-----------------------------------------------------------------------------
(* Who cancelled a job.  Under SQLite a save writes the record only if the      *)
(* handler changed its copy of it, and conflicts if the stored one has changed. *)

RecordInv ==
    /\ \A j \in Job : submission[j].stage = "none" => docs[j] = Absent
    /\ \A i \in DOMAIN runs : runs[i].want.cancellation = runs[i].base.cancellation
    /\ \A c \in Request : requests[c].stage = "saving" =>
          requests[c].want.cancellation \in {requests[c].base.cancellation, c}

(* What CancelRecordKept says of one step *)
RecordKept ==
    \A j \in Job :
        docs[j].cancellation # NoOne /\ docs'[j].cancellation # docs[j].cancellation =>
            \E c \in Request : /\ docs'[j].cancellation = c
                               /\ requests[c].base.cancellation = docs[j].cancellation

LEMMA UpdatersKeepRecord ==
    ASSUME NEW d \in Documents, NEW r, NEW c
    PROVE  /\ Claimed(d, r).cancellation = d.cancellation
           /\ Renewed(d).cancellation = d.cancellation
           /\ Finalized(d).cancellation = d.cancellation
           /\ Persisted(d).cancellation = d.cancellation
           /\ Reconciled(d).cancellation = d.cancellation
           /\ ReleasedForRestart(d).cancellation = d.cancellation
           /\ CancelMarked(d, c).cancellation = d.cancellation
           /\ [d EXCEPT !.qr.lease = "expired"].cancellation = d.cancellation
PROOF
BY DEF Claimed, Renewed, Finalized, Persisted, Reconciled, ReleasedForRestart, CancelMarked, Documents

(* The steps of the queue touch no copy: they start executions, and end them *)
LEMMA QueueKeepsCopies ==
    ASSUME TypeOK, QueueNext \/ \E r \in Runtime : Exit(r)
    PROVE  \A i \in DOMAIN runs' :
              \/ i \in DOMAIN runs /\ runs'[i].base = runs[i].base /\ runs'[i].want = runs[i].want
              \/ runs'[i].base = Absent /\ runs'[i].want = Absent
PROOF
<1> DEFINE Kept == \A i \in DOMAIN runs' :
              \/ i \in DOMAIN runs /\ runs'[i].base = runs[i].base /\ runs'[i].want = runs[i].want
              \/ runs'[i].base = Absent /\ runs'[i].want = Absent
<1>0. runs \in Seq(Runs) /\ \A i \in DOMAIN runs : runs[i] \in Runs
    BY RunsAt DEF TypeOK, QueueTypeOK
<1>1. UNCHANGED runs => Kept
    OBVIOUS
<1>2. ASSUME NEW r \in Runtime, NEW j \in Job, ShutdownRelease(r, j)
      PROVE  Kept
    <2> DEFINE released == ReleaseAllowed(docs[j], r)
    <2> HIDE DEF released
    <2>1. /\ DOMAIN runs' = DOMAIN runs
          /\ \A i \in DOMAIN runs :
                runs'[i] = IF i \in RunsOf(r, j)
                           THEN [runs[i] EXCEPT !.beats = FALSE, !.lapsed = @ \/ released]
                           ELSE runs[i]
        BY <1>2 DEF ShutdownRelease, released
    <2>2. ASSUME NEW i \in DOMAIN runs, i \in RunsOf(r, j)
          PROVE  runs'[i].base = runs[i].base /\ runs'[i].want = runs[i].want
        <3>1. PICK b \in BOOLEAN : b = (runs[i].lapsed \/ released)
            OBVIOUS
        <3>2. runs'[i] = [runs[i] EXCEPT !.beats = FALSE, !.lapsed = b]
            BY <2>1, <2>2, <3>1, Zenon
        <3> QED BY <1>0, <3>2 DEF Runs
    <2> QED BY <2>1, <2>2
<1>3. ASSUME NEW r \in Runtime, DrainClaim(r)
      PROVE  Kept
    <2>1. UNCHANGED runs \/ runs' = Append(runs, NewRun(r, claiming[r]))
        BY <1>3 DEF DrainClaim
    <2>2. NewRun(r, claiming[r]).base = Absent /\ NewRun(r, claiming[r]).want = Absent
        BY DEF NewRun
    <2>3. Len(runs) \in Nat /\ DOMAIN runs = 1..Len(runs)
        BY <1>0, LenProperties
    <2>4. ASSUME runs' = Append(runs, NewRun(r, claiming[r]))
          PROVE  /\ DOMAIN runs' = 1..(Len(runs) + 1)
                 /\ \A i \in DOMAIN runs : runs'[i] = runs[i]
                 /\ runs'[Len(runs) + 1] = NewRun(r, claiming[r])
        BY <1>0, <2>3, <2>4
    <2> QED BY <1>1, <2>1, <2>2, <2>3, <2>4
<1>4. ASSUME NEW i \in DOMAIN runs, Finalize(i)
      PROVE  Kept
    <2>1. \/ runs' = [runs EXCEPT ![i] = [runs[i] EXCEPT !.stage = "done"]]
          \/ runs' = [Lapse(runs[i].rt, runs[i].job) EXCEPT ![i] = [runs[i] EXCEPT !.stage = "done"]]
        BY <1>4 DEF Finalize
    <2>2. /\ [runs[i] EXCEPT !.stage = "done"].base = runs[i].base
          /\ [runs[i] EXCEPT !.stage = "done"].want = runs[i].want
        BY <1>0 DEF Runs
    <2> DEFINE done == [runs[i] EXCEPT !.stage = "done"]
    <2> HIDE DEF done
    <2>3. DOMAIN runs' = DOMAIN runs /\ runs'[i] = done
        BY <1>0, <2>1, LapseFacts DEF done
    <2>4. \A k \in DOMAIN runs : k # i => runs'[k].base = runs[k].base /\ runs'[k].want = runs[k].want
        BY <1>0, <2>1, LapseFacts DEF done
    <2> QED BY <2>2, <2>3, <2>4 DEF done
<1>5. ASSUME NEW j \in Job, LeaseExpires(j)
      PROVE  Kept
    BY <1>0, <1>5, LapseFacts DEF LeaseExpires
<1>6. ASSUME NEW r \in Runtime, Exit(r)
      PROVE  Kept
    <2>1. \A i \in DOMAIN runs :
              LET run == [runs[i] EXCEPT !.stage = "dead", !.beats = FALSE, !.base = Absent, !.want = Absent]
              IN  run.base = Absent /\ run.want = Absent
        BY <1>0 DEF Runs
    <2> QED BY <1>6, <2>1 DEF Exit
<1>7. \A r \in Runtime, j \in Job :
          \/ Submit(r, j) \/ EnqueueCheck(r, j) \/ EnqueuePersist(r, j) \/ Renew(r, j) \/ Reconcile(r, j)
          => UNCHANGED runs
    BY DEF Submit, EnqueueCheck, EnqueuePersist, Renew, Reconcile
<1>8. \A r \in Runtime : DrainShift(r) \/ DrainFault(r) \/ Start(r) \/ Shutdown(r) => UNCHANGED runs
    BY DEF DrainShift, DrainFault, Start, Shutdown
<1> HIDE DEF Kept
<1>9. Kept
    BY <1>1, <1>2, <1>3, <1>4, <1>5, <1>6, <1>7, <1>8, Zenon DEF QueueNext
<1> QED BY <1>9 DEF Kept

(* A handler writes one document, whose record it leaves alone *)
LEMMA RecordIsLeft ==
    ASSUME TypeOK, RecordInv, NEW j \in Job, NEW d, Store(j, d),
           d.cancellation = docs[j].cancellation, d = docs[j] \/ Exists(docs[j])
    PROVE  /\ RecordKept
           /\ \A k \in Job : submission[k].stage = "none" => docs'[k] = Absent
PROOF
<1>1. docs'[j] = d /\ \A k \in Job : k # j => docs'[k] = docs[k]
    BY DEF Store, TypeOK, QueueTypeOK
<1>2. Absent.status = "absent"
    BY DEF Absent
<1> QED BY <1>1, <1>2 DEF RecordInv, RecordKept, Exists

LEMMA QueueKeepsRecord ==
    ASSUME TypeOK, RecordInv, QueueNext \/ \E r \in Runtime : Exit(r)
    PROVE  /\ RecordKept
           /\ \A k \in Job : submission'[k].stage = "none" => docs'[k] = Absent
PROOF
<1> DEFINE Left == /\ RecordKept
                   /\ \A k \in Job : submission[k].stage = "none" => docs'[k] = Absent
<1>0. /\ docs \in [Job -> Documents] /\ submission \in [Job -> Submissions]
      /\ \A i \in DOMAIN runs : runs[i].job \in Job
    BY RunsAt DEF TypeOK, QueueTypeOK, Runs
<1>1. \A k \in Job : submission'[k].stage = "none" => submission[k].stage = "none"
    <2>1. \A r \in Runtime, j \in Job :
              Submit(r, j) \/ EnqueueCheck(r, j) \/ EnqueuePersist(r, j)
              => \A k \in Job : submission'[k].stage = "none" => submission[k].stage = "none"
        BY <1>0 DEF Submit, EnqueueCheck, EnqueuePersist, Submissions
    <2>2. \A r \in Runtime, j \in Job :
              Renew(r, j) \/ Reconcile(r, j) \/ ShutdownRelease(r, j) => UNCHANGED submission
        BY DEF Renew, Reconcile, ShutdownRelease
    <2>3. \A r \in Runtime :
              DrainShift(r) \/ DrainClaim(r) \/ DrainFault(r) \/ Start(r) \/ Shutdown(r)
              => UNCHANGED submission
        BY DEF DrainShift, DrainClaim, DrainFault, Start, Shutdown
    <2>4. /\ \A i \in DOMAIN runs : Finalize(i) => UNCHANGED submission
          /\ \A j \in Job : LeaseExpires(j) => UNCHANGED submission
        BY DEF Finalize, LeaseExpires
    <2>5. \A r \in Runtime : Exit(r) =>
              \A k \in Job : submission'[k].stage = "none" => submission[k].stage = "none"
        <3>1. \A k \in Job : [submission[k] EXCEPT !.stage = "dead"].stage = "dead"
            BY <1>0 DEF Submissions
        <3> QED BY <3>1 DEF Exit
    <2> QED BY <2>1, <2>2, <2>3, <2>4, <2>5 DEF QueueNext
<1>2. ASSUME NEW r \in Runtime, NEW j \in Job, Submit(r, j)
      PROVE  /\ RecordKept
             /\ \A k \in Job : submission'[k].stage = "none" => docs'[k] = Absent
    <2>1. docs[j] = Absent /\ Absent.cancellation = NoOne
        BY <1>2 DEF Submit, RecordInv, Absent
    <2>2. \A k \in Job : k # j => docs'[k] = docs[k]
        BY <1>2 DEF Submit, Store
    <2>3. submission'[j].stage # "none"
        BY <1>0, <1>2 DEF Submit
    <2> QED BY <1>1, <2>1, <2>2, <2>3 DEF RecordInv, RecordKept
<1>3. UNCHANGED docs => Left
    BY DEF RecordInv, RecordKept
<1>4. ASSUME NEW r \in Runtime, NEW j \in Job,
             EnqueuePersist(r, j) \/ Renew(r, j) \/ Reconcile(r, j) \/ ShutdownRelease(r, j)
      PROVE  Left
    <2>1. docs[j] \in Documents
        BY <1>0
    <2>2. PICK d : /\ Store(j, d) \/ UNCHANGED docs
                   /\ d = docs[j]
                      \/ /\ Exists(docs[j])
                         /\ d \in {Persisted(docs[j]), Renewed(docs[j]), Reconciled(docs[j]),
                                   ReleasedForRestart(docs[j])}
        <3>1. IsActive(docs[j]) => Exists(docs[j])
            BY DEF IsActive, ActiveStatuses, RunningStatuses, Exists
        <3> QED
            BY <1>4, <3>1 DEF EnqueuePersist, Renew, Reconcile, ShutdownRelease, PersistAllowed,
                              RenewAllowed, ReconcileAllowed, ReleaseAllowed
    <2>3. d.cancellation = docs[j].cancellation
        BY <2>1, <2>2, UpdatersKeepRecord
    <2> QED BY <1>3, <2>2, <2>3, RecordIsLeft
<1>5. ASSUME NEW r \in Runtime, DrainClaim(r) \/ DrainFault(r)
      PROVE  Left
    <2> DEFINE j == claiming[r]
    <2>1. j \in Job
        BY <1>5 DEF DrainClaim, DrainFault, TypeOK, QueueTypeOK
    <2>2. Claimed(docs[j], r).cancellation = docs[j].cancellation
        BY <1>0, <2>1, UpdatersKeepRecord
    <2>3. UNCHANGED docs \/ (ClaimAllowed(docs[j], r) /\ Store(j, Claimed(docs[j], r)))
        BY <1>5 DEF DrainClaim, DrainFault
    <2>4. ClaimAllowed(docs[j], r) => Exists(docs[j])
        BY DEF ClaimAllowed, Exists
    <2> HIDE DEF j
    <2> QED BY <1>3, <2>1, <2>2, <2>3, <2>4, RecordIsLeft
<1>6. ASSUME NEW i \in DOMAIN runs, Finalize(i)
      PROVE  Left
    <2>1. Finalized(docs[runs[i].job]).cancellation = docs[runs[i].job].cancellation
        BY <1>0, UpdatersKeepRecord
    <2> QED BY <1>0, <1>3, <1>6, <2>1, RecordIsLeft DEF Finalize, FinalizeAllowed
<1>7. ASSUME NEW j \in Job, LeaseExpires(j)
      PROVE  Left
    <2> DEFINE d == [docs[j] EXCEPT !.qr.lease = "expired"]
    <2>1. d.cancellation = docs[j].cancellation
        BY <1>0, UpdatersKeepRecord
    <2>2. Absent.qr.lease = "none"
        BY DEF Absent, Released
    <2>3. Store(j, d)
        BY <1>7 DEF LeaseExpires
    <2> HIDE DEF d
    <2>4. RecordKept
        BY <1>0, <2>1, <2>3 DEF Store, RecordKept
    <2>5. submission[j].stage # "none"
        BY <1>7, <2>2 DEF LeaseExpires, IsLeaseValid, RecordInv
    <2> QED BY <1>0, <2>3, <2>4, <2>5 DEF RecordInv, Store
<1>8. /\ \A r \in Runtime, j \in Job : EnqueueCheck(r, j) => UNCHANGED docs
      /\ \A r \in Runtime : DrainShift(r) \/ Start(r) \/ Shutdown(r) \/ Exit(r) => UNCHANGED docs
    BY DEF EnqueueCheck, DrainShift, Start, Shutdown, Exit
<1>9. Left => /\ RecordKept
              /\ \A k \in Job : submission'[k].stage = "none" => docs'[k] = Absent
    BY <1>1
<1> HIDE DEF Left
<1> QED BY <1>2, <1>3, <1>4, <1>5, <1>6, <1>7, <1>8, <1>9 DEF QueueNext

(* A save under SQLite of a copy whose record is the one that was read leaves the *)
(* stored record alone; one that adds its own conflicts unless it has read it.    *)
LEMMA SavedRecord ==
    ASSUME Provider = "sqlite", NEW cur, NEW base, NEW want, ~SaveConflicts(cur, base, want),
           NEW aged, NEW d \in SaveResults(cur, base, want, aged)
    PROVE  \/ d.cancellation = cur.cancellation
           \/ /\ want.cancellation # base.cancellation /\ base.cancellation = cur.cancellation
              /\ d.cancellation = want.cancellation
PROOF
<1>1. d.cancellation = IF "cancellation" \in Changed(base, want) THEN want.cancellation
                       ELSE cur.cancellation
    BY DEF SaveResults, Written
<1>2. "cancellation" \in Changed(base, want) <=> want.cancellation # base.cancellation
    BY DEF Changed, Fields
<1>3. "cancellation" \in Changed(base, want) =>
          cur.cancellation = base.cancellation \/ cur.cancellation = want.cancellation
    BY DEF SaveConflicts, SinceRead, Disagrees
<1> QED BY <1>1, <1>2, <1>3

LEMMA RunKeepsRecord ==
    ASSUME Provider = "sqlite", TypeOK, RecordInv, RunStep
    PROVE  RecordInv' /\ RecordKept
PROOF
<1>1. PICK i \in DOMAIN runs : SkillStep(i)
    BY DEF RunStep
<1> DEFINE run == runs[i]
<1>2. /\ run \in Runs /\ run.job \in Job /\ docs[run.job] \in Documents
      /\ run.want \in Documents /\ run.base \in Documents
      /\ run.want.cancellation = run.base.cancellation
    BY RunsAt DEF TypeOK, QueueTypeOK, Runs, RecordInv
<1>3. UNCHANGED <<submission, requests>>
    BY <1>1 DEF RunStep, SkillStep, RunnerStep, ChildExits, RunLoad, RunBegin, RunExit,
                RunExitInvalid, RunPersist, RunPublish, RunFail, UntouchedBySkill
<1>4. ASSUME NEW aged, NEW d \in Saves(run, aged)
      PROVE  Exists(docs[run.job]) /\ d.cancellation = docs[run.job].cancellation /\ Saved(run, d) = d
    <2>1. d \in SaveResults(docs[run.job], run.base, run.want, aged)
          /\ ~SaveConflicts(docs[run.job], run.base, run.want)
        BY <1>4 DEF Saves
    <2> HIDE DEF run
    <2> QED BY <1>2, <2>1, SavedRecord DEF SaveConflicts, Saved
<1> DEFINE Stored == UNCHANGED docs \/ \E aged : \E d \in Saves(run, aged) : Store(run.job, d)
<1> DEFINE Copied == \/ Stop(i)
                     \/ \E stage, base, want : /\ base.cancellation = want.cancellation
                                               /\ Advance(i, stage, base, want)
<1>5. Stored /\ Copied
    <2> HIDE DEF run, Copied
    <2>1. ASSUME NEW d \in Documents, NEW s
          PROVE  [d EXCEPT !.status = s].cancellation = d.cancellation
        BY DEF Documents
    <2>2. ASSUME NEW stage, NEW base, NEW want, base.cancellation = want.cancellation,
                 Advance(i, stage, base, want)
          PROVE  Copied
        BY <2>2 DEF Copied
    <2>3. Stop(i) => Copied
        BY DEF Copied
    <2>4. CASE RunLoad(i)
        BY <1>2, <2>1, <2>2, <2>3, <2>4 DEF RunLoad, run
    <2>5. CASE RunBegin(i)
        BY <2>2, <2>3, <2>5 DEF RunBegin, SaveThrows, run
    <2>6. CASE RunExit(i)
        <3>1. PICK result, outputs :
                  Advance(i, "saving", run.base, [run.base EXCEPT !.status = ResultStatus(result, outputs),
                                                                 !.outputs = outputs])
            BY <2>6 DEF RunExit, run
        <3>2. [run.base EXCEPT !.status = ResultStatus(result, outputs), !.outputs = outputs].cancellation
                  = run.base.cancellation
            BY <1>2 DEF Documents
        <3> QED BY <2>2, <2>6, <3>1, <3>2 DEF RunExit
    <2>7. CASE RunExitInvalid(i)
        BY <1>2, <2>1, <2>2, <2>7 DEF RunExitInvalid, run
    <2>8. CASE RunPersist(i)
        BY <1>2, <2>1, <2>2, <2>8 DEF RunPersist, SaveThrows, run
    <2>9. CASE RunPublish(i)
        BY <1>2, <2>1, <2>2, <2>3, <2>9 DEF RunPublish, run
    <2>10. CASE RunFail(i)
        BY <2>3, <2>10 DEF RunFail, SaveThrows, run
    <2> QED
        BY <1>1, <2>4, <2>5, <2>6, <2>7, <2>8, <2>9, <2>10 DEF SkillStep, RunnerStep, ChildExits
<1>6. /\ RecordKept
      /\ \A k \in Job : submission[k].stage = "none" => docs'[k] = Absent
    <2>1. UNCHANGED docs => RecordKept /\ \A k \in Job : submission[k].stage = "none" => docs'[k] = Absent
        BY DEF RecordInv, RecordKept
    <2> HIDE DEF run
    <2> QED BY <1>2, <1>4, <1>5, <2>1, RecordIsLeft
<1>7. \A k \in DOMAIN runs' : runs'[k].want.cancellation = runs'[k].base.cancellation
    <2>1. ASSUME NEW stage, NEW base, NEW want
          PROVE  /\ [run EXCEPT !.stage = stage, !.base = base, !.want = want].base = base
                 /\ [run EXCEPT !.stage = stage, !.base = base, !.want = want].want = want
        BY <1>2 DEF Runs
    <2>2. CASE Stop(i)
        <3>1. /\ [run EXCEPT !.stage = "finalizing", !.beats = FALSE, !.base = Absent, !.want = Absent].base = Absent
              /\ [run EXCEPT !.stage = "finalizing", !.beats = FALSE, !.base = Absent, !.want = Absent].want = Absent
            BY <1>2 DEF Runs
        <3> QED BY <2>2, <3>1 DEF Stop, RecordInv
    <2>3. ASSUME NEW stage, NEW base, NEW want, base.cancellation = want.cancellation,
                 Advance(i, stage, base, want)
          PROVE  \A k \in DOMAIN runs' : runs'[k].want.cancellation = runs'[k].base.cancellation
        BY <2>1, <2>3 DEF Advance, RecordInv
    <2> QED BY <1>5, <2>2, <2>3
<1> QED BY <1>3, <1>6, <1>7 DEF RecordInv

LEMMA RequestKeepsRecord ==
    ASSUME Provider = "sqlite", TypeOK, RecordInv, RequestStep
    PROVE  RecordInv' /\ RecordKept
PROOF
<1>1. PICK c \in Request : CancelStep(c)
    BY DEF RequestStep
<1>2. /\ requests \in [Request -> Requests] /\ docs \in [Job -> Documents]
      /\ requests[c].stage \in {"read", "saving"} => requests[c].job \in Job
    BY DEF TypeOK, QueueTypeOK, CancelTypeOK
<1>3. UNCHANGED <<submission, runs>>
    BY <1>1 DEF CancelStep, CancelRead, CancelMark, CancelSave, queueVars
<1>4. ASSUME \A q \in Request : requests'[q].stage = "saving" =>
                 requests'[q].want.cancellation \in {requests'[q].base.cancellation, q},
             RecordKept, \A k \in Job : submission[k].stage = "none" => docs'[k] = Absent
      PROVE  RecordInv' /\ RecordKept
    BY <1>3, <1>4 DEF RecordInv
<1>5. ASSUME NEW new, new.stage # "saving", requests' = [requests EXCEPT ![c] = new]
      PROVE  \A q \in Request : requests'[q].stage = "saving" =>
                 requests'[q].want.cancellation \in {requests'[q].base.cancellation, q}
    BY <1>2, <1>5 DEF RecordInv
<1>6. ASSUME NEW s \in {"answered", "rejected"}, NEW j
      PROVE  [Idle EXCEPT !.stage = s, !.job = j].stage # "saving"
    BY DEF Idle
<1>7. UNCHANGED docs => RecordKept /\ \A k \in Job : submission[k].stage = "none" => docs'[k] = Absent
    BY DEF RecordInv, RecordKept
<1>8. ASSUME NEW r \in Runtime, NEW j \in Job, CancelRead(c, r, j)
      PROVE  RecordInv' /\ RecordKept
    <2>1. \E new : new.stage # "saving" /\ requests' = [requests EXCEPT ![c] = new]
        BY <1>6, <1>8 DEF CancelRead
    <2>2. UNCHANGED docs
        BY <1>8 DEF CancelRead, queueVars
    <2> QED BY <1>4, <1>5, <1>7, <2>1, <2>2
<1>9. CASE CancelMark(c)
    <2> DEFINE req == requests[c]
    <2> DEFINE d == IF CancelAllowed(docs[req.job], req.job) THEN CancelMarked(docs[req.job], c)
                    ELSE docs[req.job]
    <2>1. req \in Requests /\ req.job \in Job /\ docs[req.job] \in Documents
        BY <1>2, <1>9 DEF CancelMark
    <2>2. RecordKept /\ \A k \in Job : submission[k].stage = "none" => docs'[k] = Absent
        <3>1. d.cancellation = docs[req.job].cancellation
            BY <2>1, UpdatersKeepRecord
        <3>2. Store(req.job, d)
            BY <1>9 DEF CancelMark
        <3>3. d = docs[req.job] \/ Exists(docs[req.job])
            BY DEF CancelAllowed
        <3> HIDE DEF req, d
        <3> QED BY <2>1, <3>1, <3>2, <3>3, RecordIsLeft
    <2>3. \A q \in Request : requests'[q].stage = "saving" =>
              requests'[q].want.cancellation \in {requests'[q].base.cancellation, q}
        <3>1. ASSUME NEW status \in {"cancelled", "cancelling", "cancelled_with_partial_result"},
                     NEW completes \in BOOLEAN,
                     requests' = [requests EXCEPT ![c].stage = "saving",
                          ![c].want = [req.base EXCEPT !.status = status, !.qr = d.qr,
                                           !.cancellation = Recorded(c, req.base, completes)]]
              PROVE  \A q \in Request : requests'[q].stage = "saving" =>
                         requests'[q].want.cancellation \in {requests'[q].base.cancellation, q}
            <4> DEFINE want == [req.base EXCEPT !.status = status, !.qr = d.qr,
                                           !.cancellation = Recorded(c, req.base, completes)]
            <4>1. want.cancellation = Recorded(c, req.base, completes)
                BY <2>1 DEF Requests, Documents
            <4>2. Recorded(c, req.base, completes) \in {req.base.cancellation, c}
                BY DEF Recorded
            <4> HIDE DEF want
            <4>3. requests' = [requests EXCEPT ![c] = [req EXCEPT !.stage = "saving", !.want = want]]
                BY <3>1 DEF want
            <4>4. /\ [req EXCEPT !.stage = "saving", !.want = want].want = want
                  /\ [req EXCEPT !.stage = "saving", !.want = want].base = req.base
                BY <2>1 DEF Requests
            <4> QED BY <1>2, <4>1, <4>2, <4>3, <4>4 DEF RecordInv
        <3>2. ASSUME NEW s \in {"answered", "rejected"}, Answer(c, s)
              PROVE  \A q \in Request : requests'[q].stage = "saving" =>
                         requests'[q].want.cancellation \in {requests'[q].base.cancellation, q}
            BY <1>5, <1>6, <3>2 DEF Answer
        <3> QED BY <1>9, <3>1, <3>2 DEF CancelMark, CancelledStatus
    <2> QED BY <1>4, <2>2, <2>3
<1>10. CASE CancelSave(c)
    <2> DEFINE req == requests[c]
    <2> DEFINE cur == docs[req.job]
    <2>1. req.job \in Job /\ req.stage = "saving"
        BY <1>2, <1>10 DEF CancelSave
    <2>2. \E s \in {"answered", "rejected"} : Answer(c, s)
        BY <1>10 DEF CancelSave
    <2>3. \A q \in Request : requests'[q].stage = "saving" =>
              requests'[q].want.cancellation \in {requests'[q].base.cancellation, q}
        BY <1>5, <1>6, <2>2 DEF Answer
    <2>4. ASSUME NEW d \in SaveResults(cur, req.base, req.want, FALSE), Store(req.job, d),
                 ~SaveConflicts(cur, req.base, req.want)
          PROVE  RecordKept /\ \A k \in Job : submission[k].stage = "none" => docs'[k] = Absent
        <3>1. \/ d.cancellation = cur.cancellation
              \/ d.cancellation = c /\ req.base.cancellation = cur.cancellation
            <4>1. req.want.cancellation \in {req.base.cancellation, c}
                BY <2>1 DEF RecordInv
            <4> HIDE DEF req, cur
            <4>2. \/ d.cancellation = cur.cancellation
                  \/ /\ req.want.cancellation # req.base.cancellation
                     /\ req.base.cancellation = cur.cancellation
                     /\ d.cancellation = req.want.cancellation
                <5>1. PICK aged : aged = FALSE
                    OBVIOUS
                <5>2. d \in SaveResults(cur, req.base, req.want, aged)
                    BY <2>4, <5>1, Zenon
                <5> QED BY <2>4, <5>2, SavedRecord
            <4> QED BY <4>1, <4>2
        <3>2. Exists(cur)
            BY <2>4 DEF SaveConflicts
        <3>3. docs'[req.job] = d /\ \A k \in Job : k # req.job => docs'[k] = docs[k]
            BY <1>2, <2>1, <2>4 DEF Store
        <3>4. Absent.status = "absent"
            BY DEF Absent
        <3> QED BY <3>1, <3>2, <3>3, <3>4 DEF RecordInv, RecordKept, Exists
    <2> QED BY <1>4, <1>7, <1>10, <2>3, <2>4 DEF CancelSave
<1> QED BY <1>1, <1>8, <1>9, <1>10 DEF CancelStep

LEMMA RecordStep ==
    ASSUME Provider = "sqlite", TypeOK, RecordInv, [Next]_vars
    PROVE  RecordInv' /\ RecordKept
PROOF
<1>1. ASSUME QueueNext \/ \E r \in Runtime : Exit(r),
             \A c \in Request : requests'[c].stage = "saving" => requests'[c] = requests[c]
      PROVE  RecordInv' /\ RecordKept
    <2>1. \A i \in DOMAIN runs' : runs'[i].want.cancellation = runs'[i].base.cancellation
        BY <1>1, QueueKeepsCopies DEF RecordInv
    <2> QED BY <1>1, <2>1, QueueKeepsRecord DEF RecordInv
<1>2. QueueStep => UNCHANGED requests
    BY DEF QueueStep
<1>3. ProcessExit => \A c \in Request : requests'[c].stage = "saving" => requests'[c] = requests[c]
    BY DEF ProcessExit, ForgetRequests, Idle
<1>4. CASE UNCHANGED vars
    BY <1>4 DEF vars, queueVars, RecordInv, RecordKept
<1> QED
    BY <1>1, <1>2, <1>3, <1>4, RunKeepsRecord, RequestKeepsRecord DEF Next, QueueStep, ProcessExit

(* Under SQLite nobody's record of a cancellation is lost, whatever runtimes,    *)
(* requests and executions do at once: it is replaced only by a request that had *)
(* read it.                                                                      *)
THEOREM RecordsAreKept == Provider = "sqlite" => (Spec => CancelRecordKept)
PROOF
<1> SUFFICES ASSUME Provider = "sqlite" PROVE Spec => CancelRecordKept
    OBVIOUS
<1>1. Init => RecordInv
    BY DEF Init, QueueInit, CancelInit, Idle, RecordInv
<1>2. TypeOK /\ RecordInv /\ [Next]_vars => RecordInv'
    BY RecordStep
<1>3. TypeOK /\ RecordInv /\ [Next]_vars =>
          [\A j \in Job :
              docs[j].cancellation # NoOne /\ docs'[j].cancellation # docs[j].cancellation =>
                  \E c \in Request : /\ docs'[j].cancellation = c
                                     /\ requests[c].base.cancellation = docs[j].cancellation]_vars
    BY RecordStep DEF RecordKept
<1> QED BY <1>1, <1>2, <1>3, TypeCorrect, PTL DEF Spec, CancelRecordKept
=============================================================================
