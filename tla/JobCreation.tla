---------------------------- MODULE JobCreation ----------------------------
(***************************************************************************)
(* POST /skills/:skillId/jobs: createSkillJob                              *)
(* (skills/genericSkillJobService.js) with the reservation of the          *)
(* idempotency key (services/jobControlService.js), the reservation of a   *)
(* job ID (utils/jobIdGenerator.js), the creation of the document          *)
(* (models/Job.js) and the rollback of a creation that fails.  The queue   *)
(* is abstracted to what it does to a job that is being created: a         *)
(* reconciliation may find it, and a claim starts it.                      *)
(*                                                                         *)
(* Documents are marked logicalDeleted, never removed.  A submission is    *)
(* one HTTP request; a retry of the client is another one with its key.    *)
(***************************************************************************)
EXTENDS Naturals, FiniteSets

CONSTANTS
    Runtime, Submission, Key, Id,
    KeyOf,        \* [Submission -> Key], the idempotency keys
    Nobody,       \* no submission, no runtime, no ID
    Provider,     \* config.dbProvider
    Overlapping,  \* runtimes serve at the same time, or one after the other has died
    MaxFaults     \* bound: failed calls to the store, the disk or the publisher

ASSUME ProviderAssumption == Provider \in {"firebase", "sqlite"}
ASSUME KeyAssumption == KeyOf \in [Submission -> Key]
ASSUME NobodyAssumption == Nobody \notin Submission \cup Runtime \cup Id
ASSUME OverlappingAssumption == Overlapping \in BOOLEAN /\ MaxFaults \in Nat

VARIABLES
    docs,       \* the jobs collection: who created the document, and what became of it
    records,    \* [Id -> submissions with input records in job_files]
    workspace,  \* [Id -> the submission whose inputs are in the job's folder]
    reserved,   \* [Runtime -> reservedJobIds]
    pushed,     \* [Runtime -> queuedJobIds]
    mode,       \* [Runtime -> "off", "up", "dead"]
    handler,    \* [Submission -> the state of its handler]
    faults      \* faults so far

vars == <<docs, records, workspace, reserved, pushed, mode, handler, faults>>
storeVars == <<docs, records, workspace>>

Stages == {"idle", "waiting", "locked", "fresh", "reserved", "prepared", "created", "recorded",
           "queued", "failing", "done", "dead"}
Docs == [by : Submission \cup {Nobody}, deleted : BOOLEAN, started : BOOLEAN]
Handlers == [stage : Stages, rt : Runtime \cup {Nobody}, id : Id \cup {Nobody},
             answer : {"none", "created", "replayed", "error"}]

TypeOK ==
    /\ docs \in [Id -> Docs]
    /\ records \in [Id -> SUBSET Submission]
    /\ workspace \in [Id -> Submission \cup {Nobody}]
    /\ reserved \in [Runtime -> SUBSET Id]
    /\ pushed \in [Runtime -> SUBSET Id]
    /\ mode \in [Runtime -> {"off", "up", "dead"}]
    /\ handler \in [Submission -> Handlers]
    /\ faults \in 0..MaxFaults

Init ==
    /\ docs = [i \in Id |-> [by |-> Nobody, deleted |-> FALSE, started |-> FALSE]]
    /\ records = [i \in Id |-> {}]
    /\ workspace = [i \in Id |-> Nobody]
    /\ reserved = [r \in Runtime |-> {}]
    /\ pushed = [r \in Runtime |-> {}]
    /\ mode = [r \in Runtime |-> "off"]
    /\ handler = [s \in Submission |-> [stage |-> "idle", rt |-> Nobody, id |-> Nobody,
                                        answer |-> "none"]]
    /\ faults = 0

-----------------------------------------------------------------------------
Exists(i)  == docs[i].by # Nobody
Visible(i) == Exists(i) /\ ~docs[i].deleted

(* transactJob, Job.find and persistQueuedState see a job that waits *)
Waits(i) == Visible(i) /\ ~docs[i].started

At(s, stage) == handler[s].stage = stage /\ mode[handler[s].rt] = "up"

Advance(s, stage) == handler' = [handler EXCEPT ![s].stage = stage]

(* The handler leaves the reservation of its key *)
Reply(s, answer, id) ==
    handler' = [handler EXCEPT ![s] = [@ EXCEPT !.stage = "done", !.id = id, !.answer = answer]]

Fault == faults < MaxFaults /\ faults' = faults + 1

(* Between the start of createSkillJob and its return a handler holds its key *)
Holding(k, r) ==
    {s \in Submission : /\ KeyOf[s] = k /\ handler[s].rt = r
                        /\ handler[s].stage \notin {"idle", "waiting", "done", "dead"}}

(* Mutant: nobody waits *)
KeyIsFreeAlways(k, r) == TRUE

KeyIsFree(k, r) == Holding(k, r) = {}

-----------------------------------------------------------------------------
Receive(s, r) ==
    /\ handler[s].stage = "idle" /\ mode[r] = "up"
    /\ handler' = [handler EXCEPT ![s] = [@ EXCEPT !.stage = "waiting", !.rt = r]]
    /\ UNCHANGED <<storeVars, reserved, pushed, mode, faults>>

(* withIdempotencyReservation: a handler waits for the one that holds its key *)
Enter(s) ==
    /\ At(s, "waiting") /\ KeyIsFree(KeyOf[s], handler[s].rt)
    /\ Advance(s, "locked")
    /\ UNCHANGED <<storeVars, reserved, pushed, mode, faults>>

(* findJobByIdempotency: a job that has the key is answered again *)
Lookup(s) ==
    LET found == {i \in Id : Visible(i) /\ KeyOf[docs[i].by] = KeyOf[s]} IN
    /\ At(s, "locked")
    /\ \/ \E i \in found : Reply(s, "replayed", i)
       \/ found = {} /\ Advance(s, "fresh")
    /\ UNCHANGED <<storeVars, reserved, pushed, mode, faults>>

(* Mutant: only the store is asked, not the reservations of this process *)
FreeIdUnreserved(i, r) == ~Exists(i)

FreeId(i, r) == ~Exists(i) /\ i \notin reserved[r]

(* reserveUniqueJobId.  Where its search starts is left open: the query for the *)
(* latest ID sorts texts, and matchFilter does not apply its regular expression. *)
ReserveId(s) ==
    LET r == handler[s].rt IN
    /\ At(s, "fresh")
    /\ \/ \E i \in Id :
             /\ FreeId(i, r)
             /\ reserved' = [reserved EXCEPT ![r] = @ \cup {i}]
             /\ handler' = [handler EXCEPT ![s] = [@ EXCEPT !.stage = "reserved", !.id = i]]
       \/ /\ \A i \in Id : ~FreeId(i, r)
          /\ Reply(s, "error", Nobody)
          /\ UNCHANGED reserved
    /\ UNCHANGED <<storeVars, pushed, mode, faults>>

(* Any await from here on may throw, which leads to the catch clause *)
Throws(s) ==
    /\ Fault /\ Advance(s, "failing")
    /\ UNCHANGED <<reserved, pushed, mode>>

(* createJobFolders, the input files and skill-input.json *)
Prepare(s) ==
    /\ At(s, "reserved")
    /\ \/ /\ workspace' = [workspace EXCEPT ![handler[s].id] = s]
          /\ \/ Advance(s, "prepared") /\ UNCHANGED <<reserved, pushed, mode, faults>>
             \/ Throws(s)
          /\ UNCHANGED <<docs, records>>
       \/ Throws(s) /\ UNCHANGED storeVars

(* Job.create: a transaction that writes only an absent document under SQLite, *)
(* a PATCH under Firebase, which merges with what is there.                    *)
CreateDoc(s) ==
    LET i == handler[s].id IN
    /\ At(s, "prepared")
    /\ \/ /\ Provider = "sqlite" /\ Exists(i)
          /\ Advance(s, "failing")
          /\ UNCHANGED <<docs, faults, reserved, pushed, mode>>
       \/ /\ Provider = "firebase" \/ ~Exists(i)
          /\ docs' = [docs EXCEPT ![i] = [@ EXCEPT !.by = s, !.started = FALSE]]
          /\ \/ Advance(s, "created") /\ UNCHANGED <<reserved, pushed, mode, faults>>
             \/ Throws(s)
       \/ Throws(s) /\ UNCHANGED docs
    /\ UNCHANGED <<records, workspace>>

(* JobFile.insertMany *)
InsertRecords(s) ==
    /\ At(s, "created")
    /\ \/ /\ records' = [records EXCEPT ![handler[s].id] = @ \cup {s}]
          /\ \/ Advance(s, "recorded") /\ UNCHANGED <<reserved, pushed, mode, faults>>
             \/ Throws(s)
       \/ Throws(s) /\ UNCHANGED records
    /\ UNCHANGED <<docs, workspace>>

(* jobQueue.enqueueJob, up to the event it publishes *)
Enqueue(s) ==
    LET i == handler[s].id
        r == handler[s].rt
    IN
    /\ At(s, "recorded")
    /\ \/ /\ pushed' = [pushed EXCEPT ![r] = IF Waits(i) THEN @ \cup {i} ELSE @]
          /\ Advance(s, "queued") /\ UNCHANGED <<reserved, mode, faults>>
       \/ Throws(s)
    /\ UNCHANGED storeVars

(* publishJobEvent, and the return of createSkillJob *)
Publish(s) ==
    LET r == handler[s].rt IN
    /\ At(s, "queued")
    /\ \/ /\ Reply(s, "created", handler[s].id)
          /\ reserved' = [reserved EXCEPT ![r] = @ \ {handler[s].id}]
          /\ UNCHANGED <<pushed, mode, faults>>
       \/ Throws(s)
    /\ UNCHANGED storeVars

(* Mutant: the document is left behind *)
UndoneWithoutDocument(i) ==
    /\ records' = [records EXCEPT ![i] = {}]
    /\ workspace' = [workspace EXCEPT ![i] = Nobody]
    /\ UNCHANGED docs

(* Mutant: the document is removed, not marked *)
UndoneByRemoval(i) ==
    /\ docs' = [docs EXCEPT ![i] = Nobody]
    /\ records' = [records EXCEPT ![i] = {}]
    /\ workspace' = [workspace EXCEPT ![i] = Nobody]

Undone(i) ==
    /\ docs' = [docs EXCEPT ![i].deleted = @ \/ Exists(i)]
    /\ records' = [records EXCEPT ![i] = {}]
    /\ workspace' = [workspace EXCEPT ![i] = Nobody]

(* The catch clause: three deletions by job ID, whose own errors are dropped *)
Rollback(s) ==
    LET i == handler[s].id
        r == handler[s].rt
    IN
    /\ At(s, "failing")
    /\ \/ Undone(i) /\ UNCHANGED faults
       \/ /\ Fault
          /\ docs' \in {docs, [docs EXCEPT ![i].deleted = @ \/ Exists(i)]}
          /\ records' \in {records, [records EXCEPT ![i] = {}]}
          /\ workspace' \in {workspace, [workspace EXCEPT ![i] = Nobody]}
    /\ Reply(s, "error", i)
    /\ reserved' = [reserved EXCEPT ![r] = @ \ {i}]
    /\ UNCHANGED <<pushed, mode>>

-----------------------------------------------------------------------------
(* The queue: a reconciliation queues every job that waits, also one that is *)
(* still being created; a claim starts it, or drops it if it does not wait.  *)
Reconcile(r, i) ==
    /\ mode[r] = "up" /\ Waits(i) /\ i \notin pushed[r]
    /\ pushed' = [pushed EXCEPT ![r] = @ \cup {i}]
    /\ UNCHANGED <<storeVars, reserved, mode, handler, faults>>

Claim(r, i) ==
    /\ mode[r] = "up" /\ i \in pushed[r]
    /\ pushed' = [pushed EXCEPT ![r] = @ \ {i}]
    /\ docs' = [docs EXCEPT ![i].started = @ \/ Waits(i)]
    /\ UNCHANGED <<records, workspace, reserved, mode, handler, faults>>

Start(r) ==
    /\ mode[r] = "off"
    /\ Overlapping \/ \A o \in Runtime : mode[o] # "up"
    /\ mode' = [mode EXCEPT ![r] = "up"]
    /\ UNCHANGED <<storeVars, reserved, pushed, handler, faults>>

Crash(r) ==
    /\ mode[r] = "up"
    /\ mode' = [mode EXCEPT ![r] = "dead"]
    /\ reserved' = [reserved EXCEPT ![r] = {}]
    /\ pushed' = [pushed EXCEPT ![r] = {}]
    /\ handler' = [s \in Submission |->
                     IF handler[s].rt = r /\ handler[s].stage # "done"
                     THEN [handler[s] EXCEPT !.stage = "dead"] ELSE handler[s]]
    /\ UNCHANGED <<storeVars, faults>>

Next ==
    \/ \E s \in Submission :
          \/ \E r \in Runtime : Receive(s, r)
          \/ Enter(s) \/ Lookup(s) \/ ReserveId(s) \/ Prepare(s) \/ CreateDoc(s)
          \/ InsertRecords(s) \/ Enqueue(s) \/ Publish(s) \/ Rollback(s)
    \/ \E r \in Runtime : Start(r) \/ Crash(r) \/ \E i \in Id : Reconcile(r, i) \/ Claim(r, i)

Spec == Init /\ [][Next]_vars

-----------------------------------------------------------------------------
Answered(s) == handler[s].answer \in {"created", "replayed"}

(* However often and concurrently a client sends a request, and across a restart, *)
(* every answer names one job.                                                   *)
OneJobPerKey ==
    \A s, t \in Submission :
        KeyOf[s] = KeyOf[t] /\ Answered(s) /\ Answered(t) => handler[s].id = handler[t].id

(* A job whose creation was confirmed stays, and stays the job that was asked *)
(* for: the failed creation of another one does not take it away.            *)
AnsweredJobsExist ==
    \A s \in Submission : Answered(s) =>
        Visible(handler[s].id) /\ KeyOf[docs[handler[s].id].by] = KeyOf[s]

(* A claimed job finds its own inputs in its folder, unless its creation was  *)
(* rolled back: the folder is filled before the document makes it visible.    *)
StartedJobsHaveInputs ==
    \A i \in Id : docs[i].started /\ Visible(i) => workspace[i] = docs[i].by

(* A creation that was answered with an error leaves neither a job that could  *)
(* still run nor records of input files, wherever it failed.                   *)
RejectedLeavesNothing ==
    \A s \in Submission : handler[s].answer = "error" =>
        \A i \in Id : s \notin records[i] /\ (docs[i].by = s => docs[i].deleted)
=============================================================================
