--------------------------- MODULE JobCreationProofs ---------------------------
(***************************************************************************)
(* Theorems about JobCreation, for any runtimes that do not overlap, any   *)
(* submissions, keys and IDs, and both providers; and the types of all the *)
(* parts of ServicePlatform, of which creation is the last.                *)
(***************************************************************************)
EXTENDS ServiceProofs

LEMMA TypesBegin == Init => TypeOK
PROOF
BY OverlappingAssumption DEF Init, TypeOK, Docs, Handlers, Stages

(* The two ways a handler goes on *)
LEMMA AdvanceType ==
    ASSUME TypeOK, NEW s \in Submission, NEW stage \in Stages, Advance(s, stage)
    PROVE  /\ handler' \in [Submission -> Handlers]
           /\ \A t \in Submission \ {s} : handler'[t] = handler[t]
           /\ handler'[s].stage = stage /\ handler'[s].rt = handler[s].rt
           /\ handler'[s].id = handler[s].id /\ handler'[s].answer = handler[s].answer
PROOF
BY DEF TypeOK, Handlers, Advance

LEMMA ReplyType ==
    ASSUME TypeOK, NEW s \in Submission, NEW answer \in {"created", "replayed", "error"},
           NEW id \in Id \cup {Nobody}, Reply(s, answer, id)
    PROVE  /\ handler' \in [Submission -> Handlers]
           /\ \A t \in Submission \ {s} : handler'[t] = handler[t]
           /\ handler'[s].stage = "done" /\ handler'[s].rt = handler[s].rt
           /\ handler'[s].id = id /\ handler'[s].answer = answer
PROOF
BY DEF TypeOK, Handlers, Stages, Reply

LEMMA FaultType == TypeOK /\ Fault => faults' \in 0..MaxFaults /\ faults' >= 1
PROOF
BY OverlappingAssumption DEF TypeOK, Fault

-----------------------------------------------------------------------------
(* The invariant, for runtimes that do not overlap *)

Alive(s)   == handler[s].stage \notin {"idle", "done", "dead"}
HasLock(s) == Alive(s) /\ handler[s].stage # "waiting"
HasId(s)   == handler[s].stage \in {"reserved", "prepared", "created", "recorded", "queued", "failing"}

OneIsUp == \A r, q \in Runtime : mode[r] = "up" /\ mode[q] = "up" => r = q

(* Handlers die with their runtime, and answer once *)
HandlersLive ==
    \A s \in Submission :
        /\ Alive(s) => handler[s].rt \in Runtime /\ mode[handler[s].rt] = "up"
        /\ handler[s].answer # "none" => handler[s].stage = "done"

KeysAreHeld == \A s, t \in Submission : HasLock(s) /\ HasLock(t) /\ KeyOf[s] = KeyOf[t] => s = t

IdsAreOwned ==
    \A s \in Submission : HasId(s) =>
        /\ handler[s].id \in reserved[handler[s].rt]
        /\ \A t \in Submission : HasId(t) /\ handler[t].id = handler[s].id => s = t

(* Whoever has an ID is the only one who writes its document *)
DocsAreOwned ==
    \A s \in Submission :
        /\ handler[s].stage \in {"reserved", "prepared"} => docs[handler[s].id].by = Nobody
        /\ handler[s].stage \in {"created", "recorded", "queued"} =>
              docs[handler[s].id].by = s /\ ~docs[handler[s].id].deleted
        /\ handler[s].stage = "failing" => docs[handler[s].id].by \in {Nobody, s}

(* What Lookup has seen stays so until the handler creates its own document *)
KeysAreFree ==
    \A s \in Submission : handler[s].stage \in {"fresh", "reserved", "prepared"} =>
        \A i \in Id : Visible(i) => KeyOf[docs[i].by] # KeyOf[s]

DocsAreOnePerKey ==
    \A i, j \in Id : Visible(i) /\ Visible(j) /\ KeyOf[docs[i].by] = KeyOf[docs[j].by] => i = j

DeletedWasThere == \A i \in Id : docs[i].deleted => Exists(i)

(* Nobody who could take a document away has one that was answered *)
AnswersAreOwned ==
    \A s \in Submission : Answered(s) =>
        /\ handler[s].id \in Id
        /\ \A t \in Submission : HasId(t) => handler[s].id # handler[t].id

CreationInv ==
    /\ TypeOK /\ OneIsUp /\ HandlersLive /\ KeysAreHeld /\ IdsAreOwned /\ DocsAreOwned
    /\ KeysAreFree /\ DocsAreOnePerKey /\ DeletedWasThere /\ AnsweredJobsExist /\ AnswersAreOwned

LEMMA CreationBegins == Init => CreationInv
PROOF
<1> SUFFICES ASSUME Init PROVE CreationInv
    OBVIOUS
<1>1. TypeOK
    BY TypesBegin
<1> QED
    BY <1>1 DEF Init, CreationInv, OneIsUp, HandlersLive, KeysAreHeld, IdsAreOwned, DocsAreOwned, KeysAreFree,
        DocsAreOnePerKey, DeletedWasThere, AnsweredJobsExist, AnswersAreOwned, Alive, HasLock, HasId, Visible, Exists, Answered

LEMMA IdsInInv ==
    ASSUME CreationInv, NEW s \in Submission, HasId(s)
    PROVE  handler[s].id \in Id /\ handler[s].rt \in Runtime /\ Alive(s) /\ HasLock(s)
PROOF
BY DEF CreationInv, TypeOK, IdsAreOwned, HandlersLive, HasId, Alive, HasLock

(* Steps of a handler that leave the documents and the runtimes alone *)

LEMMA ReceiveKeeps ==
    ASSUME CreationInv, NEW s \in Submission, NEW r \in Runtime, Receive(s, r)
    PROVE  CreationInv'
PROOF
<1>1. /\ handler' \in [Submission -> Handlers] /\ \A t \in Submission \ {s} : handler'[t] = handler[t]
      /\ handler'[s].stage = "waiting" /\ handler'[s].rt = r /\ handler'[s].answer = handler[s].answer
    BY DEF Receive, CreationInv, TypeOK, Handlers, Stages
<1>2. /\ handler[s].stage = "idle" /\ mode[r] = "up"
      /\ UNCHANGED <<docs, records, workspace, reserved, pushed, mode, faults>>
    BY DEF Receive, storeVars
<1>3. TypeOK'
    BY <1>1, <1>2 DEF CreationInv, TypeOK
<1>4. OneIsUp' /\ HandlersLive' /\ KeysAreHeld' /\ IdsAreOwned'
    BY <1>1, <1>2 DEF CreationInv, OneIsUp, HandlersLive, KeysAreHeld, IdsAreOwned, Alive, HasLock, HasId
<1>5. DocsAreOwned' /\ KeysAreFree' /\ DocsAreOnePerKey' /\ DeletedWasThere'
    BY <1>1, <1>2 DEF CreationInv, DocsAreOwned, KeysAreFree, DocsAreOnePerKey, DeletedWasThere, Visible, Exists
<1>6. AnsweredJobsExist' /\ AnswersAreOwned'
    BY <1>1, <1>2 DEF CreationInv, HandlersLive, AnsweredJobsExist, AnswersAreOwned, Answered, HasId, Visible, Exists
<1> QED
    BY <1>3, <1>4, <1>5, <1>6 DEF CreationInv

(* A handler that goes on: what its next stage needs is what it has *)
LEMMA StageKeeps ==
    ASSUME CreationInv, NEW s \in Submission, NEW stage \in Stages, Advance(s, stage), Alive(s),
           stage \notin {"idle", "waiting", "done", "dead", "reserved"},
           UNCHANGED <<docs, mode, reserved>>, pushed' \in [Runtime -> SUBSET Id],
           records' \in [Id -> SUBSET Submission], workspace' \in [Id -> Submission \cup {Nobody}], faults' \in 0..MaxFaults,
           ~HasLock(s) => \A t \in Submission : HasLock(t) => KeyOf[t] # KeyOf[s],
           stage = "fresh" => \A i \in Id : Visible(i) => KeyOf[docs[i].by] # KeyOf[s],
           stage \in {"prepared", "created", "recorded", "queued", "failing"} => HasId(s),
           stage = "prepared" => handler[s].stage = "reserved",
           stage \in {"created", "recorded", "queued"} => handler[s].stage \in {"created", "recorded", "queued"}
    PROVE  CreationInv'
PROOF
<1>0. TypeOK
    BY DEF CreationInv
<1>1. /\ handler' \in [Submission -> Handlers] /\ \A t \in Submission \ {s} : handler'[t] = handler[t]
      /\ handler'[s].stage = stage /\ handler'[s].rt = handler[s].rt
      /\ handler'[s].id = handler[s].id /\ handler'[s].answer = handler[s].answer
    BY <1>0, AdvanceType
<1>2. TypeOK'
    BY <1>1 DEF CreationInv, TypeOK
<1>3. handler[s].answer = "none"
    BY DEF CreationInv, HandlersLive, Alive
<1>4. OneIsUp' /\ HandlersLive'
    BY <1>1, <1>3 DEF CreationInv, OneIsUp, HandlersLive, Alive
<1>5. KeysAreHeld'
    BY <1>1 DEF CreationInv, KeysAreHeld, Alive, HasLock
<1>6. IdsAreOwned'
    BY <1>1 DEF CreationInv, IdsAreOwned, HasId, Stages
<1>7. DocsAreOwned'
    BY <1>1 DEF CreationInv, DocsAreOwned, HasId
<1>8. KeysAreFree' /\ DocsAreOnePerKey' /\ DeletedWasThere'
    BY <1>1 DEF CreationInv, KeysAreFree, DocsAreOnePerKey, DeletedWasThere, Visible, Exists
<1>9. AnsweredJobsExist' /\ AnswersAreOwned'
    BY <1>1, <1>3 DEF CreationInv, AnsweredJobsExist, AnswersAreOwned, Answered, HasId, Visible, Exists, Stages
<1> QED
    BY <1>2, <1>4, <1>5, <1>6, <1>7, <1>8, <1>9 DEF CreationInv

(* A handler that answers *)
LEMMA AnswerKeeps ==
    ASSUME CreationInv, NEW s \in Submission, NEW answer \in {"created", "replayed", "error"}, NEW id \in Id \cup {Nobody},
           Reply(s, answer, id), UNCHANGED <<docs, mode, pushed, records, workspace, faults>>, Alive(s),
           reserved' \in [Runtime -> SUBSET Id],
           \A t \in Submission \ {s} : HasId(t) => handler[t].id \in reserved'[handler[t].rt],
           answer # "error" =>
               /\ id \in Id /\ Visible(id) /\ KeyOf[docs[id].by] = KeyOf[s]
               /\ \A t \in Submission \ {s} : HasId(t) => handler[t].id # id
    PROVE  CreationInv'
PROOF
<1>0. TypeOK
    BY DEF CreationInv
<1>1. /\ handler' \in [Submission -> Handlers] /\ \A t \in Submission \ {s} : handler'[t] = handler[t]
      /\ handler'[s].stage = "done" /\ handler'[s].rt = handler[s].rt
      /\ handler'[s].id = id /\ handler'[s].answer = answer
    BY <1>0, ReplyType
<1>2. TypeOK'
    BY <1>1 DEF CreationInv, TypeOK
<1>3. OneIsUp' /\ HandlersLive' /\ KeysAreHeld'
    BY <1>1 DEF CreationInv, OneIsUp, HandlersLive, KeysAreHeld, Alive, HasLock
<1>4. IdsAreOwned'
    BY <1>1 DEF CreationInv, IdsAreOwned, HasId
<1>5. DocsAreOwned' /\ KeysAreFree' /\ DocsAreOnePerKey' /\ DeletedWasThere'
    BY <1>1 DEF CreationInv, DocsAreOwned, KeysAreFree, DocsAreOnePerKey, DeletedWasThere, Visible, Exists
<1>6. AnsweredJobsExist'
    BY <1>1 DEF CreationInv, AnsweredJobsExist, Answered, Visible, Exists
<1>7. AnswersAreOwned'
    BY <1>1 DEF CreationInv, AnswersAreOwned, Answered, HasId
<1> QED
    BY <1>2, <1>3, <1>4, <1>5, <1>6, <1>7 DEF CreationInv

LEMMA EnterKeeps ==
    ASSUME CreationInv, NEW s \in Submission, Enter(s)
    PROVE  CreationInv'
PROOF
<1>1. /\ handler[s].stage = "waiting" /\ mode[handler[s].rt] = "up" /\ KeyIsFree(KeyOf[s], handler[s].rt)
      /\ Advance(s, "locked") /\ UNCHANGED <<docs, records, workspace, reserved, pushed, mode, faults>>
    BY DEF Enter, At, storeVars
<1>2. ASSUME NEW t \in Submission, HasLock(t), KeyOf[t] = KeyOf[s]
      PROVE  FALSE
  <2>1. handler[t].rt = handler[s].rt
      BY <1>1, <1>2 DEF CreationInv, HandlersLive, OneIsUp, HasLock, Alive
  <2> QED
      BY <1>1, <1>2, <2>1 DEF KeyIsFree, Holding, HasLock, Alive
<1>3. records' \in [Id -> SUBSET Submission] /\ workspace' \in [Id -> Submission \cup {Nobody}] /\ faults' \in 0..MaxFaults
    BY <1>1 DEF CreationInv, TypeOK
<1> QED
    BY <1>1, <1>2, <1>3, StageKeeps DEF Stages, Alive, CreationInv, TypeOK

LEMMA LookupKeeps ==
    ASSUME CreationInv, NEW s \in Submission, Lookup(s)
    PROVE  CreationInv'
PROOF
<1>1. handler[s].stage = "locked" /\ UNCHANGED <<docs, records, workspace, reserved, pushed, mode, faults>>
    BY DEF Lookup, At, storeVars
<1>2. Alive(s) /\ HasLock(s) /\ ~HasId(s)
    BY <1>1 DEF Alive, HasLock, HasId
<1>3. TypeOK /\ \A t \in Submission : HasId(t) => handler[t].id \in reserved[handler[t].rt]
    BY DEF CreationInv, IdsAreOwned
<1>4. ASSUME NEW i \in Id, Visible(i), KeyOf[docs[i].by] = KeyOf[s], Reply(s, "replayed", i)
      PROVE  CreationInv'
  <2>1. ASSUME NEW t \in Submission, HasId(t), handler[t].id = i
        PROVE  FALSE
    <3>1. docs[i].by \in {Nobody, t}
        BY <2>1 DEF CreationInv, DocsAreOwned, HasId
    <3>2. KeyOf[t] = KeyOf[s]
        BY <1>4, <3>1 DEF Visible, Exists
    <3> QED
        BY <1>2, <2>1, <3>2, IdsInInv DEF CreationInv, KeysAreHeld
  <2> QED
      BY <1>1, <1>2, <1>3, <1>4, <2>1, AnswerKeeps DEF TypeOK
<1>5. CASE Advance(s, "fresh") /\ \A i \in Id : Visible(i) => KeyOf[docs[i].by] # KeyOf[s]
    BY <1>1, <1>2, <1>3, <1>5, StageKeeps DEF Stages, TypeOK
<1> QED
    BY <1>4, <1>5 DEF Lookup

LEMMA ReserveIdKeeps ==
    ASSUME CreationInv, NEW s \in Submission, ReserveId(s)
    PROVE  CreationInv'
PROOF
<1>1. handler[s].stage = "fresh" /\ mode[handler[s].rt] = "up" /\ UNCHANGED <<docs, records, workspace, pushed, mode, faults>>
    BY DEF ReserveId, At, storeVars
<1>2. Alive(s) /\ HasLock(s) /\ ~HasId(s) /\ handler[s].rt \in Runtime /\ handler[s].answer = "none"
    BY <1>1 DEF CreationInv, HandlersLive, Alive, HasLock, HasId
<1>3. TypeOK /\ \A t \in Submission : HasId(t) => handler[t].id \in reserved[handler[t].rt]
    BY DEF CreationInv, IdsAreOwned
<1>4. ASSUME NEW i \in Id, FreeId(i, handler[s].rt), reserved' = [reserved EXCEPT ![handler[s].rt] = @ \cup {i}],
             handler' = [handler EXCEPT ![s] = [@ EXCEPT !.stage = "reserved", !.id = i]]
      PROVE  CreationInv'
  <2>1. /\ handler' \in [Submission -> Handlers] /\ \A t \in Submission \ {s} : handler'[t] = handler[t]
        /\ handler'[s].stage = "reserved" /\ handler'[s].rt = handler[s].rt
        /\ handler'[s].id = i /\ handler'[s].answer = "none"
      BY <1>2, <1>3, <1>4 DEF TypeOK, Handlers, Stages
  <2>2. /\ reserved' \in [Runtime -> SUBSET Id] /\ i \in reserved'[handler[s].rt]
        /\ \A r \in Runtime : reserved[r] \subseteq reserved'[r]
      BY <1>2, <1>3, <1>4 DEF TypeOK
  <2>3. ASSUME NEW t \in Submission, HasId(t)
        PROVE  handler[t].id # i /\ t # s
    <3>1. handler[t].rt = handler[s].rt
        BY <1>1, <1>2, <2>3, IdsInInv DEF CreationInv, HandlersLive, OneIsUp
    <3> QED
        BY <1>2, <1>3, <1>4, <2>3, <3>1 DEF FreeId
  <2>4. TypeOK'
      BY <1>1, <1>3, <2>1, <2>2 DEF TypeOK
  <2>5. OneIsUp' /\ HandlersLive' /\ KeysAreHeld'
      BY <1>1, <1>2, <2>1 DEF CreationInv, OneIsUp, HandlersLive, KeysAreHeld, Alive, HasLock
  <2>6. \A t \in Submission \ {s} : HasId(t)' <=> HasId(t)
      BY <2>1 DEF HasId
  <2>7. IdsAreOwned'
    <3>1. \A t \in Submission \ {s} : HasId(t) =>
              handler'[t].id \in reserved'[handler'[t].rt] /\ handler'[t].id # i
        BY <1>3, <2>1, <2>2, <2>3, IdsInInv
    <3> QED
        BY <2>1, <2>2, <2>6, <3>1 DEF CreationInv, IdsAreOwned
  <2>8. DocsAreOwned' /\ KeysAreFree' /\ DocsAreOnePerKey' /\ DeletedWasThere'
      BY <1>1, <1>4, <2>1 DEF CreationInv, DocsAreOwned, KeysAreFree, DocsAreOnePerKey, DeletedWasThere, Visible, Exists, FreeId
  <2>9. AnsweredJobsExist'
      BY <1>1, <2>1 DEF CreationInv, AnsweredJobsExist, Answered, Visible, Exists
  <2>10. AnswersAreOwned'
      BY <1>1, <1>4, <2>1, <2>6 DEF CreationInv, AnsweredJobsExist, AnswersAreOwned, Answered, Visible, FreeId
  <2> QED
      BY <2>4, <2>5, <2>7, <2>8, <2>9, <2>10 DEF CreationInv
<1>5. CASE Reply(s, "error", Nobody) /\ UNCHANGED reserved
    BY <1>1, <1>2, <1>3, <1>5, AnswerKeeps DEF TypeOK
<1> QED
    BY <1>4, <1>5 DEF ReserveId

LEMMA PrepareKeeps ==
    ASSUME CreationInv, NEW s \in Submission, Prepare(s)
    PROVE  CreationInv'
PROOF
<1>1. handler[s].stage = "reserved" /\ UNCHANGED <<docs, records, reserved, pushed, mode>>
    BY DEF Prepare, At, Throws, storeVars
<1>2. Alive(s) /\ HasLock(s) /\ HasId(s)
    BY <1>1 DEF Alive, HasLock, HasId
<1>3. TypeOK
    BY DEF CreationInv
<1>4. workspace' \in [Id -> Submission \cup {Nobody}] /\ records' \in [Id -> SUBSET Submission]
    BY <1>1, <1>3 DEF Prepare, TypeOK, storeVars
<1>5. faults' \in 0..MaxFaults
    BY <1>3, FaultType DEF Prepare, Throws, TypeOK
<1>6. Advance(s, "prepared") \/ Advance(s, "failing")
    BY DEF Prepare, Throws
<1> QED
    BY <1>1, <1>2, <1>3, <1>4, <1>5, <1>6, StageKeeps DEF Stages, TypeOK

LEMMA InsertRecordsKeeps ==
    ASSUME CreationInv, NEW s \in Submission, InsertRecords(s)
    PROVE  CreationInv'
PROOF
<1>1. handler[s].stage = "created" /\ UNCHANGED <<docs, workspace, reserved, pushed, mode>>
    BY DEF InsertRecords, At, Throws
<1>2. Alive(s) /\ HasLock(s) /\ HasId(s)
    BY <1>1 DEF Alive, HasLock, HasId
<1>3. TypeOK
    BY DEF CreationInv
<1>4. workspace' \in [Id -> Submission \cup {Nobody}] /\ records' \in [Id -> SUBSET Submission]
    BY <1>1, <1>3 DEF InsertRecords, TypeOK
<1>5. faults' \in 0..MaxFaults
    BY <1>3, FaultType DEF InsertRecords, Throws, TypeOK
<1>6. Advance(s, "recorded") \/ Advance(s, "failing")
    BY DEF InsertRecords, Throws
<1> QED
    BY <1>1, <1>2, <1>3, <1>4, <1>5, <1>6, StageKeeps DEF Stages, TypeOK

LEMMA EnqueueKeeps ==
    ASSUME CreationInv, NEW s \in Submission, Enqueue(s)
    PROVE  CreationInv'
PROOF
<1>1. handler[s].stage = "recorded" /\ UNCHANGED <<docs, records, workspace, reserved, mode>>
    BY DEF Enqueue, At, Throws, storeVars
<1>2. Alive(s) /\ HasLock(s) /\ HasId(s)
    BY <1>1 DEF Alive, HasLock, HasId
<1>3. TypeOK /\ handler[s].id \in Id
    BY <1>2, IdsInInv DEF CreationInv
<1>4. pushed' \in [Runtime -> SUBSET Id]
    BY <1>3 DEF Enqueue, Throws, TypeOK
<1>5. faults' \in 0..MaxFaults
    BY <1>3, FaultType DEF Enqueue, Throws, TypeOK
<1>6. Advance(s, "queued") \/ Advance(s, "failing")
    BY DEF Enqueue, Throws
<1> QED
    BY <1>1, <1>2, <1>3, <1>4, <1>5, <1>6, StageKeeps DEF Stages, TypeOK

LEMMA PublishKeeps ==
    ASSUME CreationInv, NEW s \in Submission, Publish(s)
    PROVE  CreationInv'
PROOF
<1>1. handler[s].stage = "queued" /\ UNCHANGED <<docs, records, workspace, pushed, mode>>
    BY DEF Publish, At, Throws, storeVars
<1>2. Alive(s) /\ HasLock(s) /\ HasId(s)
    BY <1>1 DEF Alive, HasLock, HasId
<1>3. TypeOK /\ handler[s].id \in Id /\ handler[s].rt \in Runtime
    BY <1>2, IdsInInv DEF CreationInv
<1>4. CASE Throws(s)
  <2>1. faults' \in 0..MaxFaults
      BY <1>3, <1>4, FaultType DEF Throws
  <2> QED
      BY <1>1, <1>2, <1>3, <1>4, <2>1, StageKeeps DEF Throws, Stages, TypeOK
<1>5. CASE /\ Reply(s, "created", handler[s].id) /\ UNCHANGED faults
           /\ reserved' = [reserved EXCEPT ![handler[s].rt] = @ \ {handler[s].id}]
  <2>1. docs[handler[s].id].by = s /\ Visible(handler[s].id)
      BY <1>1, NobodyAssumption DEF CreationInv, DocsAreOwned, Visible, Exists
  <2>2. \A t \in Submission \ {s} : HasId(t) => handler[t].id # handler[s].id /\ handler[t].id \in reserved[handler[t].rt]
      BY <1>2 DEF CreationInv, IdsAreOwned
  <2>3. reserved' \in [Runtime -> SUBSET Id]
      BY <1>3, <1>5 DEF TypeOK
  <2>4. \A t \in Submission \ {s} : HasId(t) => handler[t].id \in reserved'[handler[t].rt]
      BY <1>3, <1>5, <2>2, IdsInInv DEF TypeOK
  <2> QED
      BY <1>1, <1>2, <1>3, <1>5, <2>1, <2>2, <2>3, <2>4, AnswerKeeps
<1> QED
    BY <1>4, <1>5 DEF Publish

-----------------------------------------------------------------------------
(* Steps that change documents *)

LEMMA MarkDeleted ==
    ASSUME TypeOK, NEW i \in Id, NEW b \in BOOLEAN, docs' = [docs EXCEPT ![i].deleted = b]
    PROVE  /\ docs' \in [Id -> Docs] /\ \A j \in Id \ {i} : docs'[j] = docs[j]
           /\ docs'[i].by = docs[i].by /\ docs'[i].deleted = b
PROOF
BY DEF TypeOK, Docs

LEMMA MarkStarted ==
    ASSUME TypeOK, NEW i \in Id, NEW b \in BOOLEAN, docs' = [docs EXCEPT ![i].started = b]
    PROVE  /\ docs' \in [Id -> Docs] /\ \A j \in Id \ {i} : docs'[j] = docs[j]
           /\ docs'[i].by = docs[i].by /\ docs'[i].deleted = docs[i].deleted /\ docs'[i].started = b
PROOF
BY DEF TypeOK, Docs

LEMMA CreateDocKeeps ==
    ASSUME CreationInv, NEW s \in Submission, CreateDoc(s)
    PROVE  CreationInv'
PROOF
<1> DEFINE i == handler[s].id
<1>1. handler[s].stage = "prepared" /\ UNCHANGED <<records, workspace, reserved, pushed, mode>>
    BY DEF CreateDoc, At, Throws
<1>2. Alive(s) /\ HasLock(s) /\ HasId(s)
    BY <1>1 DEF Alive, HasLock, HasId
<1>3. TypeOK /\ i \in Id
    BY <1>2, IdsInInv DEF CreationInv
<1>4. docs[i].by = Nobody /\ ~docs[i].deleted /\ handler[s].answer = "none"
    BY <1>1, <1>2, <1>3 DEF CreationInv, DocsAreOwned, DeletedWasThere, Exists, HandlersLive, Alive
<1>5. faults' \in 0..MaxFaults
    BY <1>3, FaultType DEF CreateDoc, Throws, TypeOK
<1>6. CASE UNCHANGED docs /\ Advance(s, "failing")
    BY <1>1, <1>2, <1>3, <1>5, <1>6, StageKeeps DEF Stages, TypeOK
<1>7. CASE /\ docs' = [docs EXCEPT ![i] = [@ EXCEPT !.by = s, !.started = FALSE]]
           /\ (Advance(s, "created") \/ Advance(s, "failing"))
  <2>1. PICK stage \in {"created", "failing"} : Advance(s, stage)
      BY <1>7
  <2>2. /\ handler' \in [Submission -> Handlers] /\ \A t \in Submission \ {s} : handler'[t] = handler[t]
        /\ handler'[s].stage = stage /\ handler'[s].rt = handler[s].rt
        /\ handler'[s].id = i /\ handler'[s].answer = "none"
      BY <1>3, <1>4, <2>1, AdvanceType DEF Stages
  <2>3. docs[i] \in Docs
      BY <1>3 DEF TypeOK
  <2>4. /\ docs' \in [Id -> Docs] /\ \A j \in Id \ {i} : docs'[j] = docs[j]
        /\ docs'[i].by = s /\ ~docs'[i].deleted
      BY <1>3, <1>4, <1>7, <2>3 DEF TypeOK, Docs
  <2> HIDE DEF i
  <2>5. TypeOK'
      BY <1>1, <1>3, <1>5, <2>2, <2>4 DEF TypeOK
  <2>6. OneIsUp' /\ HandlersLive' /\ KeysAreHeld'
      BY <1>1, <1>2, <2>1, <2>2 DEF CreationInv, OneIsUp, HandlersLive, KeysAreHeld, Alive, HasLock
  <2>7. \A t \in Submission : (HasId(t)' <=> HasId(t)) /\ handler'[t].id = handler[t].id /\ handler'[t].rt = handler[t].rt
      BY <1>2, <2>1, <2>2 DEF HasId, i
  <2>8. IdsAreOwned'
      BY <1>1, <2>7 DEF CreationInv, IdsAreOwned
  <2>9. \A t \in Submission \ {s} : HasId(t) => handler[t].id # i /\ handler[t].id \in Id
      BY <1>2, IdsInInv DEF CreationInv, IdsAreOwned, i
  <2>10. DocsAreOwned'
      BY <2>1, <2>2, <2>4, <2>7, <2>9 DEF CreationInv, DocsAreOwned, HasId
  <2>11. \A j \in Id \ {i} : Visible(j)' <=> Visible(j)
      BY <2>4 DEF Visible, Exists
  <2>12. \A j \in Id \ {i} : Visible(j) => KeyOf[docs[j].by] # KeyOf[s]
      BY <1>1 DEF CreationInv, KeysAreFree
  <2>13. KeysAreFree'
    <3> SUFFICES ASSUME NEW t \in Submission, handler'[t].stage \in {"fresh", "reserved", "prepared"},
                        NEW j \in Id, Visible(j)'
                 PROVE  KeyOf[docs'[j].by] # KeyOf[t]
        BY DEF KeysAreFree
    <3>1. t # s /\ HasLock(t) /\ handler[t].stage \in {"fresh", "reserved", "prepared"}
        BY <2>1, <2>2 DEF HasLock, Alive
    <3>2. KeyOf[t] # KeyOf[s]
        BY <1>2, <3>1 DEF CreationInv, KeysAreHeld
    <3>3. CASE j = i
        BY <2>4, <3>2, <3>3
    <3>4. CASE j # i
        BY <2>4, <2>11, <3>1, <3>4 DEF CreationInv, KeysAreFree
    <3> QED
        BY <3>3, <3>4
  <2>14. DocsAreOnePerKey'
    <3> SUFFICES ASSUME NEW j \in Id, NEW k \in Id, Visible(j)', Visible(k)', KeyOf[docs'[j].by] = KeyOf[docs'[k].by]
                 PROVE  j = k
        BY DEF DocsAreOnePerKey
    <3>1. CASE j # i /\ k # i
        BY <2>4, <2>11, <3>1 DEF CreationInv, DocsAreOnePerKey
    <3>2. CASE j = i /\ k # i
        BY <2>4, <2>11, <2>12, <3>2
    <3>3. CASE j # i /\ k = i
        BY <2>4, <2>11, <2>12, <3>3
    <3> QED
        BY <3>1, <3>2, <3>3
  <2>15. DeletedWasThere'
      BY <2>4 DEF CreationInv, DeletedWasThere, Exists
  <2>16. \A t \in Submission : Answered(t)' => Answered(t) /\ t # s /\ handler[t].id # i
      BY <1>2, <2>2 DEF CreationInv, AnswersAreOwned, Answered, i
  <2>17. AnsweredJobsExist'
    <3> SUFFICES ASSUME NEW t \in Submission, Answered(t)'
                 PROVE  Visible(handler[t].id)' /\ KeyOf[docs'[handler'[t].id].by] = KeyOf[t]
        BY DEF AnsweredJobsExist
    <3>1. Visible(handler[t].id) /\ KeyOf[docs[handler[t].id].by] = KeyOf[t] /\ handler[t].id \in Id \ {i}
        BY <2>16 DEF CreationInv, AnsweredJobsExist, AnswersAreOwned
    <3>2. handler'[t].id = handler[t].id /\ docs'[handler[t].id] = docs[handler[t].id]
        BY <2>4, <2>7, <3>1
    <3> QED
        BY <3>1, <3>2 DEF Visible, Exists
  <2>18. AnswersAreOwned'
    <3> SUFFICES ASSUME NEW t \in Submission, Answered(t)'
                 PROVE  /\ handler'[t].id \in Id
                        /\ \A q \in Submission : HasId(q)' => handler'[t].id # handler'[q].id
        BY DEF AnswersAreOwned
    <3> QED
        BY <2>7, <2>16 DEF CreationInv, AnswersAreOwned
  <2> QED
      BY <2>5, <2>6, <2>8, <2>10, <2>13, <2>14, <2>15, <2>17, <2>18 DEF CreationInv
<1>8. \/ Advance(s, "failing") /\ UNCHANGED docs
      \/ docs' = [docs EXCEPT ![i] = [@ EXCEPT !.by = s, !.started = FALSE]] /\ (Advance(s, "created") \/ Advance(s, "failing"))
    BY DEF CreateDoc, Throws
<1> QED
    BY <1>6, <1>7, <1>8

LEMMA RollbackKeeps ==
    ASSUME CreationInv, NEW s \in Submission, Rollback(s)
    PROVE  CreationInv'
PROOF
<1> DEFINE i == handler[s].id
           r == handler[s].rt
<1>1. /\ handler[s].stage = "failing" /\ UNCHANGED <<pushed, mode>> /\ Reply(s, "error", i)
      /\ reserved' = [reserved EXCEPT ![r] = @ \ {i}]
    BY DEF Rollback, At
<1>2. Alive(s) /\ HasLock(s) /\ HasId(s)
    BY <1>1 DEF Alive, HasLock, HasId
<1>3. TypeOK /\ i \in Id /\ r \in Runtime
    BY <1>2, IdsInInv DEF CreationInv
<1>4. faults' \in 0..MaxFaults
    BY <1>3, FaultType DEF Rollback, TypeOK
<1>5. records' \in [Id -> SUBSET Submission] /\ workspace' \in [Id -> Submission \cup {Nobody}]
    BY <1>3 DEF Rollback, Undone, TypeOK
<1>6. docs' = docs \/ docs' = [docs EXCEPT ![i].deleted = @ \/ Exists(i)]
    BY DEF Rollback, Undone
<1>7. docs[i] \in Docs
    BY <1>3 DEF TypeOK
<1>8. /\ docs' \in [Id -> Docs] /\ \A j \in Id : docs'[j].by = docs[j].by
      /\ \A j \in Id \ {i} : docs'[j] = docs[j]
      /\ docs'[i].deleted => docs[i].deleted \/ Exists(i)
      /\ docs[i].deleted => docs'[i].deleted
  <2>1. CASE docs' = docs
      BY <1>3, <2>1 DEF TypeOK
  <2>2. CASE docs' = [docs EXCEPT ![i].deleted = docs[i].deleted \/ Exists(i)]
    <3>1. PICK b \in BOOLEAN : b = (docs[i].deleted \/ Exists(i))
        OBVIOUS
    <3>2. docs' = [docs EXCEPT ![i].deleted = b]
        BY <2>2, <3>1
    <3> QED
        BY <1>3, <3>1, <3>2, MarkDeleted
  <2> QED
      BY <1>6, <2>1, <2>2
<1>9. /\ handler' \in [Submission -> Handlers] /\ \A t \in Submission \ {s} : handler'[t] = handler[t]
      /\ handler'[s].stage = "done" /\ handler'[s].answer = "error"
    BY <1>1, <1>3, ReplyType
<1> HIDE DEF i, r
<1>10. reserved' \in [Runtime -> SUBSET Id]
    BY <1>1, <1>3 DEF TypeOK
<1>11. TypeOK'
    BY <1>1, <1>3, <1>4, <1>5, <1>8, <1>9, <1>10 DEF TypeOK
<1>12. OneIsUp' /\ HandlersLive' /\ KeysAreHeld'
    BY <1>1, <1>9 DEF CreationInv, OneIsUp, HandlersLive, KeysAreHeld, Alive, HasLock
<1>13. \A t \in Submission : HasId(t)' => HasId(t) /\ t # s /\ handler'[t] = handler[t] /\ handler[t].id # i
                                             /\ handler[t].id \in Id /\ handler[t].rt \in Runtime
    BY <1>2, <1>9, IdsInInv DEF CreationInv, IdsAreOwned, HasId, i
<1>14. IdsAreOwned'
  <2> SUFFICES ASSUME NEW t \in Submission, HasId(t)'
               PROVE  /\ handler'[t].id \in reserved'[handler'[t].rt]
                      /\ \A q \in Submission : HasId(q)' /\ handler'[q].id = handler'[t].id => t = q
      BY DEF IdsAreOwned
  <2>1. handler[t].id \in reserved'[handler[t].rt]
      BY <1>1, <1>3, <1>13 DEF CreationInv, IdsAreOwned, TypeOK
  <2> QED
      BY <1>13, <2>1 DEF CreationInv, IdsAreOwned
<1>15. DocsAreOwned'
    BY <1>8, <1>9, <1>13 DEF CreationInv, DocsAreOwned, HasId
<1>16. \A j \in Id : Visible(j)' => Visible(j)
    BY <1>8 DEF Visible, Exists
<1>17. KeysAreFree'
    BY <1>8, <1>9, <1>16 DEF CreationInv, KeysAreFree
<1>18. DocsAreOnePerKey'
    BY <1>8, <1>16 DEF CreationInv, DocsAreOnePerKey
<1>19. DeletedWasThere'
    BY <1>8 DEF CreationInv, DeletedWasThere, Exists
<1>20. \A t \in Submission : Answered(t)' => Answered(t) /\ handler'[t] = handler[t] /\ handler[t].id \in Id \ {i}
    BY <1>2, <1>9 DEF CreationInv, AnswersAreOwned, Answered, i
<1>21. AnsweredJobsExist'
    BY <1>8, <1>20 DEF CreationInv, AnsweredJobsExist, Visible, Exists
<1>22. AnswersAreOwned'
    BY <1>13, <1>20 DEF CreationInv, AnswersAreOwned
<1> QED
    BY <1>11, <1>12, <1>14, <1>15, <1>17, <1>18, <1>19, <1>21, <1>22 DEF CreationInv

(* The queue writes only whether a job has started *)
LEMMA QueueKeeps ==
    ASSUME CreationInv, NEW r \in Runtime, NEW i \in Id, Reconcile(r, i) \/ Claim(r, i)
    PROVE  CreationInv'
PROOF
<1>1. TypeOK /\ docs[i] \in Docs
    BY DEF CreationInv, TypeOK
<1>2. UNCHANGED <<records, workspace, reserved, mode, handler, faults>>
    BY DEF Reconcile, Claim, storeVars
<1>3. docs' = docs \/ docs' = [docs EXCEPT ![i].started = @ \/ Waits(i)]
    BY DEF Reconcile, Claim, storeVars
<1>4. pushed' \in [Runtime -> SUBSET Id]
    BY <1>1 DEF Reconcile, Claim, TypeOK
<1>5. docs' \in [Id -> Docs] /\ \A j \in Id : docs'[j].by = docs[j].by /\ docs'[j].deleted = docs[j].deleted
  <2>1. CASE docs' = docs
      BY <1>1, <2>1 DEF TypeOK
  <2>2. CASE docs' = [docs EXCEPT ![i].started = docs[i].started \/ Waits(i)]
    <3>1. PICK b \in BOOLEAN : b = (docs[i].started \/ Waits(i))
        OBVIOUS
    <3>2. docs' = [docs EXCEPT ![i].started = b]
        BY <2>2, <3>1
    <3> QED
        BY <1>1, <3>2, MarkStarted
  <2> QED
      BY <1>3, <2>1, <2>2
<1>6. TypeOK'
    BY <1>1, <1>2, <1>4, <1>5 DEF TypeOK
<1>7. OneIsUp' /\ HandlersLive' /\ KeysAreHeld' /\ IdsAreOwned'
    BY <1>2 DEF CreationInv, OneIsUp, HandlersLive, KeysAreHeld, IdsAreOwned, Alive, HasLock, HasId
<1>8. \A s \in Submission : HasId(s) => handler[s].id \in Id
    BY IdsInInv
<1>9. DocsAreOwned'
    BY <1>2, <1>5, <1>8 DEF CreationInv, DocsAreOwned, HasId
<1>10. KeysAreFree' /\ DocsAreOnePerKey' /\ DeletedWasThere'
    BY <1>2, <1>5 DEF CreationInv, KeysAreFree, DocsAreOnePerKey, DeletedWasThere, Visible, Exists
<1>11. AnsweredJobsExist' /\ AnswersAreOwned'
    BY <1>2, <1>5 DEF CreationInv, AnsweredJobsExist, AnswersAreOwned, Answered, HasId, Visible, Exists
<1> QED
    BY <1>6, <1>7, <1>9, <1>10, <1>11 DEF CreationInv

LEMMA StartKeeps ==
    ASSUME CreationInv, ~Overlapping, NEW r \in Runtime, Start(r)
    PROVE  CreationInv'
PROOF
<1>1. /\ \A o \in Runtime : mode[o] # "up"
      /\ mode' = [mode EXCEPT ![r] = "up"] /\ UNCHANGED <<docs, records, workspace, reserved, pushed, handler, faults>>
    BY DEF Start, storeVars
<1>2. TypeOK'
    BY <1>1 DEF CreationInv, TypeOK
<1>3. OneIsUp'
    BY <1>1 DEF CreationInv, TypeOK, OneIsUp
<1>4. HandlersLive' /\ KeysAreHeld' /\ IdsAreOwned'
    BY <1>1 DEF CreationInv, HandlersLive, KeysAreHeld, IdsAreOwned, Alive, HasLock, HasId
<1>5. DocsAreOwned' /\ KeysAreFree' /\ DocsAreOnePerKey' /\ DeletedWasThere'
    BY <1>1 DEF CreationInv, DocsAreOwned, KeysAreFree, DocsAreOnePerKey, DeletedWasThere, Visible, Exists
<1>6. AnsweredJobsExist' /\ AnswersAreOwned'
    BY <1>1 DEF CreationInv, AnsweredJobsExist, AnswersAreOwned, Answered, HasId, Visible, Exists
<1> QED
    BY <1>2, <1>3, <1>4, <1>5, <1>6 DEF CreationInv

(* With its runtime die all the handlers there are *)
LEMMA CrashKeeps ==
    ASSUME CreationInv, NEW r \in Runtime, Crash(r)
    PROVE  CreationInv'
PROOF
<1>1. /\ mode[r] = "up" /\ mode' = [mode EXCEPT ![r] = "dead"]
      /\ reserved' = [reserved EXCEPT ![r] = {}] /\ pushed' = [pushed EXCEPT ![r] = {}]
      /\ handler' = [s \in Submission |->
                       IF handler[s].rt = r /\ handler[s].stage # "done"
                       THEN [handler[s] EXCEPT !.stage = "dead"] ELSE handler[s]]
      /\ UNCHANGED <<docs, records, workspace, faults>>
    BY DEF Crash, storeVars
<1>2. handler' \in [Submission -> Handlers]
    BY <1>1 DEF CreationInv, TypeOK, Handlers, Stages
<1>3. \A s \in Submission : handler'[s].rt = handler[s].rt /\ handler'[s].id = handler[s].id /\ handler'[s].answer = handler[s].answer
                            /\ handler'[s].stage \in {handler[s].stage, "dead"}
    BY <1>1 DEF CreationInv, TypeOK, Handlers
<1>4. \A s \in Submission : ~Alive(s)' /\ (handler[s].stage = "done" => handler'[s].stage = "done")
  <2> SUFFICES ASSUME NEW s \in Submission
               PROVE  ~Alive(s)' /\ (handler[s].stage = "done" => handler'[s].stage = "done")
      OBVIOUS
  <2>1. Alive(s) => handler[s].rt = r
      BY <1>1 DEF CreationInv, HandlersLive, OneIsUp
  <2> QED
      BY <1>1, <2>1 DEF CreationInv, TypeOK, Handlers, Alive
<1>5. TypeOK'
    BY <1>1, <1>2 DEF CreationInv, TypeOK
<1>6. OneIsUp'
    BY <1>1 DEF CreationInv, TypeOK, OneIsUp
<1>7. HandlersLive'
    BY <1>3, <1>4 DEF CreationInv, HandlersLive
<1>8. KeysAreHeld' /\ IdsAreOwned' /\ DocsAreOwned' /\ KeysAreFree'
    BY <1>4 DEF KeysAreHeld, IdsAreOwned, DocsAreOwned, KeysAreFree, Alive, HasLock, HasId
<1>9. DocsAreOnePerKey' /\ DeletedWasThere'
    BY <1>1 DEF CreationInv, DocsAreOnePerKey, DeletedWasThere, Visible, Exists
<1>10. AnsweredJobsExist'
    BY <1>1, <1>3 DEF CreationInv, AnsweredJobsExist, Answered, Visible, Exists
<1>11. AnswersAreOwned'
    BY <1>3, <1>4 DEF CreationInv, AnswersAreOwned, Answered, HasId, Alive
<1> QED
    BY <1>5, <1>6, <1>7, <1>8, <1>9, <1>10, <1>11 DEF CreationInv

-----------------------------------------------------------------------------
LEMMA CreationGoesOn ==
    ASSUME CreationInv, ~Overlapping, [Next]_vars
    PROVE  CreationInv'
PROOF
<1>1. CASE UNCHANGED vars
    BY <1>1 DEF vars, CreationInv, TypeOK, OneIsUp, HandlersLive, KeysAreHeld, IdsAreOwned, DocsAreOwned, KeysAreFree,
        DocsAreOnePerKey, DeletedWasThere, AnsweredJobsExist, AnswersAreOwned, Alive, HasLock, HasId, Visible, Exists, Answered
<1>2. ASSUME NEW s \in Submission, NEW r \in Runtime, Receive(s, r)
      PROVE  CreationInv'
    BY <1>2, ReceiveKeeps
<1>3. ASSUME NEW s \in Submission,
             Enter(s) \/ Lookup(s) \/ ReserveId(s) \/ Prepare(s) \/ CreateDoc(s)
                 \/ InsertRecords(s) \/ Enqueue(s) \/ Publish(s) \/ Rollback(s)
      PROVE  CreationInv'
    BY <1>3, EnterKeeps, LookupKeeps, ReserveIdKeeps, PrepareKeeps, CreateDocKeeps, InsertRecordsKeeps, EnqueueKeeps,
        PublishKeeps, RollbackKeeps
<1>4. ASSUME NEW r \in Runtime, Start(r) \/ Crash(r)
      PROVE  CreationInv'
    BY <1>4, StartKeeps, CrashKeeps
<1>5. ASSUME NEW r \in Runtime, NEW i \in Id, Reconcile(r, i) \/ Claim(r, i)
      PROVE  CreationInv'
    BY <1>5, QueueKeeps
<1> QED
    BY <1>1, <1>2, <1>3, <1>4, <1>5 DEF Next

LEMMA StepsOfCreation == [ServicesNext]_servicesVars => [Next]_vars
PROOF
BY DEF ServicesNext, servicesVars, creationVars

LEMMA CreationHolds == ~Overlapping /\ ServicesSpec => []CreationInv
PROOF
<1>1. ServicesInit => CreationInv
    BY CreationBegins DEF ServicesInit
<1>2. ~Overlapping /\ CreationInv /\ [ServicesNext]_servicesVars => CreationInv'
    BY CreationGoesOn, StepsOfCreation
<1>3. CASE ~Overlapping
  <2>1. CreationInv /\ [ServicesNext]_servicesVars => CreationInv'
      BY <1>2, <1>3
  <2> QED
      BY <1>1, <2>1, PTL DEF ServicesSpec
<1> QED
    BY <1>3

(* However often a client sends a request, to however many runtimes of which one serves at a *)
(* time, and whichever calls fail, all the answers its requests get name one job.            *)
THEOREM KeysNameOneJob == ~Overlapping /\ ServicesSpec => []OneJobPerKey
PROOF
<1>1. CreationInv => OneJobPerKey
    BY DEF CreationInv, OneJobPerKey, AnsweredJobsExist, AnswersAreOwned, DocsAreOnePerKey
<1> QED
    BY <1>1, CreationHolds, PTL

(* A job whose creation was answered stays there, for any number of failed creations beside it. *)
THEOREM AnswersStayTrue == ~Overlapping /\ ServicesSpec => []AnsweredJobsExist
PROOF
<1>1. CreationInv => AnsweredJobsExist
    BY DEF CreationInv
<1> QED
    BY <1>1, CreationHolds, PTL

-----------------------------------------------------------------------------
(* What a creation that fails leaves behind, when the clean-up itself does not fail *)

Filled == {"prepared", "created", "recorded", "queued"}

HasTraces(s, i) == s \in records[i] \/ (docs[i].by = s /\ ~docs[i].deleted)

MayLeaveTraces(s, i) == \/ handler[s].stage = "dead" \/ handler[s].answer = "created"
                        \/ HasId(s) /\ handler[s].id = i

LeavesInv ==
    /\ \A s \in Submission : handler[s].stage = "failing" => faults >= 1
    /\ \A s \in Submission : handler[s].stage \in Filled => workspace[handler[s].id] = s
    /\ \A i \in Id : Visible(i) => workspace[i] = docs[i].by
    /\ \A s \in Submission, i \in Id : HasTraces(s, i) => MayLeaveTraces(s, i)

LEMMA LeavesBegin == Init => LeavesInv
PROOF
BY NobodyAssumption DEF Init, LeavesInv, Visible, Exists, HasTraces, Filled

(* A handler that goes on without a change of the store *)
LEMMA RestKeepsLeaves ==
    ASSUME CreationInv, LeavesInv, NEW s \in Submission, NEW stage \in Stages, Advance(s, stage),
           Alive(s), UNCHANGED <<docs, records, workspace>>, faults' \in Nat, faults' >= faults,
           stage = "failing" => faults' >= 1, stage \in Filled => handler[s].stage \in Filled,
           HasId(s) => stage \in Filled \cup {"reserved", "failing"}
    PROVE  LeavesInv'
PROOF
<1>1. /\ \A t \in Submission \ {s} : handler'[t] = handler[t]
      /\ handler'[s].stage = stage /\ handler'[s].id = handler[s].id /\ handler'[s].answer = handler[s].answer
    BY AdvanceType DEF CreationInv
<1> QED
    BY <1>1 DEF CreationInv, TypeOK, LeavesInv, Visible, Exists, HasTraces, MayLeaveTraces, HasId, Alive, Filled

LEMMA FaultCounts == TypeOK /\ (Fault \/ UNCHANGED faults) => faults' \in Nat /\ faults' >= faults /\ (Fault => faults' >= 1)
PROOF
BY OverlappingAssumption DEF TypeOK, Fault

LEMMA ReceiveKeepsLeaves ==
    ASSUME CreationInv, LeavesInv, NEW s \in Submission, NEW r \in Runtime, Receive(s, r)
    PROVE  LeavesInv'
PROOF
<1>1. /\ \A t \in Submission \ {s} : handler'[t] = handler[t]
      /\ handler[s].stage = "idle" /\ handler'[s].stage = "waiting" /\ handler'[s].answer = handler[s].answer
      /\ UNCHANGED <<docs, records, workspace, faults>>
    BY DEF Receive, CreationInv, TypeOK, Handlers, storeVars
<1> QED
    BY <1>1 DEF LeavesInv, Visible, Exists, HasTraces, MayLeaveTraces, HasId, Filled

LEMMA WaitingKeepsLeaves ==
    ASSUME CreationInv, LeavesInv, NEW s \in Submission, Enter(s) \/ Lookup(s) \/ ReserveId(s)
    PROVE  LeavesInv'
PROOF
<1>1. /\ handler[s].stage \in {"waiting", "locked", "fresh"} /\ UNCHANGED <<docs, records, workspace, faults>>
    BY DEF Enter, Lookup, ReserveId, At, storeVars
<1>2. TypeOK /\ Alive(s) /\ ~HasId(s) /\ handler[s].answer = "none"
    BY <1>1 DEF CreationInv, HandlersLive, Alive, HasId
<1>3. \A i \in Id : ~HasTraces(s, i)
    BY <1>1, <1>2 DEF LeavesInv, MayLeaveTraces
<1>4. /\ \A t \in Submission \ {s} : handler'[t] = handler[t]
      /\ handler'[s].stage \in {"locked", "fresh", "reserved", "done"}
  <2>1. CASE Enter(s)
      BY <1>2, <2>1 DEF Enter, Advance, TypeOK, Handlers
  <2>2. ASSUME NEW answer \in {"replayed", "error"}, NEW id \in Id \cup {Nobody}, Reply(s, answer, id)
        PROVE  (\A t \in Submission \ {s} : handler'[t] = handler[t]) /\ handler'[s].stage = "done"
      BY <1>2, <2>2, ReplyType
  <2>3. CASE Advance(s, "fresh")
      BY <1>2, <2>3, AdvanceType DEF Stages
  <2>4. ASSUME NEW i \in Id, handler' = [handler EXCEPT ![s] = [@ EXCEPT !.stage = "reserved", !.id = i]]
        PROVE  (\A t \in Submission \ {s} : handler'[t] = handler[t]) /\ handler'[s].stage = "reserved"
      BY <1>2, <2>4 DEF TypeOK, Handlers
  <2> QED
      BY <2>1, <2>2, <2>3, <2>4 DEF Lookup, ReserveId
<1> QED
    BY <1>1, <1>3, <1>4 DEF LeavesInv, Visible, Exists, HasTraces, MayLeaveTraces, HasId, Filled

LEMMA PrepareKeepsLeaves ==
    ASSUME CreationInv, LeavesInv, NEW s \in Submission, Prepare(s)
    PROVE  LeavesInv'
PROOF
<1> DEFINE i == handler[s].id
<1>1. handler[s].stage = "reserved" /\ UNCHANGED <<docs, records>>
    BY DEF Prepare, At, storeVars
<1>2. TypeOK /\ Alive(s) /\ HasId(s) /\ i \in Id /\ ~Visible(i)
    BY <1>1, IdsInInv DEF CreationInv, DocsAreOwned, HasId, Visible, Exists
<1>3. PICK stage \in {"prepared", "failing"} :
          /\ Advance(s, stage) /\ (stage = "failing" => Fault) /\ (Fault \/ UNCHANGED faults)
          /\ workspace' = [workspace EXCEPT ![i] = s] \/ (UNCHANGED workspace /\ stage = "failing")
    BY DEF Prepare, Throws, storeVars
<1>4. faults' \in Nat /\ faults' >= faults /\ (stage = "failing" => faults' >= 1)
    BY <1>2, <1>3, FaultCounts
<1>5. CASE UNCHANGED workspace /\ stage = "failing"
    BY <1>1, <1>2, <1>3, <1>4, <1>5, RestKeepsLeaves DEF Stages, Filled
<1>6. CASE workspace' = [workspace EXCEPT ![i] = s]
  <2>1. /\ \A t \in Submission \ {s} : handler'[t] = handler[t]
        /\ handler'[s].stage = stage /\ handler'[s].id = i /\ handler'[s].answer = handler[s].answer
      BY <1>2, <1>3, AdvanceType DEF Stages
  <2>2. workspace'[i] = s /\ \A j \in Id \ {i} : workspace'[j] = workspace[j]
      BY <1>2, <1>6 DEF TypeOK
  <2>3. \A t \in Submission \ {s} : HasId(t) => handler[t].id \in Id \ {i}
      BY <1>2, IdsInInv DEF CreationInv, IdsAreOwned
  <2> HIDE DEF i
  <2>4. \A t \in Submission : handler'[t].stage = "failing" => faults' >= 1
      BY <1>2, <1>4, <2>1 DEF LeavesInv, TypeOK
  <2>5. \A t \in Submission : handler'[t].stage \in Filled => workspace'[handler'[t].id] = t
      BY <2>1, <2>2, <2>3 DEF LeavesInv, HasId, Filled
  <2>6. \A j \in Id : Visible(j)' => workspace'[j] = docs'[j].by
      BY <1>1, <1>2, <2>2 DEF LeavesInv, Visible, Exists
  <2>7. \A t \in Submission, j \in Id : HasTraces(t, j)' => MayLeaveTraces(t, j)'
      BY <1>1, <1>2, <1>3, <2>1 DEF LeavesInv, HasTraces, MayLeaveTraces, HasId, i
  <2> QED
      BY <2>4, <2>5, <2>6, <2>7 DEF LeavesInv
<1> QED
    BY <1>3, <1>5, <1>6

LEMMA CreateDocKeepsLeaves ==
    ASSUME CreationInv, LeavesInv, NEW s \in Submission, CreateDoc(s)
    PROVE  LeavesInv'
PROOF
<1> DEFINE i == handler[s].id
<1>1. handler[s].stage = "prepared" /\ UNCHANGED <<records, workspace>>
    BY DEF CreateDoc, At
<1>2. TypeOK /\ Alive(s) /\ HasId(s) /\ i \in Id /\ ~Exists(i) /\ workspace[i] = s
    BY <1>1, IdsInInv DEF CreationInv, DocsAreOwned, HasId, Exists, LeavesInv, Filled
<1>3. PICK stage \in {"created", "failing"} : Advance(s, stage) /\ (stage = "failing" => Fault) /\ (Fault \/ UNCHANGED faults)
    BY <1>2 DEF CreateDoc, Throws
<1>4. faults' \in Nat /\ faults' >= faults /\ (stage = "failing" => faults' >= 1)
    BY <1>2, <1>3, FaultCounts
<1>5. CASE UNCHANGED docs
    BY <1>1, <1>2, <1>3, <1>4, <1>5, RestKeepsLeaves DEF Stages, Filled
<1>6. CASE docs' = [docs EXCEPT ![i] = [@ EXCEPT !.by = s, !.started = FALSE]]
  <2>1. /\ \A t \in Submission \ {s} : handler'[t] = handler[t]
        /\ handler'[s].stage = stage /\ handler'[s].id = i /\ handler'[s].answer = handler[s].answer
      BY <1>2, <1>3, AdvanceType DEF Stages
  <2>2. docs[i] \in Docs
      BY <1>2 DEF TypeOK
  <2>3. docs'[i].by = s /\ \A j \in Id \ {i} : docs'[j] = docs[j]
      BY <1>2, <1>6, <2>2 DEF TypeOK, Docs
  <2> HIDE DEF i
  <2>4. \A t \in Submission : handler'[t].stage = "failing" => faults' >= 1
      BY <1>2, <1>4, <2>1 DEF LeavesInv, TypeOK
  <2>5. \A t \in Submission : handler'[t].stage \in Filled => workspace'[handler'[t].id] = t
      BY <1>1, <1>2, <2>1 DEF LeavesInv, Filled
  <2>6. \A j \in Id : Visible(j)' => workspace'[j] = docs'[j].by
      BY <1>1, <1>2, <2>3 DEF LeavesInv, Visible, Exists
  <2>7. \A t \in Submission, j \in Id : HasTraces(t, j)' => MayLeaveTraces(t, j)'
    <3> SUFFICES ASSUME NEW t \in Submission, NEW j \in Id, HasTraces(t, j)'
                 PROVE  MayLeaveTraces(t, j)'
        OBVIOUS
    <3>1. CASE HasTraces(t, j)
        BY <1>1, <1>2, <2>1, <3>1 DEF LeavesInv, MayLeaveTraces, HasId, i
    <3>2. CASE t = s /\ j = i
        BY <2>1, <3>2 DEF MayLeaveTraces, HasId
    <3> QED
        BY <1>1, <2>3, <3>1, <3>2 DEF HasTraces
  <2> QED
      BY <2>4, <2>5, <2>6, <2>7 DEF LeavesInv
<1> QED
    BY <1>5, <1>6 DEF CreateDoc

LEMMA InsertRecordsKeepsLeaves ==
    ASSUME CreationInv, LeavesInv, NEW s \in Submission, InsertRecords(s)
    PROVE  LeavesInv'
PROOF
<1> DEFINE i == handler[s].id
<1>1. handler[s].stage = "created" /\ UNCHANGED <<docs, workspace>>
    BY DEF InsertRecords, At
<1>2. TypeOK /\ Alive(s) /\ HasId(s) /\ i \in Id /\ workspace[i] = s
    BY <1>1, IdsInInv DEF CreationInv, HasId, LeavesInv, Filled
<1>3. PICK stage \in {"recorded", "failing"} : Advance(s, stage) /\ (stage = "failing" => Fault) /\ (Fault \/ UNCHANGED faults)
    BY DEF InsertRecords, Throws
<1>4. faults' \in Nat /\ faults' >= faults /\ (stage = "failing" => faults' >= 1)
    BY <1>2, <1>3, FaultCounts
<1>5. CASE UNCHANGED records
    BY <1>1, <1>2, <1>3, <1>4, <1>5, RestKeepsLeaves DEF Stages, Filled
<1>6. CASE records' = [records EXCEPT ![i] = @ \cup {s}]
  <2>1. /\ \A t \in Submission \ {s} : handler'[t] = handler[t]
        /\ handler'[s].stage = stage /\ handler'[s].id = i /\ handler'[s].answer = handler[s].answer
      BY <1>2, <1>3, AdvanceType DEF Stages
  <2>2. records'[i] = records[i] \cup {s} /\ \A j \in Id \ {i} : records'[j] = records[j]
      BY <1>2, <1>6 DEF TypeOK
  <2> HIDE DEF i
  <2>3. \A t \in Submission : handler'[t].stage = "failing" => faults' >= 1
      BY <1>2, <1>4, <2>1 DEF LeavesInv, TypeOK
  <2>4. \A t \in Submission : handler'[t].stage \in Filled => workspace'[handler'[t].id] = t
      BY <1>1, <1>2, <2>1 DEF LeavesInv, Filled
  <2>5. \A j \in Id : Visible(j)' => workspace'[j] = docs'[j].by
      BY <1>1 DEF LeavesInv, Visible, Exists
  <2>6. \A t \in Submission, j \in Id : HasTraces(t, j)' => MayLeaveTraces(t, j)'
    <3> SUFFICES ASSUME NEW t \in Submission, NEW j \in Id, HasTraces(t, j)'
                 PROVE  MayLeaveTraces(t, j)'
        OBVIOUS
    <3>1. CASE HasTraces(t, j)
        BY <1>1, <1>2, <2>1, <3>1 DEF LeavesInv, MayLeaveTraces, HasId, i
    <3>2. CASE t = s /\ j = i
        BY <2>1, <3>2 DEF MayLeaveTraces, HasId
    <3> QED
        BY <1>1, <2>2, <3>1, <3>2 DEF HasTraces
  <2> QED
      BY <2>3, <2>4, <2>5, <2>6 DEF LeavesInv
<1> QED
    BY <1>5, <1>6 DEF InsertRecords

LEMMA QueueingKeepsLeaves ==
    ASSUME CreationInv, LeavesInv, NEW s \in Submission, Enqueue(s) \/ Publish(s)
    PROVE  LeavesInv'
PROOF
<1>1. handler[s].stage \in {"recorded", "queued"} /\ UNCHANGED <<docs, records, workspace>>
    BY DEF Enqueue, Publish, At, storeVars
<1>2. TypeOK /\ Alive(s) /\ HasId(s) /\ handler[s].id \in Id
    BY <1>1, IdsInInv DEF CreationInv, HasId
<1>3. CASE Advance(s, "queued") /\ UNCHANGED faults
    BY <1>1, <1>2, <1>3, FaultCounts, RestKeepsLeaves DEF Stages, Filled
<1>4. CASE Throws(s)
    BY <1>1, <1>2, <1>4, FaultCounts, RestKeepsLeaves DEF Throws, Stages, Filled
<1>5. CASE Reply(s, "created", handler[s].id) /\ UNCHANGED faults
  <2>1. /\ \A t \in Submission \ {s} : handler'[t] = handler[t]
        /\ handler'[s].stage = "done" /\ handler'[s].answer = "created"
      BY <1>2, <1>5, ReplyType
  <2> QED
      BY <1>1, <1>5, <2>1 DEF LeavesInv, Visible, Exists, HasTraces, MayLeaveTraces, HasId, Filled
<1> QED
    BY <1>3, <1>4, <1>5 DEF Enqueue, Publish

(* One fault was the creation's, so the clean-up has none *)
LEMMA RollbackKeepsLeaves ==
    ASSUME CreationInv, LeavesInv, MaxFaults <= 1, NEW s \in Submission, Rollback(s)
    PROVE  LeavesInv'
PROOF
<1> DEFINE i == handler[s].id
<1>1. handler[s].stage = "failing" /\ Reply(s, "error", i)
    BY DEF Rollback, At
<1>2. TypeOK /\ Alive(s) /\ HasId(s) /\ i \in Id /\ docs[i] \in Docs
    BY <1>1, IdsInInv DEF CreationInv, HasId, TypeOK
<1>3. Undone(i) /\ UNCHANGED faults
    BY <1>1, <1>2, OverlappingAssumption DEF Rollback, Fault, LeavesInv, TypeOK
<1>4. /\ \A t \in Submission \ {s} : handler'[t] = handler[t]
      /\ handler'[s].stage = "done" /\ handler'[s].answer = "error"
    BY <1>1, <1>2, ReplyType
<1>5. /\ \A j \in Id \ {i} : docs'[j] = docs[j] /\ records'[j] = records[j] /\ workspace'[j] = workspace[j]
      /\ docs'[i].by = docs[i].by /\ (docs'[i].deleted \/ docs[i].by = Nobody) /\ records'[i] = {}
  <2>1. PICK b \in BOOLEAN : b = (docs[i].deleted \/ Exists(i))
      OBVIOUS
  <2>2. docs' = [docs EXCEPT ![i].deleted = b]
      BY <1>3, <2>1 DEF Undone
  <2>3. /\ \A j \in Id \ {i} : docs'[j] = docs[j]
        /\ docs'[i].by = docs[i].by /\ docs'[i].deleted = b
      BY <1>2, <2>2, MarkDeleted
  <2> QED
      BY <1>2, <1>3, <2>1, <2>3 DEF Undone, TypeOK, Exists
<1>6. \A t \in Submission \ {s} : HasId(t) => handler[t].id \in Id \ {i}
    BY <1>2, IdsInInv DEF CreationInv, IdsAreOwned
<1> HIDE DEF i
<1>7. \A t \in Submission : handler'[t].stage = "failing" => faults' >= 1
    BY <1>3, <1>4 DEF LeavesInv
<1>8. \A t \in Submission : handler'[t].stage \in Filled => workspace'[handler'[t].id] = t
    BY <1>4, <1>5, <1>6 DEF LeavesInv, HasId, Filled
<1>9. \A j \in Id : Visible(j)' => workspace'[j] = docs'[j].by
    BY <1>5 DEF LeavesInv, Visible, Exists
<1>10. \A t \in Submission, j \in Id : HasTraces(t, j)' => MayLeaveTraces(t, j)'
  <2> SUFFICES ASSUME NEW t \in Submission, NEW j \in Id, HasTraces(t, j)'
               PROVE  MayLeaveTraces(t, j)'
      OBVIOUS
  <2>1. j # i /\ HasTraces(t, j)
      BY <1>5, NobodyAssumption DEF HasTraces
  <2>2. t # s
      BY <1>1, <2>1 DEF LeavesInv, MayLeaveTraces, CreationInv, HandlersLive, i
  <2> QED
      BY <1>4, <2>1, <2>2 DEF LeavesInv, MayLeaveTraces, HasId
<1> QED
    BY <1>7, <1>8, <1>9, <1>10 DEF LeavesInv

LEMMA RuntimesKeepLeaves ==
    ASSUME CreationInv, LeavesInv, NEW r \in Runtime, Start(r) \/ Crash(r)
    PROVE  LeavesInv'
PROOF
<1>1. UNCHANGED <<docs, records, workspace, faults>>
    BY DEF Start, Crash, storeVars
<1>2. \A t \in Submission : handler'[t] = handler[t] \/ (handler'[t].stage = "dead" /\ handler[t].stage # "done")
    BY DEF CreationInv, TypeOK, Handlers, Start, Crash
<1> QED
    BY <1>1, <1>2 DEF LeavesInv, Visible, Exists, HasTraces, MayLeaveTraces, HasId, Filled

LEMMA QueueKeepsLeaves ==
    ASSUME CreationInv, LeavesInv, NEW r \in Runtime, NEW i \in Id, Reconcile(r, i) \/ Claim(r, i)
    PROVE  LeavesInv'
PROOF
<1>1. UNCHANGED <<records, workspace, handler, faults>>
    BY DEF Reconcile, Claim, storeVars
<1>2. \A j \in Id : docs'[j].by = docs[j].by /\ docs'[j].deleted = docs[j].deleted
  <2>1. docs' = docs \/ docs' = [docs EXCEPT ![i].started = docs[i].started \/ Waits(i)]
      BY DEF Reconcile, Claim, storeVars
  <2>2. PICK b \in BOOLEAN : b = (docs[i].started \/ Waits(i))
      OBVIOUS
  <2> QED
      BY <2>1, <2>2, MarkStarted DEF CreationInv
<1> QED
    BY <1>1, <1>2 DEF LeavesInv, Visible, Exists, HasTraces, MayLeaveTraces, HasId, Filled

LEMMA LeavesGoOn ==
    ASSUME CreationInv, LeavesInv, MaxFaults <= 1, [Next]_vars
    PROVE  LeavesInv'
PROOF
<1>1. CASE UNCHANGED vars
    BY <1>1 DEF vars, LeavesInv, Visible, Exists, HasTraces, MayLeaveTraces, HasId, Filled
<1>2. ASSUME NEW s \in Submission, NEW r \in Runtime, Receive(s, r)
      PROVE  LeavesInv'
    BY <1>2, ReceiveKeepsLeaves
<1>3. ASSUME NEW s \in Submission,
             Enter(s) \/ Lookup(s) \/ ReserveId(s) \/ Prepare(s) \/ CreateDoc(s)
                 \/ InsertRecords(s) \/ Enqueue(s) \/ Publish(s) \/ Rollback(s)
      PROVE  LeavesInv'
    BY <1>3, WaitingKeepsLeaves, PrepareKeepsLeaves, CreateDocKeepsLeaves, InsertRecordsKeepsLeaves,
        QueueingKeepsLeaves, RollbackKeepsLeaves
<1>4. ASSUME NEW r \in Runtime, Start(r) \/ Crash(r)
      PROVE  LeavesInv'
    BY <1>4, RuntimesKeepLeaves
<1>5. ASSUME NEW r \in Runtime, NEW i \in Id, Reconcile(r, i) \/ Claim(r, i)
      PROVE  LeavesInv'
    BY <1>5, QueueKeepsLeaves
<1> QED
    BY <1>1, <1>2, <1>3, <1>4, <1>5 DEF Next

LEMMA LeavesHold == ~Overlapping /\ MaxFaults <= 1 /\ ServicesSpec => [](CreationInv /\ LeavesInv)
PROOF
<1>1. ServicesInit => LeavesInv
    BY LeavesBegin DEF ServicesInit
<1>2. CASE ~Overlapping /\ MaxFaults <= 1
  <2>1. CreationInv /\ LeavesInv /\ [ServicesNext]_servicesVars => LeavesInv'
      BY <1>2, LeavesGoOn, StepsOfCreation
  <2>2. ServicesSpec => []CreationInv
      BY <1>2, CreationHolds
  <2> QED
      BY <1>1, <2>1, <2>2, PTL DEF ServicesSpec
<1> QED
    BY <1>2

(* A job that is started has its own inputs in its folder, wherever the one call that may fail *)
(* fails: with a second failure a rollback may delete the folder and leave the document.       *)
THEOREM StartedJobsAreFilled == ~Overlapping /\ MaxFaults <= 1 /\ ServicesSpec => []StartedJobsHaveInputs
PROOF
<1>1. LeavesInv => StartedJobsHaveInputs
    BY DEF LeavesInv, StartedJobsHaveInputs
<1> QED
    BY <1>1, LeavesHold, PTL

(* A creation that was answered with an error has left nothing that could run, wherever it failed, *)
(* if its clean-up did not fail as well.                                                          *)
THEOREM RejectedIsUndone == ~Overlapping /\ MaxFaults <= 1 /\ ServicesSpec => []RejectedLeavesNothing
PROOF
<1>1. CreationInv /\ LeavesInv => RejectedLeavesNothing
    BY DEF CreationInv, HandlersLive, LeavesInv, HasTraces, MayLeaveTraces, HasId, RejectedLeavesNothing
<1> QED
    BY <1>1, LeavesHold, PTL

-----------------------------------------------------------------------------
(* The types of creation, whether or not runtimes overlap: from the reservation to the *)
(* rollback a handler has an ID, and once received it has a runtime.                   *)
HandlersAreBound ==
    \A s \in Submission : /\ HasId(s) => handler[s].id \in Id
                          /\ handler[s].stage # "idle" => handler[s].rt \in Runtime

LEMMA BoundBegin == Init => HandlersAreBound
PROOF
BY DEF Init, HandlersAreBound, HasId

(* A step of one handler *)
LEMMA BoundGoesOn ==
    ASSUME TypeOK, HandlersAreBound, NEW s \in Submission, \A t \in Submission \ {s} : handler'[t] = handler[t],
           HasId(s)' => handler'[s].id \in Id, handler'[s].rt \in Runtime
    PROVE  HandlersAreBound'
PROOF
BY DEF HandlersAreBound, HasId

LEMMA FaultsCount == TypeOK /\ (Fault \/ UNCHANGED faults) => faults' \in 0..MaxFaults
PROOF
BY OverlappingAssumption DEF TypeOK, Fault

LEMMA AdvanceKeeps ==
    ASSUME TypeOK, HandlersAreBound, NEW s \in Submission, NEW stage \in Stages, Advance(s, stage),
           handler[s].stage # "idle",
           HasId(s) \/ stage \in {"waiting", "locked", "fresh"},
           docs' \in [Id -> Docs], records' \in [Id -> SUBSET Submission], workspace' \in [Id -> Submission \cup {Nobody}],
           pushed' \in [Runtime -> SUBSET Id], UNCHANGED <<reserved, mode>>, Fault \/ UNCHANGED faults
    PROVE  TypeOK' /\ HandlersAreBound'
PROOF
<1>1. /\ handler' \in [Submission -> Handlers]
      /\ \A t \in Submission \ {s} : handler'[t] = handler[t]
      /\ handler'[s].stage = stage /\ handler'[s].rt = handler[s].rt /\ handler'[s].id = handler[s].id
    BY AdvanceType
<1>2. handler[s].rt \in Runtime /\ (HasId(s) => handler[s].id \in Id)
    BY DEF HandlersAreBound
<1>3. HandlersAreBound'
    BY <1>1, <1>2, BoundGoesOn DEF HasId
<1> QED BY <1>1, <1>3, FaultsCount DEF TypeOK

LEMMA ReplyKeeps ==
    ASSUME TypeOK, HandlersAreBound, NEW s \in Submission, NEW answer \in {"created", "replayed", "error"},
           NEW id \in Id \cup {Nobody}, Reply(s, answer, id), handler[s].stage # "idle",
           docs' \in [Id -> Docs], records' \in [Id -> SUBSET Submission], workspace' \in [Id -> Submission \cup {Nobody}],
           reserved' \in [Runtime -> SUBSET Id], UNCHANGED <<pushed, mode>>, Fault \/ UNCHANGED faults
    PROVE  TypeOK' /\ HandlersAreBound'
PROOF
<1>1. /\ handler' \in [Submission -> Handlers]
      /\ \A t \in Submission \ {s} : handler'[t] = handler[t]
      /\ handler'[s].stage = "done" /\ handler'[s].rt = handler[s].rt
    BY ReplyType
<1>2. handler[s].rt \in Runtime
    BY DEF HandlersAreBound
<1>3. HandlersAreBound'
    BY <1>1, <1>2, BoundGoesOn DEF HasId
<1> QED BY <1>1, <1>3, FaultsCount DEF TypeOK

LEMMA CreationTypesGoOn == TypeOK /\ HandlersAreBound /\ [Next]_vars => TypeOK' /\ HandlersAreBound'
PROOF
<1> SUFFICES ASSUME TypeOK, HandlersAreBound, [Next]_vars PROVE TypeOK' /\ HandlersAreBound'
    OBVIOUS
<1>0. /\ docs \in [Id -> Docs] /\ records \in [Id -> SUBSET Submission]
      /\ workspace \in [Id -> Submission \cup {Nobody}]
      /\ reserved \in [Runtime -> SUBSET Id] /\ pushed \in [Runtime -> SUBSET Id]
      /\ mode \in [Runtime -> {"off", "up", "dead"}] /\ handler \in [Submission -> Handlers] /\ faults \in 0..MaxFaults
    BY DEF TypeOK
<1>1. ASSUME NEW s \in Submission, NEW r \in Runtime, Receive(s, r)
      PROVE  TypeOK' /\ HandlersAreBound'
    <2>1. /\ handler' \in [Submission -> Handlers] /\ \A t \in Submission \ {s} : handler'[t] = handler[t]
          /\ handler'[s].stage = "waiting" /\ handler'[s].rt = r
        BY <1>0, <1>1 DEF Receive, Handlers, Stages
    <2>2. HandlersAreBound'
        BY <2>1, BoundGoesOn DEF HasId
    <2> QED BY <1>0, <1>1, <2>1, <2>2 DEF Receive, storeVars, TypeOK
<1>2. ASSUME NEW s \in Submission, Enter(s)
      PROVE  TypeOK' /\ HandlersAreBound'
    BY <1>0, <1>2, AdvanceKeeps DEF Enter, At, storeVars, Stages
<1>3. ASSUME NEW s \in Submission, Lookup(s)
      PROVE  TypeOK' /\ HandlersAreBound'
    BY <1>0, <1>3, AdvanceKeeps, ReplyKeeps DEF Lookup, At, storeVars, Stages
<1>4. ASSUME NEW s \in Submission, ReserveId(s)
      PROVE  TypeOK' /\ HandlersAreBound'
    <2>1. handler[s].stage = "fresh" /\ handler[s].rt \in Runtime /\ UNCHANGED <<storeVars, pushed, mode, faults>>
        BY <1>4 DEF ReserveId, At, HandlersAreBound
    <2>2. CASE Reply(s, "error", Nobody) /\ UNCHANGED reserved
        BY <1>0, <2>1, <2>2, ReplyKeeps DEF storeVars
    <2>3. ASSUME NEW i \in Id, reserved' = [reserved EXCEPT ![handler[s].rt] = @ \cup {i}],
                 handler' = [handler EXCEPT ![s] = [@ EXCEPT !.stage = "reserved", !.id = i]]
          PROVE  TypeOK' /\ HandlersAreBound'
        <3>1. /\ handler' \in [Submission -> Handlers] /\ \A t \in Submission \ {s} : handler'[t] = handler[t]
              /\ handler'[s].id = i /\ handler'[s].rt = handler[s].rt
            BY <1>0, <2>3 DEF Handlers, Stages
        <3>2. HandlersAreBound'
            BY <2>1, <3>1, BoundGoesOn
        <3>3. reserved' \in [Runtime -> SUBSET Id]
            BY <1>0, <2>3
        <3> QED BY <1>0, <2>1, <3>1, <3>2, <3>3 DEF storeVars, TypeOK
    <2> QED BY <1>4, <2>2, <2>3 DEF ReserveId
<1>5. ASSUME NEW s \in Submission, Prepare(s)
      PROVE  TypeOK' /\ HandlersAreBound'
    <2>1. HasId(s) /\ handler[s].stage # "idle" /\ handler[s].id \in Id
        BY <1>5 DEF Prepare, At, HasId, HandlersAreBound
    <2>2. workspace' \in [Id -> Submission \cup {Nobody}] /\ UNCHANGED <<docs, records, reserved, pushed, mode>>
        BY <1>0, <1>5 DEF Prepare, Throws, storeVars
    <2>3. (Fault \/ UNCHANGED faults) /\ (Advance(s, "prepared") \/ Advance(s, "failing"))
        BY <1>5 DEF Prepare, Throws
    <2> QED BY <1>0, <2>1, <2>2, <2>3, AdvanceKeeps DEF Stages
<1>6. ASSUME NEW s \in Submission, CreateDoc(s)
      PROVE  TypeOK' /\ HandlersAreBound'
    <2>1. HasId(s) /\ handler[s].stage # "idle" /\ handler[s].id \in Id
        BY <1>6 DEF CreateDoc, At, HasId, HandlersAreBound
    <2>2. UNCHANGED <<records, workspace, reserved, pushed, mode>>
        BY <1>6 DEF CreateDoc, Throws
    <2>3. (Fault \/ UNCHANGED faults) /\ (Advance(s, "created") \/ Advance(s, "failing"))
        BY <1>6 DEF CreateDoc, Throws
    <2>4. docs' = docs \/ docs' = [docs EXCEPT ![handler[s].id] = [@ EXCEPT !.by = s, !.started = FALSE]]
        BY <1>6 DEF CreateDoc
    <2>5. docs' \in [Id -> Docs]
        <3> DEFINE d == docs[handler[s].id]
        <3>1. d \in Docs
            BY <1>0, <2>1
        <3>2. [d EXCEPT !.by = s, !.started = FALSE] \in Docs
            BY <3>1 DEF Docs
        <3> QED BY <1>0, <2>1, <2>4, <3>2
    <2> QED BY <1>0, <2>1, <2>2, <2>3, <2>5, AdvanceKeeps DEF Stages
<1>7. ASSUME NEW s \in Submission, InsertRecords(s)
      PROVE  TypeOK' /\ HandlersAreBound'
    <2>1. HasId(s) /\ handler[s].stage # "idle" /\ handler[s].id \in Id
        BY <1>7 DEF InsertRecords, At, HasId, HandlersAreBound
    <2>2. records' \in [Id -> SUBSET Submission] /\ UNCHANGED <<docs, workspace, reserved, pushed, mode>>
        BY <1>0, <1>7 DEF InsertRecords, Throws
    <2>3. (Fault \/ UNCHANGED faults) /\ (Advance(s, "recorded") \/ Advance(s, "failing"))
        BY <1>7 DEF InsertRecords, Throws
    <2> QED BY <1>0, <2>1, <2>2, <2>3, AdvanceKeeps DEF Stages
<1>8. ASSUME NEW s \in Submission, Enqueue(s)
      PROVE  TypeOK' /\ HandlersAreBound'
    <2>1. HasId(s) /\ handler[s].stage # "idle" /\ handler[s].id \in Id
        BY <1>8 DEF Enqueue, At, HasId, HandlersAreBound
    <2>2. pushed' \in [Runtime -> SUBSET Id] /\ UNCHANGED <<docs, records, workspace, reserved, mode>>
        BY <1>0, <1>8, <2>1 DEF Enqueue, Throws, storeVars
    <2>3. (Fault \/ UNCHANGED faults) /\ (Advance(s, "queued") \/ Advance(s, "failing"))
        BY <1>8 DEF Enqueue, Throws
    <2> QED BY <1>0, <2>1, <2>2, <2>3, AdvanceKeeps DEF Stages
<1>9. ASSUME NEW s \in Submission, Publish(s)
      PROVE  TypeOK' /\ HandlersAreBound'
    <2>1. HasId(s) /\ handler[s].stage # "idle" /\ handler[s].id \in Id
        BY <1>9 DEF Publish, At, HasId, HandlersAreBound
    <2>2. CASE Throws(s) /\ UNCHANGED storeVars
        BY <1>0, <2>1, <2>2, AdvanceKeeps DEF Throws, Stages, storeVars
    <2>3. CASE /\ Reply(s, "created", handler[s].id)
               /\ reserved' = [reserved EXCEPT ![handler[s].rt] = @ \ {handler[s].id}]
               /\ UNCHANGED <<pushed, mode, faults, storeVars>>
        <3>1. reserved' \in [Runtime -> SUBSET Id]
            BY <1>0, <2>3
        <3> QED BY <1>0, <2>1, <2>3, <3>1, ReplyKeeps DEF storeVars
    <2> QED BY <1>9, <2>2, <2>3 DEF Publish
<1>10. ASSUME NEW s \in Submission, Rollback(s)
       PROVE  TypeOK' /\ HandlersAreBound'
    <2> DEFINE i == handler[s].id
    <2>1. handler[s].stage # "idle" /\ i \in Id
        BY <1>10 DEF Rollback, At, HasId, HandlersAreBound
    <2>2. /\ docs' = docs \/ docs' = [docs EXCEPT ![i].deleted = @ \/ Exists(i)]
          /\ records' = records \/ records' = [records EXCEPT ![i] = {}]
          /\ workspace' = workspace \/ workspace' = [workspace EXCEPT ![i] = Nobody]
          /\ reserved' = [reserved EXCEPT ![handler[s].rt] = @ \ {i}] /\ UNCHANGED <<pushed, mode>>
          /\ Reply(s, "error", i) /\ (Fault \/ UNCHANGED faults)
        BY <1>10 DEF Rollback, Undone
    <2>3. PICK b \in BOOLEAN : docs' = docs \/ docs' = [docs EXCEPT ![i].deleted = b]
        <3>1. docs[i].deleted \in BOOLEAN /\ (docs[i].deleted \/ Exists(i)) \in BOOLEAN
            BY <1>0, <2>1 DEF Docs
        <3> QED BY <2>2, <3>1, Zenon
    <2>4. docs' \in [Id -> Docs]
        BY <1>0, <2>1, <2>3, MarkDeleted
    <2>5. /\ records' \in [Id -> SUBSET Submission] /\ workspace' \in [Id -> Submission \cup {Nobody}]
          /\ reserved' \in [Runtime -> SUBSET Id]
        BY <1>0, <2>1, <2>2
    <2> HIDE DEF i
    <2> QED BY <2>1, <2>2, <2>4, <2>5, ReplyKeeps
<1>11. ASSUME NEW r \in Runtime, NEW i \in Id, Reconcile(r, i) \/ Claim(r, i)
       PROVE  TypeOK' /\ HandlersAreBound'
    <2>1. UNCHANGED <<records, workspace, reserved, mode, handler, faults>> /\ pushed' \in [Runtime -> SUBSET Id]
        BY <1>0, <1>11 DEF Reconcile, Claim, storeVars
    <2>2. docs' = docs \/ docs' = [docs EXCEPT ![i].started = @ \/ Waits(i)]
        BY <1>11 DEF Reconcile, Claim, storeVars
    <2>3. PICK b \in BOOLEAN : docs' = docs \/ docs' = [docs EXCEPT ![i].started = b]
        <3>1. (docs[i].started \/ Waits(i)) \in BOOLEAN
            BY DEF Waits
        <3> QED BY <2>2, <3>1, Zenon
    <2>4. docs' \in [Id -> Docs]
        BY <1>0, <2>3, MarkStarted
    <2> QED BY <1>0, <2>1, <2>4 DEF TypeOK, HandlersAreBound, HasId
<1>12. ASSUME NEW r \in Runtime, Start(r)
       PROVE  TypeOK' /\ HandlersAreBound'
    BY <1>0, <1>12 DEF Start, storeVars, TypeOK, HandlersAreBound, HasId
<1>13. ASSUME NEW r \in Runtime, Crash(r)
       PROVE  TypeOK' /\ HandlersAreBound'
    <2>1. \A s \in Submission : /\ handler'[s] \in Handlers /\ handler'[s].rt = handler[s].rt
                                /\ handler'[s].id = handler[s].id
                                /\ handler'[s].stage = handler[s].stage \/ (handler'[s].stage = "dead" /\ handler[s].rt = r)
        BY <1>0, <1>13 DEF Crash, Handlers, Stages
    <2>2. handler' \in [Submission -> Handlers]
        BY <1>13, <2>1 DEF Crash
    <2>3. HandlersAreBound'
        BY <2>1 DEF HandlersAreBound, HasId
    <2> QED BY <1>0, <1>13, <2>2, <2>3 DEF Crash, storeVars, TypeOK
<1>14. CASE UNCHANGED vars
    BY <1>14 DEF vars, TypeOK, HandlersAreBound, HasId
<1> QED
    BY <1>1, <1>2, <1>3, <1>4, <1>5, <1>6, <1>7, <1>8, <1>9, <1>10, <1>11, <1>12, <1>13, <1>14 DEF Next

-----------------------------------------------------------------------------
(* The types of all the parts *)
PartsInv ==
    /\ TypeOK /\ HandlersAreBound
    /\ ContractTypeOK /\ RecordedCountsAddUp
    /\ FileInv /\ FileTypeOK
    /\ LoginInv /\ SettingsInv /\ KnownRevisions
    /\ PagesInv /\ PageBounds
    /\ HistoryInv /\ HistoryBounds
    /\ FormInv /\ FormTypeOK
    /\ PackageInv /\ PackageTypeOK
    /\ ModelInv

LEMMA PartsBegin == ServicesInit => PartsInv
PROOF
<1> SUFFICES ASSUME ServicesInit PROVE PartsInv
    OBVIOUS
<1>1. TypeOK /\ HandlersAreBound /\ ContractTypeOK /\ RecordedCountsAddUp
    BY TypesBegin, BoundBegin, ContractBegins DEF ServicesInit
<1>2. FileInv /\ FileTypeOK
    BY FilesBegin DEF ServicesInit, FileInit, FileInv, FileTypes, FileTypeOK, File
<1>3. LoginInv /\ SettingsInv
    BY LoginsBegin, SettingsBegin DEF ServicesInit
<1>4. KnownRevisions
    BY AdminAssumption DEF ServicesInit, AdminInit, Clear, KnownRevisions
<1>5. PagesInv /\ PageBounds
    BY PagesBegin, PagesAssumption DEF ServicesInit, PagesInit, NoLoad, PageBounds
<1>6. HistoryInv
    BY HistoryBegins DEF ServicesInit
<1>7. HistoryBounds
    BY PagesAreBounded DEF ServicesInit, HistoryInit, NoInquiry, HistoryBounds
<1>8. FormInv /\ FormTypeOK
    BY FormsBegin DEF ServicesInit, FormInit, FormInv, FormTypes, Forms, Places, FormTypeOK, NoPost
<1>9. PackageInv /\ PackageTypeOK
    BY PackagesBegin DEF ServicesInit, PackageInit, PackageInv, PackageTypeOK
<1>10. ModelInv
    BY ModelBegins DEF ServicesInit
<1> QED
    BY <1>1, <1>2, <1>3, <1>4, <1>5, <1>6, <1>7, <1>8, <1>9, <1>10 DEF PartsInv

LEMMA PartsGoOn == PartsInv /\ [ServicesNext]_servicesVars => PartsInv'
PROOF
<1> SUFFICES ASSUME PartsInv, [ServicesNext]_servicesVars PROVE PartsInv'
    OBVIOUS
<1>1. TypeOK' /\ HandlersAreBound'
    BY CreationTypesGoOn, StepsOfCreation DEF PartsInv
<1>2. ContractTypeOK' /\ RecordedCountsAddUp'
    BY ContractGoesOn, StepsOfContract DEF PartsInv
<1>3. FileInv' /\ FileTypeOK'
    BY FilesGoOn, FileTypesGoOn, StepsOfFiles DEF PartsInv
<1>4. LoginInv' /\ SettingsInv' /\ KnownRevisions'
    BY LoginsGoOn, SettingsGoOn, RevisionsAreKnown, StepsOfAdministration DEF PartsInv
<1>5. PagesInv' /\ PageBounds'
    BY PagesGoOn, PageBoundsGoOn, StepsOfPages DEF PartsInv
<1>6. HistoryInv' /\ HistoryBounds'
    BY HistoryGoesOn, HistoryBoundsGoOn, StepsOfHistory DEF PartsInv
<1>7. FormInv' /\ FormTypeOK'
    BY FormsGoOn, FormTypesGoOn, StepsOfForm DEF PartsInv
<1>8. PackageInv' /\ PackageTypeOK'
    BY PackagesGoOn, PackageTypesGoOn, StepsOfPackages DEF PartsInv
<1>9. ModelInv'
    BY ModelGoesOn, StepsOfModel DEF PartsInv
<1> QED
    BY <1>1, <1>2, <1>3, <1>4, <1>5, <1>6, <1>7, <1>8, <1>9 DEF PartsInv

(* In every state of the services their variables have the types of their declarations, *)
(* runtimes that overlap and the bounds of the guards included.                         *)
THEOREM ServicesTypes == ServicesSpec => []ServicesTypeOK
PROOF
<1>1. ServicesInit => PartsInv
    BY PartsBegin
<1>2. PartsInv /\ [ServicesNext]_servicesVars => PartsInv'
    BY PartsGoOn
<1>3. PartsInv => ServicesTypeOK
    BY AdminTypesHold, PageTypesHold, HistoryTypesHold, ModelTypesHold DEF PartsInv, ServicesTypeOK
<1> QED
    BY <1>1, <1>2, <1>3, PTL DEF ServicesSpec
=============================================================================
