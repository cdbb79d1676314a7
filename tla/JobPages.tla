-------------------------------- MODULE JobPages --------------------------------
(***************************************************************************)
(* The page of one job (JobDetailView.vue over getJobDetail of             *)
(* services/jobService.js) while its runner stores the result piece by     *)
(* piece and ends it.  The documents of an answer are read one after the   *)
(* other, and the page changes the status it shows from the messages of    *)
(* its subscriptions, before it has the job's new detail.                  *)
(***************************************************************************)
EXTENDS Naturals

CONSTANTS
    Load,          \* the requests for the detail of the job
    MaxOutputs     \* bound: output files of the job

ASSUME PagesAssumption == MaxOutputs \in Nat

VARIABLES
    stored,     \* [ended, counted : of the job, outputs : its JobFile records]
    follower,   \* the subscriptions of the page: whether one is "asked" for, and one is "on"
    loads,      \* [Load -> how far the request is, with the job and the number of files it has read]
    page        \* what the view shows; stale: it knows the end, and asks no more

pagesVars == <<stored, follower, loads, page>>

NoLoad == [at |-> "idle", ended |-> FALSE, counted |-> 0, listed |-> 0]

PagesTypeOK ==
    /\ stored \in [ended : BOOLEAN, counted : 0..MaxOutputs, outputs : 0..MaxOutputs]
    /\ follower \subseteq {"asked", "on"}
    /\ loads \in [Load -> [at : {"idle", "asked", "job", "files", "answer"}, ended : BOOLEAN,
                           counted : 0..MaxOutputs, listed : 0..MaxOutputs]]
    /\ page \in [ended : BOOLEAN, listed : 0..MaxOutputs, stale : BOOLEAN, open : BOOLEAN]

PagesInit ==
    /\ stored = [ended |-> FALSE, counted |-> 0, outputs |-> 0] /\ follower = {}
    /\ loads = [l \in Load |-> NoLoad]
    /\ page = [ended |-> FALSE, listed |-> 0, stale |-> FALSE, open |-> FALSE]

-----------------------------------------------------------------------------
(* persistResult: the records one by one, then the job *)

InsertOutput ==
    /\ ~stored.ended /\ stored.outputs < MaxOutputs
    /\ stored' = [stored EXCEPT !.outputs = @ + 1]
    /\ UNCHANGED <<follower, loads, page>>

(* failJob, after an insert that has failed, counts nothing *)
StoreEnd ==
    /\ ~stored.ended
    /\ \E n \in {0, stored.outputs} : stored' = [stored EXCEPT !.ended = TRUE, !.counted = n]
    /\ UNCHANGED <<follower, loads, page>>

-----------------------------------------------------------------------------
(* getJobDetail *)

LoadAt(l, stage) == loads[l].at = stage

Ask(l) == LoadAt(l, "idle") /\ loads' = [loads EXCEPT ![l] = [NoLoad EXCEPT !.at = "asked"]]

ReadsJob(l, next)   == loads' = [loads EXCEPT ![l].at = next, ![l].ended = stored.ended, ![l].counted = stored.counted]
ReadsFiles(l, next) == loads' = [loads EXCEPT ![l].at = next, ![l].listed = stored.outputs]

(* Mutant: job and files are read side by side, as buildSafeJobContext does *)
ReadInAnyOrder(l) ==
    \/ LoadAt(l, "asked") /\ (ReadsJob(l, "job") \/ ReadsFiles(l, "files"))
    \/ LoadAt(l, "job")   /\ ReadsFiles(l, "answer")
    \/ LoadAt(l, "files") /\ ReadsJob(l, "answer")

ReadInTurn(l) ==
    \/ LoadAt(l, "asked") /\ ReadsJob(l, "job")
    \/ LoadAt(l, "job")   /\ ReadsFiles(l, "answer")

GetJobDetail(l) == ReadInTurn(l) /\ UNCHANGED <<stored, follower, page>>

-----------------------------------------------------------------------------
(* JobDetailView.vue *)

OpenPage(l) ==
    /\ ~page.open /\ page' = [page EXCEPT !.open = TRUE]
    /\ Ask(l) /\ UNCHANGED <<stored, follower>>

(* loadDetail; a job that goes on is subscribed to, and a subscription from before stays *)
DetailShown(l) ==
    /\ LoadAt(l, "answer")
    /\ page' = [page EXCEPT !.ended = loads[l].ended, !.listed = loads[l].listed, !.stale = FALSE]
    /\ follower' = IF ~loads[l].ended THEN follower \cup {"asked"} ELSE follower
    /\ loads' = [loads EXCEPT ![l] = NoLoad]
    /\ UNCHANGED stored

(* A request that fails leaves what the page shows; it is not repeated *)
LoadFails(l) ==
    /\ ~LoadAt(l, "idle")
    /\ loads' = [loads EXCEPT ![l] = NoLoad] /\ page' = [page EXCEPT !.stale = TRUE]
    /\ UNCHANGED <<stored, follower>>

(* What a message says of the status was read from the store before it was sent *)
StatusRead == {FALSE, stored.ended}

(* SUBSCRIBED: the status of the snapshot is shown, nothing is loaded *)
SnapshotShown ==
    /\ "asked" \in follower /\ follower' = {"on"}
    /\ \E ended \in StatusRead : page' = [page EXCEPT !.ended = ended, !.stale = @ \/ ended]
    /\ UNCHANGED <<stored, loads>>

(* JOB_EVENT and JOB_HEARTBEAT: the status is shown, and when it is terminal the detail *)
(* loaded again, for each such message and beside the loads that are under way.         *)
MessageShown(l) ==
    /\ "on" \in follower
    /\ \E ended \in StatusRead : /\ page' = [page EXCEPT !.ended = ended]
                                 /\ IF ended THEN Ask(l) ELSE UNCHANGED loads
    /\ UNCHANGED <<stored, follower>>

PagesNext ==
    \/ InsertOutput \/ StoreEnd \/ SnapshotShown
    \/ \E l \in Load : OpenPage(l) \/ GetJobDetail(l) \/ DetailShown(l) \/ LoadFails(l) \/ MessageShown(l)

-----------------------------------------------------------------------------
(* A page that calls its job ended shows every output file the job counts, however  *)
(* the runner's writes, the reads of the answer and the messages interleave; or its *)
(* reload is under way; or it has been told the end by a snapshot, or had a request *)
(* fail: then nothing makes it ask again.                                           *)
EndedPagesAreWhole ==
    page.ended => \/ page.listed >= stored.counted
                  \/ page.stale
                  \/ \E l \in Load : loads[l].at # "idle"
=============================================================================
