----------------------------- MODULE LiveEvents -----------------------------
(***************************************************************************)
(* backend/src/websocket and services/workerStateService.js of one runtime *)
(* and one job: the maps of subscriptions, the events and heartbeats that  *)
(* are published to them, and the worker state they are built from.        *)
(*                                                                         *)
(* A publication awaits a read of the job, and an event the wording of an  *)
(* LLM, before it is sent; nothing orders those waits.  So publications in *)
(* flight are sets, and any of them may be the next to be sent.            *)
(***************************************************************************)
EXTENDS Naturals, FiniteSets

CONSTANTS
    Client, NoState,
    MaxBeats     \* bound: heartbeats in flight

ASSUME MaxBeatsAssumption == MaxBeats \in Nat \ {0}

VARIABLES
    jobStatus,    \* the status in the store
    workPhase,    \* the phase of the worker state, or NoState
    runner,       \* how far the execution has come
    cancelling,   \* how far cancelJob has come
    renewing,     \* renewLease awaits its transaction
    events,       \* publishJobEvent in flight: the statuses of their payloads
    beats,        \* publishHeartbeat in flight: the statuses they have read
    socket,       \* [Client -> "open", "closed"]
    subscribers,  \* subscriptionsByJobId.get(jobId)
    ofClient,     \* clients whose set in subscriptionsByClient has the job
    subscribing,  \* [Client -> what its subscribe request waits for]
    jobCopy,      \* [Client -> the status its subscribe request has read]
    told          \* [Client -> the ends that messages sent to it have told]

eventVars == <<jobStatus, workPhase, runner, cancelling, renewing, events, beats,
               socket, subscribers, ofClient, subscribing, jobCopy, told>>

EndStatuses   == {"completed", "failed", "cancelled"}
LiveStatuses  == {"queued", "generating", "cancelling"} \cup EndStatuses
TerminalPhases == {"COMPLETED", "FAILED", "CANCELLED"}
Phases == {NoState, "VALIDATION_STARTED", "skill", "CANCELLING"} \cup TerminalPhases

EventTypeOK ==
    /\ jobStatus \in LiveStatuses /\ workPhase \in Phases
    /\ runner \in {"waiting", "claimed", "starting", "working", "saved", "ending", "ended"}
    /\ cancelling \in {"no", "marked", "done"} /\ renewing \in BOOLEAN
    /\ events \in SUBSET LiveStatuses /\ beats \in SUBSET LiveStatuses /\ Cardinality(beats) <= MaxBeats
    /\ socket \in [Client -> {"open", "closed"}]
    /\ subscribers \in SUBSET Client /\ ofClient \in SUBSET Client
    /\ subscribing \in [Client -> {"no", "job", "counts"}]
    /\ jobCopy \in [Client -> LiveStatuses \cup {NoState}]
    /\ told \in [Client -> SUBSET EndStatuses]

EventInit ==
    /\ jobStatus = "queued" /\ workPhase = NoState
    /\ runner = "waiting" /\ cancelling = "no" /\ renewing = FALSE
    /\ events = {"queued"} /\ beats = {}
    /\ socket = [c \in Client |-> "open"]
    /\ subscribers = {} /\ ofClient = {}
    /\ subscribing = [c \in Client |-> "no"]
    /\ jobCopy = [c \in Client |-> NoState]
    /\ told = [c \in Client |-> {}]

jobVars    == <<jobStatus, workPhase, runner, cancelling, renewing>>
clientVars == <<socket, subscribers, ofClient, subscribing, jobCopy>>

HasEnded == jobStatus \in EndStatuses

(* publishHeartbeat reads the job now and sends later *)
StartBeat ==
    /\ beats' = beats \cup {jobStatus}
    /\ Cardinality(beats') <= MaxBeats

(* setPhase replaces any phase, a terminal one included *)
SetPhase(phase) == workPhase' = phase

-----------------------------------------------------------------------------
(* The execution: jobQueue.js and genericSkillRunner.js as far as they publish *)

(* executeClaimedJob *)
ClaimJob ==
    /\ runner = "waiting" /\ jobStatus = "queued"
    /\ runner' = "claimed" /\ SetPhase("VALIDATION_STARTED")
    /\ UNCHANGED <<jobStatus, cancelling, renewing, events, beats, clientVars, told>>

BeginWork ==
    /\ runner = "claimed" /\ ~HasEnded
    /\ runner' = "starting" /\ jobStatus' = "generating" /\ SetPhase("skill")
    /\ events' = events \cup {"generating"}
    /\ UNCHANGED <<cancelling, renewing, beats, clientVars, told>>

(* The event of the start is awaited before the process is spawned *)
StartAnnounced ==
    /\ runner = "starting" /\ "generating" \notin events
    /\ runner' = "working"
    /\ UNCHANGED <<jobStatus, workPhase, cancelling, renewing, events, beats, clientVars, told>>

(* parseProgressLine: the phase of the skill replaces whatever was there *)
Progress ==
    /\ runner = "working"
    /\ SetPhase("skill") /\ StartBeat
    /\ UNCHANGED <<jobStatus, runner, cancelling, renewing, events, clientVars, told>>

SaveEnd ==
    /\ runner = "working" /\ ~HasEnded
    /\ runner' = "saved"
    /\ \E s \in EndStatuses : (s = "cancelled" => cancelling # "no") /\ jobStatus' = s
    /\ UNCHANGED <<workPhase, cancelling, renewing, events, beats, clientVars, told>>

EndIsRecorded == runner = "saved"

PhaseOfEnd(s) == CASE s = "completed" -> "COMPLETED" [] s = "failed" -> "FAILED" [] OTHER -> "CANCELLED"

(* setComplete, setError or setCancelled, and the event *)
AnnounceEnd ==
    /\ EndIsRecorded
    /\ \E s \in EndStatuses :
          /\ runner = "saved" => s = jobStatus
          /\ workPhase' = PhaseOfEnd(s) /\ events' = events \cup {s}
    /\ runner' = "ending"
    /\ UNCHANGED <<jobStatus, cancelling, renewing, beats, clientVars, told>>

EndAnnounced ==
    /\ runner = "ending" /\ events \cap EndStatuses = {}
    /\ runner' = "ended"
    /\ UNCHANGED <<jobStatus, workPhase, cancelling, renewing, events, beats, clientVars, told>>

(* The adapter throws, a save conflict for instance: finalizeClaim records a *)
(* failure, and neither the worker state nor a subscriber hears of it.       *)
RunThrows ==
    /\ runner \in {"claimed", "starting", "working"}
    /\ runner' = "ended"
    /\ jobStatus' = IF HasEnded THEN jobStatus ELSE "failed"
    /\ UNCHANGED <<workPhase, cancelling, renewing, events, beats, clientVars, told>>

Executing == runner \in {"claimed", "starting", "working", "saved", "ending"}

(* renewLease: its answer may come when the execution has ended *)
RenewStarts ==
    /\ Executing /\ ~HasEnded /\ ~renewing
    /\ renewing' = TRUE
    /\ UNCHANGED <<jobStatus, workPhase, runner, cancelling, events, beats, clientVars, told>>

RenewAnswered ==
    /\ renewing /\ renewing' = FALSE
    /\ workPhase' \in IF cancelling # "no" THEN {workPhase, "CANCELLING"} ELSE {workPhase}
    /\ StartBeat
    /\ UNCHANGED <<jobStatus, runner, cancelling, events, clientVars, told>>

(* cancelJob: the mark in the queue runtime; then the worker state, the save *)
(* (which conflicts with a job that has ended) and the event.                *)
CancelMarks ==
    /\ cancelling = "no" /\ ~HasEnded
    /\ cancelling' = "marked"
    /\ UNCHANGED <<jobStatus, workPhase, runner, renewing, events, beats, clientVars, told>>

CancelSaves ==
    /\ cancelling = "marked" /\ cancelling' = "done"
    /\ IF runner = "waiting"
       THEN /\ workPhase' = "CANCELLED" /\ jobStatus' = "cancelled"
            /\ runner' = "ended" /\ events' = events \cup {"cancelled"} /\ UNCHANGED beats
       ELSE /\ workPhase' = "CANCELLING" /\ StartBeat
            /\ UNCHANGED runner
            /\ IF HasEnded THEN UNCHANGED <<jobStatus, events>>
               ELSE jobStatus' = "cancelling" /\ events' = events \cup {"cancelling"}
    /\ UNCHANGED <<renewing, clientVars, told>>

-----------------------------------------------------------------------------
(* subscriptionManager.js, heartbeatPublisher.js and server.js *)

(* sendJson: only to a socket that is open *)
Send(to, s) ==
    told' = [c \in Client |-> IF c \in to /\ socket[c] = "open" THEN told[c] \cup ({s} \cap EndStatuses)
                                                               ELSE told[c]]

PublishEvent(s) ==
    /\ s \in events
    /\ events' = events \ {s} /\ Send(subscribers, s)
    /\ UNCHANGED <<jobVars, beats, clientVars>>

PublishBeat(s) ==
    /\ s \in beats
    /\ beats' = beats \ {s} /\ Send(subscribers, s)
    /\ UNCHANGED <<jobVars, events, clientVars>>

(* Mutant: heartbeats only while the execution goes on *)
BeatIsDueWhileExecuting == subscribers # {} /\ Executing

BeatIsDue == subscribers # {} /\ workPhase \notin {NoState} \cup TerminalPhases

(* publishLiveHeartbeats, on its timer *)
LiveBeat ==
    /\ BeatIsDue
    /\ StartBeat
    /\ UNCHANGED <<jobVars, events, clientVars, told>>

(* A subscribe message arrives: Job.findOne *)
SubscribeReads(c) ==
    /\ socket[c] = "open" /\ subscribing[c] = "no" /\ c \notin ofClient
    /\ subscribing' = [subscribing EXCEPT ![c] = "job"]
    /\ jobCopy' = [jobCopy EXCEPT ![c] = jobStatus]
    /\ UNCHANGED <<jobVars, events, beats, socket, subscribers, ofClient, told>>

(* The answer: the client is added, also when its socket has closed meanwhile *)
SubscribeAdds(c) ==
    /\ subscribing[c] = "job"
    /\ subscribing' = [subscribing EXCEPT ![c] = "counts"]
    /\ subscribers' = subscribers \cup {c} /\ ofClient' = ofClient \cup {c}
    /\ UNCHANGED <<jobVars, events, beats, socket, jobCopy, told>>

(* The counts for the snapshot have been read: it shows the copy of the job *)
SnapshotSent(c) ==
    /\ subscribing[c] = "counts"
    /\ subscribing' = [subscribing EXCEPT ![c] = "no"]
    /\ jobCopy' = [jobCopy EXCEPT ![c] = NoState]
    /\ Send({c}, jobCopy[c])
    /\ UNCHANGED <<jobVars, events, beats, socket, subscribers, ofClient>>

(* Mutant: the socket is forgotten, its subscriptions are not *)
WithoutNobody(c) == subscribers' = subscribers

WithoutClient(c) == subscribers' = subscribers \ {c}

(* unsubscribeClientFromJob *)
Unsubscribe(c) ==
    /\ socket[c] = "open" /\ c \in ofClient
    /\ WithoutClient(c) /\ ofClient' = ofClient \ {c}
    /\ UNCHANGED <<jobVars, events, beats, socket, subscribing, jobCopy, told>>

(* The close event of the socket: removeClient *)
SocketCloses(c) ==
    /\ socket[c] = "open"
    /\ socket' = [socket EXCEPT ![c] = "closed"]
    /\ IF c \in ofClient THEN WithoutClient(c) ELSE UNCHANGED subscribers
    /\ ofClient' = ofClient \ {c}
    /\ UNCHANGED <<jobVars, events, beats, subscribing, jobCopy, told>>

ClientStep(c) ==
    SubscribeReads(c) \/ SubscribeAdds(c) \/ SnapshotSent(c) \/ Unsubscribe(c) \/ SocketCloses(c)

EventNext ==
    \/ ClaimJob \/ BeginWork \/ StartAnnounced \/ Progress \/ SaveEnd \/ AnnounceEnd \/ EndAnnounced
    \/ RunThrows \/ RenewStarts \/ RenewAnswered \/ CancelMarks \/ CancelSaves
    \/ \E s \in LiveStatuses : PublishEvent(s) \/ PublishBeat(s)
    \/ LiveBeat
    \/ \E c \in Client : ClientStep(c)

(* Timers fire, a claimed job is executed to its end (StoppedChildEnds), and what *)
(* waits for its wording is published.  Clients and cancellations need not move.  *)
EventFairness ==
    /\ WF_eventVars(BeginWork \/ RunThrows) /\ WF_eventVars(StartAnnounced)
    /\ WF_eventVars(SaveEnd \/ RunThrows) /\ WF_eventVars(AnnounceEnd)
    /\ \A s \in LiveStatuses \ {"queued"} : WF_eventVars(PublishEvent(s))
    /\ \A s \in LiveStatuses : WF_eventVars(PublishBeat(s))
    /\ WF_eventVars(LiveBeat)

-----------------------------------------------------------------------------
Receiving(c) == c \in subscribers /\ socket[c] = "open"

(* A client that is subscribed while the job executes learns that it has ended, *)
(* even when the execution throws and no event is published: the heartbeats  *)
(* go on, with the status of the store, until the phase is terminal.         *)
SubscribersLearnTheEnd ==
    \A c \in Client : (Receiving(c) /\ Executing /\ ~HasEnded) ~> (told[c] # {} \/ ~Receiving(c))

(* A closed socket among the subscribers, which no heartbeat can reach and which *)
(* keeps the heartbeats of its job going, has one source: a subscribe request    *)
(* whose read of the job was under way when the socket closed.                   *)
Ghosts == {c \in Client : c \in subscribers /\ socket[c] = "closed"}

GhostsComeFromWaits ==
    [][\A c \in Client : c \in Ghosts' \ Ghosts => subscribing[c] = "job" /\ socket[c] = "closed"]_eventVars
=============================================================================
