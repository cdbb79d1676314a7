------------------------------- MODULE LiveView -------------------------------
(***************************************************************************)
(* The worker view of one browser tab: services/websocketClient.js, and    *)
(* what views/shared/workerRuntime.js and GenericSkillView.vue do with it: *)
(* which job is selected, over which sockets messages arrive, and to which *)
(* job the status belongs that is shown.                                   *)
(*                                                                         *)
(* The handlers of a socket belong to the client, not to the socket: the   *)
(* close event of any socket, also of one the client has closed to switch  *)
(* to another job, is taken for a lost connection.                         *)
(***************************************************************************)
EXTENDS Naturals, FiniteSets

CONSTANTS
    ViewJob, NoJob,
    Slot,         \* names of sockets; a name is used again when its socket is gone
    MaxSwitches   \* bound: how often a job is selected while one is followed

ASSUME ViewAssumption == NoJob \notin ViewJob /\ NoJob \notin Slot /\ MaxSwitches \in Nat

VARIABLES
    link,         \* [Slot -> state of the WebSocket]
    follows,      \* [Slot -> the job the server sends over it]
    ownSlot,      \* this.socket
    clientJob,    \* this.jobId
    closedByUser,
    timer,        \* this.reconnectTimer is set
    current,      \* currentJobId
    shown,        \* the job whose status the view shows
    details,      \* jobs whose detail has been requested by refreshJobDetail
    restoring,    \* the list of active jobs has been requested
    left,         \* the view is destroyed
    switches,     \* selections of a job while one is followed
    cut           \* sockets the client has closed itself

viewVars == <<link, follows, ownSlot, clientJob, closedByUser, timer, current, shown, details,
              restoring, left, switches, cut>>
netVars  == <<link, follows, ownSlot, clientJob, closedByUser, timer, cut>>
pageVars == <<current, shown, details, restoring, left, switches>>

ViewTypeOK ==
    /\ link \in [Slot -> {"none", "connecting", "open", "closing"}]
    /\ follows \in [Slot -> ViewJob \cup {NoJob}]
    /\ ownSlot \in Slot \cup {NoJob}
    /\ {clientJob, current, shown} \subseteq ViewJob \cup {NoJob}
    /\ closedByUser \in BOOLEAN /\ timer \in BOOLEAN
    /\ details \subseteq ViewJob /\ restoring \in BOOLEAN /\ left \in BOOLEAN
    /\ switches \in 0..MaxSwitches /\ cut \in 0..(MaxSwitches + 2)

ViewInit ==
    /\ link = [k \in Slot |-> "none"] /\ follows = [k \in Slot |-> NoJob]
    /\ ownSlot = NoJob /\ clientJob = NoJob /\ closedByUser = FALSE /\ timer = FALSE
    /\ current = NoJob /\ shown = NoJob /\ details = {}
    /\ restoring = TRUE /\ left = FALSE /\ switches = 0 /\ cut = 0

-----------------------------------------------------------------------------
(* services/websocketClient.js *)

(* The state of the sockets once this.socket has been closed *)
LinkClosed == [k \in Slot |-> IF k = ownSlot THEN "closing" ELSE link[k]]

CutCounted == cut' = IF ownSlot = NoJob THEN cut ELSE cut + 1

(* open(): the old this.socket is replaced, not closed *)
Opened(before, k) ==
    /\ before[k] = "none"
    /\ link' = [before EXCEPT ![k] = "connecting"]
    /\ ownSlot' = k

(* Mutant: close() leaves the timer running *)
TimerLeftRunning == UNCHANGED timer

(* close() clears the timer *)
TimerStopped == timer' = FALSE

(* connect(jobId) *)
Connect(j) ==
    /\ \E k \in Slot : Opened(LinkClosed, k)
    /\ clientJob' = j /\ closedByUser' = FALSE /\ TimerStopped
    /\ switches' = IF clientJob = NoJob THEN switches ELSE switches + 1
    /\ CutCounted
    /\ UNCHANGED follows

(* onopen, which sends the subscription over this.socket; the call throws when *)
(* that one is another socket that is still connecting.  The server may refuse *)
(* it, when the job is not found or cannot be read: the client is told, does   *)
(* nothing about it, and the socket stays open.                                *)
SocketOpens(k) ==
    /\ link[k] = "connecting"
    /\ link' = [link EXCEPT ![k] = "open"]
    /\ \/ follows' = IF ownSlot # NoJob /\ link'[ownSlot] = "open"
                     THEN [follows EXCEPT ![ownSlot] = clientJob] ELSE follows
       \/ UNCHANGED follows
    /\ UNCHANGED <<ownSlot, clientJob, closedByUser, timer, cut, pageVars>>

(* Mutant: an attempt to connect that failed is not repeated *)
ScheduledOnceOpen == timer' = (timer \/ (~closedByUser /\ clientJob # NoJob /\ follows' # follows))

(* onclose and scheduleReconnect *)
Scheduled == timer' = (timer \/ (~closedByUser /\ clientJob # NoJob))

(* A socket is closed: by the client, by the server or with the network *)
ConnectionCloses(k) ==
    /\ link[k] # "none"
    /\ link' = [link EXCEPT ![k] = "none"] /\ follows' = [follows EXCEPT ![k] = NoJob]
    /\ ownSlot' = IF ownSlot = k THEN NoJob ELSE ownSlot
    /\ Scheduled
    /\ UNCHANGED <<clientJob, closedByUser, cut, pageVars>>

TimerFires ==
    /\ timer /\ timer' = FALSE
    /\ \E k \in Slot : Opened(link, k)
    /\ UNCHANGED <<follows, clientJob, closedByUser, cut, pageVars>>

-----------------------------------------------------------------------------
(* views/shared/workerRuntime.js *)

(* Also the job that is selected already may be selected again *)
Select(j) ==
    /\ clientJob = NoJob \/ switches < MaxSwitches
    /\ Connect(j)
    /\ current' = j /\ details' = details \cup {j}

(* selectActiveJob clears what is shown and refreshes it from the store *)
SelectActiveJob(j) ==
    /\ ~left /\ Select(j)
    /\ shown' = j
    /\ UNCHANGED <<restoring, left>>

(* restoreActiveJobs: the answer may come after a submission has selected a job, *)
(* and after the view has been destroyed.                                        *)
RestoreActiveJobs ==
    /\ restoring /\ restoring' = FALSE
    /\ \/ \E j \in ViewJob : Select(j) /\ shown' = j
       \/ /\ current' = NoJob /\ shown' = NoJob      \* resetJobSession
          /\ UNCHANGED <<netVars, details, switches>>
    /\ UNCHANGED left

(* The answer of refreshJobDetail is applied whatever job is selected by then *)
DetailArrives(j) ==
    /\ j \in details /\ details' = details \ {j}
    /\ shown' = j
    /\ UNCHANGED <<netVars, current, restoring, left, switches>>

(* handleWebSocketMessage: the job of a message is not looked at.  A status that *)
(* ends a job is followed by refreshJobDetail, and so is a cancellation.         *)
MessageArrives(k) ==
    /\ link[k] = "open" /\ follows[k] # NoJob
    /\ shown' = follows[k]
    /\ details' \in {details, details \cup ({current} \ {NoJob})}
    /\ UNCHANGED <<netVars, current, restoring, left, switches>>

(* beforeDestroy *)
LeaveView ==
    /\ ~left /\ left' = TRUE
    /\ link' = LinkClosed /\ ownSlot' = NoJob
    /\ closedByUser' = TRUE /\ TimerStopped /\ CutCounted
    /\ UNCHANGED <<follows, clientJob, current, shown, details, restoring, switches>>

ViewNext ==
    \/ \E k \in Slot : SocketOpens(k) \/ ConnectionCloses(k) \/ MessageArrives(k)
    \/ \E j \in ViewJob : SelectActiveJob(j) \/ DetailArrives(j)
    \/ TimerFires \/ RestoreActiveJobs \/ LeaveView

(* The timer fires, and a connection that can be opened again and again is opened once *)
ViewFairness ==
    /\ WF_viewVars(TimerFires)
    /\ SF_viewVars(\E k \in Slot : k = ownSlot /\ SocketOpens(k))

ViewSpec == ViewInit /\ [][ViewNext]_viewVars /\ ViewFairness

-----------------------------------------------------------------------------
Extra   == {k \in Slot : link[k] \in {"connecting", "open"} /\ k # ownSlot}
Closing == {k \in Slot : link[k] = "closing"}

(* Connections beside this.socket have one source: each socket the client closes *)
(* itself is taken for lost and reconnected once, so there is at most one of them *)
(* for each, counting those still to come.  Losses of connections and a timer     *)
(* that runs when a job is selected add none.  And only after another job was     *)
(* selected can the view show the status of a job that is not the selected one.   *)
ExtraConnectionsComeFromSwitches ==
    /\ Cardinality(Extra) + Cardinality(Closing) + (IF timer /\ ownSlot # NoJob THEN 1 ELSE 0) <= cut
    /\ switches = 0 /\ current # NoJob => shown \in {NoJob, current}

(* However often the connection is lost, and whatever else was selected while it   *)
(* was, the view gets a connection again over which it has asked for the selected  *)
(* job, unless it is destroyed.  If the server refused that, it is not asked again *)
(* while the connection lasts.                                                     *)
StaysConnected ==
    []<>(\/ left \/ clientJob = NoJob
         \/ ownSlot # NoJob /\ link[ownSlot] = "open" /\ follows[ownSlot] \in {clientJob, NoJob})

(* "websocketClient.js reconnects after three seconds unless closed": the close    *)
(* event of a socket the client has closed itself starts no reconnection.          *)
ReconnectsUnlessClosed ==
    [][\A k \in Slot : link[k] = "closing" /\ link'[k] = "none" => (timer' => timer)]_viewVars
=============================================================================
