------------------------------ MODULE LiveProofs ------------------------------
(***************************************************************************)
(* Proofs about the parts of LivePlatform.  A step of the composition is a *)
(* step of one part and leaves the others alone, so each part is proved    *)
(* about by itself.                                                        *)
(***************************************************************************)
EXTENDS LivePlatform, FiniteSetTheorems, TLAPS

LEMMA StepsOfParts ==
    [LiveNext]_liveVars => /\ [ProcessNext]_processVars /\ [EventNext]_eventVars
                           /\ [ViewNext]_viewVars /\ [DeploymentNext]_deploymentVars
PROOF
BY DEF LiveNext, liveVars

-----------------------------------------------------------------------------
(* The process of a skill *)

(* The outcome is computed from result.json once the process has closed, after *)
(* which nobody writes the file; a job that is settled without a process has   *)
(* none.                                                                       *)
ResultIsFinal ==
    /\ ProcessTypeOK
    /\ child = "none" => written = "none"
    /\ Settled => child # "running"
    /\ DeliveredResultCounts

LEMMA ProcessStep == ResultIsFinal /\ [ProcessNext]_processVars => ResultIsFinal'
PROOF
<1> SUFFICES ASSUME ResultIsFinal, [ProcessNext]_processVars PROVE ResultIsFinal'
    OBVIOUS
<1> USE DEF ResultIsFinal, ProcessTypeOK, Settled, DeliveredResultCounts, StopStages
<1>1. CASE Spawn
    BY <1>1 DEF Spawn, ErrorCodes, Envelopes
<1>2. CASE ChildWrites
    BY <1>2 DEF ChildWrites
<1>3. CASE ChildEnds \/ DescendantsEnd
    BY <1>3 DEF ChildEnds, DescendantsEnd
<1>4. CASE CancelArrives \/ PollCancellation \/ SentinelDone
    BY <1>4 DEF CancelArrives, PollCancellation, SentinelDone
<1>5. CASE GraceEnds \/ TerminationEnds \/ TimeoutFires
    BY <1>5 DEF GraceEnds, TerminationEnds, TimeoutFires, AfterTermination, Kill
<1>6. CASE Close
    <2>1. Outcome(written, timedOut) \in Envelopes \cup ErrorCodes
          /\ (written \in Envelopes => Outcome(written, timedOut) = written)
        BY DEF Outcome, ErrorCodes, Envelopes
    <2> QED BY <1>6, <2>1 DEF Close, ProcessIsClosed
<1>7. CASE UNCHANGED processVars
    BY <1>7 DEF processVars
<1> QED BY <1>1, <1>2, <1>3, <1>4, <1>5, <1>6, <1>7 DEF ProcessNext

LEMMA ProcessHolds == LiveSpec => []ResultIsFinal
PROOF
<1>1. LiveInit => ResultIsFinal
    BY DEF LiveInit, ProcessInit, ResultIsFinal, ProcessTypeOK, Settled, DeliveredResultCounts,
           StopStages, Envelopes
<1> QED BY <1>1, StepsOfParts, ProcessStep, PTL DEF LiveSpec

(* Whatever stops the process and whenever: a result it managed to write is the *)
(* outcome of the job.                                                          *)
THEOREM WrittenResultsCount == LiveSpec => []DeliveredResultCounts
PROOF
<1>1. ResultIsFinal => DeliveredResultCounts
    BY DEF ResultIsFinal
<1> QED BY <1>1, ProcessHolds, PTL

-----------------------------------------------------------------------------
(* The events of a job *)

SubscriptionsAgree == EventTypeOK /\ subscribers \subseteq ofClient

(* What GhostsComeFromWaits says of one step *)
NoOtherGhosts == \A c \in Client : c \in Ghosts' \ Ghosts => subscribing[c] = "job" /\ socket[c] = "closed"

LEMMA BeatTypes ==
    ASSUME EventTypeOK
    PROVE  /\ StartBeat => beats' \in SUBSET LiveStatuses /\ Cardinality(beats') <= MaxBeats
           /\ \A s : beats \ {s} \in SUBSET LiveStatuses /\ Cardinality(beats \ {s}) <= MaxBeats
PROOF
<1>1. IsFiniteSet(LiveStatuses)
    <2>1. IsFiniteSet({})
        BY FS_EmptySet
    <2>2. IsFiniteSet({"completed"})
        BY FS_Singleton
    <2>3. LiveStatuses = {"completed", "failed", "cancelled", "queued", "generating", "cancelling"}
        BY DEF LiveStatuses, EndStatuses
    <2>4. IsFiniteSet({"completed"} \cup {"failed"})
        BY <2>2, FS_AddElement
    <2>5. IsFiniteSet(({"completed"} \cup {"failed"}) \cup {"cancelled"})
        BY <2>4, FS_AddElement
    <2>6. IsFiniteSet((({"completed"} \cup {"failed"}) \cup {"cancelled"}) \cup {"queued"})
        BY <2>5, FS_AddElement
    <2>7. IsFiniteSet(((({"completed"} \cup {"failed"}) \cup {"cancelled"}) \cup {"queued"}) \cup {"generating"})
        BY <2>6, FS_AddElement
    <2>8. IsFiniteSet((((({"completed"} \cup {"failed"}) \cup {"cancelled"}) \cup {"queued"}) \cup {"generating"})
                      \cup {"cancelling"})
        BY <2>7, FS_AddElement
    <2>9. LiveStatuses = (((({"completed"} \cup {"failed"}) \cup {"cancelled"}) \cup {"queued"}) \cup {"generating"})
                         \cup {"cancelling"}
        BY <2>3
    <2> QED BY <2>8, <2>9
<1>2. IsFiniteSet(beats)
    BY <1>1, FS_Subset DEF EventTypeOK
<1>3. ASSUME NEW s
      PROVE  Cardinality(beats \ {s}) <= MaxBeats
    <2>1. IsFiniteSet(beats \ {s}) /\ Cardinality(beats \ {s}) <= Cardinality(beats)
        BY <1>2, FS_Subset
    <2>2. Cardinality(beats \ {s}) \in Nat /\ Cardinality(beats) \in Nat
        BY <1>2, <2>1, FS_CardinalityType
    <2> QED BY <2>1, <2>2, MaxBeatsAssumption DEF EventTypeOK
<1> QED BY <1>3 DEF StartBeat, EventTypeOK

LEMMA EventStep ==
    SubscriptionsAgree /\ [EventNext]_eventVars => SubscriptionsAgree' /\ NoOtherGhosts
PROOF
<1> SUFFICES ASSUME SubscriptionsAgree, [EventNext]_eventVars
             PROVE  SubscriptionsAgree' /\ NoOtherGhosts
    OBVIOUS
<1>0. /\ EventTypeOK /\ subscribers \subseteq ofClient
      /\ EndStatuses \subseteq LiveStatuses
      /\ {"queued", "generating", "cancelling", "completed", "failed", "cancelled"} \subseteq LiveStatuses
      /\ {"CANCELLED", "CANCELLING", "COMPLETED", "FAILED", "skill", "VALIDATION_STARTED"} \subseteq Phases
    BY DEF SubscriptionsAgree, LiveStatuses, EndStatuses, Phases, TerminalPhases
<1>1. \A to, s : Send(to, s) => told' \in [Client -> SUBSET EndStatuses]
    <2> SUFFICES ASSUME NEW to, NEW s, Send(to, s) PROVE told' \in [Client -> SUBSET EndStatuses]
        OBVIOUS
    <2> QED BY <1>0 DEF Send, EventTypeOK
(* A step of the job alone *)
<1>2. ASSUME UNCHANGED clientVars,
             jobStatus' \in LiveStatuses, workPhase' \in Phases,
             runner' \in {"waiting", "claimed", "starting", "working", "saved", "ending", "ended"},
             cancelling' \in {"no", "marked", "done"}, renewing' \in BOOLEAN,
             events' \in SUBSET LiveStatuses,
             beats' \in SUBSET LiveStatuses, Cardinality(beats') <= MaxBeats,
             told' \in [Client -> SUBSET EndStatuses]
      PROVE  SubscriptionsAgree' /\ NoOtherGhosts
    BY <1>0, <1>2 DEF clientVars, EventTypeOK, SubscriptionsAgree, NoOtherGhosts, Ghosts
<1>3. CASE ClaimJob \/ BeginWork \/ StartAnnounced
    BY <1>0, <1>2, <1>3 DEF ClaimJob, BeginWork, StartAnnounced, SetPhase, EventTypeOK
<1>4. CASE Progress \/ RenewStarts
    BY <1>0, <1>2, <1>4, BeatTypes DEF Progress, RenewStarts, SetPhase, EventTypeOK
<1>5. CASE SaveEnd \/ EndAnnounced \/ RunThrows
    BY <1>0, <1>2, <1>5 DEF SaveEnd, EndAnnounced, RunThrows, EventTypeOK
<1>6. CASE AnnounceEnd
    <2>1. \A s : PhaseOfEnd(s) \in Phases
        BY <1>0 DEF PhaseOfEnd
    <2> QED BY <1>0, <1>2, <1>6, <2>1 DEF AnnounceEnd, EventTypeOK
<1>7. CASE RenewAnswered
    BY <1>0, <1>2, <1>7, BeatTypes DEF RenewAnswered, EventTypeOK
<1>8. CASE CancelMarks \/ CancelSaves
    BY <1>0, <1>2, <1>8, BeatTypes DEF CancelMarks, CancelSaves, EventTypeOK
<1>9. ASSUME NEW s \in LiveStatuses, PublishEvent(s) \/ PublishBeat(s)
      PROVE  SubscriptionsAgree' /\ NoOtherGhosts
    BY <1>0, <1>1, <1>2, <1>9, BeatTypes DEF PublishEvent, PublishBeat, jobVars, EventTypeOK
<1>10. CASE LiveBeat
    BY <1>0, <1>2, <1>10, BeatTypes DEF LiveBeat, jobVars, EventTypeOK
<1>11. ASSUME NEW c \in Client, ClientStep(c)
       PROVE  SubscriptionsAgree' /\ NoOtherGhosts
    <2> USE <1>0 DEF SubscriptionsAgree, EventTypeOK, NoOtherGhosts, Ghosts, jobVars, WithoutClient
    <2>1. CASE SubscribeReads(c)
        BY <2>1 DEF SubscribeReads
    <2>2. CASE SubscribeAdds(c)
        BY <2>2 DEF SubscribeAdds
    <2>3. CASE SnapshotSent(c)
        BY <1>1, <2>3 DEF SnapshotSent
    <2>4. CASE Unsubscribe(c)
        BY <2>4 DEF Unsubscribe
    <2>5. CASE SocketCloses(c)
        BY <2>5 DEF SocketCloses
    <2> QED BY <1>11, <2>1, <2>2, <2>3, <2>4, <2>5 DEF ClientStep
<1>12. CASE UNCHANGED eventVars
    BY <1>0, <1>2, <1>12 DEF eventVars, clientVars, EventTypeOK
<1> QED
    BY <1>3, <1>4, <1>5, <1>6, <1>7, <1>8, <1>9, <1>10, <1>11, <1>12 DEF EventNext

LEMMA EventsHold == LiveSpec => []SubscriptionsAgree
PROOF
<1>1. LiveInit => SubscriptionsAgree
    <2>1. Cardinality({}) = 0 /\ 0 <= MaxBeats
        BY FS_EmptySet, MaxBeatsAssumption
    <2> QED BY <2>1 DEF LiveInit, EventInit, SubscriptionsAgree, EventTypeOK, LiveStatuses, Phases
<1> QED BY <1>1, StepsOfParts, EventStep, PTL DEF LiveSpec

(* A closed socket comes among the subscribers only through a subscribe request *)
(* whose read was under way when it closed.                                     *)
THEOREM GhostsHaveOneSource == LiveSpec => GhostsComeFromWaits
PROOF
<1>1. SubscriptionsAgree /\ [LiveNext]_liveVars =>
          [\A c \in Client : c \in Ghosts' \ Ghosts => subscribing[c] = "job" /\ socket[c] = "closed"]_eventVars
    BY StepsOfParts, EventStep DEF NoOtherGhosts
<1> QED BY <1>1, EventsHold, PTL DEF LiveSpec, GhostsComeFromWaits

-----------------------------------------------------------------------------
(* The browser's connection *)

Used == {k \in Slot : link[k] # "none"}

(* What LinkClosed is the only source of, and who has a job to reconnect for *)
CutsAreSwitches ==
    /\ ViewTypeOK
    /\ ownSlot # NoJob => clientJob # NoJob /\ link[ownSlot] \in {"connecting", "open"}
    /\ timer => clientJob # NoJob
    /\ cut <= switches + (IF left THEN 1 ELSE 0)

(* Until another job is selected the view knows of one job only *)
OneJobIsKnown ==
    switches = 0 =>
        /\ details \subseteq {clientJob} /\ shown \in {NoJob, clientJob} /\ current \in {NoJob, clientJob}
        /\ \A k \in Slot : follows[k] \in {NoJob, clientJob}

LEMMA LinkTypes ==
    ASSUME CutsAreSwitches
    PROVE  /\ LinkClosed \in [Slot -> {"none", "connecting", "open", "closing"}]
           /\ \A k \in Slot : k # ownSlot => LinkClosed[k] = link[k]
           /\ ownSlot # NoJob => LinkClosed[ownSlot] = "closing"
           /\ ownSlot = NoJob => LinkClosed = link
PROOF
<1>1. NoJob \notin Slot /\ link \in [Slot -> {"none", "connecting", "open", "closing"}]
      /\ ownSlot \in Slot \cup {NoJob}
    BY ViewAssumption DEF CutsAreSwitches, ViewTypeOK
<1> QED BY <1>1 DEF LinkClosed

(* A selection: one of the first job adds none to cut, any other is counted *)
LEMMA SelectKeeps ==
    ASSUME CutsAreSwitches, OneJobIsKnown, NEW j \in ViewJob, Select(j), shown' = j, UNCHANGED left,
           restoring' \in BOOLEAN
    PROVE  CutsAreSwitches' /\ OneJobIsKnown'
PROOF
<1>1. PICK k \in Slot : LinkClosed[k] = "none" /\ link' = [LinkClosed EXCEPT ![k] = "connecting"] /\ ownSlot' = k
    BY DEF Select, Connect, Opened
<1>2. /\ clientJob' = j /\ closedByUser' = FALSE /\ timer' = FALSE /\ UNCHANGED follows
      /\ switches' = IF clientJob = NoJob THEN switches ELSE switches + 1
      /\ cut' = IF ownSlot = NoJob THEN cut ELSE cut + 1
      /\ clientJob = NoJob \/ switches < MaxSwitches
      /\ current' = j /\ details' = details \cup {j}
    BY DEF Select, Connect, CutCounted, TimerStopped
<1>3. NoJob \notin ViewJob /\ NoJob \notin Slot /\ MaxSwitches \in Nat
    BY ViewAssumption
<1>4. link' \in [Slot -> {"none", "connecting", "open", "closing"}] /\ link'[k] = "connecting"
    BY <1>1, LinkTypes
<1>5. switches' \in 0..MaxSwitches /\ cut' <= switches' + (IF left' THEN 1 ELSE 0) /\ cut' \in Nat
    BY <1>2, <1>3 DEF CutsAreSwitches, ViewTypeOK
<1>6. CutsAreSwitches'
    <2>1. cut' \in 0..(MaxSwitches + 2)
        <3>1. \A m \in Nat, n \in {0, 1}, s \in 0..MaxSwitches : m <= s + n => m \in 0..(MaxSwitches + 2)
            BY <1>3
        <3>2. (IF left' THEN 1 ELSE 0) \in {0, 1}
            OBVIOUS
        <3> QED BY <1>5, <3>1, <3>2, Zenon
    <2>2. ViewTypeOK'
        BY <1>1, <1>2, <1>4, <1>5, <2>1 DEF CutsAreSwitches, ViewTypeOK
    <2> QED BY <1>1, <1>2, <1>3, <1>4, <1>5, <2>2 DEF CutsAreSwitches
<1>7. OneJobIsKnown'
    BY <1>1, <1>2, <1>3 DEF CutsAreSwitches, ViewTypeOK, OneJobIsKnown
<1> QED BY <1>6, <1>7

LEMMA ViewStep ==
    CutsAreSwitches /\ OneJobIsKnown /\ [ViewNext]_viewVars => CutsAreSwitches' /\ OneJobIsKnown'
PROOF
<1> SUFFICES ASSUME CutsAreSwitches, OneJobIsKnown, [ViewNext]_viewVars
             PROVE  CutsAreSwitches' /\ OneJobIsKnown'
    OBVIOUS
<1>0. NoJob \notin ViewJob /\ NoJob \notin Slot /\ MaxSwitches \in Nat
    BY ViewAssumption
<1>1. ASSUME NEW k \in Slot, SocketOpens(k)
      PROVE  CutsAreSwitches' /\ OneJobIsKnown'
    <2>1. /\ link' = [link EXCEPT ![k] = "open"]
          /\ follows' = follows \/ (ownSlot \in Slot /\ follows' = [follows EXCEPT ![ownSlot] = clientJob])
          /\ UNCHANGED <<ownSlot, clientJob, closedByUser, timer, cut, current, shown, details, restoring,
                         left, switches>>
        BY <1>1 DEF SocketOpens, pageVars, CutsAreSwitches, ViewTypeOK
    <2>2. CutsAreSwitches'
        BY <1>0, <2>1 DEF CutsAreSwitches, ViewTypeOK
    <2> QED BY <2>1, <2>2 DEF CutsAreSwitches, ViewTypeOK, OneJobIsKnown
<1>2. ASSUME NEW k \in Slot, ConnectionCloses(k)
      PROVE  CutsAreSwitches' /\ OneJobIsKnown'
    <2>1. /\ link' = [link EXCEPT ![k] = "none"] /\ follows' = [follows EXCEPT ![k] = NoJob]
          /\ ownSlot' = IF ownSlot = k THEN NoJob ELSE ownSlot
          /\ timer' \in BOOLEAN /\ (timer' => timer \/ clientJob # NoJob)
          /\ UNCHANGED <<clientJob, closedByUser, cut, current, shown, details, restoring, left, switches>>
        BY <1>2 DEF ConnectionCloses, Scheduled, pageVars
    <2>2. CutsAreSwitches'
        BY <1>0, <2>1 DEF CutsAreSwitches, ViewTypeOK
    <2> QED BY <2>1, <2>2 DEF CutsAreSwitches, ViewTypeOK, OneJobIsKnown
<1>3. ASSUME NEW k \in Slot, MessageArrives(k)
      PROVE  CutsAreSwitches' /\ OneJobIsKnown'
    BY <1>0, <1>3 DEF MessageArrives, netVars, CutsAreSwitches, ViewTypeOK, OneJobIsKnown
<1>4. ASSUME NEW j \in ViewJob, SelectActiveJob(j)
      PROVE  CutsAreSwitches' /\ OneJobIsKnown'
    BY <1>4, SelectKeeps DEF SelectActiveJob, CutsAreSwitches, ViewTypeOK
<1>5. ASSUME NEW j \in ViewJob, DetailArrives(j)
      PROVE  CutsAreSwitches' /\ OneJobIsKnown'
    BY <1>5 DEF DetailArrives, netVars, CutsAreSwitches, ViewTypeOK, OneJobIsKnown
<1>6. CASE TimerFires
    <2>1. PICK k \in Slot : link' = [link EXCEPT ![k] = "connecting"] /\ ownSlot' = k
        BY <1>6 DEF TimerFires, Opened
    <2> QED BY <1>6, <2>1 DEF TimerFires, pageVars, CutsAreSwitches, ViewTypeOK, OneJobIsKnown
<1>7. CASE RestoreActiveJobs
    <2>1. ASSUME NEW j \in ViewJob, Select(j), shown' = j
          PROVE  CutsAreSwitches' /\ OneJobIsKnown'
        BY <1>7, <2>1, SelectKeeps DEF RestoreActiveJobs
    <2>2. CASE current' = NoJob /\ shown' = NoJob /\ UNCHANGED <<netVars, details, switches>>
        BY <1>7, <2>2 DEF RestoreActiveJobs, netVars, CutsAreSwitches, ViewTypeOK, OneJobIsKnown
    <2> QED BY <1>7, <2>1, <2>2 DEF RestoreActiveJobs
<1>8. CASE LeaveView
    <2>1. /\ link' \in [Slot -> {"none", "connecting", "open", "closing"}] /\ ownSlot' = NoJob
          /\ timer' = FALSE /\ closedByUser' = TRUE /\ left' = TRUE /\ ~left
          /\ cut' = IF ownSlot = NoJob THEN cut ELSE cut + 1
          /\ UNCHANGED <<follows, clientJob, current, shown, details, restoring, switches>>
        BY <1>8, LinkTypes DEF LeaveView, TimerStopped, CutCounted
    <2>2. cut' \in 0..(MaxSwitches + 2) /\ cut' <= switches' + 1
        BY <1>0, <2>1 DEF CutsAreSwitches, ViewTypeOK
    <2>3. ViewTypeOK'
        BY <2>1, <2>2 DEF CutsAreSwitches, ViewTypeOK
    <2> QED BY <2>1, <2>2, <2>3 DEF CutsAreSwitches, OneJobIsKnown
<1>9. CASE UNCHANGED viewVars
    BY <1>9 DEF viewVars, CutsAreSwitches, ViewTypeOK, OneJobIsKnown
<1> QED BY <1>1, <1>2, <1>3, <1>4, <1>5, <1>6, <1>7, <1>8, <1>9 DEF ViewNext

(* The sockets that count: those beside this.socket, those the client has closed, *)
(* and the one that a timer is going to open beside this.socket                   *)
Pending  == IF timer /\ ownSlot # NoJob THEN 1 ELSE 0
Balanced ==
    /\ IsFiniteSet(Used)
    /\ Cardinality(Extra) + Cardinality(Closing) + Pending <= cut

LEMMA Counted ==
    ASSUME IsFiniteSet(Used)
    PROVE  /\ IsFiniteSet(Extra) /\ Cardinality(Extra) \in Nat
           /\ IsFiniteSet(Closing) /\ Cardinality(Closing) \in Nat
           /\ Pending \in {0, 1}
PROOF
<1>1. IsFiniteSet(Extra) /\ IsFiniteSet(Closing)
    BY FS_Subset DEF Extra, Closing, Used
<1>2. Cardinality(Extra) \in Nat /\ Cardinality(Closing) \in Nat
    BY <1>1, FS_CardinalityType
<1> QED BY <1>1, <1>2 DEF Pending

LEMMA UsedStaysFinite ==
    ASSUME IsFiniteSet(Used)
    PROVE  \A x : IsFiniteSet(Used \cup {x}) /\ IsFiniteSet(Used \ {x})
PROOF
<1> HIDE DEF Used
<1> QED BY FS_AddElement, FS_RemoveElement

LEMMA CountedWith ==
    ASSUME IsFiniteSet(Used)
    PROVE  \A x : /\ Cardinality(Extra \cup {x}) \in Nat
                  /\ Cardinality(Extra \cup {x}) <= Cardinality(Extra) + 1
                  /\ Cardinality(Closing \cup {x}) \in Nat
                  /\ Cardinality(Closing \cup {x}) <= Cardinality(Closing) + 1
PROOF
<1>1. ASSUME NEW S, IsFiniteSet(S), NEW x
      PROVE  Cardinality(S \cup {x}) \in Nat /\ Cardinality(S \cup {x}) <= Cardinality(S) + 1
    <2>1. Cardinality(S) \in Nat
        BY <1>1, FS_CardinalityType
    <2>2. Cardinality(S \cup {x}) \in {Cardinality(S), Cardinality(S) + 1}
        BY <1>1, FS_AddElement
    <2> QED BY <2>1, <2>2
<1> HIDE DEF Extra, Closing
<1> QED BY <1>1, Counted, Zenon

LEMMA CountedWithout ==
    ASSUME IsFiniteSet(Used)
    PROVE  /\ \A x \in Extra : Cardinality(Extra \ {x}) = Cardinality(Extra) - 1
           /\ \A x \in Closing : Cardinality(Closing \ {x}) = Cardinality(Closing) - 1
PROOF
<1>1. \A S : IsFiniteSet(S) => \A x : x \in S => Cardinality(S \ {x}) = Cardinality(S) - 1
    BY FS_RemoveElement
<1> HIDE DEF Extra, Closing
<1> QED BY <1>1, Counted, Zenon

LEMMA BalanceStep ==
    CutsAreSwitches /\ Balanced /\ [ViewNext]_viewVars => Balanced'
PROOF
<1> SUFFICES ASSUME CutsAreSwitches, Balanced, [ViewNext]_viewVars PROVE Balanced'
    OBVIOUS
<1>0. /\ NoJob \notin Slot /\ link \in [Slot -> {"none", "connecting", "open", "closing"}] /\ cut \in Nat
      /\ ownSlot \in Slot \cup {NoJob} /\ (ownSlot # NoJob => link[ownSlot] \in {"connecting", "open"})
      /\ IsFiniteSet(Used) /\ Cardinality(Extra) + Cardinality(Closing) + Pending <= cut
    BY ViewAssumption DEF CutsAreSwitches, ViewTypeOK, Balanced
<1>12. \A x : IsFiniteSet(Used \cup {x}) /\ IsFiniteSet(Used \ {x})
    BY <1>0, UsedStaysFinite, Zenon
<1> DEFINE e == Cardinality(Extra)
<1> DEFINE c == Cardinality(Closing)
<1>10. e \in Nat /\ c \in Nat /\ Pending \in {0, 1} /\ e + c + Pending <= cut
    BY <1>0, Counted
<1>13. /\ \A x \in Extra : Cardinality(Extra \ {x}) = e - 1
      /\ \A x \in Closing : Cardinality(Closing \ {x}) = c - 1
    BY <1>0, CountedWithout, Zenon
<1>14. \A x : /\ Cardinality(Extra \cup {x}) \in Nat /\ Cardinality(Extra \cup {x}) <= e + 1
             /\ Cardinality(Closing \cup {x}) \in Nat /\ Cardinality(Closing \cup {x}) <= c + 1
    BY <1>0, CountedWith, Zenon
<1>11. ASSUME IsFiniteSet(Used'), NEW m \in Int, NEW n \in Int, NEW p \in {0, 1},
              Cardinality(Extra') = m, Cardinality(Closing') = n, Pending' = p, m + n + p <= cut'
       PROVE  Balanced'
    BY <1>11 DEF Balanced
<1> HIDE DEF e, c
<1>1. CASE UNCHANGED <<link, ownSlot, timer, cut>>
    BY <1>0, <1>1 DEF Balanced, Used, Extra, Closing, Pending
<1>2. ASSUME NEW k \in Slot, SocketOpens(k)
      PROVE  Balanced'
    <2>1. link[k] = "connecting" /\ link' = [link EXCEPT ![k] = "open"] /\ UNCHANGED <<ownSlot, timer, cut>>
        BY <1>2 DEF SocketOpens
    <2>2. Used' = Used /\ Extra' = Extra /\ Closing' = Closing /\ Pending' = Pending
        BY <1>0, <2>1 DEF Used, Extra, Closing, Pending
    <2> QED BY <1>0, <2>1, <2>2 DEF Balanced
<1>3. ASSUME NEW k \in Slot, ConnectionCloses(k)
      PROVE  Balanced'
    <2>1. /\ link[k] # "none" /\ link' = [link EXCEPT ![k] = "none"] /\ UNCHANGED cut
          /\ ownSlot' = IF ownSlot = k THEN NoJob ELSE ownSlot
        BY <1>3 DEF ConnectionCloses
    <2>2. IsFiniteSet(Used') /\ Pending' \in {0, 1}
        <3>1. Used' = Used \ {k}
            BY <1>0, <2>1 DEF Used
        <3>2. IsFiniteSet(Used')
            BY <1>12, <3>1, Zenon
        <3> QED BY <3>2 DEF Pending
    <2>3. CASE ownSlot = k
        <3>1. Extra' = Extra /\ Closing' = Closing /\ Pending' = 0
            BY <1>0, <2>1, <2>3 DEF Extra, Closing, Pending
        <3>2. Cardinality(Extra') = e /\ Cardinality(Closing') = c
            BY <3>1 DEF e, c
        <3>3. e + c + 0 <= cut'
            BY <1>0, <1>10, <2>1
        <3> QED BY <1>10, <1>11, <2>2, <3>1, <3>2, <3>3
    <2>4. CASE link[k] = "closing"
        <3>1. Extra' = Extra /\ Closing' = Closing \ {k} /\ k \in Closing
            BY <1>0, <2>1, <2>4 DEF Extra, Closing
        <3>2. Cardinality(Extra') = e /\ Cardinality(Closing') = c - 1
            <4>1. Cardinality(Extra') = e
                BY <3>1, Zenon DEF e
            <4>2. Cardinality(Closing \ {k}) = c - 1
                <5>1. k \in Closing
                    BY <3>1
                <5> QED BY <1>13, <5>1, Zenon
            <4>3. Cardinality(Closing') = c - 1
                BY <4>2, <3>1, Zenon
            <4> QED BY <4>1, <4>3
        <3>3. c - 1 \in Int /\ \A p \in {0, 1} : e + (c - 1) + p <= cut'
            BY <1>0, <1>10, <2>1
        <3> QED BY <1>10, <1>11, <2>2, <3>2, <3>3
    <2>5. CASE ownSlot # k /\ link[k] \in {"connecting", "open"}
        <3>1. Extra' = Extra \ {k} /\ k \in Extra /\ Closing' = Closing
            BY <1>0, <2>1, <2>5 DEF Extra, Closing
        <3>2. Cardinality(Extra') = e - 1 /\ Cardinality(Closing') = c
            <4>1. Cardinality(Extra \ {k}) = e - 1
                <5>1. k \in Extra
                    BY <3>1
                <5> QED BY <1>13, <5>1, Zenon
            <4>3. Cardinality(Extra') = e - 1
                BY <4>1, <3>1, Zenon
            <4>2. Cardinality(Closing') = c
                BY <3>1, Zenon DEF c
            <4> QED BY <4>2, <4>3
        <3>3. e - 1 \in Int /\ \A p \in {0, 1} : (e - 1) + c + p <= cut'
            BY <1>0, <1>10, <2>1
        <3> QED BY <1>10, <1>11, <2>2, <3>2, <3>3
    <2> QED BY <1>0, <2>1, <2>3, <2>4, <2>5
<1>4. CASE TimerFires
    <2>1. PICK k \in Slot : /\ link[k] = "none" /\ link' = [link EXCEPT ![k] = "connecting"]
                            /\ ownSlot' = k /\ timer /\ timer' = FALSE /\ UNCHANGED cut
        BY <1>4 DEF TimerFires, Opened
    <2>2. Used' = Used \cup {k} /\ Closing' = Closing /\ Pending' = 0
        BY <1>0, <2>1 DEF Used, Closing, Pending
    <2>5. IsFiniteSet(Used') /\ Cardinality(Closing') = c
        BY <1>12, <2>2, Zenon DEF c
    <2>3. CASE ownSlot = NoJob
        <3>1. Cardinality(Extra') = e
            <4>1. Extra' = Extra
                BY <1>0, <2>1, <2>3 DEF Extra
            <4> QED BY <4>1 DEF e
        <3>2. e + c + 0 <= cut'
            BY <1>0, <1>10, <2>1
        <3> QED BY <1>10, <1>11, <2>2, <2>5, <3>1, <3>2
    <2>4. CASE ownSlot # NoJob
        <3>1. Extra' = Extra \cup {ownSlot} /\ Pending = 1
            BY <1>0, <2>1, <2>4 DEF Extra, Pending
        <3>2. PICK m \in Nat : m = Cardinality(Extra') /\ m <= e + 1
            BY <1>14, <3>1, Zenon
        <3>3. m + c + 0 <= cut'
            BY <1>0, <1>10, <2>1, <3>1, <3>2
        <3> QED BY <1>10, <1>11, <2>2, <2>5, <3>2, <3>3
    <2> QED BY <2>3, <2>4
(* this.socket is closed by the client, and counted *)
<1>5. ASSUME NEW used, Used' = Used \cup used, used = {} \/ \E k : used = {k},
             Extra' = Extra, Closing' = Closing \cup ({ownSlot} \ {NoJob}),
             timer' = FALSE, CutCounted
      PROVE  Balanced'
    <2>1. IsFiniteSet(Used') /\ Pending' = 0 /\ Cardinality(Extra') = e
        <3>1. used = {} => Used' = Used
            BY <1>5
        <3>2. IsFiniteSet(Used') /\ Cardinality(Extra') = e
            BY <1>0, <1>5, <1>12, <3>1, Zenon DEF e
        <3> QED BY <1>5, <3>2 DEF Pending
    <2>2. CASE ownSlot = NoJob
        <3>1. Closing' = Closing /\ cut' = cut
            BY <1>5, <2>2 DEF CutCounted
        <3>2. Cardinality(Closing') = c
            BY <3>1 DEF c
        <3>3. e + c + 0 <= cut'
            BY <1>0, <1>10, <3>1
        <3> QED BY <1>10, <1>11, <2>1, <3>2, <3>3
    <2>3. CASE ownSlot # NoJob
        <3>1. Closing' = Closing \cup {ownSlot} /\ cut' = cut + 1
            BY <1>5, <2>3 DEF CutCounted
        <3>2. PICK n \in Nat : n = Cardinality(Closing') /\ n <= c + 1
            BY <1>14, <3>1, Zenon
        <3>3. e + n + 0 <= cut'
            BY <1>0, <1>10, <3>1, <3>2
        <3> QED BY <1>10, <1>11, <2>1, <3>2, <3>3
    <2> QED BY <2>2, <2>3
<1>6. ASSUME NEW j \in ViewJob, Connect(j)
      PROVE  Balanced'
    <2>1. PICK k \in Slot : LinkClosed[k] = "none" /\ link' = [LinkClosed EXCEPT ![k] = "connecting"] /\ ownSlot' = k
        BY <1>6 DEF Connect, Opened
    <2>2. /\ Used' = Used \cup {k} /\ Extra' = Extra
          /\ Closing' = Closing \cup ({ownSlot} \ {NoJob})
        BY <1>0, <2>1, LinkTypes DEF Used, Extra, Closing
    <2> QED BY <1>5, <1>6, <2>2 DEF Connect, TimerStopped
<1>7. CASE LeaveView
    <2>1. /\ Used' = Used \cup {} /\ Extra' = Extra
          /\ Closing' = Closing \cup ({ownSlot} \ {NoJob})
        BY <1>0, <1>7, LinkTypes DEF LeaveView, Used, Extra, Closing
    <2> QED BY <1>5, <1>7, <2>1 DEF LeaveView, TimerStopped
<1>8. \/ UNCHANGED <<link, ownSlot, timer, cut>>
      \/ \E k \in Slot : SocketOpens(k) \/ ConnectionCloses(k)
      \/ TimerFires \/ LeaveView \/ \E j \in ViewJob : Connect(j)
    BY DEF ViewNext, MessageArrives, SelectActiveJob, Select, DetailArrives, RestoreActiveJobs,
           netVars, viewVars
<1> QED BY <1>1, <1>2, <1>3, <1>4, <1>6, <1>7, <1>8

LEMMA ViewHolds == LiveSpec => [](CutsAreSwitches /\ OneJobIsKnown /\ Balanced)
PROOF
<1>1. LiveInit => CutsAreSwitches /\ OneJobIsKnown /\ Balanced
    <2> SUFFICES ASSUME ViewInit PROVE CutsAreSwitches /\ OneJobIsKnown /\ Balanced
        BY DEF LiveInit
    <2>1. Used = {} /\ Extra = {} /\ Closing = {}
        BY DEF ViewInit, Used, Extra, Closing
    <2>2. IsFiniteSet({}) /\ Cardinality({}) = 0
        BY FS_EmptySet
    <2>3. Balanced
        <3>1. IsFiniteSet(Used) /\ Cardinality(Extra) = 0 /\ Cardinality(Closing) = 0
            BY <2>1, <2>2, Zenon
        <3> QED BY <3>1 DEF ViewInit, Balanced, Pending
    <2>4. CutsAreSwitches
        <3>1. 0 \in 0..MaxSwitches /\ 0 \in 0..(MaxSwitches + 2)
            BY ViewAssumption
        <3>2. ViewTypeOK /\ cut = 0 /\ switches = 0 /\ left = FALSE
            BY <3>1 DEF ViewInit, ViewTypeOK
        <3> QED BY <3>2 DEF ViewInit, CutsAreSwitches
    <2>5. OneJobIsKnown
        BY DEF ViewInit, OneJobIsKnown
    <2> QED BY <2>3, <2>4, <2>5
<1> QED BY <1>1, StepsOfParts, ViewStep, BalanceStep, PTL DEF LiveSpec

(* However connections are lost and reconnected, and whatever the user selects and *)
(* whenever the view is left: a socket beside this.socket stands for one that the  *)
(* client has closed itself, and a status of another job for a selection.          *)
THEOREM SwitchesAreTheOnlySource == LiveSpec => []ExtraConnectionsComeFromSwitches
PROOF
<1>1. OneJobIsKnown /\ Balanced => ExtraConnectionsComeFromSwitches
    BY DEF OneJobIsKnown, Balanced, Pending, ExtraConnectionsComeFromSwitches
<1> QED BY <1>1, ViewHolds, PTL

-----------------------------------------------------------------------------
(* A deployment *)

LEMMA DeploymentStep == DeploymentTypeOK /\ [DeploymentNext]_deploymentVars => DeploymentTypeOK'
PROOF
<1> SUFFICES ASSUME DeploymentTypeOK, [DeploymentNext]_deploymentVars PROVE DeploymentTypeOK'
    OBVIOUS
<1> USE DEF DeploymentTypeOK, hostVars
(* Each of the parts that several steps change, for any value they give it *)
<1>1. ASSUME NEW s \in Services, NEW v \in {"none", "booting", "listening"}, NEW port \in Ports
      PROVE  [process EXCEPT ![s][port] = v] \in [Services -> [Ports -> {"none", "booting", "listening"}]]
    OBVIOUS
<1>2. ASSUME NEW d \in Handoff,
             NEW stage \in {"none", "accepted", "spawned", "stopping", "waiting", "stopped", "built", "ended"}
      PROVE  [handoff EXCEPT ![d] = stage]
                 \in [Handoff -> {"none", "accepted", "spawned", "stopping", "waiting", "stopped", "built", "ended"}]
    OBVIOUS
<1>3. CASE DeploymentRefused \/ CheckDeploymentHealth
    BY <1>3 DEF DeploymentRefused, CheckDeploymentHealth
<1>4. ASSUME NEW d \in Handoff, StartDeployment(d) \/ ScriptStep(d)
      PROVE  DeploymentTypeOK'
    <2> USE DEF HandoffTo, GivesUp
    <2>1. CASE StartDeployment(d)
        <3>1. spoilt' \subseteq Handoff
            BY <2>1 DEF StartDeployment, OverlapWith
        <3>2. console' \in {"idle", "waiting", "ready", "failed"}
            BY <2>1 DEF StartDeployment
        <3> QED BY <1>2, <2>1, <3>1, <3>2 DEF StartDeployment
    <2>2. CASE HandoffSpawned(d) \/ FrontendBuilt(d)
        BY <1>2, <2>2 DEF HandoffSpawned, FrontendBuilt
    <2>3. CASE ListListeners(d)
        <3>1. Targets \in SUBSET (Services \X Ports)
            BY DEF Targets
        <3>2. listed' \in [Handoff -> SUBSET (Services \X Ports)]
            BY <2>3, <3>1 DEF ListListeners
        <3> QED BY <1>2, <2>3, <3>2 DEF ListListeners
    <2>4. CASE StopListener(d)
        <3>1. PICK t \in listed[d] :
                  /\ process' = [process EXCEPT ![t[1]][t[2]] = "none"]
                  /\ listed' = [listed EXCEPT ![d] = AfterStopping(d, t)]
            BY <2>4 DEF StopListener
        <3>2. t[1] \in Services /\ t[2] \in Ports
            BY <3>1
        <3>3. AfterStopping(d, t) \in SUBSET (Services \X Ports)
            BY DEF AfterStopping
        <3>4. listed' \in [Handoff -> SUBSET (Services \X Ports)]
            BY <3>1, <3>3
        <3>5. process' \in [Services -> [Ports -> {"none", "booting", "listening"}]]
            BY <1>1, <3>1, <3>2
        <3>6. handoffInProgress' \in BOOLEAN
            BY <2>4 DEF StopListener
        <3> QED BY <2>4, <3>4, <3>5, <3>6 DEF StopListener
    <2>5. CASE AllStopped(d) \/ StopScriptEnds(d)
        BY <1>2, <2>5 DEF AllStopped, StopScriptEnds
    <2>6. CASE ServicesLaunched(d)
        <3>1. [port \in Ports |-> "booting"] \in [Ports -> {"none", "booting", "listening"}] /\ d \in Services
            BY DEF Services
        <3>2. process' \in [Services -> [Ports -> {"none", "booting", "listening"}]]
            BY <2>6, <3>1 DEF ServicesLaunched
        <3> QED BY <1>2, <2>6, <3>2 DEF ServicesLaunched
    <2>7. CASE StopFails(d)
        <3>1. listed' \in [Handoff -> SUBSET (Services \X Ports)]
            BY <2>7 DEF StopFails
        <3> QED BY <1>2, <2>7, <3>1 DEF StopFails
    <2> QED BY <1>4, <2>1, <2>2, <2>3, <2>4, <2>5, <2>6, <2>7 DEF ScriptStep
<1>5. ASSUME NEW s \in Services, StartServerThrows(s)
      PROVE  DeploymentTypeOK'
    <2>1. "backend" \in Ports
        BY DEF Ports
    <2> QED BY <1>1, <1>5, <2>1 DEF StartServerThrows
<1>6. ASSUME NEW s \in Services, NEW port \in Ports, ServerListens(s, port)
      PROVE  DeploymentTypeOK'
    <2>1. PICK v \in {"none", "listening"} : process' = [process EXCEPT ![s][port] = v]
        BY <1>6 DEF ServerListens
    <2> QED BY <1>1, <1>6, <2>1 DEF ServerListens
<1>7. CASE UNCHANGED deploymentVars
    BY <1>7 DEF deploymentVars
<1> QED BY <1>3, <1>4, <1>5, <1>6, <1>7 DEF DeploymentNext

(* Every part keeps its types *)
THEOREM LiveTypes == LiveSpec => []LiveTypeOK
PROOF
<1>1. LiveInit => DeploymentTypeOK
    <2> SUFFICES ASSUME DeploymentInit PROVE DeploymentTypeOK
        BY DEF LiveInit
    <2> QED BY DEF DeploymentInit, DeploymentTypeOK
<1>2. LiveSpec => []DeploymentTypeOK
    BY <1>1, StepsOfParts, DeploymentStep, PTL DEF LiveSpec
<1>3. ResultIsFinal /\ SubscriptionsAgree /\ CutsAreSwitches /\ DeploymentTypeOK => LiveTypeOK
    BY DEF ResultIsFinal, SubscriptionsAgree, CutsAreSwitches, LiveTypeOK
<1> QED BY <1>2, <1>3, ProcessHolds, EventsHold, ViewHolds, PTL
=============================================================================
