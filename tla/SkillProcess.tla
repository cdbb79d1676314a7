---------------------------- MODULE SkillProcess ----------------------------
(***************************************************************************)
(* backend/src/skills/genericSkillRunner.js, executeProcess and what       *)
(* runGenericSkillJob makes of its result: one child process of a skill,   *)
(* the poll that looks for a cancellation, the sentinel file, and the      *)
(* timers that end in SIGTERM and SIGKILL.                                 *)
(*                                                                         *)
(* SkillRun sees all this as one step (ChildExits).  StoppedChildEnds says *)
(* what stands behind the fairness JobLifecycle assumes of that step, and  *)
(* what does not: nothing ends the descendants of the process.             *)
(***************************************************************************)
EXTENDS Naturals

VARIABLES
    child,       \* the process: "none", "running", "exited" by itself, "signalled"
    pipes,       \* it, or a descendant, has stdout or stderr open
    signals,     \* signals the process has received
    cancelAsked, \* workerStateService.isCancellationRequested(jobId)
    sentinel,    \* the file cancel.requested exists
    stopping,    \* how far requestStop and its timers have come
    timedOut,
    written,     \* result.json
    outcome      \* what the job is given: a result status or an error code

processVars == <<child, pipes, signals, cancelAsked, sentinel, stopping, timedOut, written, outcome>>

Envelopes   == {"succeeded", "failed", "cancelled"}     \* statuses of a complete result.json
ErrorCodes  == {"WORKER_TIMEOUT", "RESULT_CONTRACT_INVALID", "SKILL_DEPENDENCY_CHANGED"}
StopStages  == {"no", "writing", "failed", "grace", "terminating", "spent"}

ProcessTypeOK ==
    /\ child \in {"none", "running", "exited", "signalled"}
    /\ pipes \in BOOLEAN /\ cancelAsked \in BOOLEAN /\ sentinel \in BOOLEAN /\ timedOut \in BOOLEAN
    /\ signals \in SUBSET {"SIGTERM", "SIGKILL"}
    /\ stopping \in StopStages
    /\ written \in Envelopes \cup {"none", "torn"}
    /\ outcome \in Envelopes \cup ErrorCodes \cup {"none"}

ProcessInit ==
    /\ child = "none" /\ pipes = FALSE /\ signals = {}
    /\ cancelAsked = FALSE /\ sentinel = FALSE
    /\ stopping = "no" /\ timedOut = FALSE
    /\ written = "none" /\ outcome = "none"

Settled == outcome # "none"

(* spawn.  An executable that cannot be started closes without having run; a     *)
(* dependency that is not the one frozen in the input manifest rejects the       *)
(* promise before that (tx-pr-auditor only).                                     *)
Spawn ==
    /\ child = "none" /\ ~Settled
    /\ \/ child' = "running" /\ pipes' = TRUE /\ UNCHANGED outcome
       \/ child' = "exited" /\ UNCHANGED <<pipes, outcome>>
       \/ outcome' = "SKILL_DEPENDENCY_CHANGED" /\ UNCHANGED <<child, pipes>>
    /\ UNCHANGED <<signals, cancelAsked, sentinel, stopping, timedOut, written>>

-----------------------------------------------------------------------------
(* The child process and the operating system *)

(* result.json is written while the process runs, or half of it when it dies *)
ChildWrites ==
    /\ child = "running" /\ written \in {"none", "torn"}
    /\ \E r \in Envelopes \cup {"torn"} :
          /\ r = "cancelled" => sentinel
          /\ written' = r
    /\ UNCHANGED <<child, pipes, signals, cancelAsked, sentinel, stopping, timedOut, outcome>>

(* A process ends by itself or of a signal; its descendants may keep the pipes open *)
ChildEnds ==
    /\ child = "running"
    /\ \/ child' = "exited"
       \/ signals # {} /\ child' = "signalled"
    /\ pipes' \in BOOLEAN
    /\ UNCHANGED <<signals, cancelAsked, sentinel, stopping, timedOut, written, outcome>>

DescendantsEnd ==
    /\ child \in {"exited", "signalled"} /\ pipes
    /\ pipes' = FALSE
    /\ UNCHANGED <<child, signals, cancelAsked, sentinel, stopping, timedOut, written, outcome>>

(* child.kill: nothing happens to a process that has ended *)
Kill(sig) == signals' = IF child = "running" THEN signals \cup {sig} ELSE signals

-----------------------------------------------------------------------------
(* Timers and callbacks of executeProcess *)

Unsettled == child # "none" /\ ~Settled

CancelArrives ==
    /\ ~cancelAsked /\ cancelAsked' = TRUE
    /\ UNCHANGED <<child, pipes, signals, sentinel, stopping, timedOut, written, outcome>>

(* The poll of every 250 ms: requestStop(true) notes that a stop is under way and *)
(* starts to write the sentinel.                                                 *)
PollCancellation ==
    /\ Unsettled /\ cancelAsked /\ stopping = "no"
    /\ stopping' = "writing"
    /\ UNCHANGED <<child, pipes, signals, cancelAsked, sentinel, timedOut, written, outcome>>

(* mkdir and writeFile.  An error is dropped by the poll, and no timer is set. *)
SentinelDone ==
    /\ stopping = "writing"
    /\ \/ sentinel' = TRUE /\ stopping' = "grace"
       \/ stopping' = "failed" /\ UNCHANGED sentinel
    /\ UNCHANGED <<child, pipes, signals, cancelAsked, timedOut, written, outcome>>

InGrace == stopping = "grace"

(* The timer of 3 s.  It is cleared when the process closes, unless the write *)
(* ended only after that: then it finds nothing to kill.                      *)
GraceEnds ==
    /\ InGrace
    /\ IF child = "exited" THEN stopping' = "spent" /\ UNCHANGED signals
                           ELSE stopping' = "terminating" /\ Kill("SIGTERM")
    /\ UNCHANGED <<child, pipes, cancelAsked, sentinel, timedOut, written, outcome>>

(* Mutant: a process that ignores SIGTERM is left alone *)
AfterTerminationSoft == UNCHANGED signals

AfterTermination == IF child = "exited" THEN UNCHANGED signals ELSE Kill("SIGKILL")

(* The timer of 5 s after SIGTERM *)
TerminationEnds ==
    /\ stopping = "terminating"
    /\ stopping' = "spent" /\ AfterTermination
    /\ UNCHANGED <<child, pipes, cancelAsked, sentinel, timedOut, written, outcome>>

(* timeoutSeconds have passed: requestStop(false), which does nothing when a *)
(* cancellation has begun to stop the process.                               *)
TimeoutFires ==
    /\ Unsettled /\ ~timedOut
    /\ timedOut' = TRUE
    /\ IF stopping = "no" THEN stopping' = "terminating" /\ Kill("SIGTERM")
                          ELSE UNCHANGED <<stopping, signals>>
    /\ UNCHANGED <<child, pipes, cancelAsked, sentinel, written, outcome>>

(* Mutant: what the skill has written is taken as it is *)
OutcomeUnread(result, late) == IF result = "none" /\ late THEN "WORKER_TIMEOUT" ELSE result

(* runGenericSkillJob after the process: result.json decides, if there is one *)
Outcome(result, late) ==
    CASE result \in Envelopes         -> result
      [] result = "none" /\ late      -> "WORKER_TIMEOUT"
      [] result \in {"none", "torn"}  -> "RESULT_CONTRACT_INVALID"

(* Mutant: the event 'exit' instead of 'close', or no event at all after a stop *)
ProcessIsClosedEarly == child # "none" /\ (child # "running" \/ stopping = "spent")

ProcessIsClosed == child \in {"exited", "signalled"} /\ ~pipes

(* 'close' clears the timers, and the promise of executeProcess is resolved *)
Close ==
    /\ ProcessIsClosed /\ ~Settled
    /\ outcome' = Outcome(written, timedOut)
    /\ stopping' = IF stopping \in {"grace", "terminating"} THEN "spent" ELSE stopping
    /\ UNCHANGED <<child, pipes, signals, cancelAsked, sentinel, timedOut, written>>

ProcessNext ==
    \/ Spawn \/ ChildWrites \/ ChildEnds \/ DescendantsEnd \/ CancelArrives \/ PollCancellation
    \/ SentinelDone \/ GraceEnds \/ TerminationEnds \/ TimeoutFires \/ Close

(* Timers fire and promises are settled; SIGKILL ends a process.  Nothing is *)
(* assumed of the skill itself, nor of the processes it has started.         *)
ProcessFairness ==
    /\ WF_processVars(PollCancellation) /\ WF_processVars(SentinelDone)
    /\ WF_processVars(GraceEnds) /\ WF_processVars(TerminationEnds)
    /\ WF_processVars("SIGKILL" \in signals /\ ChildEnds)
    /\ WF_processVars(Close)

ProcessSpec == ProcessInit /\ [][ProcessNext]_processVars /\ ProcessFairness

-----------------------------------------------------------------------------
(* A process that has to stop, because it was cancelled or its time is up, is   *)
(* ended and its job gets an outcome, even if the skill ignores the sentinel and *)
(* SIGTERM.  There are two exceptions, and they are real.  If the sentinel cannot *)
(* be written, no timer is ever set, not even by the timeout that comes later.   *)
(* And only the process itself is killed: 'close' waits for every descendant that *)
(* has inherited an output pipe, for ever if need be.                            *)
HeldByDescendants == child \in {"exited", "signalled"} /\ pipes

StoppedChildEnds ==
    (child = "running" /\ (cancelAsked \/ timedOut)) ~>
        (Settled \/ stopping = "failed" \/ []HeldByDescendants)

(* A result the skill managed to write counts, although the process was stopped, *)
(* timed out or killed after it; and nothing is written once the job is settled. *)
DeliveredResultCounts ==
    Settled /\ written \in Envelopes => outcome = written
=============================================================================
