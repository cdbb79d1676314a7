---------------------------- MODULE JobContract ----------------------------
(***************************************************************************)
(* What the durable queue promises about a job, seen from outside: a job   *)
(* waits, is worked on, and ends for good; while a runtime holds it nobody *)
(* else can take it; the hold ends before another begins.                  *)
(***************************************************************************)
CONSTANTS Job, Runtime, NoOne

VARIABLES
    phase,   \* [Job -> "none", "waiting", "started", "ended"]
    holder   \* [Job -> the runtime that holds the job, or NoOne]

contractVars == <<phase, holder>>

ContractInit ==
    /\ phase = [j \in Job |-> "none"]
    /\ holder = [j \in Job |-> NoOne]

Create(j) ==
    /\ phase[j] = "none"
    /\ phase' = [phase EXCEPT ![j] = "waiting"]
    /\ UNCHANGED holder

Acquire(j, r) ==
    /\ phase[j] = "waiting" /\ holder[j] = NoOne
    /\ holder' = [holder EXCEPT ![j] = r]
    /\ UNCHANGED phase

Begin(j) ==
    /\ phase[j] = "waiting" /\ holder[j] # NoOne
    /\ phase' = [phase EXCEPT ![j] = "started"]
    /\ UNCHANGED holder

(* Interrupted work may be given back, but only when nobody holds the job *)
GiveBack(j) ==
    /\ phase[j] = "started" /\ holder[j] = NoOne
    /\ phase' = [phase EXCEPT ![j] = "waiting"]
    /\ UNCHANGED holder

(* The holder ends a job, or, of a job that nobody holds, whoever finds it *)
End(j) ==
    /\ phase[j] \in {"waiting", "started"}
    /\ phase' = [phase EXCEPT ![j] = "ended"]
    /\ \/ UNCHANGED holder
       \/ holder' = [holder EXCEPT ![j] = NoOne]

LoseHold(j) ==
    /\ holder[j] # NoOne
    /\ holder' = [holder EXCEPT ![j] = NoOne]
    /\ UNCHANGED phase

ContractNext ==
    \E j \in Job :
        \/ Create(j) \/ Begin(j) \/ GiveBack(j) \/ End(j) \/ LoseHold(j)
        \/ \E r \in Runtime : Acquire(j, r)

ContractSpec == ContractInit /\ [][ContractNext]_contractVars
=============================================================================
