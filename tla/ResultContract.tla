--------------------------- MODULE ResultContract ---------------------------
(***************************************************************************)
(* backend/src/skills/genericSkillRunner.js, validateResult and            *)
(* persistResult as functions: which result.json is accepted, and what the *)
(* job records of it.  A skill is an independent program; the platform     *)
(* vouches for the counts it shows only as far as these checks go.         *)
(***************************************************************************)
EXTENDS Integers, FiniteSets

CONSTANT MaxCount   \* bound: counts of a reconciliation

ASSUME MaxCountAssumption == MaxCount \in Nat \ {0}

VARIABLES
    envelope,   \* the result.json that was read
    recorded    \* what the job records: its status and counts, or the refusal

contractVars == <<envelope, recorded>>

Dispositions == {"generated", "reviewRequired", "approvedIgnored", "duplicateBlocked", "failed", "unaccounted"}
CountFields  == Dispositions \cup {"requested"}
ResultStatuses == {"succeeded", "succeeded_with_warning", "failed", "cancelled"}

NoEnvelope == [none |-> TRUE]

(* What the checks of a file tell apart; listed is the number of site dispositions, *)
(* -1 when there is no such list                                                    *)
OutputKinds == {"file", "outside workspace", "missing", "not a file", "wrong checksum"}
Envelope ==
    [ identity : BOOLEAN, status : ResultStatuses \cup {"unknown"},
      counts : {NoEnvelope} \cup [CountFields -> -1..MaxCount],
      listed : -1..MaxCount, named : BOOLEAN, outputs : SUBSET OutputKinds ]

Refusal == [status |-> "failed", code |-> "RESULT_CONTRACT_INVALID"]

ContractStart == envelope = NoEnvelope /\ recorded = NoEnvelope

WarningDispositions(counts) ==
    counts["reviewRequired"] + counts["approvedIgnored"] + counts["duplicateBlocked"] + counts["failed"] + counts["unaccounted"]

(* Mutant: work that was neither done nor disposed of is left out of the sum *)
AccountedForDone(counts) ==
    counts["generated"] + WarningDispositions(counts) - counts["unaccounted"] = counts["requested"]

AddsUp(counts) == counts["generated"] + WarningDispositions(counts) = counts["requested"]

(* validateReconciliation *)
ReconciliationHolds(e) ==
    \/ e.counts = NoEnvelope
    \/ /\ \A f \in CountFields : e.counts[f] >= 0
       /\ AddsUp(e.counts)
       /\ e.status = "succeeded" => WarningDispositions(e.counts) = 0
       /\ e.status = "succeeded_with_warning" => e.counts["unaccounted"] = 0
       /\ e.listed # -1 => e.listed = e.counts["requested"] /\ (e.listed > 0 => e.named)

(* validateResult *)
Accepted(e) ==
    /\ e.identity /\ e.status \in ResultStatuses
    /\ ReconciliationHolds(e)
    /\ e.outputs \subseteq {"file"}

StatusOf(e) ==
    CASE e.status = "succeeded"              -> "completed"
      [] e.status = "succeeded_with_warning" -> "completed_with_warning"
      [] e.status = "failed"                 -> "failed"
      [] e.status = "cancelled" -> IF e.outputs = {} THEN "cancelled" ELSE "cancelled_with_partial_result"

(* persistResult: sites are counted as matched only when the skill lists them *)
Recorded(e) ==
    [ status    |-> StatusOf(e),
      files     |-> Cardinality(e.outputs),
      counts    |-> e.counts,
      accounted |-> IF e.counts = NoEnvelope THEN 0 ELSE e.counts["requested"] - e.counts["unaccounted"],
      matched   |-> IF e.counts = NoEnvelope \/ e.listed = -1 THEN -1 ELSE e.listed ]

(* Inputs: every envelope whose counts are all valid, and those that differ from *)
(* such a one in a negative count or in the form of the list.                    *)
EnvelopeInput ==
    \E status \in ResultStatuses, requested \in 0..MaxCount, listed \in -1..MaxCount,
       files \in {{}, {"file"}}, missing \in -1..1 :
       \E done \in [Dispositions -> 0..1] :
          envelope' = [ identity |-> TRUE, status |-> status, listed |-> listed, named |-> listed # 1,
                        outputs |-> files,
                        counts |-> [f \in CountFields |->
                                       IF f = "requested" THEN requested
                                       ELSE IF f = "unaccounted" THEN done[f] * missing
                                       ELSE IF f = "generated" THEN done[f] * MaxCount ELSE done[f]] ]

FormInput ==
    \E identity \in BOOLEAN, status \in ResultStatuses \cup {"unknown"}, files \in SUBSET OutputKinds :
        envelope' = [ identity |-> identity, status |-> status, counts |-> NoEnvelope, listed |-> -1,
                      named |-> FALSE, outputs |-> files ]

ValidateResult ==
    /\ envelope = NoEnvelope
    /\ EnvelopeInput \/ FormInput
    /\ recorded' = IF Accepted(envelope') THEN Recorded(envelope') ELSE Refusal

ContractTypeOK ==
    /\ envelope \in {NoEnvelope} \cup Envelope
    /\ recorded \in {NoEnvelope, Refusal} \cup
          [ status : {"completed", "completed_with_warning", "failed", "cancelled", "cancelled_with_partial_result"},
            files : Nat, counts : {NoEnvelope} \cup [CountFields -> Nat], accounted : Nat, matched : -1..MaxCount ]

-----------------------------------------------------------------------------
Reconciled == recorded # NoEnvelope /\ recorded # Refusal /\ recorded.counts # NoEnvelope

(* "reconciliationConsistent": the counts a job shows add up, those that are derived *)
(* included; a list of sites has as many entries as sites were requested; and a job  *)
(* that is shown as completed without a warning has done all of them.                *)
RecordedCountsAddUp ==
    Reconciled =>
        LET c == recorded.counts IN
        /\ recorded.accounted = c["generated"] + c["reviewRequired"] + c["approvedIgnored"]
                                  + c["duplicateBlocked"] + c["failed"]
        /\ recorded.matched # -1 => recorded.matched = c["requested"]
        /\ recorded.status \in {"completed", "completed_with_warning"} => recorded.accounted = c["requested"]
        /\ recorded.status = "completed" => c["generated"] = c["requested"]
=============================================================================
