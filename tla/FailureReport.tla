----------------------------- MODULE FailureReport -----------------------------
(***************************************************************************)
(* What the platform says of one stored job: the answers of                *)
(* services/jobService.js, the context services/jobContextService.js gives *)
(* the language model, and what the browser's views make of the answers.   *)
(*                                                                         *)
(* A stored job is what those functions look at: the case of its error     *)
(* code ("odd" is one in small letters, "codeless" an error without code), *)
(* the message of the skill's result, which counts are integers, whether   *)
(* the error has details.  A text is a tag that tells it from other texts. *)
(***************************************************************************)
CONSTANT NoRecord

Delivered == {"completed", "completed_with_warning"}
Stopped   == {"cancelled", "cancelled_with_partial_result"}

(* What the views tell of output files: an audit report by its name, another workbook, *)
(* which one view takes for the report (elsewhere it is one of the others), an archive. *)
Outputs == {"report", "workbook", "ZIP", "other"}

Workers  == {"mw-pr", "ran-pr", "pr-auditor", "tx-pr-auditor", "create-pr-cd"}
Auditors == {"pr-auditor", "tx-pr-auditor"}

(* Jobs of the retired workers have no skillResult, and neither has a skill's job      *)
(* whose result was refused.  matched "asked": site codes among the parameters.        *)
(* available: the output files that can be read still, of those that have a record;    *)
(* counted: outputFileCount, which is stored with the skill's result, is not 0.         *)
StoredJobs ==
    {j \in [kind : {"skill", "legacy"}, worker : Workers, status : Delivered \cup Stopped \cup {"failed", "generating"},
            code : {"INCOMPLETE", "PIN", "PREFLIGHT", "TIMEOUT", "PROCESS", "ECC", "OTHER", "odd", "codeless", "none"},
            result : {"none", "silent", "told"}, counts : {"all", "some", "none"}, details : BOOLEAN,
            available : SUBSET Outputs, counted : BOOLEAN, matched : {"recorded", "asked", "none"}] :
       /\ (j.kind = "skill") = (j.worker \in {"tx-pr-auditor", "create-pr-cd"})
       /\ j.kind = "legacy" => j.result = "none" /\ j.matched # "asked" /\ (j.available # {} => j.counted)
       /\ j.kind = "skill"  => j.counts # "some" /\ (j.result # "none" /\ j.available # {} => j.counted)
       /\ j.kind = "skill" /\ j.result = "none" => ~j.counted /\ j.status \notin Delivered \cup {"cancelled_with_partial_result"}
       /\ j.kind = "skill" /\ j.result = "none" /\ j.status = "failed" => j.code # "none"
       /\ j.status = "generating" => j.code = "none" /\ j.result = "none"
       /\ j.code = "none" => ~j.details
       /\ "workbook" \in j.available => j.worker = "tx-pr-auditor"}

VARIABLE record     \* the stored job that is looked at

Nothing   == [absent |-> TRUE]
Failed(j) == j.status = "failed"
IsAuditor(j) == j.worker = "pr-auditor"

-----------------------------------------------------------------------------
(* services/jobService.js *)

IncompleteMessage(j) ==
    CASE j.counts = "all" -> "generated and missing" [] j.counts = "some" -> "generated" [] OTHER -> "not determined"

SkillSays(j) == j.kind = "skill" /\ j.result = "told"

(* Mutant: the skill's own message comes before what is missing *)
FailureSummarySkillFirst(j) ==
    IF ~Failed(j) THEN ""
    ELSE IF SkillSays(j) THEN "message of the skill"
    ELSE IF j.code = "INCOMPLETE" THEN IncompleteMessage(j)
    ELSE "execution failed"

FailureSummary(j) ==
    IF ~Failed(j) THEN ""
    ELSE IF j.code = "none" THEN "execution failed"
    ELSE IF j.code = "INCOMPLETE" THEN IncompleteMessage(j)
    ELSE IF SkillSays(j) THEN "message of the skill"
    ELSE IF IsAuditor(j) /\ j.code = "PIN" THEN "blocked"
    ELSE IF j.code = "PREFLIGHT" /\ j.details THEN "packages missing"
    ELSE IF j.code \in {"PREFLIGHT", "TIMEOUT", "PROCESS", "ECC"} THEN j.code
    ELSE "execution failed"

SafeCode(j) == IF j.code \in {"odd", "codeless"} THEN "WORKER_ERROR" ELSE j.code

AllowedCategory(j) ==
    IF j.code \in {"INCOMPLETE", "PREFLIGHT", "TIMEOUT", "PROCESS", "ECC"} \/ (IsAuditor(j) /\ j.code = "PIN")
    THEN j.code ELSE "WORKER_ERROR"

(* With a result of the skill the panel is titled after the skill, whatever the code *)
FailureDiagnosis(j) ==
    LET c == AllowedCategory(j) IN
    IF ~Failed(j) THEN Nothing
    ELSE IF j.result # "none" /\ j.code # "none"
    THEN [category |-> SafeCode(j), title |-> "skill failed", summary |-> FailureSummary(j), technical |-> FALSE]
    ELSE [category |-> c, title |-> IF c = "INCOMPLETE" THEN "Incomplete Result" ELSE c,
          summary  |-> IF c = "INCOMPLETE" THEN IncompleteMessage(j) ELSE c,
          technical |-> j.details /\ c \notin {"PIN", "INCOMPLETE"}]

SafeError(j) ==
    IF ~Failed(j) \/ j.code = "none" THEN Nothing
    ELSE [code     |-> SafeCode(j),
          category |-> IF j.code = "INCOMPLETE" THEN "RESULT_INCOMPLETE" ELSE FailureDiagnosis(j).category,
          message  |-> FailureSummary(j), technical |-> FailureDiagnosis(j).technical]

(* A delivered job of create-pr-cd shows the codes it was asked for *)
MatchedSites(j) ==
    IF j.matched = "asked" /\ ~(j.worker = "create-pr-cd" /\ j.status \in Delivered) THEN "none" ELSE j.matched

Answer(j) ==
    [status |-> j.status, worker |-> j.worker, available |-> j.available, counted |-> j.counted,
     matched        |-> MatchedSites(j),
     resultStatus   |-> IF Failed(j) /\ j.code = "INCOMPLETE" THEN "incomplete_result" ELSE "",
     error          |-> SafeError(j),
     failureSummary |-> FailureSummary(j),
     diagnosis      |-> FailureDiagnosis(j)]

-----------------------------------------------------------------------------
(* services/jobContextService.js: the error is told even of a job that has not failed *)

LlmError(j) ==
    IF j.code = "none" THEN Nothing
    ELSE [code     |-> SafeCode(j),
          category |-> IF j.code = "INCOMPLETE" THEN "RESULT_INCOMPLETE" ELSE SafeCode(j),
          message  |-> IF j.code = "INCOMPLETE" THEN IncompleteMessage(j) ELSE SafeCode(j)]

LlmContext(j) ==
    [error |-> LlmError(j),
     resultStatus |-> IF Failed(j) /\ j.code # "none" /\ LlmError(j).code = "INCOMPLETE" THEN "incomplete_result" ELSE ""]

-----------------------------------------------------------------------------
(* The browser; a is the answer it has received *)

ErrorIs(a, c) == a.error # Nothing /\ a.error.code = c

IsIncomplete(a) ==
    a.status = "failed" /\ (a.resultStatus = "incomplete_result" \/ ErrorIs(a, "INCOMPLETE"))

StatusLabel(a) == IF IsIncomplete(a) THEN "Incomplete Result" ELSE a.status

StatusTone(a) ==
    CASE IsIncomplete(a) \/ a.status = "failed" -> "danger"
      [] a.status = "completed"                 -> "success"
      [] a.status = "completed_with_warning"    -> "warning"
      [] a.status \in Stopped                   -> "muted"
      [] OTHER                                  -> "active"

Ready(a) == a.status \in Delivered \cup Stopped \cup {"failed"}

ProgressLabel(a) ==
    CASE IsIncomplete(a) -> "Incomplete Result" [] ~IsIncomplete(a) /\ Ready(a) -> "Complete" [] OTHER -> "Running"

DeliveryWarning(a) ==
    CASE a.status = "cancelled_with_partial_result" -> "partial"
      [] IsIncomplete(a)                            -> "incomplete"
      [] a.status = "cancelled"                     -> "cancelled"
      [] OTHER                                      -> ""

WithoutOutput(a) == a.matched # "none" /\ ~a.counted

(* findAvailableAuditReport, findAvailableArchive *)
ReportOffered(a)  == "report" \in a.available
ArchiveOffered(a) == "ZIP" \in a.available

CompletionMessage(a) ==
    IF a.status = "failed" THEN a.failureSummary
    ELSE IF a.status \in Stopped THEN a.status
    ELSE IF a.worker = "pr-auditor" THEN IF ReportOffered(a) THEN "report ready" ELSE "no report"
    ELSE IF WithoutOutput(a) THEN "no output" ELSE "outputs counted"

ResultTone(a) ==
    IF a.status = "failed" THEN "danger"
    ELSE IF a.status \in Stopped \cup {"completed_with_warning"} \/ WithoutOutput(a) THEN "warning"
    ELSE "success"

(* The entries of the console about the result; a link only to a delivery or an incomplete one *)
ConsoleItems(a) ==
    {"result"} \cup (IF Ready(a) THEN {"final summary"} ELSE {})
    \cup (IF (a.status \in Delivered \/ IsIncomplete(a)) /\ a.counted THEN {"link"} ELSE {})
    \cup (IF a.failureSummary # "" /\ ~IsIncomplete(a) THEN {"job error"} ELSE {})

(* JobHistoryCard.vue *)
CardPreview(a) ==
    IF IsIncomplete(a) THEN "incomplete"
    ELSE IF a.status = "failed" THEN a.failureSummary
    ELSE IF a.worker \in Auditors /\ ~ReportOffered(a) THEN "no report"
    ELSE "final summary"

ArchiveLabel(a) == IF a.status = "cancelled_with_partial_result" \/ IsIncomplete(a) THEN "partial ZIP" ELSE "ZIP"

(* The card falls back to any file that is there *)
CardDownload(a) ==
    IF a.worker \in Auditors /\ ReportOffered(a) THEN "report"
    ELSE IF ArchiveOffered(a) THEN ArchiveLabel(a)
    ELSE IF a.available # {} THEN "output"
    ELSE ""

(* GenericSkillView.vue: any workbook of this auditor is its report and nothing else is  *)
(* offered; an archive is never called partial, the warning stands beside it             *)
WorkerDownload(a) ==
    IF a.worker = "tx-pr-auditor" THEN IF a.available \cap {"report", "workbook"} # {} THEN "report" ELSE ""
    ELSE IF ArchiveOffered(a) THEN "ZIP"
    ELSE IF a.available # {} THEN "output"
    ELSE ""

(* JobDetailFiles.vue: the label over the table, in which every available file has a link *)
FilesDownload(a) ==
    IF a.worker \in Auditors /\ ReportOffered(a) THEN "report"
    ELSE IF ArchiveOffered(a) THEN ArchiveLabel(a)
    ELSE ""

(* FinalSummary.vue; the report is asked after for one of the two auditors *)
SummaryText(a) ==
    IF a.worker = "pr-auditor" /\ ~ReportOffered(a) THEN "no report" ELSE "final summary"

(* FailureDiagnosis.vue and JobDetailSummary.vue *)
PanelTitle(a) ==
    IF a.diagnosis = Nothing THEN ""
    ELSE IF IsIncomplete(a) THEN "Incomplete Result Details"
    ELSE "Failure Diagnosis"

FailureMessage(a) ==
    IF a.status # "failed" \/ ErrorIs(a, "INCOMPLETE") THEN "" ELSE a.failureSummary

ZeroOutputNotice(a) == a.worker # "pr-auditor" /\ WithoutOutput(a)

-----------------------------------------------------------------------------
ReportInit == record = NoRecord
LookUp     == record = NoRecord /\ record' \in StoredJobs

(* Who says that the result is incomplete *)
SaidIncomplete(j) ==
    LET a == Answer(j) IN
    [list    |-> a.resultStatus # "",                  error   |-> a.error # Nothing /\ a.error.category = "RESULT_INCOMPLETE",
     model   |-> LlmContext(j).resultStatus # "",      label   |-> StatusLabel(a) = "Incomplete Result",
     progress |-> ProgressLabel(a) = "Incomplete Result", warning |-> DeliveryWarning(a) = "incomplete",
     console |-> a.failureSummary # "" /\ "job error" \notin ConsoleItems(a),
     card    |-> CardPreview(a) = "incomplete",        panel   |-> PanelTitle(a) = "Incomplete Result Details",
     summary |-> Failed(j) /\ FailureMessage(a) = "",  reason  |-> a.failureSummary = IncompleteMessage(j)]

(* All the places that can tell a reader how a job ended agree, whatever the worker,    *)
(* the error and the result were: the API, the model's context and every view say of    *)
(* the same jobs that their result is incomplete; a failed job, and no other, is        *)
(* explained, by one text; a missing report is told by card, summary and console; the   *)
(* two notices about a run without output come together.  Of the downloads: the page    *)
(* of a job names the card's, unless that is just any file, when it names none; the     *)
(* workbench has one whenever they have, except the tx auditor's that has no workbook;  *)
(* one is called partial where the reader is warned; and none is offered of a file that *)
(* has expired, however many the job counts.                                            *)
ReportsAgree ==
    record # NoRecord =>
        LET j == record  a == Answer(j) IN
        /\ \A place \in DOMAIN SaidIncomplete(j) :
              SaidIncomplete(j)[place] = (Failed(j) /\ j.code = "INCOMPLETE")
        /\ Failed(j) = (PanelTitle(a) # "") /\ Failed(j) = (StatusTone(a) = "danger") /\ Failed(j) = (ResultTone(a) = "danger")
        /\ Failed(j) => /\ CompletionMessage(a) = a.failureSummary /\ a.failureSummary # ""
                        /\ a.error # Nothing => a.error.message = a.failureSummary
        /\ FilesDownload(a) = IF CardDownload(a) = "output" THEN "" ELSE CardDownload(a)
        /\ (CardDownload(a) = "") = (a.available = {})
        /\ j.worker # "tx-pr-auditor" => (WorkerDownload(a) = "") = (CardDownload(a) = "")
        /\ j.worker = "tx-pr-auditor" /\ CardDownload(a) = "report" => WorkerDownload(a) = "report"
        /\ ~Failed(j) /\ j.worker # "tx-pr-auditor" => CardPreview(a) = SummaryText(a)
        /\ j.status \in Delivered /\ IsAuditor(j) => (CompletionMessage(a) = "no report") = (SummaryText(a) = "no report")
        /\ CardDownload(a) = "partial ZIP" => DeliveryWarning(a) \in {"partial", "incomplete"}
        /\ j.status \in Delivered /\ ~IsAuditor(j) => ZeroOutputNotice(a) = (CompletionMessage(a) = "no output")
=============================================================================
