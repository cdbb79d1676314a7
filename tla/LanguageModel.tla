----------------------------- MODULE LanguageModel -----------------------------
(***************************************************************************)
(* The calls the backend makes to the language model: llm/llmClient.js and *)
(* its providers, the three services that word an answer with it, and the  *)
(* health answer of services/healthService.js, which keeps the verdict of  *)
(* a probe for a minute.                                                   *)
(*                                                                         *)
(* Time passes in ticks.  A provider decides on a reply at one moment      *)
(* (Serve) and the reply arrives at a later one, if before the deadline of *)
(* the attempt; calls overlap, as every await lets another request run.    *)
(***************************************************************************)
EXTENDS Integers, FiniteSetsExt

CONSTANTS Caller,           \* requests under way at once
          Configured,       \* LLM_TIMEOUT_MS, as ticks (a timer set to less than none fires at once)
          Retries,          \* LLM_MAX_RETRIES
          CacheLife,        \* LLM_HEALTH_CACHE_MS
          HealthBudget,     \* LLM_HEALTH_TIMEOUT_BUDGET_MS
          HealthMinimum,    \* LLM_HEALTH_MIN_TIMEOUT_MS
          ProgressLimit,    \* the most a progress message waits
          Patience          \* how long a browser waits for the answer to a question

ASSUME LanguageModelAssumption ==
    /\ Configured \in Int /\ Retries \in Int
    /\ {CacheLife, HealthBudget, HealthMinimum, ProgressLimit, Patience} \subseteq Nat \ {0}

VARIABLES
    llm,        \* [provider, enabled, wording]: config.llm of this process
    verdict,    \* llmReachabilityCache: [reachable, age], or NoVerdict
    call,       \* what each caller is doing
    asked,      \* the call the job page waits for (askQuestion), or "none"
    goodAge,    \* ticks since a provider decided on a text
    badAge      \* ticks since an attempt failed

modelVars == <<llm, verdict, call, asked, goodAge, badAge>>

NoVerdict == [reachable |-> FALSE, age |-> CacheLife]
Kinds     == {"health", "progress", "summary", "ask"}
NoCall    == [kind |-> "none", at |-> "idle"]
Settings  == [provider : {"agnes", "qwen", "other", "incomplete"}, enabled : BOOLEAN, wording : BOOLEAN]
IsLlmConfigured == llm.provider # "incomplete"

(* resolveLlmHealthTimeoutMs *)
HealthTimeout ==
    IF Configured <= 0 THEN HealthBudget
    ELSE Max({HealthMinimum, Min({Configured, HealthBudget})})

(* Mutant: the probe of a health request is given the model's own timeout *)
TimeoutAsConfigured(kind) ==
    Max({0, IF kind = "progress" THEN Min({Configured, ProgressLimit}) ELSE Configured})

TimeoutOf(kind) ==
    CASE kind = "health"   -> HealthTimeout
      [] kind = "progress" -> Max({0, Min({Configured, ProgressLimit})})
      [] OTHER             -> Max({0, Configured})

Attempts(kind) == 1 + IF kind = "health" THEN 0 ELSE Max({0, Retries})

Oldest == Max({CacheLife + HealthTimeout, Configured}) + 1
Older(n) == Min({n + 1, Oldest})

LanguageModelInit ==
    /\ llm \in {l \in Settings : l.provider # "agnes" => l.enabled /\ l.wording}
    /\ verdict = NoVerdict
    /\ call = [c \in Caller |-> NoCall]
    /\ asked = "none"
    /\ goodAge = Oldest /\ badAge = Oldest

-----------------------------------------------------------------------------
(* The answers *)

CallAnswered(c, source, status, said) ==
    call' = [call EXCEPT ![c] = [kind |-> call[c].kind, at |-> "told", source |-> source, status |-> status, llm |-> said]]

(* overallStatus, over the parts that vary (the backend and the queue always say ok, *)
(* the WebSocket server is up while a request is served): the worst of them counts,  *)
(* and a critical one of which nothing is known only degrades the whole              *)
Overall(parts) ==
    IF "down" \in parts THEN "down"
    ELSE IF parts \cap {"degraded", "unknown", "not_configured"} # {} THEN "degraded"
    ELSE "ok"

HealthAnswer(c, said) ==
    CallAnswered(c, "health", Overall({call[c].critical, said}), said)

FromVerdict(reachable) == IF reachable THEN "ok" ELSE "degraded"

Fallback(c, status) == CallAnswered(c, "fallback", status, "")

ProgressWording(c, good, status) ==
    IF good THEN CallAnswered(c, "llm", "success", "") ELSE Fallback(c, status)

FinalSummaryWording(c, good, status) ==
    IF good THEN CallAnswered(c, "llm", "success", "") ELSE Fallback(c, status)

AnswerReAsk(c, good, status) ==
    IF good THEN CallAnswered(c, "llm", "success", "") ELSE Fallback(c, status)

(* What the caller makes of the outcome of generateText *)
Outcome(c, good, status) ==
    CASE call[c].kind = "progress" -> ProgressWording(c, good, status)
      [] call[c].kind = "summary"  -> FinalSummaryWording(c, good, status)
      [] call[c].kind = "ask"      -> AnswerReAsk(c, good, status)
      [] call[c].kind = "health"   -> HealthAnswer(c, FromVerdict(good))

-----------------------------------------------------------------------------
(* A request arrives.  A health request checks the database first; the others *)
(* call the model at once, unless it is switched off.                         *)
BuildHealthResponse(c) ==
    /\ call[c].at = "idle"
    /\ call' = [call EXCEPT ![c] = [kind |-> "health", at |-> "database", critical |-> "ok"]]
    /\ UNCHANGED <<llm, verdict, asked, goodAge, badAge>>

(* serviceResult: a check that throws says "unknown" *)
CheckFirebase(c) ==
    /\ call[c].at = "database"
    /\ \E said \in {"ok", "down", "unknown"} :
          call' = [call EXCEPT ![c].at = "storage", ![c].critical = Overall({said})]
    /\ UNCHANGED <<llm, verdict, asked, goodAge, badAge>>

CheckStorage(c) ==
    /\ call[c].at = "storage"
    /\ \E rootExists, probeWritten, foldersOk \in BOOLEAN :
          LET said == IF rootExists /\ probeWritten /\ foldersOk THEN "ok" ELSE "down"
          IN  call' = [call EXCEPT ![c].at = "llm", ![c].critical = Overall({@, said})]
    /\ UNCHANGED <<llm, verdict, asked, goodAge, badAge>>

Calling(kind, critical) ==
    [kind |-> kind, at |-> "calling", critical |-> critical, attempt |-> 1, age |-> 0, reply |-> "none", waited |-> 0]

(* checkLlm and runLlmReachabilityCheck: a verdict younger than the cache's life is told again *)
CheckLlm(c) ==
    /\ call[c].at = "llm"
    /\ CASE ~llm.enabled                -> HealthAnswer(c, "disabled")
         [] llm.enabled /\ ~IsLlmConfigured -> HealthAnswer(c, "not_configured")
         [] llm.enabled /\ IsLlmConfigured /\ verdict.age < CacheLife ->
               HealthAnswer(c, FromVerdict(verdict.reachable))
         [] OTHER -> call' = [call EXCEPT ![c] = Calling("health", call[c].critical)]
    /\ UNCHANGED <<llm, verdict, asked, goodAge, badAge>>

(* The three services that word something.  A page asks one question at a time. *)
WordingIsAsked(c, kind) ==
    /\ call[c].at = "idle"
    /\ kind = "ask" => asked = "none"
    /\ asked' = IF kind = "ask" THEN c ELSE asked
    /\ call' = [call EXCEPT ![c] =
                  IF ~llm.enabled THEN [kind |-> kind, at |-> "told", source |-> "fallback", status |-> "disabled", llm |-> ""]
                  ELSE IF ~llm.wording
                       THEN [kind |-> kind, at |-> "told", source |-> "fallback", status |-> "disabled_for_task", llm |-> ""]
                       ELSE Calling(kind, "ok")]
    /\ UNCHANGED <<llm, verdict, goodAge, badAge>>

(* A question that is too long, or about a job that is not there, is refused, switched off or not *)
ReAskRefused(c) ==
    /\ call[c].at = "idle" /\ asked = "none" /\ asked' = c
    /\ \E code \in {"VALIDATION_ERROR", "JOB_NOT_FOUND"} :
          call' = [call EXCEPT ![c] = [kind |-> "ask", at |-> "told", source |-> "error", status |-> code, llm |-> ""]]
    /\ UNCHANGED <<llm, verdict, goodAge, badAge>>

-----------------------------------------------------------------------------
(* generateText *)

(* Without a complete configuration, or with an unknown provider, no call is made *)
NoProvider(c) ==
    /\ call[c].at = "calling" /\ llm.provider \notin {"agnes", "qwen"}
    /\ Outcome(c, FALSE, "failed")
    /\ verdict' = IF call[c].kind = "health" THEN [reachable |-> FALSE, age |-> 0] ELSE verdict
    /\ badAge' = 0
    /\ UNCHANGED <<llm, asked, goodAge>>

(* What counts as a text: agnes refuses one of blanks, qwen takes it (and it is trimmed to nothing) *)
AgnesTakes(reply) == reply = "text"
QwenTakes(reply)  == reply \in {"text", "blank"}
Good(reply) == (llm.provider = "agnes" /\ AgnesTakes(reply)) \/ (llm.provider = "qwen" /\ QwenTakes(reply))

Serve(c) ==
    /\ call[c].at = "calling" /\ llm.provider \in {"agnes", "qwen"} /\ call[c].reply = "none"
    /\ \E reply \in {"text", "blank", "error"} :
          /\ call' = [call EXCEPT ![c].reply = IF Good(reply) THEN "good" ELSE "bad"]
          /\ goodAge' = IF Good(reply) THEN 0 ELSE goodAge
          /\ badAge' = IF Good(reply) THEN badAge ELSE 0
    /\ UNCHANGED <<llm, verdict, asked>>

(* The verdict of a probe is stored with the time its reply arrived *)
RememberVerdict(c, good) ==
    verdict' = IF call[c].kind = "health" THEN [reachable |-> good, age |-> 0] ELSE verdict

AttemptEnds(c, good) ==
    IF good \/ call[c].attempt >= Attempts(call[c].kind)
    THEN Outcome(c, good, "failed") /\ RememberVerdict(c, good)
    ELSE /\ call' = [call EXCEPT ![c].attempt = @ + 1, ![c].age = 0, ![c].reply = "none"]
         /\ UNCHANGED verdict

ReplyArrives(c) ==
    /\ call[c].at = "calling" /\ call[c].reply # "none"
    /\ AttemptEnds(c, call[c].reply = "good")
    /\ UNCHANGED <<llm, asked, goodAge, badAge>>

(* AbortController: the attempt's deadline has come *)
AttemptTimesOut(c) ==
    /\ call[c].at = "calling" /\ call[c].age >= TimeoutOf(call[c].kind)
    /\ AttemptEnds(c, FALSE)
    /\ badAge' = 0
    /\ UNCHANGED <<llm, asked, goodAge>>

-----------------------------------------------------------------------------
(* The answer leaves; the job page shows the answer it still waits for *)
AnswerDelivered(c) ==
    /\ call[c].at = "told"
    /\ call' = [call EXCEPT ![c] = NoCall]
    /\ asked' = IF asked = c THEN "none" ELSE asked
    /\ UNCHANGED <<llm, verdict, goodAge, badAge>>

(* askQuestion's request times out in the browser: the server goes on with it *)
BrowserGivesUp(c) ==
    /\ asked = c /\ call[c].at = "calling" /\ call[c].waited >= Patience
    /\ asked' = "none"
    /\ UNCHANGED <<llm, verdict, call, goodAge, badAge>>

IsCalling(c) == call[c].at = "calling"

Tick ==
    /\ \A c \in Caller : IsCalling(c) =>
          /\ call[c].age < TimeoutOf(call[c].kind)
          /\ asked = c => call[c].waited < Patience
          /\ llm.provider \in {"agnes", "qwen"}
    /\ \A c \in Caller : call[c].at # "told"
    /\ call' = [c \in Caller |->
                  IF IsCalling(c)
                  THEN [call[c] EXCEPT !.age = @ + 1, !.waited = IF asked = c THEN @ + 1 ELSE 0]
                  ELSE call[c]]
    /\ verdict' = [verdict EXCEPT !.age = Min({@ + 1, CacheLife})]
    /\ goodAge' = Older(goodAge) /\ badAge' = Older(badAge)
    /\ UNCHANGED <<llm, asked>>

CallStep(c) ==
    \/ BuildHealthResponse(c) \/ CheckFirebase(c) \/ CheckStorage(c) \/ CheckLlm(c)
    \/ \E kind \in Kinds \ {"health"} : WordingIsAsked(c, kind)
    \/ ReAskRefused(c) \/ NoProvider(c) \/ Serve(c) \/ ReplyArrives(c) \/ AttemptTimesOut(c)
    \/ AnswerDelivered(c) \/ BrowserGivesUp(c)

LanguageModelNext == Tick \/ \E c \in Caller : CallStep(c)

-----------------------------------------------------------------------------
LanguageModelTypeOK ==
    /\ llm \in Settings
    /\ verdict \in [reachable : BOOLEAN, age : 0..CacheLife]
    /\ \A c \in Caller : call[c].kind \in Kinds \cup {"none"} /\ call[c].at \in {"idle", "database", "storage", "llm", "calling", "told"}
    /\ asked \in Caller \cup {"none"}
    /\ goodAge \in 0..Oldest /\ badAge \in 0..Oldest

(* An answer reflects the model: a health answer says it can be reached only if a  *)
(* provider decided on a text within the cache's life and one probe's time, and    *)
(* that it cannot only if an attempt failed as recently; a wording is told to be   *)
(* the model's only if the model gave one within the time of a single attempt.     *)
(* Probes overlap, and the reply of an older one may replace a newer verdict.      *)
Reflects(answer) ==
    /\ answer.llm = "ok"        => goodAge' < CacheLife + HealthTimeout
    /\ answer.llm = "degraded"  => badAge' < CacheLife + HealthTimeout
    /\ answer.source = "llm"    => goodAge' <= TimeoutOf(answer.kind)
    /\ answer.status = "failed" => badAge' <= TimeoutOf(answer.kind)

AnswersReflectTheModel ==
    [][\A c \in Caller : call[c].at # "told" /\ call'[c].at = "told" => Reflects(call'[c])]_modelVars
=============================================================================
