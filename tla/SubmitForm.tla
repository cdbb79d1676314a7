------------------------------- MODULE SubmitForm -------------------------------
(***************************************************************************)
(* The launch form of GenericSkillView.vue over createSkillJob of          *)
(* skills/genericSkillJobService.js: one view serves the routes of all     *)
(* skills, loads a skill's contract from the catalog, checks what the user *)
(* gives and posts it; the server checks it again.  A contract has here    *)
(* one parameter, which another field may hide or disable, and one input.  *)
(***************************************************************************)
EXTENDS Naturals

CONSTANTS
    Skill,         \* the skills with a route
    NoSkill,
    CatalogLoad,   \* the requests for the catalog that may be under way
    Contract       \* the contracts that are looked at

VARIABLES
    contract,      \* of all the skills; alike: they take inputs of the same names
    template,      \* the platform's own file is there (skills/txBomManagedInput.js)
    route,         \* this.skillId
    catalogLoads,  \* [CatalogLoad -> the route a request was made for, or NoSkill]
    form,          \* the view; broken: its last load has failed
    posted         \* the submission that is under way or was answered last

formVars == <<contract, template, route, catalogLoads, form, posted>>

(* "wrong" is what the rule of the parameter refuses: its type, enum, minimum or maximum *)
Texts == {"", "separators", "word", "wrong"}

(* "only extension" is named "xlsx" or ".xlsx"; "too large" and "too many" are so for the *)
(* manifest, "huge" for the server's own limit (middleware/uploadMiddleware.js).          *)
Files == {"none", "accepted", "refused", "only extension", "too large", "too many", "huge"}
Checks == {"no", "passed", "failed"}

(* rule: a "number" has bounds that the browser knows; "unchecked" stands for what a control *)
(* may give against its rule: options beside it, free text for an enum, a text for a boolean. *)
(* shown: by ui.hidden, visibleWhen and disabledWhen; omitted: ui.omitWhenHidden.             *)
(* file: its ui demands the form's own check, or the platform supplies it.                    *)
Contracts ==
    {c \in [rule : {"free", "list", "number", "unchecked"}, required : BOOLEAN,
            shown : {"always", "sometimes", "never"}, omitted : BOOLEAN, default : {"", "word", "wrong"},
            file : {"plain", "validated", "managed"}, needed : BOOLEAN, several : BOOLEAN, alike : BOOLEAN] :
        c.default = "wrong" => c.rule \in {"number", "unchecked"}}

ASSUME FormAssumption == NoSkill \notin Skill /\ Contract \subseteq Contracts

NoPost == [answer |-> "none"]

PostAnswers == {"awaited", "created", "PARAMETERS_INVALID", "INPUT_FILE_INVALID", "INPUT_FILE_REQUIRED",
            "INPUT_FILE_LIMIT_EXCEEDED", "UPLOAD_TOO_LARGE", "BOM_TEMPLATE_UNAVAILABLE"}

FormTypeOK ==
    /\ contract \in Contracts
    /\ template \in BOOLEAN /\ route \in Skill /\ catalogLoads \in [CatalogLoad -> Skill \cup {NoSkill}]
    /\ form \in [skill : Skill \cup {NoSkill}, text : Texts, at : {"shown", "disabled", "hidden"}, file : Files,
                 checked : Checks, managed : BOOLEAN, loading : BOOLEAN, broken : BOOLEAN]
    /\ posted.answer \in PostAnswers \cup {"none"}

Unfilled(s, loading) ==
    [skill |-> s, text |-> contract.default, at |-> IF contract.shown = "never" THEN "hidden" ELSE "shown",
     file |-> "none", checked |-> "no", managed |-> template, loading |-> loading, broken |-> FALSE]

FormInit ==
    /\ contract \in Contract
    /\ template = TRUE /\ route \in Skill /\ posted = NoPost
    /\ catalogLoads = [c \in CatalogLoad |-> NoSkill] /\ form = Unfilled(NoSkill, TRUE)

-----------------------------------------------------------------------------
TemplateChanges ==
    /\ contract.file = "managed" /\ template' = ~template
    /\ UNCHANGED <<contract, route, catalogLoads, form, posted>>

Mounted(c) ==
    /\ form.skill = NoSkill /\ ~form.broken /\ \A d \in CatalogLoad : catalogLoads[d] = NoSkill
    /\ catalogLoads' = [catalogLoads EXCEPT ![c] = route]
    /\ UNCHANGED <<contract, template, route, form, posted>>

(* switchSkill and the navigation; the watcher of skillId calls loadSkill *)
SwitchSkill(c) ==
    /\ catalogLoads[c] = NoSkill
    /\ \E s \in Skill \ {route} : route' = s /\ catalogLoads' = [catalogLoads EXCEPT ![c] = s]
    /\ form' = [form EXCEPT !.loading = TRUE, !.broken = FALSE]
    /\ UNCHANGED <<contract, template, posted>>

(* Mutant: the skill is the one that was asked for *)
SkillAsked(c) == catalogLoads[c]

SkillLoaded(c) == route

(* loadSkill: the contract of the skill that is shown by now, and nothing filled in *)
CatalogArrives(c) ==
    /\ catalogLoads[c] # NoSkill /\ catalogLoads' = [catalogLoads EXCEPT ![c] = NoSkill]
    /\ form' = Unfilled(SkillLoaded(c), FALSE)
    /\ UNCHANGED <<contract, template, route, posted>>

(* What was loaded and filled in before stays, unless the answer came without the skill *)
CatalogFails(c) ==
    /\ catalogLoads[c] # NoSkill /\ catalogLoads' = [catalogLoads EXCEPT ![c] = NoSkill]
    /\ \E s \in {form.skill, NoSkill} : form' = [form EXCEPT !.skill = s, !.loading = FALSE, !.broken = TRUE]
    /\ UNCHANGED <<contract, template, route, posted>>

-----------------------------------------------------------------------------
(* The form, which is not there while the contract is loading *)

Usable == ~form.loading /\ form.skill # NoSkill /\ posted.answer # "awaited"

TextsOfTheControl ==
    IF contract.rule \in {"free", "list"} THEN Texts \ {"wrong"} ELSE Texts \ {"separators"}

FillParameter ==
    /\ Usable /\ form.at = "shown"
    /\ \E t \in TextsOfTheControl \ {form.text} : form' = [form EXCEPT !.text = t]
    /\ UNCHANGED <<contract, template, route, catalogLoads, posted>>

(* The field that its conditions name is filled in: the parameter keeps what it has *)
ConditionChanges ==
    /\ Usable /\ contract.shown = "sometimes"
    /\ \E a \in {"shown", "disabled", "hidden"} \ {form.at} : form' = [form EXCEPT !.at = a]
    /\ UNCHANGED <<contract, template, route, catalogLoads, posted>>

(* Mutant: the verdict on the file before is kept *)
FileChosenOnly(f) == [form EXCEPT !.file = f]

FileChosen(f) == [form EXCEPT !.file = f, !.checked = "no"]

(* Of several files an input for one takes the first.  A file can be removed while *)
(* the job is being created.                                                        *)
SelectFiles ==
    /\ ~form.loading /\ form.skill # NoSkill /\ contract.file # "managed"
    /\ \E f \in Files \ {form.file} :
          (Usable \/ f = "none") /\ (f = "too many" => contract.several) /\ form' = FileChosen(f)
    /\ UNCHANGED <<contract, template, route, catalogLoads, posted>>

(* The extension is what follows the last dot, or the whole name *)
ValidateSelectedFiles ==
    /\ Usable /\ form.file # "none"
    /\ form' = [form EXCEPT !.checked = IF form.file \in {"refused", "too large", "too many"} THEN "failed" ELSE "passed"]
    /\ UNCHANGED <<contract, template, route, catalogLoads, posted>>

FilesReady ==
    CASE contract.file = "managed"                        -> form.managed
      [] contract.file # "managed" /\ form.file = "none" -> ~contract.needed
      [] OTHER                                            -> contract.file = "validated" => form.checked = "passed"

(* Only what is visible is asked for *)
ParametersReady ==
    contract.required /\ form.at # "hidden" => IF contract.rule = "list" THEN form.text \notin {"", "separators"} ELSE form.text # ""

(* Before a submit event the browser looks at the bounds of a number field that is in use *)
BrowserAccepts == ~(contract.rule = "number" /\ form.at = "shown" /\ form.text = "wrong")

CanSubmit == Usable /\ FilesReady /\ ParametersReady

(* normalizedParameters: a list is sent empty only when it is required *)
Normalized ==
    LET omitted == contract.shown = "sometimes" /\ contract.omitted /\ form.at = "hidden"
        items   == contract.rule = "list" /\ form.text \in {"", "separators"}
    IN  CASE items /\ ~omitted /\ contract.required -> "no items"
          [] ~items /\ ~omitted /\ form.text # ""   -> form.text
          [] OTHER                                  -> "absent"

Submit ==
    /\ CanSubmit /\ BrowserAccepts
    /\ posted' = [answer |-> "awaited", skill |-> route, shown |-> form.skill, value |-> Normalized, at |-> form.at,
                  file |-> IF contract.file = "managed" THEN "none" ELSE form.file, managed |-> form.managed, broken |-> form.broken]
    /\ UNCHANGED <<contract, template, route, catalogLoads, form>>

-----------------------------------------------------------------------------
(* createSkillJob, up to the reservation of a job ID *)

Misnamed == posted.shown # posted.skill /\ ~contract.alike

ParametersInvalid ==
    \/ Misnamed /\ posted.value # "absent"
    \/ contract.required /\ posted.value = "absent"
    \/ posted.value = "wrong"

(* path.extname finds no extension in a name that has nothing before its dot *)
UploadsInvalid ==
    LET tooMany == posted.file = "too many"
        invalid == Misnamed \/ posted.file \in {"refused", "only extension"} \/ (tooMany /\ ~contract.several)
    IN  CASE posted.file = "none" -> IF contract.file # "managed" /\ contract.needed THEN "INPUT_FILE_REQUIRED" ELSE ""
          [] posted.file # "none" /\ invalid -> "INPUT_FILE_INVALID"
          [] posted.file # "none" /\ ~invalid /\ (tooMany \/ posted.file = "too large") -> "INPUT_FILE_LIMIT_EXCEEDED"
          [] OTHER -> ""

(* The middleware that receives the files comes first, the template last *)
AnswerToPost ==
    IF posted.file = "huge" THEN "UPLOAD_TOO_LARGE"
    ELSE IF ParametersInvalid THEN "PARAMETERS_INVALID"
    ELSE IF UploadsInvalid # "" THEN UploadsInvalid
    ELSE IF contract.file = "managed" /\ ~template THEN "BOM_TEMPLATE_UNAVAILABLE"
    ELSE "created"

CreateSkillJob ==
    /\ posted.answer = "awaited"
    /\ posted' = [posted EXCEPT !.answer = AnswerToPost]
    /\ UNCHANGED <<contract, template, route, catalogLoads, form>>

(* Bound: one answer, since an answer leaves the form as it was *)
FormNext ==
    /\ posted.answer \in {"none", "awaited"}
    /\ \/ TemplateChanges \/ FillParameter \/ ConditionChanges \/ SelectFiles \/ ValidateSelectedFiles \/ Submit \/ CreateSkillJob
       \/ \E c \in CatalogLoad : Mounted(c) \/ SwitchSkill(c) \/ CatalogArrives(c) \/ CatalogFails(c)

-----------------------------------------------------------------------------
(* The ways in which the server may refuse what the form has let through *)
RefusedUnseen ==
    CASE posted.answer = "PARAMETERS_INVALID"        -> \/ posted.at # "shown"
                                                        \/ contract.rule = "unchecked" /\ posted.value = "wrong"
      [] posted.answer = "INPUT_FILE_INVALID"        -> \/ posted.file = "only extension"
                                                        \/ contract.file = "plain" /\ posted.file = "refused"
      [] posted.answer = "INPUT_FILE_LIMIT_EXCEEDED" -> contract.file = "plain"
      [] posted.answer = "UPLOAD_TOO_LARGE"          -> posted.file = "huge"
      [] posted.answer = "BOM_TEMPLATE_UNAVAILABLE"  -> posted.managed
      [] OTHER                                       -> posted.answer = "created"

(* A job is created for the skill whose form was filled in, although the view is       *)
(* switched between skills whose catalog answers come late and out of order; except    *)
(* after a load that failed, which may leave the form of the skill before.  And the    *)
(* two programs that check an input agree, canSubmit with the browser's own checks and *)
(* the server's, but for these cases: a parameter that its condition hides or disables *)
(* is sent and not looked at; a control gives a value against its rule; a file whose   *)
(* check the manifest does not demand; one whose name is all extension, or which only  *)
(* the server's own limit refuses; and a template that has gone since.                 *)
SubmittedAsShown ==
    posted.answer \notin {"none", "awaited"} =>
        /\ posted.skill = posted.shown \/ posted.broken
        /\ posted.skill = posted.shown => RefusedUnseen
=============================================================================
