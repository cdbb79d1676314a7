----------------------------- MODULE ServiceProofs -----------------------------
(***************************************************************************)
(* Theorems about the parts of ServicePlatform, for every behaviour of the *)
(* composition and every value of the constants.                           *)
(***************************************************************************)
EXTENDS ServicePlatform, FiniteSetTheorems, TLAPS

-----------------------------------------------------------------------------
(* What a step of the composition is for the variables of a part *)

LEMMA StepsOfPackages == [ServicesNext]_servicesVars => [PackageNext]_packageVars
PROOF
BY DEF ServicesNext, servicesVars, packageVars

LEMMA StepsOfPages == [ServicesNext]_servicesVars => [PagesNext]_pagesVars
PROOF
BY DEF ServicesNext, servicesVars, pagesVars

LEMMA StepsOfFiles == [ServicesNext]_servicesVars => [FileNext]_fileVars
PROOF
BY DEF ServicesNext, servicesVars, fileVars

LEMMA StepsOfForm == [ServicesNext]_servicesVars => [FormNext]_formVars
PROOF
BY DEF ServicesNext, servicesVars, formVars

LEMMA StepsOfHistory == [ServicesNext]_servicesVars => [HistoryNext]_historyVars
PROOF
BY DEF ServicesNext, servicesVars, historyVars

LEMMA StepsOfReports == [ServicesNext]_servicesVars => [LookUp]_reportVars
PROOF
BY DEF ServicesNext, servicesVars, reportVars

LEMMA StepsOfContract == [ServicesNext]_servicesVars => [ValidateResult]_contractVars
PROOF
BY DEF ServicesNext, servicesVars, contractVars

LEMMA StepsOfModel == [ServicesNext]_servicesVars => [LanguageModelNext]_modelVars
PROOF
BY DEF ServicesNext, servicesVars, modelVars

-----------------------------------------------------------------------------
(* Packages *)

Tasks == [stage : {"queued", "checked", "running", "recorded", "failed"}, skill : Package,
          checked : Body \cup {0}, ran : Body \cup {0}, frozen : Body \cup {0}, used : Body \cup {0}]

(* RunsAsReviewed is inductive with the types, as every condition looks at what it records *)
PackageInv ==
    /\ packages \in [Package -> Body] /\ approvals \in [Package -> Body] /\ reviewed \in [Package -> Body]
    /\ task # NoTask => task \in Tasks
    /\ RunsAsReviewed

LEMMA PackagesBegin == PackageInit => PackageInv
PROOF
BY DEF PackageInit, PackageInv, RunsAsReviewed, Body

LEMMA PackagesGoOn == PackageInv /\ [PackageNext]_packageVars => PackageInv'
PROOF
<1> SUFFICES ASSUME PackageInv, [PackageNext]_packageVars
             PROVE  PackageInv'
    OBVIOUS
<1> USE DEF PackageInv
<1>1. CASE PackageChanges
    BY <1>1 DEF PackageChanges, RunsAsReviewed
<1>2. CASE ApprovalChanges
    BY <1>2 DEF ApprovalChanges, RunsAsReviewed, Fingerprint
<1>3. CASE BackendRestarts
    BY <1>3 DEF BackendRestarts, RunsAsReviewed, Tasks
<1>4. CASE CreateTask
    BY <1>4 DEF CreateTask, RunsAsReviewed, Tasks, Fingerprint, Package
<1>5. CASE CheckPackage
    BY <1>5 DEF CheckPackage, TaskIs, RunsAsReviewed, Tasks, Fingerprint
<1>6. CASE SpawnSkill
    BY <1>6, PackagesAssumption DEF SpawnSkill, TaskIs, DependencyIsAsFrozen, Loads, IsApproved, RunsAsReviewed, Tasks, Fingerprint, Package
<1>7. CASE RecordSkill
    BY <1>7 DEF RecordSkill, TaskIs, ResultVersionIsRight, RunsAsReviewed, Tasks
<1>8. CASE UNCHANGED packageVars
    BY <1>8 DEF packageVars, RunsAsReviewed
<1> QED
    BY <1>1, <1>2, <1>3, <1>4, <1>5, <1>6, <1>7, <1>8 DEF PackageNext

(* An audit runs with the dependency it was created with and as it is approved, and *)
(* the version a job records is the one that ran, whenever files, approvals and the *)
(* backend change.                                                                  *)
THEOREM PackagesRunAsReviewed == ServicesSpec => []RunsAsReviewed
PROOF
<1>1. ServicesInit => PackageInv
    BY PackagesBegin DEF ServicesInit
<1>2. PackageInv /\ [ServicesNext]_servicesVars => PackageInv'
    BY PackagesGoOn, StepsOfPackages
<1>3. PackageInv => RunsAsReviewed
    BY DEF PackageInv
<1> QED
    BY <1>1, <1>2, <1>3, PTL DEF ServicesSpec

-----------------------------------------------------------------------------
(* Pages *)

Answers == [at : {"idle", "asked", "job", "answer"}, ended : BOOLEAN, counted : Nat, listed : Nat]

PageTypes ==
    /\ stored \in [ended : BOOLEAN, counted : Nat, outputs : Nat]
    /\ follower \subseteq {"asked", "on"}
    /\ loads \in [Load -> Answers]
    /\ page \in [ended : BOOLEAN, listed : Nat, stale : BOOLEAN, open : BOOLEAN]

(* What is told of an end was so in the store, where an ended job does not change *)
EndsAreStored ==
    /\ page.ended => stored.ended
    /\ stored.ended => stored.outputs >= stored.counted

(* An answer reads the job first: if the job had ended, the files it reads after that are all there *)
AnswersAreWhole ==
    \A l \in Load : loads[l].ended =>
        /\ loads[l].at \in {"job", "answer"} => stored.ended
        /\ loads[l].at = "answer" => loads[l].listed >= stored.counted

PagesInv == PageTypes /\ EndsAreStored /\ AnswersAreWhole /\ EndedPagesAreWhole

LEMMA PagesBegin == PagesInit => PagesInv
PROOF
BY DEF PagesInit, PagesInv, PageTypes, EndsAreStored, AnswersAreWhole, EndedPagesAreWhole, Answers, NoLoad

LEMMA PagesGoOn == PagesInv /\ [PagesNext]_pagesVars => PagesInv'
PROOF
<1> SUFFICES ASSUME PagesInv, [PagesNext]_pagesVars
             PROVE  PagesInv'
    OBVIOUS
<1> USE DEF PagesInv, PageTypes, EndsAreStored, AnswersAreWhole, EndedPagesAreWhole, Answers, NoLoad
<1>1. CASE InsertOutput
    BY <1>1 DEF InsertOutput
<1>2. CASE StoreEnd
  <2>1. PICK n \in {0, stored.outputs} :
            stored' = [stored EXCEPT !.ended = TRUE, !.counted = n]
      BY <1>2 DEF StoreEnd
  <2>2. ~stored.ended /\ UNCHANGED <<follower, loads, page>>
      BY <1>2 DEF StoreEnd
  <2>3. n \in Nat /\ n <= stored.outputs
      BY <2>1
  <2>4. stored'.ended = TRUE /\ stored'.counted = n /\ stored'.outputs = stored.outputs
      BY <2>1
  <2>5. PageTypes'
      BY <2>1, <2>2, <2>3
  <2>6. EndsAreStored' /\ AnswersAreWhole' /\ EndedPagesAreWhole'
      BY <2>2, <2>3, <2>4
  <2> QED
      BY <2>5, <2>6
<1>4. CASE SnapshotShown
  <2>1. PICK ended \in {FALSE, stored.ended} : page' = [page EXCEPT !.ended = ended, !.stale = @ \/ ended]
      BY <1>4 DEF SnapshotShown, StatusRead
  <2>2. follower' = {"on"} /\ UNCHANGED <<stored, loads>>
      BY <1>4 DEF SnapshotShown
  <2>3. ended \in BOOLEAN /\ (ended => stored.ended)
      BY <2>1
  <2>4. page' = [page EXCEPT !.ended = ended, !.stale = page.stale \/ ended] /\ (page.stale \/ ended) \in BOOLEAN
      BY <2>1, <2>3
  <2> QED
      BY <2>2, <2>3, <2>4
<1>5. ASSUME NEW l \in Load, OpenPage(l)
      PROVE  PagesInv'
    BY <1>5 DEF OpenPage, Ask, LoadAt
<1>6. ASSUME NEW l \in Load, GetJobDetail(l)
      PROVE  PagesInv'
    BY <1>6 DEF GetJobDetail, ReadInTurn, ReadsJob, ReadsFiles, LoadAt
<1>7. ASSUME NEW l \in Load, DetailShown(l)
      PROVE  PagesInv'
    BY <1>7 DEF DetailShown, LoadAt
<1>8. ASSUME NEW l \in Load, LoadFails(l)
      PROVE  PagesInv'
    BY <1>8 DEF LoadFails, LoadAt
<1>9. ASSUME NEW l \in Load, MessageShown(l)
      PROVE  PagesInv'
  <2>1. PICK ended \in {FALSE, stored.ended} :
            page' = [page EXCEPT !.ended = ended] /\ IF ended THEN Ask(l) ELSE UNCHANGED loads
      BY <1>9 DEF MessageShown, StatusRead
  <2>2. UNCHANGED <<stored, follower>>
      BY <1>9 DEF MessageShown
  <2>3. CASE ended = TRUE
    <3>1. loads[l].at = "idle" /\ loads' = [loads EXCEPT ![l] = [NoLoad EXCEPT !.at = "asked"]]
        BY <2>1, <2>3 DEF Ask, LoadAt
    <3>2. page'.ended \in BOOLEAN /\ page'.ended = stored.ended /\ page' \in [ended : BOOLEAN, listed : Nat, stale : BOOLEAN, open : BOOLEAN]
        BY <2>1, <2>3
    <3>3. loads' \in [Load -> Answers] /\ loads'[l].at = "asked" /\ loads'[l].ended = FALSE
        BY <3>1
    <3>4. \A k \in Load \ {l} : loads'[k] = loads[k]
        BY <3>1
    <3> QED
        BY <2>2, <3>2, <3>3, <3>4
  <2>4. CASE ended = FALSE
      BY <2>1, <2>2, <2>4
  <2> QED
      BY <2>1, <2>3, <2>4
<1>10. CASE UNCHANGED pagesVars
    BY <1>10 DEF pagesVars
<1> QED
    BY <1>1, <1>2, <1>4, <1>5, <1>6, <1>7, <1>8, <1>9, <1>10 DEF PagesNext

(* A page that calls its job ended shows all the files the job counts, for any number *)
(* of requests and files, unless its reload is under way or nothing makes it ask.     *)
THEOREM PagesAreWhole == ServicesSpec => []EndedPagesAreWhole
PROOF
<1>1. ServicesInit => PagesInv
    BY PagesBegin DEF ServicesInit
<1>2. PagesInv /\ [ServicesNext]_servicesVars => PagesInv'
    BY PagesGoOn, StepsOfPages
<1>3. PagesInv => EndedPagesAreWhole
    BY DEF PagesInv
<1> QED
    BY <1>1, <1>2, <1>3, PTL DEF ServicesSpec

-----------------------------------------------------------------------------
(* Files *)

FileTypes ==
    /\ fileJob \in {"queued", "running", "ended"} /\ creation \in {"inserting", "answered", "crashed"}
    /\ cleaner \in [Cleaner -> [at : {"idle", "next", "checked", "deleted"}, todo : SUBSET File]]
    /\ rerun \in [at : {"idle", "check", "read", "created", "refused"}, todo : SUBSET File, got : SUBSET Input,
                  seen : SUBSET File, whole : BOOLEAN]
    /\ marked \subseteq File /\ tracked \subseteq File

(* Until the job has ended, no cleaner has begun with it *)
NothingIsCleaned ==
    fileJob # "ended" => /\ marked = {} /\ Input \cup tracked \subseteq onDisk
                         /\ \A c \in Cleaner : cleaner[c].at = "idle"

FileInv ==
    /\ FileTypes /\ NothingIsCleaned
    /\ marked \cap onDisk = {}
    /\ \A c \in Cleaner : cleaner[c].at = "deleted" => ChosenOf(c) \in File \ onDisk
    /\ \A c \in Cleaner : cleaner[c].at # "idle" => cleaner[c].todo # {}
    /\ creation = "answered" => Input \subseteq tracked
    /\ rerun.at \in {"check", "read"} /\ rerun.whole => rerun.got \cup rerun.todo = Input
    /\ rerun.at = "created" /\ rerun.whole => rerun.got = Input

LEMMA FilesBegin == FileInit => FileInv
PROOF
BY DEF FileInit, FileInv, FileTypes, NothingIsCleaned, NoRun, File

LEMMA FilesGoOn == FileInv /\ [FileNext]_fileVars => FileInv'
PROOF
<1> SUFFICES ASSUME FileInv, [FileNext]_fileVars
             PROVE  FileInv'
    OBVIOUS
<1> USE DEF FileInv, FileTypes, NothingIsCleaned, NoRun, File
<1>1. CASE InsertRecord
    BY <1>1 DEF InsertRecord, ChosenOf
<1>2. CASE JobStarts \/ JobEnds \/ TimePasses
    BY <1>2 DEF JobStarts, JobEnds, TimePasses, ChosenOf
<1>3. CASE OutputRecorded
    BY <1>3 DEF OutputRecorded, ChosenOf
<1>4. CASE RerunStarts
    BY <1>4 DEF RerunStarts, ChosenOf
<1>5. ASSUME NEW f \in Input, CheckInput(f)
      PROVE  FileInv'
    BY <1>5 DEF CheckInput, UnavailableRefuses, ChosenOf
<1>6. ASSUME NEW f \in Input, ReadInput(f)
      PROVE  FileInv'
  <2>1. CASE f \notin onDisk
      BY <1>6, <2>1 DEF ReadInput, ChosenOf
  <2>2. CASE f \in onDisk
    <3>1. /\ rerun.at = "read" /\ f \in rerun.todo
          /\ UNCHANGED <<fileJob, creation, tracked, marked, onDisk, clock, cleaner>>
        BY <1>6 DEF ReadInput
    <3>2. /\ rerun'.todo = rerun.todo \ {f} /\ rerun'.got = rerun.got \cup {f}
          /\ rerun'.seen = rerun.seen /\ rerun'.whole = rerun.whole
          /\ rerun'.at \in {"check", "created", "refused"}
          /\ rerun'.at = "created" => rerun.todo = {f}
        BY <1>6, <2>2 DEF ReadInput
    <3>3. rerun' \in [at : {"idle", "check", "read", "created", "refused"}, todo : SUBSET File, got : SUBSET Input,
                      seen : SUBSET File, whole : BOOLEAN]
        BY <1>6, <2>2 DEF ReadInput
    <3>4. /\ rerun'.at \in {"check", "read"} /\ rerun'.whole => rerun'.got \cup rerun'.todo = Input
          /\ rerun'.at = "created" /\ rerun'.whole => rerun'.got = Input
        BY <3>1, <3>2
    <3> QED
        BY <3>1, <3>3, <3>4 DEF ChosenOf
  <2> QED
      BY <2>1, <2>2
<1>7. ASSUME NEW c \in Cleaner, PlanCleanup(c)
      PROVE  FileInv'
    BY <1>7 DEF PlanCleanup, Deletable, Candidates, ChosenOf
<1>8. ASSUME NEW c \in Cleaner, CheckCandidate(c)
      PROVE  FileInv'
    BY <1>8 DEF CheckCandidate, Deletable, Going, ChosenOf
<1>9. ASSUME NEW c \in Cleaner, DeleteFile(c)
      PROVE  FileInv'
    BY <1>9 DEF DeleteFile, Going, ChosenOf
<1>10. ASSUME NEW c \in Cleaner, DeleteFails(c)
      PROVE  FileInv'
    BY <1>10 DEF DeleteFails, Done, ChosenOf
<1>11. ASSUME NEW c \in Cleaner, MarkUnavailable(c)
      PROVE  FileInv'
    BY <1>11 DEF MarkUnavailable, ReadyToMark, Done, ChosenOf
<1>12. ASSUME NEW c \in Cleaner, CleanerCrashes(c)
      PROVE  FileInv'
    BY <1>12 DEF CleanerCrashes, ChosenOf
<1>13. CASE UNCHANGED fileVars
    BY <1>13 DEF fileVars, ChosenOf
<1> QED
    BY <1>1, <1>2, <1>3, <1>4, <1>5, <1>6, <1>7, <1>8, <1>9, <1>10, <1>11, <1>12, <1>13 DEF FileNext

(* A job that has not ended keeps its files, a mark says the truth, and a rerun has all *)
(* inputs or is refused, for any number of cleaners that overlap and crash anywhere.    *)
THEOREM FilesAreRetained == ServicesSpec => []RetentionIsSafe
PROOF
<1>1. ServicesInit => FileInv
    BY FilesBegin DEF ServicesInit
<1>2. FileInv /\ [ServicesNext]_servicesVars => FileInv'
    BY FilesGoOn, StepsOfFiles
<1>3. FileInv => RetentionIsSafe
    BY DEF FileInv, NothingIsCleaned, RetentionIsSafe
<1> QED
    BY <1>1, <1>2, <1>3, PTL DEF ServicesSpec

-----------------------------------------------------------------------------
(* The launch form *)

Places == {"shown", "disabled", "hidden"}

Forms == [skill : Skill \cup {NoSkill}, text : Texts, at : Places, file : Files, checked : Checks, managed : BOOLEAN,
          loading : BOOLEAN, broken : BOOLEAN]

Posts == [answer : PostAnswers, skill : Skill, shown : Skill \cup {NoSkill}, value : Texts \cup {"absent", "no items"},
          at : Places, file : Files, managed : BOOLEAN, broken : BOOLEAN]

FormTypes ==
    /\ contract \in Contracts /\ route \in Skill /\ template \in BOOLEAN
    /\ form \in Forms
    /\ posted = NoPost \/ posted \in Posts

(* What the form shows has been loaded for the route, what has passed was looked at, and *)
(* a value against its rule comes from a control that knows no better                    *)
FormIsOfTheRoute ==
    /\ ~form.loading => form.broken \/ form.skill = route
    /\ form.checked = "passed" => form.file \in {"accepted", "only extension", "huge"}
    /\ form.file = "too many" => contract.several
    /\ form.text = "wrong" => contract.rule \in {"number", "unchecked"}

(* What the checks of the form leave of the ways in which the server refuses *)
PostIsOfTheForm ==
    posted.answer # "none" =>
        /\ posted.skill = posted.shown \/ posted.broken
        /\ contract.required /\ posted.at = "shown" => posted.value # "absent"
        /\ posted.at = "shown" /\ posted.value = "wrong" => contract.rule = "unchecked"
        /\ contract.file = "managed" => posted.file = "none" /\ posted.managed
        /\ contract.file # "managed" /\ contract.needed => posted.file # "none"
        /\ contract.file = "validated" => posted.file \in {"none", "accepted", "only extension", "huge"}
        /\ posted.file = "too many" => contract.several

FormInv == FormTypes /\ FormIsOfTheRoute /\ PostIsOfTheForm /\ SubmittedAsShown

LEMMA FieldsOfContracts ==
    ASSUME NEW c \in Contracts
    PROVE  /\ c.rule \in {"free", "list", "number", "unchecked"} /\ c.required \in BOOLEAN
           /\ c.file \in {"plain", "validated", "managed"} /\ c.needed \in BOOLEAN /\ c.several \in BOOLEAN
           /\ c.default \in Texts /\ (c.default = "wrong" => c.rule \in {"number", "unchecked"})
PROOF
<1>1. c \in [rule : {"free", "list", "number", "unchecked"}, required : BOOLEAN,
             shown : {"always", "sometimes", "never"}, omitted : BOOLEAN, default : {"", "word", "wrong"},
             file : {"plain", "validated", "managed"}, needed : BOOLEAN, several : BOOLEAN, alike : BOOLEAN]
      /\ (c.default = "wrong" => c.rule \in {"number", "unchecked"})
    BY DEF Contracts
<1> QED
    BY <1>1 DEF Texts

LEMMA FormsBegin == FormInit => FormInv
PROOF
<1> SUFFICES ASSUME FormInit PROVE FormInv
    OBVIOUS
<1>0. contract \in Contracts
    BY FormAssumption DEF FormInit
<1>1. form = [skill |-> NoSkill, text |-> contract.default, at |-> IF contract.shown = "never" THEN "hidden" ELSE "shown",
              file |-> "none", checked |-> "no", managed |-> TRUE, loading |-> TRUE, broken |-> FALSE]
    BY DEF FormInit, Unfilled
<1>2. form \in Forms /\ FormIsOfTheRoute
  <2>1. contract.default \in Texts /\ (contract.default = "wrong" => contract.rule \in {"number", "unchecked"})
      BY <1>0, FieldsOfContracts
  <2> QED
      BY <1>1, <2>1 DEF Forms, Places, Files, Checks, FormIsOfTheRoute
<1>3. posted = NoPost /\ posted.answer = "none"
    BY DEF FormInit, NoPost
<1>4. contract \in Contracts /\ route \in Skill /\ template \in BOOLEAN
    BY <1>0 DEF FormInit
<1> QED
    BY <1>2, <1>3, <1>4 DEF FormInv, FormTypes, PostIsOfTheForm, SubmittedAsShown

(* A step that leaves the post alone *)
LEMMA PostIsKept ==
    ASSUME FormInv, posted' = posted, contract' = contract,
           route' \in Skill, template' \in BOOLEAN, form' \in Forms, FormIsOfTheRoute'
    PROVE  FormInv'
PROOF
BY DEF FormInv, FormTypes, PostIsOfTheForm, SubmittedAsShown, RefusedUnseen

(* RefusedUnseen of an answer that is about to be given *)
Foreseen(a) ==
    CASE a = "PARAMETERS_INVALID"        -> \/ posted.at # "shown"
                                            \/ contract.rule = "unchecked" /\ posted.value = "wrong"
      [] a = "INPUT_FILE_INVALID"        -> \/ posted.file = "only extension"
                                            \/ contract.file = "plain" /\ posted.file = "refused"
      [] a = "INPUT_FILE_LIMIT_EXCEEDED" -> contract.file = "plain"
      [] a = "UPLOAD_TOO_LARGE"          -> posted.file = "huge"
      [] a = "BOM_TEMPLATE_UNAVAILABLE"  -> posted.managed
      [] OTHER                           -> a = "created"

(* What the server makes of a post of the form *)
LEMMA AnswersAreForeseen ==
    ASSUME FormTypes, PostIsOfTheForm, posted \in Posts
    PROVE  /\ AnswerToPost \in PostAnswers
           /\ posted.skill = posted.shown => Foreseen(AnswerToPost)
PROOF
<1> DEFINE refused == UploadsInvalid
<1>0. /\ posted.answer # "none" /\ posted.file \in Files /\ contract.file \in {"plain", "validated", "managed"}
      /\ contract.rule \in {"free", "list", "number", "unchecked"}
  <2>1. posted.answer \in PostAnswers /\ posted.file \in Files
      BY DEF Posts
  <2>2. "none" \notin PostAnswers
      BY DEF PostAnswers
  <2>3. posted.answer # "none"
      BY <2>1, <2>2
  <2>4. contract \in Contracts
      BY DEF FormTypes
  <2>5. /\ contract.file \in {"plain", "validated", "managed"}
        /\ contract.rule \in {"free", "list", "number", "unchecked"}
      BY <2>4, FieldsOfContracts
  <2> QED
      BY <2>1, <2>3, <2>5
<1>1. refused \in {"", "INPUT_FILE_INVALID", "INPUT_FILE_REQUIRED", "INPUT_FILE_LIMIT_EXCEEDED"}
    BY <1>0 DEF UploadsInvalid
<1>2. ASSUME posted.skill = posted.shown
      PROVE  /\ refused # "INPUT_FILE_REQUIRED"
             /\ refused = "INPUT_FILE_INVALID" => posted.file = "only extension" \/ (contract.file = "plain" /\ posted.file = "refused")
             /\ refused = "INPUT_FILE_LIMIT_EXCEEDED" => contract.file = "plain"
             /\ ParametersInvalid => posted.at # "shown" \/ (contract.rule = "unchecked" /\ posted.value = "wrong")
  <2>1. ~Misnamed
      BY <1>2 DEF Misnamed
  <2>2. refused # "INPUT_FILE_REQUIRED"
      BY <1>0, <2>1 DEF UploadsInvalid, PostIsOfTheForm, Files
  <2>3. refused = "INPUT_FILE_INVALID" => posted.file = "only extension" \/ (contract.file = "plain" /\ posted.file = "refused")
      BY <1>0, <2>1 DEF UploadsInvalid, PostIsOfTheForm, Files
  <2>4. refused = "INPUT_FILE_LIMIT_EXCEEDED" => contract.file = "plain"
      BY <1>0, <2>1 DEF UploadsInvalid, PostIsOfTheForm, Files
  <2>5. ParametersInvalid => posted.at # "shown" \/ (contract.rule = "unchecked" /\ posted.value = "wrong")
      BY <1>0, <2>1 DEF ParametersInvalid, PostIsOfTheForm
  <2> QED BY <2>2, <2>3, <2>4, <2>5
<1>3. /\ posted.file = "huge" => AnswerToPost = "UPLOAD_TOO_LARGE"
      /\ posted.file # "huge" /\ ParametersInvalid => AnswerToPost = "PARAMETERS_INVALID"
      /\ posted.file # "huge" /\ ~ParametersInvalid /\ refused # "" => AnswerToPost = refused
      /\ posted.file # "huge" /\ ~ParametersInvalid /\ refused = "" =>
            AnswerToPost = "created" \/ (AnswerToPost = "BOM_TEMPLATE_UNAVAILABLE" /\ contract.file = "managed")
    BY DEF AnswerToPost
<1> HIDE DEF refused
<1> DEFINE answer == AnswerToPost
<1>4. /\ contract.file = "managed" => posted.managed
      /\ answer \in {"UPLOAD_TOO_LARGE", "PARAMETERS_INVALID", "INPUT_FILE_INVALID", "INPUT_FILE_REQUIRED",
                     "INPUT_FILE_LIMIT_EXCEEDED", "created", "BOM_TEMPLATE_UNAVAILABLE"}
    BY <1>0, <1>1, <1>3 DEF PostIsOfTheForm
<1>5. /\ answer = "UPLOAD_TOO_LARGE" => posted.file = "huge"
      /\ answer = "PARAMETERS_INVALID" => ParametersInvalid
      /\ answer \in {"INPUT_FILE_INVALID", "INPUT_FILE_REQUIRED", "INPUT_FILE_LIMIT_EXCEEDED"} => refused = answer
      /\ answer = "BOM_TEMPLATE_UNAVAILABLE" => contract.file = "managed"
    BY <1>1, <1>3
<1> HIDE DEF answer
<1>6. ASSUME posted.skill = posted.shown
      PROVE  /\ answer = "PARAMETERS_INVALID" =>
                    posted.at # "shown" \/ (contract.rule = "unchecked" /\ posted.value = "wrong")
             /\ answer = "INPUT_FILE_INVALID" =>
                    posted.file = "only extension" \/ (contract.file = "plain" /\ posted.file = "refused")
             /\ answer = "INPUT_FILE_LIMIT_EXCEEDED" => contract.file = "plain"
             /\ answer # "INPUT_FILE_REQUIRED"
  <2>1. /\ refused # "INPUT_FILE_REQUIRED"
        /\ refused = "INPUT_FILE_INVALID" => posted.file = "only extension" \/ (contract.file = "plain" /\ posted.file = "refused")
        /\ refused = "INPUT_FILE_LIMIT_EXCEEDED" => contract.file = "plain"
      BY <1>2, <1>6
  <2>2. ParametersInvalid => posted.at # "shown" \/ (contract.rule = "unchecked" /\ posted.value = "wrong")
      BY <1>2, <1>6
  <2>3. answer \in {"INPUT_FILE_INVALID", "INPUT_FILE_REQUIRED", "INPUT_FILE_LIMIT_EXCEEDED"} => refused = answer
      BY <1>5
  <2>4. answer = "PARAMETERS_INVALID" => ParametersInvalid
      BY <1>5
  <2> QED
      BY <2>1, <2>2, <2>3, <2>4
<1>7. answer = "BOM_TEMPLATE_UNAVAILABLE" => posted.managed
    BY <1>4, <1>5
<1>8. posted.skill = posted.shown => Foreseen(answer)
    BY <1>4, <1>5, <1>6, <1>7 DEF Foreseen
<1>9. answer \in PostAnswers
    BY <1>4 DEF PostAnswers
<1> QED
    BY <1>8, <1>9 DEF answer

LEMMA FormsGoOn == FormInv /\ [FormNext]_formVars => FormInv'
PROOF
<1> SUFFICES ASSUME FormInv, [FormNext]_formVars
             PROVE  FormInv'
    OBVIOUS
<1>0. FormTypes /\ FormIsOfTheRoute
    BY DEF FormInv
<1>1. CASE TemplateChanges
    BY <1>0, <1>1, PostIsKept DEF TemplateChanges, FormTypes, FormIsOfTheRoute
<1>2. CASE FillParameter
  <2>1. PICK t \in TextsOfTheControl : form' = [form EXCEPT !.text = t] /\ UNCHANGED <<contract, template, route, posted>>
      BY <1>2 DEF FillParameter
  <2>2. t \in Texts /\ (t = "wrong" => contract.rule \in {"number", "unchecked"})
      BY <1>0, FieldsOfContracts DEF TextsOfTheControl, FormTypes
  <2> QED
      BY <1>0, <2>1, <2>2, PostIsKept DEF FormTypes, FormIsOfTheRoute, Forms
<1>3. CASE SelectFiles
    BY <1>0, <1>3, PostIsKept DEF SelectFiles, FileChosen, FormTypes, FormIsOfTheRoute, Forms, Checks
<1>4. CASE ValidateSelectedFiles
    BY <1>0, <1>4, PostIsKept DEF ValidateSelectedFiles, FormTypes, FormIsOfTheRoute, Forms, Files, Checks
<1>12. CASE ConditionChanges
    BY <1>0, <1>12, PostIsKept DEF ConditionChanges, FormTypes, FormIsOfTheRoute, Forms, Places
<1>5. CASE Submit
  <2>1. posted' = [answer |-> "awaited", skill |-> route, shown |-> form.skill, value |-> Normalized, at |-> form.at,
                  file |-> IF contract.file = "managed" THEN "none" ELSE form.file, managed |-> form.managed, broken |-> form.broken]
        /\ UNCHANGED <<contract, template, route, form>>
      BY <1>5 DEF Submit
  <2>0. /\ contract.rule \in {"free", "list", "number", "unchecked"} /\ contract.file \in {"plain", "validated", "managed"}
        /\ form.text \in Texts /\ form.at \in Places
      BY <1>0, FieldsOfContracts DEF FormTypes, Forms
  <2>2. Normalized \in {"absent", "no items", form.text}
      BY DEF Normalized
  <2>3. posted' \in Posts
    <3>1. (IF contract.file = "managed" THEN "none" ELSE form.file) \in Files
        BY <1>0 DEF FormTypes, Forms, Files
    <3>2. Normalized \in Texts \cup {"absent", "no items"}
        BY <2>0, <2>2
    <3>3. /\ form.skill \in Skill \cup {NoSkill} /\ form.managed \in BOOLEAN /\ form.broken \in BOOLEAN
          /\ form.at \in Places /\ route \in Skill
        BY <1>0 DEF FormTypes, Forms
    <3>4. "awaited" \in PostAnswers
        BY DEF PostAnswers
    <3> QED
        BY <2>1, <3>1, <3>2, <3>3, <3>4 DEF Posts
  <2>4. contract.required /\ form.at = "shown" => Normalized # "absent"
    <3>1. contract.required /\ form.at = "shown" =>
             IF contract.rule = "list" THEN form.text \notin {"", "separators"} ELSE form.text # ""
        BY <1>5 DEF Submit, CanSubmit, ParametersReady
    <3> QED
        BY <2>0, <3>1 DEF Normalized, Texts
  <2>5. form.at = "shown" /\ Normalized = "wrong" => contract.rule = "unchecked"
    <3>1. Normalized = "wrong" => form.text = "wrong"
        BY <2>2
    <3> QED
        BY <1>0, <1>5, <3>1 DEF Submit, BrowserAccepts, FormIsOfTheRoute
  <2>6. PostIsOfTheForm'
    <3>1. /\ posted'.skill = route /\ posted'.shown = form.skill /\ posted'.value = Normalized /\ posted'.at = form.at
          /\ posted'.file = (IF contract.file = "managed" THEN "none" ELSE form.file)
          /\ posted'.managed = form.managed /\ posted'.broken = form.broken /\ contract' = contract
        BY <2>1
    <3>2. form.broken \/ form.skill = route
        BY <1>0, <1>5 DEF Submit, CanSubmit, Usable, FormIsOfTheRoute
    <3>3. FilesReady
        BY <1>5 DEF Submit, CanSubmit
    <3>4. /\ contract.file = "managed" => form.managed
          /\ contract.file # "managed" /\ contract.needed => form.file # "none"
          /\ contract.file = "validated" => form.file \in {"none", "accepted", "only extension", "huge"}
          /\ form.file = "too many" => contract.several
        BY <1>0, <2>0, <3>3 DEF FilesReady, FormIsOfTheRoute
    <3> HIDE DEF Normalized
    <3> QED
        BY <2>4, <2>5, <3>1, <3>2, <3>4 DEF PostIsOfTheForm
  <2>7. SubmittedAsShown'
      BY <2>1 DEF SubmittedAsShown
  <2> QED
      BY <1>0, <2>1, <2>3, <2>6, <2>7 DEF FormInv, FormTypes, FormIsOfTheRoute
<1>6. CASE CreateSkillJob
  <2> DEFINE answer == AnswerToPost
  <2>1. posted.answer = "awaited" /\ posted' = [posted EXCEPT !.answer = answer] /\ UNCHANGED <<contract, template, route, form>>
      BY <1>6 DEF CreateSkillJob
  <2>2. posted \in Posts
    <3>1. NoPost.answer = "none"
        BY DEF NoPost
    <3> QED
        BY <1>0, <2>1, <3>1 DEF FormTypes
  <2>4. /\ answer \in PostAnswers
        /\ posted.skill = posted.shown => Foreseen(answer)
      BY <2>2, AnswersAreForeseen DEF FormInv
  <2> HIDE DEF answer
  <2>6. /\ posted'.answer = answer /\ posted' \in Posts
        /\ posted'.skill = posted.skill /\ posted'.shown = posted.shown /\ posted'.value = posted.value /\ posted'.at = posted.at
        /\ posted'.file = posted.file /\ posted'.managed = posted.managed /\ posted'.broken = posted.broken
      BY <2>1, <2>2, <2>4 DEF Posts
  <2>7. PostIsOfTheForm'
      BY <2>1, <2>6 DEF FormInv, PostIsOfTheForm
  <2>8. posted.broken \/ posted.skill = posted.shown
      BY <2>1 DEF FormInv, PostIsOfTheForm
  <2>9. SubmittedAsShown'
      BY <2>1, <2>4, <2>6, <2>8 DEF SubmittedAsShown, RefusedUnseen, Foreseen
  <2> QED
      BY <1>0, <2>1, <2>6, <2>7, <2>9 DEF FormInv, FormTypes, FormIsOfTheRoute
<1>7. ASSUME NEW c \in CatalogLoad, Mounted(c)
      PROVE  FormInv'
    BY <1>0, <1>7, PostIsKept DEF Mounted, FormTypes, FormIsOfTheRoute
<1>8. ASSUME NEW c \in CatalogLoad, SwitchSkill(c)
      PROVE  FormInv'
    BY <1>0, <1>8, PostIsKept DEF SwitchSkill, FormTypes, FormIsOfTheRoute, Forms
<1>9. ASSUME NEW c \in CatalogLoad, CatalogArrives(c)
      PROVE  FormInv'
  <2>1. /\ UNCHANGED <<contract, template, route, posted>>
        /\ form' = [skill |-> route, text |-> contract.default, at |-> IF contract.shown = "never" THEN "hidden" ELSE "shown",
                    file |-> "none", checked |-> "no", managed |-> template, loading |-> FALSE, broken |-> FALSE]
      BY <1>9 DEF CatalogArrives, SkillLoaded, Unfilled
  <2>2. contract.default \in Texts /\ (contract.default = "wrong" => contract.rule \in {"number", "unchecked"})
      BY <1>0, FieldsOfContracts DEF FormTypes
  <2>3. form' \in Forms /\ FormIsOfTheRoute'
      BY <1>0, <2>1, <2>2 DEF FormTypes, FormIsOfTheRoute, Forms, Places, Files, Checks
  <2> QED
      BY <1>0, <2>1, <2>3, PostIsKept DEF FormTypes
<1>10. ASSUME NEW c \in CatalogLoad, CatalogFails(c)
       PROVE  FormInv'
    BY <1>0, <1>10, PostIsKept DEF CatalogFails, FormTypes, FormIsOfTheRoute, Forms
<1>11. CASE UNCHANGED formVars
    BY <1>0, <1>11, PostIsKept DEF formVars, FormTypes, FormIsOfTheRoute
<1> QED
    BY <1>1, <1>2, <1>3, <1>4, <1>5, <1>6, <1>7, <1>8, <1>9, <1>10, <1>11, <1>12 DEF FormNext

(* A job is created for the skill whose form was filled in, and the server refuses only what *)
(* the form has no check for, for any contracts, skills and catalog requests that overlap.   *)
THEOREM FormsAreTrue == ServicesSpec => []SubmittedAsShown
PROOF
<1>1. ServicesInit => FormInv
    BY FormsBegin DEF ServicesInit
<1>2. FormInv /\ [ServicesNext]_servicesVars => FormInv'
    BY FormsGoOn, StepsOfForm
<1>3. FormInv => SubmittedAsShown
    BY DEF FormInv
<1> QED
    BY <1>1, <1>2, <1>3, PTL DEF ServicesSpec

-----------------------------------------------------------------------------
(* Administration, for any sessions, settings and bound on revisions *)

LEMMA StepsOfAdministration == [ServicesNext]_servicesVars => [AdminNext]_adminVars
PROOF
BY DEF ServicesNext, servicesVars, adminVars

-----------------------------------------------------------------------------
(* Logins *)

FoundersAreOne == \A s, t \in founders : s = t

(* While one login at most has found no account, every copy of the account is the account itself *)
CopiesAreTheAccount ==
    FoundersAreOne =>
        \A s \in Session : /\ signing[s] \in {"comparing", "saved", "in"} => account # NoAccount /\ signed[s] = account
                           /\ signing[s] = "founding" => account = NoAccount

LoginInv ==
    /\ account \in Session \cup {NoAccount} /\ active \in BOOLEAN
    /\ signing \in [Session -> {"no", "founding", "ready", "comparing", "saved", "in"}]
    /\ signed \in [Session -> Session \cup {NoAccount}]
    /\ founders \subseteq Session /\ IsFiniteSet(founders)
    /\ active => account # NoAccount
    /\ \A s \in Session : /\ signing[s] = "founding" => s \in founders
                          /\ signing[s] = "comparing" => signed[s] # NoAccount
    /\ CopiesAreTheAccount

LEMMA LoginsBegin == AdminInit => LoginInv
PROOF
<1> SUFFICES ASSUME AdminInit PROVE LoginInv
    OBVIOUS
<1>1. IsFiniteSet(founders)
    BY FS_EmptySet DEF AdminInit
<1> QED
    BY <1>1 DEF AdminInit, LoginInv, CopiesAreTheAccount

LEMMA LoginsGoOn == LoginInv /\ [AdminNext]_adminVars => LoginInv'
PROOF
<1> SUFFICES ASSUME LoginInv, [AdminNext]_adminVars
             PROVE  LoginInv'
    OBVIOUS
<1> USE DEF LoginInv, CopiesAreTheAccount, FoundersAreOne, SigningIs, SigningTo
<1>1. ASSUME NEW s \in Session, LoginCounts(s)
      PROVE  LoginInv'
  <2>1. IsFiniteSet(founders')
      BY <1>1, FS_AddElement DEF LoginCounts
  <2>2. founders \subseteq founders' /\ founders' \subseteq Session
      BY <1>1 DEF LoginCounts
  <2>3. signing'[s] = "founding" => s \in founders' /\ account = NoAccount
      BY <1>1 DEF LoginCounts, NeedsAccount
  <2> QED
      BY <1>1, <2>1, <2>2, <2>3 DEF LoginCounts
<1>2. ASSUME NEW s \in Session, LoginFounds(s)
      PROVE  LoginInv'
    BY <1>2, AdminAssumption DEF LoginFounds
<1>3. ASSUME NEW s \in Session, LoginReads(s)
      PROVE  LoginInv'
    BY <1>3 DEF LoginReads
<1>4. ASSUME NEW s \in Session, LoginRefused(s)
      PROVE  LoginInv'
    BY <1>4 DEF LoginRefused
<1>5. ASSUME NEW s \in Session, LoginSaves(s)
      PROVE  LoginInv'
    BY <1>5 DEF LoginSaves
<1>6. ASSUME NEW s \in Session, LoginAnswered(s)
      PROVE  LoginInv'
    BY <1>6 DEF LoginAnswered
<1>7. ASSUME NEW s \in Session, SignOut(s)
      PROVE  LoginInv'
    BY <1>7 DEF SignOut
<1>8. CASE Deactivated
    BY <1>8 DEF Deactivated
<1>9. CASE UNCHANGED accountVars
    BY <1>9 DEF accountVars
<1> QED
    BY <1>1, <1>2, <1>3, <1>4, <1>5, <1>6, <1>7, <1>8, <1>9
    DEF AdminNext, SaveEdit, WriteSettings, ComposeImport, PreviewImport, Abandon, ApplyBacksUp, ApplyWrites, OpenRecord,
        OtherWrite, adminVars, accountVars

LEMMA OneFounder == LoginInv => TokensNameTheAccount
PROOF
<1> SUFFICES ASSUME LoginInv, Cardinality(founders) <= 1
             PROVE  \A s \in Session : SigningIs(s, "in") => signed[s] = account
    BY DEF TokensNameTheAccount
<1>1. FoundersAreOne
  <2> SUFFICES ASSUME NEW s \in founders, NEW t \in founders, s # t
               PROVE  FALSE
      BY DEF FoundersAreOne
  <2>1. IsFiniteSet({s}) /\ Cardinality({s}) = 1
      BY FS_Singleton
  <2>2. Cardinality({s, t}) = 2
      BY <2>1, FS_AddElement, {s} \cup {t} = {s, t}
  <2>3. Cardinality({s, t}) <= Cardinality(founders)
      BY FS_Subset, {s, t} \subseteq founders DEF LoginInv
  <2>4. Cardinality(founders) \in Nat
      BY FS_CardinalityType DEF LoginInv
  <2> QED
      BY <2>2, <2>3, <2>4
<1> QED
    BY <1>1 DEF LoginInv, CopiesAreTheAccount, SigningIs

(* A token names the account of the store, for any number of logins that overlap and *)
(* write back their copies, unless two of them found no account.                     *)
THEOREM TokensAreRight == ServicesSpec => []TokensNameTheAccount
PROOF
<1>1. ServicesInit => LoginInv
    BY LoginsBegin DEF ServicesInit
<1>2. LoginInv /\ [ServicesNext]_servicesVars => LoginInv'
    BY LoginsGoOn, StepsOfAdministration
<1> QED
    BY <1>1, <1>2, OneFounder, PTL DEF ServicesSpec

-----------------------------------------------------------------------------
(* Settings *)

Desks == [at : {"clear", "editing", "composed", "previewed", "backed up"}, keys : SUBSET Setting, seen : [Setting -> Nat], base : Nat]

(* A revision of the database stands for one state of the settings: every step that *)
(* writes them raises it, and nobody knows one that is still to come.               *)
Knows(d, rev, kept) ==
    /\ d.base <= rev
    /\ d.at \in {"previewed", "backed up"} /\ d.base = rev => d.seen = kept

SettingsInv ==
    /\ settings \in [Setting -> Nat] /\ revision \in Nat /\ desk \in [Session -> Desks]
    /\ \A s \in Session : Knows(desk[s], revision, settings)

Informed ==
    \A k \in Setting : settings'[k] # settings[k] =>
        \E s \in Session : /\ k \in desk[s].keys /\ desk'[s] = Clear
                           /\ \/ desk[s].at = "editing" /\ desk[s].seen[k] = settings[k]
                              \/ desk[s].at = "backed up" /\ desk[s].seen = settings

LEMMA ClearDesk == Clear \in Desks /\ Clear.at = "clear" /\ Clear.base = 0
PROOF
<1>1. [k \in Setting |-> 0] \in [Setting -> Nat]
    OBVIOUS
<1> QED
    BY <1>1 DEF Clear, Desks

LEMMA ClearKnows ==
    ASSUME NEW rev \in Nat, NEW kept
    PROVE  Knows(Clear, rev, kept)
PROOF
BY ClearDesk DEF Knows

(* Knowledge of a revision survives a step that raises it, with or without a write *)
LEMMA KnowledgeAges ==
    ASSUME NEW d \in Desks, NEW rev \in Nat, NEW kept, NEW others, Knows(d, rev, kept)
    PROVE  Knows(d, rev + 1, others)
PROOF
<1>1. d.base \in Nat
    BY DEF Desks
<1>2. d.base <= rev
    BY DEF Knows
<1>3. d.base <= rev + 1 /\ d.base # rev + 1
    BY <1>1, <1>2
<1> QED
    BY <1>3 DEF Knows

LEMMA SettingsBegin == AdminInit => SettingsInv
PROOF
<1> SUFFICES ASSUME AdminInit PROVE SettingsInv
    OBVIOUS
<1>1. settings \in [Setting -> Nat] /\ revision \in Nat /\ desk = [s \in Session |-> Clear]
    BY DEF AdminInit
<1> QED
    BY <1>1, ClearDesk, ClearKnows DEF SettingsInv

(* Both ways of writing *)
LEMMA SettingsAreWritten ==
    ASSUME SettingsInv, NEW s \in Session, WriteSettings(s), SettingsUnchanged(s)
    PROVE  /\ SettingsInv' /\ desk'[s] = Clear
           /\ \A k \in Setting : settings'[k] # settings[k] => k \in desk[s].keys /\ desk[s].seen[k] = settings[k]
PROOF
<1>1. /\ settings' = [k \in Setting |-> IF k \in desk[s].keys THEN settings[k] + 1 ELSE settings[k]]
      /\ revision' = revision + 1 /\ desk' = [desk EXCEPT ![s] = Clear]
    BY DEF WriteSettings, WritesDatabase
<1>2. settings' \in [Setting -> Nat] /\ revision' \in Nat
    BY <1>1 DEF SettingsInv
<1>3. desk' \in [Session -> Desks] /\ desk'[s] = Clear /\ \A t \in Session \ {s} : desk'[t] = desk[t]
    BY <1>1, ClearDesk DEF SettingsInv
<1>4. \A t \in Session \ {s} : Knows(desk'[t], revision', settings')
    BY <1>1, <1>3, KnowledgeAges DEF SettingsInv
<1>5. Knows(desk'[s], revision', settings')
    BY <1>2, <1>3, ClearKnows
<1>6. \A k \in Setting : settings'[k] # settings[k] => k \in desk[s].keys /\ desk[s].seen[k] = settings[k]
    BY <1>1 DEF SettingsUnchanged
<1> QED
    BY <1>2, <1>3, <1>4, <1>5, <1>6 DEF SettingsInv

(* Any other step changes one desk at most *)
LEMMA SettingsAreKept ==
    ASSUME SettingsInv, settings' = settings, revision' \in {revision, revision + 1},
           NEW s \in Session, NEW d \in Desks, desk' = [desk EXCEPT ![s] = d], Knows(d, revision', settings)
    PROVE  SettingsInv' /\ Informed
PROOF
<1>1. desk' \in [Session -> Desks] /\ desk'[s] = d /\ \A t \in Session \ {s} : desk'[t] = desk[t]
    BY DEF SettingsInv
<1>2. \A t \in Session \ {s} : Knows(desk'[t], revision', settings)
    BY <1>1, KnowledgeAges DEF SettingsInv
<1> QED
    BY <1>1, <1>2 DEF SettingsInv, Informed

LEMMA SettingsGoOn == SettingsInv /\ [AdminNext]_adminVars => SettingsInv' /\ Informed
PROOF
<1> SUFFICES ASSUME SettingsInv, [AdminNext]_adminVars
             PROVE  SettingsInv' /\ Informed
    OBVIOUS
<1>0. revision \in Nat /\ settings \in [Setting -> Nat] /\ \A s \in Session : desk[s] \in Desks
    BY DEF SettingsInv
<1>1. ASSUME NEW s \in Session, SaveEdit(s)
      PROVE  SettingsInv' /\ Informed
  <2>1. WriteSettings(s) /\ SettingsUnchanged(s) /\ desk[s].at = "editing"
      BY <1>1 DEF SaveEdit
  <2> QED
      BY <2>1, SettingsAreWritten DEF Informed
<1>2. ASSUME NEW s \in Session, ApplyWrites(s)
      PROVE  SettingsInv' /\ Informed
  <2>1. CASE StillAsPreviewed(s)
    <3>1. WriteSettings(s) /\ SettingsUnchanged(s) /\ desk[s].at = "backed up" /\ desk[s].base = revision
        BY <1>2, <2>1 DEF ApplyWrites, StillAsPreviewed
    <3>2. desk[s].seen = settings
        BY <3>1 DEF SettingsInv, Knows
    <3> QED
        BY <3>1, <3>2, SettingsAreWritten DEF Informed
  <2>2. CASE ~StillAsPreviewed(s)
    <3> DEFINE d == [desk[s] EXCEPT !.at = "previewed"]
    <3>1. desk[s].at = "backed up" /\ desk' = [desk EXCEPT ![s] = d] /\ settings' = settings /\ revision' = revision
        BY <1>2, <2>2 DEF ApplyWrites
    <3>2. d \in Desks /\ d.base = desk[s].base /\ d.seen = desk[s].seen
        BY <1>0 DEF Desks
    <3>3. Knows(d, revision, settings)
        BY <3>1, <3>2 DEF SettingsInv, Knows
    <3> HIDE DEF d
    <3> QED
        BY <3>1, <3>2, <3>3, SettingsAreKept
  <2> QED
      BY <2>1, <2>2
<1>3. ASSUME NEW s \in Session, NEW k \in Setting, OpenRecord(s, k)
      PROVE  SettingsInv' /\ Informed
  <2> DEFINE d == [at |-> "editing", keys |-> {k}, seen |-> settings, base |-> 0]
  <2>1. d \in Desks /\ d.at = "editing" /\ d.base = 0
      BY <1>0 DEF Desks
  <2>2. desk' = [desk EXCEPT ![s] = d] /\ settings' = settings /\ revision' = revision
      BY <1>3 DEF OpenRecord
  <2>3. Knows(d, revision, settings)
      BY <1>0, <2>1 DEF Knows
  <2> HIDE DEF d
  <2> QED
      BY <2>1, <2>2, <2>3, SettingsAreKept
<1>4. ASSUME NEW s \in Session, ComposeImport(s)
      PROVE  SettingsInv' /\ Informed
  <2>1. PICK keys \in (SUBSET Setting) \ {{}} :
            desk' = [desk EXCEPT ![s] = [at |-> "composed", keys |-> keys, seen |-> settings, base |-> 0]]
      BY <1>4 DEF ComposeImport
  <2> DEFINE d == [at |-> "composed", keys |-> keys, seen |-> settings, base |-> 0]
  <2>2. d \in Desks /\ d.at = "composed" /\ d.base = 0
      BY <1>0 DEF Desks
  <2>3. desk' = [desk EXCEPT ![s] = d] /\ settings' = settings /\ revision' = revision
      BY <1>4, <2>1 DEF ComposeImport
  <2>4. Knows(d, revision, settings)
      BY <1>0, <2>2 DEF Knows
  <2> HIDE DEF d
  <2> QED
      BY <2>2, <2>3, <2>4, SettingsAreKept
<1>5. ASSUME NEW s \in Session, PreviewImport(s)
      PROVE  SettingsInv' /\ Informed
  <2> DEFINE d == [desk[s] EXCEPT !.at = "previewed", !.seen = settings, !.base = revision]
  <2>1. d \in Desks /\ d.seen = settings /\ d.base = revision
      BY <1>0 DEF Desks
  <2>2. desk' = [desk EXCEPT ![s] = d] /\ settings' = settings /\ revision' = revision
      BY <1>0, <1>5 DEF PreviewImport, SettingsInv, Desks
  <2>3. Knows(d, revision, settings)
      BY <1>0, <2>1 DEF Knows
  <2> HIDE DEF d
  <2> QED
      BY <2>1, <2>2, <2>3, SettingsAreKept
<1>6. ASSUME NEW s \in Session, ApplyBacksUp(s)
      PROVE  SettingsInv' /\ Informed
  <2> DEFINE d == [desk[s] EXCEPT !.at = "backed up"]
  <2>1. desk' = [desk EXCEPT ![s] = d] /\ settings' = settings /\ revision' = revision /\ desk[s].at = "previewed"
      BY <1>6 DEF ApplyBacksUp
  <2>2. d \in Desks /\ d.base = desk[s].base /\ d.seen = desk[s].seen
      BY <1>0 DEF Desks
  <2>3. Knows(d, revision, settings)
      BY <2>1, <2>2 DEF SettingsInv, Knows
  <2> HIDE DEF d
  <2> QED
      BY <2>1, <2>2, <2>3, SettingsAreKept
<1>7. ASSUME NEW s \in Session, SignOut(s) \/ Abandon(s)
      PROVE  SettingsInv' /\ Informed
  <2>1. settings' = settings /\ revision' \in {revision, revision + 1} /\ desk' = [desk EXCEPT ![s] = Clear]
      BY <1>7 DEF SignOut, Abandon, WritesDatabase
  <2>2. revision' \in Nat
      BY <1>0, <2>1
  <2> QED
      BY <2>1, <2>2, ClearDesk, ClearKnows, SettingsAreKept
<1>8. ASSUME settings' = settings, desk' = desk, revision' \in {revision, revision + 1}
      PROVE  SettingsInv' /\ Informed
  <2>1. \A t \in Session : Knows(desk[t], revision', settings)
      BY <1>0, <1>8, KnowledgeAges DEF SettingsInv
  <2> QED
      BY <1>8, <2>1 DEF SettingsInv, Informed
<1>9. ASSUME NEW s \in Session, \/ LoginCounts(s) \/ LoginFounds(s) \/ LoginReads(s) \/ LoginRefused(s)
                                \/ LoginSaves(s) \/ LoginAnswered(s)
      PROVE  SettingsInv' /\ Informed
    BY <1>8, <1>9 DEF LoginCounts, LoginFounds, LoginReads, LoginRefused, LoginSaves, LoginAnswered, WritesDatabase
<1>10. CASE Deactivated \/ OtherWrite \/ UNCHANGED adminVars
    BY <1>8, <1>10 DEF Deactivated, OtherWrite, WritesDatabase, adminVars
<1> QED
    BY <1>1, <1>2, <1>3, <1>4, <1>5, <1>6, <1>7, <1>9, <1>10 DEF AdminNext

(* An edit replaces the revision its editor was opened with, an import exactly the settings *)
(* its preview showed, for any number of administrators and other writers.                 *)
THEOREM NobodyWritesBlindly == ServicesSpec => WritesAreInformed
PROOF
<1>1. ServicesInit => SettingsInv
    BY SettingsBegin DEF ServicesInit
<1>2. SettingsInv /\ [ServicesNext]_servicesVars => SettingsInv' /\ [Informed]_adminVars
    BY SettingsGoOn, StepsOfAdministration
<1>3. ServicesSpec => [][Informed]_adminVars
    BY <1>1, <1>2, PTL DEF ServicesSpec
<1> QED
    BY <1>3 DEF WritesAreInformed, Informed

-----------------------------------------------------------------------------
(* Results of a skill *)

(* What the platform reads and records *)
LEMMA EnvelopesRead ==
    ASSUME ValidateResult
    PROVE  /\ envelope' \in Envelope
           /\ recorded' = IF Accepted(envelope') THEN Recorded(envelope') ELSE Refusal
PROOF
<1>0. MaxCount \in Nat /\ MaxCount >= 1
    BY MaxCountAssumption
<1>1. CASE EnvelopeInput
    <2>1. PICK status \in ResultStatuses, requested \in 0..MaxCount, listed \in -1..MaxCount,
               files \in {{}, {"file"}}, missing \in -1..1 :
               \E done \in [Dispositions -> 0..1] :
                  envelope' = [ identity |-> TRUE, status |-> status, listed |-> listed, named |-> listed # 1,
                        outputs |-> files,
                        counts |-> [f \in CountFields |->
                                       IF f = "requested" THEN requested
                                       ELSE IF f = "unaccounted" THEN done[f] * missing
                                       ELSE IF f = "generated" THEN done[f] * MaxCount ELSE done[f]] ]
        BY <1>1 DEF EnvelopeInput
    <2>2. PICK done \in [Dispositions -> 0..1] :
                  envelope' = [ identity |-> TRUE, status |-> status, listed |-> listed, named |-> listed # 1,
                        outputs |-> files,
                        counts |-> [f \in CountFields |->
                                       IF f = "requested" THEN requested
                                       ELSE IF f = "unaccounted" THEN done[f] * missing
                                       ELSE IF f = "generated" THEN done[f] * MaxCount ELSE done[f]] ]
        BY <2>1
    <2>3. ASSUME NEW d \in 0..1
          PROVE  d * missing \in -1..MaxCount /\ d * MaxCount \in -1..MaxCount /\ d \in -1..MaxCount
        <3>1. d = 0 \/ d = 1
            OBVIOUS
        <3> QED BY <1>0, <3>1
    <2>4. ASSUME NEW f \in CountFields
          PROVE  (IF f = "requested" THEN requested
                  ELSE IF f = "unaccounted" THEN done[f] * missing
                  ELSE IF f = "generated" THEN done[f] * MaxCount ELSE done[f]) \in -1..MaxCount
        <3>1. f # "requested" => done[f] \in 0..1
            BY DEF CountFields
        <3> QED BY <1>0, <2>3, <3>1
    <2> DEFINE counts == [f \in CountFields |->
                             IF f = "requested" THEN requested
                             ELSE IF f = "unaccounted" THEN done[f] * missing
                             ELSE IF f = "generated" THEN done[f] * MaxCount ELSE done[f]]
    <2>5. counts \in [CountFields -> -1..MaxCount]
        BY <2>4
    <2>6. files \in SUBSET OutputKinds /\ (listed # 1) \in BOOLEAN /\ status \in ResultStatuses \cup {"unknown"}
        BY DEF OutputKinds
    <2>7. envelope' = [ identity |-> TRUE, status |-> status, listed |-> listed, named |-> listed # 1,
                        outputs |-> files, counts |-> counts ]
        BY <2>2
    <2> HIDE DEF counts
    <2>8. envelope' \in Envelope
        BY <2>5, <2>6, <2>7 DEF Envelope
    <2> QED BY <2>8 DEF ValidateResult
<1>2. CASE FormInput
    BY <1>0, <1>2 DEF FormInput, ValidateResult, Envelope
<1> QED BY <1>1, <1>2 DEF ValidateResult

(* Counts of an accepted result: the checks of validateReconciliation *)
LEMMA AcceptedCounts ==
    ASSUME NEW e \in Envelope, Accepted(e), e.counts # NoEnvelope
    PROVE  LET c == e.counts IN
           /\ c \in [CountFields -> Nat]
           /\ c["generated"] + c["reviewRequired"] + c["approvedIgnored"] + c["duplicateBlocked"]
                + c["failed"] + c["unaccounted"] = c["requested"]
           /\ e.listed # -1 => e.listed = c["requested"]
           /\ e.status \in {"succeeded", "succeeded_with_warning"} => c["unaccounted"] = 0
           /\ e.status = "succeeded" => c["generated"] = c["requested"]
PROOF
<1> DEFINE c == e.counts
<1>1. c \in [CountFields -> -1..MaxCount] /\ (\A f \in CountFields : c[f] >= 0)
    BY DEF Accepted, ReconciliationHolds, Envelope
<1>2. c \in [CountFields -> Nat]
    BY <1>1, MaxCountAssumption
<1>3. /\ c["generated"] \in Nat /\ c["reviewRequired"] \in Nat /\ c["approvedIgnored"] \in Nat
      /\ c["duplicateBlocked"] \in Nat /\ c["failed"] \in Nat /\ c["unaccounted"] \in Nat /\ c["requested"] \in Nat
    BY <1>2 DEF CountFields, Dispositions
<1>4. /\ c["generated"] + WarningDispositions(c) = c["requested"]
      /\ e.listed # -1 => e.listed = c["requested"]
      /\ e.status = "succeeded" => WarningDispositions(c) = 0
      /\ e.status = "succeeded_with_warning" => c["unaccounted"] = 0
    BY DEF Accepted, ReconciliationHolds, AddsUp
<1> HIDE DEF c
<1>5. /\ c["generated"] + c["reviewRequired"] + c["approvedIgnored"] + c["duplicateBlocked"]
           + c["failed"] + c["unaccounted"] = c["requested"]
      /\ e.status \in {"succeeded", "succeeded_with_warning"} => c["unaccounted"] = 0
      /\ e.status = "succeeded" => c["generated"] = c["requested"]
    <2> DEFINE g == c["generated"]
    <2> DEFINE r == c["reviewRequired"]
    <2> DEFINE i == c["approvedIgnored"]
    <2> DEFINE d == c["duplicateBlocked"]
    <2> DEFINE x == c["failed"]
    <2> DEFINE u == c["unaccounted"]
    <2> DEFINE q == c["requested"]
    <2>1. g \in Nat /\ r \in Nat /\ i \in Nat /\ d \in Nat /\ x \in Nat /\ u \in Nat /\ q \in Nat
        BY <1>3
    <2>2. g + (r + i + d + x + u) = q
        BY <1>4 DEF WarningDispositions
    <2>3. e.status = "succeeded" => r + i + d + x + u = 0
        BY <1>4 DEF WarningDispositions
    <2>4. e.status = "succeeded_with_warning" => u = 0
        BY <1>4
    <2> HIDE DEF g, r, i, d, x, u, q
    <2>5. g + r + i + d + x + u = q
        BY <2>1, <2>2
    <2>6. e.status = "succeeded" => u = 0 /\ g = q
        BY <2>1, <2>2, <2>3
    <2> QED BY <2>4, <2>5, <2>6 DEF g, r, i, d, x, u, q
<1> QED BY <1>2, <1>4, <1>5 DEF c

LEMMA ContractBegins == ContractStart => ContractTypeOK /\ RecordedCountsAddUp
PROOF
BY DEF ContractStart, ContractTypeOK, RecordedCountsAddUp, Reconciled

LEMMA ContractGoesOn ==
    ContractTypeOK /\ RecordedCountsAddUp /\ [ValidateResult]_contractVars => ContractTypeOK' /\ RecordedCountsAddUp'
PROOF
<1> SUFFICES ASSUME ContractTypeOK, RecordedCountsAddUp, [ValidateResult]_contractVars
             PROVE  ContractTypeOK' /\ RecordedCountsAddUp'
    OBVIOUS
<1>1. CASE UNCHANGED contractVars
    BY <1>1 DEF contractVars, ContractTypeOK, RecordedCountsAddUp, Reconciled
<1>2. CASE ValidateResult /\ ~Accepted(envelope')
    BY <1>2, EnvelopesRead DEF ContractTypeOK, RecordedCountsAddUp, Reconciled
<1>3. CASE ValidateResult /\ Accepted(envelope')
    <2> DEFINE e == envelope'
    <2> DEFINE c == e.counts
    <2>1. e \in Envelope /\ Accepted(e) /\ recorded' = Recorded(e)
        BY <1>3, EnvelopesRead
    <2> HIDE DEF e
    <2>2. /\ recorded'.status = StatusOf(e) /\ recorded'.counts = c
          /\ recorded'.accounted = (IF c = NoEnvelope THEN 0 ELSE c["requested"] - c["unaccounted"])
          /\ recorded'.matched = (IF c = NoEnvelope \/ e.listed = -1 THEN -1 ELSE e.listed)
          /\ recorded'.files = Cardinality(e.outputs)
        BY <2>1 DEF Recorded
    <2>3. /\ StatusOf(e) \in {"completed", "completed_with_warning", "failed", "cancelled", "cancelled_with_partial_result"}
          /\ StatusOf(e) = "completed" => e.status = "succeeded"
          /\ StatusOf(e) = "completed_with_warning" => e.status = "succeeded_with_warning"
        BY <2>1 DEF Accepted, StatusOf, ResultStatuses
    <2>4. c # NoEnvelope =>
              /\ c \in [CountFields -> Nat]
              /\ c["generated"] + c["reviewRequired"] + c["approvedIgnored"] + c["duplicateBlocked"]
                   + c["failed"] + c["unaccounted"] = c["requested"]
              /\ e.listed # -1 => e.listed = c["requested"]
              /\ e.status \in {"succeeded", "succeeded_with_warning"} => c["unaccounted"] = 0
              /\ e.status = "succeeded" => c["generated"] = c["requested"]
        BY <2>1, AcceptedCounts
    <2> HIDE DEF c
    <2>5. c # NoEnvelope =>
            /\ c["generated"] \in Nat /\ c["reviewRequired"] \in Nat /\ c["approvedIgnored"] \in Nat
            /\ c["duplicateBlocked"] \in Nat /\ c["failed"] \in Nat /\ c["unaccounted"] \in Nat /\ c["requested"] \in Nat
        BY <2>4 DEF CountFields, Dispositions
    <2>6. RecordedCountsAddUp'
        <3> SUFFICES ASSUME Reconciled'
                     PROVE  /\ recorded'.accounted = c["generated"] + c["reviewRequired"] + c["approvedIgnored"]
                                  + c["duplicateBlocked"] + c["failed"]
                            /\ recorded'.matched # -1 => recorded'.matched = c["requested"]
                            /\ recorded'.status \in {"completed", "completed_with_warning"} => recorded'.accounted = c["requested"]
                            /\ recorded'.status = "completed" => c["generated"] = c["requested"]
            BY <2>2 DEF RecordedCountsAddUp
        <3>1. c # NoEnvelope
            BY <2>2 DEF Reconciled
        <3> QED BY <2>2, <2>3, <2>4, <2>5, <3>1
    <2>7. ContractTypeOK'
        <3>1. Cardinality(e.outputs) \in Nat
            <4>1. e.outputs = {} \/ e.outputs = {"file"}
                BY <2>1 DEF Accepted
            <4>2. Cardinality({}) = 0 /\ Cardinality({"file"}) = 1
                BY FS_EmptySet, FS_Singleton
            <4>3. Cardinality(e.outputs) = 0 \/ Cardinality(e.outputs) = 1
                BY <4>1, <4>2, Zenon
            <4> QED BY <4>3
        <3>2. recorded'.accounted \in Nat
            BY <2>2, <2>4, <2>5
        <3>3. recorded'.matched \in -1..MaxCount /\ recorded'.counts \in {NoEnvelope} \cup [CountFields -> Nat]
            BY <2>1, <2>2, <2>4, MaxCountAssumption DEF Envelope
        <3>4. recorded' = [status |-> recorded'.status, files |-> recorded'.files, counts |-> recorded'.counts,
                           accounted |-> recorded'.accounted, matched |-> recorded'.matched]
            BY <2>1 DEF Recorded
        <3>5. recorded' \in [ status : {"completed", "completed_with_warning", "failed", "cancelled", "cancelled_with_partial_result"},
            files : Nat, counts : {NoEnvelope} \cup [CountFields -> Nat], accounted : Nat, matched : -1..MaxCount ]
            BY <2>2, <2>3, <3>1, <3>2, <3>3, <3>4
        <3> QED BY <2>1, <3>5 DEF ContractTypeOK, e
    <2> QED BY <2>6, <2>7
<1> QED BY <1>1, <1>2, <1>3

(* The counts of a recorded result add up, whatever the skill writes into its envelope *)
(* and however large the counts are.                                                   *)
THEOREM CountsAddUp == ServicesSpec => []RecordedCountsAddUp
PROOF
<1>1. ServicesInit => ContractTypeOK /\ RecordedCountsAddUp
    BY ContractBegins DEF ServicesInit
<1>2. ContractTypeOK /\ RecordedCountsAddUp /\ [ServicesNext]_servicesVars => (ContractTypeOK /\ RecordedCountsAddUp)'
    BY ContractGoesOn, StepsOfContract
<1> QED
    BY <1>1, <1>2, PTL DEF ServicesSpec

-----------------------------------------------------------------------------
(* Reports of a job *)

(* A stored job of which every function of FailureReport may be asked *)
LEMMA StoredJobsAre ==
    ASSUME NEW j \in StoredJobs
    PROVE  /\ j.kind \in {"skill", "legacy"} /\ j.worker \in {"mw-pr", "ran-pr", "pr-auditor", "tx-pr-auditor", "create-pr-cd"}
           /\ j.status \in {"completed", "completed_with_warning", "cancelled", "cancelled_with_partial_result",
                            "failed", "generating"}
           /\ j.code \in {"INCOMPLETE", "PIN", "PREFLIGHT", "TIMEOUT", "PROCESS", "ECC", "OTHER", "odd", "codeless", "none"}
           /\ j.result \in {"none", "silent", "told"} /\ j.counts \in {"all", "some", "none"} /\ j.details \in BOOLEAN
           /\ j.available \in SUBSET Outputs /\ j.counted \in BOOLEAN /\ j.matched \in {"recorded", "asked", "none"}
           /\ (j.kind = "skill") = (j.worker \in {"tx-pr-auditor", "create-pr-cd"})
           /\ j.kind = "legacy" => j.result = "none" /\ j.matched # "asked"
           /\ j.kind = "skill"  => j.counts # "some" /\ (j.result = "none" => j.status \notin Delivered)
           /\ j.kind = "skill" /\ j.result = "none" /\ j.status = "failed" => j.code # "none"
           /\ j.status = "generating" => j.code = "none" /\ j.result = "none"
           /\ j.code = "none" => ~j.details
PROOF
<1> DEFINE R == [kind : {"skill", "legacy"}, worker : Workers, status : Delivered \cup Stopped \cup {"failed", "generating"},
            code : {"INCOMPLETE", "PIN", "PREFLIGHT", "TIMEOUT", "PROCESS", "ECC", "OTHER", "odd", "codeless", "none"},
            result : {"none", "silent", "told"}, counts : {"all", "some", "none"}, details : BOOLEAN,
            available : SUBSET Outputs, counted : BOOLEAN, matched : {"recorded", "asked", "none"}]
<1>1. j \in R
    BY DEF StoredJobs
<1>2. /\ j.kind \in {"skill", "legacy"} /\ j.worker \in Workers
      /\ j.status \in Delivered \cup Stopped \cup {"failed", "generating"}
      /\ j.code \in {"INCOMPLETE", "PIN", "PREFLIGHT", "TIMEOUT", "PROCESS", "ECC", "OTHER", "odd", "codeless", "none"}
      /\ j.result \in {"none", "silent", "told"} /\ j.counts \in {"all", "some", "none"} /\ j.details \in BOOLEAN
      /\ j.available \in SUBSET Outputs /\ j.counted \in BOOLEAN /\ j.matched \in {"recorded", "asked", "none"}
    BY <1>1
<1>3. /\ (j.kind = "skill") = (j.worker \in {"tx-pr-auditor", "create-pr-cd"})
      /\ j.kind = "legacy" => j.result = "none" /\ j.matched # "asked"
      /\ j.kind = "skill"  => j.counts # "some"
      /\ j.kind = "skill" /\ j.result = "none" => j.status \notin Delivered
      /\ j.kind = "skill" /\ j.result = "none" /\ j.status = "failed" => j.code # "none"
      /\ j.status = "generating" => j.code = "none" /\ j.result = "none"
      /\ j.code = "none" => ~j.details
    BY DEF StoredJobs
<1> QED
    BY <1>2, <1>3 DEF Delivered, Stopped, Workers

(* What the answer says of the end of a job *)
LEMMA AnswersOfJobs ==
    ASSUME NEW j \in StoredJobs
    PROVE  /\ IsIncomplete(Answer(j)) <=> (Failed(j) /\ j.code = "INCOMPLETE")
           /\ FailureSummary(j) = "" <=> ~Failed(j)
           /\ Failed(j) /\ j.code = "INCOMPLETE" => FailureSummary(j) = IncompleteMessage(j)
           /\ FailureSummary(j) = IncompleteMessage(j) => Failed(j) /\ j.code = "INCOMPLETE"
PROOF
<1>1. FailureSummary(j) = "" <=> ~Failed(j)
    BY StoredJobsAre DEF FailureSummary, Failed, IncompleteMessage
<1>2. Failed(j) /\ j.code = "INCOMPLETE" => FailureSummary(j) = IncompleteMessage(j)
    BY StoredJobsAre DEF FailureSummary, Failed
<1>3. FailureSummary(j) = IncompleteMessage(j) => Failed(j) /\ j.code = "INCOMPLETE"
    BY StoredJobsAre DEF FailureSummary, Failed, IncompleteMessage
<1>4. IsIncomplete(Answer(j)) <=> (Failed(j) /\ j.code = "INCOMPLETE")
    <2>1. Answer(j).status = j.status
          /\ Answer(j).resultStatus = (IF Failed(j) /\ j.code = "INCOMPLETE" THEN "incomplete_result" ELSE "")
          /\ Answer(j).error = SafeError(j)
        BY DEF Answer
    <2>2. SafeError(j) # Nothing => SafeError(j).code = SafeCode(j)
        BY DEF SafeError
    <2>3. SafeCode(j) = "INCOMPLETE" => j.code = "INCOMPLETE"
        BY DEF SafeCode
    <2> QED BY <2>1, <2>2, <2>3 DEF IsIncomplete, ErrorIs, Failed
<1> QED BY <1>1, <1>2, <1>3, <1>4

(* The fields of an answer *)
LEMMA FieldsOfAnswers ==
    ASSUME NEW j
    PROVE  /\ Answer(j).status = j.status /\ Answer(j).worker = j.worker
           /\ Answer(j).available = j.available /\ Answer(j).counted = j.counted
           /\ Answer(j).matched = MatchedSites(j) /\ Answer(j).failureSummary = FailureSummary(j)
           /\ Answer(j).resultStatus = (IF Failed(j) /\ j.code = "INCOMPLETE" THEN "incomplete_result" ELSE "")
           /\ Answer(j).error = SafeError(j) /\ Answer(j).diagnosis = FailureDiagnosis(j)
PROOF
BY DEF Answer

LEMMA ErrorsOfJobs ==
    ASSUME NEW j \in StoredJobs
    PROVE  /\ SafeError(j) # Nothing <=> Failed(j) /\ j.code # "none"
           /\ SafeError(j) # Nothing => /\ SafeError(j).message = FailureSummary(j)
                                        /\ SafeError(j).category = "RESULT_INCOMPLETE" <=> j.code = "INCOMPLETE"
                                        /\ SafeError(j).code = "INCOMPLETE" <=> j.code = "INCOMPLETE"
           /\ FailureDiagnosis(j) # Nothing <=> Failed(j)
           /\ LlmContext(j).resultStatus # "" <=> Failed(j) /\ j.code = "INCOMPLETE"
PROOF
<1>1. \A c, t, s, x : [category |-> c, title |-> t, summary |-> s, technical |-> x] # Nothing
    BY DEF Nothing
<1>2. \A c, t, s, x : [code |-> c, category |-> t, message |-> s, technical |-> x] # Nothing
    BY DEF Nothing
<1>3. FailureDiagnosis(j) # Nothing <=> Failed(j)
    BY <1>1 DEF FailureDiagnosis
<1>4. Failed(j) => FailureDiagnosis(j).category \in {SafeCode(j), AllowedCategory(j)}
    BY DEF FailureDiagnosis
<1>5. SafeCode(j) # "RESULT_INCOMPLETE" /\ AllowedCategory(j) # "RESULT_INCOMPLETE"
    BY StoredJobsAre DEF SafeCode, AllowedCategory
<1>6. SafeError(j) # Nothing <=> Failed(j) /\ j.code # "none"
    BY <1>2 DEF SafeError
<1>7. SafeError(j) # Nothing => /\ SafeError(j).message = FailureSummary(j)
                                /\ SafeError(j).category = "RESULT_INCOMPLETE" <=> j.code = "INCOMPLETE"
                                /\ SafeError(j).code = "INCOMPLETE" <=> j.code = "INCOMPLETE"
    <2>1. SafeError(j) # Nothing => /\ SafeError(j).message = FailureSummary(j)
                                    /\ SafeError(j).code = SafeCode(j)
                                    /\ SafeError(j).category = IF j.code = "INCOMPLETE" THEN "RESULT_INCOMPLETE"
                                                               ELSE FailureDiagnosis(j).category
        BY <1>6 DEF SafeError
    <2>2. SafeCode(j) = "INCOMPLETE" <=> j.code = "INCOMPLETE"
        BY DEF SafeCode
    <2> QED BY <1>4, <1>5, <1>6, <2>1, <2>2
<1>8. LlmContext(j).resultStatus # "" <=> Failed(j) /\ j.code = "INCOMPLETE"
    <2>1. j.code # "none" => LlmError(j).code = SafeCode(j)
        BY DEF LlmError
    <2>2. SafeCode(j) = "INCOMPLETE" <=> j.code = "INCOMPLETE"
        BY DEF SafeCode
    <2> QED BY <2>1, <2>2 DEF LlmContext
<1> QED BY <1>3, <1>6, <1>7, <1>8

(* Every place says of the same jobs that their result is incomplete *)
LEMMA IncompleteEverywhere ==
    ASSUME NEW j \in StoredJobs
    PROVE  \A place \in DOMAIN SaidIncomplete(j) :
               SaidIncomplete(j)[place] = (Failed(j) /\ j.code = "INCOMPLETE")
PROOF
<1> DEFINE a == Answer(j)
<1> DEFINE yes == Failed(j) /\ j.code = "INCOMPLETE"
<1>0. /\ IsIncomplete(a) <=> yes
      /\ FailureSummary(j) = "" <=> ~Failed(j)
      /\ FailureSummary(j) = IncompleteMessage(j) <=> yes
    BY AnswersOfJobs
<1>1. a.resultStatus # "" <=> yes
    BY FieldsOfAnswers
<1>2. (a.error # Nothing /\ a.error.category = "RESULT_INCOMPLETE") <=> yes
    BY FieldsOfAnswers, ErrorsOfJobs
<1>3. LlmContext(j).resultStatus # "" <=> yes
    BY ErrorsOfJobs
<1>4. StatusLabel(a) = "Incomplete Result" <=> yes
    BY <1>0, FieldsOfAnswers, StoredJobsAre DEF StatusLabel
<1>5. ProgressLabel(a) = "Incomplete Result" <=> yes
    BY <1>0 DEF ProgressLabel
<1>6. DeliveryWarning(a) = "incomplete" <=> yes
    <2>1. IsIncomplete(a) => a.status # "cancelled_with_partial_result" /\ a.status # "cancelled"
        BY DEF IsIncomplete
    <2> HIDE DEF a
    <2>2. DeliveryWarning(a) = "incomplete" <=> IsIncomplete(a)
        BY <2>1 DEF DeliveryWarning
    <2> QED BY <1>0, <2>2
<1>7. (a.failureSummary # "" /\ "job error" \notin ConsoleItems(a)) <=> yes
    <2>1. "job error" \in ConsoleItems(a) <=> a.failureSummary # "" /\ ~IsIncomplete(a)
        BY DEF ConsoleItems
    <2> QED BY <1>0, <2>1, FieldsOfAnswers
<1>8. CardPreview(a) = "incomplete" <=> yes
    <2>1. a.status = "failed" => a.failureSummary # "incomplete"
        BY FieldsOfAnswers, StoredJobsAre DEF FailureSummary, IncompleteMessage, Failed
    <2> QED BY <1>0, <2>1 DEF CardPreview
<1>9. PanelTitle(a) = "Incomplete Result Details" <=> yes
    <2>1. yes => a.diagnosis # Nothing
        BY FieldsOfAnswers, ErrorsOfJobs
    <2> QED BY <1>0, <2>1 DEF PanelTitle
<1>10. (Failed(j) /\ FailureMessage(a) = "") <=> yes
    BY <1>0, FieldsOfAnswers, ErrorsOfJobs DEF FailureMessage, ErrorIs, Failed
<1>11. a.failureSummary = IncompleteMessage(j) <=> yes
    BY <1>0, FieldsOfAnswers
<1>12. DOMAIN SaidIncomplete(j) = {"list", "error", "model", "label", "progress", "warning", "console", "card",
                                  "panel", "summary", "reason"}
    BY DEF SaidIncomplete
<1> DEFINE said == SaidIncomplete(j)
<1>13. /\ said["list"] = (a.resultStatus # "")
       /\ said["error"] = (a.error # Nothing /\ a.error.category = "RESULT_INCOMPLETE")
       /\ said["model"] = (LlmContext(j).resultStatus # "")
       /\ said["label"] = (StatusLabel(a) = "Incomplete Result")
       /\ said["progress"] = (ProgressLabel(a) = "Incomplete Result")
       /\ said["warning"] = (DeliveryWarning(a) = "incomplete")
       /\ said["console"] = (a.failureSummary # "" /\ "job error" \notin ConsoleItems(a))
       /\ said["card"] = (CardPreview(a) = "incomplete")
       /\ said["panel"] = (PanelTitle(a) = "Incomplete Result Details")
       /\ said["summary"] = (Failed(j) /\ FailureMessage(a) = "")
       /\ said["reason"] = (a.failureSummary = IncompleteMessage(j))
    BY DEF SaidIncomplete
<1>15. yes \in BOOLEAN
    BY DEF Failed
<1> HIDE DEF a, yes, said
<1>14. \A place \in {"list", "error", "model", "label", "progress", "warning", "console", "card",
                     "panel", "summary", "reason"} : said[place] = yes
    BY <1>1, <1>2, <1>3, <1>4, <1>5, <1>6, <1>7, <1>8, <1>9, <1>10, <1>11, <1>13, <1>15
<1> QED BY <1>12, <1>14 DEF said, yes

LEMMA EveryReportAgrees == (record # NoRecord => record \in StoredJobs) => ReportsAgree
PROOF
<1> SUFFICES ASSUME NEW j \in StoredJobs, record = j
             PROVE  LET a == Answer(j) IN
        /\ \A place \in DOMAIN SaidIncomplete(j) :
              SaidIncomplete(j)[place] = (Failed(j) /\ j.code = "INCOMPLETE")
        /\ Failed(j) = (PanelTitle(a) # "") /\ Failed(j) = (StatusTone(a) = "danger") /\ Failed(j) = (ResultTone(a) = "danger")
        /\ Failed(j) => /\ CompletionMessage(a) = a.failureSummary /\ a.failureSummary # ""
                        /\ a.error # Nothing => a.error.message = a.failureSummary
        /\ FilesDownload(a) = IF CardDownload(a) = "output" THEN "" ELSE CardDownload(a)
        /\ (CardDownload(a) = "") = (a.available = {})
        /\ j.worker # "tx-pr-auditor" => (WorkerDownload(a) = "") = (CardDownload(a) = "")
        /\ j.worker = "tx-pr-auditor" /\ CardDownload(a) = "report" => WorkerDownload(a) = "report"
        /\ ~Failed(j) /\ j.worker # "tx-pr-auditor" => CardPreview(a) = SummaryText(a)
        /\ j.status \in Delivered /\ IsAuditor(j) => (CompletionMessage(a) = "no report") = (SummaryText(a) = "no report")
        /\ CardDownload(a) = "partial ZIP" => DeliveryWarning(a) \in {"partial", "incomplete"}
        /\ j.status \in Delivered /\ ~IsAuditor(j) => ZeroOutputNotice(a) = (CompletionMessage(a) = "no output")
    BY DEF ReportsAgree
<1> DEFINE a == Answer(j)
<1>1. /\ IsIncomplete(a) <=> (Failed(j) /\ j.code = "INCOMPLETE")
      /\ FailureSummary(j) = "" <=> ~Failed(j)
    BY AnswersOfJobs
<1>2. /\ a.status = j.status /\ a.worker = j.worker /\ a.available = j.available /\ a.counted = j.counted
      /\ a.failureSummary = FailureSummary(j) /\ a.error = SafeError(j) /\ a.diagnosis = FailureDiagnosis(j)
      /\ j.status \in {"completed", "completed_with_warning", "cancelled", "cancelled_with_partial_result",
                       "failed", "generating"}
      /\ Failed(j) <=> j.status = "failed"
    BY FieldsOfAnswers, StoredJobsAre DEF Failed
<1>3. \A place \in DOMAIN SaidIncomplete(j) : SaidIncomplete(j)[place] = (Failed(j) /\ j.code = "INCOMPLETE")
    BY IncompleteEverywhere
<1>4. Failed(j) = (PanelTitle(a) # "")
    <2>1. Failed(j) <=> PanelTitle(a) # ""
        BY <1>2, ErrorsOfJobs DEF PanelTitle
    <2> QED BY <2>1 DEF Failed
<1>5. Failed(j) = (StatusTone(a) = "danger") /\ Failed(j) = (ResultTone(a) = "danger")
    <2>1. Failed(j) <=> StatusTone(a) = "danger"
        BY <1>1, <1>2 DEF StatusTone, Stopped
    <2>2. Failed(j) <=> ResultTone(a) = "danger"
        BY <1>2 DEF ResultTone, Stopped
    <2> QED BY <2>1, <2>2 DEF Failed
<1>6. Failed(j) => /\ CompletionMessage(a) = a.failureSummary /\ a.failureSummary # ""
                   /\ a.error # Nothing => a.error.message = a.failureSummary
    BY <1>1, <1>2, ErrorsOfJobs DEF CompletionMessage
<1> DEFINE anArchive == ArchiveLabel(a)
<1>7. /\ FilesDownload(a) = IF CardDownload(a) = "output" THEN "" ELSE CardDownload(a)
      /\ (CardDownload(a) = "") = (a.available = {})
  <2>1. anArchive \in {"ZIP", "partial ZIP"}
      BY DEF ArchiveLabel
  <2>2. CardDownload(a) = IF a.worker \in Auditors /\ ReportOffered(a) THEN "report"
                          ELSE IF ArchiveOffered(a) THEN anArchive ELSE IF a.available # {} THEN "output" ELSE ""
      BY DEF CardDownload
  <2>3. FilesDownload(a) = IF a.worker \in Auditors /\ ReportOffered(a) THEN "report"
                           ELSE IF ArchiveOffered(a) THEN anArchive ELSE ""
      BY DEF FilesDownload
  <2>4. ReportOffered(a) \/ ArchiveOffered(a) => a.available # {}
      BY DEF ReportOffered, ArchiveOffered
  <2> HIDE DEF a, anArchive
  <2> QED BY <2>1, <2>2, <2>3, <2>4
<1>8. /\ j.worker # "tx-pr-auditor" => (WorkerDownload(a) = "") = (CardDownload(a) = "")
      /\ j.worker = "tx-pr-auditor" /\ CardDownload(a) = "report" => WorkerDownload(a) = "report"
  <2>1. ArchiveOffered(a) => a.available # {}
      BY DEF ArchiveOffered
  <2>2. CardDownload(a) = "report" => "report" \in a.available
      BY DEF CardDownload, ArchiveLabel, ReportOffered
  <2>3. a.worker # "tx-pr-auditor" => WorkerDownload(a) = IF ArchiveOffered(a) THEN "ZIP" ELSE IF a.available # {} THEN "output" ELSE ""
      BY DEF WorkerDownload
  <2>4. a.worker = "tx-pr-auditor" => WorkerDownload(a) = IF a.available \cap {"report", "workbook"} # {} THEN "report" ELSE ""
      BY DEF WorkerDownload
  <2> HIDE DEF a
  <2>5. (WorkerDownload(a) = "") <=> (a.available = {}) \/ (a.worker = "tx-pr-auditor" /\ WorkerDownload(a) = "")
      BY <2>1, <2>3, <2>4
  <2> QED BY <1>2, <1>7, <2>2, <2>4, <2>5
<1>9. ~Failed(j) /\ j.worker # "tx-pr-auditor" => CardPreview(a) = SummaryText(a)
  <2> HIDE DEF a
  <2> QED BY <1>1, <1>2 DEF CardPreview, SummaryText, Auditors
<1>13. j.status \in Delivered /\ IsAuditor(j) => (CompletionMessage(a) = "no report") = (SummaryText(a) = "no report")
  <2> HIDE DEF a
  <2> QED BY <1>2 DEF CompletionMessage, SummaryText, IsAuditor, Delivered, Stopped
<1>10. CardDownload(a) = "partial ZIP" => DeliveryWarning(a) \in {"partial", "incomplete"}
    <2>1. CardDownload(a) = "partial ZIP" => a.status = "cancelled_with_partial_result" \/ IsIncomplete(a)
        BY DEF CardDownload, ArchiveLabel
    <2>2. IsIncomplete(a) => a.status = "failed"
        BY DEF IsIncomplete
    <2> QED BY <2>1, <2>2 DEF DeliveryWarning
<1>11. j.status \in Delivered /\ ~IsAuditor(j) => ZeroOutputNotice(a) = (CompletionMessage(a) = "no output")
    BY <1>2 DEF ZeroOutputNotice, CompletionMessage, Delivered, Stopped, IsAuditor
<1> HIDE DEF a
<1>12. a = Answer(j)
    BY DEF a
<1> QED BY <1>3, <1>4, <1>5, <1>6, <1>7, <1>8, <1>9, <1>10, <1>11, <1>12, <1>13

(* The list, the error, the text of the model and every place of the pages say the same *)
(* of every job the store can hold.                                                     *)
THEOREM ReportsAreOne == ServicesSpec => []ReportsAgree
PROOF
<1> DEFINE RecordIsStored == record # NoRecord => record \in StoredJobs
<1>1. ServicesInit => RecordIsStored
    BY DEF ServicesInit, ReportInit
<1>2. RecordIsStored /\ [ServicesNext]_servicesVars => RecordIsStored'
    BY StepsOfReports DEF LookUp, reportVars
<1>3. RecordIsStored => ReportsAgree
    BY EveryReportAgrees
<1> QED
    BY <1>1, <1>2, <1>3, PTL DEF ServicesSpec

-----------------------------------------------------------------------------
(* The history of jobs *)

Inquiries == [page : Nat, reads : SUBSET {"page", "total"}, found : SUBSET Posting,
              matched : SUBSET Posting, total : Nat]

HistoryTypes ==
    /\ postings \subseteq Posting
    /\ inquiries \in [Inquiry -> Inquiries]
    /\ view \in [page : Nat \ {0}, total : Nat, seen : SUBSET Posting, since : SUBSET Posting,
                 loading : BOOLEAN, disturbed : BOOLEAN, paged : BOOLEAN]

(* As long as what the view has shown counts, there is at most one request, for the *)
(* page of the view, and no job has left the filter.                                *)
OneRequest ==
    /\ \A i, k \in Inquiry : Asked(i) /\ Asked(k) => i = k
    /\ \A i \in Inquiry : Asked(i) => view.loading /\ inquiries[i].page = view.page
    /\ view.loading => \E i \in Inquiry : Asked(i)
    /\ ~view.paged => view.page = 1 /\ view.since = {}
    /\ view.since \subseteq postings
    /\ \A i \in Inquiry : Asked(i) => /\ inquiries[i].matched \subseteq postings
                                      /\ "page" \notin inquiries[i].reads => inquiries[i].matched = {}

(* Jobs are on one of the pages that were shown, or on one that is still to come: a *)
(* job that is created moves the older ones towards later pages only.               *)
ShownBelow(jobs, seen, rank) == \A n \in jobs : n \in seen \/ Newer(n) >= rank

NothingSkipped ==
    /\ ~view.loading => ShownBelow(view.since, view.seen, Skip(view.page) + Limit)
    /\ \A i \in Inquiry : Asked(i) =>
          /\ "page" \notin inquiries[i].reads => ShownBelow(view.since, view.seen, Skip(view.page))
          /\ "page" \in inquiries[i].reads =>
                ShownBelow(view.since \cup inquiries[i].matched, view.seen \cup inquiries[i].found, Skip(view.page) + Limit)

HistoryInv == HistoryTypes /\ (~view.disturbed => OneRequest /\ NothingSkipped)

LEMMA Pages == Limit \in Nat \ {0} /\ Skip(1) = 0
PROOF
BY HistoryAssumption DEF Skip

LEMMA PageFollows ==
    ASSUME NEW p \in Nat \ {0}
    PROVE  /\ Skip(p) \in Nat /\ Skip(p) + Limit \in Nat /\ Skip(p) <= Skip(p) + Limit
           /\ p + 1 \in Nat \ {0} /\ Skip(p + 1) <= Skip(p) + Limit
           /\ p > 1 => p - 1 \in Nat \ {0} /\ Skip(p - 1) <= Skip(p) + Limit
PROOF
<1>1. \A l \in Nat \ {0} : (p - 1) * l \in Nat /\ (p + 1 - 1) * l = (p - 1) * l + l
                          /\ (p > 1 => (p - 1 - 1) * l = (p - 1) * l - l)
    OBVIOUS
<1> QED BY <1>1, Pages DEF Skip

LEMMA Ranks ==
    ASSUME postings \subseteq Posting
    PROVE  /\ IsFiniteSet(postings) /\ Cardinality(postings) \in Nat
           /\ \A n : Newer(n) \in Nat
           /\ \A n \in postings : Newer(n) < Cardinality(postings)
PROOF
<1>1. IsFiniteSet(postings)
    BY HistoryAssumption, FS_Subset
<1>2. ASSUME NEW n
      PROVE  /\ IsFiniteSet({m \in postings : m > n}) /\ Newer(n) \in Nat
             /\ n \in postings => Newer(n) < Cardinality(postings)
    <2>1. IsFiniteSet({m \in postings : m > n}) /\ Cardinality(postings) \in Nat
          /\ Newer(n) \in Nat /\ Newer(n) <= Cardinality(postings)
        BY <1>1, FS_Subset, FS_CardinalityType DEF Newer
    <2>2. ASSUME n \in postings, Newer(n) = Cardinality(postings)
          PROVE  FALSE
        <3>1. {m \in postings : m > n} = postings
            BY <1>1, <2>2, FS_Subset DEF Newer
        <3>2. n \in Nat
            BY <2>2, HistoryAssumption
        <3> QED BY <2>2, <3>1, <3>2
    <2> QED BY <2>1, <2>2
<1> QED BY <1>1, <1>2, FS_CardinalityType

LEMMA RanksGrow ==
    ASSUME postings \subseteq postings', postings' \subseteq Posting
    PROVE  \A n : Newer(n)' >= Newer(n) /\ Newer(n)' \in Nat /\ Newer(n) \in Nat
PROOF
<1>1. IsFiniteSet(postings')
    BY HistoryAssumption, FS_Subset
<1> TAKE n
<1>2. {m \in postings : m > n} \subseteq {m \in postings' : m > n}
    OBVIOUS
<1>3. IsFiniteSet({m \in postings' : m > n})
    BY <1>1, FS_Subset
<1>4. IsFiniteSet({m \in postings : m > n})
      /\ Cardinality({m \in postings : m > n}) <= Cardinality({m \in postings' : m > n})
    BY <1>2, <1>3, FS_Subset
<1> QED BY <1>3, <1>4, FS_CardinalityType DEF Newer

LEMMA HistoryBegins == HistoryInit => HistoryInv
PROOF
BY HistoryAssumption, Pages DEF HistoryInit, HistoryInv, HistoryTypes, Inquiries, NoInquiry, OneRequest, NothingSkipped,
   ShownBelow, Asked

(* A request for a page that follows a page shown, or that one or an earlier one again *)
LEMMA LoadGoesOn ==
    ASSUME HistoryInv, NEW i \in Inquiry, NEW p \in Nat \ {0}, NEW loaded \in BOOLEAN,
           LoadJobs(i, p, loaded), loaded => Skip(p) <= Skip(view.page) + Limit, ~loaded => p = 1
    PROVE  HistoryInv'
PROOF
<1> DEFINE free == \A k \in Inquiry : ~Asked(k)
<1> DEFINE asking == [NoInquiry EXCEPT !.page = p]
<1>1. /\ inquiries' = [inquiries EXCEPT ![i] = asking] /\ postings' = postings
      /\ asking \in Inquiries /\ asking.page = p /\ asking.reads = {} /\ asking.matched = {}
    BY DEF LoadJobs, NoInquiry, Inquiries
<1>2. /\ view'.page = p /\ view'.loading = TRUE /\ view'.paged = loaded
      /\ view'.disturbed = (~free \/ (loaded /\ view.disturbed))
      /\ free => /\ view'.seen = IF loaded THEN view.seen ELSE {}
                 /\ view'.since = IF loaded THEN view.since ELSE {}
    BY DEF LoadJobs, Disturbed, HistoryInv, HistoryTypes
<1>3. HistoryTypes'
    BY <1>1 DEF LoadJobs, Disturbed, HistoryInv, HistoryTypes
<1>4. ASSUME ~view'.disturbed
      PROVE  OneRequest' /\ NothingSkipped'
    <2>1. free
        BY <1>2, <1>4
    <2>2. \A k \in Inquiry : Asked(k)' => k = i
        BY <1>1, <2>1 DEF Asked, HistoryInv, HistoryTypes
    <2>3. inquiries'[i] = asking /\ Asked(i)'
        BY <1>1 DEF Asked, HistoryInv, HistoryTypes
    <2>4. loaded => /\ view.since \subseteq postings
                    /\ ShownBelow(view.since, view.seen, Skip(view.page) + Limit)
        BY <1>2, <1>4, <2>1 DEF HistoryInv, OneRequest, NothingSkipped
    <2>5. OneRequest'
        BY <1>1, <1>2, <2>1, <2>2, <2>3, <2>4 DEF OneRequest
    <2>6. ShownBelow(view'.since, view'.seen, Skip(p))
        <3>1. CASE loaded
            <4>1. Skip(p) \in Nat /\ Skip(view.page) + Limit \in Nat /\ (\A n : Newer(n) \in Nat)
                <5>1. view.page \in Nat \ {0} /\ postings \subseteq Posting
                    BY DEF HistoryInv, HistoryTypes
                <5> QED BY <5>1, PageFollows, Ranks
            <4>2. view'.since = view.since /\ view'.seen = view.seen
                BY <1>2, <2>1, <3>1
            <4> QED BY <2>4, <3>1, <4>1, <4>2 DEF ShownBelow
        <3>2. CASE ~loaded
            BY <1>2, <2>1, <3>2 DEF ShownBelow
        <3> QED BY <3>1, <3>2
    <2>7. \A n : Newer(n)' = Newer(n)
        BY <1>1 DEF Newer
    <2>8. ShownBelow(view.since, view.seen, Skip(view.page))'
        BY <1>2, <2>6, <2>7 DEF ShownBelow, Skip
    <2>9. NothingSkipped'
        BY <1>1, <1>2, <2>2, <2>3, <2>8 DEF NothingSkipped
    <2> QED BY <2>5, <2>9
<1> QED BY <1>3, <1>4 DEF HistoryInv

LEMMA HistoryGoesOn == HistoryInv /\ [HistoryNext]_historyVars => HistoryInv'
PROOF
<1> SUFFICES ASSUME HistoryInv, [HistoryNext]_historyVars PROVE HistoryInv'
    OBVIOUS
<1>0. HistoryTypes /\ (\A n : Newer(n) \in Nat) /\ Limit \in Nat /\ Skip(view.page) \in Nat
    <2>1. HistoryTypes /\ view.page \in Nat \ {0} /\ postings \subseteq Posting
        BY DEF HistoryInv, HistoryTypes
    <2> QED BY <2>1, Pages, PageFollows, Ranks
<1>1. CASE JobPosted
    <2>1. postings \subseteq postings' /\ postings' \subseteq Posting /\ UNCHANGED <<inquiries, view>>
        BY <1>0, <1>1 DEF JobPosted, HistoryTypes
    <2>2. \A n : Newer(n)' >= Newer(n) /\ Newer(n)' \in Nat
        BY <2>1, RanksGrow
    <2>3. \A jobs, seen : \A rank \in Nat : ShownBelow(jobs, seen, rank) => ShownBelow(jobs, seen, rank)'
        BY <1>0, <2>2 DEF ShownBelow
    <2>4. HistoryTypes' /\ (OneRequest => OneRequest')
        BY <1>0, <2>1 DEF HistoryTypes, OneRequest, Asked
    <2>5. NothingSkipped => NothingSkipped'
        <3>1. Skip(view.page)' = Skip(view.page) /\ view' = view /\ inquiries' = inquiries
            BY <2>1 DEF Skip
        <3> QED BY <1>0, <2>3, <3>1 DEF NothingSkipped, Asked
    <2> QED BY <2>1, <2>4, <2>5 DEF HistoryInv
<1>2. CASE JobDeparts
    BY <1>0, <1>2 DEF JobDeparts, Disturbed, HistoryTypes, HistoryInv
<1>3. ASSUME NEW i \in Inquiry, FindPage(i)
      PROVE  HistoryInv'
    <2> DEFINE found == IF view.disturbed THEN {} ELSE OnPage(inquiries[i].page)
    <2> DEFINE matched == IF view.disturbed \/ view.paged THEN {} ELSE postings
    <2>1. /\ inquiries' = [inquiries EXCEPT ![i].reads = @ \cup {"page"}, ![i].found = found, ![i].matched = matched]
          /\ UNCHANGED <<postings, view>> /\ Asked(i) /\ "page" \notin inquiries[i].reads
        BY <1>3 DEF FindPage
    <2>2. found \subseteq Posting /\ matched \subseteq Posting /\ matched \subseteq postings
        BY <1>0 DEF OnPage, HistoryTypes
    <2> HIDE DEF found, matched
    <2>3. /\ inquiries'[i].page = inquiries[i].page /\ inquiries'[i].reads = inquiries[i].reads \cup {"page"}
          /\ inquiries'[i].found = found /\ inquiries'[i].matched = matched
          /\ \A k \in Inquiry : k # i => inquiries'[k] = inquiries[k]
        BY <1>0, <2>1 DEF HistoryTypes, Inquiries
    <2>4. HistoryTypes'
        <3>1. inquiries[i] \in Inquiries
            BY <1>0 DEF HistoryTypes
        <3>2. [inquiries[i] EXCEPT !.reads = @ \cup {"page"}, !.found = found, !.matched = matched] \in Inquiries
            BY <2>2, <3>1 DEF Inquiries
        <3>3. inquiries' = [inquiries EXCEPT ![i] = [inquiries[i] EXCEPT !.reads = @ \cup {"page"}, !.found = found,
                                                                     !.matched = matched]]
            BY <1>0, <2>1 DEF HistoryTypes
        <3> QED BY <1>0, <2>1, <3>2, <3>3 DEF HistoryTypes
    <2>5. ASSUME ~view.disturbed
          PROVE  OneRequest' /\ NothingSkipped'
        <3>1. OneRequest /\ NothingSkipped
            BY <2>5 DEF HistoryInv
        <3>2. \A k \in Inquiry : Asked(k)' = Asked(k)
            BY <2>3 DEF Asked
        <3>3. OneRequest'
            BY <2>1, <2>2, <2>3, <3>1, <3>2 DEF OneRequest
        <3>4. ShownBelow(view.since \cup matched, view.seen \cup found, Skip(view.page) + Limit)
            <4> SUFFICES ASSUME NEW n \in view.since \cup matched, n \notin view.seen,
                                ~(Newer(n) >= Skip(view.page) + Limit)
                         PROVE  n \in found
                BY DEF ShownBelow
            <4>1. n \in postings
                BY <2>2, <3>1 DEF OneRequest
            <4>2. Newer(n) >= Skip(view.page)
                <5>1. CASE n \in view.since
                    BY <2>1, <3>1, <5>1 DEF NothingSkipped, ShownBelow
                <5>2. CASE n \in matched
                    <6>1. ~view.paged
                        BY <5>2 DEF matched
                    <6>2. Skip(view.page) = 0
                        BY <3>1, <6>1, Pages DEF OneRequest
                    <6> QED BY <1>0, <6>2
                <5> QED BY <5>1, <5>2
            <4>3. Newer(n) < Skip(view.page) + Limit
                BY <1>0
            <4>4. n \in OnPage(view.page)
                BY <4>1, <4>2, <4>3 DEF OnPage
            <4> QED BY <2>1, <2>5, <3>1, <4>4 DEF found, OneRequest
        <3>5. \A jobs, seen : \A rank : ShownBelow(jobs, seen, rank)' = ShownBelow(jobs, seen, rank)
            BY <2>1 DEF ShownBelow, Newer
        <3>6. Skip(view.page)' = Skip(view.page) /\ view' = view
            BY <2>1 DEF Skip
        <3>7. \A k \in Inquiry : Asked(k) => k = i
            BY <2>1, <3>1 DEF OneRequest
        <3>8. view.loading
            BY <2>1, <3>1 DEF OneRequest
        <3> QED BY <2>3, <3>2, <3>3, <3>4, <3>5, <3>6, <3>7, <3>8 DEF NothingSkipped
    <2> QED BY <2>1, <2>4, <2>5 DEF HistoryInv
<1>4. ASSUME NEW i \in Inquiry, CountTotal(i)
      PROVE  HistoryInv'
    <2>1. /\ inquiries' = [inquiries EXCEPT ![i].reads = @ \cup {"total"}, ![i].total = Cardinality(postings)]
          /\ UNCHANGED <<postings, view>>
        BY <1>4 DEF CountTotal
    <2>2. Cardinality(postings) \in Nat
        BY <1>0, Ranks DEF HistoryTypes
    <2>3. HistoryTypes'
        <3>1. inquiries[i] \in Inquiries
            BY <1>0 DEF HistoryTypes
        <3>2. [inquiries[i] EXCEPT !.reads = @ \cup {"total"}, !.total = Cardinality(postings)] \in Inquiries
            BY <2>2, <3>1 DEF Inquiries
        <3>3. inquiries' = [inquiries EXCEPT ![i] = [inquiries[i] EXCEPT !.reads = @ \cup {"total"},
                                                                     !.total = Cardinality(postings)]]
            BY <1>0, <2>1 DEF HistoryTypes
        <3> QED BY <1>0, <2>1, <3>2, <3>3 DEF HistoryTypes
    <2>4. /\ \A k \in Inquiry : inquiries'[k].page = inquiries[k].page
          /\ \A k \in Inquiry : inquiries'[k].found = inquiries[k].found /\ inquiries'[k].matched = inquiries[k].matched
          /\ \A k \in Inquiry : "page" \in inquiries'[k].reads <=> "page" \in inquiries[k].reads
        BY <1>0, <2>1 DEF HistoryTypes, Inquiries
    <2>5. OneRequest => OneRequest'
        <3>1. \A k \in Inquiry : Asked(k)' <=> Asked(k)
            BY <2>4 DEF Asked
        <3> QED BY <2>1, <2>4, <3>1 DEF OneRequest
    <2>6. \A jobs, seen : \A rank : ShownBelow(jobs, seen, rank)' = ShownBelow(jobs, seen, rank)
        BY <2>1 DEF ShownBelow, Newer
    <2>7. Skip(view.page)' = Skip(view.page) /\ view' = view
        BY <2>1 DEF Skip
    <2>8. NothingSkipped => NothingSkipped'
        <3>1. \A k \in Inquiry : Asked(k)' <=> Asked(k)
            BY <2>4 DEF Asked
        <3> QED BY <2>4, <2>6, <2>7, <3>1 DEF NothingSkipped
    <2> QED BY <2>1, <2>3, <2>5, <2>8 DEF HistoryInv
<1>5. ASSUME NEW i \in Inquiry, ResetFilters(i) \/ ApplyFilters(i) \/ ChangePage(i)
      PROVE  HistoryInv'
    <2>1. view.page \in Nat \ {0} /\ view.page + 1 \in Nat \ {0}
        BY <1>0 DEF HistoryTypes
    <2>2. CASE ResetFilters(i)
        <3>1. LoadJobs(i, 1, FALSE)
            BY <2>2, Zenon DEF ResetFilters
        <3>2. 1 \in Nat \ {0}
            OBVIOUS
        <3> QED BY <3>1, <3>2, LoadGoesOn, Zenon
    <2>3. CASE ApplyFilters(i)
        <3>1. Skip(view.page) <= Skip(view.page) + Limit
            BY <2>1, PageFollows
        <3> QED BY <2>1, <2>3, <3>1, LoadGoesOn DEF ApplyFilters
    <2>4. CASE view.page > 1 /\ LoadJobs(i, view.page - 1, TRUE)
        <3>1. view.page - 1 \in Nat \ {0} /\ Skip(view.page - 1) <= Skip(view.page) + Limit
            BY <2>1, <2>4, PageFollows
        <3> QED BY <2>4, <3>1, LoadGoesOn
    <2>5. CASE LoadJobs(i, view.page + 1, TRUE)
        <3>1. Skip(view.page + 1) <= Skip(view.page) + Limit
            BY <2>1, PageFollows
        <3> QED BY <2>1, <2>5, <3>1, LoadGoesOn
    <2> QED BY <1>5, <2>2, <2>3, <2>4, <2>5 DEF ChangePage
<1>6. ASSUME NEW i \in Inquiry, JobsShown(i)
      PROVE  HistoryInv'
    <2> DEFINE a == inquiries[i]
    <2>1. /\ inquiries' = [inquiries EXCEPT ![i] = NoInquiry] /\ postings' = postings
          /\ Asked(i) /\ "page" \in a.reads
          /\ view' = [view EXCEPT !.loading = FALSE, !.total = a.total, !.paged = TRUE,
                                  !.seen  = IF view.disturbed THEN {} ELSE view.seen \cup a.found,
                                  !.since = IF view.disturbed THEN {} ELSE view.since \cup a.matched]
        BY <1>6 DEF JobsShown
    <2>2. a \in Inquiries /\ NoInquiry \in Inquiries
        BY <1>0 DEF HistoryTypes, NoInquiry, Inquiries
    <2>3. /\ view'.page = view.page /\ view'.loading = FALSE /\ view'.paged = TRUE /\ view'.disturbed = view.disturbed
          /\ ~view.disturbed => view'.seen = view.seen \cup a.found /\ view'.since = view.since \cup a.matched
        BY <1>0, <2>1 DEF HistoryTypes
    <2>4. HistoryTypes'
        BY <1>0, <2>1, <2>2 DEF HistoryTypes, Inquiries
    <2>5. ASSUME ~view.disturbed
          PROVE  OneRequest' /\ NothingSkipped'
        <3>1. OneRequest /\ NothingSkipped
            BY <2>5 DEF HistoryInv
        <3>2. \A k \in Inquiry : ~Asked(k)'
            BY <1>0, <2>1, <3>1 DEF Asked, OneRequest, HistoryTypes, NoInquiry
        <3>3. a.matched \subseteq postings
            BY <2>1, <3>1 DEF OneRequest
        <3>4. OneRequest'
            BY <2>1, <2>3, <2>5, <3>1, <3>2, <3>3 DEF OneRequest
        <3>5. ShownBelow(view'.since, view'.seen, Skip(view.page) + Limit)
            BY <2>1, <2>3, <2>5, <3>1 DEF NothingSkipped
        <3>6. ShownBelow(view.since, view.seen, Skip(view.page) + Limit)'
            BY <2>1, <2>3, <3>5 DEF ShownBelow, Newer, Skip
        <3> QED BY <3>2, <3>4, <3>6 DEF NothingSkipped
    <2> QED BY <2>3, <2>4, <2>5 DEF HistoryInv
<1>7. ASSUME NEW i \in Inquiry, ListFails(i)
      PROVE  HistoryInv'
    BY <1>0, <1>7 DEF ListFails, Disturbed, HistoryTypes, HistoryInv, NoInquiry, Inquiries
<1>8. CASE UNCHANGED historyVars
    BY <1>8 DEF historyVars, HistoryInv, HistoryTypes, OneRequest, NothingSkipped, ShownBelow, Newer, Asked, Skip
<1> QED BY <1>1, <1>2, <1>3, <1>4, <1>5, <1>6, <1>7, <1>8 DEF HistoryNext

LEMMA LastPageShowsAll == HistoryInv => PagingSkipsNothing
PROOF
<1> SUFFICES ASSUME HistoryInv, view.paged, ~view.loading, ~view.disturbed,
                    Skip(view.page) + Limit >= Cardinality(postings), NEW n \in view.since
             PROVE  n \in view.seen
    BY DEF PagingSkipsNothing
<1>1. n \in postings /\ (n \in view.seen \/ Newer(n) >= Skip(view.page) + Limit)
    BY DEF HistoryInv, OneRequest, NothingSkipped, ShownBelow
<1>2. Newer(n) < Cardinality(postings) /\ Newer(n) \in Nat /\ Cardinality(postings) \in Nat
    BY <1>1, Ranks DEF HistoryInv, HistoryTypes
<1>3. Skip(view.page) + Limit \in Nat
    <2>1. view.page \in Nat \ {0}
        BY DEF HistoryInv, HistoryTypes
    <2> QED BY <2>1, PageFollows
<1> QED BY <1>1, <1>2, <1>3

(* Whoever pages through the history to its end has been shown every job that was there *)
(* when the first page was asked for and is there still, for any number of jobs that    *)
(* are created meanwhile and of requests whose answers overlap.                         *)
THEOREM PagesLeaveNothingOut == ServicesSpec => []PagingSkipsNothing
PROOF
<1>1. ServicesInit => HistoryInv
    BY HistoryBegins DEF ServicesInit
<1>2. HistoryInv /\ [ServicesNext]_servicesVars => HistoryInv'
    BY HistoryGoesOn, StepsOfHistory
<1> QED
    BY <1>1, <1>2, LastPageShowsAll, PTL DEF ServicesSpec

-----------------------------------------------------------------------------
(* Calls of the language model *)

LEMMA MaxOfTwo ==
    ASSUME NEW m \in Int, NEW n \in Int
    PROVE  Max({m, n}) = IF m >= n THEN m ELSE n
PROOF
<1> DEFINE larger == IF m >= n THEN m ELSE n
<1>1. larger \in {m, n} /\ \A y \in {m, n} : larger >= y
    OBVIOUS
<1>2. \A x \in {m, n} : (\A y \in {m, n} : x >= y) => x = larger
    OBVIOUS
<1> HIDE DEF larger
<1>3. Max({m, n}) \in {m, n} /\ \A y \in {m, n} : Max({m, n}) >= y
    BY <1>1 DEF Max
<1> QED BY <1>2, <1>3 DEF larger

LEMMA MinOfTwo ==
    ASSUME NEW m \in Int, NEW n \in Int
    PROVE  Min({m, n}) = IF m <= n THEN m ELSE n
PROOF
<1> DEFINE smaller == IF m <= n THEN m ELSE n
<1>1. smaller \in {m, n} /\ \A y \in {m, n} : smaller <= y
    OBVIOUS
<1>2. \A x \in {m, n} : (\A y \in {m, n} : x <= y) => x = smaller
    OBVIOUS
<1> HIDE DEF smaller
<1>3. Min({m, n}) \in {m, n} /\ \A y \in {m, n} : Min({m, n}) <= y
    BY <1>1 DEF Min
<1> QED BY <1>2, <1>3 DEF smaller

(* The limits of an attempt, and how ages grow *)
LEMMA Limits ==
    /\ CacheLife \in Nat \ {0} /\ Oldest \in Nat
    /\ HealthTimeout \in Nat /\ TimeoutOf("health") = HealthTimeout
    /\ \A kind : TimeoutOf(kind) \in Nat
    /\ \A n \in 0..Oldest : Older(n) \in 0..Oldest /\ Older(n) <= n + 1
    /\ \A n \in 0..CacheLife : Min({n + 1, CacheLife}) = IF n < CacheLife THEN n + 1 ELSE CacheLife
PROOF
<1>1. /\ Configured \in Int /\ CacheLife \in Nat \ {0} /\ HealthBudget \in Nat \ {0}
      /\ HealthMinimum \in Nat \ {0} /\ ProgressLimit \in Nat \ {0}
    BY LanguageModelAssumption
<1>2. HealthTimeout \in Nat
    <2>1. Min({Configured, HealthBudget}) \in Int
        BY <1>1, MinOfTwo
    <2>2. Max({HealthMinimum, Min({Configured, HealthBudget})}) \in Nat
        BY <1>1, <2>1, MaxOfTwo
    <2> QED BY <1>1, <2>2 DEF HealthTimeout
<1>3. ASSUME NEW kind
      PROVE  TimeoutOf(kind) \in Nat
    <2>1. Min({Configured, ProgressLimit}) \in Int
        BY <1>1, MinOfTwo
    <2>2. \A n \in Int : Max({0, n}) \in Nat
        BY MaxOfTwo
    <2>3. Max({0, Min({Configured, ProgressLimit})}) \in Nat /\ Max({0, Configured}) \in Nat
        BY <1>1, <2>1, <2>2
    <2> QED BY <1>2, <2>3 DEF TimeoutOf
<1>4. Oldest \in Nat
    <2>1. CacheLife + HealthTimeout \in Int
        BY <1>1, <1>2
    <2>2. Max({CacheLife + HealthTimeout, Configured}) \in Nat
        BY <1>1, <1>2, <2>1, MaxOfTwo
    <2> QED BY <2>2 DEF Oldest
<1>5. ASSUME NEW n \in 0..Oldest
      PROVE  Older(n) \in 0..Oldest /\ Older(n) <= n + 1
    BY <1>4, MinOfTwo DEF Older
<1>6. ASSUME NEW n \in 0..CacheLife
      PROVE  Min({n + 1, CacheLife}) = IF n < CacheLife THEN n + 1 ELSE CacheLife
    BY <1>1, MinOfTwo
<1>7. TimeoutOf("health") = HealthTimeout
    BY DEF TimeoutOf
<1> QED BY <1>1, <1>2, <1>3, <1>4, <1>5, <1>6, <1>7

Gravities == {"ok", "degraded", "down"}

(* What a request can be doing *)
Checking == [kind : {"health"}, at : {"database", "storage", "llm"}, critical : Gravities]
Attempting == [kind : Kinds, at : {"calling"}, critical : Gravities, attempt : Nat, age : Nat,
               reply : {"none", "good", "bad"}, waited : Nat]
Told == [kind : Kinds, at : {"told"}, source : {"health", "fallback", "llm", "error"},
         status : Gravities \cup {"success", "failed", "disabled", "disabled_for_task", "VALIDATION_ERROR", "JOB_NOT_FOUND"},
         llm : {"ok", "degraded", "disabled", "not_configured", ""}]
Doings == {NoCall} \cup Checking \cup Attempting \cup Told

ModelTypes ==
    /\ llm \in Settings /\ verdict \in [reachable : BOOLEAN, age : 0..CacheLife]
    /\ call \in [Caller -> Doings] /\ asked \in Caller \cup {"none"}
    /\ goodAge \in 0..Oldest /\ badAge \in 0..Oldest

(* What an attempt has been told was decided since it began, and it takes no longer *)
(* than its limit; a verdict that is still told is at most a probe older than its age. *)
RepliesAreRecent ==
    /\ \A c \in Caller : call[c].at = "calling" =>
          /\ call[c].age <= TimeoutOf(call[c].kind)
          /\ call[c].reply = "good" => goodAge <= call[c].age
          /\ call[c].reply = "bad"  => badAge <= call[c].age
    /\ verdict.age < CacheLife =>
          IF verdict.reachable THEN goodAge <= verdict.age + HealthTimeout
                               ELSE badAge <= verdict.age + HealthTimeout

ModelInv == ModelTypes /\ RepliesAreRecent

(* What AnswersReflectTheModel says of one step *)
StepReflects ==
    \A c \in Caller : call[c].at # "told" /\ call'[c].at = "told" => Reflects(call'[c])

LEMMA Worst == \A parts : Overall(parts) \in Gravities
PROOF
BY DEF Overall, Gravities

LEMMA ShapesOfCalls ==
    ASSUME NEW d \in Doings
    PROVE  /\ d.at = "calling" => d \in Attempting
           /\ d.at \in {"database", "storage", "llm"} => d \in Checking
           /\ d.at = "told" => d \in Told
           /\ d.at = "idle" => d = NoCall
           /\ d.at \in {"idle", "database", "storage", "llm", "calling", "told"} /\ d.kind \in Kinds \cup {"none"}
PROOF
<1>1. CASE d = NoCall
    BY <1>1 DEF NoCall
<1>2. CASE d \in Checking
    BY <1>2 DEF Checking, Kinds
<1>3. CASE d \in Attempting
    BY <1>3 DEF Attempting
<1>4. CASE d \in Told
    BY <1>4 DEF Told
<1> QED BY <1>1, <1>2, <1>3, <1>4 DEF Doings

(* A request is answered: its answer is what counts, the others stay as they are *)
LEMMA AnswersAreTold ==
    ASSUME ModelInv, NEW c \in Caller, NEW answer \in Told, call[c].at # "told",
           call' = [call EXCEPT ![c] = answer], Reflects(answer)
    PROVE  call' \in [Caller -> Doings] /\ StepReflects
           /\ (\A k \in Caller : call'[k].at = "calling" => call'[k] = call[k])
PROOF
<1>1. answer \in Doings /\ answer.at = "told"
    BY DEF Doings, Told
<1>2. call \in [Caller -> Doings]
    BY DEF ModelInv, ModelTypes
<1>3. \A k \in Caller : call'[k] = IF k = c THEN answer ELSE call[k]
    BY <1>2
<1>4. call' \in [Caller -> Doings]
    BY <1>1, <1>2
<1> HIDE DEF Reflects
<1>5. StepReflects
    BY <1>3 DEF StepReflects
<1>6. \A k \in Caller : call'[k].at = "calling" => call'[k] = call[k]
    BY <1>1, <1>3
<1> QED BY <1>4, <1>5, <1>6

(* What a caller makes of the outcome of generateText *)
LEMMA OutcomesReflect ==
    ASSUME ModelInv, NEW c \in Caller, call[c].at = "calling", NEW good \in BOOLEAN,
           Outcome(c, good, "failed"), goodAge' \in Nat, badAge' \in Nat,
           good => goodAge' <= TimeoutOf(call[c].kind), ~good => badAge' <= TimeoutOf(call[c].kind)
    PROVE  call' \in [Caller -> Doings] /\ StepReflects
           /\ (\A k \in Caller : call'[k].at = "calling" => call'[k] = call[k])
PROOF
<1>1. call[c] \in Attempting
    BY ShapesOfCalls DEF ModelInv, ModelTypes
<1>2. call[c].kind \in Kinds /\ call[c].critical \in Gravities
    BY <1>1 DEF Attempting
<1>3. CASE call[c].kind = "health"
    <2> DEFINE said == FromVerdict(good)
    <2> DEFINE answer == [kind |-> "health", at |-> "told", source |-> "health",
                          status |-> Overall({call[c].critical, said}), llm |-> said]
    <2>1. call' = [call EXCEPT ![c] = answer]
        BY <1>3 DEF Outcome, HealthAnswer, CallAnswered
    <2>2. Overall({call[c].critical, said}) \in Gravities /\ said = IF good THEN "ok" ELSE "degraded"
        BY Worst DEF FromVerdict
    <2>3. answer \in Told
        BY <2>2 DEF Told, Kinds
    <2>4. Reflects(answer)
        <3>1. HealthTimeout \in Nat /\ CacheLife \in Nat \ {0} /\ TimeoutOf(call[c].kind) = HealthTimeout
            BY <1>3, Limits
        <3>2. good => goodAge' < CacheLife + HealthTimeout
            BY <3>1
        <3>3. ~good => badAge' < CacheLife + HealthTimeout
            BY <3>1
        <3>4. /\ answer.llm = IF good THEN "ok" ELSE "degraded"
              /\ answer.source = "health" /\ answer.status # "failed"
            BY <2>2 DEF Gravities
        <3> HIDE DEF answer
        <3> QED BY <3>2, <3>3, <3>4 DEF Reflects
    <2> QED BY <2>1, <2>3, <2>4, AnswersAreTold
<1>4. CASE call[c].kind # "health"
    <2> DEFINE answer == [kind |-> call[c].kind, at |-> "told", source |-> IF good THEN "llm" ELSE "fallback",
                          status |-> IF good THEN "success" ELSE "failed", llm |-> ""]
    <2>1. call' = [call EXCEPT ![c] = answer]
        BY <1>2, <1>4 DEF Outcome, Kinds, ProgressWording, FinalSummaryWording, AnswerReAsk, CallAnswered, Fallback
    <2>2. answer \in Told
        BY <1>2 DEF Told
    <2>3. Reflects(answer)
        BY DEF Reflects
    <2> QED BY <2>1, <2>2, <2>3, AnswersAreTold
<1> QED BY <1>3, <1>4

LEMMA ModelBegins == LanguageModelInit => ModelInv
PROOF
<1> SUFFICES ASSUME LanguageModelInit PROVE ModelInv
    OBVIOUS
<1>1. CacheLife \in 0..CacheLife /\ Oldest \in 0..Oldest
    BY Limits
<1>2. ModelTypes
    BY <1>1 DEF LanguageModelInit, ModelTypes, NoVerdict, Doings
<1>3. \A c \in Caller : call[c].at # "calling"
    BY DEF LanguageModelInit, NoCall
<1>4. ~(verdict.age < CacheLife)
    BY <1>1 DEF LanguageModelInit, NoVerdict
<1> QED BY <1>2, <1>3, <1>4 DEF ModelInv, RepliesAreRecent

(* Attempts that go on as they are, and verdicts that are kept, stay recent as long as *)
(* the ages do not grow                                                                *)
LEMMA StaysRecent ==
    ASSUME ModelInv, call' \in [Caller -> Doings], UNCHANGED verdict,
           goodAge' \in 0..goodAge, badAge' \in 0..badAge, UNCHANGED llm, asked' \in Caller \cup {"none"},
           \A k \in Caller : call'[k].at = "calling" =>
               call'[k] = call[k] \/ (call'[k].age = 0 /\ call'[k].reply = "none")
    PROVE  ModelInv'
PROOF
<1>0. ModelTypes /\ goodAge \in 0..Oldest /\ badAge \in 0..Oldest /\ Oldest \in Nat
    BY Limits DEF ModelInv, ModelTypes
<1>1. ModelTypes'
    BY <1>0 DEF ModelTypes
<1>2. ASSUME NEW k \in Caller, call'[k].at = "calling"
      PROVE  /\ call'[k].age <= TimeoutOf(call'[k].kind)
             /\ call'[k].reply = "good" => goodAge' <= call'[k].age
             /\ call'[k].reply = "bad"  => badAge' <= call'[k].age
    <2>1. CASE call'[k] = call[k]
        <3>1. call[k].age \in Nat
            BY <1>0, <1>2, <2>1, ShapesOfCalls DEF ModelTypes, Attempting
        <3>2. /\ call[k].age <= TimeoutOf(call[k].kind)
              /\ call[k].reply = "good" => goodAge <= call[k].age
              /\ call[k].reply = "bad"  => badAge <= call[k].age
            BY <1>2, <2>1 DEF ModelInv, RepliesAreRecent
        <3> QED BY <1>0, <2>1, <3>1, <3>2
    <2>2. CASE call'[k].age = 0 /\ call'[k].reply = "none"
        BY <2>2, Limits
    <2> QED BY <1>2, <2>1, <2>2
<1>3. verdict.age < CacheLife =>
          IF verdict.reachable THEN goodAge' <= verdict.age + HealthTimeout
                               ELSE badAge' <= verdict.age + HealthTimeout
    <2>1. verdict.age \in Nat /\ HealthTimeout \in Nat
        BY <1>0, Limits DEF ModelTypes
    <2> QED BY <1>0, <2>1 DEF ModelInv, RepliesAreRecent
<1> QED BY <1>1, <1>2, <1>3 DEF ModelInv, RepliesAreRecent

(* The last attempt answers the request, and a probe leaves its verdict *)
LEMMA AttemptsEnd ==
    ASSUME ModelInv, NEW c \in Caller, call[c].at = "calling", NEW good \in BOOLEAN,
           Outcome(c, good, "failed"), RememberVerdict(c, good), UNCHANGED <<llm, asked>>,
           goodAge' \in 0..goodAge, badAge' \in 0..badAge,
           good => goodAge' <= TimeoutOf(call[c].kind), ~good => badAge' <= TimeoutOf(call[c].kind)
    PROVE  ModelInv' /\ StepReflects
PROOF
<1>0. ModelTypes /\ goodAge \in 0..Oldest /\ badAge \in 0..Oldest /\ Oldest \in Nat /\ call[c].kind \in Kinds
      /\ HealthTimeout \in Nat /\ TimeoutOf("health") = HealthTimeout /\ CacheLife \in Nat
    BY Limits, ShapesOfCalls DEF ModelInv, ModelTypes, Attempting
<1>1. /\ call' \in [Caller -> Doings] /\ StepReflects
      /\ \A k \in Caller : call'[k].at = "calling" => call'[k] = call[k]
    <2>1. goodAge' \in Nat /\ badAge' \in Nat
        BY <1>0
    <2> QED BY <2>1, OutcomesReflect
<1>2. CASE call[c].kind = "health"
    <2>1. verdict' = [reachable |-> good, age |-> 0]
        BY <1>2 DEF RememberVerdict
    <2>2. ModelTypes'
        BY <1>0, <1>1, <2>1 DEF ModelTypes
    <2>3. ASSUME NEW k \in Caller, call'[k].at = "calling"
          PROVE  /\ call'[k].age <= TimeoutOf(call'[k].kind)
                 /\ call'[k].reply = "good" => goodAge' <= call'[k].age
                 /\ call'[k].reply = "bad"  => badAge' <= call'[k].age
        <3>1. call'[k] = call[k] /\ call[k].age \in Nat
            BY <1>0, <1>1, <2>3, ShapesOfCalls DEF ModelTypes, Attempting
        <3>2. /\ call[k].age <= TimeoutOf(call[k].kind)
              /\ call[k].reply = "good" => goodAge <= call[k].age
              /\ call[k].reply = "bad"  => badAge <= call[k].age
            BY <2>3, <3>1 DEF ModelInv, RepliesAreRecent
        <3> QED BY <1>0, <3>1, <3>2
    <2>4. IF verdict'.reachable THEN goodAge' <= verdict'.age + HealthTimeout
                                ELSE badAge' <= verdict'.age + HealthTimeout
        BY <1>0, <1>2, <2>1
    <2> QED BY <1>1, <2>2, <2>3, <2>4 DEF ModelInv, RepliesAreRecent
<1>3. CASE call[c].kind # "health"
    <2>1. UNCHANGED verdict /\ asked' \in Caller \cup {"none"}
        BY <1>0, <1>3 DEF RememberVerdict, ModelTypes
    <2> QED BY <1>1, <2>1, StaysRecent
<1> QED BY <1>2, <1>3

LEMMA AttemptGoesOn ==
    ASSUME ModelInv, NEW c \in Caller, call[c].at = "calling", NEW good \in BOOLEAN,
           AttemptEnds(c, good), UNCHANGED <<llm, asked>>,
           goodAge' \in 0..goodAge, badAge' \in 0..badAge,
           good => goodAge' <= TimeoutOf(call[c].kind), ~good => badAge' <= TimeoutOf(call[c].kind)
    PROVE  ModelInv' /\ StepReflects
PROOF
<1>1. CASE good \/ call[c].attempt >= Attempts(call[c].kind)
    BY <1>1, AttemptsEnd DEF AttemptEnds
<1>2. CASE ~(good \/ call[c].attempt >= Attempts(call[c].kind))
    <2> DEFINE again == [call[c] EXCEPT !.attempt = @ + 1, !.age = 0, !.reply = "none"]
    <2>1. call \in [Caller -> Doings] /\ call[c] \in Attempting /\ asked \in Caller \cup {"none"}
        BY ShapesOfCalls DEF ModelInv, ModelTypes
    <2>2. again \in Doings /\ again.age = 0 /\ again.reply = "none" /\ again.at = "calling"
        <3>1. again \in Attempting
            <4>1. call[c].attempt + 1 \in Nat
                BY <2>1 DEF Attempting
            <4> QED BY <2>1, <4>1 DEF Attempting
        <3>2. again.age = 0 /\ again.reply = "none" /\ again.at = "calling"
            BY <2>1 DEF Attempting
        <3> QED BY <3>1, <3>2 DEF Doings
    <2>3. call' = [call EXCEPT ![c] = again] /\ UNCHANGED verdict
        BY <1>2, <2>1 DEF AttemptEnds
    <2> HIDE DEF again
    <2>4. \A k \in Caller : call'[k] = IF k = c THEN again ELSE call[k]
        BY <2>1, <2>3
    <2>5. StepReflects
        BY <2>2, <2>4 DEF StepReflects
    <2>6. ModelInv'
        BY <2>1, <2>2, <2>3, <2>4, StaysRecent
    <2> QED BY <2>5, <2>6
<1> QED BY <1>1, <1>2

LEMMA ModelGoesOn == ModelInv /\ [LanguageModelNext]_modelVars => ModelInv' /\ StepReflects
PROOF
<1> SUFFICES ASSUME ModelInv, [LanguageModelNext]_modelVars PROVE ModelInv' /\ StepReflects
    OBVIOUS
<1>0. /\ ModelTypes /\ call \in [Caller -> Doings] /\ asked \in Caller \cup {"none"}
      /\ goodAge \in 0..Oldest /\ badAge \in 0..Oldest /\ Oldest \in Nat
      /\ goodAge \in 0..goodAge /\ badAge \in 0..badAge /\ 0 \in 0..goodAge /\ 0 \in 0..badAge
    BY Limits DEF ModelInv, ModelTypes
(* A step of one request that begins or goes on *)
<1>1. ASSUME NEW c \in Caller, NEW d \in Doings, call' = [call EXCEPT ![c] = d],
             d.at # "told", d.at = "calling" => d.age = 0 /\ d.reply = "none",
             UNCHANGED <<llm, verdict, goodAge, badAge>>, asked' \in Caller \cup {"none"}
      PROVE  ModelInv' /\ StepReflects
    <2>1. \A k \in Caller : call'[k] = IF k = c THEN d ELSE call[k]
        BY <1>0, <1>1
    <2>2. call' \in [Caller -> Doings]
        BY <1>0, <1>1
    <2>3. StepReflects
        BY <1>1, <2>1 DEF StepReflects
    <2>4. \A k \in Caller : call'[k].at = "calling" =>
               call'[k] = call[k] \/ (call'[k].age = 0 /\ call'[k].reply = "none")
        BY <1>1, <2>1
    <2> QED BY <1>0, <1>1, <2>2, <2>3, <2>4, StaysRecent
(* An answer that no attempt is made for *)
<1>2. ASSUME NEW c \in Caller, NEW answer \in Told, call' = [call EXCEPT ![c] = answer], call[c].at # "told",
             Reflects(answer), UNCHANGED <<llm, verdict, goodAge, badAge>>, asked' \in Caller \cup {"none"}
      PROVE  ModelInv' /\ StepReflects
    <2>1. call' \in [Caller -> Doings] /\ StepReflects
          /\ (\A k \in Caller : call'[k].at = "calling" => call'[k] = call[k])
        BY <1>2, AnswersAreTold
    <2> QED BY <1>0, <1>2, <2>1, StaysRecent
<1>3. ASSUME NEW c \in Caller, BuildHealthResponse(c)
      PROVE  ModelInv' /\ StepReflects
    <2> DEFINE d == [kind |-> "health", at |-> "database", critical |-> "ok"]
    <2>1. d \in Doings /\ d.at # "told" /\ d.at # "calling"
        BY DEF Doings, Checking, Gravities
    <2>2. call' = [call EXCEPT ![c] = d] /\ UNCHANGED <<llm, verdict, asked, goodAge, badAge>>
        BY <1>3 DEF BuildHealthResponse
    <2> QED BY <1>0, <1>1, <2>1, <2>2
<1>4. ASSUME NEW c \in Caller, CheckFirebase(c) \/ CheckStorage(c)
      PROVE  ModelInv' /\ StepReflects
    <2>1. call[c] \in Checking
        BY <1>0, <1>4, ShapesOfCalls DEF CheckFirebase, CheckStorage
    <2>2. PICK at \in {"storage", "llm"} : \E said : call' = [call EXCEPT ![c].at = at, ![c].critical = Overall(said)]
        BY <1>4 DEF CheckFirebase, CheckStorage
    <2>7. PICK said : call' = [call EXCEPT ![c].at = at, ![c].critical = Overall(said)]
        BY <2>2
    <2> DEFINE d == [call[c] EXCEPT !.at = at, !.critical = Overall(said)]
    <2>3. d \in Checking /\ d.at # "told" /\ d.at # "calling"
        BY <2>1, Worst DEF Checking
    <2>4. call' = [call EXCEPT ![c] = d]
        BY <1>0, <2>7
    <2>5. d \in Doings
        BY <2>3 DEF Doings
    <2>6. UNCHANGED <<llm, verdict, asked, goodAge, badAge>>
        BY <1>4 DEF CheckFirebase, CheckStorage
    <2> QED BY <1>0, <1>1, <2>3, <2>4, <2>5, <2>6
<1>5. ASSUME NEW c \in Caller, CheckLlm(c)
      PROVE  ModelInv' /\ StepReflects
    <2>1. call[c] \in Checking /\ call[c].kind = "health" /\ call[c].critical \in Gravities /\ call[c].at # "told"
          /\ UNCHANGED <<llm, verdict, asked, goodAge, badAge>>
        BY <1>0, <1>5, ShapesOfCalls DEF CheckLlm, Checking
    <2>2. ASSUME NEW said \in {"disabled", "not_configured", "ok", "degraded"}, HealthAnswer(c, said),
                 said \in {"ok", "degraded"} => verdict.age < CacheLife /\ said = FromVerdict(verdict.reachable)
          PROVE  ModelInv' /\ StepReflects
        <3> DEFINE answer == [kind |-> "health", at |-> "told", source |-> "health",
                              status |-> Overall({call[c].critical, said}), llm |-> said]
        <3>1. call' = [call EXCEPT ![c] = answer]
            BY <2>1, <2>2 DEF HealthAnswer, CallAnswered
        <3>2. answer \in Told /\ answer.llm = said /\ answer.source = "health" /\ answer.status # "failed"
            BY Worst DEF Told, Kinds, Gravities
        <3>3. verdict.age \in Nat /\ CacheLife \in Nat /\ HealthTimeout \in Nat
            BY <1>0, Limits DEF ModelTypes
        <3>4. said = "ok" => goodAge < CacheLife + HealthTimeout
            BY <1>0, <2>2, <3>3 DEF FromVerdict, ModelInv, RepliesAreRecent
        <3>5. said = "degraded" => badAge < CacheLife + HealthTimeout
            BY <1>0, <2>2, <3>3 DEF FromVerdict, ModelInv, RepliesAreRecent
        <3> HIDE DEF answer
        <3>6. Reflects(answer)
            BY <2>1, <3>2, <3>4, <3>5 DEF Reflects
        <3> QED BY <1>0, <1>2, <2>1, <3>1, <3>2, <3>6
    <2>3. CASE call' = [call EXCEPT ![c] = Calling("health", call[c].critical)]
        <3>1. Calling("health", call[c].critical) \in Attempting
            BY <2>1 DEF Calling, Attempting, Kinds
        <3>2. Calling("health", call[c].critical).age = 0 /\ Calling("health", call[c].critical).reply = "none"
              /\ Calling("health", call[c].critical).at = "calling"
            BY DEF Calling
        <3> QED BY <1>0, <1>1, <2>1, <2>3, <3>1, <3>2 DEF Doings
    <2>4. \/ HealthAnswer(c, "disabled") \/ HealthAnswer(c, "not_configured")
          \/ verdict.age < CacheLife /\ HealthAnswer(c, FromVerdict(verdict.reachable))
          \/ call' = [call EXCEPT ![c] = Calling("health", call[c].critical)]
        BY <1>5 DEF CheckLlm
    <2>5. FromVerdict(verdict.reachable) \in {"ok", "degraded"}
        BY DEF FromVerdict
    <2> QED BY <2>2, <2>3, <2>4, <2>5
<1>6. ASSUME NEW c \in Caller, NEW kind \in Kinds \ {"health"}, WordingIsAsked(c, kind)
      PROVE  ModelInv' /\ StepReflects
    <2>1. call[c].at # "told" /\ UNCHANGED <<llm, verdict, goodAge, badAge>> /\ asked' \in Caller \cup {"none"}
        BY <1>0, <1>6 DEF WordingIsAsked
    <2>2. ASSUME NEW status \in {"disabled", "disabled_for_task"},
                 call' = [call EXCEPT ![c] = [kind |-> kind, at |-> "told", source |-> "fallback",
                                              status |-> status, llm |-> ""]]
          PROVE  ModelInv' /\ StepReflects
        <3> DEFINE answer == [kind |-> kind, at |-> "told", source |-> "fallback", status |-> status, llm |-> ""]
        <3>1. answer \in Told
            BY DEF Told
        <3>2. Reflects(answer)
            BY DEF Reflects
        <3> QED BY <1>2, <2>1, <2>2, <3>1, <3>2
    <2>3. CASE call' = [call EXCEPT ![c] = Calling(kind, "ok")]
        <3>1. Calling(kind, "ok") \in Attempting
            BY DEF Calling, Attempting, Gravities
        <3>2. Calling(kind, "ok").age = 0 /\ Calling(kind, "ok").reply = "none" /\ Calling(kind, "ok").at = "calling"
            BY DEF Calling
        <3> QED BY <1>1, <2>1, <2>3, <3>1, <3>2 DEF Doings
    <2> QED BY <1>6, <2>2, <2>3 DEF WordingIsAsked
<1>15. ASSUME NEW c \in Caller, ReAskRefused(c)
      PROVE  ModelInv' /\ StepReflects
    <2>1. PICK code \in {"VALIDATION_ERROR", "JOB_NOT_FOUND"} :
             call' = [call EXCEPT ![c] = [kind |-> "ask", at |-> "told", source |-> "error", status |-> code, llm |-> ""]]
        BY <1>15 DEF ReAskRefused
    <2>2. call[c].at # "told" /\ UNCHANGED <<llm, verdict, goodAge, badAge>> /\ asked' \in Caller \cup {"none"}
        BY <1>15 DEF ReAskRefused
    <2> DEFINE answer == [kind |-> "ask", at |-> "told", source |-> "error", status |-> code, llm |-> ""]
    <2>3. answer \in Told
        BY DEF Told, Kinds
    <2>4. Reflects(answer)
        BY DEF Reflects
    <2> QED BY <1>2, <2>1, <2>2, <2>3, <2>4
<1>7. ASSUME NEW c \in Caller, NoProvider(c)
      PROVE  ModelInv' /\ StepReflects
    <2>1. call[c].at = "calling" /\ Outcome(c, FALSE, "failed") /\ RememberVerdict(c, FALSE)
          /\ badAge' = 0 /\ UNCHANGED <<llm, asked, goodAge>>
        BY <1>7 DEF NoProvider, RememberVerdict
    <2>2. 0 <= TimeoutOf(call[c].kind)
        BY Limits
    <2> QED BY <1>0, <2>1, <2>2, AttemptsEnd
<1>8. ASSUME NEW c \in Caller, Serve(c)
      PROVE  ModelInv' /\ StepReflects
    <2>1. PICK good \in BOOLEAN :
              /\ call' = [call EXCEPT ![c].reply = IF good THEN "good" ELSE "bad"]
              /\ goodAge' = IF good THEN 0 ELSE goodAge
              /\ badAge' = IF good THEN badAge ELSE 0
        BY <1>8 DEF Serve, Good
    <2>2. call[c] \in Attempting /\ call[c].at = "calling" /\ UNCHANGED <<llm, verdict, asked>>
        BY <1>0, <1>8, ShapesOfCalls DEF Serve
    <2> DEFINE d == [call[c] EXCEPT !.reply = IF good THEN "good" ELSE "bad"]
    <2>3. d \in Attempting /\ d.at = "calling" /\ d.age = call[c].age /\ d.kind = call[c].kind
          /\ d.reply = IF good THEN "good" ELSE "bad"
        BY <2>2 DEF Attempting
    <2>4. call' = [call EXCEPT ![c] = d]
        BY <1>0, <2>1
    <2> HIDE DEF d
    <2>5. \A k \in Caller : call'[k] = IF k = c THEN d ELSE call[k]
        BY <1>0, <2>4
    <2>6. goodAge' \in 0..goodAge /\ badAge' \in 0..badAge
        BY <1>0, <2>1
    <2>7. ModelTypes'
        <3>1. call' \in [Caller -> Doings]
            BY <1>0, <2>3, <2>4 DEF Doings
        <3> QED BY <1>0, <2>2, <2>6, <3>1 DEF ModelTypes
    <2>8. StepReflects
        BY <2>3, <2>5 DEF StepReflects
    <2>9. ASSUME NEW k \in Caller, call'[k].at = "calling"
          PROVE  /\ call'[k].age <= TimeoutOf(call'[k].kind)
                 /\ call'[k].reply = "good" => goodAge' <= call'[k].age
                 /\ call'[k].reply = "bad"  => badAge' <= call'[k].age
        <3>1. call[k].at = "calling" /\ call'[k].age = call[k].age /\ call'[k].kind = call[k].kind
            BY <2>2, <2>3, <2>5, <2>9
        <3>2. call[k].age \in Nat
            BY <1>0, <3>1, ShapesOfCalls DEF Attempting
        <3>3. /\ call[k].age <= TimeoutOf(call[k].kind)
              /\ call[k].reply = "good" => goodAge <= call[k].age
              /\ call[k].reply = "bad"  => badAge <= call[k].age
            BY <3>1 DEF ModelInv, RepliesAreRecent
        <3>4. call'[k].reply = "good" => goodAge' <= call[k].age
            BY <1>0, <2>1, <2>3, <2>5, <2>6, <3>2, <3>3
        <3>5. call'[k].reply = "bad" => badAge' <= call[k].age
            BY <1>0, <2>1, <2>3, <2>5, <2>6, <3>2, <3>3
        <3> QED BY <3>1, <3>3, <3>4, <3>5
    <2>10. verdict.age < CacheLife =>
              IF verdict.reachable THEN goodAge' <= verdict.age + HealthTimeout
                                   ELSE badAge' <= verdict.age + HealthTimeout
        <3>1. verdict.age \in Nat /\ HealthTimeout \in Nat
            BY <1>0, Limits DEF ModelTypes
        <3> QED BY <1>0, <2>6, <3>1 DEF ModelInv, RepliesAreRecent
    <2> QED BY <2>2, <2>7, <2>8, <2>9, <2>10 DEF ModelInv, RepliesAreRecent
<1>9. ASSUME NEW c \in Caller, ReplyArrives(c)
      PROVE  ModelInv' /\ StepReflects
    <2>1. /\ call[c].at = "calling" /\ call[c].reply # "none" /\ UNCHANGED <<llm, asked, goodAge, badAge>>
          /\ AttemptEnds(c, call[c].reply = "good") /\ call[c] \in Attempting
        BY <1>0, <1>9, ShapesOfCalls DEF ReplyArrives
    <2>2. /\ call[c].age \in Nat /\ call[c].age <= TimeoutOf(call[c].kind) /\ TimeoutOf(call[c].kind) \in Nat
          /\ call[c].reply = "good" => goodAge <= call[c].age
          /\ call[c].reply # "good" => badAge <= call[c].age
        BY <2>1, Limits DEF ModelInv, RepliesAreRecent, Attempting
    <2>3. /\ call[c].reply = "good" => goodAge' <= TimeoutOf(call[c].kind)
          /\ ~(call[c].reply = "good") => badAge' <= TimeoutOf(call[c].kind)
        BY <1>0, <2>1, <2>2
    <2>4. goodAge' \in 0..goodAge /\ badAge' \in 0..badAge
        BY <1>0, <2>1
    <2>5. PICK good \in BOOLEAN : good = (call[c].reply = "good")
        OBVIOUS
    <2>6. AttemptEnds(c, good)
        BY <2>1, <2>5, Zenon
    <2>7. (good => goodAge' <= TimeoutOf(call[c].kind)) /\ (~good => badAge' <= TimeoutOf(call[c].kind))
        BY <2>3, <2>5
    <2> QED BY <2>1, <2>4, <2>6, <2>7, AttemptGoesOn
<1>10. ASSUME NEW c \in Caller, AttemptTimesOut(c)
       PROVE  ModelInv' /\ StepReflects
    <2>1. /\ call[c].at = "calling" /\ AttemptEnds(c, FALSE) /\ badAge' = 0 /\ UNCHANGED <<llm, asked, goodAge>>
        BY <1>10 DEF AttemptTimesOut
    <2>2. 0 <= TimeoutOf(call[c].kind)
        BY Limits
    <2> QED BY <1>0, <2>1, <2>2, AttemptGoesOn
<1>11. ASSUME NEW c \in Caller, AnswerDelivered(c)
       PROVE  ModelInv' /\ StepReflects
    <2>1. NoCall \in Doings /\ NoCall.at # "told" /\ NoCall.at # "calling"
        BY DEF Doings, NoCall
    <2>2. asked' \in Caller \cup {"none"}
        BY <1>0, <1>11 DEF AnswerDelivered
    <2> QED BY <1>1, <1>11, <2>1, <2>2 DEF AnswerDelivered
<1>12. ASSUME NEW c \in Caller, BrowserGivesUp(c)
       PROVE  ModelInv' /\ StepReflects
    <2>1. UNCHANGED <<llm, verdict, call, goodAge, badAge>> /\ asked' \in Caller \cup {"none"}
        BY <1>12 DEF BrowserGivesUp
    <2>2. StepReflects
        BY <2>1 DEF StepReflects
    <2> QED BY <1>0, <2>1, <2>2, StaysRecent
<1>13. CASE Tick
    <2> DEFINE older(k) == [call[k] EXCEPT !.age = @ + 1, !.waited = IF asked = k THEN @ + 1 ELSE 0]
    <2>1. /\ \A k \in Caller : IsCalling(k) => call[k].age < TimeoutOf(call[k].kind)
          /\ call' = [k \in Caller |-> IF IsCalling(k) THEN older(k) ELSE call[k]]
          /\ verdict' = [verdict EXCEPT !.age = Min({@ + 1, CacheLife})]
          /\ goodAge' = Older(goodAge) /\ badAge' = Older(badAge) /\ UNCHANGED <<llm, asked>>
        BY <1>13 DEF Tick
    <2>2. goodAge' \in 0..Oldest /\ goodAge' <= goodAge + 1 /\ badAge' \in 0..Oldest /\ badAge' <= badAge + 1
        BY <1>0, <2>1, Limits
    <2>3. ASSUME NEW k \in Caller, IsCalling(k)
          PROVE  /\ call[k] \in Attempting /\ older(k) \in Attempting /\ older(k).age = call[k].age + 1
                 /\ older(k).kind = call[k].kind /\ older(k).reply = call[k].reply /\ older(k).at = "calling"
        <3>1. call[k] \in Attempting /\ call[k].at = "calling"
            BY <1>0, <2>3, ShapesOfCalls DEF IsCalling
        <3>2. call[k].age + 1 \in Nat /\ (IF asked = k THEN call[k].waited + 1 ELSE 0) \in Nat
            BY <3>1 DEF Attempting
        <3> QED BY <3>1, <3>2 DEF Attempting
    <2> HIDE DEF older
    <2>4. \A k \in Caller : call'[k] = IF IsCalling(k) THEN older(k) ELSE call[k]
        BY <2>1
    <2>5. call' \in [Caller -> Doings]
        BY <1>0, <2>1, <2>3 DEF Doings
    <2>6. StepReflects
        BY <2>3, <2>4 DEF StepReflects
    <2>7. ASSUME NEW k \in Caller, call'[k].at = "calling"
          PROVE  /\ call'[k].age <= TimeoutOf(call'[k].kind)
                 /\ call'[k].reply = "good" => goodAge' <= call'[k].age
                 /\ call'[k].reply = "bad"  => badAge' <= call'[k].age
        <3>1. IsCalling(k)
            BY <2>4, <2>7 DEF IsCalling
        <3>2. /\ call'[k].age = call[k].age + 1 /\ call'[k].kind = call[k].kind /\ call'[k].reply = call[k].reply
              /\ call[k].age \in Nat /\ TimeoutOf(call[k].kind) \in Nat /\ call[k].age < TimeoutOf(call[k].kind)
            BY <2>1, <2>3, <2>4, <3>1, Limits DEF Attempting
        <3>3. /\ call[k].reply = "good" => goodAge <= call[k].age
              /\ call[k].reply = "bad"  => badAge <= call[k].age
            BY <3>1 DEF IsCalling, ModelInv, RepliesAreRecent
        <3> QED BY <1>0, <2>2, <3>2, <3>3
    <2>8. verdict \in [reachable : BOOLEAN, age : 0..CacheLife] /\ CacheLife \in Nat /\ HealthTimeout \in Nat
          /\ Min({verdict.age + 1, CacheLife}) = IF verdict.age < CacheLife THEN verdict.age + 1 ELSE CacheLife
        BY <1>0, Limits DEF ModelTypes
    <2>9. /\ verdict' \in [reachable : BOOLEAN, age : 0..CacheLife]
          /\ verdict'.reachable = verdict.reachable
          /\ verdict'.age < CacheLife => verdict'.age = verdict.age + 1 /\ verdict.age < CacheLife
        BY <2>1, <2>8
    <2>10. verdict'.age < CacheLife =>
              IF verdict'.reachable THEN goodAge' <= verdict'.age + HealthTimeout
                                    ELSE badAge' <= verdict'.age + HealthTimeout
        BY <1>0, <2>2, <2>8, <2>9 DEF ModelInv, RepliesAreRecent
    <2>11. ModelTypes'
        BY <1>0, <2>1, <2>2, <2>5, <2>9 DEF ModelTypes
    <2> QED BY <2>6, <2>7, <2>10, <2>11 DEF ModelInv, RepliesAreRecent
<1>14. CASE UNCHANGED modelVars
    BY <1>14 DEF modelVars, ModelInv, ModelTypes, RepliesAreRecent, StepReflects
<1> QED
    BY <1>3, <1>4, <1>5, <1>6, <1>7, <1>8, <1>9, <1>10, <1>11, <1>12, <1>13, <1>14, <1>15 DEF LanguageModelNext, CallStep

(* An answer about the language model tells what the configuration, the cache and the   *)
(* replies were within the timeouts, for any number of callers that share the verdict. *)
THEOREM AnswersAreTrue == ServicesSpec => AnswersReflectTheModel
PROOF
<1>1. ServicesInit => ModelInv
    BY ModelBegins DEF ServicesInit
<1>2. ModelInv /\ [ServicesNext]_servicesVars => ModelInv' /\ [StepReflects]_modelVars
    BY ModelGoesOn, StepsOfModel
<1>3. ServicesSpec => [][StepReflects]_modelVars
    BY <1>1, <1>2, PTL DEF ServicesSpec
<1> QED
    BY <1>3 DEF AnswersReflectTheModel, StepReflects

-----------------------------------------------------------------------------
(* The types of every part.  The invariants above count without a bound; what the *)
(* guards keep below the bounds of the model is the rest.                         *)

PageBounds ==
    /\ stored.counted <= MaxOutputs /\ stored.outputs <= MaxOutputs /\ page.listed <= MaxOutputs
    /\ \A l \in Load : loads[l].counted <= MaxOutputs /\ loads[l].listed <= MaxOutputs

LEMMA PageBoundsGoOn == PagesInv /\ PageBounds /\ [PagesNext]_pagesVars => PageBounds'
PROOF
<1> SUFFICES ASSUME PageTypes, PageBounds, [PagesNext]_pagesVars
             PROVE  PageBounds'
    BY DEF PagesInv
<1> USE PagesAssumption DEF PageBounds, PageTypes, Answers, NoLoad
<1>1. CASE InsertOutput
    BY <1>1 DEF InsertOutput
<1>2. CASE StoreEnd
  <2>1. PICK n \in {0, stored.outputs} : stored' = [stored EXCEPT !.ended = TRUE, !.counted = n]
      BY <1>2 DEF StoreEnd
  <2>2. UNCHANGED <<follower, loads, page>> /\ n <= MaxOutputs
      BY <1>2, <2>1 DEF StoreEnd
  <2> QED
      BY <2>1, <2>2
<1>4. CASE SnapshotShown
  <2>1. PICK ended \in StatusRead : page' = [page EXCEPT !.ended = ended, !.stale = @ \/ ended]
      BY <1>4 DEF SnapshotShown
  <2> QED
      BY <1>4, <2>1 DEF SnapshotShown
<1>5. ASSUME NEW l \in Load, OpenPage(l) \/ MessageShown(l)
      PROVE  PageBounds'
    BY <1>5 DEF OpenPage, MessageShown, Ask
<1>6. ASSUME NEW l \in Load, GetJobDetail(l)
      PROVE  PageBounds'
    BY <1>6 DEF GetJobDetail, ReadInTurn, ReadsJob, ReadsFiles
<1>7. ASSUME NEW l \in Load, DetailShown(l)
      PROVE  PageBounds'
    BY <1>7 DEF DetailShown
<1>8. ASSUME NEW l \in Load, LoadFails(l)
      PROVE  PageBounds'
    BY <1>8 DEF LoadFails
<1>9. CASE UNCHANGED pagesVars
    BY <1>9 DEF pagesVars
<1> QED
    BY <1>1, <1>2, <1>4, <1>5, <1>6, <1>7, <1>8, <1>9 DEF PagesNext

LEMMA PageTypesHold == PagesInv /\ PageBounds => PagesTypeOK
PROOF
<1> SUFFICES ASSUME PageTypes, PageBounds PROVE PagesTypeOK
    BY DEF PagesInv
<1> USE PagesAssumption DEF PageBounds, PageTypes, Answers
<1>1. stored \in [ended : BOOLEAN, counted : 0..MaxOutputs, outputs : 0..MaxOutputs]
    OBVIOUS
<1>2. page \in [ended : BOOLEAN, listed : 0..MaxOutputs, stale : BOOLEAN, open : BOOLEAN]
    OBVIOUS
<1>3. ASSUME NEW l \in Load
      PROVE  loads[l] \in [at : {"idle", "asked", "job", "files", "answer"}, ended : BOOLEAN,
                           counted : 0..MaxOutputs, listed : 0..MaxOutputs]
    OBVIOUS
<1> QED
    BY <1>1, <1>2, <1>3 DEF PagesTypeOK

LEMMA FileTypesGoOn == FileInv /\ FileTypeOK /\ [FileNext]_fileVars => FileTypeOK'
PROOF
<1> SUFFICES ASSUME FileInv, FileInv', FileTypeOK, [FileNext]_fileVars PROVE FileTypeOK'
    BY FilesGoOn
<1>1. onDisk' \subseteq File
    BY DEF FileTypeOK, FileNext, InsertRecord, JobStarts, OutputRecorded, JobEnds, TimePasses, RerunStarts, CheckInput,
           ReadInput, PlanCleanup, CheckCandidate, DeleteFile, DeleteFails, MarkUnavailable, CleanerCrashes, fileVars, File
<1>2. clock' \in 0..3
  <2>1. CASE TimePasses
      BY <2>1 DEF FileTypeOK, TimePasses
  <2>2. CASE ~TimePasses
      BY <2>2 DEF FileTypeOK, FileNext, InsertRecord, JobStarts, OutputRecorded, JobEnds, TimePasses, RerunStarts, CheckInput,
           ReadInput, PlanCleanup, CheckCandidate, DeleteFile, DeleteFails, MarkUnavailable, CleanerCrashes, fileVars
  <2> QED BY <2>1, <2>2
<1> QED BY <1>1, <1>2 DEF FileInv, FileTypes, FileTypeOK

LEMMA FormTypesGoOn == FormInv /\ FormTypeOK /\ [FormNext]_formVars => FormTypeOK'
PROOF
<1> SUFFICES ASSUME FormInv', FormTypeOK, [FormNext]_formVars PROVE FormTypeOK'
    BY FormsGoOn
<1>0. /\ contract' \in Contracts /\ route' \in Skill /\ template' \in BOOLEAN
      /\ form' \in Forms
      /\ posted' = NoPost \/ posted' \in Posts
    BY DEF FormInv, FormTypes
<1>1. catalogLoads' \in [CatalogLoad -> Skill \cup {NoSkill}]
    BY DEF FormTypeOK, FormNext, TemplateChanges, FillParameter, ConditionChanges, SelectFiles, ValidateSelectedFiles, Submit, CreateSkillJob,
           Mounted, SwitchSkill, CatalogArrives, CatalogFails, formVars
<1>2. posted'.answer \in PostAnswers \cup {"none"}
  <2>1. CASE posted' = NoPost
      BY <2>1 DEF NoPost
  <2>2. CASE posted' \in Posts
      BY <2>2 DEF Posts
  <2> QED
      BY <2>1, <2>2, <1>0
<1> QED BY <1>0, <1>1, <1>2 DEF FormTypeOK, Forms, Places

LEMMA PackageTypesGoOn == PackageInv' /\ PackageTypeOK /\ [PackageNext]_packageVars => PackageTypeOK'
PROOF
<1> SUFFICES ASSUME PackageInv', PackageTypeOK, [PackageNext]_packageVars PROVE PackageTypeOK'
    OBVIOUS
<1>1. backend' \in {"up", "down"}
    BY DEF PackageTypeOK, PackageNext, PackageChanges, ApprovalChanges, BackendRestarts, CreateTask, CheckPackage,
           SpawnSkill, RecordSkill, packageVars
<1> QED BY <1>1 DEF PackageInv, PackageTypeOK, Tasks

LEMMA ModelTypesHold == ModelInv => LanguageModelTypeOK
PROOF
BY ShapesOfCalls DEF ModelInv, ModelTypes, LanguageModelTypeOK

(* Revisions are counted up with the database, and copied *)
KnownRevisions ==
    /\ revision <= MaxRevision
    /\ \A k \in Setting : settings[k] <= revision
    /\ \A s \in Session : desk[s].base <= revision /\ \A k \in Setting : desk[s].seen[k] <= revision

LEMMA RevisionsAreKnown ==
    SettingsInv /\ SettingsInv' /\ KnownRevisions /\ [AdminNext]_adminVars => KnownRevisions'
PROOF
<1> SUFFICES ASSUME SettingsInv, SettingsInv', KnownRevisions, [AdminNext]_adminVars PROVE KnownRevisions'
    OBVIOUS
<1>0. /\ revision \in Nat /\ settings \in [Setting -> Nat] /\ desk \in [Session -> Desks] /\ MaxRevision \in Nat
      /\ \A s \in Session : desk[s].base \in Nat /\ desk[s].seen \in [Setting -> Nat]
    BY AdminAssumption DEF SettingsInv, Desks
<1>1. ASSUME revision' = revision \/ WritesDatabase, UNCHANGED settings,
             NEW s \in Session, NEW d \in Desks, desk' = [desk EXCEPT ![s] = d],
             d.base <= revision, \A k \in Setting : d.seen[k] <= revision
      PROVE  KnownRevisions'
    <2>1. revision' \in Nat /\ revision' >= revision /\ revision' <= MaxRevision
        BY <1>0, <1>1 DEF WritesDatabase, KnownRevisions
    <2>2. \A t \in Session : desk'[t] = IF t = s THEN d ELSE desk[t]
        BY <1>0, <1>1
    <2>3. d.base \in Nat /\ \A k \in Setting : d.seen[k] \in Nat
        BY <1>1 DEF Desks
    <2> QED BY <1>0, <1>1, <2>1, <2>2, <2>3 DEF KnownRevisions
<1>2. ASSUME revision' = revision \/ WritesDatabase, UNCHANGED <<settings, desk>>
      PROVE  KnownRevisions'
    <2>1. revision' \in Nat /\ revision' >= revision /\ revision' <= MaxRevision
        BY <1>0, <1>2 DEF WritesDatabase, KnownRevisions
    <2> QED BY <1>0, <1>2, <2>1 DEF KnownRevisions
<1>3. ASSUME NEW s \in Session, WriteSettings(s)
      PROVE  KnownRevisions'
    <2>1. revision' = revision + 1 /\ revision' <= MaxRevision
        BY <1>0, <1>3 DEF WriteSettings, WritesDatabase
    <2>2. \A k \in Setting : settings'[k] <= revision'
        BY <1>0, <1>3, <2>1 DEF WriteSettings, KnownRevisions
    <2>3. \A t \in Session : desk'[t] = IF t = s THEN Clear ELSE desk[t]
        BY <1>0, <1>3 DEF WriteSettings
    <2>4. Clear.base = 0 /\ \A k \in Setting : Clear.seen[k] = 0
        BY DEF Clear
    <2> QED BY <1>0, <2>1, <2>2, <2>3, <2>4 DEF KnownRevisions
<1>4. ASSUME NEW s \in Session, LoginCounts(s) \/ LoginFounds(s) \/ LoginReads(s) \/ LoginRefused(s) \/ LoginSaves(s)
                                \/ LoginAnswered(s) \/ Deactivated \/ OtherWrite
      PROVE  KnownRevisions'
    BY <1>2, <1>4 DEF LoginCounts, LoginFounds, LoginReads, LoginRefused, LoginSaves, LoginAnswered, Deactivated,
                      OtherWrite, accountVars
<1>5. ASSUME NEW s \in Session, SignOut(s) \/ Abandon(s)
      PROVE  KnownRevisions'
    <2>1. Clear \in Desks /\ Clear.base <= revision /\ \A k \in Setting : Clear.seen[k] <= revision
        BY <1>0, ClearDesk DEF Clear
    <2> QED BY <1>1, <1>5, <2>1 DEF SignOut, Abandon
<1>6. ASSUME NEW s \in Session, NEW keys \in SUBSET Setting, NEW at \in {"editing", "composed"},
             UNCHANGED <<settings, revision>>,
             desk' = [desk EXCEPT ![s] = [at |-> at, keys |-> keys, seen |-> settings, base |-> 0]]
      PROVE  KnownRevisions'
    <2> DEFINE d == [at |-> at, keys |-> keys, seen |-> settings, base |-> 0]
    <2>1. at \in {"clear", "editing", "composed", "previewed", "backed up"}
        OBVIOUS
    <2>2. d \in Desks
        BY <1>0, <2>1 DEF Desks
    <2>3. d.base <= revision /\ \A k \in Setting : d.seen[k] <= revision
        BY <1>0 DEF KnownRevisions
    <2>4. desk' = [desk EXCEPT ![s] = d] /\ UNCHANGED <<settings, revision>>
        BY <1>6
    <2> HIDE DEF d
    <2> QED BY <1>1, <2>2, <2>3, <2>4
<1>7. ASSUME NEW s \in Session, NEW k \in Setting, OpenRecord(s, k)
      PROVE  KnownRevisions'
    <2>1. {k} \in SUBSET Setting /\ "editing" \in {"editing", "composed"}
        OBVIOUS
    <2> QED BY <1>6, <1>7, <2>1 DEF OpenRecord
<1>8. ASSUME NEW s \in Session, ComposeImport(s)
      PROVE  KnownRevisions'
    <2>1. "composed" \in {"editing", "composed"}
        OBVIOUS
    <2> QED BY <1>6, <1>8, <2>1 DEF ComposeImport
<1>9. ASSUME NEW s \in Session, PreviewImport(s)
      PROVE  KnownRevisions'
    <2> DEFINE d == [desk[s] EXCEPT !.at = "previewed", !.seen = settings, !.base = revision]
    <2>1. desk' = [desk EXCEPT ![s] = d] /\ UNCHANGED <<settings, revision>>
        BY <1>9 DEF PreviewImport
    <2>2. desk[s] \in Desks
        BY <1>0
    <2>3. d \in Desks
        BY <1>0, <2>2 DEF Desks
    <2>4. d.base = revision /\ d.seen = settings
        BY <2>2 DEF Desks
    <2>5. d.base <= revision /\ \A k \in Setting : d.seen[k] <= revision
        BY <1>0, <2>4 DEF KnownRevisions
    <2> HIDE DEF d
    <2> QED BY <1>1, <2>1, <2>3, <2>5
<1>10. ASSUME NEW s \in Session, NEW at \in {"backed up", "previewed"}, UNCHANGED <<settings, revision>>,
              desk' = [desk EXCEPT ![s].at = at]
       PROVE  KnownRevisions'
    <2> DEFINE d == [desk[s] EXCEPT !.at = at]
    <2>1. desk' = [desk EXCEPT ![s] = d]
        BY <1>10
    <2>2. at \in {"clear", "editing", "composed", "previewed", "backed up"} /\ desk[s] \in Desks
        BY <1>0
    <2>3. d \in Desks
        BY <2>2 DEF Desks
    <2>4. d.base = desk[s].base /\ d.seen = desk[s].seen
        BY <2>2 DEF Desks
    <2>5. d.base <= revision /\ \A k \in Setting : d.seen[k] <= revision
        BY <2>4 DEF KnownRevisions
    <2> HIDE DEF d
    <2> QED BY <1>1, <1>10, <2>1, <2>3, <2>5
<1>11. ASSUME NEW s \in Session, SaveEdit(s) \/ ApplyBacksUp(s) \/ ApplyWrites(s)
       PROVE  KnownRevisions'
    BY <1>3, <1>10, <1>11 DEF SaveEdit, ApplyBacksUp, ApplyWrites
<1>12. CASE UNCHANGED adminVars
    BY <1>2, <1>12 DEF adminVars
<1>13. CASE Deactivated \/ OtherWrite
    BY <1>2, <1>13 DEF Deactivated, OtherWrite, accountVars
<1> QED BY <1>4, <1>5, <1>7, <1>8, <1>9, <1>11, <1>12, <1>13 DEF AdminNext

LEMMA AdminTypesHold == LoginInv /\ SettingsInv /\ KnownRevisions => AdminTypeOK
PROOF
<1> SUFFICES ASSUME LoginInv, SettingsInv, KnownRevisions PROVE AdminTypeOK
    OBVIOUS
<1>1. revision \in 0..MaxRevision /\ \A n \in Nat : n <= revision => n \in 0..MaxRevision
    BY AdminAssumption DEF SettingsInv, KnownRevisions
<1>2. settings \in [Setting -> 0..MaxRevision]
    BY <1>1 DEF SettingsInv, KnownRevisions
<1>3. ASSUME NEW s \in Session
      PROVE  desk[s] \in [at : {"clear", "editing", "composed", "previewed", "backed up"}, keys : SUBSET Setting,
                          seen : [Setting -> 0..MaxRevision], base : 0..MaxRevision]
    <2>1. desk[s] \in Desks
        BY DEF SettingsInv
    <2>2. desk[s].seen \in [Setting -> 0..MaxRevision] /\ desk[s].base \in 0..MaxRevision
        BY <1>1, <2>1 DEF KnownRevisions, Desks
    <2> QED BY <2>1, <2>2 DEF Desks
<1> QED BY <1>1, <1>2, <1>3 DEF AdminTypeOK, LoginInv, SettingsInv

(* The pages there can be *)
MostPages == TotalPages(Cardinality(Posting))

HistoryBounds ==
    /\ view.total <= Cardinality(Posting) /\ view.page <= MostPages
    /\ \A i \in Inquiry : inquiries[i].page <= MostPages /\ inquiries[i].total <= Cardinality(Posting)

LEMMA QuotientsGrow ==
    ASSUME NEW a \in Nat, NEW b \in Nat, NEW d \in Nat \ {0}, a <= b
    PROVE  a \div d \in Nat /\ a \div d <= b \div d /\ (a >= d => a \div d >= 1)
PROOF
<1> DEFINE p == a \div d
           q == b \div d
<1>1. p \in Nat /\ q \in Nat /\ d * p <= a /\ b < d * (q + 1)
    OBVIOUS
<1>2. p > q => d * p >= d * (q + 1)
    BY <1>1
<1>3. a >= d => a \div d >= 1
    OBVIOUS
<1> QED BY <1>1, <1>2, <1>3

LEMMA PagesAreBounded ==
    /\ Cardinality(Posting) \in Nat /\ MostPages \in Nat \ {0}
    /\ \A total \in Nat : total <= Cardinality(Posting) => TotalPages(total) \in Nat /\ TotalPages(total) <= MostPages
PROOF
<1>1. Cardinality(Posting) \in Nat /\ Limit \in Nat \ {0}
    BY HistoryAssumption, FS_CardinalityType
<1>2. ASSUME NEW total \in Nat
      PROVE  TotalPages(total) \in Nat /\ TotalPages(total) >= 1
    <2>1. CASE total = 0
        BY <2>1 DEF TotalPages
    <2>2. CASE total # 0
        <3>1. total + Limit - 1 \in Nat /\ total + Limit - 1 >= Limit
            BY <1>1, <2>2
        <3> HIDE <1>2
        <3>2. (total + Limit - 1) \div Limit \in Nat /\ (total + Limit - 1) \div Limit >= 1
            BY <1>1, <3>1, QuotientsGrow
        <3> QED BY <2>2, <3>2 DEF TotalPages
    <2> QED BY <2>1, <2>2
<1>3. ASSUME NEW total \in Nat, total <= Cardinality(Posting)
      PROVE  TotalPages(total) <= MostPages
    <2>1. CASE total = 0
        <3>1. TotalPages(total) = 1
            BY <2>1 DEF TotalPages
        <3> QED BY <1>1, <1>2, <3>1 DEF MostPages
    <2>2. CASE total # 0
        <3>1. /\ total + Limit - 1 \in Nat /\ Cardinality(Posting) + Limit - 1 \in Nat
              /\ total + Limit - 1 <= Cardinality(Posting) + Limit - 1 /\ Cardinality(Posting) # 0
            BY <1>1, <1>3, <2>2
        <3>2. (total + Limit - 1) \div Limit <= (Cardinality(Posting) + Limit - 1) \div Limit
            BY <1>1, <3>1, QuotientsGrow
        <3> QED BY <2>2, <3>1, <3>2 DEF TotalPages, MostPages
    <2> QED BY <2>1, <2>2
<1> QED BY <1>1, <1>2, <1>3 DEF MostPages

LEMMA LoadsWithin ==
    ASSUME HistoryInv, HistoryBounds, NEW i \in Inquiry, NEW p, p <= MostPages, NEW loaded, LoadJobs(i, p, loaded)
    PROVE  HistoryBounds'
PROOF
<1>1. view'.page = p /\ view'.total = view.total
    BY DEF LoadJobs, Disturbed, HistoryInv, HistoryTypes
<1>2. inquiries' = [inquiries EXCEPT ![i] = [NoInquiry EXCEPT !.page = p]]
    BY DEF LoadJobs
<1>3. 0 <= Cardinality(Posting)
    BY PagesAreBounded
<1> QED BY <1>1, <1>2, <1>3 DEF HistoryBounds, HistoryInv, HistoryTypes, NoInquiry, MostPages, TotalPages

LEMMA HistoryBoundsGoOn == HistoryInv /\ HistoryBounds /\ [HistoryNext]_historyVars => HistoryBounds'
PROOF
<1> SUFFICES ASSUME HistoryInv, HistoryBounds, [HistoryNext]_historyVars PROVE HistoryBounds'
    OBVIOUS
<1>0. HistoryTypes /\ 0 <= Cardinality(Posting) /\ 0 <= MostPages /\ 1 <= MostPages
      /\ MostPages \in Nat /\ Cardinality(Posting) \in Nat
    BY PagesAreBounded DEF HistoryInv
<1>1. CASE JobPosted \/ JobDeparts
    BY <1>0, <1>1 DEF JobPosted, JobDeparts, Disturbed, HistoryTypes, HistoryBounds, MostPages, TotalPages
<1>2. ASSUME NEW i \in Inquiry, FindPage(i) \/ CountTotal(i)
      PROVE  HistoryBounds'
    <2>1. view' = view /\ \A k \in Inquiry : inquiries'[k].page = inquiries[k].page
        BY <1>0, <1>2 DEF FindPage, CountTotal, HistoryTypes, Inquiries
    <2>2. Cardinality(postings) \in Nat /\ Cardinality(postings) <= Cardinality(Posting)
        BY <1>0, HistoryAssumption, FS_Subset, FS_CardinalityType DEF HistoryTypes
    <2>3. ASSUME NEW k \in Inquiry
          PROVE  inquiries'[k].total = inquiries[k].total \/ inquiries'[k].total = Cardinality(postings)
        BY <1>0, <1>2 DEF FindPage, CountTotal, HistoryTypes, Inquiries
    <2> QED BY <2>1, <2>2, <2>3 DEF HistoryBounds, MostPages, TotalPages
<1>3. ASSUME NEW i \in Inquiry, JobsShown(i) \/ ListFails(i)
      PROVE  HistoryBounds'
    <2>1. view'.page = view.page /\ (view'.total = view.total \/ view'.total = inquiries[i].total)
        BY <1>0, <1>3 DEF JobsShown, ListFails, Disturbed, HistoryTypes
    <2>2. inquiries' = [inquiries EXCEPT ![i] = NoInquiry]
        BY <1>3 DEF JobsShown, ListFails
    <2>3. \A k \in Inquiry : inquiries'[k] = IF k = i THEN NoInquiry ELSE inquiries[k]
        BY <1>0, <2>2 DEF HistoryTypes
    <2>4. NoInquiry.page = 0 /\ NoInquiry.total = 0
        BY DEF NoInquiry
    <2> QED BY <1>0, <2>1, <2>3, <2>4 DEF HistoryBounds, MostPages, TotalPages
<1>4. ASSUME NEW i \in Inquiry, ResetFilters(i) \/ ApplyFilters(i) \/ ChangePage(i)
      PROVE  HistoryBounds'
    <2>1. view.page \in Nat \ {0} /\ view.page <= MostPages /\ view.total \in Nat /\ view.total <= Cardinality(Posting)
        BY <1>0 DEF HistoryTypes, HistoryBounds
    <2>2. view.page - 1 <= MostPages
        BY <1>0, <2>1
    <2>3. view.page < TotalPages(view.total) => view.page + 1 <= MostPages
        BY <1>0, <2>1, PagesAreBounded
    <2>4. ResetFilters(i) => LoadJobs(i, 1, FALSE)
        BY Zenon DEF ResetFilters
    <2>5. ApplyFilters(i) => LoadJobs(i, view.page, TRUE)
        BY Zenon DEF ApplyFilters
    <2>6. ChangePage(i) => LoadJobs(i, view.page - 1, TRUE)
                           \/ (view.page < TotalPages(view.total) /\ LoadJobs(i, view.page + 1, TRUE))
        BY Zenon DEF ChangePage
    <2> QED BY <1>0, <1>4, <2>1, <2>2, <2>3, <2>4, <2>5, <2>6, LoadsWithin, Zenon
<1>5. CASE UNCHANGED historyVars
    BY <1>5 DEF historyVars, HistoryBounds, MostPages, TotalPages
<1> QED BY <1>1, <1>2, <1>3, <1>4, <1>5 DEF HistoryNext

LEMMA HistoryTypesHold == HistoryInv /\ HistoryBounds => HistoryTypeOK
PROOF
<1> SUFFICES ASSUME HistoryTypes, HistoryBounds PROVE HistoryTypeOK
    BY DEF HistoryInv
<1>1. MostPages \in Nat \ {0}
    BY PagesAreBounded
<1>2. view.page \in 1..MostPages /\ view.seen \cup view.since \subseteq Posting
      /\ {view.loading, view.disturbed, view.paged} \subseteq BOOLEAN
    BY <1>1 DEF HistoryTypes, HistoryBounds
<1>3. ASSUME NEW i \in Inquiry
      PROVE  /\ inquiries[i].page \in 0..MostPages /\ inquiries[i].reads \subseteq {"page", "total"}
             /\ inquiries[i].found \cup inquiries[i].matched \subseteq Posting
    <2>1. inquiries[i] \in Inquiries
        BY DEF HistoryTypes
    <2> QED BY <1>1, <2>1 DEF Inquiries, HistoryBounds
<1>4. postings \subseteq Posting
    BY DEF HistoryTypes
<1> QED BY <1>2, <1>3, <1>4 DEF HistoryTypeOK, MostPages
=============================================================================
