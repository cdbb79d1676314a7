--------------------------- MODULE ServicePlatform ---------------------------
(***************************************************************************)
(* The services around the queue, and the pages that use them.  They meet  *)
(* only in stored jobs and files, which each module has as its own inputs, *)
(* so a behaviour looks at one of them while the others rest; a property   *)
(* holds of the platform if it holds of each behaviour.                    *)
(***************************************************************************)
EXTENDS JobCreation, ResultContract, FileRetention, Administration, FailureReport, JobPages,
        JobHistory, SubmitForm, SkillPackages, LanguageModel

VARIABLE watched    \* the part a behaviour looks at

creationVars == vars
reportVars   == <<record>>
servicesVars == <<creationVars, contractVars, fileVars, adminVars, reportVars, pagesVars,
                  historyVars, formVars, packageVars, modelVars, watched>>

Parts == {"creation", "contract", "files", "administration", "reports", "pages", "history",
          "form", "packages", "model"}

ServicesTypeOK ==
    /\ TypeOK /\ ContractTypeOK /\ FileTypeOK /\ AdminTypeOK /\ PagesTypeOK /\ HistoryTypeOK
    /\ FormTypeOK /\ PackageTypeOK /\ LanguageModelTypeOK

(* A part that rests begins in one of its initial states *)
OneForm  == CHOOSE t \in Contract \X Skill : TRUE
OneModel == CHOOSE l \in Settings : l.enabled /\ l.wording

ServicesInit ==
    /\ watched \in Parts
    /\ Init /\ ContractStart /\ FileInit /\ AdminInit /\ ReportInit /\ PagesInit
    /\ HistoryInit /\ PackageInit /\ FormInit /\ LanguageModelInit
    /\ watched # "form" => <<contract, route>> = OneForm
    /\ watched # "model" => llm = OneModel

ServicesNext ==
    /\ UNCHANGED watched
    /\ \/ /\ watched = "creation" /\ Next
          /\ UNCHANGED <<contractVars, fileVars, adminVars, reportVars, pagesVars, historyVars,
                         formVars, packageVars, modelVars>>
       \/ /\ watched = "contract" /\ ValidateResult
          /\ UNCHANGED <<creationVars, fileVars, adminVars, reportVars, pagesVars, historyVars,
                         formVars, packageVars, modelVars>>
       \/ /\ watched = "files" /\ FileNext
          /\ UNCHANGED <<creationVars, contractVars, adminVars, reportVars, pagesVars,
                         historyVars, formVars, packageVars, modelVars>>
       \/ /\ watched = "administration" /\ AdminNext
          /\ UNCHANGED <<creationVars, contractVars, fileVars, reportVars, pagesVars,
                         historyVars, formVars, packageVars, modelVars>>
       \/ /\ watched = "reports" /\ LookUp
          /\ UNCHANGED <<creationVars, contractVars, fileVars, adminVars, pagesVars, historyVars,
                         formVars, packageVars, modelVars>>
       \/ /\ watched = "pages" /\ PagesNext
          /\ UNCHANGED <<creationVars, contractVars, fileVars, adminVars, reportVars,
                         historyVars, formVars, packageVars, modelVars>>
       \/ /\ watched = "history" /\ HistoryNext
          /\ UNCHANGED <<creationVars, contractVars, fileVars, adminVars, reportVars, pagesVars,
                         formVars, packageVars, modelVars>>
       \/ /\ watched = "form" /\ FormNext
          /\ UNCHANGED <<creationVars, contractVars, fileVars, adminVars, reportVars, pagesVars,
                         historyVars, packageVars, modelVars>>
       \/ /\ watched = "packages" /\ PackageNext
          /\ UNCHANGED <<creationVars, contractVars, fileVars, adminVars, reportVars, pagesVars,
                         historyVars, formVars, modelVars>>
       \/ /\ watched = "model" /\ LanguageModelNext
          /\ UNCHANGED <<creationVars, contractVars, fileVars, adminVars, reportVars, pagesVars,
                         historyVars, formVars, packageVars>>

ServicesSpec == ServicesInit /\ [][ServicesNext]_servicesVars
=============================================================================
