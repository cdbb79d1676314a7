SPECIFICATION ServicesSpec
CONSTANTS
  s1 = s1
  s2 = s2
  s3 = s3
  k1 = k1
  k2 = k2
  Nobody = Nobody
  NoAccount = NoAccount
  NoRecord = NoRecord
  NoSkill = NoSkill
  NoTask = NoTask
  Actor = {a1, a2}
  Runtime = {a1, a2}
  Submission = {s1, s2, s3}
  Key = {k1, k2}
  Id = {i1, i2}
  KeyOf <- MCKeyOf
  Provider = "sqlite"
  Overlapping = FALSE
  MaxFaults = 1
  MaxCount = 2
  Input = {"bom", "cost"}
  Required = {"bom"}
  Output = {"report"}
  Cleaner = {d1}
  Session = {a1, a2}
  Setting = {"a", "b"}
  MaxRevision = 7
  Load = {a1, a2}
  MaxOutputs = 2
  Posting = {1, 2, 3}
  OldPosting = {1, 3}
  Limit = 1
  Inquiry = {a1, a2}
  Skill = {"cd", "audit"}
  CatalogLoad = {a1, a2}
  Contract <- MCContract
  Auditor = "pr-auditor"
  Creator = "create-pr-cd"
  Caller = {a1, a2}
  Configured = 2
  Retries = 1
  CacheLife = 2
  HealthBudget = 1
  HealthMinimum = 1
  ProgressLimit = 1
  Patience = 1
INVARIANTS ServicesTypeOK OneJobPerKey AnsweredJobsExist StartedJobsHaveInputs RejectedLeavesNothing RecordedCountsAddUp RetentionIsSafe TokensNameTheAccount ReportsAgree EndedPagesAreWhole PagingSkipsNothing SubmittedAsShown RunsAsReviewed
PROPERTIES WritesAreInformed AnswersReflectTheModel
SYMMETRY Symmetric
CHECK_DEADLOCK FALSE
