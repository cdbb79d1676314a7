SPECIFICATION TransactionsSpec
CONSTANTS
  c1 = c1
  c2 = c2
  c3 = c3
  mark = mark
  Undefined = {undefined}
  Call = {c1, c3}
  Document <- MCDocument
  Updater <- MCUpdater
  Patches <- MCPatches
  MaxRetries = 2
  ETagsAnswered = TRUE
  MaxWrites = 3
INVARIANTS ContentionMeansProgress
PROPERTIES IsAtomic RowIsAtomic
CHECK_DEADLOCK FALSE
