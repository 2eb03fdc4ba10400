CONSTANTS
  Operations = {o1, o2}
  Results = {c, r1, r2}
  Copied = {c}
  EntityOf <- OneEntity
  Valid = {c}
  MaxRequests = 2
  MySQL = TRUE
  MayForce = TRUE
  e1 = e1
  e2 = e2
  s3 = s3
  EntityIds = {e1, e2}
  OperationIds = {p}
  ResultIds = {s1, s2, s3}
  MaxRows = 3
  Databases = {"MySQL", "SQLite"}
SPECIFICATION MCSpec
SYMMETRY Symmetry
INVARIANTS
  AddedIsRead
  AnswersAgree
  FailsOnlyByDeletion
  CheckProtects
  RefreshIsComplete
PROPERTIES
  ImplementsLog
  NothingForgotten
\* Operations end, and rows are bounded.
CHECK_DEADLOCK FALSE
