CONSTANTS
  r1 = r1  r2 = r2  r3 = r3  d1 = d1  d2 = d2  model = model
  None = None
  Requests = {r1, r2, r3}
  Definitions = {d1, d2}
  Models = {model}
  Entities <- MCEntities
  ModelOf <- MCModelOf
  Names = {1, 2, 3, 4, 5}
  MaxEnvironments = {1, 2, 3}
  Attempts = 2
  Subscribers = {s1, s2}
  MayRefuse = {s1}
  MayCrash = {s2}
  Measured = {m1, m2, m3}
  ErrorReport = ErrorReport
SPECIFICATION MCSpec
INVARIANTS
  EnvironmentsKept
  FirstDownloadAloneIfHealthy
  CompletedMeansSeen
PROPERTIES
  TasksGetOn
  ImplementsStoreThenNotify
  ErrorsReported
  ManagerGoesOn
\* The manager of the space is shut down.
CHECK_DEADLOCK FALSE
