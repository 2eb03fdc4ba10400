\* Every fault.  Two experiments, one of which an actuator runs and enables a
\* dependent one while the others are external, share the retries of their
\* entity.
CONSTANTS
  a = a
  b = b
  d = d
  operator = operator
  Operator = operator
  Subscribers = {operator}
  CriticalError = CriticalError
  Experiments = {a, b, d}
  IndependentExperiments <- AB
  DependentsOf <- DependsOnA
  External = {b, d}
  NumberEntities = 2
  BatchSize = 1
  MaxRetries = 1
  MaxMemoized = 1
  Memoizable = {a}
  Faults = {"store", "refuse", "submit", "crash", "interrupt", "setup", "size"}
SPECIFICATION FairSpec
INVARIANTS
  NoRequestLost
  FailuresRetried
  ConcurrencyKept
  ReturnedMeansDone
  SuccessMeansStored
PROPERTIES
  DriverEnds
\* The operation ends, and the system stops.
CHECK_DEADLOCK FALSE
