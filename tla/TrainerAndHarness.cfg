CONSTANTS
  r1 = r1
  r2 = r2
  v1 = v1
  v2 = v2
  Trainings = {r1, r2}
  Machines = {m1, m2}
  GPUs = 2
  SampleRuns = 2
  MaxCrashes = 1
  Versions = {v1, v2}
  Original = v1
  WriteAttempts = 2
  MaxReplacements = 1
  Absent = Absent
  Torn = Torn
  Nothing = Nothing
  WarmupTime = 1
  SampleTime = 3
  SampleSteps = 2
  MaxSteps = 5
  MaxSeqLength = 5
  Points <- MCPoints
  Counters <- MCCounters
  Tokens <- MCTokens
  Clocks <- MCClocks
  N = 3
  Explore <- MCExplore
  MaxInterrupts = 2
  MaxFaults = 2
SPECIFICATION MCSpec
INVARIANTS
  MeasurementsAreRight
  EndIsStored
  NoSuccessOverException
  InterruptedIsRelated
PROPERTIES
  Answered
  CleanedUpBeforeRayStops
  EndsOrWaits
\* Requests are answered, refused or, with invalid parameters, given up, and the
\* process ends or waits.
CHECK_DEADLOCK FALSE
