\* Two trials at a time; the metric is what the dependent experiment measures.
CONSTANTS
  a = a
  d = d
  Operator = operator
  Experiments = {a, d}
  IndependentExperiments <- A
  DependentsOf <- DependsOnA
  External = {}
  NumberEntities = 2
  MaxMemoized = 1
  Memoizable = {a, d}
  MaxConcurrentTrials = 2
  MetricExperiment = d
  TrialFaults = {"store", "start", "submit"}
  Kinds = {"Simple", "Growth", "MaxSamples", "InformationGain", "MetricDifference"}
  TrialIds = {1, 2, 3, 4, 5}
  Configs = {c1, c2}
  Values = {0, 1, 2}
  MinTrials = 2
  BufferStates = 1
  StopOnRepeat = TRUE
  CountNan = TRUE
  GrowthThreshold = 2
  GraceTrials = 1
  MaxSamples = 3
  MinSamples = 2
  SamplesBelowLimit = 2
SPECIFICATION StoppersSpec
INVARIANT WorseIsBelowThreshold
\* run() has returned, or all trials have been seen.
CHECK_DEADLOCK FALSE
