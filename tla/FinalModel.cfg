CONSTANTS
  EntitySpaces <- MCEntitySpaces
  MeasurementSpaces <- MCMeasurementSpaces
  Storable <- MCStorable
  MaxStored <- MCMaxStored
  Samplers <- MCSamplers
  BatchSize = 2
  Group = {"y"}
  TrimSpaces <- MCTrimSpaces
  TrimParameters <- MCTrimParameters
  MaxEarlier = 2
  MaxOthers <- MCMaxOthers
SPECIFICATION MCSpec
INVARIANT FinalModelTrained
\* A space may be refused, and a walk ends.
CHECK_DEADLOCK FALSE
