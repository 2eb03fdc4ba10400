SPECIFICATION Spec
CONSTANTS
  Remote = {"poster", "caller"}
  Local = {"command", "script"}
  Validating = {"caller", "command"}
  Services = {"api", "command", "script"}
  MaxRetries = 1
  MaxFaults = 1
  Actuators <- MCActuators
  Requests <- MCRequests
  Scenarios <- MCScenarios
INVARIANTS
  AnswersAreRight
PROPERTY
  AcceptedIsAnswered
CHECK_DEADLOCK FALSE
