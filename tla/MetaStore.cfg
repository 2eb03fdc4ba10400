CONSTANTS
  store = store  config = config  space = space
  operation = operation  container = container  again = again
  None = None
  Ids = {store, config, space, operation, container}
  Kind <- MCKind
  Parents <- MCParents
  Initially = {store, config}
  Clients = {space, again, operation, container}
  Target <- MCTarget
  StoreOf <- MCStoreOf
  Users = {u1}
  Editors = {e1}
  MaxDeletions = 4
  MaxEdits = 1
SPECIFICATION Spec
INVARIANTS ProvenanceKept RunningIsRecorded
PROPERTY ResultsKept
CHECK_DEADLOCK FALSE
