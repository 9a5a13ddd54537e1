\* One call, two loads of any of four directories, three listeners.
CONSTANTS
  c1 = c1
  Calls = {c1}
  WorkflowTypes = {"leave", "order"}
  StepNames = {"draft", "sent"}
  StateNames = {"Open"}
  ActionNames = {"SEND", "CLOSE"}
  Directories <- MCDirectories
  NotFound = NotFound
  Filters <- MCFilters
  MaxLoads = 2
  MaxListeners = 3
SPECIFICATION Spec
CHECK_DEADLOCK FALSE
INVARIANTS
  DirectoriesLoadInOrder
  MovesByOneDefinition
  ListenersEnrichInOrder
