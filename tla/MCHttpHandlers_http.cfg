\* Two clients, each with a GET and a PUT, and one FinishInstance.
CONSTANTS
  h1 = h1
  h2 = h2
  u1 = u1
  u2 = u2
  Clients = {h1, h2}
  Users = {u1, u2}
  Anonymous = Anonymous
  NoUser = NoUser
  Groups <- MCGroups
  Requests <- MCRequests
  WorkflowTypes = {"request", "unknown"}
  Definitions <- MCDefinitions
  StepNames = {"draft", "sent"}
  StateNames = {"Open", "Closed"}
  ActionNames = {"SEND", "CLOSE"}
  ValidationFuncs = {"checkSend"}
  StartupValidations = {"checkSend"}
  MaxInFlight = 2
  MaxCrashes = 1
SYMMETRY ClientSymmetry
SPECIFICATION HttpSpec
CHECK_DEADLOCK FALSE
INVARIANTS
  HttpTypeOK
  UsersMoveOnlyTheirOwn
  SecondInstanceNeedsARace
  RepliesShowTheOwnMoveOrLater
  AdminMovesFromTheNamedStep
  OfferedActionsExist
  RefusalsMoveNothing
