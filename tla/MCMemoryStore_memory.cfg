\* Five calls, two of them at once, on shared instances.
CONSTANTS
  r1 = r1
  r2 = r2
  r3 = r3
  r4 = r4
  r5 = r5
  Requests = {r1, r2, r3, r4, r5}
  Definitions <- MCDefinitions
  StepNames = {"draft", "sent"}
  StateNames = {"Open", "Sent", "Closed"}
  ActionNames = {"SEND", "CLOSE"}
  MaxInFlight = 2
  Torn = Torn
SYMMETRY RequestSymmetry
SPECIFICATION Spec
CHECK_DEADLOCK FALSE
INVARIANTS
  TypeOK
  UndisturbedCallsAgree
PROPERTIES
  FinishedStaysFinished
  ImplementsFSMUntilOverlap
