\* Four calls, two of them at once, and one crash, on one workflow type.
CONSTANTS
  r1 = r1
  r2 = r2
  r3 = r3
  r4 = r4
  Requests = {r1, r2, r3, r4}
  WorkflowTypes = {"approval"}
  Definitions <- ApprovalOnly
  StepNames <- MCStepNames
  StateNames <- MCStateNames
  ActionNames <- MCActionNames
  ValidationFuncs <- MCValidationFuncs
  StartupValidations <- MCStartupValidations
  MaxInFlight = 2
  MaxCrashes = 1
SYMMETRY RequestSymmetry
SPECIFICATION Spec
INVARIANTS
  TypeOK
  RowsAreReachable
  WritesStemFromThePast
  RecordsFollowTheDefinition
  RejectionsLeaveNoTrace
  EffectsInOrderAndOnce
  SuccessIsComplete
  StartupValidationsRun
