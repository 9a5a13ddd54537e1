\* FinishInstance against a TransitionStep that read the row before it.
CONSTANTS
  r1 = r1
  r2 = r2
  r3 = r3
  r4 = r4
  Requests = {r1, r2, r3}
  WorkflowTypes = {"approval"}
  Definitions <- ApprovalOnly
  StepNames <- MCStepNames
  StateNames <- MCStateNames
  ActionNames <- MCActionNames
  ValidationFuncs <- MCValidationFuncs
  StartupValidations <- MCStartupValidations
  MaxInFlight = 2
  MaxCrashes = 0
SYMMETRY RequestSymmetry
SPECIFICATION Spec
INVARIANT
  FinishIsFinal
