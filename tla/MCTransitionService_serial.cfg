\* Four calls one after the other, with failures and one crash, on a workflow that
\* passes the validator, one that does not, and an unknown type.
CONSTANTS
  r1 = r1
  r2 = r2
  r3 = r3
  r4 = r4
  Requests = {r1, r2, r3, r4}
  WorkflowTypes = {"approval", "broken", "unknown"}
  Definitions <- ApprovalAndBroken
  StepNames <- MCStepNames
  StateNames <- MCStateNames
  ActionNames <- MCActionNames
  ValidationFuncs <- MCValidationFuncs
  StartupValidations <- MCStartupValidations
  MaxInFlight = 1
  MaxCrashes = 1
SYMMETRY RequestSymmetry
SPECIFICATION Spec
INVARIANT
  ValidatedWorkflowsNeverStrand
PROPERTY
  RefinesFSM
