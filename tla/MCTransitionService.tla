------------------------ MODULE MCTransitionService ------------------------
(* Instances of TransitionService for TLC. *)
EXTENDS TransitionService, TLC

CONSTANTS r1, r2, r3, r4

Act(name, nextStep, newState, validationFunc) ==
  [name |-> name, nextStep |-> nextStep, newState |-> newState,
   validationFunc |-> validationFunc]

(***************************************************************************)
(* The approval workflow of the integration tests, as a file lists it: a   *)
(* validation function on two actions, an action that changes the step and *)
(* not the state, a second APPROVE that the lookup never reaches, and two  *)
(* entries for one step, of which the parser keeps the later.              *)
(***************************************************************************)
Step(name, actions) == [name |-> name, actions |-> actions]

Review == Step("review", <<Act("APPROVE", "done", "Approved", "validateApprove"),
                           Act("REJECT", "submit", Blank, Blank),
                           Act("APPROVE", "submit", "Approved", Blank)>>)

ApprovalFile ==
  [type |-> "approval", initialStep |-> "submit", initialState |-> "Pending",
   steps |-> <<Step("review", <<>>),
               Step("submit", <<Act("SUBMIT", "review", "Submitted", "validateSubmit")>>),
               Review,
               Step("done", <<>>)>>]

Approval == ParseWorkflowFromJSON(ApprovalFile)

(* A file nobody checked: SUBMIT leads to a step that is not listed. *)
Broken == ParseWorkflowFromJSON(
  [ApprovalFile EXCEPT !.type = "broken", !.steps = <<@[2], @[4]>>])

MCStepNames == {"submit", "review", "done"}
MCStateNames == {"Pending", "Submitted", "Approved"}
MCActionNames == {"SUBMIT", "APPROVE", "REJECT"}
MCValidationFuncs == {"validateSubmit", "validateApprove"}
MCStartupValidations == {"validateSubmit"}
ApprovalOnly == "approval" :> Approval
ApprovalAndBroken == ApprovalOnly @@ ("broken" :> Broken)

RequestSymmetry == Permutations(Requests)
=============================================================================
