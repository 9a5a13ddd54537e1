------------------------- MODULE MCWorkflowRegistry -------------------------
(* Instances of WorkflowRegistry for TLC. *)
EXTENDS WorkflowRegistry

CONSTANT c1

Act(name, nextStep, newState) ==
  [name |-> name, nextStep |-> nextStep, newState |-> newState, validationFunc |-> Blank]

(* Two versions of one workflow: the second keeps the step and lacks an action. *)
LeaveV1 ==
  [type |-> "leave", initialStep |-> "draft", initialState |-> "Open",
   steps |-> <<[name |-> "draft", actions |-> <<Act("SEND", "sent", Blank)>>],
               [name |-> "sent", actions |-> <<Act("CLOSE", Blank, "Closed")>>]>>]
LeaveV2 ==
  [type |-> "leave", initialStep |-> "draft", initialState |-> "Open",
   steps |-> <<[name |-> "draft", actions |-> <<Act("SEND", Blank, "Closed")>>]>>]
Order == [LeaveV2 EXCEPT !.type = "order"]

WorkflowFile(config) == [kind |-> "workflow", config |-> config]
Skipped(kind) == [kind |-> kind, config |-> LeaveV1]

MCDirectories ==
  {<<WorkflowFile(LeaveV1), Skipped("other"), WorkflowFile(Order)>>,
   <<Skipped("directory"), WorkflowFile(LeaveV2), Skipped("broken"), WorkflowFile(Order)>>,
   <<WorkflowFile(LeaveV1), WorkflowFile(LeaveV2)>>,
   <<Skipped("other")>>}

MCFilters == {<<Blank, Blank>>, <<"leave", "SEND">>, <<"order", Blank>>}
=============================================================================
