---------------------------- MODULE MCMemoryStore ----------------------------
(* Instances of MemoryStore for TLC. *)
EXTENDS MemoryStore, TLC

CONSTANTS r1, r2, r3, r4, r5

Act(name, nextStep, newState) ==
  [name |-> name, nextStep |-> nextStep, newState |-> newState, validationFunc |-> Blank]

(* Two steps, and actions that change both fields, only the step, only the state. *)
MCDefinitions == "request" :> ParseWorkflowFromJSON(
  [type |-> "request", initialStep |-> "draft", initialState |-> "Open",
   steps |-> <<[name |-> "draft", actions |-> <<Act("SEND", "sent", "Sent")>>],
               [name |-> "sent",  actions |-> <<Act("SEND", "draft", Blank),
                                                Act("CLOSE", Blank, "Closed")>>]>>])

RequestSymmetry == Permutations(Requests)
=============================================================================
