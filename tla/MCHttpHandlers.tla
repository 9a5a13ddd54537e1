--------------------------- MODULE MCHttpHandlers ---------------------------
(* Instances of HttpHandlers for TLC. *)
EXTENDS HttpHandlers, TLC

CONSTANTS h1, h2, u1, u2

Act(name, nextStep, newState, validationFunc) ==
  [name |-> name, nextStep |-> nextStep, newState |-> newState,
   validationFunc |-> validationFunc]

(* Three steps in a row, with an action that keeps the step. *)
Request == ParseWorkflowFromJSON(
  [type |-> "request", initialStep |-> "draft", initialState |-> "Open",
   steps |-> <<[name |-> "draft", actions |-> <<Act("SEND", "sent", Blank, Blank)>>],
               [name |-> "sent",  actions |-> <<Act("CLOSE", Blank, "Closed", "checkSend")>>]>>])

MCDefinitions == "request" :> Request
MCRequests == (Clients \X Calls) \cup {<<"application", "finish">>}
(* The open group of the documentation, and one behind RequireAuthMiddleware. *)
MCGroups == {[identify |-> "default", requireAuth |-> FALSE],
             [identify |-> "userID",  requireAuth |-> TRUE]}

ClientSymmetry == Permutations(Clients) \cup Permutations(Users)
=============================================================================
