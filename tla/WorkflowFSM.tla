----------------------------- MODULE WorkflowFSM -----------------------------
(***************************************************************************)
(* What the engine promises of its instances: each one is created at the   *)
(* initial position of its workflow, moves one action of the definition at *)
(* a time from where it stands, and may be marked finished, for good.      *)
(* Module TransitionService implements it as long as calls do not overlap. *)
(***************************************************************************)
EXTENDS Naturals, Sequences, WorkflowDefinition

CONSTANTS Definitions, ActionNames

VARIABLE instances

Init == instances = <<>>

Create(t) ==
  instances' = Append(instances, [type     |-> t,
                                  step     |-> Definitions[t].initialStep,
                                  state    |-> Definitions[t].initialState,
                                  finished |-> FALSE])

Move(i, a) ==
  \E act \in GetTransitionAction(Definitions[instances[i].type], instances[i].step, a) :
    instances' = [instances EXCEPT ![i] = Advance(@, act)]

Finish(i) == instances' = [instances EXCEPT ![i].finished = TRUE]

Next ==
  \/ \E t \in DOMAIN Definitions : Create(t)
  \/ \E i \in DOMAIN instances : Finish(i) \/ \E a \in ActionNames : Move(i, a)

Spec == Init /\ [][Next]_instances
=============================================================================
