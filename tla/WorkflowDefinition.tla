------------------------- MODULE WorkflowDefinition -------------------------
(***************************************************************************)
(* Workflow definitions (pkg/engine/definition.go) and the validator of    *)
(* pkg/engine/loader.go.  A definition is a record                         *)
(*    [type, initialStep, initialState, steps]                             *)
(* where "steps" maps a key to a step [name, actions], and "actions" is a  *)
(* sequence of [name, nextStep, newState, validationFunc].  Titles, orders *)
(* and static data are carried by the code and never looked at.            *)
(*                                                                         *)
(* A lookup that returns (value, error) in Go is modelled as a set: the    *)
(* singleton of the value, or the empty set for the error.                 *)
(***************************************************************************)
EXTENDS Naturals, Sequences

Blank == ""     \* the zero value of a Go string: an absent JSON field

(***************************************************************************)
(* The lookups of DynamicWorkflow.                                         *)
(***************************************************************************)
GetStep(def, stepName) ==
  {def.steps[s] : s \in {stepName} \cap DOMAIN def.steps}

FirstNamed(actions, actionName) ==
  {actions[i] : i \in {k \in DOMAIN actions :
                          /\ actions[k].name = actionName
                          /\ \A j \in 1 .. k - 1 : actions[j].name # actionName}}

GetTransitionAction(def, stepName, actionName) ==
  UNION {FirstNamed(step.actions, actionName) : step \in GetStep(def, stepName)}

\* Mutant of OrElse: a blank field of the action is copied like any other.
OrElseAlwaysNew(new, old) == new

(***************************************************************************)
(* What an action does to an instance (or to any record with the fields    *)
(* step and state): a blank field of the action leaves the field as it is. *)
(***************************************************************************)
OrElse(new, old) == IF new = Blank THEN old ELSE new

Advance(instance, action) ==
  [instance EXCEPT !.step  = OrElse(action.nextStep, @),
                   !.state = OrElse(action.newState, @)]

(***************************************************************************)
(* The positions a definition can reach: the least set of positions that   *)
(* contains the initial one and that no action of the definition leaves.   *)
(* Used by properties only.                                                *)
(***************************************************************************)
InitialPosition(def) == [step |-> def.initialStep, state |-> def.initialState]

ClosedUnder(def, actionNames, P) ==
  \A p \in P, a \in actionNames :
    \A act \in GetTransitionAction(def, p.step, a) : Advance(p, act) \in P

IsReachable(def, stepNames, stateNames, actionNames, pos) ==
  \A P \in SUBSET [step : stepNames, state : stateNames] :
    (InitialPosition(def) \in P /\ ClosedUnder(def, actionNames, P)) => pos \in P

(***************************************************************************)
(* ParseWorkflowFromJSON, after json.Unmarshal: the sequence of steps of   *)
(* the file becomes a map, so of two steps with one name the later stays.  *)
(***************************************************************************)
ParseWorkflowFromJSON(config) ==
  LET listed == config.steps
      Last(n) == CHOOSE i \in DOMAIN listed :
                    /\ listed[i].name = n
                    /\ \A j \in DOMAIN listed : listed[j].name = n => j <= i
  IN  [type         |-> config.type,
       initialStep  |-> config.initialStep,
       initialState |-> config.initialState,
       steps        |-> [n \in {listed[i].name : i \in DOMAIN listed} |-> listed[Last(n)]]]

\* Mutant of ValidateWorkflowDefinition: the steps actions lead to are not looked up.
ValidateWithoutNextSteps(def) ==
  /\ def.type # Blank
  /\ def.initialStep # Blank
  /\ GetStep(def, def.initialStep) # {}
  /\ \A s \in DOMAIN def.steps :
       /\ def.steps[s].name = s
       /\ \A i \in DOMAIN def.steps[s].actions : def.steps[s].actions[i].name # Blank

(***************************************************************************)
(* ValidateWorkflowDefinition: TRUE where the code returns nil.  Nothing   *)
(* in the repository but its tests calls it; the loader registers what it  *)
(* parsed without it.                                                      *)
(***************************************************************************)
ValidateWorkflowDefinition(def) ==
  /\ def.type # Blank
  /\ def.initialStep # Blank
  /\ DOMAIN def.steps # {}
  /\ GetStep(def, def.initialStep) # {}
  /\ \A s \in DOMAIN def.steps :
       /\ def.steps[s].name # Blank
       /\ def.steps[s].name = s
       /\ \A i \in DOMAIN def.steps[s].actions :
            LET act == def.steps[s].actions[i]
            IN  /\ act.name # Blank
                /\ act.nextStep # Blank => GetStep(def, act.nextStep) # {}
=============================================================================
