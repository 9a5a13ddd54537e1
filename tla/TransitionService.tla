-------------------------- MODULE TransitionService --------------------------
(***************************************************************************)
(* The workflow service (pkg/engine/service.go) over a store that copies:  *)
(* GormStore, whose rows live in a database.  Every call of CreateInstance,*)
(* TransitionStep and FinishInstance is a request that runs concurrently   *)
(* with the others, and the steps of a call are the accesses to what the   *)
(* requests share: the rows, the transition records, the registry of       *)
(* validation functions and the event channel.  The service opens no       *)
(* database transaction and compares nothing when it writes, so whatever   *)
(* happens between the read and the write of a call is part of the model.  *)
(*                                                                         *)
(* Bounds: Requests (calls in one behaviour), MaxInFlight (calls that run  *)
(* at once), MaxCrashes (crashes of the process, which spare the database).*)
(***************************************************************************)
EXTENDS Naturals, Sequences, FiniteSets, WorkflowDefinition

CONSTANTS Requests,           \* the calls clients make
          WorkflowTypes,      \* the workflow types a caller may name
          Definitions,        \* the registered definitions, by type
          StepNames, StateNames, ActionNames,
          ValidationFuncs,    \* names a validation function can be registered under
          StartupValidations, \* those registered before serving, and never removed
          MaxInFlight, MaxCrashes

DefinitionOK(def) ==
  /\ def.initialStep \in StepNames
  /\ def.initialState \in StateNames
  /\ DOMAIN def.steps \subseteq StepNames
  /\ \A s \in DOMAIN def.steps :
       /\ def.steps[s].name \in StepNames
       /\ Len(def.steps[s].actions) \in Nat     \* a slice
       /\ DOMAIN def.steps[s].actions = 1 .. Len(def.steps[s].actions)
       /\ \A i \in DOMAIN def.steps[s].actions :
            LET act == def.steps[s].actions[i]
            IN  /\ act.nextStep \in StepNames \cup {Blank}
                /\ act.newState \in StateNames \cup {Blank}

ASSUME DefinitionsAssumption ==
  /\ DOMAIN Definitions \subseteq WorkflowTypes
  /\ \A t \in DOMAIN Definitions : DefinitionOK(Definitions[t])

\* RegisterValidation refuses the empty name (registry.go:29).
ASSUME ValidationsAssumption ==
  StartupValidations \subseteq ValidationFuncs /\ Blank \notin ValidationFuncs

ASSUME BoundsAssumption == MaxInFlight \in Nat \ {0} /\ MaxCrashes \in Nat

VARIABLES
  instances,    \* table workflow_instances: the row with id i is instances[i]
  transitions,  \* table workflow_transitions, in insertion order
  validations,  \* Registry.validations: the names registered now
  pc, frame,    \* where each request is, and its local variables
  err,          \* the error each request returned
  offered,      \* the events put to the select on eventCh, in order
  crashes,
  writes        \* history: the writes of instance rows that were committed

vars == <<instances, transitions, validations, pc, frame, err, offered, crashes, writes>>

-----------------------------------------------------------------------------
(***************************************************************************)
(* A row of workflow_instances.  FinishedAt is only ever compared with nil.*)
(***************************************************************************)
Row == [type : DOMAIN Definitions, step : StepNames, state : StateNames, finished : BOOLEAN]

InitialRow(t) == [type     |-> t,
                  step     |-> Definitions[t].initialStep,
                  state    |-> Definitions[t].initialState,
                  finished |-> FALSE]

\* The input map as the listeners return it: one that json.Marshal takes (or nil,
\* which is not marshalled at all) or one that it refuses.
InputData == {"json", "unmarshalable"}

NoFrame == [op |-> "none"]

FinishFrame == [op : {"finish"}, id : Nat, from : Row]

DefinedActions == UNION {GetTransitionAction(Definitions[t], s, a) :
                           t \in DOMAIN Definitions, s \in StepNames, a \in ActionNames}

\* "from" is the copy GetInstanceByID returned, "act" points into the definition.
TransitionFrame ==
  [op : {"transition"}, id : Nat, from : Row, action : ActionNames, stepName : StepNames,
   act : DefinedActions, input : InputData, validated : BOOLEAN]

\* Mutant of Moved: the instance is built anew and its FinishedAt forgotten.
MovedForgettingFinish(f) == [Advance(f.from, f.act) EXCEPT !.finished = FALSE]

\* The instance as TransitionStep changes it, field by field, before it is saved.
Moved(f) == Advance(f.from, f.act)

\* Errors returned before the call wrote anything.
Rejections == {"type not registered", "instance not found", "step not found",
               "action not found", "validation function not found",
               "validation failed", "before-transition listener failed"}

\* Errors returned by, or after, the first write.
WriteErrors == {"failed to create instance", "failed to update instance",
                "failed to set transition input data", "failed to create transition",
                "failed to finish instance"}

Stages == {"hasValidation", "getValidation", "emitBefore", "updateInstance",
           "createTransition", "sendEvent", "saveFinished"}
Ends == {"returned", "failed", "crashed"}

InFlight == {r \in Requests : pc[r] \in Stages}

(***************************************************************************)
(* A write of the database commits and is acknowledged, commits and then   *)
(* reports an error (the connection or the context ends first), or fails.  *)
(***************************************************************************)
WriteOutcomes == {"ok", "unacknowledged", "failed"}
Commits(outcome) == outcome # "failed"

-----------------------------------------------------------------------------
Init ==
  /\ instances = <<>>
  /\ transitions = <<>>
  /\ validations = StartupValidations
  /\ pc = [r \in Requests |-> "idle"]
  /\ frame = [r \in Requests |-> NoFrame]
  /\ err = [r \in Requests |-> "nil"]
  /\ offered = <<>>
  /\ crashes = 0
  /\ writes = <<>>

MayBegin(r) == pc[r] = "idle" /\ Cardinality(InFlight) < MaxInFlight

GoTo(r, stage) == pc' = [pc EXCEPT ![r] = stage] /\ UNCHANGED err

Fail(r, e) == pc' = [pc EXCEPT ![r] = "failed"] /\ err' = [err EXCEPT ![r] = e]

\* Mutant of Follow: the error of the store is ignored.
FollowIgnoringErrors(r, outcome, stage, e) == GoTo(r, stage)

\* What follows a write of the store: the next stage, or the wrapped error.
Follow(r, outcome, stage, e) ==
  IF outcome = "ok" THEN GoTo(r, stage) ELSE Fail(r, e)

\* Mutant of SaveColumns: one of the columns is missing from the update.
SaveColumnsButState(id, row) == [instances EXCEPT ![id].step     = row.step,
                                                  ![id].finished = row.finished]

\* GormStore.UpdateInstance writes these three columns (and updated_at) by id.
SaveColumns(id, row) == [instances EXCEPT ![id].step     = row.step,
                                          ![id].state    = row.state,
                                          ![id].finished = row.finished]

SaveInstance(r, row, outcome) ==
  IF Commits(outcome)
    THEN /\ instances' = SaveColumns(frame[r].id, row)
         /\ writes' = Append(writes, [op |-> frame[r].op, req |-> r,
                                      id |-> frame[r].id, row |-> row])
    ELSE UNCHANGED <<instances, writes>>

(***************************************************************************)
(* WorkflowService.CreateInstance: no uniqueness is enforced, neither here *)
(* nor by the schema of models.go.                                         *)
(***************************************************************************)
CreateInstanceOf(r, t) ==
  /\ MayBegin(r)
  /\ \E outcome \in WriteOutcomes :
       IF t \notin DOMAIN Definitions
         THEN Fail(r, "type not registered") /\ UNCHANGED <<instances, writes>>
         ELSE /\ Follow(r, outcome, "returned", "failed to create instance")
              /\ IF Commits(outcome)
                   THEN /\ instances' = Append(instances, InitialRow(t))
                        /\ writes' = Append(writes, [op |-> "create", req |-> r,
                                                     id |-> Len(instances) + 1,
                                                     row |-> InitialRow(t)])
                   ELSE UNCHANGED <<instances, writes>>
  /\ UNCHANGED <<transitions, validations, frame, offered, crashes>>

CreateInstance(r) == \E t \in WorkflowTypes : CreateInstanceOf(r, t)

(***************************************************************************)
(* TransitionStep up to the validation: the row is read once, and the step *)
(* and the action are looked up for the step the row was on.               *)
(***************************************************************************)
BeginTransitionOf(r, id, a) ==
  /\ MayBegin(r)
  /\ LET row   == instances[id]
         def   == Definitions[row.type]
         steps == GetStep(def, row.step)
         acts  == GetTransitionAction(def, row.step, a)
     IN  \/ /\ steps = {}
            /\ Fail(r, "step not found")
            /\ UNCHANGED frame
         \/ /\ steps # {} /\ acts = {}
            /\ Fail(r, "action not found")
            /\ UNCHANGED frame
         \/ \E step \in steps, act \in acts :
              /\ frame' = [frame EXCEPT ![r] =
                    [op |-> "transition", id |-> id, from |-> row, action |-> a,
                     stepName |-> step.name, act |-> act, input |-> "json",
                     validated |-> FALSE]]
              /\ GoTo(r, IF act.validationFunc = Blank THEN "emitBefore" ELSE "hasValidation")
  /\ UNCHANGED <<instances, transitions, validations, offered, crashes, writes>>

BeginTransition(r) ==
  \E id \in DOMAIN instances, a \in ActionNames : BeginTransitionOf(r, id, a)

\* GetInstanceByID finds no row, or the query fails: the same error for both, in
\* TransitionStep and, in other words, in FinishInstance.
BeginWithNoInstance(r) ==
  /\ MayBegin(r)
  /\ Fail(r, "instance not found")
  /\ UNCHANGED <<instances, transitions, validations, frame, offered, crashes, writes>>

\* Mutant of HasValidation: the test of registration the wrong way round.
HasValidationInverted(r) ==
  /\ pc[r] = "hasValidation"
  /\ GoTo(r, IF frame[r].act.validationFunc \notin validations
               THEN "getValidation" ELSE "emitBefore")
  /\ UNCHANGED <<instances, transitions, validations, frame, offered, crashes, writes>>

\* A function that is not registered at this moment is not required at all.
HasValidation(r) ==
  /\ pc[r] = "hasValidation"
  /\ GoTo(r, IF frame[r].act.validationFunc \in validations
               THEN "getValidation" ELSE "emitBefore")
  /\ UNCHANGED <<instances, transitions, validations, frame, offered, crashes, writes>>

\* The lock was released since HasValidation; the function's verdict is its own.
GetValidation(r) ==
  /\ pc[r] = "getValidation"
  /\ IF frame[r].act.validationFunc \notin validations
       THEN Fail(r, "validation function not found") /\ UNCHANGED frame
       ELSE \/ Fail(r, "validation failed") /\ UNCHANGED frame
            \/ GoTo(r, "emitBefore") /\ frame' = [frame EXCEPT ![r].validated = TRUE]
  /\ UNCHANGED <<instances, transitions, validations, offered, crashes, writes>>

\* Mutant of EmitBefore: the instance is saved before the listeners are asked.
EmitBeforeAfterSave(r) ==
  /\ pc[r] = "emitBefore"
  /\ SaveInstance(r, Moved(frame[r]), "ok")
  /\ \/ Fail(r, "before-transition listener failed") /\ UNCHANGED frame
     \/ \E d \in InputData :
          /\ frame' = [frame EXCEPT ![r].input = d]
          /\ GoTo(r, "updateInstance")
  /\ UNCHANGED <<transitions, validations, offered, crashes>>

(***************************************************************************)
(* emitBefore: the listeners are the application's, registered at any time;*)
(* the chain of them returns some map, or the error that blocks the call.  *)
(***************************************************************************)
EmitBefore(r) ==
  /\ pc[r] = "emitBefore"
  /\ \/ Fail(r, "before-transition listener failed") /\ UNCHANGED frame
     \/ \E d \in InputData :
          /\ frame' = [frame EXCEPT ![r].input = d]
          /\ GoTo(r, "updateInstance")
  /\ UNCHANGED <<instances, transitions, validations, offered, crashes, writes>>

UpdateInstance(r) ==
  /\ pc[r] = "updateInstance"
  /\ \E outcome \in WriteOutcomes :
       /\ SaveInstance(r, Moved(frame[r]), outcome)
       /\ Follow(r, outcome, "createTransition", "failed to update instance")
  /\ UNCHANGED <<transitions, validations, frame, offered, crashes>>

\* Mutant of TransitionRecord: the state is the one the instance came from.
TransitionRecordOfOldState(r) ==
  [req |-> r, instance |-> frame[r].id, stepName |-> frame[r].stepName,
   actionName |-> frame[r].act.name, stateName |-> frame[r].from.state]

\* The record is built from the request's own copy of the instance.
TransitionRecord(r) ==
  [req |-> r, instance |-> frame[r].id, stepName |-> frame[r].stepName,
   actionName |-> frame[r].act.name, stateName |-> Moved(frame[r]).state]

\* Mutant of CreateTransition: an insert that reported an error is tried again.
CreateTransitionWithRetry(r) ==
  /\ pc[r] = "createTransition"
  /\ \E outcome \in WriteOutcomes :
       /\ transitions' = IF Commits(outcome)
                           THEN Append(transitions, TransitionRecord(r))
                           ELSE transitions
       /\ GoTo(r, IF outcome = "ok" THEN "sendEvent" ELSE "createTransition")
  /\ UNCHANGED <<instances, validations, frame, offered, crashes, writes>>

CreateTransition(r) ==
  /\ pc[r] = "createTransition"
  /\ \/ /\ frame[r].input = "unmarshalable"
        /\ Fail(r, "failed to set transition input data")
        /\ UNCHANGED transitions
     \/ /\ frame[r].input # "unmarshalable"
        /\ \E outcome \in WriteOutcomes :
             /\ transitions' = IF Commits(outcome)
                                 THEN Append(transitions, TransitionRecord(r))
                                 ELSE transitions
             /\ Follow(r, outcome, "sendEvent", "failed to create transition")
  /\ UNCHANGED <<instances, validations, frame, offered, crashes, writes>>

TransitionEvent(r) ==
  [req |-> r, instance |-> frame[r].id, action |-> frame[r].action,
   fromStep |-> frame[r].from.step, toStep |-> Moved(frame[r]).step,
   fromState |-> frame[r].from.state, toState |-> Moved(frame[r]).state]

\* Queued or dropped (module EventDispatch), the call returns nil.
SendEvent(r) ==
  /\ pc[r] = "sendEvent"
  /\ offered' = Append(offered, TransitionEvent(r))
  /\ GoTo(r, "returned")
  /\ UNCHANGED <<instances, transitions, validations, frame, crashes, writes>>

(***************************************************************************)
(* FinishInstance saves the step and the state it read along with the new  *)
(* finished_at, and asks neither whether the instance is finished already  *)
(* nor which step it is on.                                                *)
(***************************************************************************)
BeginFinish(r) ==
  /\ MayBegin(r)
  /\ \E id \in DOMAIN instances :
       frame' = [frame EXCEPT ![r] = [op |-> "finish", id |-> id, from |-> instances[id]]]
  /\ GoTo(r, "saveFinished")
  /\ UNCHANGED <<instances, transitions, validations, offered, crashes, writes>>

SaveFinished(r) ==
  /\ pc[r] = "saveFinished"
  /\ \E outcome \in WriteOutcomes :
       /\ SaveInstance(r, [frame[r].from EXCEPT !.finished = TRUE], outcome)
       /\ Follow(r, outcome, "returned", "failed to finish instance")
  /\ UNCHANGED <<transitions, validations, frame, offered, crashes>>

(***************************************************************************)
(* The registry changes while requests run.                                *)
(***************************************************************************)
RegisterValidation(f) ==
  /\ validations' = validations \cup {f}
  /\ UNCHANGED <<instances, transitions, pc, frame, err, offered, crashes, writes>>

UnregisterValidation(f) ==
  /\ f \notin StartupValidations
  /\ validations' = validations \ {f}
  /\ UNCHANGED <<instances, transitions, pc, frame, err, offered, crashes, writes>>

\* The process dies and is started again: the calls in flight are gone, the
\* registry is what start-up makes it, the rows stay.
Crash ==
  /\ crashes < MaxCrashes
  /\ InFlight # {}
  /\ pc' = [r \in Requests |-> IF r \in InFlight THEN "crashed" ELSE pc[r]]
  /\ validations' = StartupValidations
  /\ crashes' = crashes + 1
  /\ UNCHANGED <<instances, transitions, frame, err, offered, writes>>

RequestStep(r) ==
  \/ CreateInstance(r)
  \/ BeginTransition(r)
  \/ BeginWithNoInstance(r)
  \/ HasValidation(r)
  \/ GetValidation(r)
  \/ EmitBefore(r)
  \/ UpdateInstance(r)
  \/ CreateTransition(r)
  \/ SendEvent(r)
  \/ BeginFinish(r)
  \/ SaveFinished(r)

Next ==
  \/ \E r \in Requests : RequestStep(r)
  \/ \E f \in ValidationFuncs : RegisterValidation(f) \/ UnregisterValidation(f)
  \/ Crash

Spec == Init /\ [][Next]_vars

-----------------------------------------------------------------------------
(***************************************************************************)
(* Properties.                                                             *)
(***************************************************************************)
TypeOK ==
  /\ instances \in Seq(Row)
  /\ transitions \in Seq([req : Requests, instance : Nat, stepName : StepNames,
                         actionName : ActionNames, stateName : StateNames])
  /\ validations \subseteq ValidationFuncs
  /\ pc \in [Requests -> {"idle"} \cup Stages \cup Ends]
  /\ frame \in [Requests -> {NoFrame} \cup FinishFrame \cup TransitionFrame]
  /\ err \in [Requests -> {"nil"} \cup Rejections \cup WriteErrors]
  /\ offered \in Seq([req : Requests, instance : Nat, action : ActionNames,
                      fromStep : StepNames, toStep : StepNames,
                      fromState : StateNames, toState : StateNames])
  /\ crashes \in Nat
  /\ writes \in Seq([op : {"create", "transition", "finish"}, req : Requests,
                     id : Nat, row : Row])

PositionOf(row) == [step |-> row.step, state |-> row.state]

Located(row) == [type |-> row.type, step |-> row.step, state |-> row.state]

\* (The positions are listed, rather than the set of records, so that TLC
\* evaluates the set once.)
ReachablePositions ==
  {x \in {[type |-> t, step |-> s, state |-> st] :
             t \in DOMAIN Definitions, s \in StepNames, st \in StateNames} :
     IsReachable(Definitions[x.type], StepNames, StateNames, ActionNames, PositionOf(x))}

\* A stored (step, state) pair is one the definition can lead to: stale reads,
\* overwritten writes, crashes and failed calls never mix two positions into a
\* third (service.go, TransitionStep and FinishInstance).
RowsAreReachable ==
  \A i \in DOMAIN instances : Located(instances[i]) \in ReachablePositions

\* An instance of a workflow that ValidateWorkflowDefinition accepts always
\* stands on a step of its definition, so GetStep cannot fail on it.
ValidatedWorkflowsNeverStrand ==
  \A i \in DOMAIN instances :
    LET def == Definitions[instances[i].type]
    IN  ValidateWorkflowDefinition(def) => GetStep(def, instances[i].step) # {}

\* w is what one call makes of the row that the earlier write v left.
StemsFrom(w, v) ==
  /\ v.id = w.id
  /\ \/ /\ w.op = "transition"
        /\ \E a \in ActionNames :
             \E act \in GetTransitionAction(Definitions[v.row.type], v.row.step, a) :
               w.row = Advance(v.row, act)
     \/ /\ w.op = "finish"
        /\ w.row = [v.row EXCEPT !.finished = TRUE]

\* Every write of a row is one whole call away from some earlier version of
\* that same row, perhaps not the latest; only its creation comes from nothing.
WritesStemFromThePast ==
  \A k \in DOMAIN writes :
    IF writes[k].op = "create"
      THEN /\ writes[k].row = InitialRow(writes[k].row.type)
           /\ \A j \in 1 .. k - 1 : writes[j].id # writes[k].id
      ELSE \E j \in 1 .. k - 1 : StemsFrom(writes[k], writes[j])

\* Every transition record is an edge of the definition out of a position the
\* instance can be in: its step name, its action and its state belong together.
RecordsFollowTheDefinition ==
  \A k \in DOMAIN transitions :
    /\ transitions[k].instance \in DOMAIN instances
    /\ \E p \in ReachablePositions :
         /\ p.type = instances[transitions[k].instance].type
         /\ \E step \in GetStep(Definitions[p.type], p.step) :
              step.name = transitions[k].stepName
         /\ \E act \in GetTransitionAction(Definitions[p.type], p.step,
                                           transitions[k].actionName) :
              transitions[k].stateName = Advance(p, act).state

\* A call that returns one of the errors of the checks before the write (not
\* found, validation failed, blocked by a listener) left nothing behind.
RejectionsLeaveNoTrace ==
  \A r \in Requests : err[r] \in Rejections =>
    /\ \A k \in DOMAIN writes : writes[k].req # r
    /\ \A k \in DOMAIN transitions : transitions[k].req # r
    /\ \A k \in DOMAIN offered : offered[k].req # r

\* No call writes a row, adds a record or emits an event twice, and an event
\* is preceded by its record, a record by the write it describes.
EffectsInOrderAndOnce ==
  /\ \A j, k \in DOMAIN writes : writes[j].req = writes[k].req => j = k
  /\ \A j, k \in DOMAIN transitions : transitions[j].req = transitions[k].req => j = k
  /\ \A j, k \in DOMAIN offered : offered[j].req = offered[k].req => j = k
  /\ \A k \in DOMAIN transitions : \E j \in DOMAIN writes :
       /\ writes[j].req = transitions[k].req
       /\ writes[j].id = transitions[k].instance
       /\ writes[j].row.state = transitions[k].stateName
  /\ \A k \in DOMAIN offered : \E j \in DOMAIN transitions :
       /\ transitions[j].req = offered[k].req
       /\ transitions[j].instance = offered[k].instance
       /\ transitions[j].stateName = offered[k].toState

\* A TransitionStep that returned nil has moved the row, recorded the move and
\* offered its event, and the three agree on what happened.
SuccessIsComplete ==
  \A r \in Requests : pc[r] = "returned" /\ frame[r].op = "transition" =>
    \E i \in DOMAIN writes, j \in DOMAIN transitions, k \in DOMAIN offered :
      /\ writes[i].req = r /\ writes[i].id = frame[r].id
      /\ writes[i].row = Moved(frame[r])
      /\ transitions[j] = TransitionRecord(r)
      /\ offered[k] = TransitionEvent(r)

\* A validation function registered before serving and never removed has passed
\* for every move that names it.
StartupValidationsRun ==
  \A k \in DOMAIN writes : writes[k].op = "transition" =>
    LET f == frame[writes[k].req]
    IN  f.act.validationFunc \in StartupValidations => f.validated

(***************************************************************************)
(* The strengthening the proofs of module TransitionServiceProofs need: a  *)
(* row is the outcome of a recorded write, what a call read was written    *)
(* once, a call in flight holds an action of the step it read, and it has  *)
(* done exactly what its stage says.                                       *)
(***************************************************************************)
TransitionStages == Stages \ {"saveFinished"}

HistoryInv ==
  /\ \A i \in DOMAIN instances : \E j \in DOMAIN writes :
       writes[j].id = i /\ writes[j].row = instances[i]
  /\ \A j \in DOMAIN writes :
       /\ writes[j].id \in DOMAIN instances
       /\ writes[j].row.type = instances[writes[j].id].type

FrameInv ==
  \A r \in Requests :
    /\ pc[r] \in TransitionStages =>
         /\ frame[r] \in TransitionFrame
         /\ frame[r].act \in GetTransitionAction(Definitions[frame[r].from.type],
                                                frame[r].from.step, frame[r].action)
    /\ pc[r] = "saveFinished" => frame[r] \in FinishFrame
    /\ pc[r] \in Stages => \E j \in DOMAIN writes :
         writes[j].id = frame[r].id /\ writes[j].row = frame[r].from

WritesAreReachable ==
  \A j \in DOMAIN writes : Located(writes[j].row) \in ReachablePositions

BeforeTheWrite == {"idle", "hasValidation", "getValidation", "emitBefore",
                   "updateInstance", "saveFinished"}

ProgressInv ==
  \A r \in Requests :
    /\ pc[r] \in {"idle"} \cup Stages => err[r] = "nil"
    /\ pc[r] \in BeforeTheWrite =>
         \A k \in DOMAIN writes : writes[k].req # r
    /\ pc[r] \in BeforeTheWrite \cup {"createTransition"} =>
         \A k \in DOMAIN transitions : transitions[k].req # r
    /\ pc[r] \in BeforeTheWrite \cup {"createTransition", "sendEvent"} =>
         \A k \in DOMAIN offered : offered[k].req # r

IInv ==
  /\ TypeOK
  /\ HistoryInv
  /\ FrameInv
  /\ WritesAreReachable
  /\ WritesStemFromThePast
  /\ ProgressInv
  /\ RejectionsLeaveNoTrace

(***************************************************************************)
(* With calls that do not overlap (MaxInFlight = 1) the rows are the       *)
(* machine of module WorkflowFSM, whatever fails or crashes: a call that   *)
(* died between its read and its write is one that never happened, and one *)
(* that died after the write is one that did.                              *)
(***************************************************************************)
FSM == INSTANCE WorkflowFSM

\* Every change of a row is the creation of one, one action of the definition
\* from where the row is, or its finish (service.go:98-305).
RefinesFSM == FSM!Spec

(***************************************************************************)
(* What the documentation says and the code does not do.                   *)
(***************************************************************************)

\* README.md:18 promises thread-safe operations; once a committed
\* FinishInstance is in the row, a later write keeps it finished.
FinishIsFinal ==
  \A k \in DOMAIN writes : \A j \in 1 .. k - 1 :
    writes[j].id = writes[k].id /\ writes[j].row.finished => writes[k].row.finished
=============================================================================
