----------------------------- MODULE MemoryStore -----------------------------
(***************************************************************************)
(* The workflow service over the memory store (pkg/store/memory/store.go). *)
(* The store's maps are behind a lock, but what it hands out are pointers  *)
(* to its own instances: TransitionStep reads and writes fields of the     *)
(* object that other calls read and write, without the lock and before     *)
(* UpdateInstance, which only puts the pointer back where it is.           *)
(*                                                                         *)
(* A string field is two words, pointer and length, each stored by itself: *)
(* a field is the pair of the string the pointer comes from and the string *)
(* the length comes from.  A read of two that differ is Torn.  FinishedAt  *)
(* is one word.                                                            *)
(*                                                                         *)
(* Bounds: Requests (calls in one behaviour), MaxInFlight (calls at once). *)
(***************************************************************************)
EXTENDS Naturals, Sequences, FiniteSets, WorkflowDefinition

CONSTANTS Requests, Definitions, StepNames, StateNames, ActionNames, MaxInFlight, Torn

ASSUME TornAssumption == Torn \notin StepNames \cup StateNames \cup {Blank}

\* What the files of the workflows hold, and ParseWorkflowFromJSON makes of them: the
\* steps are kept under their names.
ASSUME DefinitionsAssumption ==
  \A t \in DOMAIN Definitions :
    LET def == Definitions[t] IN
    /\ def.initialStep \in StepNames /\ def.initialState \in StateNames
    /\ DOMAIN def.steps \subseteq StepNames
    /\ \A s \in DOMAIN def.steps :
         /\ def.steps[s].name = s
         /\ \A k \in DOMAIN def.steps[s].actions :
              /\ def.steps[s].actions[k].nextStep \in StepNames \cup {Blank}
              /\ def.steps[s].actions[k].newState \in StateNames \cup {Blank}

VARIABLES
  objects,      \* Store.instances: the object with id i is objects[i]
  transitions,  \* Store.transitions, by id
  offered,      \* the events put to the select on eventCh
  pc, frame,    \* where each call is, and its local variables
  overlapped    \* history: the instances that two calls worked on at once

vars == <<objects, transitions, offered, pc, frame, overlapped>>

NoFrame == [id |-> 0]

Words(name) == <<name, name>>
Read(field) == IF field[1] = field[2] THEN field[1] ELSE Torn

Init ==
  /\ objects = <<>> /\ transitions = <<>> /\ offered = <<>>
  /\ pc = [r \in Requests |-> "idle"]
  /\ frame = [r \in Requests |-> NoFrame]
  /\ overlapped = {}

GoTo(r, stage) == pc' = [pc EXCEPT ![r] = stage]
InFlight == {r \in Requests : pc[r] \notin {"idle", "returned", "failed"}}
MayBegin(r) == pc[r] = "idle" /\ Cardinality(InFlight) < MaxInFlight

\* CreateInstance: the store keeps the caller's pointer under the next id.
CreateInstance(r) ==
  /\ MayBegin(r)
  /\ \E t \in DOMAIN Definitions :
       objects' = Append(objects, [type     |-> t,
                                   step     |-> Words(Definitions[t].initialStep),
                                   state    |-> Words(Definitions[t].initialState),
                                   finished |-> FALSE])
  /\ GoTo(r, "returned")
  /\ UNCHANGED <<transitions, offered, frame, overlapped>>

\* GetInstanceByID, and the first read of CurrentStep, for GetStep.
BeginTransition(r) ==
  /\ MayBegin(r)
  /\ \E i \in DOMAIN objects, a \in ActionNames :
       LET steps == GetStep(Definitions[objects[i].type], Read(objects[i].step))
       IN  /\ overlapped' = IF \E q \in InFlight : frame[q].id = i
                              THEN overlapped \cup {i} ELSE overlapped
           /\ \/ steps = {} /\ GoTo(r, "failed") /\ UNCHANGED frame
              \/ \E step \in steps :
                   /\ frame' = [frame EXCEPT ![r] =
                                  [id |-> i, action |-> a, stepName |-> step.name]]
                   /\ GoTo(r, "getAction")
  /\ UNCHANGED <<objects, transitions, offered>>

\* The second read of CurrentStep, for GetTransitionAction.
FindAction(r) ==
  /\ pc[r] = "getAction"
  /\ LET object == objects[frame[r].id]
         acts   == GetTransitionAction(Definitions[object.type], Read(object.step),
                                       frame[r].action)
     IN  \/ acts = {} /\ GoTo(r, "failed") /\ UNCHANGED frame
         \/ \E act \in acts : /\ frame' = [frame EXCEPT ![r] =
                                   [id |-> @.id, stepName |-> @.stepName, act |-> act]]
                              /\ GoTo(r, "checks")
  /\ UNCHANGED <<objects, transitions, offered, overlapped>>

\* The third read, for the event; validation and before listeners, with any
\* verdict, after any time.
Checks(r) ==
  /\ pc[r] = "checks"
  /\ frame' = [frame EXCEPT ![r] =
                 [id |-> @.id, stepName |-> @.stepName, act |-> @.act,
                  fromStep |-> Read(objects[@.id].step)]]
  /\ GoTo(r, "step pointer") \/ GoTo(r, "failed")
  /\ UNCHANGED <<objects, transitions, offered, overlapped>>

\* Mutant of Assigned: a blank field of the action is assigned like any other.
AssignedEvenBlank(new) == TRUE

Assigned(new) == new # Blank

\* Mutant of Store: the whole instance is built anew, without its FinishedAt.
StoreAnew(r, field, word, new, next) ==
  /\ objects' = [objects EXCEPT ![frame[r].id][field] = Words(new),
                                ![frame[r].id].finished = FALSE]
  /\ GoTo(r, next)

\* One word of a field, if the action has a value for it.
Store(r, field, word, new, next) ==
  /\ objects' = IF Assigned(new) THEN [objects EXCEPT ![frame[r].id][field][word] = new]
                                 ELSE objects
  /\ GoTo(r, next)

AssignStep(r) ==
  /\ \/ pc[r] = "step pointer" /\ Store(r, "step", 1, frame[r].act.nextStep, "step length")
     \/ pc[r] = "step length" /\ Store(r, "step", 2, frame[r].act.nextStep, "state pointer")
  /\ UNCHANGED <<transitions, offered, frame, overlapped>>

AssignState(r) ==
  /\ \/ pc[r] = "state pointer" /\ Store(r, "state", 1, frame[r].act.newState, "state length")
     \/ pc[r] = "state length" /\ Store(r, "state", 2, frame[r].act.newState, "createTransition")
  /\ UNCHANGED <<transitions, offered, frame, overlapped>>

\* Mutant of CreateTransition: the step is read anew, like the state.
CreateTransitionOfNewStep(r) ==
  /\ pc[r] = "createTransition"
  /\ transitions' = Append(transitions,
       [req |-> r, instance |-> frame[r].id, stepName |-> Read(objects[frame[r].id].step),
        act |-> frame[r].act, stateName |-> Read(objects[frame[r].id].state)])
  /\ GoTo(r, "sendEvent")
  /\ UNCHANGED <<objects, offered, frame, overlapped>>

\* UpdateInstance finds the pointer; the record reads CurrentState once more.
CreateTransition(r) ==
  /\ pc[r] = "createTransition"
  /\ transitions' = Append(transitions,
       [req |-> r, instance |-> frame[r].id, stepName |-> frame[r].stepName,
        act |-> frame[r].act, stateName |-> Read(objects[frame[r].id].state)])
  /\ GoTo(r, "sendEvent")
  /\ UNCHANGED <<objects, offered, frame, overlapped>>

SendEvent(r) ==
  /\ pc[r] = "sendEvent"
  /\ LET object == objects[frame[r].id]
     IN  offered' = Append(offered, [req |-> r, instance |-> frame[r].id,
                                     fromStep |-> frame[r].fromStep,
                                     toStep |-> Read(object.step),
                                     toState |-> Read(object.state)])
  /\ GoTo(r, "returned")
  /\ UNCHANGED <<objects, transitions, frame, overlapped>>

\* FinishInstance: one word, and an UpdateInstance that changes nothing.
FinishInstance(r) ==
  /\ MayBegin(r)
  /\ \E i \in DOMAIN objects : objects' = [objects EXCEPT ![i].finished = TRUE]
  /\ GoTo(r, "returned")
  /\ UNCHANGED <<transitions, offered, frame, overlapped>>

Next == \E r \in Requests :
  \/ CreateInstance(r) \/ BeginTransition(r) \/ FindAction(r) \/ Checks(r)
  \/ AssignStep(r) \/ AssignState(r) \/ CreateTransition(r) \/ SendEvent(r)
  \/ FinishInstance(r)

Spec == Init /\ [][Next]_vars

-----------------------------------------------------------------------------
(***************************************************************************)
(* Properties.                                                             *)
(***************************************************************************)
TypeOK ==
  /\ \A i \in DOMAIN objects :
       /\ objects[i].step \in StepNames \X StepNames
       /\ objects[i].state \in StateNames \X StateNames
       /\ objects[i].finished \in BOOLEAN
  /\ \A k \in DOMAIN transitions :
       /\ transitions[k].instance \in DOMAIN objects
       /\ transitions[k].stepName \in StepNames
       /\ transitions[k].stateName \in StateNames \cup {Torn}
  /\ \A r \in InFlight : frame[r].id \in DOMAIN objects

\* service.go:293: whatever interleaves, FinishedAt is never taken back, unlike over
\* a store that copies; moves go on after it.
FinishedStaysFinished ==
  [][\A i \in DOMAIN objects : objects[i].finished => objects'[i].finished]_vars

\* An instance as one who does not look at it while a call stores words sees it: its
\* old position until the first word is stored, the new one from then on.
Stored(i) == [type     |-> objects[i].type,
              step     |-> Read(objects[i].step),
              state    |-> Read(objects[i].state),
              finished |-> objects[i].finished]

Changing(i) == {r \in InFlight : frame[r].id = i
                                 /\ pc[r] \in {"step length", "state pointer", "state length"}}

View == [i \in DOMAIN objects |->
           IF i \notin overlapped /\ Changing(i) # {}
             THEN LET r == CHOOSE q \in Changing(i) : TRUE
                  IN  Advance([Stored(i) EXCEPT !.step = frame[r].fromStep], frame[r].act)
             ELSE Stored(i)]

FSM == INSTANCE WorkflowFSM WITH instances <- View

\* service.go:154-210 over this store: as long as no two transitions work on one
\* instance at once (on different ones they may, and FinishInstance on any), every
\* change of what View shows is one step of the abstract machine.  What a reader
\* sees of an instance between two words is not part of it.
ImplementsFSMUntilOverlap ==
  FSM!Init /\ [][overlapped' = {} => FSM!Next]_View

\* service.go:213, 232: where no calls overlapped on an instance, a record's step,
\* action and state belong together, and the event says the same.
UndisturbedCallsAgree ==
  \A k \in DOMAIN transitions :
    LET rec == transitions[k] IN
    rec.instance \notin overlapped =>
      /\ rec.act \in GetTransitionAction(Definitions[objects[rec.instance].type],
                                        rec.stepName, rec.act.name)
      /\ rec.act.newState \in {Blank, rec.stateName}
      /\ \A j \in DOMAIN offered : offered[j].req = rec.req =>
           /\ offered[j].fromStep = rec.stepName
           /\ offered[j].toStep = OrElse(rec.act.nextStep, rec.stepName)
           /\ offered[j].toState = rec.stateName
=============================================================================
