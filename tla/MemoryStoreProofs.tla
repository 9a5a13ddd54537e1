-------------------------- MODULE MemoryStoreProofs --------------------------
(***************************************************************************)
(* Proofs about the service over the memory store (store/memory/store.go): *)
(* for every set of definitions, however many calls run and however their  *)
(* word-by-word reads and writes of the shared instances interleave.       *)
(* FinishedAt is never taken back; and on an instance on which no two      *)
(* transitions overlapped, record, event and row agree and every change    *)
(* one can see is a step of the abstract machine.                          *)
(***************************************************************************)
EXTENDS MemoryStore, TLAPS

Object == [type : DOMAIN Definitions, step : StepNames \X StepNames,
           state : StateNames \X StateNames, finished : BOOLEAN]

Actions == UNION {GetTransitionAction(Definitions[t], s, a) :
                    t \in DOMAIN Definitions, s \in StepNames, a \in ActionNames}

Record == [req : Requests, instance : Nat, stepName : StepNames, act : Actions,
           stateName : StateNames \cup {Torn}]

Event == [req : Requests, instance : Nat, fromStep : StepNames \cup {Torn},
          toStep : StepNames \cup {Torn}, toState : StateNames \cup {Torn}]

Ended == {"idle", "returned", "failed"}

\* The local variables a call has at each of its stages.
FrameOK(f, stage) ==
  /\ f.id \in DOMAIN objects /\ f.stepName \in StepNames
  /\ stage = "getAction" => f.action \in ActionNames
  /\ stage # "getAction" => f.act \in Actions
  /\ stage \notin {"getAction", "checks"} => f.fromStep \in StepNames \cup {Torn}

Typed ==
  /\ objects \in Seq(Object)
  /\ transitions \in Seq(Record)
  /\ offered \in Seq(Event)
  /\ DOMAIN pc = Requests /\ DOMAIN frame = Requests
  /\ \A r \in InFlight : FrameOK(frame[r], pc[r])
  /\ \A k \in DOMAIN transitions : transitions[k].instance \in DOMAIN objects

-----------------------------------------------------------------------------
(* Facts about the data. *)

LEMMA AppendFacts ==
  ASSUME NEW S, NEW s \in Seq(S), NEW x \in S
  PROVE  /\ Append(s, x) \in Seq(S)
         /\ Len(s) \in Nat /\ Len(s) + 1 \in DOMAIN Append(s, x)
         /\ Append(s, x)[Len(s) + 1] = x /\ Len(s) + 1 \notin DOMAIN s
         /\ \A i \in DOMAIN s : i \in DOMAIN Append(s, x) /\ Append(s, x)[i] = s[i]
         /\ \A i \in DOMAIN Append(s, x) : i \in DOMAIN s \/ i = Len(s) + 1
  OBVIOUS

LEMMA EmptyIsASequence == ASSUME NEW S PROVE <<>> \in Seq(S)
  OBVIOUS

\* Replacing an element of a sequence.
LEMMA ExceptFacts ==
  ASSUME NEW S, NEW s \in Seq(S), NEW i \in DOMAIN s, NEW x \in S
  PROVE  /\ [s EXCEPT ![i] = x] \in Seq(S)
         /\ DOMAIN [s EXCEPT ![i] = x] = DOMAIN s
         /\ [s EXCEPT ![i] = x][i] = x
         /\ \A j \in DOMAIN s : j # i => [s EXCEPT ![i] = x][j] = s[j]
  OBVIOUS

LEMMA ReadTyped ==
  ASSUME NEW S, NEW field \in S \X S
  PROVE  Read(field) \in S \cup {Torn}
  BY DEF Read

\* The action a lookup finds is the one it would find under the action's own name.
LEMMA FoundAction ==
  ASSUME NEW t \in DOMAIN Definitions, NEW s, NEW a,
         NEW act \in GetTransitionAction(Definitions[t], s, a)
  PROVE  /\ act.name = a
         /\ act \in GetTransitionAction(Definitions[t], s, act.name)
         /\ s \in StepNames
         /\ act.nextStep \in StepNames \cup {Blank}
         /\ act.newState \in StateNames \cup {Blank}
  <1>1. PICK step \in GetStep(Definitions[t], s) : act \in FirstNamed(step.actions, a)
    BY DEF GetTransitionAction
  <1>2. s \in DOMAIN Definitions[t].steps /\ step = Definitions[t].steps[s]
    BY <1>1 DEF GetStep
  <1>3. PICK k \in DOMAIN step.actions : act = step.actions[k] /\ step.actions[k].name = a
    BY <1>1 DEF FirstNamed
  <1> QED
    BY <1>2, <1>3, DefinitionsAssumption

LEMMA ActionTyped ==
  ASSUME NEW act \in Actions
  PROVE  /\ act.name \in ActionNames
         /\ act.nextStep \in StepNames \cup {Blank}
         /\ act.newState \in StateNames \cup {Blank}
  <1>1. PICK t \in DOMAIN Definitions, s \in StepNames, a \in ActionNames :
          act \in GetTransitionAction(Definitions[t], s, a)
    BY DEF Actions
  <1> QED
    BY <1>1, FoundAction

LEMMA StepTyped ==
  ASSUME NEW t \in DOMAIN Definitions, NEW s, NEW step \in GetStep(Definitions[t], s)
  PROVE  step.name = s /\ s \in StepNames
  BY DefinitionsAssumption DEF GetStep

LEMMA ObjectTyped ==
  ASSUME NEW o \in Object
  PROVE  /\ o.type \in DOMAIN Definitions
         /\ o.step \in StepNames \X StepNames /\ o.state \in StateNames \X StateNames
         /\ o.finished \in BOOLEAN
         /\ Read(o.step) \in StepNames \cup {Torn}
         /\ Read(o.state) \in StateNames \cup {Torn}
  <1>1. o.step \in StepNames \X StepNames /\ o.state \in StateNames \X StateNames
    BY DEF Object
  <1> QED
    BY <1>1, ReadTyped DEF Object

\* Who is in flight after a call has gone to another stage.
LEMMA GoneTo ==
  ASSUME NEW r \in Requests, NEW stage, GoTo(r, stage), DOMAIN pc = Requests
  PROVE  /\ DOMAIN pc' = Requests /\ pc'[r] = stage
         /\ \A q \in Requests : q # r => pc'[q] = pc[q]
         /\ \A q \in InFlight' : q = r \/ q \in InFlight
         /\ \A q \in InFlight : q = r \/ q \in InFlight'
         /\ r \in InFlight' <=> stage \notin Ended
  BY DEF GoTo, InFlight, Ended

\* Storing one word of a field.
StepWord(o, w, new) == [o EXCEPT !["step"][w] = new]

LEMMA StoreStepWord ==
  ASSUME NEW o \in Object, NEW w \in {1, 2}, NEW new \in StepNames
  PROVE  /\ StepWord(o, w, new) \in Object
         /\ StepWord(o, w, new).step = [o.step EXCEPT ![w] = new]
         /\ StepWord(o, w, new).type = o.type
         /\ StepWord(o, w, new).state = o.state
         /\ StepWord(o, w, new).finished = o.finished
  <1>1. [o.step EXCEPT ![w] = new] \in StepNames \X StepNames
    BY DEF Object
  <1> QED
    BY <1>1 DEF Object, StepWord

StateWord(o, w, new) == [o EXCEPT !["state"][w] = new]

LEMMA StoreStateWord ==
  ASSUME NEW o \in Object, NEW w \in {1, 2}, NEW new \in StateNames
  PROVE  /\ StateWord(o, w, new) \in Object
         /\ StateWord(o, w, new).state = [o.state EXCEPT ![w] = new]
         /\ StateWord(o, w, new).type = o.type
         /\ StateWord(o, w, new).step = o.step
         /\ StateWord(o, w, new).finished = o.finished
  <1>1. [o.state EXCEPT ![w] = new] \in StateNames \X StateNames
    BY DEF Object
  <1> QED
    BY <1>1 DEF Object, StateWord

-----------------------------------------------------------------------------
(* What the actions do to the instances. *)

\* Nothing happens to instance i but to its field step, or to its field state.
OnlyStepOf(i) ==
  /\ objects' \in Seq(Object) /\ DOMAIN objects' = DOMAIN objects
  /\ \A j \in DOMAIN objects : j # i => objects'[j] = objects[j]
  /\ objects'[i].type = objects[i].type /\ objects'[i].state = objects[i].state
  /\ objects'[i].finished = objects[i].finished

OnlyStateOf(i) ==
  /\ objects' \in Seq(Object) /\ DOMAIN objects' = DOMAIN objects
  /\ \A j \in DOMAIN objects : j # i => objects'[j] = objects[j]
  /\ objects'[i].type = objects[i].type /\ objects'[i].step = objects[i].step
  /\ objects'[i].finished = objects[i].finished

LEMMA StoreStep ==
  ASSUME Typed, NEW r \in InFlight, NEW w \in {1, 2}, NEW new \in StepNames \cup {Blank},
         NEW next, Store(r, "step", w, new, next)
  PROVE  /\ OnlyStepOf(frame[r].id)
         /\ objects'[frame[r].id].step =
              IF new = Blank THEN objects[frame[r].id].step
                             ELSE [objects[frame[r].id].step EXCEPT ![w] = new]
  <1> DEFINE i == frame[r].id
             o == StepWord(objects[i], w, new)
  <1>1. objects \in Seq(Object) /\ i \in DOMAIN objects /\ objects[i] \in Object
    BY DEF Typed, FrameOK
  <1>2. CASE new = Blank
    <2>1. objects' = objects
      BY <1>2 DEF Store, Assigned
    <2> QED
      BY <1>1, <1>2, <2>1 DEF OnlyStepOf
  <1>3. CASE new # Blank
    <2>1. objects' = [objects EXCEPT ![i] = o]
      BY <1>3 DEF Store, Assigned, StepWord
    <2>2. /\ o \in Object /\ o.step = [objects[i].step EXCEPT ![w] = new]
          /\ o.type = objects[i].type /\ o.state = objects[i].state
          /\ o.finished = objects[i].finished
      <3>1. new \in StepNames
        BY <1>3
      <3> HIDE DEF i
      <3> QED
        BY <1>1, <3>1, StoreStepWord
    <2> HIDE DEF i, o
    <2>3. /\ objects' \in Seq(Object) /\ DOMAIN objects' = DOMAIN objects
          /\ objects'[i] = o /\ \A j \in DOMAIN objects : j # i => objects'[j] = objects[j]
      BY <1>1, <2>1, <2>2, ExceptFacts
    <2>4. OnlyStepOf(i)
      BY <2>2, <2>3 DEF OnlyStepOf
    <2> QED
      BY <1>3, <2>2, <2>3, <2>4 DEF i
  <1> QED
    BY <1>2, <1>3

LEMMA StoreState ==
  ASSUME Typed, NEW r \in InFlight, NEW w \in {1, 2}, NEW new \in StateNames \cup {Blank},
         NEW next, Store(r, "state", w, new, next)
  PROVE  /\ OnlyStateOf(frame[r].id)
         /\ objects'[frame[r].id].state =
              IF new = Blank THEN objects[frame[r].id].state
                             ELSE [objects[frame[r].id].state EXCEPT ![w] = new]
  <1> DEFINE i == frame[r].id
             o == StateWord(objects[i], w, new)
  <1>1. objects \in Seq(Object) /\ i \in DOMAIN objects /\ objects[i] \in Object
    BY DEF Typed, FrameOK
  <1>2. CASE new = Blank
    <2>1. objects' = objects
      BY <1>2 DEF Store, Assigned
    <2> QED
      BY <1>1, <1>2, <2>1 DEF OnlyStateOf
  <1>3. CASE new # Blank
    <2>1. objects' = [objects EXCEPT ![i] = o]
      BY <1>3 DEF Store, Assigned, StateWord
    <2>2. /\ o \in Object /\ o.state = [objects[i].state EXCEPT ![w] = new]
          /\ o.type = objects[i].type /\ o.step = objects[i].step
          /\ o.finished = objects[i].finished
      <3>1. new \in StateNames
        BY <1>3
      <3> HIDE DEF i
      <3> QED
        BY <1>1, <3>1, StoreStateWord
    <2> HIDE DEF i, o
    <2>3. /\ objects' \in Seq(Object) /\ DOMAIN objects' = DOMAIN objects
          /\ objects'[i] = o /\ \A j \in DOMAIN objects : j # i => objects'[j] = objects[j]
      BY <1>1, <2>1, <2>2, ExceptFacts
    <2>4. OnlyStateOf(i)
      BY <2>2, <2>3 DEF OnlyStateOf
    <2> QED
      BY <1>3, <2>2, <2>3, <2>4 DEF i
  <1> QED
    BY <1>2, <1>3

LEMMA Finishing ==
  ASSUME Typed, NEW i \in DOMAIN objects, objects' = [objects EXCEPT ![i].finished = TRUE]
  PROVE  /\ objects' \in Seq(Object) /\ DOMAIN objects' = DOMAIN objects
         /\ objects'[i] = [objects[i] EXCEPT !.finished = TRUE]
         /\ \A j \in DOMAIN objects : j # i => objects'[j] = objects[j]
         /\ \A j \in DOMAIN objects : /\ objects'[j].type = objects[j].type
                                      /\ objects'[j].step = objects[j].step
                                      /\ objects'[j].state = objects[j].state
                                      /\ objects[j].finished => objects'[j].finished
  <1> DEFINE o == [objects[i] EXCEPT !.finished = TRUE]
  <1>1. objects \in Seq(Object) /\ objects[i] \in Object
    BY DEF Typed
  <1>2. /\ o \in Object /\ o.type = objects[i].type /\ o.step = objects[i].step
        /\ o.state = objects[i].state /\ o.finished
    BY <1>1 DEF Object
  <1>3. objects' = [objects EXCEPT ![i] = o]
    OBVIOUS
  <1> HIDE DEF o
  <1> DEFINE os == [objects EXCEPT ![i] = o]
  <1>4. /\ os \in Seq(Object) /\ DOMAIN os = DOMAIN objects
        /\ os[i] = o /\ \A j \in DOMAIN objects : j # i => os[j] = objects[j]
    <2>1. o \in Object
      BY <1>2
    <2> QED
      BY <1>1, <2>1, ExceptFacts
  <1> HIDE DEF os
  <1>5. objects' = os
    BY <1>3 DEF os
  <1> QED
    BY <1>2, <1>4, <1>5 DEF o

Created(t) == [type     |-> t,
               step     |-> Words(Definitions[t].initialStep),
               state    |-> Words(Definitions[t].initialState),
               finished |-> FALSE]

LEMMA Creating ==
  ASSUME Typed, NEW t \in DOMAIN Definitions, objects' = Append(objects, Created(t))
  PROVE  /\ Created(t) \in Object
         /\ objects' \in Seq(Object)
         /\ Len(objects) \in Nat /\ Len(objects) + 1 \in DOMAIN objects'
         /\ Len(objects) + 1 \notin DOMAIN objects
         /\ objects'[Len(objects) + 1] = Created(t)
         /\ \A i \in DOMAIN objects : i \in DOMAIN objects' /\ objects'[i] = objects[i]
         /\ \A i \in DOMAIN objects' : i \in DOMAIN objects \/ i = Len(objects) + 1
  <1>1. Created(t) \in Object
    BY DefinitionsAssumption DEF Created, Object, Words
  <1> QED
    BY <1>1, AppendFacts DEF Typed

-----------------------------------------------------------------------------
(* Types. *)

\* A call goes to another stage; the instances and the frames of the others remain.
LEMMA StageTyped ==
  ASSUME Typed, NEW r \in Requests, NEW stage, GoTo(r, stage),
         objects' \in Seq(Object), \A i \in DOMAIN objects : i \in DOMAIN objects',
         transitions' \in Seq(Record), offered' \in Seq(Event),
         \A k \in DOMAIN transitions' : transitions'[k].instance \in DOMAIN objects',
         DOMAIN frame' = Requests, \A q \in Requests : q # r => frame'[q] = frame[q],
         stage \notin Ended => FrameOK(frame[r], stage)' 
  PROVE  Typed'
  <1>1. /\ DOMAIN pc' = Requests /\ pc'[r] = stage
        /\ \A q \in Requests : q # r => pc'[q] = pc[q]
        /\ \A q \in InFlight' : q = r \/ q \in InFlight
        /\ r \in InFlight' <=> stage \notin Ended
    BY GoneTo DEF Typed
  <1>2. ASSUME NEW q \in InFlight' PROVE FrameOK(frame[q], pc[q])'
    <2>1. CASE q = r
      BY <1>1, <1>2, <2>1 DEF FrameOK
    <2>2. CASE q # r
      <3>1. q \in InFlight /\ q \in Requests /\ pc'[q] = pc[q] /\ frame'[q] = frame[q]
        BY <1>1, <2>2 DEF InFlight
      <3>2. FrameOK(frame[q], pc[q])
        BY <3>1 DEF Typed
      <3> QED
        BY <3>1, <3>2 DEF FrameOK
    <2> QED
      BY <2>1, <2>2
  <1> QED
    BY <1>1, <1>2 DEF Typed

\* The call that takes a step, as it was before.
LEMMA Acting ==
  ASSUME Typed, NEW r \in Requests, pc[r] \notin Ended
  PROVE  /\ r \in InFlight /\ FrameOK(frame[r], pc[r]) /\ frame[r].id \in DOMAIN objects
         /\ objects[frame[r].id] \in Object
  <1>1. r \in InFlight
    BY DEF InFlight, Ended
  <1>2. FrameOK(frame[r], pc[r])
    BY <1>1 DEF Typed
  <1> QED
    BY <1>1, <1>2 DEF Typed, FrameOK

LEMMA RecordsInstances ==
  ASSUME Typed, UNCHANGED transitions, \A i \in DOMAIN objects : i \in DOMAIN objects'
  PROVE  /\ transitions' \in Seq(Record)
         /\ \A k \in DOMAIN transitions' : transitions'[k].instance \in DOMAIN objects'
  BY DEF Typed

LEMMA CreateInstanceTyped ==
  ASSUME Typed, NEW r \in Requests, CreateInstance(r) PROVE Typed'
  <1>1. PICK t \in DOMAIN Definitions : objects' = Append(objects, Created(t))
    BY DEF CreateInstance, Created
  <1>2. objects' \in Seq(Object) /\ \A i \in DOMAIN objects : i \in DOMAIN objects'
    BY <1>1, Creating
  <1>3. /\ UNCHANGED <<transitions, offered, frame>> /\ GoTo(r, "returned")
    BY DEF CreateInstance
  <1> QED
    BY <1>2, <1>3, StageTyped, RecordsInstances DEF Typed, Ended

LEMMA FinishInstanceTyped ==
  ASSUME Typed, NEW r \in Requests, FinishInstance(r) PROVE Typed'
  <1>1. PICK i \in DOMAIN objects : objects' = [objects EXCEPT ![i].finished = TRUE]
    BY DEF FinishInstance
  <1>2. objects' \in Seq(Object) /\ DOMAIN objects' = DOMAIN objects
    BY <1>1, Finishing
  <1>3. /\ UNCHANGED <<transitions, offered, frame>> /\ GoTo(r, "returned")
    BY DEF FinishInstance
  <1> QED
    BY <1>2, <1>3, StageTyped, RecordsInstances DEF Typed, Ended

LEMMA BeginTransitionTyped ==
  ASSUME Typed, NEW r \in Requests, BeginTransition(r) PROVE Typed'
  <1>1. UNCHANGED <<objects, transitions, offered>>
    BY DEF BeginTransition
  <1>2. PICK i \in DOMAIN objects, a \in ActionNames :
          \/ GoTo(r, "failed") /\ UNCHANGED frame
          \/ \E step \in GetStep(Definitions[objects[i].type], Read(objects[i].step)) :
               /\ frame' = [frame EXCEPT ![r] = [id |-> i, action |-> a, stepName |-> step.name]]
               /\ GoTo(r, "getAction")
    BY DEF BeginTransition
  <1>3. CASE GoTo(r, "failed") /\ UNCHANGED frame
    BY <1>1, <1>3, StageTyped, RecordsInstances DEF Typed, Ended
  <1>4. ASSUME NEW step \in GetStep(Definitions[objects[i].type], Read(objects[i].step)),
               frame' = [frame EXCEPT ![r] = [id |-> i, action |-> a, stepName |-> step.name]],
               GoTo(r, "getAction")
        PROVE  Typed'
    <2>1. objects[i].type \in DOMAIN Definitions
      BY ObjectTyped DEF Typed
    <2>2. step.name \in StepNames
      BY <2>1, StepTyped
    <2>3. /\ DOMAIN frame' = Requests /\ \A q \in Requests : q # r => frame'[q] = frame[q]
          /\ frame'[r] = [id |-> i, action |-> a, stepName |-> step.name]
      BY <1>4 DEF Typed
    <2>4. FrameOK(frame[r], "getAction")'
      BY <1>1, <2>2, <2>3 DEF FrameOK
    <2> QED
      BY <1>1, <1>4, <2>3, <2>4, StageTyped, RecordsInstances DEF Typed
  <1> QED
    BY <1>2, <1>3, <1>4

LEMMA FindActionTyped ==
  ASSUME Typed, NEW r \in Requests, FindAction(r) PROVE Typed'
  <1> DEFINE o == objects[frame[r].id]
             acts == GetTransitionAction(Definitions[o.type], Read(o.step), frame[r].action)
  <1>1. UNCHANGED <<objects, transitions, offered>> /\ pc[r] = "getAction"
    BY DEF FindAction
  <1>2. \/ GoTo(r, "failed") /\ UNCHANGED frame
        \/ \E act \in acts :
             /\ frame' = [frame EXCEPT ![r] = [id |-> frame[r].id, stepName |-> frame[r].stepName,
                                               act |-> act]]
             /\ GoTo(r, "checks")
    BY DEF FindAction
  <1>3. CASE GoTo(r, "failed") /\ UNCHANGED frame
    BY <1>1, <1>3, StageTyped, RecordsInstances DEF Typed, Ended
  <1>4. ASSUME NEW act \in acts, GoTo(r, "checks"),
               frame' = [frame EXCEPT ![r] = [id |-> frame[r].id, stepName |-> frame[r].stepName,
                                              act |-> act]]
        PROVE  Typed'
    <2>1. FrameOK(frame[r], pc[r]) /\ o \in Object
      BY <1>1, Acting DEF Ended
    <2>2. act \in Actions
      <3>1. o.type \in DOMAIN Definitions /\ frame[r].action \in ActionNames
        BY <1>1, <2>1, ObjectTyped DEF FrameOK
      <3>2. Read(o.step) \in StepNames
        BY <1>4, <3>1, FoundAction
      <3> QED
        BY <1>4, <3>1, <3>2 DEF Actions
    <2>3. /\ DOMAIN frame' = Requests /\ \A q \in Requests : q # r => frame'[q] = frame[q]
          /\ frame'[r] = [id |-> frame[r].id, stepName |-> frame[r].stepName, act |-> act]
      BY <1>4 DEF Typed
    <2>4. FrameOK(frame[r], "checks")'
      BY <1>1, <2>1, <2>2, <2>3 DEF FrameOK
    <2> QED
      BY <1>1, <1>4, <2>3, <2>4, StageTyped, RecordsInstances DEF Typed
  <1> QED
    BY <1>2, <1>3, <1>4

LEMMA ChecksTyped ==
  ASSUME Typed, NEW r \in Requests, Checks(r) PROVE Typed'
  <1>1. UNCHANGED <<objects, transitions, offered>> /\ pc[r] = "checks"
    BY DEF Checks
  <1>2. FrameOK(frame[r], pc[r]) /\ objects[frame[r].id] \in Object
    BY <1>1, Acting DEF Ended
  <1>3. /\ DOMAIN frame' = Requests /\ \A q \in Requests : q # r => frame'[q] = frame[q]
        /\ frame'[r] = [id |-> frame[r].id, stepName |-> frame[r].stepName,
                        act |-> frame[r].act, fromStep |-> Read(objects[frame[r].id].step)]
    BY DEF Checks, Typed
  <1>4. Read(objects[frame[r].id].step) \in StepNames \cup {Torn}
    BY <1>2, ObjectTyped
  <1>5. FrameOK(frame[r], "step pointer")'
    BY <1>1, <1>2, <1>3, <1>4 DEF FrameOK
  <1>6. GoTo(r, "step pointer") \/ GoTo(r, "failed")
    BY DEF Checks
  <1> QED
    BY <1>1, <1>3, <1>5, <1>6, StageTyped, RecordsInstances DEF Typed, Ended

LEMMA AssignTyped ==
  ASSUME Typed, NEW r \in Requests, AssignStep(r) \/ AssignState(r)
  PROVE  /\ Typed'
         /\ AssignStep(r) => OnlyStepOf(frame[r].id)
         /\ AssignState(r) => OnlyStateOf(frame[r].id)
  <1>1. /\ UNCHANGED <<transitions, offered, frame>>
        /\ pc[r] \in {"step pointer", "step length", "state pointer", "state length"}
    BY DEF AssignStep, AssignState
  <1>2. /\ r \in InFlight /\ FrameOK(frame[r], pc[r])
    BY <1>1, Acting DEF Ended
  <1>3. /\ frame[r].act \in Actions
        /\ frame[r].act.nextStep \in StepNames \cup {Blank}
        /\ frame[r].act.newState \in StateNames \cup {Blank}
    BY <1>1, <1>2, ActionTyped DEF FrameOK
  <1>4. ASSUME AssignStep(r)
        PROVE  /\ OnlyStepOf(frame[r].id)
               /\ GoTo(r, "step length") \/ GoTo(r, "state pointer")
    <2>1. GoTo(r, "step length") \/ GoTo(r, "state pointer")
      BY <1>4 DEF AssignStep, Store
    <2>2. \/ Store(r, "step", 1, frame[r].act.nextStep, "step length")
          \/ Store(r, "step", 2, frame[r].act.nextStep, "state pointer")
      BY <1>4 DEF AssignStep
    <2> QED
      BY <1>2, <1>3, <2>1, <2>2, StoreStep
  <1>5. ASSUME AssignState(r)
        PROVE  /\ OnlyStateOf(frame[r].id)
               /\ GoTo(r, "state length") \/ GoTo(r, "createTransition")
    <2>1. GoTo(r, "state length") \/ GoTo(r, "createTransition")
      BY <1>5 DEF AssignState, Store
    <2>2. \/ Store(r, "state", 1, frame[r].act.newState, "state length")
          \/ Store(r, "state", 2, frame[r].act.newState, "createTransition")
      BY <1>5 DEF AssignState
    <2> QED
      BY <1>2, <1>3, <2>1, <2>2, StoreState
  <1>6. objects' \in Seq(Object) /\ DOMAIN objects' = DOMAIN objects
    BY <1>4, <1>5 DEF OnlyStepOf, OnlyStateOf
  <1>7. PICK stage \in {"step length", "state pointer", "state length", "createTransition"} :
          GoTo(r, stage)
    BY <1>4, <1>5
  <1>8. FrameOK(frame[r], stage)'
    BY <1>1, <1>2, <1>6 DEF FrameOK
  <1>9. Typed'
    BY <1>1, <1>6, <1>7, <1>8, StageTyped, RecordsInstances DEF Typed
  <1> QED
    BY <1>4, <1>5, <1>9

LEMMA CreateTransitionTyped ==
  ASSUME Typed, NEW r \in Requests, CreateTransition(r) PROVE Typed'
  <1> DEFINE rec == [req |-> r, instance |-> frame[r].id, stepName |-> frame[r].stepName,
                     act |-> frame[r].act, stateName |-> Read(objects[frame[r].id].state)]
  <1>1. /\ UNCHANGED <<objects, offered, frame>> /\ pc[r] = "createTransition"
        /\ GoTo(r, "sendEvent") /\ transitions' = Append(transitions, rec)
    BY DEF CreateTransition
  <1>2. FrameOK(frame[r], pc[r]) /\ objects[frame[r].id] \in Object
    BY <1>1, Acting DEF Ended
  <1>3. Read(objects[frame[r].id].state) \in StateNames \cup {Torn}
    BY <1>2, ObjectTyped
  <1>4. rec \in Record /\ rec.instance \in DOMAIN objects
    BY <1>1, <1>2, <1>3 DEF Record, FrameOK, Typed
  <1>5. FrameOK(frame[r], "sendEvent")'
    BY <1>1, <1>2 DEF FrameOK
  <1> HIDE DEF rec
  <1>6. /\ transitions' \in Seq(Record)
        /\ \A k \in DOMAIN transitions' : transitions'[k].instance \in DOMAIN objects'
    BY <1>1, <1>4, AppendFacts DEF Typed
  <1> QED
    BY <1>1, <1>5, <1>6, StageTyped DEF Typed

LEMMA SendEventTyped ==
  ASSUME Typed, NEW r \in Requests, SendEvent(r) PROVE Typed'
  <1> DEFINE o == objects[frame[r].id]
             ev == [req |-> r, instance |-> frame[r].id, fromStep |-> frame[r].fromStep,
                    toStep |-> Read(o.step), toState |-> Read(o.state)]
  <1>1. /\ UNCHANGED <<objects, transitions, frame>> /\ pc[r] = "sendEvent"
        /\ GoTo(r, "returned") /\ offered' = Append(offered, ev)
    BY DEF SendEvent
  <1>2. FrameOK(frame[r], pc[r]) /\ o \in Object
    BY <1>1, Acting DEF Ended
  <1>3. Read(o.step) \in StepNames \cup {Torn} /\ Read(o.state) \in StateNames \cup {Torn}
    BY <1>2, ObjectTyped
  <1>4. ev \in Event
    BY <1>1, <1>2, <1>3 DEF Event, FrameOK, Typed
  <1> HIDE DEF ev
  <1>5. offered' \in Seq(Event)
    BY <1>1, <1>4, AppendFacts DEF Typed
  <1> QED
    BY <1>1, <1>5, StageTyped, RecordsInstances DEF Typed, Ended

LEMMA NextTyped == Typed /\ [Next]_vars => Typed'
  <1> SUFFICES ASSUME Typed, [Next]_vars PROVE Typed'
    OBVIOUS
  <1>1. CASE UNCHANGED vars
    BY <1>1 DEF vars, Typed, InFlight, FrameOK
  <1>2. CASE Next
    BY <1>2, CreateInstanceTyped, BeginTransitionTyped, FindActionTyped, ChecksTyped,
       AssignTyped, CreateTransitionTyped, SendEventTyped, FinishInstanceTyped DEF Next
  <1> QED
    BY <1>1, <1>2

LEMMA AlwaysTyped == Spec => []Typed
  <1>1. Init => Typed
    BY EmptyIsASequence DEF Init, Typed, InFlight
  <1> QED
    BY <1>1, NextTyped, PTL DEF Spec

\* However torn a read may be, what is stored are words of names: a record's step is a
\* step of the definition, its state a state or a mixture that never was one.
THEOREM MemoryTypeCorrect == Spec => []TypeOK
  <1>1. Typed => TypeOK
    <2> SUFFICES ASSUME Typed PROVE TypeOK
      OBVIOUS
    <2>1. \A i \in DOMAIN objects : objects[i] \in Object
      BY DEF Typed
    <2>2. \A k \in DOMAIN transitions : transitions[k] \in Record
      BY DEF Typed
    <2>3. ASSUME NEW i \in DOMAIN objects
          PROVE  /\ objects[i].step \in StepNames \X StepNames
                 /\ objects[i].state \in StateNames \X StateNames
                 /\ objects[i].finished \in BOOLEAN
      BY <2>1, ObjectTyped
    <2>4. ASSUME NEW k \in DOMAIN transitions
          PROVE  /\ transitions[k].instance \in DOMAIN objects
                 /\ transitions[k].stepName \in StepNames
                 /\ transitions[k].stateName \in StateNames \cup {Torn}
      BY <2>2 DEF Typed, Record
    <2> QED
      BY <2>3, <2>4 DEF TypeOK, Typed, FrameOK
  <1> QED
    BY <1>1, AlwaysTyped, PTL

Kept == \A i \in DOMAIN objects : objects[i].finished => objects'[i].finished

LEMMA FinishedKept == Typed /\ [Next]_vars => Kept
  <1> SUFFICES ASSUME Typed, [Next]_vars PROVE Kept
    OBVIOUS
  <1>1. ASSUME NEW r \in Requests, CreateInstance(r) PROVE Kept
    <2>1. PICK t \in DOMAIN Definitions : objects' = Append(objects, Created(t))
      BY <1>1 DEF CreateInstance, Created
    <2> QED
      BY <1>1, <2>1, Creating DEF Kept
  <1>2. ASSUME NEW r \in Requests, FinishInstance(r) PROVE Kept
    BY <1>2, Finishing DEF FinishInstance, Kept
  <1>3. ASSUME NEW r \in Requests, AssignStep(r) \/ AssignState(r) PROVE Kept
    <2>1. OnlyStepOf(frame[r].id) \/ OnlyStateOf(frame[r].id)
      BY <1>3, AssignTyped
    <2> QED
      BY <2>1 DEF OnlyStepOf, OnlyStateOf, Kept
  <1>4. CASE UNCHANGED objects
    BY <1>4 DEF Kept
  <1>5. CASE UNCHANGED vars
    BY <1>4, <1>5 DEF vars
  <1>6. ASSUME NEW r \in Requests,
               \/ BeginTransition(r) \/ FindAction(r) \/ Checks(r)
               \/ CreateTransition(r) \/ SendEvent(r)
        PROVE  Kept
    BY <1>4, <1>6 DEF BeginTransition, FindAction, Checks, CreateTransition, SendEvent
  <1> QED
    BY <1>1, <1>2, <1>3, <1>5, <1>6 DEF Next

\* FinishedAt, once set, stays set, through every transition that is under way
\* (service.go:293): the store hands out its own instances, and copies none back.
THEOREM FinishedForGood == Spec => FinishedStaysFinished
  <1>1. Spec => [][Kept]_vars
    BY FinishedKept, AlwaysTyped, PTL DEF Spec
  <1> QED
    BY <1>1 DEF FinishedStaysFinished, Kept

-----------------------------------------------------------------------------
(* A call that nobody disturbs. *)

Target(f) == OrElse(f.act.nextStep, f.stepName)

Found(o, f) ==
  f.act \in GetTransitionAction(Definitions[o.type], f.stepName, f.act.name)

\* The words of instance o as far as a call that is alone on it has stored them.
InStep(o, f, stage) ==
  /\ stage \in {"getAction", "checks", "step pointer"} => o.step = Words(f.stepName)
  /\ stage = "step length" => o.step = <<Target(f), f.stepName>>
  /\ stage \in {"state pointer", "state length", "createTransition", "sendEvent"} =>
       o.step = Words(Target(f))
  /\ stage = "state length" => o.state = <<OrElse(f.act.newState, o.state[2]), o.state[2]>>
  /\ stage # "state length" => o.state = Words(o.state[1])
  /\ stage \in {"createTransition", "sendEvent"} => f.act.newState \in {Blank, o.state[1]}
  /\ stage # "getAction" => Found(o, f)
  /\ stage \notin {"getAction", "checks"} => f.fromStep = f.stepName

AtRest(o) == o.step = Words(o.step[1]) /\ o.state = Words(o.state[1])

Undisturbed ==
  \A i \in DOMAIN objects \ overlapped :
    /\ (\A r \in InFlight : frame[r].id # i) => AtRest(objects[i])
    /\ \A r \in InFlight : frame[r].id = i => InStep(objects[i], frame[r], pc[r])
    /\ \A r, q \in InFlight : frame[r].id = i /\ frame[q].id = i => r = q

\* The call r at work on an instance goes to another stage.
LEMMA StageUndisturbed ==
  ASSUME Typed, Undisturbed, NEW r \in InFlight, NEW stage, GoTo(r, stage),
         UNCHANGED overlapped, DOMAIN objects' = DOMAIN objects,
         \A i \in DOMAIN objects : i # frame[r].id => objects'[i] = objects[i],
         frame'[r].id = frame[r].id, \A q \in Requests : q # r => frame'[q] = frame[q],
         InStep(objects[frame[r].id], frame[r], pc[r]) =>
           IF stage \in Ended THEN AtRest(objects'[frame[r].id])
                              ELSE InStep(objects'[frame[r].id], frame'[r], stage)
  PROVE  Undisturbed'
  <1> DEFINE home == frame[r].id
  <1>0. r \in Requests
    BY DEF InFlight
  <1>1. /\ pc'[r] = stage
        /\ \A q \in Requests : q # r => pc'[q] = pc[q]
        /\ \A q \in InFlight' : q = r \/ q \in InFlight
        /\ \A q \in InFlight : q = r \/ q \in InFlight'
        /\ r \in InFlight' <=> stage \notin Ended
    BY <1>0, GoneTo DEF Typed
  <1>2. \A q \in InFlight' : q \in InFlight /\ q \in Requests /\ frame'[q].id = frame[q].id
    BY <1>1 DEF InFlight
  <1> SUFFICES ASSUME NEW i \in DOMAIN objects \ overlapped
               PROVE  /\ (\A q \in InFlight' : frame'[q].id # i) => AtRest(objects'[i])
                      /\ \A q \in InFlight' : frame'[q].id = i =>
                           InStep(objects'[i], frame'[q], pc'[q])
                      /\ \A q, p \in InFlight' : frame'[q].id = i /\ frame'[p].id = i => q = p
    BY DEF Undisturbed
  <1>3. \A q, p \in InFlight' : frame'[q].id = i /\ frame'[p].id = i => q = p
    BY <1>2 DEF Undisturbed
  <1>4. CASE i # home
    <2>1. objects'[i] = objects[i]
      BY <1>4
    <2>2. \A q \in InFlight : frame[q].id = i => q \in InFlight' /\ frame'[q] = frame[q]
                                                 /\ pc'[q] = pc[q]
      BY <1>1, <1>4 DEF InFlight
    <2>3. \A q \in InFlight' : frame'[q].id = i => frame[q].id = i /\ frame'[q] = frame[q]
                                                   /\ pc'[q] = pc[q]
      BY <1>1, <1>2, <1>4
    <2> QED
      BY <1>2, <1>3, <2>1, <2>2, <2>3 DEF Undisturbed
  <1>5. CASE i = home
    <2>1. InStep(objects[i], frame[r], pc[r]) /\ \A q \in InFlight : frame[q].id = i => q = r
      BY <1>5 DEF Undisturbed
    <2>2. \A q \in InFlight' : frame'[q].id = i => q = r
      BY <1>2, <2>1
    <2>3. CASE stage \in Ended
      BY <1>1, <1>3, <1>5, <2>1, <2>2, <2>3
    <2>4. CASE stage \notin Ended
      <3>1. r \in InFlight' /\ frame'[r].id = i
        BY <1>1, <1>5, <2>4
      <3>2. InStep(objects'[i], frame'[r], pc'[r])
        BY <1>1, <1>5, <2>1, <2>4
      <3> QED
        BY <1>3, <2>2, <3>1, <3>2
    <2> QED
      BY <2>3, <2>4
  <1> QED
    BY <1>4, <1>5

\* Nobody goes anywhere on an instance whose words stay as they are.
LEMMA WordsUndisturbed ==
  ASSUME Typed, Undisturbed, NEW r \in Requests, pc[r] \in Ended,
         NEW stage \in Ended, GoTo(r, stage), UNCHANGED frame,
         overlapped \subseteq overlapped',
         \A i \in DOMAIN objects :
           i \in DOMAIN objects' /\ objects'[i].type = objects[i].type
           /\ objects'[i].step = objects[i].step /\ objects'[i].state = objects[i].state,
         \A i \in DOMAIN objects' \ DOMAIN objects : AtRest(objects'[i])
  PROVE  Undisturbed'
  <1>1. InFlight' = InFlight /\ \A q \in InFlight : pc'[q] = pc[q]
    <2>1. /\ \A q \in Requests : q # r => pc'[q] = pc[q]
          /\ \A q \in InFlight' : q = r \/ q \in InFlight
          /\ \A q \in InFlight : q = r \/ q \in InFlight'
          /\ r \in InFlight' <=> stage \notin Ended
      BY GoneTo DEF Typed
    <2>2. r \notin InFlight /\ r \notin InFlight' /\ InFlight \subseteq Requests
      BY <2>1 DEF InFlight, Ended
    <2> QED
      BY <2>1, <2>2
  <1>2. ASSUME NEW i \in DOMAIN objects' \ overlapped', i \notin DOMAIN objects
        PROVE  AtRest(objects'[i]) /\ \A q \in InFlight' : frame'[q].id # i
    BY <1>1, <1>2 DEF Typed, FrameOK
  <1>3. ASSUME NEW i \in DOMAIN objects
        PROVE  /\ AtRest(objects[i]) => AtRest(objects'[i])
               /\ \A f, st : InStep(objects[i], f, st) => InStep(objects'[i], f, st)
    <2>1. objects'[i].type = objects[i].type
          /\ objects'[i].step = objects[i].step /\ objects'[i].state = objects[i].state
      OBVIOUS
    <2>2. AtRest(objects[i]) => AtRest(objects'[i])
      BY <2>1 DEF AtRest
    <2>3. ASSUME NEW f, NEW st, InStep(objects[i], f, st) PROVE InStep(objects'[i], f, st)
      BY <2>1, <2>3 DEF InStep, Found
    <2> QED
      BY <2>2, <2>3
  <1> QED
    BY <1>1, <1>2, <1>3 DEF Undisturbed

LEMMA Pairs ==
  ASSUME NEW a, NEW b, NEW n
  PROVE  [<<a, b>> EXCEPT ![1] = n] = <<n, b>> /\ [<<a, b>> EXCEPT ![2] = n] = <<a, n>>
  OBVIOUS

LEMMA WordsRead == ASSUME NEW n PROVE Words(n)[1] = n /\ Words(n) = <<n, n>>
  BY DEF Words

LEMMA WholeField ==
  ASSUME NEW field, NEW n, field = Words(n)
  PROVE  Read(field) = n /\ field[1] = n /\ field[2] = n
  BY DEF Words, Read

LEMMA PairParts == ASSUME NEW field, NEW a, NEW b, field = <<a, b>>
                   PROVE  field[1] = a /\ field[2] = b
  OBVIOUS

\* What a call that is alone on o makes of it, stage by stage.
LEMMA AloneReads ==
  ASSUME NEW o, NEW f, InStep(o, f, "getAction") \/ InStep(o, f, "checks")
  PROVE  AtRest(o) /\ Read(o.step) = f.stepName
  BY DEF InStep, AtRest, Read, Words

LEMMA AloneFinds ==
  ASSUME NEW o \in Object, NEW f, InStep(o, f, "getAction"), NEW a,
         NEW act \in GetTransitionAction(Definitions[o.type], Read(o.step), a), NEW g,
         g.stepName = f.stepName, g.act = act
  PROVE  InStep(o, g, "checks")
  <1>1. Read(o.step) = f.stepName
    BY AloneReads
  <1>2. act \in GetTransitionAction(Definitions[o.type], f.stepName, act.name)
    BY <1>1, FoundAction, ObjectTyped
  <1> QED
    BY <1>2 DEF InStep, Found

LEMMA AloneChecks ==
  ASSUME NEW o, NEW f, InStep(o, f, "checks"), NEW g,
         g.stepName = f.stepName, g.act = f.act, g.fromStep = Read(o.step)
  PROVE  InStep(o, g, "step pointer")
  <1>1. Read(o.step) = f.stepName
    BY AloneReads
  <1> QED
    BY <1>1 DEF InStep, Found

LEMMA AloneAssignsStep ==
  ASSUME NEW o \in Object, NEW p, NEW f, p.type = o.type, p.state = o.state,
         NEW w, p.step = IF f.act.nextStep = Blank THEN o.step
                                                   ELSE [o.step EXCEPT ![w] = f.act.nextStep]
  PROVE  /\ w = 1 /\ InStep(o, f, "step pointer") => InStep(p, f, "step length")
         /\ w = 2 /\ InStep(o, f, "step length") => InStep(p, f, "state pointer")
  <1>1. ASSUME w = 1, InStep(o, f, "step pointer") PROVE InStep(p, f, "step length")
    <2>1. o.step = <<f.stepName, f.stepName>>
      BY <1>1 DEF InStep, Words
    <2>2. p.step = <<Target(f), f.stepName>>
      <3>1. CASE f.act.nextStep = Blank
        BY <2>1, <3>1 DEF Target, OrElse, Words
      <3>2. CASE f.act.nextStep # Blank
        <4>1. p.step = [o.step EXCEPT ![1] = f.act.nextStep]
          BY <1>1, <3>2
        <4>2. p.step = <<f.act.nextStep, f.stepName>>
          BY <2>1, <4>1, Pairs
        <4> QED
          BY <3>2, <4>2 DEF Target, OrElse, Words
      <3> QED
        BY <3>1, <3>2
    <2> QED
      BY <1>1, <2>2 DEF InStep, Found
  <1>2. ASSUME w = 2, InStep(o, f, "step length") PROVE InStep(p, f, "state pointer")
    <2>1. o.step = <<Target(f), f.stepName>>
      BY <1>2 DEF InStep
    <2>2. p.step = Words(Target(f))
      <3>1. CASE f.act.nextStep = Blank
        BY <2>1, <3>1 DEF Target, OrElse, Words
      <3>2. CASE f.act.nextStep # Blank
        <4>1. p.step = [o.step EXCEPT ![2] = f.act.nextStep]
          BY <1>2, <3>2
        <4>2. p.step = <<Target(f), f.act.nextStep>>
          BY <2>1, <4>1, Pairs
        <4> QED
          BY <3>2, <4>2 DEF Target, OrElse, Words
      <3> QED
        BY <3>1, <3>2
    <2> QED
      BY <1>2, <2>2 DEF InStep, Found
  <1> QED
    BY <1>1, <1>2

LEMMA AloneAssignsState ==
  ASSUME NEW o \in Object, NEW p, NEW f, p.type = o.type, p.step = o.step,
         NEW w, p.state = IF f.act.newState = Blank THEN o.state
                                                    ELSE [o.state EXCEPT ![w] = f.act.newState]
  PROVE  /\ w = 1 /\ InStep(o, f, "state pointer") => InStep(p, f, "state length")
         /\ w = 2 /\ InStep(o, f, "state length") => InStep(p, f, "createTransition")
  <1>1. ASSUME w = 1, InStep(o, f, "state pointer") PROVE InStep(p, f, "state length")
    <2>1. o.state = <<o.state[1], o.state[1]>>
      BY <1>1 DEF InStep, Words
    <2>2. p.state = <<OrElse(f.act.newState, o.state[1]), o.state[1]>>
      <3>1. CASE f.act.newState = Blank
        BY <2>1, <3>1 DEF Target, OrElse, Words
      <3>2. CASE f.act.newState # Blank
        <4>1. p.state = [o.state EXCEPT ![1] = f.act.newState]
          BY <1>1, <3>2
        <4>2. p.state = <<f.act.newState, o.state[1]>>
          BY <2>1, <4>1, Pairs
        <4> QED
          BY <3>2, <4>2 DEF Target, OrElse, Words
      <3> QED
        BY <3>1, <3>2
    <2>3. p.state = <<OrElse(f.act.newState, p.state[2]), p.state[2]>>
      BY <2>2
    <2> QED
      BY <1>1, <2>3 DEF InStep, Found
  <1>2. ASSUME w = 2, InStep(o, f, "state length") PROVE InStep(p, f, "createTransition")
    <2>1. o.state = <<OrElse(f.act.newState, o.state[2]), o.state[2]>>
      BY <1>2 DEF InStep
    <2> DEFINE n == OrElse(f.act.newState, o.state[2])
    <2>2. p.state = <<n, n>>
      <3>1. CASE f.act.newState = Blank
        BY <2>1, <3>1 DEF Target, OrElse, Words
      <3>2. CASE f.act.newState # Blank
        <4>1. p.state = [o.state EXCEPT ![2] = f.act.newState]
          BY <1>2, <3>2
        <4>2. p.state = <<n, f.act.newState>>
          BY <2>1, <4>1, Pairs
        <4> QED
          BY <3>2, <4>2 DEF Target, OrElse, Words
      <3> QED
        BY <3>1, <3>2
    <2>3. f.act.newState \in {Blank, n}
      BY DEF OrElse
    <2> HIDE DEF n
    <2>4. p.state = Words(p.state[1]) /\ f.act.newState \in {Blank, p.state[1]}
      BY <2>2, <2>3 DEF Words
    <2> QED
      BY <1>2, <2>4 DEF InStep, Found
  <1> QED
    BY <1>1, <1>2

LEMMA AloneEnds ==
  ASSUME NEW o, NEW f, NEW stage \in {"getAction", "checks", "sendEvent"}, InStep(o, f, stage)
  PROVE  AtRest(o)
  <1>1. o.step = Words(f.stepName) \/ o.step = Words(Target(f))
    BY DEF InStep
  <1>2. o.step = Words(o.step[1])
    BY <1>1, WordsRead
  <1>3. o.state = Words(o.state[1])
    BY DEF InStep
  <1> QED
    BY <1>2, <1>3 DEF AtRest

-----------------------------------------------------------------------------
(* The actions keep it. *)

LEMMA BeginTransitionUndisturbed ==
  ASSUME Typed, Undisturbed, NEW r \in Requests, BeginTransition(r) PROVE Undisturbed'
  <1>1. UNCHANGED objects /\ pc[r] = "idle"
    BY DEF BeginTransition, MayBegin
  <1>2. PICK i \in DOMAIN objects, a \in ActionNames :
          /\ overlapped' = IF \E q \in InFlight : frame[q].id = i
                             THEN overlapped \cup {i} ELSE overlapped
          /\ \/ GoTo(r, "failed") /\ UNCHANGED frame
             \/ \E step \in GetStep(Definitions[objects[i].type], Read(objects[i].step)) :
                  /\ frame' = [frame EXCEPT ![r] = [id |-> i, action |-> a,
                                                    stepName |-> step.name]]
                  /\ GoTo(r, "getAction")
    BY DEF BeginTransition
  <1>3. overlapped \subseteq overlapped'
    BY <1>2
  <1>4. CASE GoTo(r, "failed") /\ UNCHANGED frame
    BY <1>1, <1>3, <1>4, WordsUndisturbed DEF Ended
  <1>5. ASSUME NEW step \in GetStep(Definitions[objects[i].type], Read(objects[i].step)),
               GoTo(r, "getAction"),
               frame' = [frame EXCEPT ![r] = [id |-> i, action |-> a, stepName |-> step.name]]
        PROVE  Undisturbed'
    <2>1. /\ pc'[r] = "getAction"
          /\ \A q \in Requests : q # r => pc'[q] = pc[q]
          /\ \A q \in InFlight' : q = r \/ q \in InFlight
          /\ \A q \in InFlight : q = r \/ q \in InFlight'
          /\ r \in InFlight'
      BY <1>5, GoneTo DEF Typed, Ended
    <2>2. r \notin InFlight /\ InFlight \subseteq Requests /\ InFlight' \subseteq Requests
      BY <1>1 DEF InFlight
    <2>3. /\ frame'[r].id = i /\ frame'[r].stepName = step.name
          /\ \A q \in Requests : q # r => frame'[q] = frame[q]
      BY <1>5 DEF Typed
    <2> SUFFICES ASSUME NEW j \in DOMAIN objects \ overlapped'
                 PROVE  /\ (\A q \in InFlight' : frame'[q].id # j) => AtRest(objects[j])
                        /\ \A q \in InFlight' : frame'[q].id = j =>
                             InStep(objects[j], frame'[q], pc'[q])
                        /\ \A q, p \in InFlight' : frame'[q].id = j /\ frame'[p].id = j => q = p
      BY <1>1 DEF Undisturbed
    <2>4. j \in DOMAIN objects \ overlapped
      BY <1>3
    <2>5. \A q \in InFlight : q \in InFlight' /\ frame'[q] = frame[q] /\ pc'[q] = pc[q]
      BY <2>1, <2>2, <2>3
    <2>6. CASE j # i
      <3>1. \A q \in InFlight' : frame'[q].id = j => q \in InFlight
        BY <2>1, <2>3, <2>6
      <3> QED
        BY <2>4, <2>5, <3>1 DEF Undisturbed
    <2>7. CASE j = i
      <3>1. \A q \in InFlight : frame[q].id # i
        BY <1>2, <2>7
      <3>2. AtRest(objects[i])
        BY <2>4, <2>7, <3>1 DEF Undisturbed
      <3>3. \A q \in InFlight' : frame'[q].id = i => q = r
        BY <2>1, <2>5, <3>1
      <3>4. step.name = Read(objects[i].step)
        BY <1>5, StepTyped, ObjectTyped DEF Typed
      <3>5. Read(objects[i].step) = objects[i].step[1]
        BY <3>2 DEF AtRest, Read, Words
      <3>6. InStep(objects[i], frame'[r], "getAction")
        BY <2>3, <3>2, <3>4, <3>5 DEF InStep, AtRest
      <3> QED
        BY <2>1, <2>3, <2>7, <3>3, <3>6
    <2> QED
      BY <2>6, <2>7
  <1> QED
    BY <1>2, <1>4, <1>5

LEMMA FindActionUndisturbed ==
  ASSUME Typed, Undisturbed, NEW r \in Requests, FindAction(r) PROVE Undisturbed'
  <1> DEFINE o == objects[frame[r].id]
             acts == GetTransitionAction(Definitions[o.type], Read(o.step), frame[r].action)
  <1>1. UNCHANGED <<objects, overlapped>> /\ pc[r] = "getAction"
    BY DEF FindAction
  <1>2. \/ GoTo(r, "failed") /\ UNCHANGED frame
        \/ \E act \in acts :
             /\ frame' = [frame EXCEPT ![r] = [id |-> frame[r].id, stepName |-> frame[r].stepName,
                                               act |-> act]]
             /\ GoTo(r, "checks")
    BY DEF FindAction
  <1>3. r \in InFlight /\ o \in Object
    BY <1>1, Acting DEF Ended
  <1>4. CASE GoTo(r, "failed") /\ UNCHANGED frame
    <2>1. InStep(o, frame[r], "getAction") => AtRest(o)
      BY AloneEnds
    <2> QED
      BY <1>1, <1>3, <1>4, <2>1, StageUndisturbed DEF Ended
  <1>5. ASSUME NEW act \in acts, GoTo(r, "checks"),
               frame' = [frame EXCEPT ![r] = [id |-> frame[r].id, stepName |-> frame[r].stepName,
                                              act |-> act]]
        PROVE  Undisturbed'
    <2>1. /\ frame'[r].id = frame[r].id /\ frame'[r].stepName = frame[r].stepName
          /\ frame'[r].act = act /\ \A q \in Requests : q # r => frame'[q] = frame[q]
      BY <1>5 DEF Typed
    <2>2. InStep(o, frame[r], "getAction") => InStep(o, frame'[r], "checks")
      BY <1>3, <1>5, <2>1, AloneFinds
    <2> QED
      BY <1>1, <1>3, <1>5, <2>1, <2>2, StageUndisturbed DEF Ended
  <1> QED
    BY <1>2, <1>4, <1>5

LEMMA ChecksUndisturbed ==
  ASSUME Typed, Undisturbed, NEW r \in Requests, Checks(r) PROVE Undisturbed'
  <1> DEFINE o == objects[frame[r].id]
  <1>1. UNCHANGED <<objects, overlapped>> /\ pc[r] = "checks"
    BY DEF Checks
  <1>2. r \in InFlight
    BY <1>1, Acting DEF Ended
  <1>3. /\ frame'[r].id = frame[r].id /\ frame'[r].stepName = frame[r].stepName
        /\ frame'[r].act = frame[r].act /\ frame'[r].fromStep = Read(o.step)
        /\ \A q \in Requests : q # r => frame'[q] = frame[q]
    BY DEF Checks, Typed
  <1>4. InStep(o, frame[r], "checks") => InStep(o, frame'[r], "step pointer") /\ AtRest(o)
    BY <1>3, AloneChecks, AloneEnds
  <1>5. GoTo(r, "step pointer") \/ GoTo(r, "failed")
    BY DEF Checks
  <1> QED
    BY <1>1, <1>2, <1>3, <1>4, <1>5, StageUndisturbed DEF Ended

LEMMA AssignUndisturbed ==
  ASSUME Typed, Undisturbed, NEW r \in Requests, AssignStep(r) \/ AssignState(r)
  PROVE  Undisturbed'
  <1> DEFINE i == frame[r].id
             f == frame[r]
  <1>1. /\ UNCHANGED <<frame, overlapped>>
        /\ pc[r] \in {"step pointer", "step length", "state pointer", "state length"}
    BY DEF AssignStep, AssignState
  <1>2. /\ r \in InFlight /\ FrameOK(f, pc[r]) /\ objects[i] \in Object
    BY <1>1, Acting DEF Ended
  <1>3. f.act.nextStep \in StepNames \cup {Blank} /\ f.act.newState \in StateNames \cup {Blank}
    BY <1>1, <1>2, ActionTyped DEF FrameOK
  <1>4. ASSUME NEW w \in {1, 2}, NEW next, Store(r, "step", w, f.act.nextStep, next),
               \/ w = 1 /\ pc[r] = "step pointer" /\ next = "step length"
               \/ w = 2 /\ pc[r] = "step length" /\ next = "state pointer"
        PROVE  Undisturbed'
    <2>1. OnlyStepOf(i) /\ GoTo(r, next)
          /\ objects'[i].step = IF f.act.nextStep = Blank THEN objects[i].step
                                ELSE [objects[i].step EXCEPT ![w] = f.act.nextStep]
      BY <1>2, <1>3, <1>4, StoreStep DEF Store
    <2>2. InStep(objects[i], f, pc[r]) => InStep(objects'[i], f, next)
      <3> DEFINE o == objects[i]
                 p == objects'[i]
      <3>1. o \in Object /\ p.type = o.type /\ p.state = o.state
        BY <1>2, <2>1 DEF OnlyStepOf
      <3>2. p.step = IF f.act.nextStep = Blank THEN o.step
                   ELSE [o.step EXCEPT ![w] = f.act.nextStep]
        BY <2>1
      <3> HIDE DEF o, p, f, i
      <3>3. ASSUME w = 1 PROVE InStep(o, f, pc[r]) => InStep(p, f, next)
        <4>1. InStep(o, f, "step pointer") => InStep(p, f, "step length")
          BY <3>1, <3>2, <3>3, AloneAssignsStep
        <4>2. pc[r] = "step pointer" /\ next = "step length"
          <5>1. 1 # 2
            OBVIOUS
          <5> QED
            BY <1>4, <3>3, <5>1, Zenon
        <4> QED
          BY <4>1, <4>2
      <3>4. ASSUME w = 2 PROVE InStep(o, f, pc[r]) => InStep(p, f, next)
        <4>1. InStep(o, f, "step length") => InStep(p, f, "state pointer")
          BY <3>1, <3>2, <3>4, AloneAssignsStep
        <4>2. pc[r] = "step length" /\ next = "state pointer"
          <5>1. 1 # 2
            OBVIOUS
          <5> QED
            BY <1>4, <3>4, <5>1, Zenon
        <4> QED
          BY <4>1, <4>2
      <3>5. InStep(o, f, pc[r]) => InStep(p, f, next)
        BY <3>3, <3>4
      <3> QED
        BY <3>5 DEF o, p
    <2> QED
      BY <1>1, <1>2, <1>4, <2>1, <2>2, StageUndisturbed DEF OnlyStepOf, Ended
  <1>5. ASSUME NEW w \in {1, 2}, NEW next, Store(r, "state", w, f.act.newState, next),
               \/ w = 1 /\ pc[r] = "state pointer" /\ next = "state length"
               \/ w = 2 /\ pc[r] = "state length" /\ next = "createTransition"
        PROVE  Undisturbed'
    <2>1. OnlyStateOf(i) /\ GoTo(r, next)
          /\ objects'[i].state = IF f.act.newState = Blank THEN objects[i].state
                                 ELSE [objects[i].state EXCEPT ![w] = f.act.newState]
      BY <1>2, <1>3, <1>5, StoreState DEF Store
    <2>2. InStep(objects[i], f, pc[r]) => InStep(objects'[i], f, next)
      <3> DEFINE o == objects[i]
                 p == objects'[i]
      <3>1. o \in Object /\ p.type = o.type /\ p.step = o.step
        BY <1>2, <2>1 DEF OnlyStateOf
      <3>2. p.state = IF f.act.newState = Blank THEN o.state
                   ELSE [o.state EXCEPT ![w] = f.act.newState]
        BY <2>1
      <3> HIDE DEF o, p, f, i
      <3>3. ASSUME w = 1 PROVE InStep(o, f, pc[r]) => InStep(p, f, next)
        <4>1. InStep(o, f, "state pointer") => InStep(p, f, "state length")
          BY <3>1, <3>2, <3>3, AloneAssignsState
        <4>2. pc[r] = "state pointer" /\ next = "state length"
          <5>1. 1 # 2
            OBVIOUS
          <5> QED
            BY <1>5, <3>3, <5>1, Zenon
        <4> QED
          BY <4>1, <4>2
      <3>4. ASSUME w = 2 PROVE InStep(o, f, pc[r]) => InStep(p, f, next)
        <4>1. InStep(o, f, "state length") => InStep(p, f, "createTransition")
          BY <3>1, <3>2, <3>4, AloneAssignsState
        <4>2. pc[r] = "state length" /\ next = "createTransition"
          <5>1. 1 # 2
            OBVIOUS
          <5> QED
            BY <1>5, <3>4, <5>1, Zenon
        <4> QED
          BY <4>1, <4>2
      <3>5. InStep(o, f, pc[r]) => InStep(p, f, next)
        BY <3>3, <3>4
      <3> QED
        BY <3>5 DEF o, p
    <2> QED
      BY <1>1, <1>2, <1>5, <2>1, <2>2, StageUndisturbed DEF OnlyStateOf, Ended
  <1> QED
    BY <1>4, <1>5 DEF AssignStep, AssignState

LEMMA RecordUndisturbed ==
  ASSUME Typed, Undisturbed, NEW r \in Requests, CreateTransition(r) \/ SendEvent(r)
  PROVE  Undisturbed'
  <1> DEFINE o == objects[frame[r].id]
  <1>1. UNCHANGED <<objects, frame, overlapped>>
        /\ \/ pc[r] = "createTransition" /\ GoTo(r, "sendEvent")
           \/ pc[r] = "sendEvent" /\ GoTo(r, "returned")
    BY DEF CreateTransition, SendEvent
  <1>2. r \in InFlight
    BY <1>1, Acting DEF Ended
  <1>3. InStep(o, frame[r], "createTransition") => InStep(o, frame[r], "sendEvent")
    BY DEF InStep
  <1>4. InStep(o, frame[r], "sendEvent") => AtRest(o)
    BY AloneEnds
  <1> QED
    BY <1>1, <1>2, <1>3, <1>4, StageUndisturbed DEF Ended

LEMMA NextUndisturbed == Typed /\ Undisturbed /\ [Next]_vars => Undisturbed'
  <1> SUFFICES ASSUME Typed, Undisturbed, [Next]_vars PROVE Undisturbed'
    OBVIOUS
  <1>1. CASE UNCHANGED vars
    BY <1>1 DEF vars, Undisturbed, InFlight
  <1>2. ASSUME NEW r \in Requests, CreateInstance(r) PROVE Undisturbed'
    <2>1. PICK t \in DOMAIN Definitions : objects' = Append(objects, Created(t))
      BY <1>2 DEF CreateInstance, Created
    <2>2. AtRest(Created(t))
      BY DEF AtRest, Created, Words
    <2>3. UNCHANGED <<frame, overlapped>> /\ GoTo(r, "returned") /\ pc[r] = "idle"
      BY <1>2 DEF CreateInstance, MayBegin
    <2>4. \A i \in DOMAIN objects : i \in DOMAIN objects' /\ objects'[i] = objects[i]
      BY <2>1, Creating
    <2>5. \A i \in DOMAIN objects' \ DOMAIN objects : AtRest(objects'[i])
      BY <2>1, <2>2, Creating
    <2> QED
      BY <2>3, <2>4, <2>5, WordsUndisturbed DEF Ended
  <1>3. ASSUME NEW r \in Requests, FinishInstance(r) PROVE Undisturbed'
    <2>1. PICK i \in DOMAIN objects : objects' = [objects EXCEPT ![i].finished = TRUE]
      BY <1>3 DEF FinishInstance
    <2>2. UNCHANGED <<frame, overlapped>> /\ GoTo(r, "returned") /\ pc[r] = "idle"
      BY <1>3 DEF FinishInstance, MayBegin
    <2>3. /\ DOMAIN objects' = DOMAIN objects
          /\ \A j \in DOMAIN objects :
               /\ objects'[j].type = objects[j].type /\ objects'[j].step = objects[j].step
               /\ objects'[j].state = objects[j].state
      BY <2>1, Finishing
    <2> QED
      BY <2>2, <2>3, WordsUndisturbed DEF Ended
  <1> QED
    BY <1>1, <1>2, <1>3, BeginTransitionUndisturbed, FindActionUndisturbed,
       ChecksUndisturbed, AssignUndisturbed, RecordUndisturbed DEF Next

LEMMA AlwaysUndisturbed == Spec => [](Typed /\ Undisturbed)
  <1>1. Init => Undisturbed
    BY DEF Init, Undisturbed
  <1> QED
    BY <1>1, AlwaysTyped, NextUndisturbed, PTL DEF Spec

-----------------------------------------------------------------------------
(* Records and events. *)

\* A record tells of a step its call could take, as long as nobody disturbed it.
RecordAgrees(rec) ==
  rec.instance \notin overlapped =>
    /\ rec.act \in GetTransitionAction(Definitions[objects[rec.instance].type],
                                      rec.stepName, rec.act.name)
    /\ rec.act.newState \in {Blank, rec.stateName}

\* The record of a call that has still to send its event.
RecordIsOf(rec, r) ==
  /\ rec.instance = frame[r].id /\ rec.stepName = frame[r].stepName /\ rec.act = frame[r].act
  /\ rec.instance \notin overlapped => rec.stateName = objects[rec.instance].state[1]

EventAgrees(rec, ev) ==
  rec.instance \notin overlapped =>
    /\ ev.fromStep = rec.stepName
    /\ ev.toStep = OrElse(rec.act.nextStep, rec.stepName)
    /\ ev.toState = rec.stateName

Agreement ==
  /\ \A k \in DOMAIN transitions : pc[transitions[k].req] \in {"sendEvent", "returned"}
  /\ \A k \in DOMAIN transitions : RecordAgrees(transitions[k])
  /\ \A k \in DOMAIN transitions :
       pc[transitions[k].req] = "sendEvent" => RecordIsOf(transitions[k], transitions[k].req)
  /\ \A j \in DOMAIN offered : pc[offered[j].req] = "returned"
  /\ \A k \in DOMAIN transitions, j \in DOMAIN offered :
       offered[j].req = transitions[k].req => EventAgrees(transitions[k], offered[j])

LEMMA Logged ==
  ASSUME Typed
  PROVE  /\ \A k \in DOMAIN transitions : transitions[k].req \in Requests
         /\ \A j \in DOMAIN offered : offered[j].req \in Requests
  <1>1. \A k \in DOMAIN transitions : transitions[k] \in Record
    BY DEF Typed
  <1>2. \A j \in DOMAIN offered : offered[j] \in Event
    BY DEF Typed
  <1> QED
    BY <1>1, <1>2 DEF Record, Event

\* A call takes a step that writes neither a record nor an event, and no word of a
\* state that a record of a call on its way tells.
LEMMA SilentAgreement ==
  ASSUME Typed, Agreement, NEW r \in Requests, NEW stage, GoTo(r, stage),
         pc[r] \notin {"sendEvent", "returned"}, stage # "sendEvent",
         UNCHANGED <<transitions, offered>>, overlapped \subseteq overlapped',
         \A i \in DOMAIN objects : i \in DOMAIN objects' /\ objects'[i].type = objects[i].type,
         \A q \in Requests : q # r => frame'[q] = frame[q],
         \A q \in InFlight : pc[q] = "sendEvent" /\ frame[q].id \notin overlapped =>
           objects'[frame[q].id].state = objects[frame[q].id].state
  PROVE  Agreement'
  <1>1. \A q \in Requests : q # r => pc'[q] = pc[q]
    BY GoneTo DEF Typed
  <1>2. \A k \in DOMAIN transitions : transitions[k] \in Record
    BY DEF Typed
  <1>3. \A j \in DOMAIN offered : offered[j] \in Event
    BY DEF Typed
  <1>4. ASSUME NEW k \in DOMAIN transitions
        PROVE  /\ transitions[k].req \in Requests /\ transitions[k].req # r
               /\ transitions[k].instance \in DOMAIN objects
    BY <1>2 DEF Record, Agreement, Typed
  <1>5. ASSUME NEW j \in DOMAIN offered
        PROVE  offered[j].req \in Requests /\ offered[j].req # r
    BY <1>3 DEF Event, Agreement
  <1>6. ASSUME NEW k \in DOMAIN transitions PROVE RecordAgrees(transitions[k])'
    BY <1>4 DEF Agreement, RecordAgrees
  <1>7. ASSUME NEW k \in DOMAIN transitions, pc'[transitions[k].req] = "sendEvent"
        PROVE  RecordIsOf(transitions[k], transitions[k].req)'
    <2> DEFINE q == transitions[k].req
    <2>1. q \in Requests /\ q # r /\ pc[q] = "sendEvent" /\ frame'[q] = frame[q]
      BY <1>1, <1>4, <1>7
    <2>2. RecordIsOf(transitions[k], q) /\ q \in InFlight
      BY <2>1 DEF Agreement, InFlight
    <2> QED
      BY <2>1, <2>2 DEF RecordIsOf
  <1>8. ASSUME NEW k \in DOMAIN transitions, NEW j \in DOMAIN offered,
               offered[j].req = transitions[k].req
        PROVE  EventAgrees(transitions[k], offered[j])'
    BY <1>8 DEF Agreement, EventAgrees
  <1> QED
    BY <1>1, <1>4, <1>5, <1>6, <1>7, <1>8 DEF Agreement

LEMMA AssignAgreement ==
  ASSUME Typed, Undisturbed, Agreement, NEW r \in Requests, AssignStep(r) \/ AssignState(r)
  PROVE  Agreement'
  <1>1. /\ UNCHANGED <<transitions, offered, frame, overlapped>>
        /\ pc[r] \in {"step pointer", "step length", "state pointer", "state length"}
    BY DEF AssignStep, AssignState
  <1>2. PICK stage \in {"step length", "state pointer", "state length", "createTransition"} :
          GoTo(r, stage)
    BY DEF AssignStep, AssignState, Store
  <1>3. OnlyStepOf(frame[r].id) \/ OnlyStateOf(frame[r].id)
    BY AssignTyped
  <1>4. r \in InFlight
    BY <1>1, Acting DEF Ended
  <1>5. \A i \in DOMAIN objects : i \in DOMAIN objects' /\ objects'[i].type = objects[i].type
                                  /\ (i # frame[r].id => objects'[i] = objects[i])
    BY <1>3 DEF OnlyStepOf, OnlyStateOf
  <1>6. ASSUME NEW q \in InFlight, pc[q] = "sendEvent", frame[q].id \notin overlapped
        PROVE  objects'[frame[q].id].state = objects[frame[q].id].state
    <2>1. frame[q].id \in DOMAIN objects
      BY DEF Typed, FrameOK
    <2>2. frame[q].id # frame[r].id
      BY <1>1, <1>4, <1>6, <2>1 DEF Undisturbed
    <2> QED
      BY <1>5, <2>1, <2>2
  <1> QED
    BY <1>1, <1>2, <1>5, <1>6, SilentAgreement

LEMMA CreateTransitionAgreement ==
  ASSUME Typed, Undisturbed, Agreement, NEW r \in Requests, CreateTransition(r)
  PROVE  Agreement'
  <1> DEFINE o == objects[frame[r].id]
             rec == [req |-> r, instance |-> frame[r].id, stepName |-> frame[r].stepName,
                     act |-> frame[r].act, stateName |-> Read(o.state)]
  <1>1. /\ UNCHANGED <<objects, offered, frame, overlapped>> /\ pc[r] = "createTransition"
        /\ GoTo(r, "sendEvent") /\ transitions' = Append(transitions, rec)
    BY DEF CreateTransition
  <1>2. r \in InFlight /\ FrameOK(frame[r], pc[r]) /\ o \in Object
    BY <1>1, Acting DEF Ended
  <1>3. rec \in Record
    <2>1. Read(o.state) \in StateNames \cup {Torn}
      BY <1>2, ObjectTyped
    <2> QED
      BY <1>1, <1>2, <2>1 DEF Record, FrameOK, Typed
  <1>4. /\ rec.req = r /\ rec.instance = frame[r].id /\ rec.stepName = frame[r].stepName
        /\ rec.act = frame[r].act /\ rec.stateName = Read(o.state)
    OBVIOUS
  <1>5. frame[r].id \notin overlapped =>
          /\ Found(o, frame[r]) /\ Read(o.state) = o.state[1]
          /\ frame[r].act.newState \in {Blank, o.state[1]}
    <2>1. frame[r].id \notin overlapped => InStep(o, frame[r], "createTransition")
      BY <1>1, <1>2 DEF Undisturbed, FrameOK
    <2> QED
      BY <2>1, WordsRead DEF InStep, Read
  <1> HIDE DEF rec
  <1>6. RecordAgrees(rec)
    BY <1>4, <1>5 DEF RecordAgrees, Found
  <1>7. RecordIsOf(rec, r)
    BY <1>4, <1>5 DEF RecordIsOf
  <1>8. /\ pc'[r] = "sendEvent" /\ \A q \in Requests : q # r => pc'[q] = pc[q]
    BY <1>1, GoneTo DEF Typed
  <1>9. /\ \A k \in DOMAIN transitions : k \in DOMAIN transitions'
                                         /\ transitions'[k] = transitions[k]
        /\ \A k \in DOMAIN transitions' : k \in DOMAIN transitions \/ transitions'[k] = rec
    BY <1>1, <1>3, AppendFacts DEF Typed
  <1>10. \A k \in DOMAIN transitions : transitions[k].req \in Requests /\ transitions[k].req # r
    BY <1>1, Logged DEF Agreement
  <1>11. \A j \in DOMAIN offered : offered[j].req \in Requests /\ offered[j].req # r
    BY <1>1, Logged DEF Agreement
  <1>12. ASSUME NEW k \in DOMAIN transitions'
         PROVE  /\ pc'[transitions'[k].req] \in {"sendEvent", "returned"}
                /\ RecordAgrees(transitions[k])'
                /\ pc'[transitions'[k].req] = "sendEvent" =>
                     RecordIsOf(transitions[k], transitions[k].req)'
    <2>1. CASE k \in DOMAIN transitions
      BY <1>1, <1>8, <1>9, <1>10, <2>1 DEF Agreement, RecordAgrees, RecordIsOf
    <2>2. CASE transitions'[k] = rec
      BY <1>1, <1>4, <1>6, <1>7, <1>8, <2>2 DEF RecordAgrees, RecordIsOf
    <2> QED
      BY <1>9, <2>1, <2>2
  <1>13. ASSUME NEW k \in DOMAIN transitions', NEW j \in DOMAIN offered',
                offered'[j].req = transitions'[k].req
         PROVE  EventAgrees(transitions[k], offered[j])'
    <2>1. k \in DOMAIN transitions /\ transitions'[k] = transitions[k]
      BY <1>1, <1>4, <1>9, <1>11, <1>13
    <2> QED
      BY <1>1, <1>13, <2>1 DEF Agreement, EventAgrees
  <1> QED
    BY <1>1, <1>8, <1>11, <1>12, <1>13 DEF Agreement

LEMMA SendEventAgreement ==
  ASSUME Typed, Undisturbed, Agreement, NEW r \in Requests, SendEvent(r)
  PROVE  Agreement'
  <1> DEFINE o == objects[frame[r].id]
             ev == [req |-> r, instance |-> frame[r].id, fromStep |-> frame[r].fromStep,
                    toStep |-> Read(o.step), toState |-> Read(o.state)]
  <1>1. /\ UNCHANGED <<objects, transitions, frame, overlapped>> /\ pc[r] = "sendEvent"
        /\ GoTo(r, "returned") /\ offered' = Append(offered, ev)
    BY DEF SendEvent
  <1>2. r \in InFlight /\ FrameOK(frame[r], pc[r]) /\ o \in Object
    BY <1>1, Acting DEF Ended
  <1>3. ev \in Event
    <2>1. Read(o.step) \in StepNames \cup {Torn} /\ Read(o.state) \in StateNames \cup {Torn}
      BY <1>2, ObjectTyped
    <2> QED
      BY <1>1, <1>2, <2>1 DEF Event, FrameOK, Typed
  <1>4. /\ ev.req = r /\ ev.fromStep = frame[r].fromStep
        /\ ev.toStep = Read(o.step) /\ ev.toState = Read(o.state)
    OBVIOUS
  <1>5. frame[r].id \notin overlapped =>
          /\ Read(o.step) = Target(frame[r]) /\ Read(o.state) = o.state[1]
          /\ frame[r].fromStep = frame[r].stepName
    <2>1. frame[r].id \notin overlapped => InStep(o, frame[r], "sendEvent")
      BY <1>1, <1>2 DEF Undisturbed, FrameOK
    <2> QED
      BY <2>1, WordsRead DEF InStep, Read
  <1> HIDE DEF ev
  <1>6. ASSUME NEW k \in DOMAIN transitions, transitions[k].req = r
        PROVE  EventAgrees(transitions[k], ev)
    <2>1. RecordIsOf(transitions[k], r)
      BY <1>1, <1>6 DEF Agreement
    <2> QED
      BY <1>4, <1>5, <2>1 DEF EventAgrees, RecordIsOf, Target
  <1>7. /\ pc'[r] = "returned" /\ \A q \in Requests : q # r => pc'[q] = pc[q]
    BY <1>1, GoneTo DEF Typed
  <1>8. /\ \A j \in DOMAIN offered : j \in DOMAIN offered' /\ offered'[j] = offered[j]
        /\ \A j \in DOMAIN offered' : j \in DOMAIN offered \/ offered'[j] = ev
    BY <1>1, <1>3, AppendFacts DEF Typed
  <1>9. \A k \in DOMAIN transitions : transitions[k].req \in Requests
    BY Logged
  <1>10. \A j \in DOMAIN offered : offered[j].req \in Requests /\ offered[j].req # r
    BY <1>1, Logged DEF Agreement
  <1>11. ASSUME NEW k \in DOMAIN transitions
         PROVE  /\ pc'[transitions[k].req] \in {"sendEvent", "returned"}
                /\ RecordAgrees(transitions[k])'
                /\ pc'[transitions[k].req] = "sendEvent" =>
                     RecordIsOf(transitions[k], transitions[k].req)'
    <2>1. RecordAgrees(transitions[k])'
      BY <1>1 DEF Agreement, RecordAgrees
    <2>2. CASE transitions[k].req = r
      BY <1>7, <2>1, <2>2
    <2>3. CASE transitions[k].req # r
      BY <1>1, <1>7, <1>9, <2>1, <2>3 DEF Agreement, RecordIsOf
    <2> QED
      BY <2>2, <2>3
  <1>12. ASSUME NEW j \in DOMAIN offered' PROVE pc'[offered'[j].req] = "returned"
    BY <1>4, <1>7, <1>8, <1>10 DEF Agreement
  <1>13. ASSUME NEW k \in DOMAIN transitions', NEW j \in DOMAIN offered',
                offered'[j].req = transitions'[k].req
         PROVE  EventAgrees(transitions[k], offered[j])'
    <2>1. CASE j \in DOMAIN offered
      BY <1>1, <1>8, <1>13, <2>1 DEF Agreement, EventAgrees
    <2>2. CASE offered'[j] = ev
      BY <1>1, <1>4, <1>6, <1>13, <2>2 DEF EventAgrees
    <2> QED
      BY <1>8, <2>1, <2>2
  <1> QED
    BY <1>1, <1>11, <1>12, <1>13 DEF Agreement

LEMMA NextAgreement == Typed /\ Undisturbed /\ Agreement /\ [Next]_vars => Agreement'
  <1> SUFFICES ASSUME Typed, Undisturbed, Agreement, [Next]_vars PROVE Agreement'
    OBVIOUS
  <1>1. CASE UNCHANGED vars
    BY <1>1 DEF vars, Agreement, RecordAgrees, RecordIsOf, EventAgrees
  <1>2. ASSUME NEW r \in Requests, CreateInstance(r) PROVE Agreement'
    <2>1. PICK t \in DOMAIN Definitions : objects' = Append(objects, Created(t))
      BY <1>2 DEF CreateInstance, Created
    <2>2. /\ UNCHANGED <<transitions, offered, frame, overlapped>>
          /\ GoTo(r, "returned") /\ pc[r] = "idle"
      BY <1>2 DEF CreateInstance, MayBegin
    <2>3. \A i \in DOMAIN objects : i \in DOMAIN objects' /\ objects'[i] = objects[i]
      BY <2>1, Creating
    <2>4. \A q \in InFlight : frame[q].id \in DOMAIN objects
      BY DEF Typed, FrameOK
    <2> QED
      BY <2>2, <2>3, <2>4, SilentAgreement
  <1>3. ASSUME NEW r \in Requests, FinishInstance(r) PROVE Agreement'
    <2>1. PICK i \in DOMAIN objects : objects' = [objects EXCEPT ![i].finished = TRUE]
      BY <1>3 DEF FinishInstance
    <2>2. /\ UNCHANGED <<transitions, offered, frame, overlapped>>
          /\ GoTo(r, "returned") /\ pc[r] = "idle"
      BY <1>3 DEF FinishInstance, MayBegin
    <2>3. /\ DOMAIN objects' = DOMAIN objects
          /\ \A j \in DOMAIN objects : /\ objects'[j].type = objects[j].type
                                       /\ objects'[j].state = objects[j].state
      BY <2>1, Finishing
    <2>4. \A q \in InFlight : frame[q].id \in DOMAIN objects
      BY DEF Typed, FrameOK
    <2> QED
      BY <2>2, <2>3, <2>4, SilentAgreement
  <1>4. ASSUME NEW r \in Requests, BeginTransition(r) \/ FindAction(r) \/ Checks(r)
        PROVE  Agreement'
    <2>1. /\ UNCHANGED <<objects, transitions, offered>>
          /\ pc[r] \in {"idle", "getAction", "checks"}
      BY <1>4 DEF BeginTransition, FindAction, Checks, MayBegin
    <2>2. PICK stage \in {"getAction", "checks", "step pointer", "failed"} : GoTo(r, stage)
      BY <1>4 DEF BeginTransition, FindAction, Checks
    <2>3. overlapped \subseteq overlapped'
      BY <1>4 DEF BeginTransition, FindAction, Checks
    <2>4. \A q \in Requests : q # r => frame'[q] = frame[q]
      BY <1>4 DEF BeginTransition, FindAction, Checks, Typed
    <2> QED
      BY <2>1, <2>2, <2>3, <2>4, SilentAgreement
  <1> QED
    BY <1>1, <1>2, <1>3, <1>4, AssignAgreement, CreateTransitionAgreement,
       SendEventAgreement DEF Next

\* Where no two transitions overlapped on an instance, a record's step, action and
\* state belong together and the event says the same, although the call reads the
\* shared instance anew for each of them (service.go:213, 232).
THEOREM UndisturbedAgree == Spec => []UndisturbedCallsAgree
  <1>1. Init => Agreement
    BY DEF Init, Agreement
  <1>2. Agreement => UndisturbedCallsAgree
    BY DEF Agreement, UndisturbedCallsAgree, RecordAgrees, EventAgrees
  <1> QED
    BY <1>1, <1>2, AlwaysUndisturbed, NextAgreement, PTL DEF Spec

-----------------------------------------------------------------------------
(***************************************************************************)
(* The abstract machine.                                                   *)
(***************************************************************************)
LEMMA SameDefinitions ==
  ASSUME NEW def, NEW s, NEW a, NEW row, NEW act
  PROVE  /\ FSM!GetTransitionAction(def, s, a) = GetTransitionAction(def, s, a)
         /\ FSM!Advance(row, act) = Advance(row, act)
  <1>1. FSM!GetStep(def, s) = GetStep(def, s)
    BY DEF FSM!GetStep, GetStep
  <1>2. \A actions : FSM!FirstNamed(actions, a) = FirstNamed(actions, a)
    BY DEF FSM!FirstNamed, FirstNamed
  <1>3. FSM!GetTransitionAction(def, s, a) = GetTransitionAction(def, s, a)
    BY <1>1, <1>2 DEF FSM!GetTransitionAction, GetTransitionAction
  <1>4. FSM!Advance(row, act) = Advance(row, act)
    BY DEF FSM!Advance, Advance, FSM!OrElse, OrElse, FSM!Blank, Blank
  <1> QED
    BY <1>3, <1>4

\* What can be seen of o at rest, and of o with the call whose frame is f at a stage.
Plain(o) == [type |-> o.type, step |-> Read(o.step), state |-> Read(o.state),
             finished |-> o.finished]

Writing == {"step length", "state pointer", "state length"}

Seen(o, f, stage) ==
  IF stage \in Writing THEN Advance([Plain(o) EXCEPT !.step = f.fromStep], f.act)
                       ELSE Plain(o)

\* Where the call gets the instance to.
Reached(o, f) == [type |-> o.type, step |-> Target(f),
                  state |-> OrElse(f.act.newState, o.state[2]), finished |-> o.finished]

LEMMA SeenWhileWriting ==
  ASSUME NEW o, NEW f, NEW stage \in Writing, InStep(o, f, stage)
  PROVE  Seen(o, f, stage) = Reached(o, f)
  <1>1. OrElse(f.act.newState, Read(o.state)) = OrElse(f.act.newState, o.state[2])
    <2>1. CASE stage = "state length"
      <3>1. o.state = <<OrElse(f.act.newState, o.state[2]), o.state[2]>>
        BY <2>1 DEF InStep
      <3>2. CASE f.act.newState = Blank
        <4>1. o.state[1] = o.state[2]
          BY <3>1, <3>2 DEF OrElse
        <4> QED
          BY <4>1 DEF Read
      <3>3. CASE f.act.newState # Blank
        BY <3>3 DEF OrElse
      <3> QED
        BY <3>2, <3>3
    <2>2. CASE stage # "state length"
      <3>1. o.state = Words(o.state[1])
        BY <2>2 DEF InStep
      <3>2. o.state[2] = o.state[1]
        BY <3>1 DEF Words
      <3> QED
        BY <3>2 DEF Read
    <2> QED
      BY <2>1, <2>2
  <1>2. f.fromStep = f.stepName
    BY DEF InStep, Writing
  <1>3. Seen(o, f, stage) = [type |-> o.type, step |-> OrElse(f.act.nextStep, f.fromStep),
                             state |-> OrElse(f.act.newState, Read(o.state)),
                             finished |-> o.finished]
    BY DEF Seen, Advance, Plain
  <1> QED
    BY <1>1, <1>2, <1>3 DEF Reached, Target

Row(t, s, u, v) == [type |-> t, step |-> s, state |-> u, finished |-> v]

LEMMA AdvanceRow ==
  ASSUME NEW row, NEW t, NEW s, NEW u, NEW v, NEW act, row = Row(t, s, u, v),
         NEW x, x = OrElse(act.nextStep, s), NEW y, y = OrElse(act.newState, u)
  PROVE  Advance(row, act) = Row(t, x, y, v)
  <1> DEFINE r2 == [row EXCEPT !.step = x]
             r3 == [r2 EXCEPT !.state = y]
  <1>1. row.step = s /\ row.state = u
    BY DEF Row
  <1>2. Advance(row, act) = r3
    BY <1>1 DEF Advance
  <1>3. r2 = [row EXCEPT !.step = x] /\ r3 = [r2 EXCEPT !.state = y]
    OBVIOUS
  <1> HIDE DEF r2, r3
  <1>4. r3 = Row(t, x, y, v)
    BY <1>3 DEF Row
  <1> QED
    BY <1>2, <1>4

\* The first word stored is the move.
LEMMA FirstWordMoves ==
  ASSUME NEW o, NEW p, NEW f, InStep(o, f, "step pointer"), InStep(p, f, "step length"),
         p.type = o.type, p.state = o.state, p.finished = o.finished
  PROVE  Seen(p, f, "step length") = Advance(Seen(o, f, "step pointer"), f.act)
  <1>1. o.step = Words(f.stepName) /\ o.state = Words(o.state[1])
    BY DEF InStep
  <1>2. Read(o.step) = f.stepName /\ Read(o.state) = o.state[1] /\ o.state[2] = o.state[1]
    BY <1>1, WholeField
  <1>3. Seen(o, f, "step pointer") = [type |-> o.type, step |-> f.stepName,
                                      state |-> o.state[1], finished |-> o.finished]
    BY <1>2 DEF Seen, Plain, Writing
  <1>4. Seen(p, f, "step length") = Reached(p, f)
    BY SeenWhileWriting DEF Writing
  <1>5. Reached(p, f) = [type |-> o.type, step |-> Target(f),
                         state |-> OrElse(f.act.newState, o.state[1]), finished |-> o.finished]
    BY <1>2 DEF Reached
  <1>6. Advance(Seen(o, f, "step pointer"), f.act)
          = [type |-> o.type, step |-> OrElse(f.act.nextStep, f.stepName),
             state |-> OrElse(f.act.newState, o.state[1]), finished |-> o.finished]
    <2> DEFINE seen == Seen(o, f, "step pointer")
               newStep == OrElse(f.act.nextStep, f.stepName)
               newState == OrElse(f.act.newState, o.state[1])
               act == f.act
    <2>1. seen = Row(o.type, f.stepName, o.state[1], o.finished)
      BY <1>3 DEF Row
    <2>2. newStep = OrElse(act.nextStep, f.stepName) /\ newState = OrElse(act.newState, o.state[1])
      OBVIOUS
    <2> HIDE DEF seen, newStep, newState, act
    <2>3. Advance(seen, act) = Row(o.type, newStep, newState, o.finished)
      BY ONLY <2>1, <2>2, AdvanceRow
    <2> QED
      BY <2>3 DEF seen, newStep, newState, act, Row
  <1> QED
    BY <1>4, <1>5, <1>6 DEF Target

\* The words after it change nothing that can be seen.
LEMMA OtherWordsHide ==
  ASSUME NEW o, NEW p, NEW f, p.type = o.type, p.finished = o.finished
  PROVE  /\ InStep(o, f, "step length") /\ InStep(p, f, "state pointer")
              /\ p.state[2] = o.state[2]
            => Seen(p, f, "state pointer") = Seen(o, f, "step length")
         /\ InStep(o, f, "state pointer") /\ InStep(p, f, "state length")
              /\ p.state[2] = o.state[2]
            => Seen(p, f, "state length") = Seen(o, f, "state pointer")
         /\ InStep(o, f, "state length") /\ InStep(p, f, "createTransition")
              /\ p.state[1] = o.state[1]
            => Seen(p, f, "createTransition") = Seen(o, f, "state length")
  <1>1. ASSUME NEW stage \in Writing, NEW next \in Writing, InStep(o, f, stage),
               InStep(p, f, next), p.state[2] = o.state[2]
        PROVE  Seen(p, f, next) = Seen(o, f, stage)
    <2>1. Seen(o, f, stage) = Reached(o, f) /\ Seen(p, f, next) = Reached(p, f)
      BY <1>1, SeenWhileWriting
    <2> QED
      BY <1>1, <2>1 DEF Reached
  <1>2. ASSUME InStep(o, f, "state length"), InStep(p, f, "createTransition"),
               p.state[1] = o.state[1]
        PROVE  Seen(p, f, "createTransition") = Seen(o, f, "state length")
    <2>1. Seen(o, f, "state length") = Reached(o, f)
      BY <1>2, SeenWhileWriting DEF Writing
    <2>2. p.step = Words(Target(f)) /\ p.state = Words(p.state[1])
      BY <1>2 DEF InStep
    <2>3. o.state = <<OrElse(f.act.newState, o.state[2]), o.state[2]>>
      BY <1>2 DEF InStep
    <2>4. Read(p.step) = Target(f) /\ Read(p.state) = p.state[1]
      BY <2>2, WholeField
    <2>5. p.state[1] = OrElse(f.act.newState, o.state[2])
      BY <1>2, <2>3, PairParts
    <2> QED
      BY <2>1, <2>4, <2>5 DEF Seen, Plain, Reached, Writing
  <1>3. "step length" \in Writing /\ "state pointer" \in Writing /\ "state length" \in Writing
    BY DEF Writing
  <1> QED
    BY <1>1, <1>2, <1>3

Seeing == Typed /\ Undisturbed /\ overlapped = {}

ViewIsSeen ==
  \A i \in DOMAIN objects :
    /\ \A r \in InFlight : frame[r].id = i => View[i] = Seen(objects[i], frame[r], pc[r])
    /\ (\A r \in InFlight : frame[r].id # i) => View[i] = Plain(objects[i])

\* An instance is seen with the one call that is at work on it, if there is one.
LEMMA ViewAt == Seeing => ViewIsSeen
  <1> SUFFICES ASSUME Typed, Undisturbed, overlapped = {}, NEW i \in DOMAIN objects
               PROVE  /\ \A r \in InFlight : frame[r].id = i =>
                           View[i] = Seen(objects[i], frame[r], pc[r])
                      /\ (\A r \in InFlight : frame[r].id # i) => View[i] = Plain(objects[i])
    BY DEF Seeing, ViewIsSeen
  <1>1. View[i] = IF Changing(i) # {}
                    THEN Advance([Stored(i) EXCEPT
                                    !.step = frame[CHOOSE q \in Changing(i) : TRUE].fromStep],
                                 frame[CHOOSE q \in Changing(i) : TRUE].act)
                    ELSE Stored(i)
    BY DEF View
  <1>2. Stored(i) = Plain(objects[i])
    BY DEF Stored, Plain
  <1>3. ASSUME NEW r \in InFlight, frame[r].id = i
        PROVE  View[i] = Seen(objects[i], frame[r], pc[r])
    <2>1. \A q \in InFlight : frame[q].id = i => q = r
      BY <1>3 DEF Undisturbed
    <2>2. CASE pc[r] \in Writing
      <3>1. Changing(i) = {r}
        BY <1>3, <2>1, <2>2 DEF Changing, Writing
      <3>2. (CHOOSE q \in Changing(i) : TRUE) = r
        BY <3>1
      <3> QED
        BY <1>1, <1>2, <2>2, <3>1, <3>2 DEF Seen
    <2>3. CASE pc[r] \notin Writing
      <3>1. Changing(i) = {}
        BY <2>1, <2>3 DEF Changing, Writing
      <3> QED
        BY <1>1, <1>2, <2>3, <3>1 DEF Seen
    <2> QED
      BY <2>2, <2>3
  <1>4. ASSUME \A r \in InFlight : frame[r].id # i
        PROVE  View[i] = Plain(objects[i])
    <2>1. Changing(i) = {}
      BY <1>4 DEF Changing
    <2> QED
      BY <1>1, <1>2, <2>1
  <1> QED
    BY <1>3, <1>4

\* An instance that no call touches looks as before.
LEMMA SeenKept ==
  ASSUME Seeing, Seeing', NEW i \in DOMAIN objects, i \in DOMAIN objects',
         objects'[i] = objects[i],
         \A q \in InFlight : frame[q].id = i =>
           q \in InFlight' /\ frame'[q] = frame[q] /\ pc'[q] = pc[q],
         \A q \in InFlight' : frame'[q].id = i => q \in InFlight /\ frame[q].id = i
  PROVE  View'[i] = View[i]
  <1>1. /\ \A r \in InFlight : frame[r].id = i => View[i] = Seen(objects[i], frame[r], pc[r])
        /\ (\A r \in InFlight : frame[r].id # i) => View[i] = Plain(objects[i])
    BY ViewAt DEF ViewIsSeen
  <1>2. /\ \A r \in InFlight' : frame'[r].id = i =>
             View'[i] = Seen(objects'[i], frame'[r], pc'[r])
        /\ (\A r \in InFlight' : frame'[r].id # i) => View'[i] = Plain(objects'[i])
    <2>1. ViewIsSeen'
      BY ViewAt, PTL
    <2> QED
      BY <2>1 DEF ViewIsSeen
  <1>3. CASE \E r \in InFlight : frame[r].id = i
    BY <1>1, <1>2, <1>3
  <1>4. CASE \A r \in InFlight : frame[r].id # i
    BY <1>1, <1>2, <1>4
  <1> QED
    BY <1>3, <1>4

\* A call at work on an instance goes on, ends, or only looks; of all the instances
\* only its own may look different afterwards.
LEMMA OneViewChanges ==
  ASSUME Seeing, Seeing', NEW r \in InFlight, NEW stage, GoTo(r, stage),
         DOMAIN objects' = DOMAIN objects,
         \A i \in DOMAIN objects : i # frame[r].id => objects'[i] = objects[i],
         frame'[r].id = frame[r].id, \A q \in Requests : q # r => frame'[q] = frame[q]
  PROVE  /\ DOMAIN View' = DOMAIN View
         /\ \A i \in DOMAIN objects : i # frame[r].id => View'[i] = View[i]
         /\ frame[r].id \in DOMAIN objects
         /\ View[frame[r].id] = Seen(objects[frame[r].id], frame[r], pc[r])
         /\ View'[frame[r].id] = IF stage \in Ended THEN Plain(objects'[frame[r].id])
                                 ELSE Seen(objects'[frame[r].id], frame'[r], stage)
  <1> DEFINE home == frame[r].id
  <1>0. r \in Requests /\ home \in DOMAIN objects
    BY DEF InFlight, Seeing, Typed, FrameOK
  <1>1. /\ pc'[r] = stage
        /\ \A q \in Requests : q # r => pc'[q] = pc[q]
        /\ \A q \in InFlight' : q = r \/ q \in InFlight
        /\ \A q \in InFlight : q = r \/ q \in InFlight'
        /\ r \in InFlight' <=> stage \notin Ended
    BY <1>0, GoneTo DEF Typed, Seeing
  <1>2. \A q \in InFlight' : q \in InFlight /\ q \in Requests /\ frame'[q].id = frame[q].id
    BY <1>1 DEF InFlight
  <1>3. ASSUME NEW i \in DOMAIN objects, i # home PROVE View'[i] = View[i]
    <2>1. \A q \in InFlight : frame[q].id = i =>
            q \in InFlight' /\ frame'[q] = frame[q] /\ pc'[q] = pc[q]
      BY <1>1, <1>3 DEF InFlight
    <2>2. \A q \in InFlight' : frame'[q].id = i => q \in InFlight /\ frame[q].id = i
      BY <1>2
    <2>3. objects'[i] = objects[i] /\ i \in DOMAIN objects'
      BY <1>3
    <2> QED
      BY <2>1, <2>2, <2>3, SeenKept
  <1>4. ViewIsSeen /\ ViewIsSeen'
    BY ViewAt, PTL
  <1>5. View[home] = Seen(objects[home], frame[r], pc[r])
    BY <1>0, <1>4 DEF ViewIsSeen
  <1>6. CASE stage \in Ended
    <2>1. \A q \in InFlight' : frame'[q].id # home
      <3>1. \A q \in InFlight : frame[q].id = home => q = r
        BY <1>0 DEF Seeing, Undisturbed
      <3> QED
        BY <1>1, <1>2, <1>6, <3>1
    <2>2. View'[home] = Plain(objects'[home])
      BY <1>0, <1>4, <2>1 DEF ViewIsSeen
    <2> QED
      BY <1>0, <1>3, <1>5, <1>6, <2>2 DEF View
  <1>7. CASE stage \notin Ended
    <2>1. View'[home] = Seen(objects'[home], frame'[r], pc'[r])
      BY <1>0, <1>1, <1>4, <1>7 DEF ViewIsSeen
    <2> QED
      BY <1>0, <1>1, <1>3, <1>5, <1>7, <2>1 DEF View
  <1> QED
    BY <1>6, <1>7

LEMMA SameView ==
  ASSUME DOMAIN View' = DOMAIN View, \A i \in DOMAIN objects : View'[i] = View[i]
  PROVE  View' = View
  <1>1. View = [i \in DOMAIN View |-> View[i]] /\ DOMAIN View = DOMAIN objects
    BY DEF View
  <1>2. View' = [i \in DOMAIN View' |-> View'[i]]
    BY DEF View
  <1> QED
    BY <1>1, <1>2

LEMMA IsASequence ==
  ASSUME NEW S, NEW n \in Nat, NEW f, f = [i \in 1 .. n |-> f[i]], \A i \in 1 .. n : f[i] \in S
  PROVE  f \in Seq(S) /\ Len(f) = n
  OBVIOUS

LEMMA IsAnAppend ==
  ASSUME NEW S, NEW s \in Seq(S), NEW x \in S, NEW g,
         DOMAIN g = 1 .. (Len(s) + 1), g = [i \in DOMAIN g |-> g[i]],
         \A i \in 1 .. Len(s) : g[i] = s[i], g[Len(s) + 1] = x
  PROVE  g = Append(s, x)
  OBVIOUS

LEMMA CreatedPlain ==
  ASSUME NEW t
  PROVE  Plain(Created(t)) = [type |-> t, step |-> Definitions[t].initialStep,
                              state |-> Definitions[t].initialState, finished |-> FALSE]
  <1> DEFINE o == Created(t)
  <1>1. /\ o.type = t /\ o.finished = FALSE
        /\ o.step = Words(Definitions[t].initialStep)
        /\ o.state = Words(Definitions[t].initialState)
    BY DEF Created
  <1> HIDE DEF o
  <1>2. Read(o.step) = Definitions[t].initialStep /\ Read(o.state) = Definitions[t].initialState
    BY <1>1, WholeField
  <1>3. Plain(o) = [type |-> t, step |-> Definitions[t].initialStep,
                    state |-> Definitions[t].initialState, finished |-> FALSE]
    BY <1>1, <1>2 DEF Plain
  <1> QED
    BY <1>3 DEF o

\* A new instance stands at the start of its workflow, and no one is at work on it.
LEMMA CreateIsCreate ==
  ASSUME Seeing, Seeing', NEW r \in Requests, CreateInstance(r)
  PROVE  FSM!Next
  <1>1. PICK t \in DOMAIN Definitions : objects' = Append(objects, Created(t))
    BY DEF CreateInstance, Created
  <1> DEFINE n == Len(objects)
             new == [type |-> t, step |-> Definitions[t].initialStep,
                     state |-> Definitions[t].initialState, finished |-> FALSE]
  <1>2. /\ objects' \in Seq(Object)
        /\ n \in Nat /\ n + 1 \in DOMAIN objects' /\ n + 1 \notin DOMAIN objects
        /\ objects'[n + 1] = Created(t)
        /\ \A i \in DOMAIN objects : i \in DOMAIN objects' /\ objects'[i] = objects[i]
    BY <1>1, Creating DEF Seeing
  <1>3. Typed /\ GoTo(r, "returned") /\ frame' = frame /\ pc[r] = "idle"
    BY DEF CreateInstance, MayBegin, Seeing
  <1>4. InFlight' = InFlight /\ \A q \in InFlight : pc'[q] = pc[q]
    BY <1>3, GoneTo DEF InFlight, Ended, Typed, GoTo
  <1>5. ASSUME NEW i \in DOMAIN objects PROVE View'[i] = View[i]
    <2>1. i \in DOMAIN objects' /\ objects'[i] = objects[i]
      BY <1>2
    <2> QED
      BY <1>3, <1>4, <2>1, SeenKept
  <1>6. View'[n + 1] = new
    <2>1. \A q \in InFlight' : frame'[q].id # n + 1
      BY <1>2, <1>3, <1>4 DEF Typed, FrameOK
    <2>2. ViewIsSeen'
      BY ViewAt, PTL
    <2>3. View'[n + 1] = Plain(objects'[n + 1])
      BY <1>2, <2>1, <2>2 DEF ViewIsSeen
    <2> QED
      BY <1>2, <2>3, CreatedPlain
  <1>7. DOMAIN objects = 1 .. n /\ DOMAIN objects' = 1 .. (n + 1)
    BY <1>1, <1>2, <1>3 DEF Typed
  <1>8. /\ View = [i \in 1 .. n |-> View[i]] /\ DOMAIN View' = 1 .. (n + 1)
        /\ View' = [i \in DOMAIN View' |-> View'[i]]
    BY <1>7 DEF View
  <1> DEFINE S == {View[i] : i \in 1 .. n} \cup {new}
             now == View'
             was == View
  <1>9. was \in Seq(S) /\ Len(was) = n
    <2>1. \A i \in 1 .. n : was[i] \in S
      OBVIOUS
    <2>2. was = [i \in 1 .. n |-> was[i]]
      BY <1>8
    <2> HIDE DEF S, was
    <2> QED
      BY <1>2, <2>1, <2>2, IsASequence
  <1>10. new \in S
    OBVIOUS
  <1>11. /\ DOMAIN now = 1 .. (Len(was) + 1) /\ now = [i \in DOMAIN now |-> now[i]]
         /\ \A i \in 1 .. Len(was) : now[i] = was[i]
         /\ now[Len(was) + 1] = new
    BY <1>5, <1>6, <1>7, <1>8, <1>9
  <1>12. now = Append(was, new)
    <2> HIDE DEF S, new, now, was
    <2> QED
      BY <1>9, <1>10, <1>11, IsAnAppend
  <1>13. FSM!Create(t)
    BY <1>12 DEF FSM!Create
  <1> QED
    BY <1>13 DEF FSM!Next

\* FinishedAt is seen at once, with or without a call at work.
Closed(row) == [row EXCEPT !.finished = TRUE]

LEMMA ClosedRow ==
  ASSUME NEW t, NEW s, NEW u, NEW v
  PROVE  Closed(Row(t, s, u, v)) = Row(t, s, u, TRUE)
  <1> DEFINE row == Row(t, s, u, v)
             closed == [row EXCEPT !.finished = TRUE]
  <1>1. row = Row(t, s, u, v) /\ closed = [row EXCEPT !.finished = TRUE]
    OBVIOUS
  <1>2. Closed(row) = closed
    BY DEF Closed
  <1> HIDE DEF row, closed
  <1>3. closed = Row(t, s, u, TRUE)
    BY <1>1 DEF Row
  <1> QED
    BY <1>2, <1>3 DEF row

FinishedFrom(o, p) ==
  p.type = o.type /\ p.step = o.step /\ p.state = o.state /\ p.finished = TRUE

LEMMA FinishedSeen ==
  ASSUME NEW o, NEW p, NEW f, NEW stage, FinishedFrom(o, p)
  PROVE  Seen(p, f, stage) = Closed(Seen(o, f, stage)) /\ Plain(p) = Closed(Plain(o))
  <1> DEFINE newStep == OrElse(f.act.nextStep, f.fromStep)
             newState == OrElse(f.act.newState, Read(o.state))
  <1>1. /\ Plain(o) = Row(o.type, Read(o.step), Read(o.state), o.finished)
        /\ Plain(p) = Row(o.type, Read(o.step), Read(o.state), TRUE)
    BY DEF Plain, Row, FinishedFrom
  <1>2. Plain(p) = Closed(Plain(o))
    BY ONLY <1>1, ClosedRow
  <1>3. CASE stage \notin Writing
    BY <1>2, <1>3 DEF Seen
  <1>4. CASE stage \in Writing
    <2>1. Seen(p, f, stage) = Row(o.type, newStep, newState, TRUE)
      BY <1>4 DEF Seen, Advance, Plain, Row, FinishedFrom
    <2>2. Seen(o, f, stage) = Row(o.type, newStep, newState, o.finished)
      BY <1>4 DEF Seen, Advance, Plain, Row
    <2> HIDE DEF newStep, newState
    <2>3. Seen(p, f, stage) = Closed(Seen(o, f, stage))
      BY ONLY <2>1, <2>2, ClosedRow
    <2> QED
      BY <1>2, <2>3
  <1> QED
    BY <1>3, <1>4

\* FinishInstance on any instance, whatever a transition does on it meanwhile.
LEMMA FinishIsFinish ==
  ASSUME Seeing, Seeing', NEW r \in Requests, FinishInstance(r)
  PROVE  FSM!Next
  <1>1. PICK i \in DOMAIN objects : objects' = [objects EXCEPT ![i].finished = TRUE]
    BY DEF FinishInstance
  <1>2. /\ DOMAIN objects' = DOMAIN objects
        /\ objects'[i] = [objects[i] EXCEPT !.finished = TRUE]
        /\ \A j \in DOMAIN objects : j # i => objects'[j] = objects[j]
        /\ objects[i] \in Object
    BY <1>1, Finishing DEF Seeing, Typed
  <1>3. Typed /\ GoTo(r, "returned") /\ frame' = frame /\ pc[r] = "idle"
    BY DEF FinishInstance, MayBegin, Seeing
  <1>4. InFlight' = InFlight /\ \A q \in InFlight : pc'[q] = pc[q]
    BY <1>3, GoneTo DEF InFlight, Ended, Typed, GoTo
  <1>5. ASSUME NEW j \in DOMAIN objects, j # i PROVE View'[j] = View[j]
    <2>1. j \in DOMAIN objects' /\ objects'[j] = objects[j]
      BY <1>2, <1>5
    <2> QED
      BY <1>3, <1>4, <2>1, SeenKept
  <1>6. ViewIsSeen /\ ViewIsSeen'
    BY ViewAt, PTL
  <1>7. View'[i] = Closed(View[i])
    <2>0. FinishedFrom(objects[i], objects'[i])
      BY <1>2 DEF Object, FinishedFrom
    <2>1. CASE \A q \in InFlight : frame[q].id # i
      <3>1. View[i] = Plain(objects[i]) /\ View'[i] = Plain(objects'[i])
        BY <1>2, <1>3, <1>4, <1>6, <2>1 DEF ViewIsSeen
      <3> QED
        BY <2>0, <3>1, FinishedSeen
    <2>2. CASE \E q \in InFlight : frame[q].id = i
      <3>1. PICK q \in InFlight : frame[q].id = i
        BY <2>2
      <3>2. View[i] = Seen(objects[i], frame[q], pc[q])
        BY <1>6, <3>1 DEF ViewIsSeen
      <3>3. q \in InFlight' /\ frame'[q].id = i /\ i \in DOMAIN objects'
        BY <1>2, <1>3, <1>4, <3>1
      <3>4. View'[i] = Seen(objects'[i], frame'[q], pc'[q])
        BY <1>6, <3>3 DEF ViewIsSeen
      <3>5. frame'[q] = frame[q] /\ pc'[q] = pc[q]
        BY <1>3, <1>4
      <3>6. Seen(objects'[i], frame[q], pc[q]) = Closed(Seen(objects[i], frame[q], pc[q]))
        BY <2>0, FinishedSeen
      <3> QED
        BY ONLY <3>2, <3>4, <3>5, <3>6
    <2> QED
      BY <2>1, <2>2
  <1>8. View' = [View EXCEPT ![i].finished = TRUE]
    <2>1. View = [j \in DOMAIN objects |-> View[j]] /\ View' = [j \in DOMAIN objects |-> View'[j]]
      BY <1>2 DEF View
    <2>2. View' = [View EXCEPT ![i] = Closed(View[i])]
      BY <1>5, <1>7, <2>1
    <2> QED
      BY <2>2 DEF Closed
  <1>9. i \in DOMAIN View
    BY DEF View
  <1>10. FSM!Finish(i)
    BY <1>8 DEF FSM!Finish
  <1> QED
    BY <1>9, <1>10 DEF FSM!Next

\* A call that stores nothing changes nothing that can be seen.
LEMMA LooksOnly ==
  ASSUME Seeing, Seeing', NEW r \in InFlight, NEW stage, GoTo(r, stage), UNCHANGED objects,
         frame'[r].id = frame[r].id, \A q \in Requests : q # r => frame'[q] = frame[q],
         pc[r] \notin Writing, stage \notin Writing
  PROVE  View' = View
  <1> DEFINE home == frame[r].id
  <1>1. /\ DOMAIN View' = DOMAIN View
        /\ \A i \in DOMAIN objects : i # home => View'[i] = View[i]
        /\ View[home] = Seen(objects[home], frame[r], pc[r])
        /\ View'[home] = IF stage \in Ended THEN Plain(objects'[home])
                         ELSE Seen(objects'[home], frame'[r], stage)
    BY OneViewChanges
  <1>2. View[home] = Plain(objects[home]) /\ View'[home] = Plain(objects'[home])
    BY <1>1 DEF Seen
  <1> QED
    BY <1>1, <1>2, SameView

LEMMA BeginLooksOnly ==
  ASSUME Seeing, Seeing', NEW r \in Requests, BeginTransition(r)
  PROVE  View' = View
  <1>1. UNCHANGED objects /\ pc[r] = "idle" /\ overlapped' = {} /\ Typed
    BY DEF BeginTransition, MayBegin, Seeing
  <1>2. PICK i \in DOMAIN objects, a \in ActionNames :
          /\ overlapped' = IF \E q \in InFlight : frame[q].id = i
                             THEN overlapped \cup {i} ELSE overlapped
          /\ \/ GoTo(r, "failed") /\ UNCHANGED frame
             \/ \E step \in GetStep(Definitions[objects[i].type], Read(objects[i].step)) :
                  /\ frame' = [frame EXCEPT ![r] = [id |-> i, action |-> a,
                                                    stepName |-> step.name]]
                  /\ GoTo(r, "getAction")
    BY DEF BeginTransition
  <1>3. \A q \in InFlight : frame[q].id # i
    BY <1>1, <1>2
  <1>4. DOMAIN View' = DOMAIN View
    BY <1>1 DEF View
  <1>5. r \notin InFlight
    BY <1>1 DEF InFlight
  <1>6. CASE GoTo(r, "failed") /\ UNCHANGED frame
    <2>1. InFlight' = InFlight /\ \A q \in InFlight : pc'[q] = pc[q]
      BY <1>1, <1>5, <1>6, GoneTo DEF InFlight, Ended, Typed, GoTo
    <2>2. \A j \in DOMAIN objects : View'[j] = View[j]
      BY <1>1, <1>6, <2>1, SeenKept
    <2> QED
      BY <1>4, <2>2, SameView
  <1>7. ASSUME NEW step, GoTo(r, "getAction"),
               frame' = [frame EXCEPT ![r] = [id |-> i, action |-> a, stepName |-> step.name]]
        PROVE  View' = View
    <2>1. /\ pc'[r] = "getAction" /\ r \in InFlight'
          /\ \A q \in Requests : q # r => pc'[q] = pc[q]
          /\ \A q \in InFlight' : q = r \/ q \in InFlight
          /\ \A q \in InFlight : q = r \/ q \in InFlight'
      BY <1>1, <1>7, GoneTo DEF Ended, Typed
    <2>2. frame'[r].id = i /\ \A q \in Requests : q # r => frame'[q] = frame[q]
      BY <1>1, <1>7 DEF Typed
    <2>3. \A q \in InFlight :
            q \in Requests /\ q # r /\ q \in InFlight' /\ frame'[q] = frame[q] /\ pc'[q] = pc[q]
      BY <1>5, <2>1, <2>2 DEF InFlight
    <2>4. ASSUME NEW j \in DOMAIN objects, j # i PROVE View'[j] = View[j]
      <3>1. \A q \in InFlight' : frame'[q].id = j => q \in InFlight /\ frame[q].id = j
        BY <2>1, <2>2, <2>3, <2>4
      <3>2. j \in DOMAIN objects' /\ objects'[j] = objects[j]
        BY <1>1
      <3> QED
        BY <2>3, <3>1, <3>2, SeenKept
    <2>5. ViewIsSeen /\ ViewIsSeen'
      BY ViewAt, PTL
    <2>6. View[i] = Plain(objects[i])
      BY <1>3, <2>5 DEF ViewIsSeen
    <2>7. View'[i] = Seen(objects'[i], frame'[r], pc'[r])
      BY <1>1, <2>1, <2>2, <2>5 DEF ViewIsSeen
    <2>8. View'[i] = View[i]
      BY <1>1, <2>1, <2>6, <2>7 DEF Seen, Writing
    <2>9. \A j \in DOMAIN objects : View'[j] = View[j]
      BY <2>4, <2>8
    <2> QED
      BY <1>4, <2>9, SameView
  <1> QED
    BY <1>2, <1>6, <1>7

LEMMA OthersLookOnly ==
  ASSUME Seeing, Seeing', NEW r \in Requests,
         FindAction(r) \/ Checks(r) \/ CreateTransition(r) \/ SendEvent(r)
  PROVE  View' = View
  <1>1. CASE FindAction(r)
    <2>1. /\ UNCHANGED objects /\ pc[r] = "getAction" /\ Typed
          /\ GoTo(r, "failed") \/ GoTo(r, "checks")
      BY <1>1 DEF FindAction, Seeing
    <2>2. frame'[r].id = frame[r].id /\ \A q \in Requests : q # r => frame'[q] = frame[q]
      BY <1>1, <2>1 DEF FindAction, Typed
    <2>3. r \in InFlight
      BY <2>1, Acting DEF Ended
    <2> QED
      BY <2>1, <2>2, <2>3, LooksOnly DEF Writing
  <1>2. CASE Checks(r)
    <2>1. /\ UNCHANGED objects /\ pc[r] = "checks" /\ Typed
          /\ GoTo(r, "failed") \/ GoTo(r, "step pointer")
      BY <1>2 DEF Checks, Seeing
    <2>2. frame'[r].id = frame[r].id /\ \A q \in Requests : q # r => frame'[q] = frame[q]
      BY <1>2, <2>1 DEF Checks, Typed
    <2>3. r \in InFlight
      BY <2>1, Acting DEF Ended
    <2> QED
      BY <2>1, <2>2, <2>3, LooksOnly DEF Writing
  <1>3. CASE CreateTransition(r) \/ SendEvent(r)
    <2>1. /\ UNCHANGED <<objects, frame>> /\ Typed
          /\ \/ pc[r] = "createTransition" /\ GoTo(r, "sendEvent")
             \/ pc[r] = "sendEvent" /\ GoTo(r, "returned")
      BY <1>3 DEF CreateTransition, SendEvent, Seeing
    <2>2. r \in InFlight
      BY <2>1, Acting DEF Ended
    <2> QED
      BY <2>1, <2>2, LooksOnly DEF Writing
  <1> QED
    BY <1>1, <1>2, <1>3

\* What the call r sees of its instance as it stores one word of it.
LEMMA OneWord ==
  ASSUME Seeing, Seeing', NEW r \in InFlight, NEW next, GoTo(r, next), next \notin Ended,
         UNCHANGED frame, OnlyStepOf(frame[r].id) \/ OnlyStateOf(frame[r].id)
  PROVE  /\ InStep(objects[frame[r].id], frame[r], pc[r])
         /\ InStep(objects'[frame[r].id], frame[r], next)
         /\ DOMAIN View' = DOMAIN View /\ frame[r].id \in DOMAIN objects
         /\ \A i \in DOMAIN objects : i # frame[r].id => View'[i] = View[i]
         /\ View[frame[r].id] = Seen(objects[frame[r].id], frame[r], pc[r])
         /\ View'[frame[r].id] = Seen(objects'[frame[r].id], frame[r], next)
  <1> DEFINE home == frame[r].id
  <1>1. /\ DOMAIN objects' = DOMAIN objects
        /\ \A i \in DOMAIN objects : i # home => objects'[i] = objects[i]
    BY DEF OnlyStepOf, OnlyStateOf
  <1>2. /\ DOMAIN View' = DOMAIN View
        /\ \A i \in DOMAIN objects : i # home => View'[i] = View[i]
        /\ home \in DOMAIN objects
        /\ View[home] = Seen(objects[home], frame[r], pc[r])
        /\ View'[home] = Seen(objects'[home], frame[r], next)
    BY <1>1, OneViewChanges
  <1>3. InStep(objects[home], frame[r], pc[r])
    BY <1>2 DEF Seeing, Undisturbed
  <1>4. r \in Requests /\ Typed
    BY DEF InFlight, Seeing
  <1>5. r \in InFlight' /\ pc'[r] = next
    BY <1>4, GoneTo DEF Typed
  <1>6. InStep(objects'[home], frame'[r], pc'[r])
    BY <1>1, <1>2, <1>5 DEF Seeing, Undisturbed
  <1> QED
    BY <1>2, <1>3, <1>5, <1>6

\* The first word of the step is the move; the other three hide behind it.
LEMMA AssignStepMoves ==
  ASSUME Seeing, Seeing', NEW r \in Requests, AssignStep(r)
  PROVE  FSM!Next \/ View' = View
  <1> DEFINE home == frame[r].id
             f == frame[r]
             o == objects[home]
             p == objects'[home]
  <1>1. UNCHANGED frame /\ pc[r] \in {"step pointer", "step length"} /\ Typed
    BY DEF AssignStep, Seeing
  <1>2. r \in InFlight /\ FrameOK(f, pc[r]) /\ o \in Object
    BY <1>1, Acting DEF Ended
  <1>3. f.act.nextStep \in StepNames \cup {Blank} /\ f.act.name \in ActionNames
    BY <1>1, <1>2, ActionTyped DEF FrameOK
  <1>4. CASE pc[r] = "step pointer"
    <2>1. Store(r, "step", 1, f.act.nextStep, "step length") /\ GoTo(r, "step length")
      BY <1>4 DEF AssignStep, Store
    <2>2. OnlyStepOf(home)
      BY <1>1, <1>2, <1>3, <2>1, StoreStep
    <2>3. /\ InStep(o, f, "step pointer") /\ InStep(p, f, "step length")
          /\ DOMAIN View' = DOMAIN View /\ home \in DOMAIN objects
          /\ \A i \in DOMAIN objects : i # home => View'[i] = View[i]
          /\ View[home] = Seen(o, f, "step pointer") /\ View'[home] = Seen(p, f, "step length")
      BY <1>1, <1>2, <1>4, <2>1, <2>2, OneWord DEF Ended
    <2>4. p.type = o.type /\ p.state = o.state /\ p.finished = o.finished
      BY <2>2 DEF OnlyStepOf
    <2>5. Seen(p, f, "step length") = Advance(Seen(o, f, "step pointer"), f.act)
      <3> HIDE DEF o, p, f, home
      <3> QED
        BY <2>3, <2>4, FirstWordMoves
    <2>6. View'[home] = Advance(View[home], f.act)
      BY <2>3, <2>5
    <2>7. View' = [View EXCEPT ![home] = Advance(@, f.act)]
      <3>1. /\ View = [i \in DOMAIN objects |-> View[i]] /\ DOMAIN View = DOMAIN objects
            /\ View' = [i \in DOMAIN objects |-> View'[i]]
        BY <2>2 DEF View, OnlyStepOf
      <3> QED
        BY <2>3, <2>6, <3>1
    <2>8. f.act \in GetTransitionAction(Definitions[View[home].type], View[home].step, f.act.name)
      <3>1. View[home].type = o.type /\ View[home].step = Read(o.step)
        <4>1. View[home] = Plain(o)
          BY <2>3 DEF Seen, Writing
        <4> QED
          BY <4>1 DEF Plain
      <3>2. o.step = Words(f.stepName) /\ Found(o, f)
        BY <2>3 DEF InStep
      <3>3. Read(o.step) = f.stepName
        BY <3>2, WholeField
      <3> QED
        BY <3>1, <3>2, <3>3 DEF Found
    <2>9. FSM!Move(home, f.act.name)
      <3>1. f.act \in FSM!GetTransitionAction(Definitions[View[home].type], View[home].step,
                                             f.act.name)
        BY <2>8, SameDefinitions
      <3>2. View' = [View EXCEPT ![home] = FSM!Advance(@, f.act)]
        BY <2>7, SameDefinitions
      <3> QED
        BY <3>1, <3>2 DEF FSM!Move
    <2>10. home \in DOMAIN View
      BY <2>3 DEF View
    <2> QED
      BY <1>3, <2>9, <2>10 DEF FSM!Next
  <1>5. CASE pc[r] = "step length"
    <2>1. Store(r, "step", 2, f.act.nextStep, "state pointer") /\ GoTo(r, "state pointer")
      BY <1>5 DEF AssignStep, Store
    <2>2. OnlyStepOf(home)
      BY <1>1, <1>2, <1>3, <2>1, StoreStep
    <2>3. /\ InStep(o, f, "step length") /\ InStep(p, f, "state pointer")
          /\ DOMAIN View' = DOMAIN View /\ home \in DOMAIN objects
          /\ \A i \in DOMAIN objects : i # home => View'[i] = View[i]
          /\ View[home] = Seen(o, f, "step length") /\ View'[home] = Seen(p, f, "state pointer")
      BY <1>1, <1>2, <1>5, <2>1, <2>2, OneWord DEF Ended
    <2>4. p.type = o.type /\ p.state = o.state /\ p.finished = o.finished
      BY <2>2 DEF OnlyStepOf
    <2>5. Seen(p, f, "state pointer") = Seen(o, f, "step length")
      <3>1. p.state[2] = o.state[2]
        BY <2>4
      <3> HIDE DEF o, p, f, home
      <3> QED
        BY <2>3, <2>4, <3>1, OtherWordsHide
    <2>6. \A i \in DOMAIN objects : View'[i] = View[i]
      BY <2>3, <2>5
    <2> QED
      BY <2>3, <2>6, SameView
  <1> QED
    BY <1>1, <1>4, <1>5

LEMMA AssignStateHides ==
  ASSUME Seeing, Seeing', NEW r \in Requests, AssignState(r)
  PROVE  View' = View
  <1> DEFINE home == frame[r].id
             f == frame[r]
             o == objects[home]
             p == objects'[home]
  <1>1. UNCHANGED frame /\ pc[r] \in {"state pointer", "state length"} /\ Typed
    BY DEF AssignState, Seeing
  <1>2. r \in InFlight /\ FrameOK(f, pc[r]) /\ o \in Object
    BY <1>1, Acting DEF Ended
  <1>3. f.act.newState \in StateNames \cup {Blank}
    BY <1>1, <1>2, ActionTyped DEF FrameOK
  <1>0. PICK w \in {1, 2} : \E next :
          /\ Store(r, "state", w, f.act.newState, next)
          /\ \/ w = 1 /\ pc[r] = "state pointer" /\ next = "state length"
             \/ w = 2 /\ pc[r] = "state length" /\ next = "createTransition"
    BY DEF AssignState
  <1>4. PICK next :
          /\ Store(r, "state", w, f.act.newState, next)
          /\ \/ w = 1 /\ pc[r] = "state pointer" /\ next = "state length"
             \/ w = 2 /\ pc[r] = "state length" /\ next = "createTransition"
    BY <1>0
  <1>5. /\ OnlyStateOf(home) /\ GoTo(r, next)
        /\ p.state = IF f.act.newState = Blank THEN o.state
                                               ELSE [o.state EXCEPT ![w] = f.act.newState]
    <2>0. Typed
      BY <1>1
    <2>1. OnlyStateOf(home)
      BY <1>2, <1>3, <1>4, <2>0, StoreState
    <2>2. objects'[home].state =
            IF f.act.newState = Blank THEN objects[home].state
                                      ELSE [objects[home].state EXCEPT ![w] = f.act.newState]
      <3>1. Store(r, "state", w, f.act.newState, next)
        BY <1>4
      <3> HIDE DEF o, p
      <3> QED
        BY <1>2, <1>3, <2>0, <3>1, StoreState
    <2>3. GoTo(r, next)
      BY <1>4 DEF Store
    <2> QED
      BY <2>1, <2>2, <2>3
  <1>6. /\ InStep(o, f, pc[r]) /\ InStep(p, f, next)
        /\ DOMAIN View' = DOMAIN View /\ home \in DOMAIN objects
        /\ \A i \in DOMAIN objects : i # home => View'[i] = View[i]
        /\ View[home] = Seen(o, f, pc[r]) /\ View'[home] = Seen(p, f, next)
    BY <1>1, <1>2, <1>4, <1>5, OneWord DEF Ended
  <1>7. p.type = o.type /\ p.step = o.step /\ p.finished = o.finished
    BY <1>5 DEF OnlyStateOf
  <1>8. w = 1 => p.state[2] = o.state[2]
    BY <1>2, <1>5, ObjectTyped
  <1>9. w = 2 => p.state[1] = o.state[1]
    BY <1>2, <1>5, ObjectTyped
  <1>10. Seen(p, f, next) = Seen(o, f, pc[r])
    <2> HIDE DEF o, p, f, home
    <2>1. CASE w = 1 /\ pc[r] = "state pointer" /\ next = "state length"
      <3>1. InStep(o, f, "state pointer") /\ InStep(p, f, "state length")
        BY <1>6, <2>1
      <3>2. Seen(p, f, "state length") = Seen(o, f, "state pointer")
        BY <1>7, <1>8, <2>1, <3>1, OtherWordsHide
      <3> QED
        BY <2>1, <3>2
    <2>2. CASE w = 2 /\ pc[r] = "state length" /\ next = "createTransition"
      <3>1. InStep(o, f, "state length") /\ InStep(p, f, "createTransition")
        BY <1>6, <2>2
      <3>2. Seen(p, f, "createTransition") = Seen(o, f, "state length")
        BY <1>7, <1>9, <2>2, <3>1, OtherWordsHide
      <3> QED
        BY <2>2, <3>2
    <2> QED
      BY <1>4, <2>1, <2>2
  <1>11. \A i \in DOMAIN objects : View'[i] = View[i]
    BY <1>6, <1>10
  <1> QED
    BY <1>6, <1>11, SameView

\* One step of the abstract machine, or nothing to be seen, while no calls overlapped.
Followed == [overlapped' = {} => FSM!Next]_View

LEMMA NextFollows ==
  Typed /\ Undisturbed /\ Typed' /\ Undisturbed' /\ [Next]_vars => Followed
  <1> SUFFICES ASSUME Typed, Undisturbed, Typed', Undisturbed', [Next]_vars, overlapped' = {}
               PROVE  FSM!Next \/ View' = View
    BY DEF Followed
  <1>1. CASE UNCHANGED vars
    <2>1. objects' = objects /\ pc' = pc /\ frame' = frame /\ overlapped' = overlapped
      BY <1>1 DEF vars
    <2>2. Seeing /\ Seeing' /\ InFlight' = InFlight
      BY <2>1 DEF Seeing, InFlight
    <2>3. \A i \in DOMAIN objects : View'[i] = View[i]
      BY <2>1, <2>2, SeenKept
    <2>4. DOMAIN View' = DOMAIN View
      BY <2>1 DEF View
    <2> QED
      BY <2>3, <2>4, SameView
  <1>2. ASSUME NEW r \in Requests,
               \/ CreateInstance(r) \/ BeginTransition(r) \/ FindAction(r) \/ Checks(r)
               \/ AssignStep(r) \/ AssignState(r) \/ CreateTransition(r) \/ SendEvent(r)
               \/ FinishInstance(r)
        PROVE  FSM!Next \/ View' = View
    <2>1. overlapped = {}
      BY <1>2 DEF CreateInstance, BeginTransition, FindAction, Checks, AssignStep,
           AssignState, CreateTransition, SendEvent, FinishInstance
    <2>2. Seeing
      BY <2>1 DEF Seeing
    <2>3. Seeing'
      BY DEF Seeing
    <2> QED
      BY <1>2, <2>2, <2>3, CreateIsCreate, BeginLooksOnly, OthersLookOnly, AssignStepMoves,
         AssignStateHides, FinishIsFinish
  <1> QED
    BY <1>1, <1>2 DEF Next

\* service.go:154-210 over this store: as long as no two transitions work on one instance
\* at once, every change of what can be seen of the instances is one step of the abstract
\* machine: a whole move, though the store is changed word by word.
THEOREM UndisturbedRefinesFSM == Spec => ImplementsFSMUntilOverlap
  <1>1. Init => FSM!Init
    BY DEF Init, FSM!Init, View
  <1>2. Spec => [][Followed]_View
    <2>1. Typed /\ Undisturbed /\ Typed' /\ Undisturbed' /\ [Next]_vars => [Followed]_View
      BY NextFollows
    <2> QED
      BY <2>1, AlwaysUndisturbed, PTL DEF Spec
  <1>3. Followed => [overlapped' = {} => FSM!Next]_View
    BY DEF Followed
  <1>4. Spec => [][overlapped' = {} => FSM!Next]_View
    BY <1>2, <1>3, PTL
  <1>5. Spec => FSM!Init
    BY <1>1, PTL DEF Spec
  <1> QED
    BY <1>4, <1>5 DEF ImplementsFSMUntilOverlap
==============================================================================
