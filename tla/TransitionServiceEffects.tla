----------------------- MODULE TransitionServiceEffects -----------------------
(***************************************************************************)
(* Proofs about what a call of TransitionService leaves behind: the rows it*)
(* writes, its record and its event, for every value of the constants.     *)
(* They stand on the inductive invariant of TransitionServiceProofs.  Last *)
(* comes the refinement: without overlap the service is a WorkflowFSM.     *)
(***************************************************************************)
EXTENDS TransitionServiceProofs, FiniteSetTheorems

Record == [req : Requests, instance : Nat, stepName : StepNames,
           actionName : ActionNames, stateName : StateNames]

Event == [req : Requests, instance : Nat, action : ActionNames,
          fromStep : StepNames, toStep : StepNames,
          fromState : StateNames, toState : StateNames]

(***************************************************************************)
(* The strengthening.  A call that has passed one of its effects finds it  *)
(* in the log, and what its frame says was checked or looked up was.       *)
(***************************************************************************)
MoveOf(r) == [op |-> "transition", req |-> r, id |-> frame[r].id, row |-> Moved(frame[r])]

HasWritten(r) == \E j \in DOMAIN writes : writes[j] = MoveOf(r)
HasRecorded(r) == \E j \in DOMAIN transitions : transitions[j] = TransitionRecord(r)
HasOffered(r) == \E j \in DOMAIN offered : offered[j] = TransitionEvent(r)

StepNamed(f) ==
  \E step \in GetStep(Definitions[f.from.type], f.from.step) : step.name = f.stepName

Checked(f) == f.act.validationFunc \in StartupValidations => f.validated

PastValidation == {"emitBefore", "updateInstance", "createTransition", "sendEvent"}

CallInv(r) ==
  /\ pc[r] = "idle" => frame[r] = NoFrame
  /\ pc[r] \in TransitionStages => StepNamed(frame[r])
  /\ pc[r] \in PastValidation => Checked(frame[r])
  /\ pc[r] \in {"createTransition", "sendEvent"} => HasWritten(r)
  /\ pc[r] = "sendEvent" => HasRecorded(r)
  /\ pc[r] = "returned" /\ frame[r].op = "transition" =>
       HasWritten(r) /\ HasRecorded(r) /\ HasOffered(r)

EInv ==
  /\ IInv
  /\ StartupValidations \subseteq validations
  /\ \A r \in Requests : CallInv(r)
  /\ RecordsFollowTheDefinition
  /\ EffectsInOrderAndOnce
  /\ StartupValidationsRun

-----------------------------------------------------------------------------
(* Facts about logs. *)

\* A log keeps its entries.
Keeps(old, new) == \A i \in DOMAIN old : i \in DOMAIN new /\ new[i] = old[i]

\* No request has two entries in a log.
OncePerRequest(log) == \A j, k \in DOMAIN log : log[j].req = log[k].req => j = k

\* A log that gets a request's first entry.
LEMMA FirstEntry ==
  ASSUME NEW S, NEW log \in Seq(S), NEW e \in S, Untraced(log, e.req)
  PROVE  /\ Keeps(log, Append(log, e))
         /\ \A k \in DOMAIN Append(log, e) :
              Append(log, e)[k] = e \/ (k \in DOMAIN log /\ Append(log, e)[k] = log[k])
         /\ \E k \in DOMAIN Append(log, e) : Append(log, e)[k] = e
         /\ OncePerRequest(log) => OncePerRequest(Append(log, e))
  <1> DEFINE new == Append(log, e)
  <1>1. /\ DOMAIN new = 1 .. Len(log) + 1
        /\ DOMAIN log = 1 .. Len(log) /\ Len(log) \in Nat
        /\ \A i \in DOMAIN log : new[i] = log[i]
        /\ new[Len(log) + 1] = e
    BY AppendFacts
  <1> HIDE DEF new
  <1>2. \A k \in DOMAIN new : k \in DOMAIN log \/ k = Len(log) + 1
    BY <1>1
  <1>3. OncePerRequest(log) => OncePerRequest(new)
    BY <1>1, <1>2 DEF OncePerRequest, Untraced
  <1>4. Keeps(log, new)
    BY <1>1 DEF Keeps
  <1>5. /\ \A k \in DOMAIN new : new[k] = e \/ (k \in DOMAIN log /\ new[k] = log[k])
        /\ \E k \in DOMAIN new : new[k] = e
    BY <1>1, <1>2
  <1> QED
    BY <1>3, <1>4, <1>5 DEF new

\* What holds of one call lasts while it is idle and the logs grow.
LEMMA OthersKeep ==
  ASSUME NEW q \in Requests, CallInv(q), pc'[q] = pc[q], frame'[q] = frame[q],
         Keeps(writes, writes'), Keeps(transitions, transitions'), Keeps(offered, offered')
  PROVE  CallInv(q)'
  <1>1. /\ HasWritten(q) => HasWritten(q)'
        /\ HasRecorded(q) => HasRecorded(q)'
        /\ HasOffered(q) => HasOffered(q)'
    BY DEF HasWritten, HasRecorded, HasOffered, Keeps, MoveOf, Moved,
           TransitionRecord, TransitionEvent
  <1> QED
    BY <1>1 DEF CallInv, StepNamed, Checked

-----------------------------------------------------------------------------
(* What the steps of a request do to the logs. *)

\* A request that has left a write is past its write.
LEMMA WritersArePast ==
  ASSUME IInv, NEW k \in DOMAIN writes
  PROVE  writes[k].req \in Requests /\ pc[writes[k].req] \notin BeforeTheWrite
  <1>1. writes \in Seq(Write)
    BY DEF IInv, TypeOK, Write
  <1>2. writes[k] \in Write
    BY <1>1
  <1>3. writes[k].req \in Requests
    BY <1>2 DEF Write
  <1> QED
    BY <1>3 DEF IInv, ProgressInv

\* A step of one request leaves the others where they are, and adds at most one
\* entry of its own to one of the logs.
Silent == UNCHANGED <<instances, writes, transitions, offered>>

Writing(r) ==
  /\ pc[r] \in BeforeTheWrite
  /\ UNCHANGED <<transitions, offered, frame>>
  /\ \A i \in DOMAIN instances : i \in DOMAIN instances' /\ instances'[i].type = instances[i].type
  /\ \E w \in Write : /\ writes' = Append(writes, w)
                      /\ w.req = r
                      /\ w.op = "transition" => pc[r] = "updateInstance" /\ w = MoveOf(r)

Recording(r) ==
  /\ pc[r] = "createTransition"
  /\ transitions' = Append(transitions, TransitionRecord(r))
  /\ UNCHANGED <<instances, writes, offered, frame>>

Offering(r) ==
  /\ pc[r] = "sendEvent"
  /\ offered' = Append(offered, TransitionEvent(r))
  /\ UNCHANGED <<instances, writes, transitions, frame>>

Local(r) ==
  /\ \A q \in Requests \ {r} : pc'[q] = pc[q] /\ frame'[q] = frame[q]
  /\ pc[r] \in BeforeTheWrite \/ frame' = frame
  /\ pc[r] \in {"idle"} \cup Stages
  /\ UNCHANGED validations

\* What a saved row is logged as.
LEMMA SavingIsWriting ==
  ASSUME IInv, NEW r \in Requests, NEW row \in Row, NEW outcome,
         SaveInstance(r, row, outcome),
         \/ pc[r] = "updateInstance" /\ row = Moved(frame[r])
         \/ pc[r] = "saveFinished",
         UNCHANGED <<transitions, offered, frame>>
  PROVE  Silent \/ Writing(r)
  <1>1. CASE ~Commits(outcome)
    BY <1>1 DEF SaveInstance, Silent
  <1>2. CASE Commits(outcome)
    <2> DEFINE id == frame[r].id
               w  == [op |-> frame[r].op, req |-> r, id |-> id, row |-> row]
    <2>1. /\ frame[r] \in TransitionFrame \/ frame[r] \in FinishFrame
          /\ pc[r] = "updateInstance" => frame[r] \in TransitionFrame
          /\ pc[r] = "saveFinished" => frame[r] \in FinishFrame
          /\ pc[r] \in BeforeTheWrite
      BY DEF IInv, FrameInv, TransitionStages, Stages, BeforeTheWrite
    <2>2. /\ frame[r].op \in {"transition", "finish"} /\ id \in Nat
          /\ pc[r] = "updateInstance" => frame[r].op = "transition"
          /\ pc[r] = "saveFinished" => frame[r].op = "finish"
      BY <2>1 DEF TransitionFrame, FinishFrame
    <2>3. w \in Write /\ w.req = r
      BY <2>2 DEF Write
    <2>4. w.op = "transition" => pc[r] = "updateInstance" /\ w = MoveOf(r)
      BY <2>2 DEF MoveOf
    <2>5. writes' = Append(writes, w) /\ instances' = SaveColumns(id, row)
      BY <1>2 DEF SaveInstance
    <2>6. instances \in Seq(Row)
      BY DEF IInv, TypeOK
    <2>7. \A i \in DOMAIN instances :
            i \in DOMAIN instances' /\ instances'[i].type = instances[i].type
      BY <2>5, <2>6 DEF SaveColumns, Row
    <2> HIDE DEF w
    <2> QED
      BY <2>1, <2>3, <2>4, <2>5, <2>7 DEF Writing
  <1> QED
    BY <1>1, <1>2

LEMMA RequestStepIsLocal ==
  ASSUME IInv, NEW r \in Requests, RequestStep(r)
  PROVE  /\ Local(r)
         /\ Silent \/ Writing(r) \/ Recording(r) \/ Offering(r)
  <1>0. pc \in [Requests -> {"idle"} \cup Stages \cup Ends]
        /\ frame \in [Requests -> {NoFrame} \cup FinishFrame \cup TransitionFrame]
    BY DEF IInv, TypeOK
  <1>1. CASE CreateInstance(r)
    <2>1. Local(r)
      BY <1>0, <1>1 DEF CreateInstance, CreateInstanceOf, Local, MayBegin, Fail, Follow, GoTo
    <2>2. PICK t \in WorkflowTypes, outcome \in WriteOutcomes :
            \/ UNCHANGED <<instances, writes>>
            \/ /\ t \in DOMAIN Definitions
               /\ instances' = Append(instances, InitialRow(t))
               /\ writes' = Append(writes, [op |-> "create", req |-> r,
                                            id |-> Len(instances) + 1,
                                            row |-> InitialRow(t)])
      BY <1>1 DEF CreateInstance, CreateInstanceOf
    <2>3. UNCHANGED <<transitions, offered, frame>> /\ pc[r] \in BeforeTheWrite
      BY <1>1 DEF CreateInstance, CreateInstanceOf, MayBegin, BeforeTheWrite
    <2>4. CASE UNCHANGED <<instances, writes>>
      BY <2>1, <2>3, <2>4 DEF Silent
    <2>5. CASE /\ t \in DOMAIN Definitions
               /\ instances' = Append(instances, InitialRow(t))
               /\ writes' = Append(writes, [op |-> "create", req |-> r,
                                            id |-> Len(instances) + 1,
                                            row |-> InitialRow(t)])
      <3> DEFINE row == InitialRow(t)
                 w == [op |-> "create", req |-> r, id |-> Len(instances) + 1, row |-> row]
      <3>1. row \in Row
        BY <2>5, InitialRowReachable
      <3>2. instances \in Seq(Row)
        BY DEF IInv, TypeOK
      <3>3. /\ DOMAIN instances' = 1 .. Len(instances) + 1
            /\ DOMAIN instances = 1 .. Len(instances) /\ Len(instances) \in Nat
            /\ \A i \in DOMAIN instances : instances'[i] = instances[i]
        BY <2>5, <3>1, <3>2, AppendFacts
      <3>4. w \in Write /\ w.req = r /\ w.op # "transition"
        BY <3>1, <3>3 DEF Write
      <3>5. writes' = Append(writes, w)
        BY <2>5
      <3>6. \A i \in DOMAIN instances :
              i \in DOMAIN instances' /\ instances'[i].type = instances[i].type
        BY <3>3
      <3> HIDE DEF w
      <3> QED
        BY <2>1, <2>3, <3>4, <3>5, <3>6 DEF Writing
    <2> QED
      BY <2>2, <2>4, <2>5
  <1>2. CASE BeginTransition(r)
    BY <1>0, <1>2 DEF BeginTransition, BeginTransitionOf, Local, Silent, MayBegin, Fail, GoTo,
                      BeforeTheWrite
  <1>3. CASE BeginWithNoInstance(r)
    BY <1>0, <1>3 DEF BeginWithNoInstance, Local, Silent, MayBegin, Fail, BeforeTheWrite
  <1>4. CASE HasValidation(r)
    BY <1>0, <1>4 DEF HasValidation, Local, Silent, GoTo, Stages
  <1>5. CASE GetValidation(r)
    BY <1>0, <1>5 DEF GetValidation, Local, Silent, GoTo, Fail, Stages, BeforeTheWrite
  <1>6. CASE EmitBefore(r)
    BY <1>0, <1>6 DEF EmitBefore, Local, Silent, GoTo, Fail, Stages, BeforeTheWrite
  <1>7. CASE UpdateInstance(r)
    <2>1. Local(r)
      BY <1>0, <1>7 DEF UpdateInstance, Local, Follow, GoTo, Fail, Stages
    <2>2. Moved(frame[r]) \in Row
      BY <1>7, FrameFacts, AdvanceTyped DEF UpdateInstance, Moved, TransitionStages, Stages
    <2> QED
      BY <1>7, <2>1, <2>2, SavingIsWriting DEF UpdateInstance
  <1>8. CASE CreateTransition(r)
    BY <1>0, <1>8 DEF CreateTransition, Local, Silent, Recording, Follow, GoTo, Fail, Stages
  <1>9. CASE SendEvent(r)
    BY <1>0, <1>9 DEF SendEvent, Local, Offering, GoTo, Stages
  <1>10. CASE BeginFinish(r)
    BY <1>0, <1>10 DEF BeginFinish, Local, Silent, MayBegin, GoTo, BeforeTheWrite
  <1>11. CASE SaveFinished(r)
    <2>1. Local(r)
      BY <1>0, <1>11 DEF SaveFinished, Local, Follow, GoTo, Fail, Stages
    <2>2. [frame[r].from EXCEPT !.finished = TRUE] \in Row
      BY <1>11 DEF SaveFinished, IInv, FrameInv, FinishFrame, Row
    <2> QED
      BY <1>11, <2>1, <2>2, SavingIsWriting DEF SaveFinished
  <1> QED
    BY <1>1, <1>2, <1>3, <1>4, <1>5, <1>6, <1>7, <1>8, <1>9, <1>10, <1>11 DEF RequestStep

-----------------------------------------------------------------------------
(* What holds of the logs together. *)

\* A call's record and its event, as the invariant has typed them.
LEMMA EffectsTyped ==
  ASSUME EInv
  PROVE  /\ writes \in Seq(Write) /\ transitions \in Seq(Record) /\ offered \in Seq(Event)
         /\ OncePerRequest(writes) /\ OncePerRequest(transitions) /\ OncePerRequest(offered)
  BY DEF EInv, IInv, TypeOK, Write, Record, Event, EffectsInOrderAndOnce, OncePerRequest

\* Records keep their instances and events their records.
RecordsFollowWrites ==
  \A k \in DOMAIN transitions : \E j \in DOMAIN writes :
    /\ writes[j].req = transitions[k].req
    /\ writes[j].id = transitions[k].instance
    /\ writes[j].row.state = transitions[k].stateName

EventsFollowRecords ==
  \A k \in DOMAIN offered : \E j \in DOMAIN transitions :
    /\ transitions[j].req = offered[k].req
    /\ transitions[j].instance = offered[k].instance
    /\ transitions[j].stateName = offered[k].toState

RecordFollows(rec, rows) ==
  /\ rec.instance \in DOMAIN rows
  /\ \E p \in ReachablePositions :
       /\ p.type = rows[rec.instance].type
       /\ \E step \in GetStep(Definitions[p.type], p.step) : step.name = rec.stepName
       /\ \E act \in GetTransitionAction(Definitions[p.type], p.step, rec.actionName) :
            rec.stateName = Advance(p, act).state

LogsInv ==
  /\ OncePerRequest(writes) /\ OncePerRequest(transitions) /\ OncePerRequest(offered)
  /\ RecordsFollowWrites /\ EventsFollowRecords
  /\ \A k \in DOMAIN transitions : RecordFollows(transitions[k], instances)
  /\ StartupValidationsRun

LEMMA LogsInvIs ==
  LogsInv <=> RecordsFollowTheDefinition /\ EffectsInOrderAndOnce /\ StartupValidationsRun
  BY DEF LogsInv, RecordsFollowTheDefinition, EffectsInOrderAndOnce, OncePerRequest,
         RecordsFollowWrites, EventsFollowRecords, RecordFollows

\* Rows may come and change, but not their types.
LEMMA RecordsStay ==
  ASSUME \A i \in DOMAIN instances :
           i \in DOMAIN instances' /\ instances'[i].type = instances[i].type,
         NEW rec, RecordFollows(rec, instances)
  PROVE  RecordFollows(rec, instances')
  BY DEF RecordFollows

\* The frame of a call that has written is its last.
LEMMA ChecksStay ==
  ASSUME EInv, NEW r \in Requests, Local(r), NEW k \in DOMAIN writes
  PROVE  frame'[writes[k].req] = frame[writes[k].req]
  BY WritersArePast DEF EInv, Local

LEMMA SilentLogs ==
  ASSUME EInv, NEW r \in Requests, Local(r), Silent
  PROVE  LogsInv'
  <1>1. LogsInv
    BY LogsInvIs DEF EInv
  <1>2. StartupValidationsRun'
    BY <1>1, ChecksStay DEF LogsInv, StartupValidationsRun, Silent
  <1>3. \A k \in DOMAIN transitions' : RecordFollows(transitions'[k], instances')
    BY <1>1, RecordsStay DEF LogsInv, Silent
  <1> QED
    BY <1>1, <1>2, <1>3 DEF LogsInv, Silent, OncePerRequest, RecordsFollowWrites,
                            EventsFollowRecords

LEMMA WritingLogs ==
  ASSUME EInv, NEW r \in Requests, Local(r), Writing(r)
  PROVE  LogsInv' /\ Keeps(writes, writes')
  <1>1. LogsInv
    BY LogsInvIs DEF EInv
  <1>2. PICK w \in Write : /\ writes' = Append(writes, w)
                           /\ w.req = r
                           /\ w.op = "transition" => pc[r] = "updateInstance" /\ w = MoveOf(r)
    BY DEF Writing
  <1>3. writes \in Seq(Write) /\ Untraced(writes, r)
    BY EffectsTyped DEF Writing, EInv, IInv, ProgressInv, Untraced
  <1>4. /\ Keeps(writes, writes') /\ OncePerRequest(writes')
        /\ \A k \in DOMAIN writes' : writes'[k] = w \/ (k \in DOMAIN writes /\ writes'[k] = writes[k])
    BY <1>1, <1>2, <1>3, FirstEntry DEF LogsInv
  <1>5. UNCHANGED <<transitions, offered, frame>>
    BY DEF Writing
  <1>6. RecordsFollowWrites' /\ EventsFollowRecords'
    BY <1>1, <1>4, <1>5 DEF LogsInv, RecordsFollowWrites, EventsFollowRecords, Keeps
  <1>7. \A k \in DOMAIN transitions' : RecordFollows(transitions'[k], instances')
    BY <1>1, <1>5, RecordsStay DEF LogsInv, Writing
  <1>8. StartupValidationsRun'
    <2> SUFFICES ASSUME NEW k \in DOMAIN writes', writes'[k].op = "transition"
                 PROVE  Checked(frame[writes'[k].req])
      BY <1>5 DEF StartupValidationsRun, Checked
    <2>1. CASE writes'[k] = w
      BY <2>1, <1>2 DEF EInv, CallInv, PastValidation
    <2>2. CASE k \in DOMAIN writes /\ writes'[k] = writes[k]
      BY <2>2, <1>1 DEF LogsInv, StartupValidationsRun, Checked
    <2> QED
      BY <2>1, <2>2, <1>4
  <1> QED
    BY <1>1, <1>4, <1>5, <1>6, <1>7, <1>8 DEF LogsInv

\* What the record of a call says of the row it read.
LEMMA RecordOfCall ==
  ASSUME EInv, NEW r \in Requests, pc[r] \in TransitionStages
  PROVE  RecordFollows(TransitionRecord(r), instances)
  <1> DEFINE f == frame[r]
             p == Located(f.from)
  <1>1. /\ f \in TransitionFrame /\ f.from \in Row /\ f.action \in ActionNames
        /\ f.act \in GetTransitionAction(Definitions[f.from.type], f.from.step, f.action)
        /\ \E j \in DOMAIN writes : writes[j].id = f.id /\ writes[j].row = f.from
    BY FrameFacts DEF EInv
  <1>2. PICK j \in DOMAIN writes : writes[j].id = f.id /\ writes[j].row = f.from
    BY <1>1
  <1>3. /\ p \in ReachablePositions
        /\ f.id \in DOMAIN instances /\ f.from.type = instances[f.id].type
    BY <1>2 DEF EInv, IInv, WritesAreReachable, HistoryInv
  <1>4. p.type = f.from.type /\ p.step = f.from.step /\ p.state = f.from.state
    BY DEF Located
  <1>5. \E step \in GetStep(Definitions[p.type], p.step) : step.name = f.stepName
    BY <1>4 DEF EInv, CallInv, StepNamed
  <1>6. f.act.name = f.action
    BY <1>1, ActionTyped DEF Row
  <1>7. Advance(p, f.act).state = Moved(f).state
    <2>1. Advance(p, f.act).state = OrElse(f.act.newState, f.from.state)
      BY DEF Advance, Located
    <2>2. Moved(f).state = OrElse(f.act.newState, f.from.state)
      BY <1>1, AdvanceTyped DEF Moved
    <2> QED
      BY <2>1, <2>2
  <1> HIDE DEF f, p
  <1>8. /\ TransitionRecord(r).instance = f.id
        /\ TransitionRecord(r).stepName = f.stepName
        /\ TransitionRecord(r).actionName = f.act.name
        /\ TransitionRecord(r).stateName = Moved(f).state
    BY DEF TransitionRecord, f
  <1> QED
    BY <1>1, <1>3, <1>4, <1>5, <1>6, <1>7, <1>8 DEF RecordFollows

LEMMA RecordingLogs ==
  ASSUME EInv, NEW r \in Requests, Local(r), Recording(r)
  PROVE  LogsInv' /\ Keeps(transitions, transitions') /\ HasRecorded(r)'
  <1> DEFINE rec == TransitionRecord(r)
  <1>1. LogsInv
    BY LogsInvIs DEF EInv
  <1>2. /\ pc[r] = "createTransition" /\ pc[r] \in TransitionStages
        /\ transitions' = Append(transitions, rec)
        /\ UNCHANGED <<instances, writes, offered, frame>>
    BY DEF Recording, TransitionStages, Stages
  <1>3. rec \in Record /\ rec.req = r /\ transitions \in Seq(Record)
    BY <1>2, TracesTyped, EffectsTyped DEF EInv, Record
  <1>4. Untraced(transitions, r)
    BY <1>2 DEF EInv, IInv, ProgressInv, Untraced
  <1>5. RecordFollows(rec, instances)
    BY <1>2, RecordOfCall
  <1>6. \E j \in DOMAIN writes : /\ writes[j].req = rec.req
                                 /\ writes[j].id = rec.instance
                                 /\ writes[j].row.state = rec.stateName
    BY <1>2 DEF EInv, CallInv, HasWritten, MoveOf, TransitionRecord
  <1>7. HasRecorded(r)' <=> \E j \in DOMAIN transitions' : transitions'[j] = rec
    BY <1>2 DEF HasRecorded, TransitionRecord
  <1> HIDE DEF rec
  <1>8. /\ Keeps(transitions, transitions') /\ OncePerRequest(transitions')
        /\ \E k \in DOMAIN transitions' : transitions'[k] = rec
        /\ \A k \in DOMAIN transitions' :
             transitions'[k] = rec \/ (k \in DOMAIN transitions /\ transitions'[k] = transitions[k])
    BY <1>1, <1>2, <1>3, <1>4, FirstEntry DEF LogsInv
  <1>9. RecordsFollowWrites'
    BY <1>1, <1>2, <1>6, <1>8 DEF LogsInv, RecordsFollowWrites
  <1>10. EventsFollowRecords'
    BY <1>1, <1>2, <1>8 DEF LogsInv, EventsFollowRecords, Keeps
  <1>11. \A k \in DOMAIN transitions' : RecordFollows(transitions'[k], instances')
    BY <1>1, <1>2, <1>5, <1>8, RecordsStay DEF LogsInv
  <1>12. StartupValidationsRun'
    BY <1>1, <1>2 DEF LogsInv, StartupValidationsRun
  <1> QED
    BY <1>1, <1>2, <1>7, <1>8, <1>9, <1>10, <1>11, <1>12 DEF LogsInv

LEMMA OfferingLogs ==
  ASSUME EInv, NEW r \in Requests, Local(r), Offering(r)
  PROVE  LogsInv' /\ Keeps(offered, offered') /\ HasOffered(r)'
  <1> DEFINE event == TransitionEvent(r)
  <1>1. LogsInv
    BY LogsInvIs DEF EInv
  <1>2. /\ pc[r] = "sendEvent" /\ pc[r] \in TransitionStages
        /\ offered' = Append(offered, event)
        /\ UNCHANGED <<instances, writes, transitions, frame>>
    BY DEF Offering, TransitionStages, Stages
  <1>3. event \in Event /\ event.req = r /\ offered \in Seq(Event)
    BY <1>2, TracesTyped, EffectsTyped DEF EInv, Event
  <1>4. Untraced(offered, r)
    BY <1>2 DEF EInv, IInv, ProgressInv, Untraced
  <1>5. \E j \in DOMAIN transitions : /\ transitions[j].req = event.req
                                      /\ transitions[j].instance = event.instance
                                      /\ transitions[j].stateName = event.toState
    BY <1>2 DEF EInv, CallInv, HasRecorded, TransitionRecord, TransitionEvent
  <1>6. HasOffered(r)' <=> \E j \in DOMAIN offered' : offered'[j] = event
    BY <1>2 DEF HasOffered, TransitionEvent
  <1> HIDE DEF event
  <1>7. /\ Keeps(offered, offered') /\ OncePerRequest(offered')
        /\ \E k \in DOMAIN offered' : offered'[k] = event
        /\ \A k \in DOMAIN offered' :
             offered'[k] = event \/ (k \in DOMAIN offered /\ offered'[k] = offered[k])
    BY <1>1, <1>2, <1>3, <1>4, FirstEntry DEF LogsInv
  <1>8. EventsFollowRecords'
    BY <1>1, <1>2, <1>5, <1>7 DEF LogsInv, EventsFollowRecords
  <1>9. \A k \in DOMAIN transitions' : RecordFollows(transitions'[k], instances')
    BY <1>1, <1>2, RecordsStay DEF LogsInv
  <1>10. StartupValidationsRun' /\ RecordsFollowWrites'
    BY <1>1, <1>2 DEF LogsInv, StartupValidationsRun, RecordsFollowWrites
  <1> QED
    BY <1>1, <1>2, <1>6, <1>7, <1>8, <1>9, <1>10 DEF LogsInv

-----------------------------------------------------------------------------
(* What a step leaves of the call that makes it. *)

\* A call that has failed, or crashed, has nothing left to show.
LEMMA EndedCall ==
  ASSUME NEW r \in Requests, pc'[r] \in {"failed", "crashed"}
  PROVE  CallInv(r)'
  BY DEF CallInv, TransitionStages, Stages, PastValidation

\* A call that goes on within its checks.
LEMMA CheckedCall ==
  ASSUME NEW r \in Requests, pc'[r] \in BeforeTheWrite \ {"idle", "saveFinished"},
         StepNamed(frame'[r]), pc'[r] \in PastValidation => Checked(frame'[r])
  PROVE  CallInv(r)'
  BY DEF CallInv, BeforeTheWrite, StepNamed, Checked

\* The place of a request after a step that sends it on, or ends it.
LEMMA NextPlace ==
  ASSUME IInv, NEW r \in Requests
  PROVE  /\ \A stage : GoTo(r, stage) => pc'[r] = stage
         /\ \A e : Fail(r, e) => pc'[r] = "failed"
         /\ \A outcome, stage, e :
              Follow(r, outcome, stage, e) => pc'[r] = stage \/ pc'[r] = "failed"
         /\ \A f : frame' = [frame EXCEPT ![r] = f] => frame'[r] = f
  BY DEF IInv, TypeOK, GoTo, Fail, Follow

LEMMA BeginTransitionCall ==
  ASSUME EInv, NEW r \in Requests, BeginTransition(r)
  PROVE  CallInv(r)'
  <1>1. PICK id \in DOMAIN instances, a \in ActionNames : BeginTransitionOf(r, id, a)
    BY DEF BeginTransition
  <1> DEFINE row == instances[id]
  <1>2. CASE \E e : Fail(r, e)
    BY <1>2, NextPlace, EndedCall DEF EInv
  <1>3. CASE \E step \in GetStep(Definitions[row.type], row.step),
                act \in GetTransitionAction(Definitions[row.type], row.step, a) :
               /\ frame' = [frame EXCEPT ![r] =
                     [op |-> "transition", id |-> id, from |-> row, action |-> a,
                      stepName |-> step.name, act |-> act, input |-> "json",
                      validated |-> FALSE]]
               /\ GoTo(r, IF act.validationFunc = Blank THEN "emitBefore"
                                                        ELSE "hasValidation")
    <2>1. PICK step \in GetStep(Definitions[row.type], row.step),
               act \in GetTransitionAction(Definitions[row.type], row.step, a) :
               /\ frame' = [frame EXCEPT ![r] =
                     [op |-> "transition", id |-> id, from |-> row, action |-> a,
                      stepName |-> step.name, act |-> act, input |-> "json",
                      validated |-> FALSE]]
               /\ GoTo(r, IF act.validationFunc = Blank THEN "emitBefore"
                                                        ELSE "hasValidation")
      BY <1>3
    <2> DEFINE f == [op |-> "transition", id |-> id, from |-> row, action |-> a,
                     stepName |-> step.name, act |-> act, input |-> "json",
                     validated |-> FALSE]
    <2>2. frame'[r] = f
      BY <2>1, NextPlace DEF EInv
    <2>3. pc'[r] = IF act.validationFunc = Blank THEN "emitBefore" ELSE "hasValidation"
      BY <2>1, NextPlace DEF EInv
    <2>4. StepNamed(f)
      BY DEF StepNamed
    <2>5. pc'[r] = "emitBefore" => Checked(f)
      BY <2>3, ValidationsAssumption DEF Checked
    <2> HIDE DEF f
    <2> QED
      BY <2>2, <2>3, <2>4, <2>5, CheckedCall DEF BeforeTheWrite, PastValidation
  <1> QED
    BY <1>1, <1>2, <1>3 DEF BeginTransitionOf

LEMMA HasValidationCall ==
  ASSUME EInv, NEW r \in Requests, HasValidation(r)
  PROVE  CallInv(r)'
  <1>1. pc[r] \in TransitionStages /\ frame' = frame
    BY DEF HasValidation, TransitionStages, Stages
  <1>2. pc'[r] = IF frame[r].act.validationFunc \in validations
                   THEN "getValidation" ELSE "emitBefore"
    BY NextPlace DEF HasValidation, EInv
  <1>3. pc'[r] = "emitBefore" => Checked(frame[r])
    BY <1>2 DEF Checked, EInv
  <1> QED
    BY <1>1, <1>2, <1>3, CheckedCall DEF EInv, CallInv, BeforeTheWrite, PastValidation

LEMMA GetValidationCall ==
  ASSUME EInv, NEW r \in Requests, GetValidation(r)
  PROVE  CallInv(r)'
  <1>1. pc[r] \in TransitionStages
    BY DEF GetValidation, TransitionStages, Stages
  <1>2. CASE \E e : Fail(r, e)
    BY <1>2, NextPlace, EndedCall DEF EInv
  <1>3. CASE GoTo(r, "emitBefore") /\ frame' = [frame EXCEPT ![r].validated = TRUE]
    <2> DEFINE f == [frame[r] EXCEPT !.validated = TRUE]
    <2>1. frame[r] \in TransitionFrame /\ StepNamed(frame[r])
      BY <1>1, FrameFacts DEF EInv, CallInv
    <2>2. f.validated /\ f.from = frame[r].from /\ f.stepName = frame[r].stepName
      BY <2>1 DEF TransitionFrame
    <2>3. frame'[r] = f /\ pc'[r] = "emitBefore"
      BY <1>3, NextPlace DEF EInv
    <2> HIDE DEF f
    <2> QED
      BY <2>1, <2>2, <2>3, CheckedCall DEF StepNamed, Checked, BeforeTheWrite
  <1> QED
    BY <1>2, <1>3 DEF GetValidation

LEMMA EmitBeforeCall ==
  ASSUME EInv, NEW r \in Requests, EmitBefore(r)
  PROVE  CallInv(r)'
  <1>1. pc[r] \in TransitionStages \cap PastValidation
    BY DEF EmitBefore, TransitionStages, Stages, PastValidation
  <1>2. CASE \E e : Fail(r, e)
    BY <1>2, NextPlace, EndedCall DEF EInv
  <1>3. CASE \E d \in InputData : /\ frame' = [frame EXCEPT ![r].input = d]
                                 /\ GoTo(r, "updateInstance")
    <2>0. PICK d \in InputData : /\ frame' = [frame EXCEPT ![r].input = d]
                                 /\ GoTo(r, "updateInstance")
      BY <1>3
    <2> DEFINE f == [frame[r] EXCEPT !.input = d]
    <2>1. frame[r] \in TransitionFrame /\ StepNamed(frame[r]) /\ Checked(frame[r])
      BY <1>1, FrameFacts DEF EInv, CallInv
    <2>2. /\ f.validated = frame[r].validated /\ f.act = frame[r].act
          /\ f.from = frame[r].from /\ f.stepName = frame[r].stepName
      BY <2>1 DEF TransitionFrame
    <2>3. frame'[r] = f /\ pc'[r] = "updateInstance"
      BY <2>0, NextPlace DEF EInv
    <2> HIDE DEF f
    <2> QED
      BY <2>1, <2>2, <2>3, CheckedCall DEF StepNamed, Checked, BeforeTheWrite
  <1> QED
    BY <1>2, <1>3 DEF EmitBefore

LEMMA UpdateInstanceCall ==
  ASSUME EInv, NEW r \in Requests, UpdateInstance(r)
  PROVE  CallInv(r)'
  <1>1. /\ pc[r] = "updateInstance" /\ frame' = frame
        /\ StepNamed(frame[r]) /\ Checked(frame[r])
    BY DEF UpdateInstance, EInv, CallInv, TransitionStages, Stages, PastValidation
  <1>2. PICK outcome \in WriteOutcomes :
          /\ SaveInstance(r, Moved(frame[r]), outcome)
          /\ Follow(r, outcome, "createTransition", "failed to update instance")
    BY DEF UpdateInstance
  <1>3. CASE outcome # "ok"
    BY <1>2, <1>3, NextPlace, EndedCall DEF EInv, Follow
  <1>4. CASE outcome = "ok"
    <2>1. writes' = Append(writes, [op |-> frame[r].op, req |-> r,
                                    id |-> frame[r].id, row |-> Moved(frame[r])])
      BY <1>2, <1>4 DEF SaveInstance, Commits
    <2>2. frame[r].op = "transition" /\ frame[r].id \in Nat /\ Moved(frame[r]) \in Row
      BY <1>1, FrameFacts, AdvanceTyped
         DEF EInv, TransitionFrame, Moved, TransitionStages, Stages
    <2>3. writes' = Append(writes, MoveOf(r)) /\ MoveOf(r) \in Write
      BY <2>1, <2>2 DEF MoveOf, Write
    <2>4. \E j \in DOMAIN writes' : writes'[j] = MoveOf(r)
      BY <2>3, EffectsTyped, AppendFacts
    <2>5. HasWritten(r)'
      BY <1>1, <2>4 DEF HasWritten, MoveOf
    <2>6. pc'[r] = "createTransition"
      BY <1>2, <1>4, NextPlace DEF Follow, EInv
    <2> QED
      BY <1>1, <2>5, <2>6 DEF CallInv, StepNamed, Checked
  <1> QED
    BY <1>3, <1>4

LEMMA CreateTransitionCall ==
  ASSUME EInv, NEW r \in Requests, CreateTransition(r)
  PROVE  CallInv(r)'
  <1>1. /\ pc[r] = "createTransition" /\ UNCHANGED <<writes, frame, instances, offered>>
        /\ StepNamed(frame[r]) /\ Checked(frame[r]) /\ HasWritten(r)
    BY DEF CreateTransition, EInv, CallInv, TransitionStages, Stages, PastValidation
  <1>2. CASE pc'[r] = "failed"
    BY <1>2, EndedCall
  <1>3. CASE pc'[r] # "failed"
    <2>1. pc'[r] = "sendEvent" /\ Recording(r)
      BY <1>1, <1>3, NextPlace
         DEF CreateTransition, EInv, Follow, Recording, WriteOutcomes, Commits
    <2>2. Local(r)
      BY RequestStepIsLocal DEF RequestStep, EInv
    <2>3. HasRecorded(r)'
      BY <2>1, <2>2, RecordingLogs
    <2>4. HasWritten(r)'
      BY <1>1 DEF HasWritten, MoveOf, Moved
    <2> QED
      BY <1>1, <2>1, <2>3, <2>4 DEF CallInv, StepNamed, Checked
  <1> QED
    BY <1>2, <1>3

LEMMA SendEventCall ==
  ASSUME EInv, NEW r \in Requests, SendEvent(r)
  PROVE  CallInv(r)'
  <1>1. /\ UNCHANGED <<writes, transitions, frame>>
        /\ HasWritten(r) /\ HasRecorded(r)
    BY DEF SendEvent, EInv, CallInv
  <1>2. pc'[r] = "returned" /\ Offering(r)
    BY NextPlace DEF SendEvent, EInv, Offering
  <1>3. Local(r)
    BY RequestStepIsLocal DEF RequestStep, EInv
  <1>4. HasOffered(r)'
    BY <1>2, <1>3, OfferingLogs
  <1>5. HasWritten(r)' /\ HasRecorded(r)'
    BY <1>1 DEF HasWritten, HasRecorded, MoveOf, Moved, TransitionRecord
  <1> QED
    BY <1>2, <1>4, <1>5 DEF CallInv, TransitionStages, Stages, PastValidation

LEMMA CreateOrFinishCall ==
  ASSUME EInv, NEW r \in Requests,
         CreateInstance(r) \/ BeginFinish(r) \/ SaveFinished(r) \/ BeginWithNoInstance(r)
  PROVE  CallInv(r)'
  <1>1. CASE CreateInstance(r)
    <2>1. frame'[r] = NoFrame /\ pc'[r] \in {"returned", "failed"}
      BY <1>1, NextPlace DEF CreateInstance, CreateInstanceOf, MayBegin, EInv, CallInv
    <2> QED
      BY <2>1 DEF CallInv, NoFrame, TransitionStages, Stages, PastValidation
  <1>2. CASE BeginFinish(r)
    BY <1>2, NextPlace DEF BeginFinish, EInv, CallInv, TransitionStages, PastValidation
  <1>3. CASE SaveFinished(r)
    <2>1. frame'[r].op = "finish" /\ pc'[r] \in {"returned", "failed"}
      BY <1>3, NextPlace DEF SaveFinished, EInv, IInv, FrameInv, FinishFrame
    <2> QED
      BY <2>1 DEF CallInv, TransitionStages, Stages, PastValidation
  <1>4. CASE BeginWithNoInstance(r)
    BY <1>4, NextPlace, EndedCall DEF BeginWithNoInstance, EInv
  <1> QED
    BY <1>1, <1>2, <1>3, <1>4

-----------------------------------------------------------------------------
(* The strengthening is inductive. *)

LEMMA InitEInv == Init => EInv
  <1> SUFFICES ASSUME Init PROVE EInv
    OBVIOUS
  <1>1. StartupValidations \subseteq validations
    BY DEF Init
  <1>2. \A r \in Requests : CallInv(r)
    BY DEF Init, CallInv, TransitionStages, Stages, PastValidation
  <1>3. RecordsFollowTheDefinition /\ EffectsInOrderAndOnce /\ StartupValidationsRun
    BY DEF Init, RecordsFollowTheDefinition, EffectsInOrderAndOnce, StartupValidationsRun
  <1> QED
    BY <1>1, <1>2, <1>3, InitIInv DEF EInv

LEMMA RequestStepEInv ==
  ASSUME EInv, NEW r \in Requests, RequestStep(r), IInv'
  PROVE  EInv'
  <1>1. Local(r) /\ (Silent \/ Writing(r) \/ Recording(r) \/ Offering(r))
    BY RequestStepIsLocal DEF EInv
  <1>2. CallInv(r)'
    BY BeginTransitionCall, HasValidationCall, GetValidationCall, EmitBeforeCall,
       UpdateInstanceCall, CreateTransitionCall, SendEventCall, CreateOrFinishCall
       DEF RequestStep
  <1>3. /\ LogsInv' /\ Keeps(writes, writes')
        /\ Keeps(transitions, transitions') /\ Keeps(offered, offered')
    <2>1. CASE Silent
      BY <1>1, <2>1, SilentLogs DEF Silent, Keeps
    <2>2. CASE Writing(r)
      BY <1>1, <2>2, WritingLogs DEF Writing, Keeps
    <2>3. CASE Recording(r)
      BY <1>1, <2>3, RecordingLogs DEF Recording, Keeps
    <2>4. CASE Offering(r)
      BY <1>1, <2>4, OfferingLogs DEF Offering, Keeps
    <2> QED
      BY <1>1, <2>1, <2>2, <2>3, <2>4
  <1>4. \A q \in Requests \ {r} : CallInv(q)'
    BY <1>1, <1>3, OthersKeep DEF EInv, Local
  <1>5. RecordsFollowTheDefinition' /\ EffectsInOrderAndOnce' /\ StartupValidationsRun'
    BY <1>3, LogsInvIs, PTL
  <1> QED
    BY <1>1, <1>2, <1>4, <1>5 DEF EInv, Local

\* Steps that are no request's write nothing, and keep the start-up validations.
LEMMA OtherStepEInv ==
  ASSUME EInv, IInv',
         UNCHANGED <<instances, transitions, frame, offered, writes>>,
         StartupValidations \subseteq validations',
         \A q \in Requests : pc'[q] \in {pc[q], "crashed"}
  PROVE  EInv'
  <1>1. \A q \in Requests : CallInv(q)'
    <2> TAKE q \in Requests
    <2>1. CASE pc'[q] = "crashed"
      BY <2>1, EndedCall
    <2>2. CASE pc'[q] = pc[q]
      BY <2>2, OthersKeep DEF EInv, Keeps
    <2> QED
      BY <2>1, <2>2
  <1>2. RecordsFollowTheDefinition' /\ EffectsInOrderAndOnce' /\ StartupValidationsRun'
    BY DEF EInv, RecordsFollowTheDefinition, EffectsInOrderAndOnce, StartupValidationsRun
  <1> QED
    BY <1>1, <1>2 DEF EInv

LEMMA NextEInv == EInv /\ [Next]_vars => EInv'
  <1> SUFFICES ASSUME EInv, [Next]_vars PROVE EInv'
    OBVIOUS
  <1>0. IInv'
    BY NextIInv DEF EInv
  <1>1. CASE \E r \in Requests : RequestStep(r)
    BY <1>0, <1>1, RequestStepEInv
  <1>2. CASE \E f \in ValidationFuncs : RegisterValidation(f) \/ UnregisterValidation(f)
    BY <1>0, <1>2, OtherStepEInv DEF RegisterValidation, UnregisterValidation, EInv
  <1>3. CASE Crash
    <2>1. \A q \in Requests : pc'[q] \in {pc[q], "crashed"}
      BY <1>3 DEF Crash
    <2> QED
      BY <1>0, <1>3, <2>1, OtherStepEInv DEF Crash
  <1>4. CASE UNCHANGED vars
    BY <1>0, <1>4, OtherStepEInv DEF vars, EInv
  <1> QED
    BY <1>1, <1>2, <1>3, <1>4 DEF Next

-----------------------------------------------------------------------------
(* The theorems. *)

\* EInv: each call's effects are in the logs as far as its stage says, once, and
\* belong together, through every interleaving, failure and crash.
THEOREM Effects == Spec => []EInv
  BY InitEInv, NextEInv, PTL DEF Spec

\* No call of the service writes, records or emits twice, an event comes after its
\* record and a record after its write (service.go:207-260).
THEOREM OrderedAndOnce == Spec => []EffectsInOrderAndOnce
  <1>1. EInv => EffectsInOrderAndOnce
    BY DEF EInv
  <1> QED
    BY <1>1, Effects, PTL

\* A transition record is an edge of the definition out of a reachable position of
\* its instance, whatever the row has become since (service.go:213-230).
THEOREM RecordsFollow == Spec => []RecordsFollowTheDefinition
  <1>1. EInv => RecordsFollowTheDefinition
    BY DEF EInv
  <1> QED
    BY <1>1, Effects, PTL

\* A TransitionStep that returned nil has moved the row, recorded the move and
\* offered the event of that very move.
THEOREM SuccessComplete == Spec => []SuccessIsComplete
  <1>1. EInv => SuccessIsComplete
    <2> SUFFICES ASSUME EInv, NEW r \in Requests,
                        pc[r] = "returned", frame[r].op = "transition"
                 PROVE  \E i \in DOMAIN writes, j \in DOMAIN transitions, k \in DOMAIN offered :
                          /\ writes[i].req = r /\ writes[i].id = frame[r].id
                          /\ writes[i].row = Moved(frame[r])
                          /\ transitions[j] = TransitionRecord(r)
                          /\ offered[k] = TransitionEvent(r)
      BY DEF SuccessIsComplete
    <2>1. HasWritten(r) /\ HasRecorded(r) /\ HasOffered(r)
      BY DEF EInv, CallInv
    <2>2. PICK i \in DOMAIN writes : writes[i] = MoveOf(r)
      BY <2>1 DEF HasWritten
    <2>3. writes[i].req = r /\ writes[i].id = frame[r].id /\ writes[i].row = Moved(frame[r])
      BY <2>2 DEF MoveOf
    <2> QED
      BY <2>1, <2>3 DEF HasRecorded, HasOffered
  <1> QED
    BY <1>1, Effects, PTL

\* A move whose action names a function registered for good was validated by it,
\* although the registry changes between the two lookups (service.go:172-186).
THEOREM ValidationsRun == Spec => []StartupValidationsRun
  <1>1. EInv => StartupValidationsRun
    BY DEF EInv
  <1> QED
    BY <1>1, Effects, PTL

-----------------------------------------------------------------------------
(* Workflows that the validator accepts. *)

\* The positions on a step of the definition: ValidateWorkflowDefinition (loader.go)
\* looks up the initial step and every step an action leads to.
OnAStep(def) ==
  {p \in [step : StepNames, state : StateNames] : GetStep(def, p.step) # {}}

LEMMA ValidStepsAreClosed ==
  ASSUME NEW t \in DOMAIN Definitions, ValidateWorkflowDefinition(Definitions[t])
  PROVE  /\ InitialPosition(Definitions[t]) \in OnAStep(Definitions[t])
         /\ ClosedUnder(Definitions[t], ActionNames, OnAStep(Definitions[t]))
  <1> DEFINE def == Definitions[t]
  <1>1. InitialPosition(def) \in OnAStep(def)
    BY DefinitionsAssumption
       DEF ValidateWorkflowDefinition, InitialPosition, OnAStep, DefinitionOK
  <1>2. ASSUME NEW p \in OnAStep(def), NEW a \in ActionNames,
               NEW act \in GetTransitionAction(def, p.step, a)
        PROVE  Advance(p, act) \in OnAStep(def)
    <2>1. p \in [step : StepNames, state : StateNames] /\ GetStep(def, p.step) # {}
      BY DEF OnAStep
    <2>2. PICK step \in GetStep(def, p.step) : act \in FirstNamed(step.actions, a)
      BY DEF GetTransitionAction
    <2>3. p.step \in DOMAIN def.steps /\ step = def.steps[p.step]
      BY <2>2 DEF GetStep
    <2>4. PICK i \in DOMAIN step.actions : act = step.actions[i]
      BY <2>2 DEF FirstNamed
    <2>5. act.nextStep # Blank => GetStep(def, act.nextStep) # {}
      BY <2>3, <2>4 DEF ValidateWorkflowDefinition
    <2>6. GetStep(def, OrElse(act.nextStep, p.step)) # {}
      BY <2>1, <2>5 DEF OrElse
    <2>7. /\ act.nextStep \in StepNames \cup {Blank}
          /\ act.newState \in StateNames \cup {Blank}
      BY ActionTyped
    <2>8. /\ Advance(p, act) \in [step : StepNames, state : StateNames]
          /\ Advance(p, act).step = OrElse(act.nextStep, p.step)
      BY <2>1, <2>7 DEF Advance, OrElse
    <2> QED
      BY <2>6, <2>8 DEF OnAStep
  <1> QED
    BY <1>1, <1>2 DEF ClosedUnder

\* An instance of a workflow that the validator accepts always stands on a step of
\* its definition, whatever calls interleave, fail or crash: GetStep never fails on it.
THEOREM ValidatedNeverStrand == Spec => []ValidatedWorkflowsNeverStrand
  <1>1. TypeOK /\ RowsAreReachable => ValidatedWorkflowsNeverStrand
    <2> SUFFICES ASSUME TypeOK, RowsAreReachable, NEW i \in DOMAIN instances,
                        ValidateWorkflowDefinition(Definitions[instances[i].type])
                 PROVE  GetStep(Definitions[instances[i].type], instances[i].step) # {}
      BY DEF ValidatedWorkflowsNeverStrand
    <2> DEFINE row == instances[i]
               def == Definitions[row.type]
               x   == Located(row)
    <2>1. row \in Row
      BY DEF TypeOK
    <2>2. row.type \in DOMAIN Definitions
      BY <2>1 DEF Row
    <2>3. x \in ReachablePositions /\ x.type = row.type /\ x.step = row.step
      BY DEF RowsAreReachable, Located
    <2>4. IsReachable(def, StepNames, StateNames, ActionNames, PositionOf(x))
      BY <2>3 DEF ReachablePositions
    <2>5. OnAStep(def) \in SUBSET [step : StepNames, state : StateNames]
      BY DEF OnAStep
    <2>6. PositionOf(x) \in OnAStep(def)
      BY <2>2, <2>4, <2>5, ValidStepsAreClosed DEF IsReachable
    <2> QED
      BY <2>3, <2>6 DEF OnAStep, PositionOf
  <1> QED
    BY <1>1, TypeCorrect, RowsReachable, PTL

-----------------------------------------------------------------------------
(* The row in the table is the one written last. *)

IsLatest(k) ==
  \A j \in DOMAIN writes : j > k => writes[j].id # writes[k].id

\* A row of the table is the outcome of the last write of it: what a later read
\* returns is no older than any earlier write.
RowsAreLatest ==
  \A i \in DOMAIN instances : \E k \in DOMAIN writes :
    writes[k].id = i /\ writes[k].row = instances[i] /\ IsLatest(k)

\* One row changes to the row of the entry that is logged.
LEMMA LatestAfterWrite ==
  ASSUME TypeOK, RowsAreLatest, NEW w, writes' = Append(writes, w),
         w \in Write, w.id \in DOMAIN instances', instances'[w.id] = w.row,
         \A i \in DOMAIN instances' :
           i # w.id => i \in DOMAIN instances /\ instances'[i] = instances[i]
  PROVE  RowsAreLatest'
  <1>1. writes \in Seq(Write)
    BY DEF TypeOK, Write
  <1>2. /\ DOMAIN writes' = 1 .. Len(writes) + 1
        /\ DOMAIN writes = 1 .. Len(writes) /\ Len(writes) \in Nat
        /\ \A j \in DOMAIN writes : writes'[j] = writes[j]
        /\ writes'[Len(writes) + 1] = w
    BY <1>1, AppendFacts
  <1> SUFFICES ASSUME NEW i \in DOMAIN instances'
               PROVE  \E k \in DOMAIN writes' :
                        /\ writes'[k].id = i /\ writes'[k].row = instances'[i]
                        /\ \A j \in DOMAIN writes' : j > k => writes'[j].id # writes'[k].id
    BY DEF RowsAreLatest, IsLatest
  <1>3. CASE i = w.id
    <2>1. \A j \in DOMAIN writes' : ~(j > Len(writes) + 1)
      BY <1>2
    <2> QED
      BY <1>2, <1>3, <2>1
  <1>4. CASE i # w.id
    <2>1. PICK k \in DOMAIN writes :
            writes[k].id = i /\ writes[k].row = instances[i] /\ IsLatest(k)
      BY <1>4 DEF RowsAreLatest
    <2>2. \A j \in DOMAIN writes' : j > k => writes'[j].id # i
      BY <1>2, <1>4, <2>1 DEF IsLatest
    <2> QED
      BY <1>2, <1>4, <2>1, <2>2
  <1> QED
    BY <1>3, <1>4

LEMMA SaveInstanceLatest ==
  ASSUME IInv, RowsAreLatest, NEW r \in Requests, NEW row \in Row, NEW outcome,
         pc[r] \in {"updateInstance", "saveFinished"}, row.type = frame[r].from.type,
         SaveInstance(r, row, outcome)
  PROVE  RowsAreLatest'
  <1>1. CASE ~Commits(outcome)
    BY <1>1 DEF SaveInstance, RowsAreLatest, IsLatest
  <1>2. CASE Commits(outcome)
    <2> DEFINE id == frame[r].id
               w  == [op |-> frame[r].op, req |-> r, id |-> id, row |-> row]
    <2>1. PICK v \in DOMAIN writes : writes[v].id = id /\ writes[v].row = frame[r].from
      BY DEF IInv, FrameInv, Stages
    <2>2. id \in DOMAIN instances /\ instances[id].type = row.type
      BY <2>1 DEF IInv, HistoryInv
    <2>3. instances \in Seq(Row) /\ instances[id] \in Row /\ DOMAIN instances \subseteq Nat
      BY <2>2 DEF IInv, TypeOK
    <2>4. frame[r] \in TransitionFrame \/ frame[r] \in FinishFrame
      BY DEF IInv, FrameInv, TransitionStages, Stages
    <2>5. frame[r].op \in {"transition", "finish"}
      BY <2>4 DEF TransitionFrame, FinishFrame
    <2>6. w \in Write /\ w.id = id /\ w.row = row
      BY <2>2, <2>3, <2>5 DEF Write
    <2>7. writes' = Append(writes, w) /\ instances' = SaveColumns(id, row)
      BY <1>2 DEF SaveInstance
    <2>8. instances' = [instances EXCEPT ![id] = row]
      BY <2>2, <2>3, <2>7 DEF SaveColumns, Row
    <2>9. /\ DOMAIN instances' = DOMAIN instances /\ instances'[id] = row
          /\ \A i \in DOMAIN instances : i # id => instances'[i] = instances[i]
      BY <2>2, <2>3, <2>8, ExceptFacts
    <2> HIDE DEF w, id
    <2> QED
      BY <2>2, <2>6, <2>7, <2>9, LatestAfterWrite DEF IInv
  <1> QED
    BY <1>1, <1>2

LEMMA CreateInstanceLatest ==
  ASSUME IInv, RowsAreLatest, NEW r \in Requests, CreateInstance(r)
  PROVE  RowsAreLatest'
  <1>1. PICK t \in WorkflowTypes, outcome \in WriteOutcomes :
          \/ UNCHANGED <<instances, writes>>
          \/ /\ t \in DOMAIN Definitions
             /\ instances' = Append(instances, InitialRow(t))
             /\ writes' = Append(writes, [op |-> "create", req |-> r,
                                          id |-> Len(instances) + 1, row |-> InitialRow(t)])
    BY DEF CreateInstance, CreateInstanceOf
  <1>2. CASE UNCHANGED <<instances, writes>>
    BY <1>2 DEF RowsAreLatest, IsLatest
  <1>3. CASE /\ t \in DOMAIN Definitions
             /\ instances' = Append(instances, InitialRow(t))
             /\ writes' = Append(writes, [op |-> "create", req |-> r,
                                          id |-> Len(instances) + 1, row |-> InitialRow(t)])
    <2> DEFINE row == InitialRow(t)
               w == [op |-> "create", req |-> r, id |-> Len(instances) + 1, row |-> row]
    <2>1. row \in Row
      BY <1>3, InitialRowReachable
    <2>2. instances \in Seq(Row)
      BY DEF IInv, TypeOK
    <2>3. /\ DOMAIN instances' = 1 .. Len(instances) + 1
          /\ DOMAIN instances = 1 .. Len(instances) /\ Len(instances) \in Nat
          /\ \A i \in DOMAIN instances : instances'[i] = instances[i]
          /\ instances'[Len(instances) + 1] = row
      BY <1>3, <2>1, <2>2, AppendFacts
    <2>4. w \in Write /\ w.id = Len(instances) + 1 /\ w.row = row
      BY <2>1, <2>3 DEF Write
    <2>5. writes' = Append(writes, w)
      BY <1>3
    <2>6. \A i \in DOMAIN instances' :
            i # w.id => i \in DOMAIN instances /\ instances'[i] = instances[i]
      BY <2>3, <2>4
    <2> HIDE DEF w, row
    <2> QED
      BY <2>3, <2>4, <2>5, <2>6, LatestAfterWrite DEF IInv
  <1> QED
    BY <1>1, <1>2, <1>3

LEMMA NextLatest == IInv /\ RowsAreLatest /\ [Next]_vars => RowsAreLatest'
  <1> SUFFICES ASSUME IInv, RowsAreLatest, [Next]_vars PROVE RowsAreLatest'
    OBVIOUS
  <1>1. CASE UNCHANGED <<instances, writes>>
    BY <1>1 DEF RowsAreLatest, IsLatest
  <1>2. ASSUME NEW r \in Requests, CreateInstance(r) PROVE RowsAreLatest'
    BY <1>2, CreateInstanceLatest
  <1>3. ASSUME NEW r \in Requests, UpdateInstance(r) PROVE RowsAreLatest'
    <2>1. /\ frame[r].from \in Row /\ frame[r].action \in ActionNames
          /\ frame[r].act \in GetTransitionAction(Definitions[frame[r].from.type],
                                                 frame[r].from.step, frame[r].action)
      BY <1>3, FrameFacts DEF UpdateInstance, TransitionStages, Stages
    <2>2. Moved(frame[r]) \in Row /\ Moved(frame[r]).type = frame[r].from.type
      BY <2>1, AdvanceTyped DEF Moved
    <2> DEFINE row == Moved(frame[r])
    <2>3. row \in Row /\ row.type = frame[r].from.type
      BY <2>2
    <2>4. PICK outcome : SaveInstance(r, row, outcome)
      BY <1>3 DEF UpdateInstance
    <2>5. pc[r] \in {"updateInstance", "saveFinished"}
      BY <1>3 DEF UpdateInstance
    <2> HIDE DEF row
    <2> QED
      BY <2>3, <2>4, <2>5, SaveInstanceLatest
  <1>4. ASSUME NEW r \in Requests, SaveFinished(r) PROVE RowsAreLatest'
    <2> DEFINE row == [frame[r].from EXCEPT !.finished = TRUE]
    <2>1. row \in Row /\ row.type = frame[r].from.type
      BY <1>4 DEF SaveFinished, IInv, FrameInv, FinishFrame, Row
    <2>2. PICK outcome : SaveInstance(r, row, outcome)
      BY <1>4 DEF SaveFinished
    <2>3. pc[r] \in {"updateInstance", "saveFinished"}
      BY <1>4 DEF SaveFinished
    <2> HIDE DEF row
    <2> QED
      BY <2>1, <2>2, <2>3, SaveInstanceLatest
  <1>5. ASSUME NEW r \in Requests,
               \/ BeginTransition(r) \/ BeginWithNoInstance(r) \/ HasValidation(r)
               \/ GetValidation(r) \/ EmitBefore(r) \/ CreateTransition(r)
               \/ SendEvent(r) \/ BeginFinish(r)
        PROVE  UNCHANGED <<instances, writes>>
    BY <1>5 DEF BeginTransition, BeginTransitionOf, BeginWithNoInstance, HasValidation,
                GetValidation, EmitBefore, CreateTransition, SendEvent, BeginFinish
  <1>6. ASSUME \E f \in ValidationFuncs : RegisterValidation(f) \/ UnregisterValidation(f)
        PROVE  UNCHANGED <<instances, writes>>
    BY <1>6 DEF RegisterValidation, UnregisterValidation
  <1>7. ASSUME Crash \/ UNCHANGED vars
        PROVE  UNCHANGED <<instances, writes>>
    BY <1>7 DEF Crash, vars
  <1> QED
    BY <1>1, <1>2, <1>3, <1>4, <1>5, <1>6, <1>7 DEF Next, RequestStep

\* The table holds the last write of each row: no read is older than a write that
\* committed before it, unacknowledged ones included.
THEOREM ReadsAreCurrent == Spec => []RowsAreLatest
  <1>1. Init => RowsAreLatest
    BY DEF Init, RowsAreLatest
  <1> QED
    BY <1>1, NextLatest, Invariance, PTL DEF Spec

-----------------------------------------------------------------------------
(* What one step of the service leaves as it was. *)

\* Logs keep their entries, rows their types, and a row that changes was written.
Ages ==
  /\ Keeps(writes, writes')
  /\ \A i \in DOMAIN instances : i \in DOMAIN instances' /\ instances'[i].type = instances[i].type
  /\ \A i \in DOMAIN instances :
       \/ instances'[i] = instances[i]
       \/ \E k \in DOMAIN writes' \ DOMAIN writes : writes'[k].id = i

LEMMA NextAges ==
  ASSUME EInv, RowsAreLatest, [Next]_vars
  PROVE  Ages
  <1>1. RowsAreLatest'
    BY NextLatest DEF EInv
  <1>2. writes \in Seq(Write)
    BY DEF EInv, IInv, TypeOK, Write
  <1>3. /\ Keeps(writes, writes')
        /\ \A i \in DOMAIN instances :
             i \in DOMAIN instances' /\ instances'[i].type = instances[i].type
    <2>1. CASE UNCHANGED <<writes, instances>>
      BY <2>1 DEF Keeps
    <2>2. ASSUME NEW r \in Requests, Writing(r)
          PROVE  /\ Keeps(writes, writes')
                 /\ \A i \in DOMAIN instances :
                      i \in DOMAIN instances' /\ instances'[i].type = instances[i].type
      <3>1. PICK w \in Write : writes' = Append(writes, w)
        BY <2>2 DEF Writing
      <3>2. Keeps(writes, writes')
        BY <1>2, <3>1, AppendFacts DEF Keeps
      <3> QED
        BY <2>2, <3>2 DEF Writing
    <2>3. CASE \E r \in Requests : RequestStep(r)
      BY <2>1, <2>2, <2>3, RequestStepIsLocal DEF EInv, Silent, Recording, Offering
    <2> QED
      BY <2>1, <2>3 DEF Next, RegisterValidation, UnregisterValidation, Crash, vars
  <1>4. ASSUME NEW i \in DOMAIN instances,
               \A k \in DOMAIN writes' \ DOMAIN writes : writes'[k].id # i
        PROVE  instances'[i] = instances[i]
    <2>1. PICK k \in DOMAIN writes :
            writes[k].id = i /\ writes[k].row = instances[i] /\ IsLatest(k)
      BY DEF RowsAreLatest
    <2>2. PICK j \in DOMAIN writes' :
            writes'[j].id = i /\ writes'[j].row = instances'[i] /\ IsLatest(j)'
      BY <1>1, <1>3 DEF RowsAreLatest
    <2>3. j \in DOMAIN writes /\ writes'[j] = writes[j] /\ k \in DOMAIN writes' /\ writes'[k] = writes[k]
      BY <1>3, <1>4, <2>2 DEF Keeps
    <2>4. j \in Nat /\ k \in Nat
      BY <1>2, <2>3
    <2>5. ~(j > k) /\ ~(k > j)
      BY <2>1, <2>2, <2>3 DEF IsLatest
    <2> QED
      BY <2>1, <2>2, <2>3, <2>4, <2>5
  <1> QED
    BY <1>3, <1>4 DEF Ages

\* A record is about the instance its call works on.
RecordsTell ==
  \A k \in DOMAIN transitions :
    LET f == frame[transitions[k].req]
    IN  f \in TransitionFrame /\ transitions[k].instance = f.id

LEMMA NextRecordsTell == EInv /\ RecordsTell /\ [Next]_vars => RecordsTell'
  <1> SUFFICES ASSUME EInv, RecordsTell, [Next]_vars PROVE RecordsTell'
    OBVIOUS
  <1>1. CASE UNCHANGED <<transitions, frame>>
    BY <1>1 DEF RecordsTell
  <1>2. ASSUME NEW r \in Requests, RequestStep(r) PROVE RecordsTell'
    <2>1. Local(r) /\ (Silent \/ Writing(r) \/ Recording(r) \/ Offering(r))
      BY <1>2, RequestStepIsLocal DEF EInv
    <2>2. transitions \in Seq(Record)
      BY EffectsTyped
    <2>3. \A k \in DOMAIN transitions : frame'[transitions[k].req] = frame[transitions[k].req]
      <3> TAKE k \in DOMAIN transitions
      <3>1. transitions[k] \in Record
        BY <2>2
      <3>2. transitions[k].req \in Requests
        BY <3>1 DEF Record
      <3>3. pc[transitions[k].req] \notin BeforeTheWrite
        BY <3>2 DEF EInv, IInv, ProgressInv
      <3> QED
        BY <2>1, <3>2, <3>3 DEF Local
    <2>4. CASE Silent \/ Writing(r) \/ Offering(r)
      BY <2>3, <2>4 DEF Silent, Writing, Offering, RecordsTell
    <2>5. CASE Recording(r)
      <3> DEFINE rec == TransitionRecord(r)
      <3>1. transitions' = Append(transitions, rec) /\ frame' = frame
            /\ pc[r] = "createTransition" /\ pc[r] \in TransitionStages
        BY <2>5 DEF Recording, TransitionStages, Stages
      <3>2. frame[r] \in TransitionFrame /\ rec.req = r /\ rec.instance = frame[r].id
        BY <3>1, FrameFacts DEF EInv, TransitionRecord
      <3>3. rec \in Record
        BY <3>1, TracesTyped DEF EInv, Record
      <3> HIDE DEF rec
      <3>4. \A k \in DOMAIN transitions' :
              transitions'[k] = rec \/ (k \in DOMAIN transitions /\ transitions'[k] = transitions[k])
        BY <2>2, <3>1, <3>3
      <3> QED
        BY <2>3, <3>1, <3>2, <3>4 DEF RecordsTell
    <2> QED
      BY <2>1, <2>4, <2>5
  <1> QED
    BY <1>1, <1>2 DEF Next, RegisterValidation, UnregisterValidation, Crash, vars

-----------------------------------------------------------------------------
(***************************************************************************)
(* The service implements the machine of module WorkflowFSM as long as     *)
(* calls do not overlap (MaxInFlight = 1): whatever writes fail, commit    *)
(* unacknowledged, or are cut off by a crash, every step of                *)
(* TransitionService is one step of that machine, or none.                 *)
(*                                                                         *)
(* The strengthening: one call is under way, and until its write the row   *)
(* is still what it read.                                                  *)
(***************************************************************************)
SerialInv ==
  /\ \A q, r \in InFlight : q = r
  /\ \A r \in InFlight : pc[r] \in BeforeTheWrite => instances[frame[r].id] = frame[r].from

\* A call begins only when none is under way.
LEMMA NoneInFlight ==
  ASSUME MaxInFlight = 1, SerialInv, NEW r \in Requests, MayBegin(r)
  PROVE  InFlight = {}
  <1> SUFFICES ASSUME NEW q \in InFlight PROVE FALSE
    OBVIOUS
  <1>1. InFlight = {q}
    BY DEF SerialInv
  <1>2. Cardinality({q}) = 1
    BY FS_Singleton
  <1> QED
    BY <1>1, <1>2 DEF MayBegin

\* The machine looks actions up and applies them as the service does.
LEMMA SameDefinitions ==
  ASSUME NEW def, NEW s, NEW a, NEW row, NEW act
  PROVE  /\ FSM!GetTransitionAction(def, s, a) = GetTransitionAction(def, s, a)
         /\ FSM!Advance(row, act) = Advance(row, act)
  <1>1. FSM!GetStep(def, s) = GetStep(def, s)
    BY DEF FSM!GetStep, GetStep
  <1>2. \A actions : FSM!FirstNamed(actions, a) = FirstNamed(actions, a)
    BY DEF FSM!FirstNamed, FirstNamed
  <1>3. FSM!GetTransitionAction(def, s, a) = GetTransitionAction(def, s, a)
    BY <1>1, <1>2 DEF FSM!GetTransitionAction, GetTransitionAction
  <1>4. FSM!Advance(row, act) = Advance(row, act)
    BY DEF FSM!Advance, Advance, FSM!OrElse, OrElse, FSM!Blank, Blank
  <1> QED
    BY <1>3, <1>4

-----------------------------------------------------------------------------
(***************************************************************************)
(* The invariant.                                                          *)
(***************************************************************************)
\* A step of one call, when no other is in flight.
LEMMA StepStaysSerial ==
  ASSUME IInv, SerialInv, NEW r \in Requests, NEW stage, pc' = [pc EXCEPT ![r] = stage],
         InFlight = {} \/ r \in InFlight,
         stage \in BeforeTheWrite \cap Stages => instances'[frame'[r].id] = frame'[r].from
  PROVE  SerialInv'
  <1>1. pc \in [Requests -> {"idle"} \cup Stages \cup Ends]
    BY DEF IInv, TypeOK
  <1>2. InFlight' \subseteq {r} /\ pc'[r] = stage
    BY <1>1 DEF SerialInv, InFlight
  <1>3. \A q \in InFlight' : pc'[q] \in BeforeTheWrite =>
          instances'[frame'[q].id] = frame'[q].from
    BY <1>2 DEF InFlight
  <1> QED
    BY <1>2, <1>3 DEF SerialInv

\* The steps that begin a call, and end some of them at once.
LEMMA BeginSerial ==
  ASSUME MaxInFlight = 1, IInv, SerialInv, NEW r \in Requests,
         BeginTransition(r) \/ BeginFinish(r) \/ BeginWithNoInstance(r) \/ CreateInstance(r)
  PROVE  SerialInv'
  <1>1. InFlight = {}
    BY NoneInFlight DEF BeginTransition, BeginTransitionOf, BeginFinish,
       BeginWithNoInstance, CreateInstance, CreateInstanceOf
  <1>2. frame \in [Requests -> {NoFrame} \cup FinishFrame \cup TransitionFrame]
    BY DEF IInv, TypeOK
  <1>3. CASE BeginTransition(r)
    <2>1. PICK id \in DOMAIN instances, a \in ActionNames : BeginTransitionOf(r, id, a)
      BY <1>3 DEF BeginTransition
    <2>2. UNCHANGED instances
      BY <2>1 DEF BeginTransitionOf
    <2>3. CASE pc' = [pc EXCEPT ![r] = "failed"]
      BY <1>1, <2>3, StepStaysSerial DEF Stages
    <2>4. CASE /\ \E step, act, v : frame' = [frame EXCEPT ![r] =
                    [op |-> "transition", id |-> id, from |-> instances[id], action |-> a,
                     stepName |-> step, act |-> act, input |-> "json", validated |-> v]]
               /\ \E stage : pc' = [pc EXCEPT ![r] = stage]
      <3>1. frame'[r].id = id /\ frame'[r].from = instances[id]
        BY <1>2, <2>4
      <3> QED
        BY <1>1, <2>2, <2>4, <3>1, StepStaysSerial
    <2> QED
      BY <2>1, <2>3, <2>4 DEF BeginTransitionOf, Fail, GoTo
  <1>4. CASE BeginFinish(r)
    <2>1. PICK id \in DOMAIN instances :
            frame' = [frame EXCEPT ![r] = [op |-> "finish", id |-> id, from |-> instances[id]]]
      BY <1>4 DEF BeginFinish
    <2>2. frame'[r].id = id /\ frame'[r].from = instances[id]
      BY <1>2, <2>1
    <2> QED
      BY <1>1, <1>4, <2>2, StepStaysSerial DEF BeginFinish, GoTo
  <1>5. CASE BeginWithNoInstance(r) \/ CreateInstance(r)
    <2>1. PICK stage \in {"returned", "failed"} : pc' = [pc EXCEPT ![r] = stage]
      BY <1>5 DEF BeginWithNoInstance, CreateInstance, CreateInstanceOf, Follow, GoTo, Fail
    <2> QED
      BY <1>1, <2>1, StepStaysSerial DEF Stages
  <1> QED
    BY <1>3, <1>4, <1>5

\* The steps of a call up to its write change neither the rows nor what it read.
LEMMA ChecksSerial ==
  ASSUME IInv, SerialInv, NEW r \in Requests,
         HasValidation(r) \/ GetValidation(r) \/ EmitBefore(r)
  PROVE  SerialInv'
  <1>1. r \in InFlight /\ pc[r] \in BeforeTheWrite /\ UNCHANGED instances
    BY DEF HasValidation, GetValidation, EmitBefore, InFlight, Stages, BeforeTheWrite
  <1>2. instances[frame[r].id] = frame[r].from
    BY <1>1 DEF SerialInv
  <1>3. /\ frame \in [Requests -> {NoFrame} \cup FinishFrame \cup TransitionFrame]
        /\ frame[r] \in TransitionFrame
    BY <1>1, FrameFacts DEF HasValidation, GetValidation, EmitBefore, TransitionStages,
       Stages, IInv, TypeOK
  <1>4. frame'[r].id = frame[r].id /\ frame'[r].from = frame[r].from
    BY <1>3 DEF HasValidation, GetValidation, EmitBefore, TransitionFrame
  <1>5. PICK stage : pc' = [pc EXCEPT ![r] = stage]
    BY DEF HasValidation, GetValidation, EmitBefore, GoTo, Fail
  <1> QED
    BY <1>1, <1>2, <1>4, <1>5, StepStaysSerial

\* The write of a call and the steps behind it.
LEMMA EffectsSerial ==
  ASSUME IInv, SerialInv, NEW r \in Requests,
         UpdateInstance(r) \/ CreateTransition(r) \/ SendEvent(r) \/ SaveFinished(r)
  PROVE  SerialInv'
  <1>1. r \in InFlight
    BY DEF UpdateInstance, CreateTransition, SendEvent, SaveFinished, InFlight, Stages
  <1>2. PICK stage \in {"createTransition", "sendEvent", "returned", "failed"} :
          pc' = [pc EXCEPT ![r] = stage]
    BY DEF UpdateInstance, CreateTransition, SendEvent, SaveFinished, Follow, GoTo, Fail
  <1>3. stage \notin BeforeTheWrite
    BY DEF BeforeTheWrite
  <1> QED
    BY <1>1, <1>2, <1>3, StepStaysSerial

LEMMA NextSerial ==
  ASSUME MaxInFlight = 1
  PROVE  IInv /\ SerialInv /\ [Next]_vars => SerialInv'
  <1> SUFFICES ASSUME IInv, SerialInv, [Next]_vars PROVE SerialInv'
    OBVIOUS
  <1>1. CASE \E r \in Requests : RequestStep(r)
    BY <1>1, BeginSerial, ChecksSerial, EffectsSerial DEF RequestStep
  <1>2. CASE UNCHANGED <<instances, pc, frame>>
    BY <1>2 DEF SerialInv, InFlight
  <1>3. CASE Crash
    <2>1. InFlight' = {}
      BY <1>3 DEF Crash, InFlight, Stages
    <2> QED
      BY <2>1 DEF SerialInv
  <1> QED
    BY <1>1, <1>2, <1>3 DEF Next, RegisterValidation, UnregisterValidation, vars

-----------------------------------------------------------------------------
(***************************************************************************)
(* The steps of the machine.                                               *)
(***************************************************************************)
\* The row of a call that is about to write is the one it read.
LEMMA RowAtTheWrite ==
  ASSUME IInv, SerialInv, NEW r \in Requests, pc[r] \in {"updateInstance", "saveFinished"}
  PROVE  /\ instances \in Seq(Row)
         /\ frame[r].id \in DOMAIN instances
         /\ instances[frame[r].id] = frame[r].from
         /\ frame[r].from \in Row
  <1>1. r \in InFlight /\ pc[r] \in BeforeTheWrite
    BY DEF InFlight, Stages, BeforeTheWrite
  <1>2. \E j \in DOMAIN writes : writes[j].id = frame[r].id
    BY <1>1 DEF InFlight, IInv, FrameInv
  <1>3. frame[r].id \in DOMAIN instances
    BY <1>2 DEF IInv, HistoryInv
  <1> QED
    BY <1>1, <1>3 DEF SerialInv, IInv, TypeOK

\* What SaveColumns makes of such a row is the row the call holds.
LEMMA SavedRow ==
  ASSUME IInv, SerialInv, NEW r \in Requests, pc[r] \in {"updateInstance", "saveFinished"},
         NEW row \in Row, row.type = frame[r].from.type
  PROVE  SaveColumns(frame[r].id, row) = [instances EXCEPT ![frame[r].id] = row]
  <1> DEFINE id == frame[r].id
  <1>1. instances \in Seq(Row) /\ id \in DOMAIN instances /\ instances[id] = frame[r].from
    BY RowAtTheWrite
  <1>2. instances[id] \in Row /\ instances[id].type = row.type
    BY <1>1
  <1> HIDE DEF id
  <1>3. SaveColumns(id, row) = [instances EXCEPT ![id] = row]
    BY <1>1, <1>2 DEF SaveColumns, Row
  <1> QED
    BY <1>3 DEF id

LEMMA CreateIsCreate ==
  ASSUME NEW r \in Requests, CreateInstance(r)
  PROVE  FSM!Next \/ UNCHANGED instances
  BY DEF CreateInstance, CreateInstanceOf, InitialRow, FSM!Next, FSM!Create

LEMMA UpdateIsMove ==
  ASSUME IInv, SerialInv, NEW r \in Requests, UpdateInstance(r)
  PROVE  FSM!Next \/ UNCHANGED instances
  <1> DEFINE id == frame[r].id
             row == frame[r].from
             act == frame[r].act
             a == frame[r].action
  <1>1. /\ row \in Row /\ a \in ActionNames
        /\ act \in GetTransitionAction(Definitions[row.type], row.step, a)
    BY FrameFacts DEF UpdateInstance, TransitionStages, Stages
  <1>2. id \in DOMAIN instances /\ instances[id] = row
    BY RowAtTheWrite DEF UpdateInstance
  <1>3. Moved(frame[r]) \in Row /\ Moved(frame[r]).type = row.type
    BY <1>1, AdvanceTyped DEF Moved
  <1>4. CASE instances' = SaveColumns(id, Moved(frame[r]))
    <2>1. instances' = [instances EXCEPT ![id] = Advance(row, act)]
      BY <1>3, <1>4, SavedRow DEF UpdateInstance, Moved
    <2> HIDE DEF id, row, act, a
    <2>2. act \in FSM!GetTransitionAction(Definitions[instances[id].type], instances[id].step, a)
      BY <1>1, <1>2, SameDefinitions
    <2>3. instances' = [instances EXCEPT ![id] = FSM!Advance(@, act)]
      BY <1>2, <2>1, SameDefinitions
    <2>4. FSM!Move(id, a)
      BY <2>2, <2>3 DEF FSM!Move
    <2> QED
      BY <1>1, <1>2, <2>4 DEF FSM!Next
  <1> QED
    BY <1>4 DEF UpdateInstance, SaveInstance

LEMMA FinishIsFinish ==
  ASSUME IInv, SerialInv, NEW r \in Requests, SaveFinished(r)
  PROVE  FSM!Next \/ UNCHANGED instances
  <1> DEFINE id == frame[r].id
             row == [frame[r].from EXCEPT !.finished = TRUE]
  <1>1. /\ id \in DOMAIN instances /\ instances[id] = frame[r].from
        /\ frame[r].from \in Row
    BY RowAtTheWrite DEF SaveFinished
  <1>2. row \in Row /\ row.type = frame[r].from.type
    BY <1>1 DEF Row
  <1>3. CASE instances' = SaveColumns(id, row)
    <2>1. instances' = [instances EXCEPT ![id] = row]
      BY <1>2, <1>3, SavedRow DEF SaveFinished
    <2>2. FSM!Finish(id)
      BY <1>1, <2>1 DEF FSM!Finish
    <2> QED
      BY <1>1, <2>2 DEF FSM!Next
  <1> QED
    BY <1>3 DEF SaveFinished, SaveInstance

LEMMA NextRefines == IInv /\ SerialInv /\ [Next]_vars => [FSM!Next]_instances
  <1> SUFFICES ASSUME IInv, SerialInv, [Next]_vars PROVE FSM!Next \/ UNCHANGED instances
    OBVIOUS
  <1>1. CASE \E r \in Requests : CreateInstance(r) \/ UpdateInstance(r) \/ SaveFinished(r)
    BY <1>1, CreateIsCreate, UpdateIsMove, FinishIsFinish
  <1>2. CASE UNCHANGED instances
    BY <1>2
  <1> QED
    BY <1>1, <1>2 DEF Next, RequestStep, BeginTransition, BeginTransitionOf,
       BeginWithNoInstance, HasValidation, GetValidation, EmitBefore, CreateTransition,
       SendEvent, BeginFinish, RegisterValidation, UnregisterValidation, Crash, vars

\* Without overlapping calls every change of a row is the creation of one, one
\* action of its definition from where it stands, or its finish (service.go:98-305).
THEOREM SerialServiceRefinesFSM ==
  ASSUME MaxInFlight = 1
  PROVE  Spec => RefinesFSM
  <1>1. Init => SerialInv /\ FSM!Init
    BY DEF Init, SerialInv, InFlight, Stages, FSM!Init
  <1>2. IInv /\ SerialInv /\ [Next]_vars => SerialInv'
    BY NextSerial
  <1> QED
    BY <1>1, <1>2, NextRefines, Invariance, PTL DEF Spec, RefinesFSM, FSM!Spec

-----------------------------------------------------------------------------
(***************************************************************************)
(* What the counterexample of FinishIsFinal comes from: a call that writes *)
(* a row other than the one it read.  Where calls do not overlap, what was *)
(* finished once is finished in the table, and no call reads it otherwise. *)
(***************************************************************************)
FinishInv ==
  /\ \A j \in DOMAIN writes : writes[j].row.finished => instances[writes[j].id].finished
  /\ FinishIsFinal

\* One row changes to the row of the entry that is logged, and stays finished.
LEMMA FinalAfterWrite ==
  ASSUME IInv, FinishInv, NEW w, writes' = Append(writes, w), w \in Write,
         instances'[w.id] = w.row,
         \A i \in DOMAIN instances : i # w.id => instances'[i] = instances[i],
         w.id \in DOMAIN instances /\ instances[w.id].finished => w.row.finished
  PROVE  FinishInv'
  <1>1. /\ DOMAIN writes' = 1 .. Len(writes) + 1
        /\ DOMAIN writes = 1 .. Len(writes) /\ Len(writes) \in Nat
        /\ \A j \in DOMAIN writes : writes'[j] = writes[j]
        /\ writes'[Len(writes) + 1] = w
    <2>1. writes \in Seq(Write)
      BY DEF IInv, TypeOK, Write
    <2> QED
      BY <2>1, AppendFacts
  <1>2. \A j \in DOMAIN writes : writes[j].id \in DOMAIN instances
    BY DEF IInv, HistoryInv
  <1>3. \A j \in DOMAIN writes : writes[j].row.finished /\ writes[j].id = w.id => w.row.finished
    BY <1>2 DEF FinishInv
  <1>4. ASSUME NEW j \in DOMAIN writes', writes'[j].row.finished
        PROVE  instances'[writes'[j].id].finished
    <2>1. CASE j = Len(writes) + 1
      BY <1>1, <1>4, <2>1
    <2>2. CASE j # Len(writes) + 1
      <3>1. j \in DOMAIN writes /\ writes'[j] = writes[j]
        BY <1>1, <2>2
      <3>2. CASE writes[j].id = w.id
        BY <1>3, <1>4, <3>1, <3>2
      <3>3. CASE writes[j].id # w.id
        BY <1>2, <1>4, <3>1, <3>3 DEF FinishInv
      <3> QED
        BY <3>2, <3>3
    <2> QED
      BY <2>1, <2>2
  <1>5. ASSUME NEW k \in DOMAIN writes', NEW j \in 1 .. k - 1,
               writes'[j].id = writes'[k].id, writes'[j].row.finished
        PROVE  writes'[k].row.finished
    <2>1. j \in DOMAIN writes /\ writes'[j] = writes[j]
      BY <1>1
    <2>2. CASE k = Len(writes) + 1
      BY <1>1, <1>3, <1>5, <2>1, <2>2
    <2>3. CASE k # Len(writes) + 1
      <3>1. k \in DOMAIN writes /\ writes'[k] = writes[k]
        BY <1>1, <2>3
      <3> QED
        BY <1>5, <2>1, <3>1 DEF FinishInv, FinishIsFinal
    <2> QED
      BY <2>2, <2>3
  <1> QED
    BY <1>4, <1>5 DEF FinishInv, FinishIsFinal

LEMMA SaveInstanceFinal ==
  ASSUME IInv, SerialInv, FinishInv, NEW r \in Requests, NEW row \in Row, NEW outcome,
         pc[r] \in {"updateInstance", "saveFinished"}, row.type = frame[r].from.type,
         frame[r].from.finished => row.finished, SaveInstance(r, row, outcome)
  PROVE  FinishInv'
  <1>1. CASE ~Commits(outcome)
    BY <1>1 DEF SaveInstance, FinishInv, FinishIsFinal
  <1>2. CASE Commits(outcome)
    <2> DEFINE id == frame[r].id
               w  == [op |-> frame[r].op, req |-> r, id |-> id, row |-> row]
    <2>1. /\ instances \in Seq(Row) /\ id \in DOMAIN instances
          /\ instances[id] = frame[r].from
      BY RowAtTheWrite
    <2>2. frame[r] \in TransitionFrame \/ frame[r] \in FinishFrame
      BY DEF IInv, FrameInv, TransitionStages, Stages
    <2>3. frame[r].op \in {"transition", "finish"}
      BY <2>2 DEF TransitionFrame, FinishFrame
    <2>4. DOMAIN instances \subseteq Nat
      BY <2>1
    <2>5. w \in Write /\ w.id = id /\ w.row = row
      BY <2>1, <2>3, <2>4 DEF Write
    <2>6. writes' = Append(writes, w) /\ instances' = [instances EXCEPT ![id] = row]
      BY <1>2, SavedRow DEF SaveInstance
    <2>7. /\ instances'[id] = row
          /\ \A i \in DOMAIN instances : i # id => instances'[i] = instances[i]
      BY <2>1, <2>6, ExceptFacts
    <2> HIDE DEF w, id
    <2> QED
      BY <2>1, <2>5, <2>6, <2>7, FinalAfterWrite
  <1> QED
    BY <1>1, <1>2

LEMMA CreateInstanceFinal ==
  ASSUME IInv, FinishInv, NEW r \in Requests, CreateInstance(r)
  PROVE  FinishInv'
  <1>1. PICK t \in WorkflowTypes, outcome \in WriteOutcomes :
          \/ UNCHANGED <<instances, writes>>
          \/ /\ t \in DOMAIN Definitions
             /\ instances' = Append(instances, InitialRow(t))
             /\ writes' = Append(writes, [op |-> "create", req |-> r,
                                          id |-> Len(instances) + 1, row |-> InitialRow(t)])
    BY DEF CreateInstance, CreateInstanceOf
  <1>2. CASE UNCHANGED <<instances, writes>>
    BY <1>2 DEF FinishInv, FinishIsFinal
  <1>3. CASE /\ t \in DOMAIN Definitions
             /\ instances' = Append(instances, InitialRow(t))
             /\ writes' = Append(writes, [op |-> "create", req |-> r,
                                          id |-> Len(instances) + 1, row |-> InitialRow(t)])
    <2> DEFINE row == InitialRow(t)
               w == [op |-> "create", req |-> r, id |-> Len(instances) + 1, row |-> row]
    <2>1. row \in Row
      BY <1>3, InitialRowReachable
    <2>2. instances \in Seq(Row)
      BY DEF IInv, TypeOK
    <2>3. /\ DOMAIN instances = 1 .. Len(instances) /\ Len(instances) \in Nat
          /\ \A i \in DOMAIN instances : instances'[i] = instances[i]
          /\ instances'[Len(instances) + 1] = row
      BY <1>3, <2>1, <2>2, AppendFacts
    <2>4. w \in Write /\ w.id = Len(instances) + 1 /\ w.row = row
      BY <2>1, <2>3 DEF Write
    <2>5. writes' = Append(writes, w)
      BY <1>3
    <2>6. w.id \notin DOMAIN instances
      BY <2>3, <2>4
    <2> HIDE DEF w, row
    <2> QED
      BY <2>3, <2>4, <2>5, <2>6, FinalAfterWrite
  <1> QED
    BY <1>1, <1>2, <1>3

LEMMA NextFinal == IInv /\ SerialInv /\ FinishInv /\ [Next]_vars => FinishInv'
  <1> SUFFICES ASSUME IInv, SerialInv, FinishInv, [Next]_vars PROVE FinishInv'
    OBVIOUS
  <1>1. CASE UNCHANGED <<instances, writes>>
    BY <1>1 DEF FinishInv, FinishIsFinal
  <1>2. ASSUME NEW r \in Requests, CreateInstance(r) PROVE FinishInv'
    BY <1>2, CreateInstanceFinal
  <1>3. ASSUME NEW r \in Requests, UpdateInstance(r) PROVE FinishInv'
    <2>1. /\ frame[r].from \in Row /\ frame[r].action \in ActionNames
          /\ frame[r].act \in GetTransitionAction(Definitions[frame[r].from.type],
                                                 frame[r].from.step, frame[r].action)
      BY <1>3, FrameFacts DEF UpdateInstance, TransitionStages, Stages
    <2> DEFINE row == Moved(frame[r])
    <2>2. row \in Row /\ row.type = frame[r].from.type
      BY <2>1, AdvanceTyped DEF Moved
    <2>3. row.finished = frame[r].from.finished
      BY <2>1 DEF Moved, Advance, Row
    <2>4. PICK outcome : SaveInstance(r, row, outcome)
      BY <1>3 DEF UpdateInstance
    <2>5. pc[r] \in {"updateInstance", "saveFinished"}
      BY <1>3 DEF UpdateInstance
    <2> HIDE DEF row
    <2> QED
      BY <2>2, <2>3, <2>4, <2>5, SaveInstanceFinal
  <1>4. ASSUME NEW r \in Requests, SaveFinished(r) PROVE FinishInv'
    <2> DEFINE row == [frame[r].from EXCEPT !.finished = TRUE]
    <2>1. row \in Row /\ row.type = frame[r].from.type /\ row.finished
      BY <1>4 DEF SaveFinished, IInv, FrameInv, FinishFrame, Row
    <2>2. PICK outcome : SaveInstance(r, row, outcome)
      BY <1>4 DEF SaveFinished
    <2>3. pc[r] \in {"updateInstance", "saveFinished"}
      BY <1>4 DEF SaveFinished
    <2> HIDE DEF row
    <2> QED
      BY <2>1, <2>2, <2>3, SaveInstanceFinal
  <1>5. ASSUME NEW r \in Requests,
               \/ BeginTransition(r) \/ BeginWithNoInstance(r) \/ HasValidation(r)
               \/ GetValidation(r) \/ EmitBefore(r) \/ CreateTransition(r)
               \/ SendEvent(r) \/ BeginFinish(r)
        PROVE  UNCHANGED <<instances, writes>>
    BY <1>5 DEF BeginTransition, BeginTransitionOf, BeginWithNoInstance, HasValidation,
                GetValidation, EmitBefore, CreateTransition, SendEvent, BeginFinish
  <1>6. ASSUME \E f \in ValidationFuncs : RegisterValidation(f) \/ UnregisterValidation(f)
        PROVE  UNCHANGED <<instances, writes>>
    BY <1>6 DEF RegisterValidation, UnregisterValidation
  <1>7. ASSUME Crash \/ UNCHANGED vars
        PROVE  UNCHANGED <<instances, writes>>
    BY <1>7 DEF Crash, vars
  <1> QED
    BY <1>1, <1>2, <1>3, <1>4, <1>5, <1>6, <1>7 DEF Next, RequestStep

\* A finish is undone only by a call that was under way with another: if calls do
\* not overlap, no write sets finished_at back, whatever writes fail or commit
\* unacknowledged (service.go:155-210, 286-305).
THEOREM SerialFinishIsFinal ==
  ASSUME MaxInFlight = 1
  PROVE  Spec => []FinishIsFinal
  <1>1. Init => SerialInv /\ FinishInv
    BY DEF Init, SerialInv, InFlight, Stages, FinishInv, FinishIsFinal
  <1>2. IInv /\ SerialInv /\ [Next]_vars => SerialInv'
    BY NextSerial
  <1>3. FinishInv => FinishIsFinal
    BY DEF FinishInv
  <1> QED
    BY <1>1, <1>2, <1>3, NextFinal, Invariance, PTL DEF Spec
==============================================================================
