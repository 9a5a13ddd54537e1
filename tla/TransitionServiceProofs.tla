----------------------- MODULE TransitionServiceProofs -----------------------
(***************************************************************************)
(* Proofs about TransitionService, for every value of its constants: any   *)
(* number of requests, any definitions, any number of crashes.             *)
(***************************************************************************)
EXTENDS TransitionService, TLAPS

-----------------------------------------------------------------------------
(* Facts about the operators the model is built from. *)

\* A log is extended at its end and keeps what it held.
LEMMA AppendFacts ==
  ASSUME NEW S, NEW s \in Seq(S), NEW e \in S
  PROVE  /\ Append(s, e) \in Seq(S)
         /\ DOMAIN Append(s, e) = 1 .. Len(s) + 1
         /\ DOMAIN s = 1 .. Len(s)
         /\ Len(s) \in Nat
         /\ \A i \in DOMAIN s : Append(s, e)[i] = s[i]
         /\ Append(s, e)[Len(s) + 1] = e
  OBVIOUS

\* An entry of a log or a table is replaced in place.
LEMMA ExceptFacts ==
  ASSUME NEW S, NEW s \in Seq(S), NEW i \in DOMAIN s, NEW e \in S
  PROVE  /\ [s EXCEPT ![i] = e] \in Seq(S)
         /\ DOMAIN [s EXCEPT ![i] = e] = DOMAIN s
         /\ [s EXCEPT ![i] = e][i] = e
         /\ \A j \in DOMAIN s : j # i => [s EXCEPT ![i] = e][j] = s[j]
  OBVIOUS

\* What the lookup of definition.go:50-63 returns is an action of the name asked
\* for, with fields that are names or blank.
LEMMA ActionTyped ==
  ASSUME NEW t \in DOMAIN Definitions, NEW s, NEW a \in ActionNames,
         NEW act \in GetTransitionAction(Definitions[t], s, a)
  PROVE  /\ act.name = a
         /\ act.nextStep \in StepNames \cup {Blank}
         /\ act.newState \in StateNames \cup {Blank}
  <1>1. PICK step \in GetStep(Definitions[t], s) : act \in FirstNamed(step.actions, a)
    BY DEF GetTransitionAction
  <1>2. s \in DOMAIN Definitions[t].steps /\ step = Definitions[t].steps[s]
    BY <1>1 DEF GetStep
  <1>3. PICK i \in DOMAIN step.actions : act = step.actions[i] /\ step.actions[i].name = a
    BY <1>1 DEF FirstNamed
  <1> QED
    BY <1>2, <1>3, DefinitionsAssumption DEF DefinitionOK

\* An action moves a row to a row of the same workflow (service.go:200-205).
LEMMA AdvanceTyped ==
  ASSUME NEW row \in Row, NEW s, NEW a \in ActionNames,
         NEW act \in GetTransitionAction(Definitions[row.type], s, a)
  PROVE  /\ Advance(row, act) \in Row
         /\ Advance(row, act).type = row.type
         /\ Advance(row, act).finished = row.finished
         /\ Advance(row, act).step = OrElse(act.nextStep, row.step)
         /\ Advance(row, act).state = OrElse(act.newState, row.state)
  <1>1. row.type \in DOMAIN Definitions
    BY DEF Row
  <1>2. /\ act.nextStep \in StepNames \cup {Blank}
        /\ act.newState \in StateNames \cup {Blank}
    BY <1>1, ActionTyped
  <1> QED
    BY <1>2 DEF Advance, OrElse, Row

\* An instance is created at a reachable position (service.go:104-111).
LEMMA InitialRowReachable ==
  ASSUME NEW t \in DOMAIN Definitions
  PROVE  /\ InitialRow(t) \in Row
         /\ Located(InitialRow(t)) \in ReachablePositions
  <1>1. InitialRow(t) \in Row
    BY DefinitionsAssumption DEF DefinitionOK, InitialRow, Row
  <1>2. PositionOf(Located(InitialRow(t))) = InitialPosition(Definitions[t])
    BY DEF PositionOf, Located, InitialRow, InitialPosition
  <1>3. IsReachable(Definitions[t], StepNames, StateNames, ActionNames,
                    InitialPosition(Definitions[t]))
    BY DEF IsReachable
  <1>4. Located(InitialRow(t)).type = t
    BY DEF Located, InitialRow
  <1>5. Located(InitialRow(t)) \in
          {[type |-> u, step |-> s, state |-> st] :
             u \in DOMAIN Definitions, s \in StepNames, st \in StateNames}
    BY <1>1 DEF Located, InitialRow, Row
  <1> QED
    BY <1>1, <1>2, <1>3, <1>4, <1>5 DEF ReachablePositions

\* An action leads from a reachable position to a reachable position.
LEMMA AdvanceReachable ==
  ASSUME NEW row \in Row, Located(row) \in ReachablePositions,
         NEW a \in ActionNames,
         NEW act \in GetTransitionAction(Definitions[row.type], row.step, a)
  PROVE  Located(Advance(row, act)) \in ReachablePositions
  <1> DEFINE def  == Definitions[row.type]
             p    == PositionOf(row)
             q    == Advance(p, act)
             next == Advance(row, act)
  <1>1. /\ next \in Row
        /\ next.type = row.type
        /\ next.step = OrElse(act.nextStep, row.step)
        /\ next.state = OrElse(act.newState, row.state)
    BY AdvanceTyped
  <1>2. p.step = row.step /\ p.state = row.state
    BY DEF PositionOf
  <1>3. q = PositionOf(Located(next))
    <2>1. q = [step  |-> OrElse(act.nextStep, row.step),
               state |-> OrElse(act.newState, row.state)]
      <3>1. p \in [step : StepNames, state : StateNames]
        BY DEF PositionOf, Row
      <3>2. /\ q \in [step : StepNames, state : StateNames]
            /\ q.step = OrElse(act.nextStep, row.step)
            /\ q.state = OrElse(act.newState, row.state)
        <4>1. next.step \in StepNames /\ next.state \in StateNames
          BY <1>1 DEF Row
        <4> QED
          BY <3>1, <4>1, <1>1, <1>2 DEF Advance
      <3> QED
        BY <3>2
    <2>2. PositionOf(Located(next)) = [step |-> next.step, state |-> next.state]
      BY DEF PositionOf, Located
    <2> QED
      BY <2>1, <2>2, <1>1
  <1>4. IsReachable(def, StepNames, StateNames, ActionNames, p)
    BY DEF ReachablePositions, Located, PositionOf
  <1>5. IsReachable(def, StepNames, StateNames, ActionNames, q)
    <2> SUFFICES ASSUME NEW P \in SUBSET [step : StepNames, state : StateNames],
                        InitialPosition(def) \in P,
                        ClosedUnder(def, ActionNames, P)
                 PROVE  q \in P
      BY DEF IsReachable
    <2>1. p \in P
      BY <1>4 DEF IsReachable
    <2> QED
      BY <2>1, <1>2 DEF ClosedUnder
  <1>6. Located(next) \in
          {[type |-> u, step |-> s, state |-> st] :
             u \in DOMAIN Definitions, s \in StepNames, st \in StateNames}
    BY <1>1 DEF Located, Row
  <1>7. Located(next).type = row.type
    BY <1>1 DEF Located
  <1> QED
    BY <1>3, <1>5, <1>6, <1>7 DEF ReachablePositions

-----------------------------------------------------------------------------
(* The inductive invariant holds initially. *)

LEMMA InitIInv == Init => IInv
  <1> SUFFICES ASSUME Init PROVE IInv
    OBVIOUS
  <1>1. TypeOK
    BY ValidationsAssumption DEF Init, TypeOK
  <1>2. HistoryInv /\ WritesAreReachable /\ WritesStemFromThePast
    BY DEF Init, HistoryInv, WritesAreReachable, WritesStemFromThePast
  <1>3. FrameInv
    BY DEF Init, FrameInv, TransitionStages, Stages
  <1>4. ProgressInv /\ RejectionsLeaveNoTrace
    BY DEF Init, ProgressInv, RejectionsLeaveNoTrace, Rejections
  <1> QED
    BY <1>1, <1>2, <1>3, <1>4 DEF IInv

-----------------------------------------------------------------------------
(* Steps that write no row, no record and no event. *)

\* The history of the rows is about the rows and the writes alone.
LEMMA RowsUnchanged ==
  ASSUME IInv, UNCHANGED <<instances, writes>>
  PROVE  HistoryInv' /\ WritesAreReachable' /\ WritesStemFromThePast'
  <1>1. HistoryInv'
    BY DEF IInv, HistoryInv
  <1>2. WritesAreReachable'
    BY DEF IInv, WritesAreReachable
  <1>3. WritesStemFromThePast'
    BY DEF IInv, WritesStemFromThePast
  <1> QED
    BY <1>1, <1>2, <1>3

\* A request that fails: with an error of the checks only before its write.
LEMMA FailStep ==
  ASSUME IInv, NEW r \in Requests, NEW e \in Rejections \cup WriteErrors,
         pc[r] \in {"idle"} \cup Stages,
         e \in Rejections => pc[r] \in BeforeTheWrite,
         Fail(r, e),
         UNCHANGED <<instances, transitions, validations, frame, offered, crashes, writes>>
  PROVE  IInv'
  <1>1. TypeOK'
    BY DEF IInv, TypeOK, Fail, Ends
  <1>2. HistoryInv' /\ WritesAreReachable' /\ WritesStemFromThePast'
    BY RowsUnchanged
  <1>3. \A q \in Requests : /\ pc'[q] = IF q = r THEN "failed" ELSE pc[q]
                            /\ err'[q] = IF q = r THEN e ELSE err[q]
    BY DEF IInv, TypeOK, Fail
  <1>4. FrameInv'
    BY <1>3 DEF IInv, FrameInv, TransitionStages, Stages
  <1>5. ProgressInv'
    BY <1>3 DEF IInv, ProgressInv, BeforeTheWrite, Stages
  <1>6. RejectionsLeaveNoTrace'
    <2> SUFFICES ASSUME NEW q \in Requests, err'[q] \in Rejections
                 PROVE  /\ \A k \in DOMAIN writes : writes[k].req # q
                        /\ \A k \in DOMAIN transitions : transitions[k].req # q
                        /\ \A k \in DOMAIN offered : offered[k].req # q
      BY DEF RejectionsLeaveNoTrace
    <2>1. CASE q = r
      BY <2>1, <1>3 DEF IInv, ProgressInv
    <2>2. CASE q # r
      BY <2>2, <1>3 DEF IInv, RejectionsLeaveNoTrace
    <2> QED
      BY <2>1, <2>2
  <1> QED
    BY <1>1, <1>2, <1>4, <1>5, <1>6 DEF IInv

\* A request that goes on to a stage before its write, with a sound frame.
LEMMA GoOnStep ==
  ASSUME IInv, NEW r \in Requests, NEW stage \in BeforeTheWrite \ {"idle"},
         pc[r] \in BeforeTheWrite, GoTo(r, stage),
         NEW f, frame' = [frame EXCEPT ![r] = f],
         IF stage = "saveFinished"
           THEN f \in FinishFrame
           ELSE /\ f \in TransitionFrame
                /\ f.act \in GetTransitionAction(Definitions[f.from.type],
                                                f.from.step, f.action),
         \E j \in DOMAIN writes : writes[j].id = f.id /\ writes[j].row = f.from,
         UNCHANGED <<instances, transitions, offered, crashes, writes>>,
         validations' \subseteq ValidationFuncs
  PROVE  IInv'
  <1>1. f \in FinishFrame \cup TransitionFrame
    OBVIOUS
  <1>2. TypeOK'
    BY <1>1 DEF IInv, TypeOK, GoTo, BeforeTheWrite, Stages
  <1>3. HistoryInv' /\ WritesAreReachable' /\ WritesStemFromThePast'
    BY RowsUnchanged
  <1>4. \A q \in Requests : /\ pc'[q] = IF q = r THEN stage ELSE pc[q]
                            /\ frame'[q] = IF q = r THEN f ELSE frame[q]
                            /\ err'[q] = err[q]
    BY DEF IInv, TypeOK, GoTo
  <1>5. FrameInv'
    <2> SUFFICES ASSUME NEW q \in Requests
                 PROVE  /\ pc'[q] \in TransitionStages =>
                             /\ frame'[q] \in TransitionFrame
                             /\ frame'[q].act \in
                                  GetTransitionAction(Definitions[frame'[q].from.type],
                                                      frame'[q].from.step, frame'[q].action)
                        /\ pc'[q] = "saveFinished" => frame'[q] \in FinishFrame
                        /\ pc'[q] \in Stages => \E j \in DOMAIN writes' :
                             writes'[j].id = frame'[q].id /\ writes'[j].row = frame'[q].from
      BY DEF FrameInv
    <2>1. CASE q = r
      BY <2>1, <1>4 DEF TransitionStages
    <2>2. CASE q # r
      BY <2>2, <1>4 DEF IInv, FrameInv
    <2> QED
      BY <2>1, <2>2
  <1>6. ProgressInv'
    BY <1>4 DEF IInv, ProgressInv, BeforeTheWrite, Stages
  <1>7. RejectionsLeaveNoTrace'
    BY <1>4 DEF IInv, RejectionsLeaveNoTrace
  <1> QED
    BY <1>2, <1>3, <1>5, <1>6, <1>7 DEF IInv

\* An action looked up for the row's own step is one the frame may hold.
LEMMA LookedUpActionTyped ==
  ASSUME NEW row \in Row, NEW a \in ActionNames, NEW v \in BOOLEAN, NEW id \in Nat,
         NEW d \in InputData,
         NEW step \in GetStep(Definitions[row.type], row.step),
         NEW act \in GetTransitionAction(Definitions[row.type], row.step, a)
  PROVE  [op |-> "transition", id |-> id, from |-> row, action |-> a,
          stepName |-> step.name, act |-> act, input |-> d, validated |-> v]
           \in TransitionFrame
  <1>1. row.type \in DOMAIN Definitions /\ row.step \in StepNames
    BY DEF Row
  <1>2. step.name \in StepNames
    BY <1>1, DefinitionsAssumption DEF GetStep, DefinitionOK
  <1>3. act \in DefinedActions
    BY <1>1 DEF DefinedActions
  <1> QED
    BY <1>2, <1>3 DEF TransitionFrame

LEMMA BeginTransitionStep ==
  ASSUME IInv, NEW r \in Requests, BeginTransition(r)
  PROVE  IInv'
  <1>0. pc[r] = "idle" /\ pc[r] \in BeforeTheWrite
    BY DEF BeginTransition, BeginTransitionOf, MayBegin, BeforeTheWrite
  <1>1. PICK id \in DOMAIN instances, a \in ActionNames :
          LET row   == instances[id]
              def   == Definitions[row.type]
              steps == GetStep(def, row.step)
              acts  == GetTransitionAction(def, row.step, a)
          IN  \/ steps = {} /\ Fail(r, "step not found") /\ UNCHANGED frame
              \/ steps # {} /\ acts = {} /\ Fail(r, "action not found") /\ UNCHANGED frame
              \/ \E step \in steps, act \in acts :
                   /\ frame' = [frame EXCEPT ![r] =
                         [op |-> "transition", id |-> id, from |-> row, action |-> a,
                          stepName |-> step.name, act |-> act, input |-> "json",
                          validated |-> FALSE]]
                   /\ GoTo(r, IF act.validationFunc = Blank THEN "emitBefore"
                                                            ELSE "hasValidation")
    BY DEF BeginTransition, BeginTransitionOf
  <1> DEFINE row == instances[id]
  <1>2. UNCHANGED <<instances, transitions, validations, offered, crashes, writes>>
    BY DEF BeginTransition, BeginTransitionOf
  <1>3. CASE \/ Fail(r, "step not found") /\ UNCHANGED frame
             \/ Fail(r, "action not found") /\ UNCHANGED frame
    BY <1>0, <1>2, <1>3, FailStep DEF Rejections
  <1>4. CASE \E step \in GetStep(Definitions[row.type], row.step),
                act \in GetTransitionAction(Definitions[row.type], row.step, a) :
               /\ frame' = [frame EXCEPT ![r] =
                     [op |-> "transition", id |-> id, from |-> row, action |-> a,
                      stepName |-> step.name, act |-> act, input |-> "json",
                      validated |-> FALSE]]
               /\ GoTo(r, IF act.validationFunc = Blank THEN "emitBefore"
                                                        ELSE "hasValidation")
    <2>1. PICK step \in GetStep(Definitions[row.type], row.step),
               act \in GetTransitionAction(Definitions[row.type], row.step, a) :
               /\ frame' = [frame EXCEPT ![r] =
                     [op |-> "transition", id |-> id, from |-> row, action |-> a,
                      stepName |-> step.name, act |-> act, input |-> "json",
                      validated |-> FALSE]]
               /\ GoTo(r, IF act.validationFunc = Blank THEN "emitBefore"
                                                        ELSE "hasValidation")
      BY <1>4
    <2> DEFINE f == [op |-> "transition", id |-> id, from |-> row, action |-> a,
                     stepName |-> step.name, act |-> act, input |-> "json",
                     validated |-> FALSE]
               stage == IF act.validationFunc = Blank THEN "emitBefore"
                                                      ELSE "hasValidation"
    <2>2. row \in Row /\ id \in Nat /\ validations \subseteq ValidationFuncs
      BY DEF IInv, TypeOK
    <2>3. f \in TransitionFrame
      BY <2>2, LookedUpActionTyped DEF InputData
    <2>4. /\ f.act \in GetTransitionAction(Definitions[f.from.type], f.from.step, f.action)
          /\ f.id = id /\ f.from = row
      OBVIOUS
    <2>5. \E j \in DOMAIN writes : writes[j].id = id /\ writes[j].row = row
      BY DEF IInv, HistoryInv
    <2>6. stage \in BeforeTheWrite \ {"idle"} /\ stage # "saveFinished"
      BY DEF BeforeTheWrite
    <2>7. \E j \in DOMAIN writes : writes[j].id = f.id /\ writes[j].row = f.from
      BY <2>5, <2>4
    <2>8. frame' = [frame EXCEPT ![r] = f] /\ GoTo(r, stage)
      BY <2>1
    <2>9. validations' \subseteq ValidationFuncs
      BY <1>2, <2>2
    <2> HIDE DEF f, stage
    <2> QED
      BY <1>0, <1>2, <2>3, <2>4, <2>6, <2>7, <2>8, <2>9, GoOnStep
  <1> QED
    BY <1>1, <1>3, <1>4

LEMMA BeginWithNoInstanceStep ==
  ASSUME IInv, NEW r \in Requests, BeginWithNoInstance(r)
  PROVE  IInv'
  BY FailStep DEF BeginWithNoInstance, MayBegin, BeforeTheWrite, Rejections

\* What a request in one of the stages of TransitionStep holds.
LEMMA FrameFacts ==
  ASSUME IInv, NEW r \in Requests, pc[r] \in TransitionStages
  PROVE  /\ frame[r] \in TransitionFrame
         /\ frame[r].from \in Row /\ frame[r].action \in ActionNames
         /\ frame[r].act \in GetTransitionAction(Definitions[frame[r].from.type],
                                                frame[r].from.step, frame[r].action)
         /\ \E j \in DOMAIN writes :
              writes[j].id = frame[r].id /\ writes[j].row = frame[r].from
         /\ frame = [frame EXCEPT ![r] = frame[r]]
  <1>1. /\ frame[r] \in TransitionFrame
        /\ frame[r].act \in GetTransitionAction(Definitions[frame[r].from.type],
                                               frame[r].from.step, frame[r].action)
        /\ \E j \in DOMAIN writes :
              writes[j].id = frame[r].id /\ writes[j].row = frame[r].from
    BY DEF IInv, FrameInv, TransitionStages
  <1>2. frame[r].from \in Row /\ frame[r].action \in ActionNames
    BY <1>1 DEF TransitionFrame
  <1>3. frame = [frame EXCEPT ![r] = frame[r]]
    BY DEF IInv, TypeOK
  <1> QED
    BY <1>1, <1>2, <1>3

LEMMA HasValidationStep ==
  ASSUME IInv, NEW r \in Requests, HasValidation(r)
  PROVE  IInv'
  <1>1. /\ pc[r] \in BeforeTheWrite \cap TransitionStages
        /\ UNCHANGED <<instances, transitions, validations, frame, offered, crashes, writes>>
        /\ validations \subseteq ValidationFuncs
    BY DEF HasValidation, BeforeTheWrite, TransitionStages, Stages, IInv, TypeOK
  <1>2. PICK stage \in {"getValidation", "emitBefore"} : GoTo(r, stage)
    BY DEF HasValidation
  <1>3. stage \in BeforeTheWrite \ {"idle"} /\ stage # "saveFinished"
    BY DEF BeforeTheWrite
  <1> QED
    BY <1>1, <1>2, <1>3, FrameFacts, GoOnStep

LEMMA GetValidationStep ==
  ASSUME IInv, NEW r \in Requests, GetValidation(r)
  PROVE  IInv'
  <1>1. /\ pc[r] \in BeforeTheWrite \cap TransitionStages
        /\ UNCHANGED <<instances, transitions, validations, offered, crashes, writes>>
        /\ validations \subseteq ValidationFuncs
    BY DEF GetValidation, BeforeTheWrite, TransitionStages, Stages, IInv, TypeOK
  <1>2. CASE UNCHANGED frame /\ \E e \in Rejections : Fail(r, e)
    BY <1>1, <1>2, FailStep DEF TransitionStages
  <1>3. CASE GoTo(r, "emitBefore") /\ frame' = [frame EXCEPT ![r].validated = TRUE]
    <2> DEFINE f == [frame[r] EXCEPT !.validated = TRUE]
    <2>1. /\ f \in TransitionFrame
          /\ f.id = frame[r].id /\ f.from = frame[r].from
          /\ f.act = frame[r].act /\ f.action = frame[r].action
      <3>1. frame[r] \in TransitionFrame
        BY <1>1, FrameFacts
      <3> QED
        BY <3>1 DEF TransitionFrame
    <2>2. frame' = [frame EXCEPT ![r] = f]
      BY <1>3
    <2> HIDE DEF f
    <2> DEFINE stage == "emitBefore"
    <2>3. stage \in BeforeTheWrite \ {"idle"} /\ stage # "saveFinished"
      BY DEF BeforeTheWrite
    <2>4. /\ f.act \in GetTransitionAction(Definitions[f.from.type], f.from.step, f.action)
          /\ \E j \in DOMAIN writes : writes[j].id = f.id /\ writes[j].row = f.from
      BY <2>1, <1>1, FrameFacts
    <2>5. GoTo(r, stage) /\ validations' \subseteq ValidationFuncs
      BY <1>1, <1>3
    <2> HIDE DEF stage
    <2> QED
      BY <1>1, <2>1, <2>2, <2>3, <2>4, <2>5, GoOnStep
  <1> QED
    BY <1>2, <1>3 DEF GetValidation, Rejections

LEMMA EmitBeforeStep ==
  ASSUME IInv, NEW r \in Requests, EmitBefore(r)
  PROVE  IInv'
  <1>1. /\ pc[r] \in BeforeTheWrite \cap TransitionStages
        /\ UNCHANGED <<instances, transitions, validations, offered, crashes, writes>>
        /\ validations \subseteq ValidationFuncs
    BY DEF EmitBefore, BeforeTheWrite, TransitionStages, Stages, IInv, TypeOK
  <1>2. CASE UNCHANGED frame /\ \E e \in Rejections : Fail(r, e)
    BY <1>1, <1>2, FailStep DEF TransitionStages
  <1>3. CASE \E d \in InputData : /\ frame' = [frame EXCEPT ![r].input = d]
                                 /\ GoTo(r, "updateInstance")
    <2>0. PICK d \in InputData : /\ frame' = [frame EXCEPT ![r].input = d]
                                 /\ GoTo(r, "updateInstance")
      BY <1>3
    <2> DEFINE f == [frame[r] EXCEPT !.input = d]
    <2>1. /\ f \in TransitionFrame
          /\ f.id = frame[r].id /\ f.from = frame[r].from
          /\ f.act = frame[r].act /\ f.action = frame[r].action
      BY <1>1, FrameFacts DEF TransitionFrame
    <2>2. frame' = [frame EXCEPT ![r] = f]
      BY <2>0
    <2> HIDE DEF f
    <2> DEFINE stage == "updateInstance"
    <2>3. stage \in BeforeTheWrite \ {"idle"} /\ stage # "saveFinished"
      BY DEF BeforeTheWrite
    <2>4. /\ f.act \in GetTransitionAction(Definitions[f.from.type], f.from.step, f.action)
          /\ \E j \in DOMAIN writes : writes[j].id = f.id /\ writes[j].row = f.from
      BY <2>1, <1>1, FrameFacts
    <2>5. GoTo(r, stage) /\ validations' \subseteq ValidationFuncs
      BY <1>1, <2>0
    <2> HIDE DEF stage
    <2> QED
      BY <1>1, <2>1, <2>2, <2>3, <2>4, <2>5, GoOnStep
  <1> QED
    BY <1>2, <1>3 DEF EmitBefore, Rejections

LEMMA BeginFinishStep ==
  ASSUME IInv, NEW r \in Requests, BeginFinish(r)
  PROVE  IInv'
  <1>1. /\ pc[r] \in BeforeTheWrite
        /\ GoTo(r, "saveFinished")
        /\ UNCHANGED <<instances, transitions, validations, offered, crashes, writes>>
        /\ validations \subseteq ValidationFuncs
    BY DEF BeginFinish, MayBegin, BeforeTheWrite, IInv, TypeOK
  <1>2. PICK id \in DOMAIN instances :
          frame' = [frame EXCEPT ![r] = [op |-> "finish", id |-> id, from |-> instances[id]]]
    BY DEF BeginFinish
  <1> DEFINE f == [op |-> "finish", id |-> id, from |-> instances[id]]
  <1>3. f \in FinishFrame /\ f.id = id /\ f.from = instances[id]
    BY DEF IInv, TypeOK, FinishFrame
  <1>4. \E j \in DOMAIN writes : writes[j].id = f.id /\ writes[j].row = f.from
    BY <1>3 DEF IInv, HistoryInv
  <1>5. "saveFinished" \in BeforeTheWrite \ {"idle"}
    BY DEF BeforeTheWrite
  <1>6. frame' = [frame EXCEPT ![r] = f]
    BY <1>2
  <1> HIDE DEF f
  <1> QED
    BY <1>1, <1>3, <1>4, <1>5, <1>6, GoOnStep

-----------------------------------------------------------------------------
(* Steps that write a row. *)

Write == [op : {"create", "transition", "finish"}, req : Requests, id : Nat, row : Row]

\* A logged write keeps the earlier ones, and stems from the past if it must.
LEMMA LogWrite ==
  ASSUME IInv, NEW w \in Write, writes' = Append(writes, w),
         Located(w.row) \in ReachablePositions,
         IF w.op = "create"
           THEN /\ w.row = InitialRow(w.row.type)
                /\ \A j \in DOMAIN writes : writes[j].id # w.id
           ELSE \E j \in DOMAIN writes : StemsFrom(w, writes[j])
  PROVE  /\ writes' \in Seq(Write)
         /\ WritesAreReachable'
         /\ WritesStemFromThePast'
         /\ DOMAIN writes' = 1 .. Len(writes) + 1
         /\ DOMAIN writes = 1 .. Len(writes)
         /\ Len(writes) \in Nat
         /\ \A j \in DOMAIN writes : j \in DOMAIN writes' /\ writes'[j] = writes[j]
         /\ Len(writes) + 1 \in DOMAIN writes' /\ writes'[Len(writes) + 1] = w
  <1>1. writes \in Seq(Write)
    BY DEF IInv, TypeOK, Write
  <1>2. /\ writes' \in Seq(Write)
        /\ DOMAIN writes' = 1 .. Len(writes) + 1
        /\ DOMAIN writes = 1 .. Len(writes)
        /\ Len(writes) \in Nat
        /\ \A j \in DOMAIN writes : writes'[j] = writes[j]
        /\ writes'[Len(writes) + 1] = w
    BY <1>1, AppendFacts
  <1>3. \A j \in DOMAIN writes' : j \in DOMAIN writes \/ j = Len(writes) + 1
    BY <1>2
  <1>4. /\ \A j \in DOMAIN writes : j \in DOMAIN writes'
        /\ Len(writes) + 1 \in DOMAIN writes'
    BY <1>2
  <1>5. WritesAreReachable'
    BY <1>2, <1>3 DEF IInv, WritesAreReachable
  <1>6. WritesStemFromThePast'
    <2> SUFFICES ASSUME NEW k \in DOMAIN writes'
                 PROVE  IF writes'[k].op = "create"
                          THEN /\ writes'[k].row = InitialRow(writes'[k].row.type)
                               /\ \A j \in 1 .. k - 1 : writes'[j].id # writes'[k].id
                          ELSE \E j \in 1 .. k - 1 : StemsFrom(writes'[k], writes'[j])
      BY DEF WritesStemFromThePast
    <2>1. CASE k \in DOMAIN writes
      <3>1. \A j \in 1 .. k - 1 : writes'[j] = writes[j]
        BY <2>1, <1>2
      <3>2. writes'[k] = writes[k]
        BY <2>1, <1>2
      <3> QED
        BY <2>1, <3>1, <3>2 DEF IInv, WritesStemFromThePast
    <2>2. CASE k = Len(writes) + 1
      <3>1. 1 .. k - 1 = DOMAIN writes
        BY <2>2, <1>2
      <3>2. writes'[k] = w
        BY <2>2, <1>2
      <3> QED
        BY <3>1, <3>2, <1>2
    <2> QED
      BY <2>1, <2>2, <1>3
  <1> QED
    BY <1>2, <1>4, <1>5, <1>6

\* A request that has written: its stage, its error, and everyone else's state.
LEMMA AfterWrite ==
  ASSUME IInv, NEW r \in Requests, NEW w \in Write, w.req = r,
         writes' = Append(writes, w),
         /\ \A j \in DOMAIN writes : j \in DOMAIN writes' /\ writes'[j] = writes[j]
         /\ \A j \in DOMAIN writes' : j \in DOMAIN writes \/ writes'[j] = w,
         NEW stage \in {"createTransition", "returned", "failed"},
         NEW e \in {"nil"} \cup WriteErrors,
         stage = "createTransition" => e = "nil" /\ pc[r] = "updateInstance",
         pc[r] \in BeforeTheWrite,
         pc' = [pc EXCEPT ![r] = stage], err' = [err EXCEPT ![r] = e],
         UNCHANGED <<transitions, frame, offered>>
  PROVE  FrameInv' /\ ProgressInv' /\ RejectionsLeaveNoTrace'
  <1>1. \A q \in Requests : /\ pc'[q] = IF q = r THEN stage ELSE pc[q]
                            /\ err'[q] = IF q = r THEN e ELSE err[q]
    BY DEF IInv, TypeOK
  <1>2. FrameInv'
    <2> SUFFICES ASSUME NEW q \in Requests
                 PROVE  /\ pc'[q] \in TransitionStages =>
                             /\ frame[q] \in TransitionFrame
                             /\ frame[q].act \in
                                  GetTransitionAction(Definitions[frame[q].from.type],
                                                      frame[q].from.step, frame[q].action)
                        /\ pc'[q] = "saveFinished" => frame[q] \in FinishFrame
                        /\ pc'[q] \in Stages => \E j \in DOMAIN writes' :
                             writes'[j].id = frame[q].id /\ writes'[j].row = frame[q].from
      BY DEF FrameInv
    <2>1. pc'[q] \in TransitionStages => pc[q] \in TransitionStages
      BY <1>1 DEF TransitionStages, Stages
    <2>2. pc'[q] \in Stages => pc[q] \in Stages
      BY <1>1 DEF Stages
    <2>3. pc'[q] = "saveFinished" => pc[q] = "saveFinished"
      BY <1>1
    <2>4. ASSUME pc'[q] \in Stages
          PROVE  \E j \in DOMAIN writes' :
                   writes'[j].id = frame[q].id /\ writes'[j].row = frame[q].from
      <3>1. PICK j \in DOMAIN writes :
              writes[j].id = frame[q].id /\ writes[j].row = frame[q].from
        BY <2>2, <2>4 DEF IInv, FrameInv
      <3> QED
        BY <3>1
    <2> QED
      BY <2>1, <2>3, <2>4 DEF IInv, FrameInv
  <1>3. \A q \in Requests : q # r =>
          ((\A k \in DOMAIN writes : writes[k].req # q)
             => \A k \in DOMAIN writes' : writes'[k].req # q)
    OBVIOUS
  <1>4. ProgressInv'
    <2> SUFFICES ASSUME NEW q \in Requests
                 PROVE  /\ pc'[q] \in {"idle"} \cup Stages => err'[q] = "nil"
                        /\ pc'[q] \in BeforeTheWrite =>
                             \A k \in DOMAIN writes' : writes'[k].req # q
                        /\ pc'[q] \in BeforeTheWrite \cup {"createTransition"} =>
                             \A k \in DOMAIN transitions : transitions[k].req # q
                        /\ pc'[q] \in BeforeTheWrite \cup {"createTransition", "sendEvent"} =>
                             \A k \in DOMAIN offered : offered[k].req # q
      BY DEF ProgressInv
    <2>1. CASE q = r
      BY <2>1, <1>1 DEF IInv, ProgressInv, BeforeTheWrite, Stages
    <2>2. CASE q # r
      BY <2>2, <1>1, <1>3 DEF IInv, ProgressInv
    <2> QED
      BY <2>1, <2>2
  <1>5. RejectionsLeaveNoTrace'
    <2> SUFFICES ASSUME NEW q \in Requests, err'[q] \in Rejections
                 PROVE  /\ \A k \in DOMAIN writes' : writes'[k].req # q
                        /\ \A k \in DOMAIN transitions : transitions[k].req # q
                        /\ \A k \in DOMAIN offered : offered[k].req # q
      BY DEF RejectionsLeaveNoTrace
    <2>1. q # r
      BY <1>1 DEF Rejections, WriteErrors
    <2> QED
      BY <2>1, <1>1, <1>3 DEF IInv, RejectionsLeaveNoTrace
  <1> QED
    BY <1>2, <1>4, <1>5

\* A row saved over the one its request read belongs to the same instance.
LEMMA SaveStep ==
  ASSUME IInv, NEW r \in Requests, NEW row \in Row,
         pc[r] \in {"updateInstance", "saveFinished"},
         frame[r].op \in {"transition", "finish"}, frame[r].id \in Nat,
         row.type = frame[r].from.type, Located(row) \in ReachablePositions,
         \E j \in DOMAIN writes :
           StemsFrom([op |-> frame[r].op, req |-> r, id |-> frame[r].id, row |-> row], writes[j]),
         SaveInstance(r, row, "ok"),
         NEW stage \in {"createTransition", "returned", "failed"},
         NEW e \in {"nil"} \cup WriteErrors,
         stage = "createTransition" => e = "nil" /\ pc[r] = "updateInstance",
         pc' = [pc EXCEPT ![r] = stage], err' = [err EXCEPT ![r] = e],
         UNCHANGED <<transitions, validations, frame, offered, crashes>>
  PROVE  IInv'
  <1> DEFINE id == frame[r].id
             w  == [op |-> frame[r].op, req |-> r, id |-> id, row |-> row]
  <1>1. w \in Write /\ w.req = r /\ w.id = id /\ w.row = row /\ w.op # "create"
    BY DEF Write
  <1>2. writes' = Append(writes, w) /\ instances' = SaveColumns(id, row)
    BY DEF SaveInstance, Commits
  <1>3. \E j \in DOMAIN writes : StemsFrom(w, writes[j])
    OBVIOUS
  <1>4. PICK v \in DOMAIN writes : writes[v].id = id /\ writes[v].row = frame[r].from
    BY DEF IInv, FrameInv, Stages
  <1>5. id \in DOMAIN instances /\ instances[id].type = row.type
    BY <1>4 DEF IInv, HistoryInv
  <1>6. instances \in Seq(Row) /\ instances[id] \in Row
    BY <1>5 DEF IInv, TypeOK
  <1>7. /\ instances' \in Seq(Row)
        /\ DOMAIN instances' = DOMAIN instances
        /\ instances'[id] = row
        /\ \A i \in DOMAIN instances : i # id => instances'[i] = instances[i]
    <2> DEFINE saved == [instances[id] EXCEPT !.step = row.step, !.state = row.state,
                                              !.finished = row.finished]
    <2>1. saved = row
      BY <1>5, <1>6 DEF Row
    <2>2. instances' = [instances EXCEPT ![id] = saved]
      BY <1>2 DEF SaveColumns
    <2>3. instances' = [instances EXCEPT ![id] = row]
      BY <2>1, <2>2
    <2> QED
      BY <2>3, <1>5, <1>6, ExceptFacts
  <1> HIDE DEF w, id
  <1>9. /\ writes' \in Seq(Write)
        /\ WritesAreReachable' /\ WritesStemFromThePast'
        /\ \A j \in DOMAIN writes : j \in DOMAIN writes' /\ writes'[j] = writes[j]
        /\ \A j \in DOMAIN writes' : j \in DOMAIN writes \/ writes'[j] = w
        /\ \E j \in DOMAIN writes' : writes'[j] = w
    BY <1>1, <1>2, <1>3, LogWrite
  <1>10. HistoryInv'
    <2>1. ASSUME NEW i \in DOMAIN instances'
          PROVE  \E j \in DOMAIN writes' : writes'[j].id = i /\ writes'[j].row = instances'[i]
      <3>1. CASE i = id
        BY <3>1, <1>1, <1>7, <1>9
      <3>2. CASE i # id
        <4>1. PICK j \in DOMAIN writes : writes[j].id = i /\ writes[j].row = instances[i]
          BY <1>7 DEF IInv, HistoryInv
        <4> QED
          BY <4>1, <3>2, <1>7, <1>9
      <3> QED
        BY <3>1, <3>2
    <2>2. ASSUME NEW j \in DOMAIN writes'
          PROVE  /\ writes'[j].id \in DOMAIN instances'
                 /\ writes'[j].row.type = instances'[writes'[j].id].type
      <3>1. CASE writes'[j] = w
        BY <3>1, <1>1, <1>5, <1>7
      <3>2. CASE j \in DOMAIN writes
        <4>1. /\ writes'[j] = writes[j] /\ writes[j].id \in DOMAIN instances
              /\ writes[j].row.type = instances[writes[j].id].type
          BY <3>2, <1>9 DEF IInv, HistoryInv
        <4>2. instances'[writes[j].id].type = instances[writes[j].id].type
          BY <4>1, <1>5, <1>7
        <4> QED
          BY <4>1, <4>2, <1>7
      <3> QED
        BY <3>1, <3>2, <1>9
    <2> QED
      BY <2>1, <2>2 DEF HistoryInv
  <1>11. pc[r] \in BeforeTheWrite
    BY DEF BeforeTheWrite
  <1>12. FrameInv' /\ ProgressInv' /\ RejectionsLeaveNoTrace'
    BY <1>1, <1>2, <1>9, <1>11, AfterWrite
  <1>13. TypeOK'
    BY <1>7, <1>9 DEF IInv, TypeOK, Write, Stages, Ends
  <1> QED
    BY <1>9, <1>10, <1>12, <1>13 DEF IInv

\* The error that does not change, written as one that is assigned.
LEMMA NoErrorYet ==
  ASSUME IInv, NEW r \in Requests, pc[r] \in {"idle"} \cup Stages
  PROVE  err[r] = "nil" /\ err = [err EXCEPT ![r] = "nil"]
  BY DEF IInv, ProgressInv, TypeOK

LEMMA UpdateInstanceStep ==
  ASSUME IInv, NEW r \in Requests, UpdateInstance(r)
  PROVE  IInv'
  <1> DEFINE f == frame[r]
             row == Moved(f)
  <1>1. PICK outcome \in WriteOutcomes :
          /\ SaveInstance(r, row, outcome)
          /\ Follow(r, outcome, "createTransition", "failed to update instance")
    BY DEF UpdateInstance
  <1>2. /\ pc[r] = "updateInstance" /\ pc[r] \in TransitionStages
        /\ UNCHANGED <<transitions, validations, frame, offered, crashes>>
    BY DEF UpdateInstance, TransitionStages, Stages
  <1>3. /\ f \in TransitionFrame /\ f.from \in Row /\ f.action \in ActionNames
        /\ f.act \in GetTransitionAction(Definitions[f.from.type], f.from.step, f.action)
        /\ \E j \in DOMAIN writes : writes[j].id = f.id /\ writes[j].row = f.from
    BY <1>2, FrameFacts
  <1>4. f.op = "transition" /\ f.id \in Nat
    BY <1>3 DEF TransitionFrame
  <1>5. PICK v \in DOMAIN writes : writes[v].id = f.id /\ writes[v].row = f.from
    BY <1>3
  <1>6. row \in Row /\ row.type = f.from.type
    BY <1>3, AdvanceTyped DEF Moved
  <1>7. Located(f.from) \in ReachablePositions
    BY <1>5 DEF IInv, WritesAreReachable
  <1>8. Located(row) \in ReachablePositions
    BY <1>3, <1>7, AdvanceReachable DEF Moved
  <1>9. StemsFrom([op |-> f.op, req |-> r, id |-> f.id, row |-> row], writes[v])
    BY <1>3, <1>4, <1>5 DEF StemsFrom, Moved
  <1> HIDE DEF row, f
  <1>10. CASE outcome = "failed"
    <2>1. UNCHANGED <<instances, writes>>
      BY <1>1, <1>10 DEF SaveInstance, Commits
    <2>2. Fail(r, "failed to update instance")
      BY <1>1, <1>10 DEF Follow
    <2> QED
      BY <1>2, <2>1, <2>2, FailStep DEF WriteErrors, Rejections, TransitionStages
  <1>11. CASE outcome # "failed"
    <2>1. SaveInstance(r, row, "ok")
      BY <1>1, <1>11 DEF SaveInstance, Commits
    <2>2. PICK stage \in {"createTransition", "failed"}, e \in {"nil"} \cup WriteErrors :
            /\ stage = "createTransition" => e = "nil"
            /\ pc' = [pc EXCEPT ![r] = stage] /\ err' = [err EXCEPT ![r] = e]
      <3>1. CASE outcome = "ok"
        BY <3>1, <1>1, <1>2, NoErrorYet DEF Follow, GoTo, TransitionStages
      <3>2. CASE outcome # "ok"
        BY <3>2, <1>1 DEF Follow, Fail, WriteErrors
      <3> QED
        BY <3>1, <3>2
    <2> QED
      BY <1>2, <1>4, <1>6, <1>8, <1>9, <2>1, <2>2, SaveStep DEF f
  <1> QED
    BY <1>10, <1>11

LEMMA SaveFinishedStep ==
  ASSUME IInv, NEW r \in Requests, SaveFinished(r)
  PROVE  IInv'
  <1> DEFINE f == frame[r]
             row == [f.from EXCEPT !.finished = TRUE]
  <1>1. PICK outcome \in WriteOutcomes :
          /\ SaveInstance(r, row, outcome)
          /\ Follow(r, outcome, "returned", "failed to finish instance")
    BY DEF SaveFinished
  <1>2. /\ pc[r] = "saveFinished" /\ pc[r] \in Stages
        /\ UNCHANGED <<transitions, validations, frame, offered, crashes>>
    BY DEF SaveFinished, Stages
  <1>3. /\ f \in FinishFrame
        /\ \E j \in DOMAIN writes : writes[j].id = f.id /\ writes[j].row = f.from
    BY <1>2 DEF IInv, FrameInv
  <1>4. f.op = "finish" /\ f.id \in Nat /\ f.from \in Row
    BY <1>3 DEF FinishFrame
  <1>5. PICK v \in DOMAIN writes : writes[v].id = f.id /\ writes[v].row = f.from
    BY <1>3
  <1>6. row \in Row /\ row.type = f.from.type /\ Located(row) = Located(f.from)
    BY <1>4 DEF Row, Located
  <1>7. Located(row) \in ReachablePositions
    BY <1>5, <1>6 DEF IInv, WritesAreReachable
  <1>8. StemsFrom([op |-> f.op, req |-> r, id |-> f.id, row |-> row], writes[v])
    BY <1>4, <1>5 DEF StemsFrom
  <1> HIDE DEF row, f
  <1>9. CASE outcome = "failed"
    <2>1. UNCHANGED <<instances, writes>>
      BY <1>1, <1>9 DEF SaveInstance, Commits
    <2>2. Fail(r, "failed to finish instance")
      BY <1>1, <1>9 DEF Follow
    <2> QED
      BY <1>2, <2>1, <2>2, FailStep DEF WriteErrors, Rejections
  <1>10. CASE outcome # "failed"
    <2>1. SaveInstance(r, row, "ok")
      BY <1>1, <1>10 DEF SaveInstance, Commits
    <2>2. PICK stage \in {"returned", "failed"}, e \in {"nil"} \cup WriteErrors :
            pc' = [pc EXCEPT ![r] = stage] /\ err' = [err EXCEPT ![r] = e]
      <3>1. CASE outcome = "ok"
        BY <3>1, <1>1, <1>2, NoErrorYet DEF Follow, GoTo
      <3>2. CASE outcome # "ok"
        BY <3>2, <1>1 DEF Follow, Fail, WriteErrors
      <3> QED
        BY <3>1, <3>2
    <2> QED
      BY <1>2, <1>4, <1>6, <1>7, <1>8, <2>1, <2>2, SaveStep DEF f
  <1> QED
    BY <1>9, <1>10

LEMMA CreateInstanceStep ==
  ASSUME IInv, NEW r \in Requests, CreateInstance(r)
  PROVE  IInv'
  <1>1. /\ pc[r] = "idle" /\ pc[r] \in BeforeTheWrite
        /\ UNCHANGED <<transitions, validations, frame, offered, crashes>>
    BY DEF CreateInstance, CreateInstanceOf, MayBegin, BeforeTheWrite
  <1>2. PICK t \in WorkflowTypes, outcome \in WriteOutcomes :
          IF t \notin DOMAIN Definitions
            THEN Fail(r, "type not registered") /\ UNCHANGED <<instances, writes>>
            ELSE /\ Follow(r, outcome, "returned", "failed to create instance")
                 /\ IF Commits(outcome)
                      THEN /\ instances' = Append(instances, InitialRow(t))
                           /\ writes' = Append(writes, [op |-> "create", req |-> r,
                                                        id |-> Len(instances) + 1,
                                                        row |-> InitialRow(t)])
                      ELSE UNCHANGED <<instances, writes>>
    BY DEF CreateInstance, CreateInstanceOf
  <1>3. CASE t \notin DOMAIN Definitions
    BY <1>1, <1>2, <1>3, FailStep DEF Rejections
  <1>4. CASE t \in DOMAIN Definitions /\ outcome = "failed"
    <2>1. Fail(r, "failed to create instance") /\ UNCHANGED <<instances, writes>>
      BY <1>2, <1>4 DEF Follow, Commits
    <2> QED
      BY <1>1, <2>1, FailStep DEF WriteErrors, Rejections
  <1>5. CASE t \in DOMAIN Definitions /\ outcome # "failed"
    <2> DEFINE row == InitialRow(t)
               id  == Len(instances) + 1
               w   == [op |-> "create", req |-> r, id |-> id, row |-> row]
    <2>1. row \in Row /\ Located(row) \in ReachablePositions /\ row.type = t
      BY <1>5, InitialRowReachable DEF InitialRow
    <2>2. instances' = Append(instances, row) /\ writes' = Append(writes, w)
      BY <1>2, <1>5 DEF Commits
    <2>3. /\ instances' \in Seq(Row)
          /\ DOMAIN instances' = 1 .. Len(instances) + 1
          /\ DOMAIN instances = 1 .. Len(instances)
          /\ Len(instances) \in Nat
          /\ \A i \in DOMAIN instances : instances'[i] = instances[i]
          /\ instances'[id] = row
      BY <2>1, <2>2, AppendFacts DEF IInv, TypeOK
    <2>4. /\ id \in Nat /\ id \notin DOMAIN instances /\ id \in DOMAIN instances'
          /\ \A i \in DOMAIN instances' : i \in DOMAIN instances \/ i = id
          /\ \A i \in DOMAIN instances : i \in DOMAIN instances'
      BY <2>3
    <2>5. /\ w \in Write /\ w.req = r /\ w.id = id /\ w.row = row /\ w.op = "create"
          /\ w.row = InitialRow(w.row.type)
      BY <2>1, <2>4 DEF Write
    <2>6. \A j \in DOMAIN writes : writes[j].id # w.id
      BY <2>4, <2>5 DEF IInv, HistoryInv
    <2> HIDE DEF w, id, row
    <2>7. /\ writes' \in Seq(Write)
          /\ WritesAreReachable' /\ WritesStemFromThePast'
          /\ \A j \in DOMAIN writes : j \in DOMAIN writes' /\ writes'[j] = writes[j]
          /\ \A j \in DOMAIN writes' : j \in DOMAIN writes \/ writes'[j] = w
          /\ \E j \in DOMAIN writes' : writes'[j] = w
      BY <2>1, <2>2, <2>5, <2>6, LogWrite
    <2>8. HistoryInv'
      <3>1. ASSUME NEW i \in DOMAIN instances'
            PROVE  \E j \in DOMAIN writes' : writes'[j].id = i /\ writes'[j].row = instances'[i]
        <4>1. CASE i = id
          BY <4>1, <2>3, <2>5, <2>7 DEF id
        <4>2. CASE i \in DOMAIN instances
          BY <4>2, <2>3, <2>7 DEF IInv, HistoryInv
        <4> QED
          BY <4>1, <4>2, <2>4
      <3>2. ASSUME NEW j \in DOMAIN writes'
            PROVE  /\ writes'[j].id \in DOMAIN instances'
                   /\ writes'[j].row.type = instances'[writes'[j].id].type
        <4>1. CASE writes'[j] = w
          BY <4>1, <2>3, <2>4, <2>5 DEF id
        <4>2. CASE j \in DOMAIN writes
          BY <4>2, <2>3, <2>4, <2>7 DEF IInv, HistoryInv
        <4> QED
          BY <4>1, <4>2, <2>7
      <3> QED
        BY <3>1, <3>2 DEF HistoryInv
    <2>9. PICK stage \in {"returned", "failed"}, e \in {"nil"} \cup WriteErrors :
            pc' = [pc EXCEPT ![r] = stage] /\ err' = [err EXCEPT ![r] = e]
      <3>1. CASE outcome = "ok"
        BY <3>1, <1>1, <1>2, <1>5, NoErrorYet DEF Follow, GoTo
      <3>2. CASE outcome # "ok"
        BY <3>2, <1>2, <1>5 DEF Follow, Fail, WriteErrors
      <3> QED
        BY <3>1, <3>2
    <2>10. FrameInv' /\ ProgressInv' /\ RejectionsLeaveNoTrace'
      BY <1>1, <2>2, <2>5, <2>7, <2>9, AfterWrite
    <2>11. TypeOK'
      BY <1>1, <2>3, <2>7, <2>9 DEF IInv, TypeOK, Write, Stages, Ends
    <2> QED
      BY <2>7, <2>8, <2>10, <2>11 DEF IInv
  <1> QED
    BY <1>3, <1>4, <1>5

-----------------------------------------------------------------------------
(* Steps that add a record or emit an event. *)

\* Request q has left nothing in a log.
Untraced(log, q) == \A k \in DOMAIN log : log[k].req # q

\* A request past its write: only its stage, its error and its traces change.
LEMMA TraceStep ==
  ASSUME IInv, NEW r \in Requests,
         NEW stage \in {"sendEvent", "returned", "failed"},
         NEW e \in {"nil"} \cup WriteErrors,
         pc[r] \in {"createTransition", "sendEvent"},
         stage = "sendEvent" => e = "nil" /\ pc[r] = "createTransition",
         pc' = [pc EXCEPT ![r] = stage], err' = [err EXCEPT ![r] = e],
         UNCHANGED <<instances, validations, frame, crashes, writes>>,
         TypeOK',
         stage = "sendEvent" => UNCHANGED offered,
         \A q \in Requests \ {r} : Untraced(transitions, q) => Untraced(transitions', q),
         \A q \in Requests \ {r} : Untraced(offered, q) => Untraced(offered', q)
  PROVE  IInv'
  <1>1. \A q \in Requests : /\ pc'[q] = IF q = r THEN stage ELSE pc[q]
                            /\ err'[q] = IF q = r THEN e ELSE err[q]
    BY DEF IInv, TypeOK
  <1>2. HistoryInv' /\ WritesAreReachable' /\ WritesStemFromThePast'
    BY RowsUnchanged
  <1>3. FrameInv'
    BY <1>1 DEF IInv, FrameInv, TransitionStages, Stages
  <1>4. ProgressInv'
    <2> SUFFICES ASSUME NEW q \in Requests
                 PROVE  /\ pc'[q] \in {"idle"} \cup Stages => err'[q] = "nil"
                        /\ pc'[q] \in BeforeTheWrite =>
                             \A k \in DOMAIN writes : writes[k].req # q
                        /\ pc'[q] \in BeforeTheWrite \cup {"createTransition"} =>
                             \A k \in DOMAIN transitions' : transitions'[k].req # q
                        /\ pc'[q] \in BeforeTheWrite \cup {"createTransition", "sendEvent"} =>
                             \A k \in DOMAIN offered' : offered'[k].req # q
      BY DEF ProgressInv
    <2>1. CASE q = r
      BY <2>1, <1>1 DEF IInv, ProgressInv, BeforeTheWrite, Stages
    <2>2. CASE q # r
      BY <2>2, <1>1 DEF IInv, ProgressInv, Untraced
    <2> QED
      BY <2>1, <2>2
  <1>5. RejectionsLeaveNoTrace'
    <2> SUFFICES ASSUME NEW q \in Requests, err'[q] \in Rejections
                 PROVE  /\ \A k \in DOMAIN writes : writes[k].req # q
                        /\ \A k \in DOMAIN transitions' : transitions'[k].req # q
                        /\ \A k \in DOMAIN offered' : offered'[k].req # q
      BY DEF RejectionsLeaveNoTrace
    <2>1. q # r
      BY <1>1 DEF Rejections, WriteErrors
    <2> QED
      BY <2>1, <1>1 DEF IInv, RejectionsLeaveNoTrace, Untraced
  <1> QED
    BY <1>2, <1>3, <1>4, <1>5 DEF IInv

\* The record and the event of a request are well typed.
LEMMA TracesTyped ==
  ASSUME IInv, NEW r \in Requests, pc[r] \in TransitionStages
  PROVE  /\ TransitionRecord(r) \in
              [req : Requests, instance : Nat, stepName : StepNames,
               actionName : ActionNames, stateName : StateNames]
         /\ TransitionEvent(r) \in
              [req : Requests, instance : Nat, action : ActionNames,
               fromStep : StepNames, toStep : StepNames,
               fromState : StateNames, toState : StateNames]
         /\ TransitionRecord(r).req = r /\ TransitionEvent(r).req = r
  <1>1. /\ frame[r] \in TransitionFrame /\ frame[r].from \in Row
        /\ frame[r].action \in ActionNames
        /\ frame[r].act \in GetTransitionAction(Definitions[frame[r].from.type],
                                               frame[r].from.step, frame[r].action)
    BY FrameFacts
  <1>2. Moved(frame[r]) \in Row
    BY <1>1, AdvanceTyped DEF Moved
  <1>3. frame[r].from.type \in DOMAIN Definitions
    BY <1>1 DEF Row
  <1>4. frame[r].act.name \in ActionNames
    BY <1>1, <1>3, ActionTyped
  <1>5. frame[r].id \in Nat /\ frame[r].stepName \in StepNames
    BY <1>1 DEF TransitionFrame
  <1> QED
    BY <1>1, <1>2, <1>4, <1>5 DEF TransitionRecord, TransitionEvent, Row

LEMMA CreateTransitionStep ==
  ASSUME IInv, NEW r \in Requests, CreateTransition(r)
  PROVE  IInv'
  <1> DEFINE Record == [req : Requests, instance : Nat, stepName : StepNames,
                        actionName : ActionNames, stateName : StateNames]
             rec    == TransitionRecord(r)
  <1>1. /\ pc[r] = "createTransition" /\ pc[r] \in TransitionStages
        /\ UNCHANGED <<instances, validations, frame, offered, crashes, writes>>
    BY DEF CreateTransition, TransitionStages, Stages
  <1>2. transitions \in Seq(Record) /\ rec \in Record /\ rec.req = r
    BY <1>1, TracesTyped DEF IInv, TypeOK
  <1>3. \/ transitions' = transitions /\ \E e \in WriteErrors : Fail(r, e)
        \/ /\ transitions' = Append(transitions, rec)
           /\ \E outcome \in WriteOutcomes :
                Follow(r, outcome, "sendEvent", "failed to create transition")
    BY DEF CreateTransition, Commits, WriteOutcomes, Follow, WriteErrors
  <1>4. CASE transitions' = transitions /\ \E e \in WriteErrors : Fail(r, e)
    BY <1>1, <1>4, FailStep DEF TransitionStages, WriteErrors, Rejections
  <1>5. CASE /\ transitions' = Append(transitions, rec)
             /\ \E outcome \in WriteOutcomes :
                  Follow(r, outcome, "sendEvent", "failed to create transition")
    <2>1. PICK stage \in {"sendEvent", "failed"}, e \in {"nil"} \cup WriteErrors :
            /\ stage = "sendEvent" => e = "nil"
            /\ pc' = [pc EXCEPT ![r] = stage] /\ err' = [err EXCEPT ![r] = e]
      <3>1. PICK outcome \in WriteOutcomes :
              Follow(r, outcome, "sendEvent", "failed to create transition")
        BY <1>5
      <3>2. CASE outcome = "ok"
        BY <3>1, <3>2, <1>1, NoErrorYet DEF Follow, GoTo, TransitionStages
      <3>3. CASE outcome # "ok"
        BY <3>1, <3>3 DEF Follow, Fail, WriteErrors
      <3> QED
        BY <3>2, <3>3
    <2>0. transitions' = Append(transitions, rec)
      BY <1>5
    <2> HIDE DEF rec, Record
    <2>2. /\ transitions' \in Seq(Record)
          /\ \A k \in DOMAIN transitions' :
               transitions'[k] = rec \/ (k \in DOMAIN transitions /\ transitions'[k] = transitions[k])
      <3>1. /\ transitions' \in Seq(Record)
            /\ DOMAIN transitions' = 1 .. Len(transitions) + 1
            /\ DOMAIN transitions = 1 .. Len(transitions) /\ Len(transitions) \in Nat
            /\ \A k \in DOMAIN transitions : transitions'[k] = transitions[k]
            /\ transitions'[Len(transitions) + 1] = rec
        BY <1>2, <2>0, AppendFacts
      <3> QED
        BY <3>1
    <2>3. TypeOK'
      BY <1>1, <2>1, <2>2 DEF IInv, TypeOK, Stages, Ends, Record
    <2>4. /\ \A q \in Requests \ {r} : Untraced(transitions, q) => Untraced(transitions', q)
          /\ \A q \in Requests \ {r} : Untraced(offered, q) => Untraced(offered', q)
      BY <1>1, <1>2, <2>2 DEF Untraced
    <2> QED
      BY <1>1, <2>1, <2>3, <2>4, TraceStep
  <1> QED
    BY <1>3, <1>4, <1>5

LEMMA SendEventStep ==
  ASSUME IInv, NEW r \in Requests, SendEvent(r)
  PROVE  IInv'
  <1> DEFINE Event == [req : Requests, instance : Nat, action : ActionNames,
                       fromStep : StepNames, toStep : StepNames,
                       fromState : StateNames, toState : StateNames]
             event == TransitionEvent(r)
  <1>1. /\ pc[r] = "sendEvent" /\ pc[r] \in TransitionStages
        /\ UNCHANGED <<instances, transitions, validations, frame, crashes, writes>>
        /\ offered' = Append(offered, event)
    BY DEF SendEvent, TransitionStages, Stages
  <1>2. offered \in Seq(Event) /\ event \in Event /\ event.req = r
    BY <1>1, TracesTyped DEF IInv, TypeOK
  <1>3. pc' = [pc EXCEPT ![r] = "returned"] /\ err' = [err EXCEPT ![r] = "nil"]
    BY <1>1, NoErrorYet DEF SendEvent, GoTo, TransitionStages
  <1> HIDE DEF event
  <1>4. /\ offered' \in Seq(Event)
        /\ \A k \in DOMAIN offered' :
             offered'[k] = event \/ (k \in DOMAIN offered /\ offered'[k] = offered[k])
    <2>1. /\ offered' \in Seq(Event)
          /\ DOMAIN offered' = 1 .. Len(offered) + 1
          /\ DOMAIN offered = 1 .. Len(offered) /\ Len(offered) \in Nat
          /\ \A k \in DOMAIN offered : offered'[k] = offered[k]
          /\ offered'[Len(offered) + 1] = event
      BY <1>1, <1>2, AppendFacts
    <2> QED
      BY <2>1
  <1>5. TypeOK'
    BY <1>1, <1>3, <1>4 DEF IInv, TypeOK, Stages, Ends
  <1>6. \A q \in Requests \ {r} : Untraced(offered, q) => Untraced(offered', q)
    BY <1>2, <1>4 DEF Untraced
  <1>7. \A q \in Requests \ {r} : Untraced(transitions, q) => Untraced(transitions', q)
    BY <1>1
  <1> QED
    BY <1>1, <1>3, <1>5, <1>6, <1>7, TraceStep

-----------------------------------------------------------------------------
(* Steps that are no request's. *)

LEMMA RegistryStep ==
  ASSUME IInv, NEW f \in ValidationFuncs,
         RegisterValidation(f) \/ UnregisterValidation(f)
  PROVE  IInv'
  <1>1. /\ UNCHANGED <<instances, transitions, pc, frame, err, offered, crashes, writes>>
        /\ validations' \subseteq ValidationFuncs
    BY DEF RegisterValidation, UnregisterValidation, IInv, TypeOK
  <1>2. TypeOK'
    BY <1>1 DEF IInv, TypeOK
  <1>3. HistoryInv' /\ WritesAreReachable' /\ WritesStemFromThePast'
    BY <1>1, RowsUnchanged
  <1>4. FrameInv'
    BY <1>1 DEF IInv, FrameInv
  <1>5. ProgressInv' /\ RejectionsLeaveNoTrace'
    BY <1>1 DEF IInv, ProgressInv, RejectionsLeaveNoTrace
  <1> QED
    BY <1>2, <1>3, <1>4, <1>5 DEF IInv

LEMMA CrashStep ==
  ASSUME IInv, Crash
  PROVE  IInv'
  <1>1. /\ UNCHANGED <<instances, transitions, frame, err, offered, writes>>
        /\ validations' \subseteq ValidationFuncs
        /\ crashes' \in Nat
    BY ValidationsAssumption DEF Crash, IInv, TypeOK
  <1>2. \A q \in Requests : (pc'[q] = pc[q] /\ pc[q] \notin Stages) \/ pc'[q] = "crashed"
    BY DEF Crash, InFlight
  <1>3. pc' \in [Requests -> {"idle"} \cup Stages \cup Ends]
    BY DEF Crash, IInv, TypeOK, Ends
  <1>4. TypeOK'
    BY <1>1, <1>3 DEF IInv, TypeOK
  <1>5. HistoryInv' /\ WritesAreReachable' /\ WritesStemFromThePast'
    BY <1>1, RowsUnchanged
  <1>6. FrameInv'
    BY <1>1, <1>2 DEF FrameInv, TransitionStages, Stages
  <1>7. ProgressInv'
    BY <1>1, <1>2 DEF IInv, ProgressInv, BeforeTheWrite, Stages
  <1>8. RejectionsLeaveNoTrace'
    BY <1>1 DEF IInv, RejectionsLeaveNoTrace
  <1> QED
    BY <1>4, <1>5, <1>6, <1>7, <1>8 DEF IInv

LEMMA StutterStep ==
  ASSUME IInv, UNCHANGED vars
  PROVE  IInv'
  <1>1. UNCHANGED <<instances, transitions, validations, pc, frame, err, offered, crashes, writes>>
    BY DEF vars
  <1>2. HistoryInv' /\ WritesAreReachable' /\ WritesStemFromThePast'
    BY <1>1, RowsUnchanged
  <1> QED
    BY <1>1, <1>2 DEF IInv, TypeOK, FrameInv, ProgressInv, RejectionsLeaveNoTrace

LEMMA NextIInv == IInv /\ [Next]_vars => IInv'
  <1> SUFFICES ASSUME IInv, [Next]_vars PROVE IInv'
    OBVIOUS
  <1>1. CASE \E r \in Requests : RequestStep(r)
    BY <1>1, CreateInstanceStep, BeginTransitionStep, BeginWithNoInstanceStep,
       HasValidationStep, GetValidationStep, EmitBeforeStep, UpdateInstanceStep,
       CreateTransitionStep, SendEventStep, BeginFinishStep, SaveFinishedStep
       DEF RequestStep
  <1>2. CASE \E f \in ValidationFuncs : RegisterValidation(f) \/ UnregisterValidation(f)
    BY <1>2, RegistryStep
  <1>3. CASE Crash
    BY <1>3, CrashStep
  <1>4. CASE UNCHANGED vars
    BY <1>4, StutterStep
  <1> QED
    BY <1>1, <1>2, <1>3, <1>4 DEF Next

-----------------------------------------------------------------------------
(* The theorems. *)

\* The inductive invariant: what TransitionStep, FinishInstance and
\* CreateInstance keep true of the rows, the records and their own frames.
THEOREM Invariance == Spec => []IInv
  BY InitIInv, NextIInv, PTL DEF Spec

\* Types: no call stores or emits anything but names of the definitions.
THEOREM TypeCorrect == Spec => []TypeOK
  <1>1. IInv => TypeOK
    BY DEF IInv
  <1> QED
    BY <1>1, Invariance, PTL

\* Each committed write of a row is the effect of one whole call on some earlier
\* version of that row, however the calls interleave, fail or crash.
THEOREM WritesStem == Spec => []WritesStemFromThePast
  <1>1. IInv => WritesStemFromThePast
    BY DEF IInv
  <1> QED
    BY <1>1, Invariance, PTL

\* Stored positions are positions the definition can lead to.
THEOREM RowsReachable == Spec => []RowsAreReachable
  <1>1. IInv => RowsAreReachable
    BY DEF IInv, HistoryInv, WritesAreReachable, RowsAreReachable
  <1> QED
    BY <1>1, Invariance, PTL

\* A call refused by a check before its write has left nothing behind.
THEOREM RejectionsTraceless == Spec => []RejectionsLeaveNoTrace
  <1>1. IInv => RejectionsLeaveNoTrace
    BY DEF IInv
  <1> QED
    BY <1>1, Invariance, PTL
=============================================================================
