-------------------------- MODULE HttpHandlersProofs --------------------------
(***************************************************************************)
(* Proofs about the HTTP layer, for every set of clients, users and route   *)
(* groups: the service below the handlers makes no other steps than those   *)
(* of TransitionService, so that everything proved there holds here, and    *)
(* the handlers keep what module HttpHandlers states of their replies.      *)
(***************************************************************************)
EXTENDS HttpHandlers, TransitionServiceEffects

-----------------------------------------------------------------------------
(***************************************************************************)
(* The strengthening.  A client's two calls are where its handler thinks    *)
(* they are, and what the handler remembers of the tables is still true of  *)
(* them, or of the writes since.                                            *)
(***************************************************************************)
OfferedNames == UNION {Offers(row) : row \in Row}

HandlerStages == {"idle", "viewed", "create", "transit", "awaiting", "replied", "lost"}
Routes == {"none", "user", "admin"}
UserIDs == Users \cup {Anonymous, NoUser}
TypeNames == WorkflowTypes \cup {Blank}
Lookups == {"none", "found", "absent", "failed"}
StepParams == StepNames \cup {Blank}
ActionParams == ActionNames \cup {Blank}
Statuses == {0, 200, 400, 401, 403, 404, 500}

ClientState ==
  [stage : HandlerStages, route : Routes, user : UserIDs, type : TypeNames, id : Nat,
   lookup : Lookups, known : Nat, readAt : Nat, viewedAt : Nat,
   step : StepParams, action : ActionParams, offers : SUBSET OfferedNames,
   status : Statuses, shown : SUBSET Row]

TablesTyped ==
  /\ http \in [Clients -> ClientState]
  /\ owner \in Seq(Users \cup {Anonymous})
  /\ Len(owner) = Len(instances)

BeforeTransit == {"idle", "viewed", "create", "transit"}

\* How far the handler is, and with it its calls of the service.
StageInv(h) ==
  LET c == http[h]  q == Transit(h)  p == Create(h) IN
  /\ c.stage \in BeforeTransit => pc[q] = "idle"
  /\ c.stage \in BeforeTransit \ {"transit"} => pc[p] = "idle" /\ c.id = 0
  /\ c.stage = "create" => /\ c.type \in WorkflowTypes /\ c.user # NoUser
                           /\ c.route = "user" /\ c.lookup \in {"absent", "failed"}
  /\ c.stage \in {"transit", "awaiting"} => c.id \in DOMAIN instances
  /\ c.stage # "replied" => c.status = 0
  /\ c.status \in {400, 401, 403, 404} => pc[q] \in {"idle", "failed"}
  /\ pc[p] \in {"idle"} \cup Ends
  /\ pc[p] # "idle" => c.lookup \in {"absent", "failed"} /\ c.route = "user"
  /\ pc[q] # "saveFinished"
  /\ frame[q] \in {NoFrame} \cup TransitionFrame
  /\ pc[q] = "returned" => frame[q] \in TransitionFrame
  /\ pc[q] = "failed" => err[q] \in Rejections \cup WriteErrors

ServiceInv == EInv /\ RowsAreLatest /\ RecordsTell

StagesInv == TablesTyped /\ \A h \in Clients : StageInv(h)

-----------------------------------------------------------------------------
(* The calls of a client are requests, and no other client's. *)
LEMMA CallsAreRequests ==
  ASSUME NEW h \in Clients
  PROVE  /\ Create(h) \in Requests /\ Transit(h) \in Requests
         /\ Create(h) # Transit(h)
         /\ Create(h) \notin Finishes /\ Transit(h) \notin Finishes
         /\ \A g \in Clients : g # h => /\ {Create(g), Transit(g)} \cap {Create(h), Transit(h)} = {}
  BY ClientsAssumption DEF Create, Transit, Calls, Finishes

\* Every step of the HTTP layer is a step of the service below it, or none.
LEMMA HttpNextIsNext ==
  ASSUME StagesInv, [HttpNext]_httpVars
  PROVE  [Next]_vars
  <1>1. ASSUME NEW h \in Clients, CreateForUser(h) PROVE Next
    <2>1. http[h].type \in WorkflowTypes
      BY <1>1 DEF StagesInv, StageInv, CreateForUser
    <2>2. CreateInstance(Create(h))
      BY <1>1, <2>1 DEF CreateForUser, CreateInstance
    <2> QED
      BY <2>2, CallsAreRequests DEF Next, RequestStep
  <1>2. ASSUME NEW h \in Clients, TransitInstance(h) PROVE Next
    <2>1. http[h].id \in DOMAIN instances
      BY <1>2 DEF StagesInv, StageInv, TransitInstance
    <2>2. BeginTransition(Transit(h)) \/ BeginWithNoInstance(Transit(h))
      BY <1>2, <2>1 DEF TransitInstance, BeginTransition
    <2> QED
      BY <2>2, CallsAreRequests DEF Next, RequestStep
  <1>3. ASSUME NEW h \in Clients,
               Refuse(h) \/ UserRoutes(h) \/ AdminRoutes(h) \/ Answer(h)
        PROVE  UNCHANGED vars
    BY <1>3 DEF Refuse, UserRoutes, View, BeginCreateStep, AdminRoutes, BeginTransitStep, Answer
  <1>4. ASSUME NEW r \in Requests, ServiceStep(r) PROVE Next
    BY <1>4 DEF ServiceStep, Next, RequestStep
  <1>5. ASSUME NEW r \in Finishes, FinishByApplication(r) PROVE Next
    BY <1>5 DEF FinishByApplication, Finishes, Next, RequestStep
  <1>6. CASE Shutdown
    BY <1>6 DEF Shutdown, Next
  <1>7. CASE UNCHANGED httpVars
    BY <1>7 DEF httpVars, vars
  <1> QED
    BY <1>1, <1>2, <1>3, <1>4, <1>5, <1>6, <1>7 DEF HttpNext

LEMMA HttpNextServiceInv ==
  ASSUME StagesInv, ServiceInv, [HttpNext]_httpVars
  PROVE  ServiceInv' /\ Ages
  BY HttpNextIsNext, NextEInv, NextLatest, NextRecordsTell, NextAges DEF ServiceInv, EInv

-----------------------------------------------------------------------------
(***************************************************************************)
(* What happens to a client and its calls in steps of others.              *)
(***************************************************************************)
LaterErrors == WriteErrors \cup {"validation function not found", "validation failed",
                                 "before-transition listener failed"}

\* A call stays where it is, or goes on from within.
GoesOn(q) ==
  /\ \/ pc'[q] = pc[q]
     \/ pc[q] \in Stages /\ pc'[q] \in (Stages \ {"saveFinished"}) \cup Ends
  /\ \/ frame'[q] = frame[q]
     \/ /\ frame[q] \in TransitionFrame /\ frame'[q] \in TransitionFrame
        /\ frame'[q].id = frame[q].id /\ frame'[q].from = frame[q].from
  /\ err'[q] = err[q] \/ (pc[q] \in Stages /\ err'[q] \in LaterErrors)
  /\ pc'[q] = "failed" => pc[q] = "failed" \/ err'[q] \in LaterErrors
  /\ pc'[q] = "returned" /\ pc[q] \in TransitionStages => frame'[q] \in TransitionFrame

LEMMA StandsStill ==
  ASSUME NEW q \in Requests, pc'[q] = pc[q], frame'[q] = frame[q], err'[q] = err[q]
  PROVE  GoesOn(q)
  BY DEF GoesOn, TransitionStages, Stages

LEMMA ServiceStepGoesOn ==
  ASSUME IInv, NEW r \in Requests, ServiceStep(r)
  PROVE  /\ pc[r] \in Stages
         /\ \A q \in Requests : GoesOn(q)
  <1>1. /\ pc \in [Requests -> {"idle"} \cup Stages \cup Ends]
        /\ frame \in [Requests -> {NoFrame} \cup FinishFrame \cup TransitionFrame]
        /\ err \in [Requests -> {"nil"} \cup Rejections \cup WriteErrors]
    BY DEF IInv, TypeOK
  <1>2. pc[r] \in Stages
    BY DEF ServiceStep, HasValidation, GetValidation, EmitBefore, UpdateInstance,
       CreateTransition, SendEvent, SaveFinished, Stages
  <1>3. PICK stage \in (Stages \ {"saveFinished"}) \cup Ends :
          /\ pc' = [pc EXCEPT ![r] = stage]
          /\ \/ stage # "failed" /\ err' = err
             \/ stage = "failed" /\ \E e \in LaterErrors : err' = [err EXCEPT ![r] = e]
    BY DEF ServiceStep, HasValidation, GetValidation, EmitBefore, UpdateInstance,
       CreateTransition, SendEvent, SaveFinished, Follow, GoTo, Fail, Stages, Ends,
       LaterErrors, WriteErrors
  <1>4. /\ \A q \in Requests \ {r} : pc'[q] = pc[q] /\ frame'[q] = frame[q] /\ err'[q] = err[q]
        /\ pc'[r] = stage
    BY <1>1, <1>3 DEF ServiceStep, HasValidation, GetValidation, EmitBefore, UpdateInstance,
       CreateTransition, SendEvent, SaveFinished
  <1>5. pc[r] \in TransitionStages => frame[r] \in TransitionFrame
    BY DEF IInv, FrameInv
  <1> DEFINE SameCall == /\ frame[r] \in TransitionFrame /\ frame'[r] \in TransitionFrame
                         /\ frame'[r].id = frame[r].id /\ frame'[r].from = frame[r].from
  <1>6. frame'[r] = frame[r] \/ SameCall
    <2>1. CASE UNCHANGED frame
      BY <2>1
    <2>2. ASSUME frame[r] \in TransitionFrame, NEW d \in InputData,
                 frame' = [frame EXCEPT ![r].input = d]
          PROVE  SameCall
      BY <1>1, <2>2 DEF TransitionFrame
    <2>3. ASSUME frame[r] \in TransitionFrame, frame' = [frame EXCEPT ![r].validated = TRUE]
          PROVE  SameCall
      BY <1>1, <2>3 DEF TransitionFrame
    <2> QED
      BY <1>5, <2>1, <2>2, <2>3 DEF ServiceStep, HasValidation, GetValidation, EmitBefore, UpdateInstance,
         CreateTransition, SendEvent, SaveFinished, TransitionStages, Stages
  <1>7. GoesOn(r)
    <2>1. err'[r] = err[r] \/ err'[r] \in LaterErrors
      BY <1>1, <1>3
    <2>2. pc'[r] = "failed" => err'[r] \in LaterErrors
      BY <1>1, <1>3, <1>4
    <2>3. pc[r] \in TransitionStages => frame'[r] \in TransitionFrame
      BY <1>5, <1>6
    <2> QED
      BY <1>2, <1>3, <1>4, <1>6, <2>1, <2>2, <2>3 DEF GoesOn
  <1> QED
    BY <1>2, <1>4, <1>7, StandsStill

\* The handler of h acts.
Own(h) ==
  \/ Refuse(h) \/ View(h) \/ BeginCreateStep(h) \/ BeginTransitStep(h)
  \/ CreateForUser(h) \/ TransitInstance(h) \/ Answer(h)

\* It does not, or is lost, and others go on.
Background(h) ==
  /\ \/ http'[h] = http[h]
     \/ /\ http[h].stage \in {"create", "transit", "awaiting"}
        /\ http'[h] = [http[h] EXCEPT !.stage = "lost"]
  /\ GoesOn(Create(h)) /\ GoesOn(Transit(h))

\* Owners of instances are recorded as these are created.
OwnersStay ==
  /\ \A i \in DOMAIN owner : i \in DOMAIN owner' /\ owner'[i] = owner[i]

LEMMA OwnStepOfAnother ==
  ASSUME StagesInv, IInv, NEW g \in Clients, Own(g), NEW h \in Clients, g # h
  PROVE  Background(h)
  <1>1. /\ pc \in [Requests -> {"idle"} \cup Stages \cup Ends]
        /\ frame \in [Requests -> {NoFrame} \cup FinishFrame \cup TransitionFrame]
        /\ err \in [Requests -> {"nil"} \cup Rejections \cup WriteErrors]
        /\ http \in [Clients -> ClientState]
    BY DEF IInv, TypeOK, StagesInv, TablesTyped
  <1>2. http'[h] = http[h]
    <2>1. CASE Refuse(g) \/ Answer(g)
      BY <1>1, <2>1 DEF Refuse, Answer, Reply, Become
    <2>2. CASE View(g)
      BY <1>1, <2>2 DEF View, Become
    <2>3. CASE BeginCreateStep(g)
      BY <1>1, <2>3 DEF BeginCreateStep, Reply, Become
    <2>4. CASE BeginTransitStep(g)
      BY <1>1, <2>4 DEF BeginTransitStep, Reply, Become
    <2>5. CASE CreateForUser(g) \/ TransitInstance(g)
      BY <1>1, <2>5 DEF CreateForUser, TransitInstance, Reply, Become
    <2> QED
      BY <2>1, <2>2, <2>3, <2>4, <2>5 DEF Own
  <1>3. ASSUME NEW q \in {Create(h), Transit(h)}
        PROVE  pc'[q] = pc[q] /\ frame'[q] = frame[q] /\ err'[q] = err[q]
    <2>1. q \in Requests /\ q \notin {Create(g), Transit(g)}
      BY CallsAreRequests
    <2>2. CASE CreateForUser(g)
      BY <1>1, <2>1, <2>2 DEF CreateForUser, CreateInstanceOf, Follow, Fail, GoTo
    <2>3. CASE TransitInstance(g)
      <3>1. PICK a \in ActionNames : \/ BeginTransitionOf(Transit(g), http[g].id, a)
                                     \/ BeginWithNoInstance(Transit(g))
        BY <2>3 DEF TransitInstance
      <3> QED
        BY <1>1, <2>1, <3>1 DEF BeginTransitionOf, BeginWithNoInstance, Fail, GoTo
    <2>4. CASE UNCHANGED vars
      BY <2>4 DEF vars
    <2> QED
      BY <2>2, <2>3, <2>4 DEF Own, Refuse, View, BeginCreateStep, BeginTransitStep, Answer
  <1> QED
    BY <1>2, <1>3, CallsAreRequests, StandsStill DEF Background

LEMMA EachClient ==
  ASSUME StagesInv, IInv, [HttpNext]_httpVars, NEW h \in Clients
  PROVE  Own(h) \/ Background(h)
  <1>1. ASSUME NEW g \in Clients, Own(g) PROVE Own(h) \/ Background(h)
    BY <1>1, OwnStepOfAnother
  <1>2. ASSUME NEW r \in Requests, ServiceStep(r) PROVE Background(h)
    BY <1>2, ServiceStepGoesOn, CallsAreRequests DEF ServiceStep, Background
  <1>3. ASSUME NEW r \in Finishes, FinishByApplication(r) PROVE Background(h)
    <2>1. \A q \in Requests \ {r} : pc'[q] = pc[q] /\ frame'[q] = frame[q] /\ err'[q] = err[q]
      BY <1>3 DEF FinishByApplication, BeginFinish, GoTo, IInv, TypeOK, Finishes
    <2> QED
      BY <1>3, <2>1, CallsAreRequests, StandsStill DEF FinishByApplication, Background
  <1>4. CASE Shutdown
    <2>1. ASSUME NEW q \in Requests PROVE GoesOn(q)
      BY <1>4 DEF Shutdown, Crash, GoesOn, InFlight, TransitionStages, Stages, Ends
    <2> QED
      BY <1>4, <2>1, CallsAreRequests DEF Shutdown, Background, StagesInv, TablesTyped
  <1>5. CASE UNCHANGED httpVars
    BY <1>5, CallsAreRequests, StandsStill DEF httpVars, Background
  <1> QED
    BY <1>1, <1>2, <1>3, <1>4, <1>5 DEF HttpNext, UserRoutes, AdminRoutes, Own

-----------------------------------------------------------------------------
(***************************************************************************)
(* What the handler of h makes of its variables, action by action.         *)
(***************************************************************************)
LEMMA Became ==
  ASSUME TablesTyped, NEW h \in Clients, NEW c, Become(h, c)
  PROVE  http'[h] = c /\ (c \in ClientState => http' \in [Clients -> ClientState])
  BY DEF Become, TablesTyped

Refused(h, status) == http'[h] = [http[h] EXCEPT !.stage = "replied", !.status = status]

LEMMA ReplyIs ==
  ASSUME TablesTyped, NEW h \in Clients,
         NEW status \in Statuses, Reply(h, status)
  PROVE  http' \in [Clients -> ClientState] /\ Refused(h, status)
  <1> DEFINE c == [http[h] EXCEPT !.stage = "replied", !.status = status]
  <1>0. http[h] \in ClientState /\ "replied" \in HandlerStages
    BY DEF TablesTyped, HandlerStages
  <1>1. c \in ClientState
    BY <1>0 DEF ClientState
  <1>2. Become(h, c)
    BY DEF Reply
  <1> HIDE DEF c
  <1>3. http'[h] = c /\ http' \in [Clients -> ClientState]
    BY <1>1, <1>2, Became
  <1> QED
    BY <1>3 DEF c, Refused

\* Users whom a handler serves.
LEMMA AdmittedUsers ==
  ASSUME NEW group \in Groups, NEW key \in UserKeys(group)
  PROVE  /\ key \in Users \cup {Anonymous, NoUser}
         /\ Admitted(group, key) => key \in Users \cup {Anonymous} /\ key # NoUser
  <1>1. group.identify \in {"default", "userID", "none"}
    BY GroupsAssumption
  <1>2. key \in Users \cup {Anonymous, NoUser}
    BY <1>1 DEF UserKeys
  <1> QED
    BY <1>2 DEF Admitted

\* GetStepHandler shows the client instance i.
Views(h, key, t, i) ==
  /\ key \in Users \cup {Anonymous} /\ i \in GetInstance(key, t)
  /\ http'[h] = [http[h] EXCEPT !.stage = "viewed", !.user = key, !.type = t,
                                !.offers = Offers(instances[i]), !.viewedAt = Len(writes)]

LEMMA ViewIs ==
  ASSUME TablesTyped, TypeOK, NEW h \in Clients, View(h)
  PROVE  /\ http' \in [Clients -> ClientState]
         /\ \E t \in WorkflowTypes : \E key, i : Views(h, key, t, i)
  <1>0. PICK group \in Groups, t \in WorkflowTypes : \E key \in UserKeys(group) :
          /\ Admitted(group, key)
          /\ \E i \in GetInstance(key, t) :
               Become(h, [http[h] EXCEPT !.stage = "viewed", !.user = key, !.type = t,
                                         !.offers = Offers(instances[i]),
                                         !.viewedAt = Len(writes)])
    BY DEF View
  <1>1. PICK key \in UserKeys(group) :
          /\ Admitted(group, key)
          /\ \E i \in GetInstance(key, t) :
               Become(h, [http[h] EXCEPT !.stage = "viewed", !.user = key, !.type = t,
                                         !.offers = Offers(instances[i]),
                                         !.viewedAt = Len(writes)])
    BY <1>0
  <1>2. PICK i \in GetInstance(key, t) :
               Become(h, [http[h] EXCEPT !.stage = "viewed", !.user = key, !.type = t,
                                         !.offers = Offers(instances[i]),
                                         !.viewedAt = Len(writes)])
    BY <1>1
  <1> DEFINE c == [http[h] EXCEPT !.stage = "viewed", !.user = key, !.type = t,
                                  !.offers = Offers(instances[i]), !.viewedAt = Len(writes)]
  <1>3. key \in Users \cup {Anonymous}
    BY <1>1, AdmittedUsers
  <1>4. Len(writes) \in Nat /\ instances[i] \in Row
    BY <1>2 DEF TypeOK, GetInstance, OwnedBy
  <1>5. Offers(instances[i]) \in SUBSET OfferedNames
    BY <1>4 DEF OfferedNames
  <1>6. c \in ClientState
    <2>1. http[h] \in ClientState /\ "viewed" \in HandlerStages /\ key \in UserIDs
          /\ t \in TypeNames
      BY <1>3 DEF TablesTyped, HandlerStages, UserIDs, TypeNames
    <2> QED
      BY <1>4, <1>5, <2>1 DEF ClientState
  <1> HIDE DEF c
  <1>7. http'[h] = c /\ http' \in [Clients -> ClientState]
    BY <1>2, <1>6, Became DEF c
  <1>8. Views(h, key, t, i)
    BY <1>2, <1>3, <1>7 DEF c, Views
  <1> QED
    BY <1>1, <1>7, <1>8

\* What CreateStepHandler knows once it has asked for the instance.
Called(h, key, t) == [http[h] EXCEPT !.route = "user", !.user = key, !.type = t,
                                     !.known = Len(writes)]

FindsInstance(h, key, t) ==
  \E i \in GetInstance(key, t) :
    http'[h] = [Called(h, key, t) EXCEPT !.stage = "transit", !.id = i, !.lookup = "found"]

FindsNone(h, key, t) ==
  \E lookup \in {"absent", "failed"} :
    /\ lookup = "absent" => GetInstance(key, t) = {}
    /\ http'[h] = [Called(h, key, t) EXCEPT !.stage = "create", !.lookup = lookup]

Serves(h, key, t) ==
  /\ key \in Users \cup {Anonymous} /\ key # NoUser
  /\ http[h].stage = "viewed" => key = http[h].user /\ t = http[h].type
  /\ FindsInstance(h, key, t) \/ FindsNone(h, key, t)

LEMMA BeginCreateStepIs ==
  ASSUME TablesTyped, TypeOK, NEW h \in Clients, BeginCreateStep(h)
  PROVE  /\ http' \in [Clients -> ClientState]
         /\ Refused(h, 401) \/ \E t \in WorkflowTypes : \E key : Serves(h, key, t)
  <1>0. PICK group \in Groups, t \in WorkflowTypes : \E key \in UserKeys(group) :
       /\ http[h].stage = "viewed" => key = http[h].user /\ t = http[h].type
       /\ \/ Reply(h, 401)
          \/ /\ Admitted(group, key)
             /\ \/ \E i \in GetInstance(key, t) :
                      Become(h, [Called(h, key, t) EXCEPT !.stage = "transit", !.id = i,
                                                          !.lookup = "found"])
                \/ Become(h, [Called(h, key, t) EXCEPT !.stage = "create",
                                !.lookup = IF GetInstance(key, t) = {} THEN "absent"
                                                                       ELSE "failed"])
    BY DEF BeginCreateStep, Called
  <1>1. PICK key \in UserKeys(group) :
       /\ http[h].stage = "viewed" => key = http[h].user /\ t = http[h].type
       /\ \/ Reply(h, 401)
          \/ /\ Admitted(group, key)
             /\ \/ \E i \in GetInstance(key, t) :
                      Become(h, [Called(h, key, t) EXCEPT !.stage = "transit", !.id = i,
                                                          !.lookup = "found"])
                \/ Become(h, [Called(h, key, t) EXCEPT !.stage = "create",
                                !.lookup = IF GetInstance(key, t) = {} THEN "absent"
                                                                       ELSE "failed"])
    BY <1>0
  <1>2. CASE Reply(h, 401)
    <2>1. 401 \in Statuses
      BY DEF Statuses
    <2>2. http' \in [Clients -> ClientState] /\ Refused(h, 401)
      BY <1>2, <2>1, ReplyIs
    <2> QED
      BY <2>2
  <1>3. Called(h, key, t) \in ClientState
    <2>1. key \in UserIDs /\ t \in TypeNames
      BY AdmittedUsers DEF UserIDs, TypeNames
    <2>2. http[h] \in ClientState /\ "user" \in Routes /\ Len(writes) \in Nat
      BY DEF TablesTyped, Routes, TypeOK
    <2> QED
      BY <2>1, <2>2 DEF ClientState, Called
  <1>4. Admitted(group, key) => key \in Users \cup {Anonymous} /\ key # NoUser
    BY AdmittedUsers
  <1> DEFINE Found(i) == [Called(h, key, t) EXCEPT !.stage = "transit", !.id = i,
                                                   !.lookup = "found"]
             Made(lookup) == [Called(h, key, t) EXCEPT !.stage = "create", !.lookup = lookup]
  <1>5. ASSUME Admitted(group, key), NEW i \in GetInstance(key, t), Become(h, Found(i))
        PROVE  Serves(h, key, t) /\ http' \in [Clients -> ClientState]
    <2>1. Found(i) \in ClientState
      <3>1. "transit" \in HandlerStages /\ "found" \in Lookups /\ i \in Nat
        BY DEF HandlerStages, Lookups, GetInstance, OwnedBy, TypeOK
      <3> QED
        BY <1>3, <3>1 DEF ClientState
    <2>2. http'[h] = Found(i) /\ http' \in [Clients -> ClientState]
      BY <1>5, <2>1, Became
    <2>3. FindsInstance(h, key, t)
      BY <2>2 DEF FindsInstance
    <2> QED
      BY <1>1, <1>4, <1>5, <2>2, <2>3 DEF Serves
  <1>6. ASSUME Admitted(group, key), NEW lookup \in {"absent", "failed"},
               Become(h, Made(lookup)), lookup = "absent" => GetInstance(key, t) = {}
        PROVE  Serves(h, key, t) /\ http' \in [Clients -> ClientState]
    <2>1. Made(lookup) \in ClientState
      <3>1. "create" \in HandlerStages /\ lookup \in Lookups
        BY DEF HandlerStages, Lookups
      <3> QED
        BY <1>3, <3>1 DEF ClientState
    <2>2. http'[h] = Made(lookup) /\ http' \in [Clients -> ClientState]
      BY <1>6, <2>1, Became
    <2>3. FindsNone(h, key, t)
      BY <1>6, <2>2 DEF FindsNone
    <2> QED
      BY <1>1, <1>4, <1>6, <2>2, <2>3 DEF Serves
  <1>7. CASE Admitted(group, key) /\ ~Reply(h, 401)
    <2>1. CASE \E i \in GetInstance(key, t) : Become(h, Found(i))
      BY <1>5, <1>7, <2>1
    <2>2. CASE Become(h, Made(IF GetInstance(key, t) = {} THEN "absent" ELSE "failed"))
      BY <1>6, <1>7, <2>2
    <2> QED
      BY <1>1, <1>7, <2>1, <2>2
  <1> QED
    BY <1>1, <1>2, <1>7

LEMMA RefuseIs ==
  ASSUME TablesTyped, NEW h \in Clients, Refuse(h)
  PROVE  http' \in [Clients -> ClientState] /\ \E status \in Statuses : Refused(h, status)
  <1>1. PICK status \in {400, 403, 500} : Reply(h, status)
    BY DEF Refuse
  <1>2. status \in Statuses
    BY DEF Statuses
  <1>3. http' \in [Clients -> ClientState] /\ Refused(h, status)
    BY <1>1, <1>2, ReplyIs
  <1> QED
    BY <1>2, <1>3

\* TransitStepHandler calls TransitionStep for instance i, which was on step s.
NamesStep(h, i, s) ==
  /\ i \in DOMAIN instances /\ s \in StepNames /\ s = instances[i].step
  /\ http'[h] = [http[h] EXCEPT !.stage = "transit", !.route = "admin", !.id = i,
                                !.step = s, !.known = Len(writes)]

LEMMA BeginTransitStepIs ==
  ASSUME TablesTyped, TypeOK, NEW h \in Clients, BeginTransitStep(h)
  PROVE  /\ http' \in [Clients -> ClientState]
         /\ (\E status \in Statuses : Refused(h, status)) \/ \E i, s : NamesStep(h, i, s)
  <1>1. CASE \E status \in {400, 404} : Reply(h, status)
    <2>1. PICK status \in {400, 404} : Reply(h, status)
      BY <1>1
    <2>2. status \in Statuses
      BY DEF Statuses
    <2>3. http' \in [Clients -> ClientState] /\ Refused(h, status)
      BY <2>1, <2>2, ReplyIs
    <2> QED
      BY <2>2, <2>3
  <1> DEFINE Named(i, s) == [http[h] EXCEPT !.stage = "transit", !.route = "admin", !.id = i,
                                            !.step = s, !.known = Len(writes)]
  <1>2. ASSUME NEW i \in DOMAIN instances, NEW s \in StepNames, s = instances[i].step,
               Become(h, Named(i, s))
        PROVE  http' \in [Clients -> ClientState] /\ NamesStep(h, i, s)
    <2>1. /\ "transit" \in HandlerStages /\ "admin" \in Routes /\ i \in Nat
          /\ s \in StepParams /\ Len(writes) \in Nat /\ http[h] \in ClientState
      BY DEF HandlerStages, Routes, StepParams, TypeOK, TablesTyped
    <2>2. Named(i, s) \in ClientState
      BY <2>1 DEF ClientState
    <2>3. http'[h] = Named(i, s) /\ http' \in [Clients -> ClientState]
      BY <1>2, <2>2, Became
    <2> QED
      BY <1>2, <2>3 DEF NamesStep
  <1> QED
    BY <1>1, <1>2 DEF BeginTransitStep

\* The instance was created, and the handler goes on with it.
GoesOnWith(h, i) == http'[h] = [http[h] EXCEPT !.stage = "transit", !.id = i]

LEMMA CreateForUserIs ==
  ASSUME TablesTyped, TypeOK, TypeOK', NEW h \in Clients, CreateForUser(h)
  PROVE  /\ http' \in [Clients -> ClientState]
         /\ \/ pc'[Create(h)] = "returned" /\ GoesOnWith(h, Len(instances'))
            \/ pc'[Create(h)] # "returned" /\ Refused(h, 500)
  <1>1. CASE pc'[Create(h)] # "returned"
    <2>1. Reply(h, 500)
      BY <1>1 DEF CreateForUser
    <2>2. 500 \in Statuses
      BY DEF Statuses
    <2> QED
      BY <1>1, <2>1, <2>2, ReplyIs
  <1>2. CASE pc'[Create(h)] = "returned"
    <2> DEFINE c == [http[h] EXCEPT !.stage = "transit", !.id = Len(instances')]
    <2>1. /\ "transit" \in HandlerStages /\ http[h] \in ClientState /\ Len(instances') \in Nat
      BY DEF HandlerStages, TablesTyped, TypeOK
    <2>2. c \in ClientState
      BY <2>1 DEF ClientState
    <2>3. http'[h] = c /\ http' \in [Clients -> ClientState]
      BY <1>2, <2>2, Became DEF CreateForUser
    <2> QED
      BY <1>2, <2>3 DEF GoesOnWith
  <1> QED
    BY <1>1, <1>2

\* TransitionStep has been called for action a.
Awaits(h, a) ==
  http'[h] = [http[h] EXCEPT !.stage = "awaiting", !.action = a, !.readAt = Len(writes)]

LEMMA TransitInstanceIs ==
  ASSUME TablesTyped, TypeOK, NEW h \in Clients, TransitInstance(h)
  PROVE  /\ http' \in [Clients -> ClientState]
         /\ \E a \in ActionNames :
              /\ Awaits(h, a)
              /\ \/ BeginTransitionOf(Transit(h), http[h].id, a)
                 \/ BeginWithNoInstance(Transit(h))
  <1> DEFINE c(a) == [http[h] EXCEPT !.stage = "awaiting", !.action = a,
                                     !.readAt = Len(writes)]
  <1>1. PICK a \in ActionNames :
          /\ \/ BeginTransitionOf(Transit(h), http[h].id, a)
             \/ BeginWithNoInstance(Transit(h))
          /\ Become(h, c(a))
    BY DEF TransitInstance
  <1>2. /\ "awaiting" \in HandlerStages /\ a \in ActionParams
        /\ http[h] \in ClientState /\ Len(writes) \in Nat
    BY DEF HandlerStages, ActionParams, TablesTyped, TypeOK
  <1>3. c(a) \in ClientState
    BY <1>2 DEF ClientState
  <1>4. http'[h] = c(a) /\ http' \in [Clients -> ClientState]
    BY <1>1, <1>3, Became
  <1> QED
    BY <1>1, <1>4 DEF Awaits

\* The reply of 200, with the row as it is.
Shows(h) ==
  http'[h] = [http[h] EXCEPT !.stage = "replied", !.status = 200,
                             !.shown = {instances[http[h].id]}]

LEMMA AnswerIs ==
  ASSUME TablesTyped, TypeOK, NEW h \in Clients, Answer(h), http[h].id \in DOMAIN instances
  PROVE  /\ http' \in [Clients -> ClientState]
         /\ \/ pc[Transit(h)] = "failed" /\ Refused(h, 400)
            \/ pc[Transit(h)] = "returned" /\ (Refused(h, 500) \/ Shows(h))
  <1>1. ASSUME NEW status \in {400, 500}, Reply(h, status)
        PROVE  http' \in [Clients -> ClientState] /\ Refused(h, status)
    <2>1. status \in Statuses
      BY DEF Statuses
    <2> QED
      BY <1>1, <2>1, ReplyIs
  <1> DEFINE c == [http[h] EXCEPT !.stage = "replied", !.status = 200,
                                  !.shown = {instances[http[h].id]}]
  <1>2. ASSUME Become(h, c)
        PROVE  http' \in [Clients -> ClientState] /\ Shows(h)
    <2>1. /\ "replied" \in HandlerStages /\ 200 \in Statuses /\ http[h] \in ClientState
          /\ {instances[http[h].id]} \in SUBSET Row
      BY DEF HandlerStages, Statuses, TablesTyped, TypeOK
    <2>2. c \in ClientState
      BY <2>1 DEF ClientState
    <2>3. http'[h] = c /\ http' \in [Clients -> ClientState]
      BY <1>2, <2>2, Became
    <2> QED
      BY <2>3 DEF Shows
  <1> QED
    BY <1>1, <1>2 DEF Answer

-----------------------------------------------------------------------------
(***************************************************************************)
(* The column user_id.                                                     *)
(***************************************************************************)
\* What CreateForUser does to the tables.
LEMMA CreateForUserTables ==
  ASSUME TablesTyped, IInv, NEW h \in Clients, CreateForUser(h), http[h].user # NoUser
  PROVE  \/ UNCHANGED <<owner, instances, writes>> /\ pc'[Create(h)] # "returned"
         \/ /\ http[h].type \in DOMAIN Definitions
            /\ owner' = Append(owner, http[h].user)
            /\ instances' = Append(instances, InitialRow(http[h].type))
            /\ writes' = Append(writes, [op |-> "create", req |-> Create(h),
                                         id |-> Len(instances) + 1,
                                         row |-> InitialRow(http[h].type)])
            /\ Len(instances') = Len(instances) + 1
  <1> DEFINE t == http[h].type
  <1>1. PICK outcome \in WriteOutcomes :
          IF t \notin DOMAIN Definitions
            THEN /\ Fail(Create(h), "type not registered") /\ UNCHANGED <<instances, writes>>
            ELSE /\ Follow(Create(h), outcome, "returned", "failed to create instance")
                 /\ IF Commits(outcome)
                      THEN /\ instances' = Append(instances, InitialRow(t))
                           /\ writes' = Append(writes, [op |-> "create", req |-> Create(h),
                                                        id |-> Len(instances) + 1,
                                                        row |-> InitialRow(t)])
                      ELSE UNCHANGED <<instances, writes>>
    BY DEF CreateForUser, CreateInstanceOf
  <1>2. instances \in Seq(Row)
    BY DEF IInv, TypeOK
  <1>3. owner' = IF Len(instances') > Len(instances) THEN Append(owner, http[h].user)
                                                     ELSE owner
    BY DEF CreateForUser
  <1>4. CASE UNCHANGED <<instances, writes>> /\ (t \notin DOMAIN Definitions \/ ~Commits(outcome))
    <2>1. owner' = owner
      BY <1>2, <1>3, <1>4
    <2>2. pc'[Create(h)] # "returned"
      <3>1. outcome # "ok" \/ t \notin DOMAIN Definitions
        BY <1>4 DEF Commits
      <3>2. \E e : Fail(Create(h), e)
        BY <1>1, <3>1 DEF Follow
      <3> QED
        BY <3>2, NextPlace, CallsAreRequests
    <2> QED
      BY <1>4, <2>1, <2>2
  <1>5. CASE t \in DOMAIN Definitions /\ Commits(outcome)
    <2>1. InitialRow(t) \in Row
      BY <1>5, InitialRowReachable
    <2>2. /\ instances' = Append(instances, InitialRow(t))
          /\ writes' = Append(writes, [op |-> "create", req |-> Create(h),
                                       id |-> Len(instances) + 1, row |-> InitialRow(t)])
      BY <1>1, <1>5
    <2>3. Len(instances') = Len(instances) + 1 /\ Len(instances) \in Nat
      BY <1>2, <2>1, <2>2
    <2>4. owner' = Append(owner, http[h].user)
      BY <1>3, <2>3
    <2> QED
      BY <1>5, <2>2, <2>3, <2>4
  <1> QED
    BY <1>1, <1>4, <1>5

\* Rows are only added by handlers: the other calls write in place.
LEMMA OthersAddNoRow ==
  ASSUME StagesInv, IInv, [HttpNext]_httpVars, \A h \in Clients : ~CreateForUser(h)
  PROVE  UNCHANGED owner /\ Len(instances') = Len(instances)
  <1>1. instances \in Seq(Row)
    BY DEF IInv, TypeOK
  <1>2. ASSUME NEW h \in Clients, TransitInstance(h) PROVE UNCHANGED <<owner, instances>>
    BY <1>2 DEF TransitInstance, BeginTransitionOf, BeginWithNoInstance
  <1>3. ASSUME NEW r \in Requests, ServiceStep(r)
        PROVE  UNCHANGED owner /\ Len(instances') = Len(instances)
    <2>1. CASE UNCHANGED instances
      BY <1>3, <2>1 DEF ServiceStep
    <2>2. ASSUME NEW row, instances' = SaveColumns(frame[r].id, row)
          PROVE  Len(instances') = Len(instances)
      BY <1>1, <2>2 DEF SaveColumns
    <2> QED
      BY <1>3, <2>1, <2>2 DEF ServiceStep, HasValidation, GetValidation, EmitBefore,
         UpdateInstance, CreateTransition, SendEvent, SaveFinished, SaveInstance
  <1>4. ASSUME NEW r \in Finishes, FinishByApplication(r) PROVE UNCHANGED <<owner, instances>>
    BY <1>4 DEF FinishByApplication, BeginFinish
  <1>5. CASE Shutdown \/ UNCHANGED httpVars
    BY <1>5 DEF Shutdown, Crash, httpVars
  <1>6. ASSUME NEW h \in Clients, Refuse(h) \/ UserRoutes(h) \/ AdminRoutes(h) \/ Answer(h)
        PROVE  UNCHANGED <<owner, instances>>
    BY <1>6 DEF Refuse, UserRoutes, View, BeginCreateStep, AdminRoutes, BeginTransitStep,
       Answer, vars
  <1> QED
    BY <1>2, <1>3, <1>4, <1>5, <1>6 DEF HttpNext

LEMMA OwnersTyped ==
  ASSUME StagesInv, IInv, [HttpNext]_httpVars
  PROVE  /\ owner' \in Seq(Users \cup {Anonymous}) /\ Len(owner') = Len(instances')
         /\ OwnersStay
  <1>1. owner \in Seq(Users \cup {Anonymous}) /\ Len(owner) = Len(instances)
    BY DEF StagesInv, TablesTyped
  <1>2. ASSUME NEW h \in Clients, CreateForUser(h)
        PROVE  /\ owner' \in Seq(Users \cup {Anonymous}) /\ Len(owner') = Len(instances')
               /\ OwnersStay
    <2>1. http[h].user # NoUser
      BY <1>2 DEF StagesInv, StageInv, CreateForUser
    <2>2. http[h].user \in Users \cup {Anonymous}
      BY <2>1 DEF StagesInv, TablesTyped, ClientState, UserIDs
    <2>3. CASE UNCHANGED <<owner, instances>>
      BY <1>1, <2>3 DEF OwnersStay
    <2>4. CASE owner' = Append(owner, http[h].user) /\ Len(instances') = Len(instances) + 1
      <3>1. /\ owner' \in Seq(Users \cup {Anonymous}) /\ OwnersStay
            /\ Len(owner') = Len(owner) + 1
        BY <1>1, <2>2, <2>4, AppendFacts DEF OwnersStay
      <3> QED
        BY <1>1, <2>4, <3>1
    <2> QED
      BY <1>2, <2>1, <2>3, <2>4, CreateForUserTables DEF StagesInv
  <1>3. CASE \A h \in Clients : ~CreateForUser(h)
    BY <1>1, <1>3, OthersAddNoRow DEF OwnersStay
  <1> QED
    BY <1>2, <1>3

-----------------------------------------------------------------------------
(***************************************************************************)
(* The handlers and their calls keep step.                                 *)
(***************************************************************************)
LEMMA BackgroundStage ==
  ASSUME StagesInv, IInv, Ages, NEW h \in Clients, Background(h)
  PROVE  http'[h] \in ClientState /\ StageInv(h)'
  <1> DEFINE c == http[h]
             q == Transit(h)
             p == Create(h)
  <1>1. /\ c \in ClientState /\ StageInv(h)
    BY DEF StagesInv, TablesTyped
  <1>2. /\ http'[h].stage \in {c.stage, "lost"}
        /\ http'[h].stage = c.stage \/ c.stage # "replied"
        /\ http'[h].type = c.type /\ http'[h].user = c.user /\ http'[h].route = c.route
        /\ http'[h].lookup = c.lookup /\ http'[h].id = c.id /\ http'[h].status = c.status
        /\ http'[h] \in ClientState
    <2>1. CASE http'[h] = c
      BY <1>1, <2>1
    <2>2. CASE /\ c.stage \in {"create", "transit", "awaiting"}
               /\ http'[h] = [c EXCEPT !.stage = "lost"]
      <3>1. "lost" \in HandlerStages
        BY DEF HandlerStages
      <3> QED
        BY <1>1, <2>2, <3>1 DEF ClientState
    <2> QED
      BY <2>1, <2>2 DEF Background
  <1>3. \A i \in DOMAIN instances : i \in DOMAIN instances'
    BY DEF Ages
  <1>4. /\ c.stage \in BeforeTransit => pc[q] = "idle"
        /\ c.stage \in BeforeTransit \ {"transit"} => pc[p] = "idle" /\ c.id = 0
        /\ c.stage = "create" => /\ c.type \in WorkflowTypes /\ c.user # NoUser
                                 /\ c.route = "user" /\ c.lookup \in {"absent", "failed"}
        /\ c.stage \in {"transit", "awaiting"} => c.id \in DOMAIN instances
        /\ c.stage # "replied" => c.status = 0
        /\ c.status \in {400, 401, 403, 404} => pc[q] \in {"idle", "failed"}
        /\ pc[p] \in {"idle"} \cup Ends
        /\ pc[p] # "idle" => c.lookup \in {"absent", "failed"} /\ c.route = "user"
        /\ pc[q] # "saveFinished"
        /\ frame[q] \in {NoFrame} \cup TransitionFrame
        /\ pc[q] = "returned" => frame[q] \in TransitionFrame
        /\ pc[q] = "failed" => err[q] \in Rejections \cup WriteErrors
    BY <1>1 DEF StageInv
  <1>5. /\ pc[q] \in {"idle", "failed", "returned", "crashed"} => pc'[q] = pc[q] /\ err'[q] = err[q]
        /\ pc'[p] = pc[p]
        /\ pc'[q] # "saveFinished"
        /\ frame'[q] \in {NoFrame} \cup TransitionFrame
        /\ pc'[q] = "returned" => frame'[q] \in TransitionFrame
        /\ pc'[q] = "failed" => err'[q] \in Rejections \cup WriteErrors
    <2>1. GoesOn(p) /\ GoesOn(q)
      BY DEF Background
    <2>2. pc'[q] = "failed" => err'[q] \in Rejections \cup WriteErrors
      BY <1>4, <2>1 DEF GoesOn, LaterErrors, Rejections, Stages
    <2>3. pc'[q] = "returned" => frame'[q] \in TransitionFrame
      BY <1>4, <2>1 DEF GoesOn, TransitionStages
    <2> QED
      BY <1>4, <2>1, <2>2, <2>3 DEF GoesOn, Stages, Ends
  <1> HIDE DEF c, q, p
  <1>6. /\ http'[h].stage \in BeforeTransit => pc'[q] = "idle"
        /\ http'[h].stage \in BeforeTransit \ {"transit"} => pc'[p] = "idle" /\ http'[h].id = 0
    BY <1>2, <1>4, <1>5 DEF BeforeTransit
  <1> QED
    BY <1>2, <1>3, <1>4, <1>5, <1>6 DEF StageInv, c, q, p

\* A handler that leaves the calls and the tables alone.
LEMMA UnmovedStage ==
  ASSUME StagesInv, NEW h \in Clients, UNCHANGED <<instances, pc, frame, err>>, NEW n,
         http'[h] = n,
         n.stage \in BeforeTransit => pc[Transit(h)] = "idle",
         n.stage \in BeforeTransit \ {"transit"} => pc[Create(h)] = "idle" /\ n.id = 0,
         n.stage = "create" => /\ n.type \in WorkflowTypes /\ n.user # NoUser
                               /\ n.route = "user" /\ n.lookup \in {"absent", "failed"},
         n.stage \in {"transit", "awaiting"} => n.id \in DOMAIN instances,
         n.stage # "replied" => n.status = 0,
         n.status \in {400, 401, 403, 404} => pc[Transit(h)] \in {"idle", "failed"},
         pc[Create(h)] # "idle" => n.lookup \in {"absent", "failed"} /\ n.route = "user"
  PROVE  StageInv(h)'
  BY DEF StagesInv, StageInv

LEMMA RefusedStage ==
  ASSUME StagesInv, NEW h \in Clients, UNCHANGED <<instances, pc, frame, err>>,
         NEW status \in Statuses, Refused(h, status),
         status = 500 \/ pc[Transit(h)] \in {"idle", "failed"}
  PROVE  StageInv(h)'
  <1> DEFINE n == http'[h]
  <1>1. http[h] \in ClientState /\ StageInv(h)
    BY DEF StagesInv, TablesTyped
  <1>2. /\ n.stage = "replied" /\ n.status = status
        /\ n.lookup = http[h].lookup /\ n.route = http[h].route
    BY <1>1 DEF Refused, ClientState
  <1>3. pc[Create(h)] # "idle" => n.lookup \in {"absent", "failed"} /\ n.route = "user"
    BY <1>1, <1>2 DEF StageInv
  <1> HIDE DEF n
  <1>4. n.status \in {400, 401, 403, 404} => pc[Transit(h)] \in {"idle", "failed"}
    BY <1>2
  <1> QED
    BY <1>2, <1>3, <1>4, UnmovedStage DEF n, BeforeTransit

LEMMA RoutesStage ==
  ASSUME StagesInv, TypeOK, NEW h \in Clients,
         Refuse(h) \/ View(h) \/ BeginCreateStep(h) \/ BeginTransitStep(h)
  PROVE  http' \in [Clients -> ClientState] /\ StageInv(h)'
  <1> DEFINE c == http[h]
             n == http'[h]
  <1>1. /\ TablesTyped /\ StageInv(h) /\ c \in ClientState
        /\ c.stage \in {"idle", "viewed"}
        /\ UNCHANGED <<instances, pc, frame, err>>
    BY DEF StagesInv, TablesTyped, Refuse, View, BeginCreateStep, BeginTransitStep, vars
  <1>2. /\ pc[Transit(h)] = "idle" /\ pc[Create(h)] = "idle" /\ c.id = 0 /\ c.status = 0
    BY <1>1 DEF StageInv, BeforeTransit
  <1>3. ASSUME NEW status \in Statuses, Refused(h, status)
        PROVE  StageInv(h)'
    BY <1>1, <1>2, <1>3, RefusedStage
  <1>4. CASE View(h)
    <2>1. /\ http' \in [Clients -> ClientState]
          /\ \E t \in WorkflowTypes : \E key, i : Views(h, key, t, i)
      BY <1>1, <1>4, ViewIs
    <2>2. n.stage = "viewed" /\ n.id = 0 /\ n.status = 0
      BY <1>1, <1>2, <2>1 DEF ClientState, Views
    <2> HIDE DEF n
    <2>3. StageInv(h)'
      BY <1>1, <1>2, <2>2, UnmovedStage DEF n
    <2> QED
      BY <2>1, <2>3
  <1>5. ASSUME NEW t \in WorkflowTypes, NEW key, Serves(h, key, t)
        PROVE  StageInv(h)'
    <2>1. CASE FindsInstance(h, key, t)
      <3>1. PICK i \in GetInstance(key, t) :
              n = [Called(h, key, t) EXCEPT !.stage = "transit", !.id = i, !.lookup = "found"]
        BY <2>1 DEF FindsInstance
      <3>2. n.stage = "transit" /\ n.id = i /\ n.status = 0 /\ i \in DOMAIN instances
        BY <1>1, <1>2, <3>1 DEF ClientState, Called, GetInstance, OwnedBy
      <3> HIDE DEF n
      <3> QED
        BY <1>1, <1>2, <3>2, UnmovedStage DEF n
    <2>2. CASE FindsNone(h, key, t)
      <3>1. PICK lookup \in {"absent", "failed"} :
              n = [Called(h, key, t) EXCEPT !.stage = "create", !.lookup = lookup]
        BY <2>2 DEF FindsNone
      <3>2. /\ n.stage = "create" /\ n.id = 0 /\ n.status = 0 /\ n.type = t /\ n.user = key
            /\ n.route = "user" /\ n.lookup = lookup /\ key # NoUser
        BY <1>1, <1>2, <1>5, <3>1 DEF ClientState, Called, Serves
      <3> HIDE DEF n
      <3> QED
        BY <1>1, <1>2, <3>2, UnmovedStage DEF n
    <2> QED
      BY <1>5, <2>1, <2>2 DEF Serves
  <1>6. ASSUME NEW i, NEW s, NamesStep(h, i, s)
        PROVE  StageInv(h)'
    <2>1. n.stage = "transit" /\ n.id = i /\ n.status = 0 /\ i \in DOMAIN instances
      BY <1>1, <1>2, <1>6 DEF ClientState, NamesStep
    <2> HIDE DEF n
    <2> QED
      BY <1>1, <1>2, <2>1, UnmovedStage DEF n
  <1>7. CASE Refuse(h)
    BY <1>1, <1>3, <1>7, RefuseIs
  <1>8. CASE BeginCreateStep(h)
    <2>1. 401 \in Statuses
      BY DEF Statuses
    <2> QED
      BY <1>1, <1>3, <1>5, <1>8, <2>1, BeginCreateStepIs
  <1>9. CASE BeginTransitStep(h)
    BY <1>1, <1>3, <1>6, <1>9, BeginTransitStepIs
  <1> QED
    BY <1>4, <1>7, <1>8, <1>9

LEMMA CreateForUserStage ==
  ASSUME StagesInv, EInv, TypeOK', NEW h \in Clients, CreateForUser(h)
  PROVE  http' \in [Clients -> ClientState] /\ StageInv(h)'
  <1> DEFINE c == http[h]
             n == http'[h]
             p == Create(h)
             q == Transit(h)
  <1>1. /\ TablesTyped /\ IInv /\ TypeOK /\ StageInv(h) /\ c \in ClientState
        /\ c.stage = "create"
    BY DEF StagesInv, TablesTyped, EInv, IInv, CreateForUser
  <1>2. /\ pc[q] = "idle" /\ pc[p] = "idle" /\ c.status = 0 /\ c.user # NoUser
        /\ c.route = "user" /\ c.lookup \in {"absent", "failed"}
        /\ frame[q] \in {NoFrame} \cup TransitionFrame
    BY <1>1 DEF StageInv, BeforeTransit
  <1>3. pc'[p] \in {"returned", "failed"}
    BY <1>1, NextPlace, CallsAreRequests DEF CreateForUser, CreateInstanceOf
  <1>4. pc'[q] = "idle" /\ frame'[q] = frame[q]
    <2>1. p # q /\ p \in Requests /\ q \in Requests
      BY CallsAreRequests
    <2>2. \E stage : pc' = [pc EXCEPT ![p] = stage]
      BY DEF CreateForUser, CreateInstanceOf, Follow, Fail, GoTo
    <2> QED
      BY <1>1, <1>2, <2>1, <2>2 DEF CreateForUser, CreateInstanceOf, TypeOK
  <1>5. /\ http' \in [Clients -> ClientState]
        /\ \/ pc'[p] = "returned" /\ GoesOnWith(h, Len(instances'))
           \/ pc'[p] # "returned" /\ Refused(h, 500)
    BY <1>1, CreateForUserIs
  <1>6. /\ n.lookup = c.lookup /\ n.route = "user"
        /\ \/ n.stage = "replied" /\ n.status = 500
           \/ n.stage = "transit" /\ n.status = 0 /\ n.id \in DOMAIN instances'
    <2>1. CASE Refused(h, 500)
      BY <1>1, <1>2, <2>1 DEF Refused, ClientState
    <2>2. CASE pc'[p] = "returned" /\ GoesOnWith(h, Len(instances'))
      <3>1. Len(instances') = Len(instances) + 1
        BY <1>1, <1>2, <2>2, CreateForUserTables
      <3>2. Len(instances') \in DOMAIN instances'
        BY <1>1, <3>1 DEF TypeOK
      <3> QED
        BY <1>1, <1>2, <2>2, <3>2 DEF GoesOnWith, ClientState
    <2> QED
      BY <1>5, <2>1, <2>2
  <1> HIDE DEF n, c
  <1>7. StageInv(h)'
    BY <1>2, <1>3, <1>4, <1>6 DEF StageInv, BeforeTransit, Ends, n, p, q
  <1> QED
    BY <1>5, <1>7

LEMMA TransitInstanceStage ==
  ASSUME StagesInv, EInv, NEW h \in Clients, TransitInstance(h)
  PROVE  http' \in [Clients -> ClientState] /\ StageInv(h)'
  <1> DEFINE c == http[h]
             n == http'[h]
             p == Create(h)
             q == Transit(h)
  <1>1. /\ TablesTyped /\ IInv /\ TypeOK /\ StageInv(h) /\ c \in ClientState
        /\ c.stage = "transit"
    BY DEF StagesInv, TablesTyped, EInv, IInv, TransitInstance
  <1>2. /\ pc[q] = "idle" /\ c.status = 0 /\ c.id \in DOMAIN instances
        /\ pc[p] \in {"idle"} \cup Ends
        /\ pc[p] # "idle" => c.lookup \in {"absent", "failed"} /\ c.route = "user"
    BY <1>1 DEF StageInv, BeforeTransit
  <1>3. http' \in [Clients -> ClientState]
    BY <1>1, TransitInstanceIs
  <1>4. PICK a \in ActionNames :
          /\ Awaits(h, a)
          /\ BeginTransitionOf(q, c.id, a) \/ BeginWithNoInstance(q)
    BY <1>1, TransitInstanceIs
  <1>5. /\ n.stage = "awaiting" /\ n.id = c.id /\ n.status = 0
        /\ n.lookup = c.lookup /\ n.route = c.route
    BY <1>1, <1>2, <1>4 DEF Awaits, ClientState
  <1>6. p # q /\ p \in Requests /\ q \in Requests
    BY CallsAreRequests
  <1>7. pc'[p] = pc[p] /\ UNCHANGED instances
    BY <1>1, <1>4, <1>6 DEF BeginTransitionOf, BeginWithNoInstance, Fail, GoTo, TypeOK
  <1>8. \/ /\ pc'[q] = "failed" /\ err'[q] \in Rejections /\ frame'[q] = frame[q]
        \/ /\ pc'[q] \in {"emitBefore", "hasValidation"} /\ IInv'
    <2>1. CASE \E e \in Rejections : Fail(q, e) /\ UNCHANGED frame
      BY <1>1, <1>6, <2>1 DEF Fail, TypeOK
    <2>2. CASE \E stage \in {"emitBefore", "hasValidation"} : GoTo(q, stage)
      <3>1. BeginTransition(q) \/ BeginWithNoInstance(q)
        BY <1>2, <1>4 DEF BeginTransition
      <3>2. IInv'
        BY <1>1, <1>6, <3>1, BeginTransitionStep, BeginWithNoInstanceStep
      <3> QED
        BY <1>1, <1>6, <2>2, <3>2, NextPlace
    <2> QED
      BY <1>4, <2>1, <2>2 DEF BeginTransitionOf, BeginWithNoInstance, Rejections
  <1>9. /\ pc'[q] \in {"failed", "emitBefore", "hasValidation"}
        /\ frame'[q] \in {NoFrame} \cup TransitionFrame
        /\ pc'[q] = "failed" => err'[q] \in Rejections \cup WriteErrors
    <2>1. frame[q] \in {NoFrame} \cup TransitionFrame
      BY <1>1 DEF StageInv
    <2>2. pc'[q] \in {"emitBefore", "hasValidation"} => frame'[q] \in TransitionFrame
      BY <1>6, <1>8 DEF IInv, FrameInv, TransitionStages, Stages
    <2> QED
      BY <1>8, <2>1, <2>2
  <1> HIDE DEF n, c
  <1>10. StageInv(h)'
    BY <1>2, <1>5, <1>7, <1>9 DEF StageInv, BeforeTransit, n, p, q
  <1> QED
    BY <1>3, <1>10

LEMMA AnswerStage ==
  ASSUME StagesInv, TypeOK, NEW h \in Clients, Answer(h)
  PROVE  http' \in [Clients -> ClientState] /\ StageInv(h)'
  <1> DEFINE c == http[h]
             n == http'[h]
  <1>1. /\ TablesTyped /\ StageInv(h) /\ c \in ClientState /\ c.stage = "awaiting"
        /\ UNCHANGED <<instances, pc, frame, err>>
    BY DEF StagesInv, TablesTyped, Answer, vars
  <1>2. c.id \in DOMAIN instances
    BY <1>1 DEF StageInv
  <1>3. /\ http' \in [Clients -> ClientState]
        /\ \/ pc[Transit(h)] = "failed" /\ Refused(h, 400)
           \/ pc[Transit(h)] = "returned" /\ (Refused(h, 500) \/ Shows(h))
    BY <1>1, <1>2, AnswerIs
  <1>4. CASE \E status \in {400, 500} :
               Refused(h, status) /\ (status = 500 \/ pc[Transit(h)] = "failed")
    <2>1. PICK status \in {400, 500} :
            Refused(h, status) /\ (status = 500 \/ pc[Transit(h)] = "failed")
      BY <1>4
    <2>2. status \in Statuses
      BY DEF Statuses
    <2>3. StageInv(h)'
      BY <1>1, <2>1, <2>2, RefusedStage
    <2> QED
      BY <1>3, <2>3
  <1>5. CASE Shows(h)
    <2>1. /\ n.stage = "replied" /\ n.status = 200
          /\ n.lookup = c.lookup /\ n.route = c.route
      BY <1>1, <1>5 DEF Shows, ClientState
    <2>2. pc[Create(h)] # "idle" => n.lookup \in {"absent", "failed"} /\ n.route = "user"
      BY <1>1, <2>1 DEF StageInv
    <2> HIDE DEF n
    <2>3. StageInv(h)'
      BY <1>1, <2>1, <2>2, UnmovedStage DEF n, BeforeTransit
    <2> QED
      BY <1>3, <2>3
  <1> QED
    BY <1>3, <1>4, <1>5

LEMMA InitStages == HttpInit => StagesInv /\ ServiceInv
  <1> SUFFICES ASSUME HttpInit PROVE StagesInv /\ ServiceInv
    OBVIOUS
  <1>1. ServiceInv
    <2>1. EInv
      BY InitEInv DEF HttpInit
    <2>2. RowsAreLatest /\ RecordsTell
      BY DEF HttpInit, Init, RowsAreLatest, RecordsTell
    <2> QED
      BY <2>1, <2>2 DEF ServiceInv
  <1>2. NewClient \in ClientState
    <2>1. /\ "idle" \in HandlerStages /\ "none" \in Routes /\ NoUser \in UserIDs
          /\ Blank \in TypeNames /\ "none" \in Lookups /\ Blank \in StepParams
          /\ Blank \in ActionParams /\ 0 \in Statuses /\ 0 \in Nat
          /\ {} \in SUBSET OfferedNames /\ {} \in SUBSET Row
      BY DEF HandlerStages, Routes, UserIDs, TypeNames, Lookups, StepParams, ActionParams,
             Statuses
    <2> HIDE DEF Blank
    <2> QED
      BY <2>1 DEF NewClient, ClientState
  <1>3. TablesTyped
    BY <1>2 DEF HttpInit, Init, TablesTyped
  <1>4. ASSUME NEW h \in Clients PROVE StageInv(h)
    BY CallsAreRequests DEF HttpInit, Init, StageInv, NewClient, BeforeTransit
  <1> QED
    BY <1>1, <1>3, <1>4 DEF StagesInv

LEMMA NextStages ==
  StagesInv /\ ServiceInv /\ [HttpNext]_httpVars => StagesInv' /\ ServiceInv'
  <1> SUFFICES ASSUME StagesInv, ServiceInv, [HttpNext]_httpVars
               PROVE  StagesInv' /\ ServiceInv'
    OBVIOUS
  <1>1. ServiceInv' /\ Ages /\ EInv /\ IInv /\ TypeOK /\ TypeOK'
    BY HttpNextServiceInv DEF ServiceInv, EInv, IInv
  <1>2. ASSUME NEW h \in Clients
        PROVE  http'[h] \in ClientState /\ StageInv(h)'
    <2>1. CASE Background(h)
      BY <1>1, <2>1, BackgroundStage
    <2>2. CASE Own(h)
      BY <1>1, <2>2, RoutesStage, CreateForUserStage, TransitInstanceStage, AnswerStage DEF Own
    <2> QED
      BY <1>1, <2>1, <2>2, EachClient
  <1>3. http' \in [Clients -> ClientState]
    <2>1. ASSUME NEW h \in Clients, Own(h) PROVE http' \in [Clients -> ClientState]
      BY <1>1, <2>1, RoutesStage, CreateForUserStage, TransitInstanceStage, AnswerStage DEF Own
    <2>2. CASE UNCHANGED http
      BY <2>2 DEF StagesInv, TablesTyped
    <2>3. CASE Shutdown
      <3>1. http' = [h \in Clients |-> http'[h]]
        BY <2>3 DEF Shutdown
      <3> QED
        BY <1>2, <3>1
    <2> QED
      BY <2>1, <2>2, <2>3 DEF HttpNext, UserRoutes, AdminRoutes, Own, ServiceStep,
         FinishByApplication, httpVars
  <1>4. TablesTyped'
    BY <1>1, <1>3, OwnersTyped DEF TablesTyped
  <1> QED
    BY <1>1, <1>2, <1>4 DEF StagesInv

\* The inductive invariant of the handlers and of the service below them.
THEOREM HandlersKeepStep == HttpSpec => [](StagesInv /\ ServiceInv)
  BY InitStages, NextStages, PTL DEF HttpSpec

\* Whatever the handlers do, the service below them behaves as TransitionService
\* says: every theorem about Spec is one about HttpSpec.
THEOREM HandlersImplementService == HttpSpec => Spec
  <1>1. HttpInit => Init
    BY DEF HttpInit
  <1>2. StagesInv /\ [HttpNext]_httpVars => [Next]_vars
    BY HttpNextIsNext
  <1> QED
    BY <1>1, <1>2, HandlersKeepStep, PTL DEF HttpSpec, Spec

\* Handlers are in one of their stages, an instance they work on exists, and every
\* instance has an owner.
THEOREM HttpTypeCorrect == HttpSpec => []HttpTypeOK
  <1>1. StagesInv => HttpTypeOK
    <2> SUFFICES ASSUME StagesInv PROVE HttpTypeOK
      OBVIOUS
    <2>1. ASSUME NEW h \in Clients
          PROVE  /\ http[h].stage \in {"idle", "viewed", "create", "transit", "awaiting",
                                       "replied", "lost"}
                 /\ http[h].status \in {0, 200, 400, 401, 403, 404, 500}
                 /\ http[h].stage \in {"transit", "awaiting"} => http[h].id \in DOMAIN instances
      <3>1. http[h] \in ClientState /\ StageInv(h)
        BY DEF StagesInv, TablesTyped
      <3>2. http[h].stage \in HandlerStages /\ http[h].status \in Statuses
        BY <3>1 DEF ClientState
      <3> QED
        BY <3>1, <3>2 DEF StageInv, HandlerStages, Statuses
    <2>2. /\ Len(owner) = Len(instances)
          /\ \A i \in DOMAIN owner : owner[i] \in Users \cup {Anonymous}
      BY DEF StagesInv, TablesTyped
    <2> QED
      BY <2>1, <2>2 DEF HttpTypeOK
  <1> QED
    BY <1>1, HandlersKeepStep, PTL

\* A reply of 4xx that does not come from a write of TransitionStep leaves no trace
\* of the client's move (handlers.go:134).
THEOREM RefusalsLeaveThingsAsTheyAre == HttpSpec => []RefusalsMoveNothing
  <1>1. StagesInv /\ ServiceInv => RefusalsMoveNothing
    <2> SUFFICES ASSUME StagesInv, ServiceInv, NEW h \in Clients,
                        http[h].status \in {400, 401, 403, 404},
                        err[Transit(h)] \notin WriteErrors
                 PROVE  /\ \A k \in DOMAIN writes : writes[k].req # Transit(h)
                        /\ \A k \in DOMAIN transitions : transitions[k].req # Transit(h)
                        /\ \A k \in DOMAIN offered : offered[k].req # Transit(h)
      BY DEF RefusalsMoveNothing
    <2> DEFINE q == Transit(h)
    <2>1. StageInv(h) /\ IInv /\ q \in Requests
      BY CallsAreRequests DEF StagesInv, ServiceInv, EInv
    <2>2. pc[q] = "idle" \/ err[q] \in Rejections
      BY <2>1 DEF StageInv
    <2>3. CASE pc[q] = "idle"
      BY <2>1, <2>3 DEF IInv, ProgressInv, BeforeTheWrite
    <2>4. CASE err[q] \in Rejections
      BY <2>1, <2>4 DEF IInv, RejectionsLeaveNoTrace
    <2> QED
      BY <2>2, <2>3, <2>4
  <1> QED
    BY <1>1, HandlersKeepStep, PTL

-----------------------------------------------------------------------------
(***************************************************************************)
(* Whose instances handlers move, and from where.                          *)
(***************************************************************************)
\* The instance of a user's PUT is the user's, of the type in the URL.
OwnInstance(h) ==
  LET c == http[h] IN
  c.route = "user" /\ c.id # 0 =>
    /\ c.id \in DOMAIN instances
    /\ owner[c.id] = c.user /\ instances[c.id].type = c.type

\* The call works on the instance the handler chose.
SameInstance(h) ==
  frame[Transit(h)] \in TransitionFrame => frame[Transit(h)].id = http[h].id

OwnersInv == \A h \in Clients : OwnInstance(h) /\ SameInstance(h)

LEMMA BackgroundOwner ==
  ASSUME StagesInv, IInv, Ages, OwnersStay, NEW h \in Clients, Background(h),
         OwnInstance(h), SameInstance(h)
  PROVE  OwnInstance(h)' /\ SameInstance(h)'
  <1>1. http[h] \in ClientState /\ Len(owner) = Len(instances) /\ owner \in Seq(Users \cup {Anonymous})
        /\ instances \in Seq(Row)
    BY DEF StagesInv, TablesTyped, IInv, TypeOK
  <1>2. /\ http'[h].type = http[h].type /\ http'[h].user = http[h].user
        /\ http'[h].route = http[h].route /\ http'[h].id = http[h].id
    BY <1>1 DEF Background, ClientState
  <1>3. \A i \in DOMAIN instances : /\ i \in DOMAIN instances' /\ owner'[i] = owner[i]
                                    /\ instances'[i].type = instances[i].type
    BY <1>1 DEF Ages, OwnersStay
  <1>4. OwnInstance(h)'
    BY <1>2, <1>3 DEF OwnInstance
  <1>5. GoesOn(Transit(h))
    BY DEF Background
  <1>6. SameInstance(h)'
    BY <1>2, <1>5 DEF SameInstance, GoesOn
  <1> QED
    BY <1>4, <1>6

\* A call that has not begun holds nothing.
LEMMA IdleHoldsNothing ==
  ASSUME EInv, NEW q \in Requests, pc[q] = "idle"
  PROVE  frame[q] \notin TransitionFrame
  BY DEF EInv, CallInv, NoFrame, TransitionFrame

LEMMA RoutesOwner ==
  ASSUME StagesInv, EInv, NEW h \in Clients, OwnInstance(h), SameInstance(h),
         Refuse(h) \/ View(h) \/ BeginCreateStep(h) \/ BeginTransitStep(h)
  PROVE  OwnInstance(h)' /\ SameInstance(h)'
  <1> DEFINE c == http[h]
             n == http'[h]
  <1>1. /\ TablesTyped /\ StageInv(h) /\ c \in ClientState /\ TypeOK
        /\ c.stage \in {"idle", "viewed"}
        /\ UNCHANGED <<instances, pc, frame, owner>>
    BY DEF StagesInv, TablesTyped, Refuse, View, BeginCreateStep, BeginTransitStep, vars,
       EInv, IInv
  <1>2. pc[Transit(h)] = "idle" /\ c.id = 0
    BY <1>1 DEF StageInv, BeforeTransit
  <1>3. SameInstance(h)'
    BY <1>1, <1>2, IdleHoldsNothing, CallsAreRequests DEF SameInstance
  <1>4. ASSUME n.id = 0 \/ n.route = "admin" PROVE OwnInstance(h)'
    BY <1>4 DEF OwnInstance
  <1>5. CASE \E status : Refused(h, status)
    <2>1. n.id = 0
      BY <1>1, <1>2, <1>5 DEF Refused, ClientState
    <2> QED
      BY <1>3, <1>4, <2>1
  <1>6. CASE \E t, key, i : Views(h, key, t, i)
    <2>1. n.id = 0
      BY <1>1, <1>2, <1>6 DEF Views, ClientState
    <2> QED
      BY <1>3, <1>4, <2>1
  <1>7. CASE \E i, s : NamesStep(h, i, s)
    <2>1. n.route = "admin"
      BY <1>1, <1>7 DEF NamesStep, ClientState
    <2> QED
      BY <1>3, <1>4, <2>1
  <1>8. ASSUME NEW t, NEW key, Serves(h, key, t) PROVE OwnInstance(h)'
    <2>1. CASE FindsInstance(h, key, t)
      <3>1. PICK i \in GetInstance(key, t) :
              n = [Called(h, key, t) EXCEPT !.stage = "transit", !.id = i, !.lookup = "found"]
        BY <2>1 DEF FindsInstance
      <3>2. n.id = i /\ n.user = key /\ n.type = t
        BY <1>1, <3>1 DEF ClientState, Called
      <3>3. i \in DOMAIN instances /\ owner[i] = key /\ instances[i].type = t
        BY DEF GetInstance, OwnedBy
      <3> QED
        BY <1>1, <3>2, <3>3 DEF OwnInstance
    <2>2. CASE FindsNone(h, key, t)
      <3>1. n.id = 0
        BY <1>1, <1>2, <2>2 DEF FindsNone, Called, ClientState
      <3> QED
        BY <1>4, <3>1
    <2> QED
      BY <1>8, <2>1, <2>2 DEF Serves
  <1> QED
    BY <1>1, <1>3, <1>5, <1>6, <1>7, <1>8, RefuseIs, ViewIs, BeginCreateStepIs, BeginTransitStepIs

LEMMA CreateForUserOwner ==
  ASSUME StagesInv, EInv, IInv', NEW h \in Clients, CreateForUser(h)
  PROVE  OwnInstance(h)' /\ SameInstance(h)'
  <1> DEFINE c == http[h]
             n == http'[h]
  <1>1. /\ TablesTyped /\ StageInv(h) /\ c \in ClientState /\ TypeOK /\ TypeOK' /\ IInv
        /\ c.stage = "create" /\ frame' = frame
    BY DEF StagesInv, TablesTyped, EInv, IInv, CreateForUser, CreateInstanceOf
  <1>2. pc[Transit(h)] = "idle" /\ c.id = 0 /\ c.user # NoUser
    BY <1>1 DEF StageInv, BeforeTransit
  <1>3. SameInstance(h)'
    BY <1>1, <1>2, IdleHoldsNothing, CallsAreRequests DEF SameInstance
  <1>4. CASE Refused(h, 500)
    <2>1. n.id = 0
      BY <1>1, <1>2, <1>4 DEF Refused, ClientState
    <2> QED
      BY <1>3, <2>1 DEF OwnInstance
  <1>5. CASE pc'[Create(h)] = "returned" /\ GoesOnWith(h, Len(instances'))
    <2>1. n.id = Len(instances') /\ n.user = c.user /\ n.type = c.type
      BY <1>1, <1>5 DEF GoesOnWith, ClientState
    <2>2. /\ c.type \in DOMAIN Definitions
          /\ owner' = Append(owner, c.user)
          /\ instances' = Append(instances, InitialRow(c.type))
          /\ Len(instances') = Len(instances) + 1
      BY <1>1, <1>2, <1>5, CreateForUserTables
    <2>3. InitialRow(c.type) \in Row /\ InitialRow(c.type).type = c.type
      BY <2>2, InitialRowReachable DEF InitialRow
    <2>4. /\ instances \in Seq(Row) /\ owner \in Seq(Users \cup {Anonymous})
          /\ Len(owner) = Len(instances) /\ c.user \in Users \cup {Anonymous}
      BY <1>1, <1>2 DEF TypeOK, TablesTyped, ClientState, UserIDs
    <2>5. /\ n.id \in DOMAIN instances' /\ instances'[n.id] = InitialRow(c.type)
          /\ owner'[n.id] = c.user
      BY <2>1, <2>2, <2>3, <2>4, AppendFacts
    <2> QED
      BY <1>3, <2>1, <2>3, <2>5 DEF OwnInstance
  <1> QED
    BY <1>1, <1>4, <1>5, CreateForUserIs

LEMMA TransitInstanceOwner ==
  ASSUME StagesInv, EInv, NEW h \in Clients, OwnInstance(h), TransitInstance(h)
  PROVE  OwnInstance(h)' /\ SameInstance(h)'
  <1> DEFINE c == http[h]
             n == http'[h]
             q == Transit(h)
  <1>1. /\ TablesTyped /\ StageInv(h) /\ c \in ClientState /\ TypeOK
        /\ c.stage = "transit" /\ UNCHANGED owner
    BY DEF StagesInv, TablesTyped, EInv, IInv, TransitInstance
  <1>2. pc[q] = "idle" /\ c.id \in DOMAIN instances /\ q \in Requests
    BY <1>1, CallsAreRequests DEF StageInv, BeforeTransit
  <1>3. PICK a \in ActionNames :
          /\ Awaits(h, a)
          /\ BeginTransitionOf(q, c.id, a) \/ BeginWithNoInstance(q)
    BY <1>1, TransitInstanceIs
  <1>4. n.id = c.id /\ n.user = c.user /\ n.type = c.type /\ n.route = c.route
    BY <1>1, <1>3 DEF Awaits, ClientState
  <1>5. UNCHANGED instances
    BY <1>3 DEF BeginTransitionOf, BeginWithNoInstance
  <1>6. OwnInstance(h)'
    BY <1>1, <1>4, <1>5 DEF OwnInstance
  <1>7. frame'[q] = frame[q] \/ frame'[q].id = c.id
    <2>1. CASE UNCHANGED frame
      BY <2>1
    <2>2. CASE \E step, act : frame' = [frame EXCEPT ![q] =
                 [op |-> "transition", id |-> c.id, from |-> instances[c.id], action |-> a,
                  stepName |-> step.name, act |-> act, input |-> "json", validated |-> FALSE]]
      BY <1>1, <1>2, <2>2 DEF TypeOK
    <2> QED
      BY <1>3, <2>1, <2>2 DEF BeginTransitionOf, BeginWithNoInstance
  <1>8. frame[q] \notin TransitionFrame
    BY <1>2, IdleHoldsNothing
  <1>9. SameInstance(h)'
    BY <1>4, <1>7, <1>8 DEF SameInstance
  <1> QED
    BY <1>6, <1>9

LEMMA AnswerOwner ==
  ASSUME StagesInv, TypeOK, NEW h \in Clients, OwnInstance(h), SameInstance(h), Answer(h)
  PROVE  OwnInstance(h)' /\ SameInstance(h)'
  <1> DEFINE c == http[h]
             n == http'[h]
  <1>1. /\ TablesTyped /\ StageInv(h) /\ c \in ClientState /\ c.stage = "awaiting"
        /\ UNCHANGED <<instances, frame, owner>>
    BY DEF StagesInv, TablesTyped, Answer, vars
  <1>2. c.id \in DOMAIN instances
    BY <1>1 DEF StageInv
  <1>3. Refused(h, 400) \/ Refused(h, 500) \/ Shows(h)
    BY <1>1, <1>2, AnswerIs
  <1>4. n.id = c.id /\ n.user = c.user /\ n.type = c.type /\ n.route = c.route
    <2>1. CASE \E status : Refused(h, status)
      BY <1>1, <2>1 DEF Refused, ClientState
    <2>2. CASE Shows(h)
      BY <1>1, <2>2 DEF Shows, ClientState
    <2> QED
      BY <1>3, <2>1, <2>2
  <1> QED
    BY <1>1, <1>4 DEF OwnInstance, SameInstance

LEMMA NextOwners ==
  StagesInv /\ ServiceInv /\ OwnersInv /\ [HttpNext]_httpVars => OwnersInv'
  <1> SUFFICES ASSUME StagesInv, ServiceInv, OwnersInv, [HttpNext]_httpVars,
                      NEW h \in Clients
               PROVE  OwnInstance(h)' /\ SameInstance(h)'
    BY DEF OwnersInv
  <1>1. EInv /\ IInv /\ IInv' /\ Ages /\ TypeOK
    BY HttpNextServiceInv DEF ServiceInv, EInv, IInv
  <1>2. OwnersStay
    BY <1>1, OwnersTyped
  <1>3. OwnInstance(h) /\ SameInstance(h)
    BY DEF OwnersInv
  <1>4. CASE Background(h)
    BY <1>1, <1>2, <1>3, <1>4, BackgroundOwner
  <1>5. CASE Own(h)
    BY <1>1, <1>3, <1>5, RoutesOwner, CreateForUserOwner, TransitInstanceOwner, AnswerOwner
       DEF Own
  <1> QED
    BY <1>1, <1>4, <1>5, EachClient

LEMMA HandlersKnowOwners == HttpSpec => []OwnersInv
  <1>1. HttpInit => OwnersInv
    BY CallsAreRequests DEF HttpInit, Init, OwnersInv, OwnInstance, SameInstance, NewClient,
       NoFrame, TransitionFrame
  <1> QED
    BY <1>1, NextOwners, HandlersKeepStep, PTL DEF HttpSpec

\* A record that a user's PUT adds is about an instance of that user, and of the type
\* in the URL, whatever other clients do meanwhile (handlers.go:125-135).
THEOREM UsersKeepToTheirOwn == HttpSpec => []UsersMoveOnlyTheirOwn
  <1>1. StagesInv /\ ServiceInv /\ OwnersInv => UsersMoveOnlyTheirOwn
    <2> SUFFICES ASSUME StagesInv, ServiceInv, OwnersInv,
                        NEW k \in DOMAIN transitions, NEW h \in Clients,
                        transitions[k].req = Transit(h), http[h].route = "user"
                 PROVE  /\ owner[transitions[k].instance] = http[h].user
                        /\ instances[transitions[k].instance].type = http[h].type
      BY DEF UsersMoveOnlyTheirOwn
    <2>1. /\ frame[Transit(h)] \in TransitionFrame
          /\ transitions[k].instance = frame[Transit(h)].id
      BY DEF ServiceInv, RecordsTell
    <2>2. OwnInstance(h) /\ SameInstance(h)
      BY DEF OwnersInv
    <2>3. transitions[k].instance = http[h].id
      BY <2>1, <2>2 DEF SameInstance
    <2>4. transitions[k].instance \in DOMAIN instances
      BY DEF ServiceInv, EInv, RecordsFollowTheDefinition
    <2>5. http[h].id # 0
      BY <2>3, <2>4 DEF ServiceInv, EInv, IInv, TypeOK
    <2> QED
      BY <2>2, <2>3, <2>5 DEF OwnInstance
  <1> QED
    BY <1>1, HandlersKeepStep, HandlersKnowOwners, PTL

-----------------------------------------------------------------------------
(***************************************************************************)
(* The step an admin names.                                                *)
(***************************************************************************)
\* One of the writes after the first a, up to the b-th, was of row id.
WrittenIn(log, id, a, b) == \E j \in a + 1 .. b : log[j].id = id

LEMMA SinceThen ==
  ASSUME IInv, IInv', Ages
  PROVE  /\ Len(writes) \in Nat /\ Len(writes') \in Nat /\ Len(writes) <= Len(writes')
         /\ \A i : \A a, b \in Nat :
              b <= Len(writes) /\ WrittenIn(writes, i, a, b)
              => WrittenIn(writes', i, a, b) /\ WrittenIn(writes', i, a, Len(writes'))
         /\ \A i \in DOMAIN instances : \A a \in Nat :
              a <= Len(writes) =>
                instances'[i] = instances[i] \/ WrittenIn(writes', i, a, Len(writes'))
  <1>1. /\ Len(writes) \in Nat /\ Len(writes') \in Nat
        /\ DOMAIN writes = 1 .. Len(writes) /\ DOMAIN writes' = 1 .. Len(writes')
    BY DEF IInv, TypeOK
  <1>2. \A j \in 1 .. Len(writes) : j \in 1 .. Len(writes') /\ writes'[j] = writes[j]
    BY <1>1 DEF Ages, Keeps
  <1>3. Len(writes) <= Len(writes')
    <2>1. CASE Len(writes) = 0
      BY <1>1, <2>1
    <2>2. CASE Len(writes) # 0
      <3>1. Len(writes) \in 1 .. Len(writes)
        BY <1>1, <2>2
      <3>2. Len(writes) \in 1 .. Len(writes')
        BY <1>2, <3>1
      <3> QED
        BY <1>1, <3>2
    <2> QED
      BY <2>1, <2>2
  <1>4. ASSUME NEW i, NEW a \in Nat, NEW b \in Nat, b <= Len(writes), WrittenIn(writes, i, a, b)
        PROVE  WrittenIn(writes', i, a, b) /\ WrittenIn(writes', i, a, Len(writes'))
    <2>1. PICK j \in a + 1 .. b : writes[j].id = i
      BY <1>4 DEF WrittenIn
    <2>2. j \in 1 .. Len(writes) /\ j \in a + 1 .. Len(writes')
      BY <1>1, <1>3, <1>4
    <2>3. writes'[j].id = i
      BY <1>2, <2>1, <2>2
    <2> QED
      BY <2>1, <2>2, <2>3 DEF WrittenIn
  <1>5. ASSUME NEW i \in DOMAIN instances, NEW a \in Nat, a <= Len(writes),
               instances'[i] # instances[i]
        PROVE  WrittenIn(writes', i, a, Len(writes'))
    <2>1. PICK k \in DOMAIN writes' \ DOMAIN writes : writes'[k].id = i
      BY <1>5 DEF Ages
    <2>2. k \in a + 1 .. Len(writes')
      BY <1>1, <1>5
    <2> QED
      BY <2>1, <2>2 DEF WrittenIn
  <1> QED
    BY <1>1, <1>3, <1>4, <1>5

\* What the handler knows of the logs is of the past.
Remembers(h) ==
  LET c == http[h] IN
  c.known <= Len(writes) /\ c.readAt <= Len(writes) /\ c.viewedAt <= Len(writes)

\* The row was on the step of the URL when the handler compared them.
Compared(h) ==
  LET c == http[h] IN
  c.stage = "transit" /\ c.route = "admin" =>
    \/ instances[c.id].step = c.step
    \/ WrittenIn(writes, c.id, c.known, Len(writes))

MovesFromNamed(h) ==
  LET c == http[h]  f == frame[Transit(h)] IN
  f \in TransitionFrame /\ c.route = "admin" =>
    f.from.step = c.step \/ WrittenIn(writes, c.id, c.known, c.readAt)

AdminInv == \A h \in Clients : Remembers(h) /\ Compared(h) /\ MovesFromNamed(h)

LEMMA BackgroundAdmin ==
  ASSUME StagesInv, IInv, IInv', Ages, NEW h \in Clients, Background(h),
         Remembers(h), Compared(h), MovesFromNamed(h)
  PROVE  Remembers(h)' /\ Compared(h)' /\ MovesFromNamed(h)'
  <1> DEFINE c == http[h]
             n == http'[h]
             q == Transit(h)
  <1>1. c \in ClientState /\ StageInv(h)
    BY DEF StagesInv, TablesTyped
  <1>2. /\ n.known = c.known /\ n.readAt = c.readAt /\ n.viewedAt = c.viewedAt /\ n.id = c.id
        /\ n.route = c.route /\ n.step = c.step
        /\ n.stage = "transit" => c.stage = "transit"
        /\ c.known \in Nat /\ c.readAt \in Nat /\ c.viewedAt \in Nat
    BY <1>1 DEF Background, ClientState
  <1>3. Remembers(h)'
    BY <1>2, SinceThen DEF Remembers
  <1>4. Compared(h)'
    <2> SUFFICES ASSUME n.stage = "transit", n.route = "admin"
                 PROVE  \/ instances'[n.id].step = n.step
                        \/ WrittenIn(writes', n.id, n.known, Len(writes'))
      BY DEF Compared
    <2>1. c.id \in DOMAIN instances
      BY <1>1, <1>2 DEF StageInv
    <2>2. \/ instances[c.id].step = c.step
          \/ WrittenIn(writes, c.id, c.known, Len(writes))
      BY <1>2 DEF Compared
    <2>3. \/ instances'[c.id] = instances[c.id]
          \/ WrittenIn(writes', c.id, c.known, Len(writes'))
      BY <1>2, <2>1, SinceThen DEF Remembers
    <2>4. WrittenIn(writes, c.id, c.known, Len(writes))
          => WrittenIn(writes', c.id, c.known, Len(writes'))
      BY <1>2, SinceThen
    <2> QED
      BY <1>2, <2>2, <2>3, <2>4
  <1>5. MovesFromNamed(h)'
    <2> SUFFICES ASSUME frame'[q] \in TransitionFrame, n.route = "admin"
                 PROVE  frame'[q].from.step = n.step \/ WrittenIn(writes', n.id, n.known, n.readAt)
      BY DEF MovesFromNamed
    <2>1. frame[q] \in TransitionFrame /\ frame'[q].from = frame[q].from
      BY DEF Background, GoesOn
    <2>2. frame[q].from.step = c.step \/ WrittenIn(writes, c.id, c.known, c.readAt)
      BY <1>2, <2>1 DEF MovesFromNamed
    <2>3. WrittenIn(writes, c.id, c.known, c.readAt) => WrittenIn(writes', c.id, c.known, c.readAt)
      BY <1>2, SinceThen DEF Remembers
    <2> QED
      BY <1>2, <2>1, <2>2, <2>3
  <1> QED
    BY <1>3, <1>4, <1>5

LEMMA OwnAdmin ==
  ASSUME StagesInv, EInv, IInv', Ages, NEW h \in Clients, Own(h), Remembers(h), Compared(h),
         MovesFromNamed(h)
  PROVE  Remembers(h)' /\ Compared(h)' /\ MovesFromNamed(h)'
  <1> DEFINE c == http[h]
             n == http'[h]
             q == Transit(h)
  <1>1. /\ TablesTyped /\ TypeOK /\ TypeOK' /\ c \in ClientState /\ StageInv(h) /\ q \in Requests
        /\ Len(writes) \in Nat /\ Len(writes') \in Nat /\ Len(writes) <= Len(writes')
        /\ c.known \in Nat /\ c.readAt \in Nat /\ c.viewedAt \in Nat
    BY CallsAreRequests, SinceThen DEF StagesInv, TablesTyped, EInv, IInv, ClientState
  <1>2. CASE /\ c.stage \in {"idle", "viewed"}
             /\ Refuse(h) \/ View(h) \/ BeginCreateStep(h) \/ BeginTransitStep(h)
    <2>1. UNCHANGED <<instances, pc, frame, writes>>
      BY <1>2 DEF Refuse, View, BeginCreateStep, BeginTransitStep, vars
    <2>2. pc[q] = "idle"
      BY <1>1, <1>2 DEF StageInv, BeforeTransit
    <2>3. MovesFromNamed(h)'
      BY <1>1, <2>1, <2>2, IdleHoldsNothing DEF MovesFromNamed
    <2>4. CASE \E status : Refused(h, status)
      <3>1. n.known = c.known /\ n.readAt = c.readAt /\ n.viewedAt = c.viewedAt /\ n.stage = "replied"
        BY <1>1, <2>4 DEF Refused, ClientState
      <3> QED
        BY <1>1, <2>1, <2>3, <3>1 DEF Remembers, Compared
    <2>5. CASE \E t, key, i : Views(h, key, t, i)
      <3>1. /\ n.known = c.known /\ n.readAt = c.readAt /\ n.viewedAt = Len(writes)
            /\ n.stage = "viewed"
        BY <1>1, <2>5 DEF Views, ClientState
      <3> QED
        BY <1>1, <2>1, <2>3, <3>1 DEF Remembers, Compared
    <2>6. CASE \E t, key : Serves(h, key, t)
      <3>1. /\ n.known = Len(writes) /\ n.readAt = c.readAt /\ n.viewedAt = c.viewedAt
            /\ n.route = "user"
        BY <1>1, <2>6 DEF Serves, FindsInstance, FindsNone, Called, ClientState
      <3> QED
        BY <1>1, <2>1, <2>3, <3>1 DEF Remembers, Compared
    <2>7. CASE \E i, s : NamesStep(h, i, s)
      <3>1. /\ n.known = Len(writes) /\ n.readAt = c.readAt /\ n.viewedAt = c.viewedAt
            /\ n.step = instances[n.id].step
        BY <1>1, <2>7 DEF NamesStep, ClientState
      <3> QED
        BY <1>1, <2>1, <2>3, <3>1 DEF Remembers, Compared
    <2> QED
      BY <1>1, <1>2, <2>4, <2>5, <2>6, <2>7, RefuseIs, ViewIs, BeginCreateStepIs, BeginTransitStepIs
  <1>3. CASE CreateForUser(h)
    <2>1. /\ pc[q] = "idle" /\ c.route = "user" /\ frame' = frame
      BY <1>1, <1>3 DEF StageInv, BeforeTransit, CreateForUser, CreateInstanceOf
    <2>2. MovesFromNamed(h)'
      BY <1>1, <2>1, IdleHoldsNothing DEF MovesFromNamed
    <2>3. /\ n.known = c.known /\ n.readAt = c.readAt /\ n.viewedAt = c.viewedAt
          /\ n.route = "user"
      <3>1. CASE Refused(h, 500)
        BY <1>1, <2>1, <3>1 DEF Refused, ClientState
      <3>2. CASE GoesOnWith(h, Len(instances'))
        BY <1>1, <2>1, <3>2 DEF GoesOnWith, ClientState
      <3> QED
        BY <1>1, <1>3, <3>1, <3>2, CreateForUserIs
    <2> QED
      BY <1>1, <2>2, <2>3 DEF Remembers, Compared
  <1>4. CASE TransitInstance(h)
    <2>1. PICK a \in ActionNames :
            /\ Awaits(h, a)
            /\ BeginTransitionOf(q, c.id, a) \/ BeginWithNoInstance(q)
      BY <1>1, <1>4, TransitInstanceIs
    <2>2. UNCHANGED writes /\ c.stage = "transit"
      BY <1>4, <2>1 DEF BeginTransitionOf, BeginWithNoInstance, TransitInstance
    <2>3. /\ n.known = c.known /\ n.readAt = Len(writes) /\ n.viewedAt = c.viewedAt
          /\ n.stage = "awaiting" /\ n.id = c.id /\ n.step = c.step /\ n.route = c.route
      BY <1>1, <2>1 DEF Awaits, ClientState
    <2>4. frame'[q] = frame[q] \/ frame'[q].from = instances[c.id]
      <3>1. CASE UNCHANGED frame
        BY <3>1
      <3>2. CASE \E step, act : frame' = [frame EXCEPT ![q] =
                 [op |-> "transition", id |-> c.id, from |-> instances[c.id], action |-> a,
                  stepName |-> step.name, act |-> act, input |-> "json", validated |-> FALSE]]
        BY <1>1, <3>2 DEF TypeOK
      <3> QED
        BY <2>1, <3>1, <3>2 DEF BeginTransitionOf, BeginWithNoInstance
    <2>5. frame[q] \notin TransitionFrame
      BY <1>1, <2>2, IdleHoldsNothing DEF StageInv, BeforeTransit
    <2>6. MovesFromNamed(h)'
      BY <2>2, <2>3, <2>4, <2>5 DEF MovesFromNamed, Compared
    <2> QED
      BY <1>1, <2>2, <2>3, <2>6 DEF Remembers, Compared
  <1>5. CASE Answer(h)
    <2>1. UNCHANGED <<writes, frame>> /\ c.stage = "awaiting" /\ c.id \in DOMAIN instances
      BY <1>1, <1>5 DEF Answer, vars, StageInv
    <2>2. Refused(h, 400) \/ Refused(h, 500) \/ Shows(h)
      BY <1>1, <1>5, <2>1, AnswerIs
    <2>3. /\ n.known = c.known /\ n.readAt = c.readAt /\ n.viewedAt = c.viewedAt
          /\ n.stage = "replied" /\ n.id = c.id /\ n.step = c.step /\ n.route = c.route
      <3>1. CASE \E status : Refused(h, status)
        BY <1>1, <3>1 DEF Refused, ClientState
      <3>2. CASE Shows(h)
        BY <1>1, <3>2 DEF Shows, ClientState
      <3> QED
        BY <2>2, <3>1, <3>2
    <2> QED
      BY <2>1, <2>3 DEF Remembers, Compared, MovesFromNamed
  <1> QED
    BY <1>2, <1>3, <1>4, <1>5 DEF Own, Refuse, View, BeginCreateStep, BeginTransitStep

LEMMA HandlersCompare == HttpSpec => []AdminInv
  <1>1. HttpInit => AdminInv
    <2> SUFFICES ASSUME HttpInit, NEW h \in Clients
                 PROVE  Remembers(h) /\ Compared(h) /\ MovesFromNamed(h)
      BY DEF AdminInv
    <2>1. http[h] = NewClient /\ frame[Transit(h)] = NoFrame /\ writes = <<>>
      BY CallsAreRequests DEF HttpInit, Init
    <2> QED
      BY <2>1 DEF Remembers, Compared, MovesFromNamed, NewClient, NoFrame, TransitionFrame
  <1>2. StagesInv /\ ServiceInv /\ AdminInv /\ [HttpNext]_httpVars => AdminInv'
    <2> SUFFICES ASSUME StagesInv, ServiceInv, AdminInv, [HttpNext]_httpVars, NEW h \in Clients
                 PROVE  Remembers(h)' /\ Compared(h)' /\ MovesFromNamed(h)'
      BY DEF AdminInv
    <2>1. EInv /\ IInv /\ IInv' /\ Ages
      BY HttpNextServiceInv DEF ServiceInv, EInv
    <2> QED
      BY <2>1, EachClient, BackgroundAdmin, OwnAdmin DEF AdminInv
  <1> QED
    BY <1>1, <1>2, HandlersKeepStep, PTL DEF HttpSpec

\* The admin route moves an instance from a step other than the one in its URL only
\* if the row was written between the two reads (handlers.go:347).
THEOREM AdminsMoveFromTheNamedStep == HttpSpec => []AdminMovesFromTheNamedStep
  <1>1. ServiceInv /\ AdminInv => AdminMovesFromTheNamedStep
    <2> SUFFICES ASSUME ServiceInv, AdminInv, NEW k \in DOMAIN transitions, NEW h \in Clients,
                        transitions[k].req = Transit(h), http[h].route = "admin"
                 PROVE  \/ frame[Transit(h)].from.step = http[h].step
                        \/ \E j \in http[h].known + 1 .. http[h].readAt :
                             writes[j].id = http[h].id
      BY DEF AdminMovesFromTheNamedStep
    <2>1. frame[Transit(h)] \in TransitionFrame
      BY DEF ServiceInv, RecordsTell
    <2>2. MovesFromNamed(h)
      BY DEF AdminInv
    <2> QED
      BY <2>1, <2>2 DEF MovesFromNamed, WrittenIn
  <1> QED
    BY <1>1, HandlersKeepStep, HandlersCompare, PTL

-----------------------------------------------------------------------------
(***************************************************************************)
(* The row a reply shows.                                                  *)
(***************************************************************************)
\* The row is what the client's own move made of the instance, or a later write.
SeenIn(log, h, id, row) ==
  \E j, k \in DOMAIN log :
    /\ j <= k
    /\ log[j].req = Transit(h) /\ log[j].op = "transition"
    /\ log[k].id = id /\ log[k].row = row

ShowsNothingStale(h) ==
  /\ http[h].stage # "replied" => http[h].shown = {}
  /\ \A row \in http[h].shown : SeenIn(writes, h, http[h].id, row)

RepliesInv == \A h \in Clients : ShowsNothingStale(h)

LEMMA SeenLater ==
  ASSUME Ages, NEW h, NEW id, NEW row, SeenIn(writes, h, id, row)
  PROVE  SeenIn(writes', h, id, row)
  <1>1. PICK j \in DOMAIN writes, k \in DOMAIN writes :
          /\ j <= k
          /\ writes[j].req = Transit(h) /\ writes[j].op = "transition"
          /\ writes[k].id = id /\ writes[k].row = row
    BY DEF SeenIn
  <1>2. /\ j \in DOMAIN writes' /\ writes'[j] = writes[j]
        /\ k \in DOMAIN writes' /\ writes'[k] = writes[k]
    BY DEF Ages, Keeps
  <1> QED
    BY <1>1, <1>2 DEF SeenIn

\* A call that returned nil has written, and the row read after it is the latest.
LEMMA ReadAfterOwnMove ==
  ASSUME ServiceInv, NEW h \in Clients, StageInv(h), SameInstance(h),
         http[h].stage = "awaiting", pc[Transit(h)] = "returned"
  PROVE  SeenIn(writes, h, http[h].id, instances[http[h].id])
  <1> DEFINE q == Transit(h)
             id == http[h].id
  <1>1. /\ q \in Requests /\ frame[q] \in TransitionFrame /\ id \in DOMAIN instances
        /\ frame[q].id = id /\ frame[q].op = "transition"
    BY CallsAreRequests DEF StageInv, SameInstance, TransitionFrame
  <1>2. HasWritten(q)
    BY <1>1 DEF ServiceInv, EInv, CallInv
  <1>3. PICK j \in DOMAIN writes : writes[j] = MoveOf(q)
    BY <1>2 DEF HasWritten
  <1>4. writes[j].req = q /\ writes[j].op = "transition" /\ writes[j].id = id
    BY <1>1, <1>3 DEF MoveOf
  <1>5. PICK k \in DOMAIN writes :
          writes[k].id = id /\ writes[k].row = instances[id] /\ IsLatest(k)
    BY <1>1 DEF ServiceInv, RowsAreLatest
  <1>6. j <= k
    <2>1. ~(j > k)
      BY <1>4, <1>5 DEF IsLatest
    <2>2. j \in Nat /\ k \in Nat
      BY DEF ServiceInv, EInv, IInv, TypeOK
    <2> QED
      BY <2>1, <2>2
  <1> QED
    BY <1>4, <1>5, <1>6 DEF SeenIn

LEMMA OwnShows ==
  ASSUME StagesInv, ServiceInv, Ages, TypeOK', NEW h \in Clients, Own(h), SameInstance(h),
         ShowsNothingStale(h)
  PROVE  ShowsNothingStale(h)'
  <1> DEFINE c == http[h]
             n == http'[h]
  <1>1. /\ TablesTyped /\ StageInv(h) /\ c \in ClientState /\ TypeOK /\ IInv
    BY DEF StagesInv, TablesTyped, ServiceInv, EInv, IInv
  <1>2. c.stage # "replied" /\ c.shown = {}
    BY DEF Own, Refuse, View, BeginCreateStep, BeginTransitStep, CreateForUser,
       TransitInstance, Answer, ShowsNothingStale
  <1>3. ASSUME n.shown = {} PROVE ShowsNothingStale(h)'
    BY <1>3 DEF ShowsNothingStale
  <1>4. CASE \E status : Refused(h, status)
    <2>1. n.shown = {}
      BY <1>1, <1>2, <1>4 DEF Refused, ClientState
    <2> QED
      BY <1>3, <2>1
  <1>5. CASE \E t, key, i : Views(h, key, t, i)
    <2>1. n.shown = {}
      BY <1>1, <1>2, <1>5 DEF Views, ClientState
    <2> QED
      BY <1>3, <2>1
  <1>6. CASE \E t, key : Serves(h, key, t)
    <2>1. n.shown = {}
      BY <1>1, <1>2, <1>6 DEF Serves, FindsInstance, FindsNone, Called, ClientState
    <2> QED
      BY <1>3, <2>1
  <1>7. CASE \E i, s : NamesStep(h, i, s)
    <2>1. n.shown = {}
      BY <1>1, <1>2, <1>7 DEF NamesStep, ClientState
    <2> QED
      BY <1>3, <2>1
  <1>8. CASE GoesOnWith(h, Len(instances'))
    <2>1. n.shown = {}
      BY <1>1, <1>2, <1>8 DEF GoesOnWith, ClientState
    <2> QED
      BY <1>3, <2>1
  <1>9. CASE \E a : Awaits(h, a)
    <2>1. n.shown = {}
      BY <1>1, <1>2, <1>9 DEF Awaits, ClientState
    <2> QED
      BY <1>3, <2>1
  <1>10. CASE Answer(h) /\ pc[Transit(h)] = "returned" /\ Shows(h)
    <2>1. c.stage = "awaiting" /\ UNCHANGED writes
      BY <1>10 DEF Answer, vars
    <2>2. n.shown = {instances[c.id]} /\ n.id = c.id /\ n.stage = "replied"
      BY <1>1, <1>10 DEF Shows, ClientState
    <2>3. SeenIn(writes', h, c.id, instances[c.id])
      BY <1>1, <1>10, <2>1, ReadAfterOwnMove, SeenLater
    <2> QED
      BY <2>2, <2>3 DEF ShowsNothingStale
  <1>11. Answer(h) => c.id \in DOMAIN instances
    BY <1>1 DEF Answer, StageInv
  <1> QED
    BY <1>1, <1>4, <1>5, <1>6, <1>7, <1>8, <1>9, <1>10, <1>11, RefuseIs, ViewIs,
       BeginCreateStepIs, BeginTransitStepIs, CreateForUserIs, TransitInstanceIs, AnswerIs
       DEF Own

LEMMA BackgroundShows ==
  ASSUME StagesInv, Ages, NEW h \in Clients, Background(h), ShowsNothingStale(h)
  PROVE  ShowsNothingStale(h)'
  <1>1. http[h] \in ClientState
    BY DEF StagesInv, TablesTyped
  <1>2. /\ http'[h].id = http[h].id /\ http'[h].shown = http[h].shown
        /\ http[h].stage = "replied" => http'[h].stage = "replied"
    BY <1>1 DEF Background, ClientState
  <1>3. http'[h].stage # "replied" => http'[h].shown = {}
    BY <1>2 DEF ShowsNothingStale
  <1>4. ASSUME NEW row \in http'[h].shown
        PROVE  SeenIn(writes', h, http'[h].id, row)
    BY <1>2, SeenLater DEF ShowsNothingStale
  <1> QED
    BY <1>3, <1>4 DEF ShowsNothingStale

\* A reply of 200 shows the row as the client's own move left it, or as a later write
\* did: the second read is never older than the move (handlers.go:138).
THEOREM RepliesShowTheMove == HttpSpec => []RepliesShowTheOwnMoveOrLater
  <1>1. HttpInit => RepliesInv
    BY DEF HttpInit, RepliesInv, ShowsNothingStale, NewClient
  <1>2. StagesInv /\ ServiceInv /\ OwnersInv /\ RepliesInv /\ [HttpNext]_httpVars => RepliesInv'
    <2> SUFFICES ASSUME StagesInv, ServiceInv, OwnersInv, RepliesInv, [HttpNext]_httpVars,
                        NEW h \in Clients
                 PROVE  ShowsNothingStale(h)'
      BY DEF RepliesInv
    <2>1. IInv /\ Ages /\ TypeOK' /\ SameInstance(h) /\ ShowsNothingStale(h)
      BY HttpNextServiceInv DEF ServiceInv, EInv, IInv, OwnersInv, RepliesInv
    <2> QED
      BY <2>1, EachClient, BackgroundShows, OwnShows
  <1>3. RepliesInv => RepliesShowTheOwnMoveOrLater
    BY DEF RepliesInv, ShowsNothingStale, SeenIn, RepliesShowTheOwnMoveOrLater
  <1> QED
    BY <1>1, <1>2, <1>3, HandlersKeepStep, HandlersKnowOwners, PTL DEF HttpSpec

-----------------------------------------------------------------------------
(***************************************************************************)
(* Who makes a second instance.                                            *)
(***************************************************************************)
\* A lookup of someone who is logged in finds nothing only if there is nothing.
LEMMA NothingOwned ==
  ASSUME TypeOK, NEW u, NEW t, u # Anonymous, GetInstance(u, t) = {}
  PROVE  OwnedBy(u, t) = {}
  <1> SUFFICES ASSUME OwnedBy(u, t) # {}
               PROVE  FALSE
    OBVIOUS
  <1>1. OwnedBy(u, t) \subseteq Nat
    BY DEF OwnedBy, TypeOK
  <1>2. PICK i \in OwnedBy(u, t) :
          \A j \in OwnedBy(u, t) : ~ (<<j, i>> \in OpToRel(<, Nat))
    BY <1>1, NatLessThanWellFounded, WFMin
  <1>3. \A j \in OwnedBy(u, t) : i <= j
    <2>1. OpToRel(<, Nat) = {ss \in Nat \X Nat : ss[1] < ss[2]}
      BY DEF OpToRel
    <2> SUFFICES ASSUME NEW j \in OwnedBy(u, t), j < i
                 PROVE  FALSE
      BY <1>1
    <2>2. <<j, i>> \in {ss \in Nat \X Nat : ss[1] < ss[2]}
      BY <1>1
    <2> QED
      BY <1>2, <2>1, <2>2
  <1>4. i \in GetInstance(u, t)
    BY <1>3 DEF GetInstance
  <1> QED
    BY <1>4

\* A new entry of the log of writes is of a call that had not written.
LEMMA NewWriter ==
  ASSUME EInv, [Next]_vars, NEW k \in DOMAIN writes' \ DOMAIN writes
  PROVE  pc[writes'[k].req] \in BeforeTheWrite
  <1>1. writes \in Seq(Write)
    BY DEF EInv, IInv, TypeOK, Write
  <1>2. PICK r \in Requests : RequestStep(r)
    BY DEF Next, RegisterValidation, UnregisterValidation, Crash, vars
  <1>3. Silent \/ Writing(r) \/ Recording(r) \/ Offering(r)
    BY <1>2, RequestStepIsLocal DEF EInv
  <1>4. Writing(r)
    BY <1>3 DEF Silent, Recording, Offering
  <1>5. PICK w \in Write : writes' = Append(writes, w) /\ w.req = r
    BY <1>4 DEF Writing
  <1>6. writes'[k] = w
    BY <1>1, <1>5, AppendFacts
  <1> QED
    BY <1>4, <1>5, <1>6 DEF Writing

\* The instances that the handler of h makes are for its user, and none of that user's
\* was there when the lookup said so.
MadeFor(h) ==
  LET c == http[h] IN
  \A k \in DOMAIN writes : writes[k].op = "create" /\ writes[k].req = Create(h) =>
    /\ owner[writes[k].id] = c.user /\ writes[k].row.type = c.type
    /\ c.lookup \in {"absent", "failed"}

NoneBefore(log, owners, known, u, t) ==
  \A j \in DOMAIN log : j <= known /\ log[j].op = "create" =>
    ~(owners[log[j].id] = u /\ log[j].row.type = t)

LookedUp(h) ==
  LET c == http[h] IN
  /\ c.stage \in {"idle", "viewed"} => c.lookup = "none"
  /\ c.lookup = "absent" /\ c.user # Anonymous => NoneBefore(writes, owner, c.known, c.user, c.type)

RaceInv == \A h \in Clients : MadeFor(h) /\ LookedUp(h)

\* Whose the creations of the past were does not change.
LEMMA CreationsStay ==
  ASSUME StagesInv, IInv, Ages, OwnersStay
  PROVE  /\ \A j \in DOMAIN writes : /\ j \in DOMAIN writes' /\ writes'[j] = writes[j]
                                     /\ owner'[writes[j].id] = owner[writes[j].id]
         /\ \A known, u, t :
              known \in Nat /\ known <= Len(writes) /\ NoneBefore(writes, owner, known, u, t)
              => NoneBefore(writes', owner', known, u, t)
  <1>1. DOMAIN owner = DOMAIN instances
    BY DEF StagesInv, TablesTyped, IInv, TypeOK
  <1>2. \A j \in DOMAIN writes : writes[j].id \in DOMAIN owner
    BY <1>1 DEF IInv, HistoryInv
  <1>3. \A j \in DOMAIN writes : /\ j \in DOMAIN writes' /\ writes'[j] = writes[j]
                                 /\ owner'[writes[j].id] = owner[writes[j].id]
    BY <1>2 DEF Ages, Keeps, OwnersStay
  <1>4. /\ DOMAIN writes = 1 .. Len(writes) /\ Len(writes) \in Nat
    BY DEF IInv, TypeOK
  <1>5. ASSUME NEW known \in Nat, NEW u, NEW t, known <= Len(writes),
               NoneBefore(writes, owner, known, u, t),
               NEW j \in DOMAIN writes', j <= known, writes'[j].op = "create"
        PROVE  ~(owner'[writes'[j].id] = u /\ writes'[j].row.type = t)
    <2>1. Len(writes') \in Nat /\ DOMAIN writes' = 1 .. Len(writes')
      BY <1>3
    <2>2. j \in DOMAIN writes
      BY <1>4, <1>5, <2>1
    <2> QED
      BY <1>3, <1>5, <2>2 DEF NoneBefore
  <1> QED
    BY <1>3, <1>5 DEF NoneBefore

\* A lookup that finds nothing comes before every instance of that user and type.
LEMMA FoundNothing ==
  ASSUME IInv, NEW u, NEW t, u # Anonymous, GetInstance(u, t) = {}, NEW known
  PROVE  NoneBefore(writes, owner, known, u, t)
  <1> SUFFICES ASSUME NEW j \in DOMAIN writes, owner[writes[j].id] = u, writes[j].row.type = t
               PROVE  FALSE
    BY DEF NoneBefore
  <1>1. writes[j].id \in DOMAIN instances /\ instances[writes[j].id].type = t
    BY DEF IInv, HistoryInv
  <1>2. writes[j].id \in OwnedBy(u, t)
    BY <1>1 DEF OwnedBy
  <1> QED
    BY <1>2, NothingOwned DEF IInv

\* Only the handler of h adds writes of its first call.
LEMMA CreationsOfClient ==
  ASSUME StagesInv, EInv, IInv', [HttpNext]_httpVars, NEW h \in Clients, Background(h),
         NEW k \in DOMAIN writes' \ DOMAIN writes
  PROVE  writes'[k].req # Create(h)
  <1> SUFFICES ASSUME writes'[k].req = Create(h)
               PROVE  FALSE
    OBVIOUS
  <1> DEFINE p == Create(h)
  <1>1. p \in Requests /\ pc[p] \in {"idle"} \cup Ends
    BY CallsAreRequests DEF StagesInv, StageInv
  <1>2. pc[p] \in BeforeTheWrite
    BY HttpNextIsNext, NewWriter
  <1>3. pc[p] = "idle" /\ pc'[p] = "idle"
    BY <1>1, <1>2 DEF Ends, BeforeTheWrite, Background, GoesOn, Stages
  <1> QED
    BY <1>1, <1>3 DEF IInv, ProgressInv, BeforeTheWrite

LEMMA BackgroundRace ==
  ASSUME StagesInv, EInv, IInv', Ages, OwnersStay, [HttpNext]_httpVars,
         NEW h \in Clients, Background(h), Remembers(h), MadeFor(h), LookedUp(h)
  PROVE  MadeFor(h)' /\ LookedUp(h)'
  <1> DEFINE c == http[h]
             n == http'[h]
  <1>1. c \in ClientState /\ IInv
    BY DEF StagesInv, TablesTyped, EInv
  <1>2. /\ n.known = c.known /\ n.user = c.user /\ n.type = c.type /\ n.lookup = c.lookup
        /\ n.stage \in {"idle", "viewed"} => n.stage = c.stage
        /\ c.known \in Nat
    BY <1>1 DEF Background, ClientState
  <1>3. MadeFor(h)'
    <2> SUFFICES ASSUME NEW k \in DOMAIN writes', writes'[k].op = "create",
                        writes'[k].req = Create(h)
                 PROVE  /\ owner'[writes'[k].id] = n.user /\ writes'[k].row.type = n.type
                        /\ n.lookup \in {"absent", "failed"}
      BY DEF MadeFor
    <2>1. k \in DOMAIN writes
      BY CreationsOfClient
    <2> QED
      BY <1>1, <1>2, <2>1, CreationsStay DEF MadeFor
  <1>4. LookedUp(h)'
    BY <1>1, <1>2, CreationsStay DEF LookedUp, Remembers
  <1> QED
    BY <1>3, <1>4

LEMMA RoutesRace ==
  ASSUME StagesInv, EInv, NEW h \in Clients, LookedUp(h),
         Refuse(h) \/ View(h) \/ BeginCreateStep(h) \/ BeginTransitStep(h)
  PROVE  MadeFor(h)' /\ LookedUp(h)'
  <1> DEFINE c == http[h]
             n == http'[h]
  <1>1. /\ TablesTyped /\ StageInv(h) /\ c \in ClientState /\ TypeOK /\ IInv
        /\ c.stage \in {"idle", "viewed"} /\ UNCHANGED <<writes, owner>>
    BY DEF StagesInv, TablesTyped, EInv, IInv, Refuse, View, BeginCreateStep,
           BeginTransitStep, vars
  <1>2. pc[Create(h)] = "idle" /\ Create(h) \in Requests /\ c.lookup = "none"
    BY <1>1, CallsAreRequests DEF StageInv, BeforeTransit, LookedUp
  <1>3. \A k \in DOMAIN writes : writes[k].req # Create(h)
    BY <1>1, <1>2 DEF IInv, ProgressInv, BeforeTheWrite
  <1>4. MadeFor(h)'
    BY <1>1, <1>3 DEF MadeFor
  <1>5. ASSUME n.lookup = "none" PROVE LookedUp(h)'
    BY <1>5 DEF LookedUp
  <1>6. CASE \E status : Refused(h, status)
    <2>1. n.lookup = "none"
      BY <1>1, <1>2, <1>6 DEF Refused, ClientState
    <2> QED
      BY <1>4, <1>5, <2>1
  <1>7. CASE \E t, key, i : Views(h, key, t, i)
    <2>1. n.lookup = "none"
      BY <1>1, <1>2, <1>7 DEF Views, ClientState
    <2> QED
      BY <1>4, <1>5, <2>1
  <1>8. CASE \E i, s : NamesStep(h, i, s)
    <2>1. n.lookup = "none"
      BY <1>1, <1>2, <1>8 DEF NamesStep, ClientState
    <2> QED
      BY <1>4, <1>5, <2>1
  <1>9. ASSUME NEW t, NEW key, Serves(h, key, t) PROVE LookedUp(h)'
    <2>1. CASE FindsInstance(h, key, t)
      <3>1. n.stage = "transit" /\ n.lookup = "found"
        BY <1>1, <2>1 DEF FindsInstance, Called, ClientState
      <3> QED
        BY <3>1 DEF LookedUp
    <2>2. CASE FindsNone(h, key, t)
      <3>1. PICK lookup \in {"absent", "failed"} :
              /\ lookup = "absent" => GetInstance(key, t) = {}
              /\ n = [Called(h, key, t) EXCEPT !.stage = "create", !.lookup = lookup]
        BY <2>2 DEF FindsNone
      <3>2. n.stage = "create" /\ n.lookup = lookup /\ n.user = key /\ n.type = t
        BY <1>1, <3>1 DEF Called, ClientState
      <3>3. ASSUME lookup = "absent", key # Anonymous
            PROVE  NoneBefore(writes, owner, n.known, key, t)
        BY <1>1, <3>1, <3>3, FoundNothing
      <3> QED
        BY <1>1, <3>2, <3>3 DEF LookedUp, NoneBefore
    <2> QED
      BY <1>9, <2>1, <2>2 DEF Serves
  <1> QED
    BY <1>1, <1>4, <1>6, <1>7, <1>8, <1>9, RefuseIs, ViewIs, BeginCreateStepIs, BeginTransitStepIs
       DEF LookedUp

LEMMA CallsRace ==
  ASSUME StagesInv, EInv, TypeOK', Ages, OwnersStay, NEW h \in Clients,
         CreateForUser(h) \/ TransitInstance(h) \/ Answer(h),
         Remembers(h), MadeFor(h), LookedUp(h)
  PROVE  MadeFor(h)' /\ LookedUp(h)'
  <1> DEFINE c == http[h]
             n == http'[h]
  <1>1. /\ TablesTyped /\ StageInv(h) /\ c \in ClientState /\ TypeOK /\ IInv
    BY DEF StagesInv, TablesTyped, EInv, IInv
  <1>2. /\ n.known = c.known /\ n.user = c.user /\ n.type = c.type /\ n.lookup = c.lookup
        /\ n.stage \notin {"idle", "viewed"} /\ c.known \in Nat
    <2>1. CASE \E status : Refused(h, status)
      BY <1>1, <2>1 DEF Refused, ClientState
    <2>2. CASE GoesOnWith(h, Len(instances'))
      BY <1>1, <2>2 DEF GoesOnWith, ClientState
    <2>3. CASE \E a : Awaits(h, a)
      BY <1>1, <2>3 DEF Awaits, ClientState
    <2>4. CASE Shows(h)
      BY <1>1, <2>4 DEF Shows, ClientState
    <2>5. Answer(h) => c.id \in DOMAIN instances
      BY <1>1 DEF Answer, StageInv
    <2> QED
      BY <1>1, <2>1, <2>2, <2>3, <2>4, <2>5, CreateForUserIs, TransitInstanceIs, AnswerIs
  <1>3. LookedUp(h)'
    BY <1>1, <1>2, CreationsStay DEF LookedUp, Remembers
  <1>4. CASE UNCHANGED <<writes, owner>>
    BY <1>2, <1>3, <1>4 DEF MadeFor
  <1>5. CASE CreateForUser(h)
    <2> DEFINE w == [op |-> "create", req |-> Create(h), id |-> Len(instances) + 1,
                     row |-> InitialRow(c.type)]
    <2>1. c.user # NoUser /\ c.lookup \in {"absent", "failed"}
      BY <1>1, <1>5 DEF StageInv, CreateForUser
    <2>2. CASE /\ c.type \in DOMAIN Definitions
               /\ owner' = Append(owner, c.user)
               /\ instances' = Append(instances, InitialRow(c.type))
               /\ writes' = Append(writes, w)
      <3>1. /\ owner \in Seq(Users \cup {Anonymous}) /\ Len(owner) = Len(instances)
            /\ writes \in Seq(Write) /\ c.user \in Users \cup {Anonymous}
        BY <1>1, <2>1 DEF TablesTyped, TypeOK, Write, ClientState, UserIDs
      <3>2. owner'[Len(instances) + 1] = c.user
        BY <2>2, <3>1, AppendFacts
      <3>3. w.id = Len(instances) + 1 /\ w.row.type = c.type
        BY DEF InitialRow
      <3> HIDE DEF w
      <3>4. \A k \in DOMAIN writes' :
              writes'[k] = w \/ (k \in DOMAIN writes /\ writes'[k] = writes[k])
        BY <2>2, <3>1
      <3> SUFFICES ASSUME NEW k \in DOMAIN writes', writes'[k].op = "create",
                          writes'[k].req = Create(h)
                   PROVE  /\ owner'[writes'[k].id] = n.user /\ writes'[k].row.type = n.type
                          /\ n.lookup \in {"absent", "failed"}
        BY <1>3 DEF MadeFor
      <3>5. CASE writes'[k] = w
        BY <1>2, <2>1, <3>2, <3>3, <3>5
      <3>6. CASE k \in DOMAIN writes /\ writes'[k] = writes[k]
        BY <1>1, <1>2, <3>6, CreationsStay DEF MadeFor
      <3> QED
        BY <3>4, <3>5, <3>6
    <2> QED
      BY <1>1, <1>4, <1>5, <2>1, <2>2, CreateForUserTables
  <1>6. TransitInstance(h) \/ Answer(h) => UNCHANGED <<writes, owner>>
    BY DEF TransitInstance, BeginTransitionOf, BeginWithNoInstance, Answer, vars
  <1> QED
    BY <1>4, <1>5, <1>6

LEMMA HandlersRace == HttpSpec => []RaceInv
  <1>1. HttpInit => RaceInv
    BY DEF HttpInit, Init, RaceInv, MadeFor, LookedUp, NewClient
  <1>2. StagesInv /\ ServiceInv /\ AdminInv /\ RaceInv /\ [HttpNext]_httpVars => RaceInv'
    <2> SUFFICES ASSUME StagesInv, ServiceInv, AdminInv, RaceInv, [HttpNext]_httpVars,
                        NEW h \in Clients
                 PROVE  MadeFor(h)' /\ LookedUp(h)'
      BY DEF RaceInv
    <2>1. EInv /\ IInv /\ IInv' /\ Ages /\ TypeOK'
      BY HttpNextServiceInv DEF ServiceInv, EInv, IInv
    <2>2. OwnersStay
      BY <2>1, OwnersTyped
    <2>3. Remembers(h) /\ MadeFor(h) /\ LookedUp(h)
      BY DEF AdminInv, RaceInv
    <2> QED
      BY <2>1, <2>2, <2>3, EachClient, BackgroundRace, RoutesRace, CallsRace DEF Own
  <1> QED
    BY <1>1, <1>2, HandlersKeepStep, HandlersCompare, PTL DEF HttpSpec

\* A second instance of one user and type is made only by a handler whose lookup
\* failed, or came before the first was written, or after it was finished: no other
\* interleaving makes one (handlers.go:126).
THEOREM SecondInstancesAreRaces == HttpSpec => []SecondInstanceNeedsARace
  <1>1. StagesInv /\ ServiceInv /\ RaceInv => SecondInstanceNeedsARace
    <2> SUFFICES ASSUME StagesInv, ServiceInv, RaceInv,
                        NEW j \in DOMAIN writes, NEW k \in DOMAIN writes, NEW h \in Clients,
                        writes[j].op = "create", writes[k].op = "create", j < k,
                        writes[k].req = Create(h),
                        owner[writes[j].id] = owner[writes[k].id],
                        writes[j].row.type = writes[k].row.type,
                        http[h].user # Anonymous, http[h].lookup # "failed",
                        ~(j > http[h].known)
                 PROVE  FALSE
      BY DEF SecondInstanceNeedsARace
    <2>1. /\ owner[writes[k].id] = http[h].user /\ writes[k].row.type = http[h].type
          /\ http[h].lookup = "absent"
      BY DEF RaceInv, MadeFor
    <2>2. NoneBefore(writes, owner, http[h].known, http[h].user, http[h].type)
      BY <2>1 DEF RaceInv, LookedUp
    <2>3. j <= http[h].known
      <3>1. http[h] \in ClientState
        BY DEF StagesInv, TablesTyped
      <3>2. http[h].known \in Nat /\ j \in Nat
        BY <3>1 DEF ClientState, ServiceInv, EInv, IInv, TypeOK
      <3> QED
        BY <3>2
    <2> QED
      BY <2>1, <2>2, <2>3 DEF NoneBefore
  <1> QED
    BY <1>1, HandlersKeepStep, HandlersRace, PTL

-----------------------------------------------------------------------------
(***************************************************************************)
(* What GetStepHandler offers.                                             *)
(***************************************************************************)
\* An action that a step lists is one the lookup finds.
LEMMA ListedIsFound ==
  ASSUME NEW row \in Row, NEW a \in Offers(row)
  PROVE  /\ GetStep(Definitions[row.type], row.step) # {}
         /\ GetTransitionAction(Definitions[row.type], row.step, a) # {}
  <1> DEFINE def == Definitions[row.type]
  <1>1. PICK step \in GetStep(def, row.step) :
          a \in {step.actions[i].name : i \in DOMAIN step.actions}
    BY DEF Offers
  <1> DEFINE actions == step.actions
             named == {i \in DOMAIN actions : actions[i].name = a}
  <1>2. row.step \in DOMAIN def.steps /\ step = def.steps[row.step]
    BY <1>1 DEF GetStep
  <1>3. row.type \in DOMAIN Definitions
    BY DEF Row
  <1>4. Len(actions) \in Nat /\ DOMAIN actions = 1 .. Len(actions)
    BY <1>2, <1>3, DefinitionsAssumption DEF DefinitionOK
  <1>5. named # {} /\ named \subseteq Nat
    BY <1>1, <1>4
  <1> HIDE DEF named
  <1>6. PICK k \in named : \A j \in named : ~ (<<j, k>> \in OpToRel(<, Nat))
    BY <1>5, NatLessThanWellFounded, WFMin
  <1>7. \A j \in named : ~(j < k)
    <2>1. OpToRel(<, Nat) = {ss \in Nat \X Nat : ss[1] < ss[2]}
      BY DEF OpToRel
    <2> SUFFICES ASSUME NEW j \in named, j < k
                 PROVE  FALSE
      OBVIOUS
    <2>2. <<j, k>> \in {ss \in Nat \X Nat : ss[1] < ss[2]}
      BY <1>5
    <2> QED
      BY <1>6, <2>1, <2>2
  <1>8. actions[k] \in FirstNamed(actions, a)
    <2>1. k \in DOMAIN actions /\ actions[k].name = a
      BY <1>6 DEF named
    <2>2. \A j \in 1 .. k - 1 : actions[j].name # a
      <3> SUFFICES ASSUME NEW j \in 1 .. k - 1, actions[j].name = a
                   PROVE  FALSE
        OBVIOUS
      <3>1. j \in DOMAIN actions /\ j < k
        BY <1>4, <2>1
      <3> QED
        BY <1>7, <3>1 DEF named
    <2> QED
      BY <2>1, <2>2 DEF FirstNamed
  <1> QED
    BY <1>1, <1>8 DEF GetTransitionAction

\* The rows that GetInstance returns, of any state of the tables.
FirstOwned(rows, owners, u, t) ==
  {i \in DOMAIN rows :
     /\ u # Anonymous /\ owners[i] = u /\ rows[i].type = t
     /\ \A j \in DOMAIN rows : owners[j] = u /\ rows[j].type = t => i <= j}

LEMMA GetInstanceIs ==
  ASSUME NEW u, NEW t
  PROVE  GetInstance(u, t) = FirstOwned(instances, owner, u, t)
  BY DEF GetInstance, OwnedBy, FirstOwned

\* The instance a lookup of that user and type returns, now and ever after.
LEMMA LookupStays ==
  ASSUME StagesInv, IInv, IInv', Ages, OwnersStay, NEW u, NEW t,
         NEW i \in FirstOwned(instances, owner, u, t)
  PROVE  i \in FirstOwned(instances', owner', u, t)
  <1>1. /\ i \in DOMAIN instances /\ owner[i] = u /\ instances[i].type = t /\ u # Anonymous
        /\ \A j \in DOMAIN instances : owner[j] = u /\ instances[j].type = t => i <= j
    BY DEF FirstOwned
  <1>2. DOMAIN owner = DOMAIN instances
    BY DEF StagesInv, TablesTyped, IInv, TypeOK
  <1>3. \A j \in DOMAIN instances : /\ j \in DOMAIN instances' /\ owner'[j] = owner[j]
                                    /\ instances'[j].type = instances[j].type
    BY <1>2 DEF Ages, OwnersStay
  <1>4. \A j \in DOMAIN instances' : j \in DOMAIN instances \/ i <= j
    BY <1>1 DEF IInv, TypeOK
  <1> QED
    BY <1>1, <1>3, <1>4 DEF FirstOwned

\* Row i offers what the GET listed, or was written since.
StillOffered(offers, viewedAt, i, rows, log) ==
  offers = Offers(rows[i]) \/ WrittenIn(log, i, viewedAt, Len(log))

Listed(h) ==
  LET c == http[h] IN
  /\ c.stage = "idle" => c.offers = {}
  /\ c.stage = "viewed" => \E i \in FirstOwned(instances, owner, c.user, c.type) :
       StillOffered(c.offers, c.viewedAt, i, instances, writes)
  /\ c.stage = "transit" /\ c.offers # {} =>
       StillOffered(c.offers, c.viewedAt, c.id, instances, writes)

NotFound == {"step not found", "action not found"}

NotFoundIfWritten(h) ==
  LET c == http[h] IN
  err[Transit(h)] \in NotFound /\ c.action \in c.offers =>
    WrittenIn(writes, c.id, c.viewedAt, c.readAt)

OffersInv == \A h \in Clients : Listed(h) /\ NotFoundIfWritten(h)

LEMMA OffersAge ==
  ASSUME IInv, IInv', Ages, NEW offers, NEW viewedAt \in Nat, viewedAt <= Len(writes),
         NEW i \in DOMAIN instances, StillOffered(offers, viewedAt, i, instances, writes)
  PROVE  StillOffered(offers, viewedAt, i, instances', writes')
  BY SinceThen DEF StillOffered

LEMMA BackgroundOffers ==
  ASSUME StagesInv, IInv, IInv', Ages, OwnersStay, NEW h \in Clients, Background(h),
         Remembers(h), Listed(h), NotFoundIfWritten(h)
  PROVE  Listed(h)' /\ NotFoundIfWritten(h)'
  <1> DEFINE c == http[h]
             n == http'[h]
             q == Transit(h)
  <1>1. c \in ClientState /\ StageInv(h)
    BY DEF StagesInv, TablesTyped
  <1>2. /\ n.user = c.user /\ n.type = c.type /\ n.id = c.id /\ n.offers = c.offers
        /\ n.viewedAt = c.viewedAt /\ n.readAt = c.readAt /\ n.action = c.action
        /\ n.stage \in {"idle", "viewed", "transit"} => n.stage = c.stage
        /\ c.viewedAt \in Nat /\ c.readAt \in Nat
        /\ c.viewedAt <= Len(writes) /\ c.readAt <= Len(writes)
    BY <1>1 DEF Background, ClientState, Remembers
  <1>3. ASSUME n.stage = "viewed"
        PROVE  \E i \in FirstOwned(instances', owner', n.user, n.type) :
                 StillOffered(n.offers, n.viewedAt, i, instances', writes')
    <2>1. PICK i \in FirstOwned(instances, owner, c.user, c.type) :
            StillOffered(c.offers, c.viewedAt, i, instances, writes)
      BY <1>2, <1>3 DEF Listed
    <2>2. i \in DOMAIN instances
      BY DEF FirstOwned
    <2>3. StillOffered(c.offers, c.viewedAt, i, instances', writes')
      BY <1>2, <2>1, <2>2, OffersAge
    <2>4. i \in FirstOwned(instances', owner', c.user, c.type)
      BY LookupStays
    <2> QED
      BY <1>2, <2>3, <2>4
  <1>4. ASSUME n.stage = "transit", n.offers # {}
        PROVE  StillOffered(n.offers, n.viewedAt, n.id, instances', writes')
    <2>1. c.id \in DOMAIN instances /\ StillOffered(c.offers, c.viewedAt, c.id, instances, writes)
      BY <1>1, <1>2, <1>4 DEF StageInv, Listed
    <2> QED
      BY <1>2, <2>1, OffersAge
  <1>5. Listed(h)'
    BY <1>2, <1>3, <1>4 DEF Listed
  <1>6. NotFoundIfWritten(h)'
    <2> SUFFICES ASSUME err'[q] \in NotFound, n.action \in n.offers
                 PROVE  WrittenIn(writes', n.id, n.viewedAt, n.readAt)
      BY DEF NotFoundIfWritten
    <2>1. err[q] \in NotFound
      BY DEF Background, GoesOn, LaterErrors, WriteErrors, NotFound
    <2>2. WrittenIn(writes, c.id, c.viewedAt, c.readAt)
      BY <1>2, <2>1 DEF NotFoundIfWritten
    <2> QED
      BY <1>2, <2>2, SinceThen
  <1> QED
    BY <1>5, <1>6

LEMMA RoutesOffers ==
  ASSUME StagesInv, EInv, NEW h \in Clients, Listed(h),
         Refuse(h) \/ View(h) \/ BeginCreateStep(h) \/ BeginTransitStep(h)
  PROVE  Listed(h)' /\ NotFoundIfWritten(h)'
  <1> DEFINE c == http[h]
             n == http'[h]
             q == Transit(h)
  <1>1. /\ TablesTyped /\ StageInv(h) /\ c \in ClientState /\ TypeOK /\ IInv
        /\ c.stage \in {"idle", "viewed"} /\ UNCHANGED <<instances, writes, owner, err>>
    BY DEF StagesInv, TablesTyped, EInv, IInv, Refuse, View, BeginCreateStep,
           BeginTransitStep, vars
  <1>2. pc[q] = "idle" /\ q \in Requests
    BY <1>1, CallsAreRequests DEF StageInv, BeforeTransit
  <1>3. NotFoundIfWritten(h)'
    <2>1. err[q] = "nil"
      BY <1>1, <1>2 DEF IInv, ProgressInv
    <2> QED
      BY <1>1, <2>1 DEF NotFoundIfWritten, NotFound
  <1>4. c.stage = "idle" => c.offers = {}
    BY DEF Listed
  <1>5. CASE \E status : Refused(h, status)
    <2>1. n.stage = "replied"
      BY <1>1, <1>5 DEF Refused, ClientState
    <2> QED
      BY <1>3, <2>1 DEF Listed
  <1>6. ASSUME NEW t, NEW key, NEW i, Views(h, key, t, i) PROVE Listed(h)'
    <2>1. /\ n.stage = "viewed" /\ n.user = key /\ n.type = t
          /\ n.offers = Offers(instances[i])
      BY <1>1, <1>6 DEF Views, ClientState
    <2>2. i \in FirstOwned(instances, owner, key, t)
      BY <1>6, GetInstanceIs DEF Views
    <2> QED
      BY <1>1, <2>1, <2>2 DEF Listed, StillOffered
  <1>7. ASSUME NEW i, NEW s, NamesStep(h, i, s), BeginTransitStep(h) PROVE Listed(h)'
    <2>1. n.stage = "transit" /\ n.offers = {}
      BY <1>1, <1>4, <1>7 DEF NamesStep, ClientState, BeginTransitStep
    <2> QED
      BY <2>1 DEF Listed
  <1>8. ASSUME NEW t, NEW key, Serves(h, key, t) PROVE Listed(h)'
    <2>1. CASE FindsInstance(h, key, t)
      <3>1. PICK i \in GetInstance(key, t) :
              n = [Called(h, key, t) EXCEPT !.stage = "transit", !.id = i, !.lookup = "found"]
        BY <2>1 DEF FindsInstance
      <3>2. n.stage = "transit" /\ n.id = i /\ n.offers = c.offers /\ n.viewedAt = c.viewedAt
        BY <1>1, <3>1 DEF Called, ClientState
      <3>3. i \in FirstOwned(instances, owner, key, t)
        BY GetInstanceIs
      <3>4. CASE c.stage = "viewed"
        <4>1. PICK j \in FirstOwned(instances, owner, key, t) :
                StillOffered(c.offers, c.viewedAt, j, instances, writes)
          BY <1>8, <3>4 DEF Serves, Listed
        <4>2. i <= j /\ j <= i /\ i \in Nat /\ j \in Nat
          BY <1>1, <3>3 DEF FirstOwned, TypeOK
        <4>3. i = j
          BY <4>2
        <4> QED
          BY <1>1, <3>2, <4>1, <4>3 DEF Listed, StillOffered
      <3>5. CASE c.stage = "idle"
        BY <1>4, <3>2, <3>5 DEF Listed
      <3> QED
        BY <1>1, <3>4, <3>5
    <2>2. CASE FindsNone(h, key, t)
      <3>1. n.stage = "create"
        BY <1>1, <2>2 DEF FindsNone, Called, ClientState
      <3> QED
        BY <3>1 DEF Listed
    <2> QED
      BY <1>8, <2>1, <2>2 DEF Serves
  <1> QED
    BY <1>1, <1>3, <1>5, <1>6, <1>7, <1>8, RefuseIs, ViewIs, BeginCreateStepIs, BeginTransitStepIs

LEMMA CreateForUserOffers ==
  ASSUME StagesInv, EInv, IInv', NEW h \in Clients, Remembers(h), CreateForUser(h)
  PROVE  Listed(h)' /\ NotFoundIfWritten(h)'
  <1> DEFINE c == http[h]
             n == http'[h]
             q == Transit(h)
  <1>1. /\ TablesTyped /\ StageInv(h) /\ c \in ClientState /\ TypeOK /\ TypeOK' /\ IInv
        /\ c.stage = "create"
    BY DEF StagesInv, TablesTyped, EInv, IInv, CreateForUser
  <1>2. NotFoundIfWritten(h)'
    <2>1. pc[q] = "idle" /\ q \in Requests /\ q # Create(h) /\ Create(h) \in Requests
      BY <1>1, CallsAreRequests DEF StageInv, BeforeTransit
    <2>2. err'[q] = err[q]
      BY <1>1, <2>1 DEF CreateForUser, CreateInstanceOf, Follow, Fail, GoTo, TypeOK
    <2>3. err[q] = "nil"
      BY <1>1, <2>1 DEF IInv, ProgressInv
    <2> QED
      BY <2>2, <2>3 DEF NotFoundIfWritten, NotFound
  <1>3. CASE Refused(h, 500)
    <2>1. n.stage = "replied"
      BY <1>1, <1>3 DEF Refused, ClientState
    <2> QED
      BY <1>2, <2>1 DEF Listed
  <1>4. CASE pc'[Create(h)] = "returned" /\ GoesOnWith(h, Len(instances'))
    <2> DEFINE w == [op |-> "create", req |-> Create(h), id |-> Len(instances) + 1,
                     row |-> InitialRow(c.type)]
    <2>1. n.stage = "transit" /\ n.id = Len(instances') /\ n.viewedAt = c.viewedAt
      BY <1>1, <1>4 DEF GoesOnWith, ClientState
    <2>2. writes' = Append(writes, w) /\ Len(instances') = Len(instances) + 1
      BY <1>1, <1>4, CreateForUserTables DEF StageInv
    <2>3. w.id = Len(instances')
      BY <2>2
    <2> HIDE DEF w
    <2>4. /\ writes \in Seq(Write) /\ c.viewedAt \in Nat /\ c.viewedAt <= Len(writes)
      BY <1>1 DEF TypeOK, Write, ClientState, Remembers
    <2>5. Len(writes') = Len(writes) + 1 /\ writes'[Len(writes) + 1] = w /\ Len(writes) \in Nat
      BY <2>2, <2>4
    <2>6. WrittenIn(writes', n.id, n.viewedAt, Len(writes'))
      BY <2>1, <2>3, <2>4, <2>5 DEF WrittenIn
    <2> QED
      BY <1>2, <2>1, <2>6 DEF Listed, StillOffered
  <1> QED
    BY <1>1, <1>3, <1>4, CreateForUserIs

LEMMA TransitInstanceOffers ==
  ASSUME StagesInv, EInv, NEW h \in Clients, Listed(h), TransitInstance(h)
  PROVE  Listed(h)' /\ NotFoundIfWritten(h)'
  <1> DEFINE c == http[h]
             n == http'[h]
             q == Transit(h)
             row == instances[c.id]
  <1>1. /\ TablesTyped /\ StageInv(h) /\ c \in ClientState /\ TypeOK /\ IInv
        /\ c.stage = "transit"
    BY DEF StagesInv, TablesTyped, EInv, IInv, TransitInstance
  <1>2. PICK a \in ActionNames :
          /\ Awaits(h, a)
          /\ BeginTransitionOf(q, c.id, a) \/ BeginWithNoInstance(q)
    BY <1>1, TransitInstanceIs
  <1>3. /\ n.stage = "awaiting" /\ n.id = c.id /\ n.offers = c.offers /\ n.action = a
        /\ n.viewedAt = c.viewedAt /\ n.readAt = Len(writes)
    BY <1>1, <1>2 DEF Awaits, ClientState
  <1>4. Listed(h)'
    BY <1>3 DEF Listed
  <1>5. NotFoundIfWritten(h)'
    <2> SUFFICES ASSUME err'[q] \in NotFound, a \in c.offers
                 PROVE  WrittenIn(writes', c.id, c.viewedAt, Len(writes))
      BY <1>3 DEF NotFoundIfWritten
    <2>1. /\ pc[q] = "idle" /\ q \in Requests /\ c.id \in DOMAIN instances
          /\ UNCHANGED writes
      BY <1>1, <1>2, CallsAreRequests
         DEF StageInv, BeforeTransit, BeginTransitionOf, BeginWithNoInstance
    <2>2. err[q] = "nil" /\ row \in Row
      BY <1>1, <2>1 DEF IInv, ProgressInv, TypeOK
    <2>3. \/ GetStep(Definitions[row.type], row.step) = {}
          \/ GetTransitionAction(Definitions[row.type], row.step, a) = {}
      <3>1. ~BeginWithNoInstance(q)
        BY <1>1, <2>1 DEF BeginWithNoInstance, Fail, NotFound, TypeOK
      <3>2. ~UNCHANGED err
        BY <2>2 DEF NotFound
      <3> QED
        BY <1>2, <3>1, <3>2 DEF BeginTransitionOf, GoTo
    <2>4. StillOffered(c.offers, c.viewedAt, c.id, instances, writes)
      BY <1>1 DEF Listed
    <2>5. c.offers # Offers(row)
      BY <2>2, <2>3, ListedIsFound
    <2> QED
      BY <2>1, <2>4, <2>5 DEF StillOffered
  <1> QED
    BY <1>4, <1>5

LEMMA AnswerOffers ==
  ASSUME StagesInv, TypeOK, NEW h \in Clients, NotFoundIfWritten(h), Answer(h)
  PROVE  Listed(h)' /\ NotFoundIfWritten(h)'
  <1> DEFINE c == http[h]
             n == http'[h]
  <1>1. /\ TablesTyped /\ c \in ClientState /\ c.id \in DOMAIN instances
        /\ UNCHANGED <<writes, err>>
    BY DEF StagesInv, TablesTyped, StageInv, Answer, vars
  <1>2. /\ n.stage = "replied" /\ n.id = c.id /\ n.offers = c.offers /\ n.action = c.action
        /\ n.viewedAt = c.viewedAt /\ n.readAt = c.readAt
    <2>1. CASE \E status : Refused(h, status)
      BY <1>1, <2>1 DEF Refused, ClientState
    <2>2. CASE Shows(h)
      BY <1>1, <2>2 DEF Shows, ClientState
    <2> QED
      BY <1>1, <2>1, <2>2, AnswerIs
  <1> QED
    BY <1>1, <1>2 DEF Listed, NotFoundIfWritten

\* A client that takes an action GetStepHandler listed for it is told that there is no
\* such action only if the row was written since, or an instance created instead of
\* found (handlers.go:60-88, service.go:173-182).
THEOREM OffersAreKept == HttpSpec => []OfferedActionsExist
  <1>1. HttpInit => OffersInv
    BY DEF HttpInit, Init, OffersInv, Listed, NotFoundIfWritten, NewClient
  <1>2. StagesInv /\ ServiceInv /\ AdminInv /\ OffersInv /\ [HttpNext]_httpVars => OffersInv'
    <2> SUFFICES ASSUME StagesInv, ServiceInv, AdminInv, OffersInv, [HttpNext]_httpVars,
                        NEW h \in Clients
                 PROVE  Listed(h)' /\ NotFoundIfWritten(h)'
      BY DEF OffersInv
    <2>1. EInv /\ IInv /\ IInv' /\ Ages /\ TypeOK
      BY HttpNextServiceInv DEF ServiceInv, EInv, IInv
    <2>2. OwnersStay
      BY <2>1, OwnersTyped
    <2>3. Remembers(h) /\ Listed(h) /\ NotFoundIfWritten(h)
      BY DEF AdminInv, OffersInv
    <2> QED
      BY <2>1, <2>2, <2>3, EachClient, BackgroundOffers, RoutesOffers, CreateForUserOffers,
         TransitInstanceOffers, AnswerOffers DEF Own
  <1>3. OffersInv => OfferedActionsExist
    BY DEF OffersInv, NotFoundIfWritten, NotFound, WrittenIn, OfferedActionsExist
  <1> QED
    BY <1>1, <1>2, <1>3, HandlersKeepStep, HandlersCompare, PTL DEF HttpSpec
==============================================================================
