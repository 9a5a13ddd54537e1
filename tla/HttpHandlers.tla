---------------------------- MODULE HttpHandlers ----------------------------
(***************************************************************************)
(* The HTTP layer (src/echo) on top of TransitionService.  A PUT handler    *)
(* makes several calls of the service, and between two of them other        *)
(* requests run.  Each client makes at most one GET of its step and then    *)
(* one PUT; the calls of its PUT are the requests <<h, "create">> and       *)
(* <<h, "transit">> of the service.  The remaining requests are calls of    *)
(* FinishInstance, which no route reaches: the application makes them.      *)
(*                                                                          *)
(* Bound: one PUT, after at most one GET, for each member of Clients.       *)
(***************************************************************************)
EXTENDS TransitionService

CONSTANTS Clients, Users,
          Anonymous,   \* user ID 0
          NoUser,      \* the context key user_id is absent
          Groups       \* the route groups: their middleware, as a record

Calls == {"create", "transit"}

ASSUME ClientsAssumption == Clients \X Calls \subseteq Requests

ASSUME GroupsAssumption ==
  Groups \subseteq [identify : {"default", "userID", "none"}, requireAuth : BOOLEAN]

VARIABLES
  http,     \* the handler of each client: its stage and local variables
  owner     \* column user_id of workflow_instances

httpVars == <<instances, transitions, validations, pc, frame, err, offered, crashes,
              writes, http, owner>>

Create(h) == <<h, "create">>
Transit(h) == <<h, "transit">>
Finishes == Requests \ (Clients \X Calls)

NewClient ==
  [stage |-> "idle", route |-> "none", user |-> NoUser, type |-> Blank,
   id |-> 0,         \* the instance the handler acts on
   lookup |-> "none",
   known |-> 0,      \* history: Len(writes) when the handler read the instance,
   readAt |-> 0,     \* when TransitionStep read it,
   viewedAt |-> 0,   \* and when the GET did
   step |-> Blank,   \* :step_name of the admin route
   action |-> Blank,
   offers |-> {},    \* the actions the GET listed
   status |-> 0, shown |-> {}]

HttpInit ==
  /\ Init
  /\ http = [h \in Clients |-> NewClient]
  /\ owner = <<>>

-----------------------------------------------------------------------------
(***************************************************************************)
(* Middleware: the value it leaves under the context key user_id.  A failed *)
(* extractUserID leaves none, and the request goes on.                      *)
(***************************************************************************)
UserKeys(group) ==
  CASE group.identify = "default" -> {Anonymous}
    [] group.identify = "userID"  -> Users \cup {Anonymous, NoUser}
    [] group.identify = "none"    -> {NoUser}

GetUserID(key) == IF key = NoUser THEN Anonymous ELSE key

\* RequireAuthMiddleware asks GetUserID, the handler then GetUserIDWithError.
Admitted(group, key) ==
  /\ group.requireAuth => GetUserID(key) # Anonymous
  /\ key # NoUser

OwnedBy(u, t) == {i \in DOMAIN instances : owner[i] = u /\ instances[i].type = t}

\* Mutant of GetInstance: a condition on current_step as well, so that instances which
\* have moved are not found.
GetUnmovedInstance(u, t) ==
  LET unmoved == {i \in OwnedBy(u, t) : instances[i].step = Definitions[t].initialStep}
  IN  {i \in unmoved : u # Anonymous /\ \A j \in unmoved : i <= j}

\* Mutant of GetInstance: the condition on user_id is lost.
GetAnyonesInstance(u, t) ==
  LET found == {i \in DOMAIN instances : instances[i].type = t}
  IN  {i \in found : \A j \in found : i <= j}

\* GormStore.GetInstance: the first row by id, finished or not; never for user 0.
\* The other two stores pass finished instances over (module Stores).
GetInstance(u, t) ==
  {i \in OwnedBy(u, t) : u # Anonymous /\ \A j \in OwnedBy(u, t) : i <= j}

Become(h, state) == http' = [http EXCEPT ![h] = state]

Reply(h, status) ==
  Become(h, [http[h] EXCEPT !.stage = "replied", !.status = status])

-----------------------------------------------------------------------------
\* Service missing in the context (500), body that does not bind or empty names
\* (400), a request RequireAdminMiddleware turns away (403).
Refuse(h) ==
  /\ http[h].stage \in {"idle", "viewed"}
  /\ \E status \in {400, 403, 500} : Reply(h, status)
  /\ UNCHANGED <<vars, owner>>

\* Mutant of Offers: the step of the URL is listed, not the one of the instance.
OffersOfUrlStep(row) ==
  UNION {{step.actions[i].name : i \in DOMAIN step.actions} :
           step \in UNION {GetStep(Definitions[row.type], s) : s \in StepNames}}

\* The actions GetStepHandler lists: of the step the instance is on, whatever
\* :step_name is.
Offers(row) ==
  UNION {{step.actions[i].name : i \in DOMAIN step.actions} :
           step \in GetStep(Definitions[row.type], row.step)}

\* GetStepHandler and GetWorkflowHandler that find an instance; one read, no write.
View(h) ==
  /\ http[h].stage = "idle"
  /\ \E group \in Groups, t \in WorkflowTypes : \E key \in UserKeys(group) :
       /\ Admitted(group, key)
       /\ \E i \in GetInstance(key, t) :
            Become(h, [http[h] EXCEPT !.stage = "viewed", !.user = key, !.type = t,
                                      !.offers = Offers(instances[i]),
                                      !.viewedAt = Len(writes)])
  /\ UNCHANGED <<vars, owner>>

\* CreateStepHandler up to GetInstance, any error of which (no row, user 0, a
\* query that failed) leads to CreateInstance.  :step_name is not looked at.
BeginCreateStep(h) ==
  /\ http[h].stage \in {"idle", "viewed"}
  /\ \E group \in Groups, t \in WorkflowTypes : \E key \in UserKeys(group) :
       /\ http[h].stage = "viewed" => key = http[h].user /\ t = http[h].type
       /\ \/ /\ ~Admitted(group, key)
             /\ Reply(h, 401)
          \/ /\ Admitted(group, key)
             /\ LET called == [http[h] EXCEPT !.route = "user", !.user = key, !.type = t,
                                              !.known = Len(writes)]
                IN  \/ \E i \in GetInstance(key, t) :
                         Become(h, [called EXCEPT !.stage = "transit", !.id = i,
                                                  !.lookup = "found"])
                    \/ Become(h, [called EXCEPT !.stage = "create",
                                    !.lookup = IF GetInstance(key, t) = {} THEN "absent"
                                                                           ELSE "failed"])
  /\ UNCHANGED <<vars, owner>>

\* Mutant of CreateForUser: the error of CreateInstance is not looked at.
CreateForUserUnchecked(h) ==
  /\ http[h].stage = "create"
  /\ CreateInstanceOf(Create(h), http[h].type)
  /\ owner' = IF Len(instances') > Len(instances) THEN Append(owner, http[h].user)
                                                  ELSE owner
  /\ Become(h, [http[h] EXCEPT !.stage = "transit", !.id = Len(instances')])

CreateForUser(h) ==
  /\ http[h].stage = "create"
  /\ CreateInstanceOf(Create(h), http[h].type)
  /\ owner' = IF Len(instances') > Len(instances) THEN Append(owner, http[h].user)
                                                  ELSE owner
  /\ IF pc'[Create(h)] = "returned"
       THEN Become(h, [http[h] EXCEPT !.stage = "transit", !.id = Len(instances')])
       ELSE Reply(h, 500)

\* Mutant of BeginTransitStep: the step of the instance is not compared.
BeginTransitStepUnchecked(h) ==
  /\ http[h].stage = "idle"
  /\ \E i \in DOMAIN instances, s \in StepNames :
       Become(h, [http[h] EXCEPT !.stage = "transit", !.route = "admin", !.id = i,
                                 !.step = s, !.known = Len(writes)])
  /\ UNCHANGED <<vars, owner>>

\* TransitStepHandler up to its comparison of :step_name with the instance.
BeginTransitStep(h) ==
  /\ http[h].stage = "idle"
  /\ \/ Reply(h, 404)
     \/ \E i \in DOMAIN instances, s \in StepNames :
          IF s # instances[i].step
            THEN Reply(h, 400)
            ELSE Become(h, [http[h] EXCEPT !.stage = "transit", !.route = "admin",
                                           !.id = i, !.step = s, !.known = Len(writes)])
  /\ UNCHANGED <<vars, owner>>

\* Both handlers call TransitionStep with the id: it reads the row anew.
TransitInstance(h) ==
  /\ http[h].stage = "transit"
  /\ \E a \in ActionNames :
       /\ \/ BeginTransitionOf(Transit(h), http[h].id, a)
          \/ BeginWithNoInstance(Transit(h))
       /\ Become(h, [http[h] EXCEPT !.stage = "awaiting", !.action = a,
                                    !.readAt = Len(writes)])
  /\ UNCHANGED owner

\* Mutant of Answer: the reply is computed from the step the handler called with.
AnswerWithoutRefresh(h) ==
  /\ http[h].stage = "awaiting"
  /\ \/ pc[Transit(h)] = "failed" /\ Reply(h, 400)
     \/ /\ pc[Transit(h)] = "returned"
        /\ Become(h, [http[h] EXCEPT !.stage = "replied", !.status = 200,
                                     !.shown = {frame[Transit(h)].from}])
  /\ UNCHANGED <<vars, owner>>

\* Mutant of Answer: a refresh that failed is reported as a failed transition.
AnswerRefreshAsFailure(h) ==
  /\ http[h].stage = "awaiting"
  /\ pc[Transit(h)] \in {"failed", "returned"} /\ Reply(h, 400)
  /\ UNCHANGED <<vars, owner>>

\* 400 for any error of TransitionStep; else GetInstanceByID once more.
Answer(h) ==
  /\ http[h].stage = "awaiting"
  /\ \/ pc[Transit(h)] = "failed" /\ Reply(h, 400)
     \/ /\ pc[Transit(h)] = "returned"
        /\ \/ Reply(h, 500)
           \/ Become(h, [http[h] EXCEPT !.stage = "replied", !.status = 200,
                                        !.shown = {instances[http[h].id]}])
  /\ UNCHANGED <<vars, owner>>

\* A call of the service in flight goes on.
ServiceStep(r) ==
  /\ \/ HasValidation(r) \/ GetValidation(r) \/ EmitBefore(r) \/ UpdateInstance(r)
     \/ CreateTransition(r) \/ SendEvent(r) \/ SaveFinished(r)
  /\ UNCHANGED <<http, owner>>

FinishByApplication(r) ==
  /\ BeginFinish(r)
  /\ UNCHANGED <<http, owner>>

\* The process dies with every handler in it.
Shutdown ==
  /\ Crash
  /\ http' = [h \in Clients |-> IF http[h].stage \in {"create", "transit", "awaiting"}
                                  THEN [http[h] EXCEPT !.stage = "lost"] ELSE http[h]]
  /\ UNCHANGED owner

UserRoutes(h) == View(h) \/ BeginCreateStep(h)

AdminRoutes(h) == BeginTransitStep(h)

HttpNext ==
  \/ \E h \in Clients :
       \/ Refuse(h) \/ UserRoutes(h) \/ AdminRoutes(h)
       \/ CreateForUser(h) \/ TransitInstance(h) \/ Answer(h)
  \/ \E r \in Requests : ServiceStep(r)
  \/ \E r \in Finishes : FinishByApplication(r)
  \/ Shutdown

HttpSpec == HttpInit /\ [][HttpNext]_httpVars

-----------------------------------------------------------------------------
(***************************************************************************)
(* Properties.                                                             *)
(***************************************************************************)
HttpTypeOK ==
  /\ \A h \in Clients :
       /\ http[h].stage \in {"idle", "viewed", "create", "transit", "awaiting",
                             "replied", "lost"}
       /\ http[h].status \in {0, 200, 400, 401, 403, 404, 500}
       /\ http[h].stage \in {"transit", "awaiting"} => http[h].id \in DOMAIN instances
  /\ Len(owner) = Len(instances)
  /\ \A i \in DOMAIN owner : owner[i] \in Users \cup {Anonymous}

\* The records of user routes are about instances of the user that called and the
\* type in the URL, through GetInstance, CreateInstance and the id handed on
\* (handlers.go:125-135), whoever else creates and moves instances meanwhile.
UsersMoveOnlyTheirOwn ==
  \A k \in DOMAIN transitions : \A h \in Clients :
    transitions[k].req = Transit(h) /\ http[h].route = "user" =>
      /\ owner[transitions[k].instance] = http[h].user
      /\ instances[transitions[k].instance].type = http[h].type

\* The first n writes left instance i finished.
FinishedBy(i, n) ==
  \E k \in 1..n : /\ writes[k].id = i /\ writes[k].row.finished
                  /\ \A m \in k+1..n : writes[m].id # i

\* handlers.go:126: a second instance of one user and type is made only by a
\* handler whose lookup failed, or came before the first one was written, or after
\* it was finished: whether GetInstance passes finished instances over is left open
\* (service.go:129 calls what it finds active, GormStore finds any).
SecondInstanceNeedsARace ==
  \A j, k \in DOMAIN writes : \A h \in Clients :
    LET first == writes[j]  second == writes[k] IN
    /\ first.op = "create" /\ second.op = "create" /\ j < k
    /\ second.req = Create(h)
    /\ owner[first.id] = owner[second.id] /\ first.row.type = second.row.type
    => \/ http[h].user = Anonymous
       \/ http[h].lookup = "failed"
       \/ j > http[h].known
       \/ FinishedBy(first.id, http[h].known)

\* handlers.go:138: a reply of 200 shows the row as the client's own move left it
\* or as a later write did, never an older version.
RepliesShowTheOwnMoveOrLater ==
  \A h \in Clients : \A row \in http[h].shown :
    \E j, k \in DOMAIN writes :
      /\ j <= k
      /\ writes[j].req = Transit(h) /\ writes[j].op = "transition"
      /\ writes[k].id = http[h].id /\ writes[k].row = row

\* handlers.go:347: the admin route acts from another step than the one in its URL
\* only if the row was written between its own read and that of TransitionStep.
AdminMovesFromTheNamedStep ==
  \A k \in DOMAIN transitions : \A h \in Clients :
    transitions[k].req = Transit(h) /\ http[h].route = "admin" =>
      \/ frame[Transit(h)].from.step = http[h].step
      \/ \E j \in http[h].known + 1 .. http[h].readAt : writes[j].id = http[h].id

\* A client that takes an action GetStepHandler listed for it is told that there
\* is no such action only if the row was written after the GET, or an instance
\* created instead of found.
OfferedActionsExist ==
  \A h \in Clients :
    /\ http[h].action \in http[h].offers
    /\ err[Transit(h)] \in {"step not found", "action not found"}
    => \E j \in http[h].viewedAt + 1 .. http[h].readAt : writes[j].id = http[h].id

\* A status of 4xx means that nothing was moved, recorded or announced, unless
\* TransitionStep failed at or after its first write (handlers.go:134).
RefusalsMoveNothing ==
  \A h \in Clients :
    /\ http[h].status \in {400, 401, 403, 404}
    /\ err[Transit(h)] \notin WriteErrors
    => /\ \A k \in DOMAIN writes : writes[k].req # Transit(h)
       /\ \A k \in DOMAIN transitions : transitions[k].req # Transit(h)
       /\ \A k \in DOMAIN offered : offered[k].req # Transit(h)
=============================================================================
