-------------------------- MODULE WorkflowRegistry --------------------------
(***************************************************************************)
(* What TransitionService takes as given, and the application may change    *)
(* while calls run: the registry of workflow definitions with its loader    *)
(* (definition.go:82-112, loader.go) and the chain of before-transition     *)
(* listeners (events.go:93-139).  A call is a TransitionStep from its       *)
(* lookup of the definition to the row it is going to save; the store and   *)
(* the validations are left to TransitionService.                           *)
(*                                                                          *)
(* One goroutine of the application loads directories and unregisters       *)
(* types.  workflowRegistry is a plain map: a lookup during a write of it   *)
(* is a data race, which the runtime may end the process for, and else any  *)
(* of the old, the new and no definition is found.                          *)
(*                                                                          *)
(* Bounds: one TransitionStep for each member of Calls, MaxLoads loads,     *)
(* MaxListeners listeners.                                                  *)
(***************************************************************************)
EXTENDS WorkflowDefinition, SequencesExt

CONSTANTS
  Calls, WorkflowTypes, StepNames, StateNames, ActionNames,
  Directories,     \* sequences of files [kind, config]: the kind is "directory", "other"
                   \* (a name without .json), "broken" or "workflow"
  NotFound,        \* no definition
  Filters,         \* pairs of workflow type and action name, each possibly Blank
  MaxLoads, MaxListeners

\* What os.ReadDir lists: only what the loader tells apart, and the types that the
\* files declare are workflow types.
ASSUME DirectoriesAssumption ==
  \A files \in Directories :
    /\ files \in Seq(Range(files))
    /\ \A n \in DOMAIN files :
         /\ files[n].kind \in {"directory", "other", "broken", "workflow"}
         /\ files[n].config.type \in WorkflowTypes

VARIABLES
  workflows,   \* workflowRegistry
  write,       \* the write of the map that is under way: none, or one
  fatal,       \* "concurrent map read and map write"
  load,        \* InitWorkflowsFromDir
  listeners,   \* beforeListeners
  call

vars == <<workflows, write, fatal, load, listeners, call>>

NoData == <<>>

NewCall == [stage |-> "idle", from |-> {}, row |-> {}, action |-> Blank, act |-> {},
            known |-> {},    \* history: the definitions of the type at the lookup
            input |-> NoData, copied |-> 0, next |-> 1,
            asked |-> <<>>]  \* history: the listeners called

Init ==
  /\ workflows = [t \in WorkflowTypes |-> NotFound]
  /\ write = {}
  /\ fatal = FALSE
  /\ load = [stage |-> "idle", loads |-> 0, files |-> <<>>, next |-> 1,
             registered |-> <<>>, removed |-> {}]
  /\ listeners = <<>>
  /\ call = [c \in Calls |-> NewCall]

-----------------------------------------------------------------------------
(***************************************************************************)
(* The loader.                                                             *)
(***************************************************************************)
\* os.ReadDir, or its error.
ReadDir ==
  /\ load.stage \in {"idle", "loaded", "failed"} /\ load.loads < MaxLoads
  /\ write = {}
  /\ \E files \in Directories, stage \in {"scanning", "failed"} :
       load' = [stage |-> stage, loads |-> load.loads + 1, files |-> files, next |-> 1,
                registered |-> <<>>, removed |-> {}]
  /\ UNCHANGED <<workflows, write, fatal, listeners, call>>

File == load.files[load.next]

Entry(t, def) == [type |-> t, def |-> def]

\* Mutant of LoadFile: a file that does not parse is passed over.
LoadFileSkippingBroken ==
  /\ load.stage = "scanning" /\ write = {} /\ load.next <= Len(load.files)
  /\ \/ /\ File.kind # "workflow"
        /\ load' = [load EXCEPT !.next = @ + 1]
        /\ UNCHANGED write
     \/ /\ File.kind = "workflow"
        /\ write' = {Entry(File.config.type, ParseWorkflowFromJSON(File.config))}
        /\ UNCHANGED load
  /\ UNCHANGED <<workflows, fatal, listeners, call>>

\* The body of the loop: directories and other names are passed over, the first
\* file that cannot be read or parsed ends the load.
LoadFile ==
  /\ load.stage = "scanning" /\ write = {} /\ load.next <= Len(load.files)
  /\ \/ /\ File.kind \in {"directory", "other"}
        /\ load' = [load EXCEPT !.next = @ + 1]
        /\ UNCHANGED write
     \/ /\ File.kind = "broken"
        /\ load' = [load EXCEPT !.stage = "failed"]
        /\ UNCHANGED write
     \/ /\ File.kind = "workflow"
        /\ write' = {Entry(File.config.type, ParseWorkflowFromJSON(File.config))}
        /\ UNCHANGED load
  /\ UNCHANGED <<workflows, fatal, listeners, call>>

RegisterWorkflow ==
  /\ load.stage = "scanning"
  /\ \E entry \in write :
       /\ workflows' = [workflows EXCEPT ![entry.type] = entry.def]
       /\ load' = [load EXCEPT !.registered = Append(@, load.next), !.next = @ + 1]
  /\ write' = {}
  /\ UNCHANGED <<fatal, listeners, call>>

\* No error, unless there was no file to load.
EndLoad ==
  /\ load.stage = "scanning" /\ load.next > Len(load.files)
  /\ load' = [load EXCEPT !.stage = IF load.registered = <<>> THEN "failed" ELSE "loaded"]
  /\ UNCHANGED <<workflows, write, fatal, listeners, call>>

\* Bound: of types that are registered, after a load that succeeded.
UnregisterWorkflow(t) ==
  /\ load.stage = "loaded" /\ write = {} /\ workflows[t] # NotFound
  /\ write' = {Entry(t, NotFound)}
  /\ UNCHANGED <<workflows, fatal, load, listeners, call>>

EndUnregister ==
  /\ load.stage = "loaded"
  /\ \E entry \in write :
       /\ workflows' = [workflows EXCEPT ![entry.type] = NotFound]
       /\ load' = [load EXCEPT !.removed = @ \cup {entry.type}]
  /\ write' = {}
  /\ UNCHANGED <<fatal, listeners, call>>

-----------------------------------------------------------------------------
(***************************************************************************)
(* TransitionStep.                                                         *)
(***************************************************************************)
\* What GetWorkflow may return.
GetWorkflow(t) ==
  {workflows[t]} \cup (IF write = {} THEN {} ELSE {NotFound})
                 \cup {entry.def : entry \in {e \in write : e.type = t}}

Set(c, state) == call' = [call EXCEPT ![c] = state]

\* The lookups, on a row that an earlier definition may have left on any step.
BeginCall(c) ==
  /\ call[c].stage = "idle"
  /\ \E t \in WorkflowTypes, a \in ActionNames, step \in StepNames, state \in StateNames :
       \E def \in GetWorkflow(t) :
         LET acts == IF def = NotFound THEN {} ELSE GetTransitionAction(def, step, a)
             row == [type |-> t, step |-> step, state |-> state]
         IN  Set(c, [NewCall EXCEPT !.stage = IF acts = {} THEN "refused" ELSE "emitBefore",
                                    !.from = row, !.row = row, !.action = a, !.act = acts,
                                    !.known = GetWorkflow(t)])
  /\ UNCHANGED <<workflows, write, fatal, load, listeners>>

\* The runtime notices the race.
Throw ==
  /\ write # {} /\ \E c \in Calls : call[c].stage = "idle"
  /\ fatal' = TRUE
  /\ UNCHANGED <<workflows, write, load, listeners, call>>

OnBeforeTransition(filter) ==
  /\ Len(listeners) < MaxListeners
  /\ listeners' = Append(listeners, filter)
  /\ UNCHANGED <<workflows, write, fatal, load, call>>

\* emitBefore copies the list under the lock.
CopyListeners(c) ==
  /\ call[c].stage = "emitBefore"
  /\ Set(c, [call[c] EXCEPT !.stage = "listening", !.copied = Len(listeners)])
  /\ UNCHANGED <<workflows, write, fatal, load, listeners>>

matchesBeforeFilter(filter, c) ==
  /\ filter[1] \in {Blank, call[c].row.type}
  /\ filter[2] \in {Blank, call[c].action}

\* What a listener makes of the input it gets: more of it, or nothing.
Returned(n, input) == {Append(input, n), NoData}

Asked(n, got, data) == [listener |-> n, got |-> got, returned |-> data]

\* Mutant of CallListener: every listener gets the input of the call.
CallListenerWithTheGivenInput(c) ==
  LET n == call[c].next IN
  /\ call[c].stage = "listening" /\ n <= call[c].copied
  /\ \/ /\ ~matchesBeforeFilter(listeners[n], c)
        /\ Set(c, [call[c] EXCEPT !.next = n + 1])
     \/ /\ matchesBeforeFilter(listeners[n], c)
        /\ \E data \in Returned(n, NoData), stage \in {"listening", "blocked"} :
             Set(c, [call[c] EXCEPT !.stage = stage, !.next = n + 1, !.input = data,
                                    !.asked = Append(@, Asked(n, NoData, data))])
  /\ UNCHANGED <<workflows, write, fatal, load, listeners>>

\* The next listener of the copy gets what the last one returned; an error blocks
\* the call.
CallListener(c) ==
  LET n == call[c].next IN
  /\ call[c].stage = "listening" /\ n <= call[c].copied
  /\ \/ /\ ~matchesBeforeFilter(listeners[n], c)
        /\ Set(c, [call[c] EXCEPT !.next = n + 1])
     \/ /\ matchesBeforeFilter(listeners[n], c)
        /\ \E data \in Returned(n, call[c].input), stage \in {"listening", "blocked"} :
             Set(c, [call[c] EXCEPT !.stage = stage, !.next = n + 1, !.input = data,
                                    !.asked = Append(@, Asked(n, call[c].input, data))])
  /\ UNCHANGED <<workflows, write, fatal, load, listeners>>

\* Mutant of Move: the action is looked up again after the listeners.
MoveByTheCurrentDefinition(c) ==
  /\ call[c].stage = "listening" /\ call[c].next > call[c].copied
  /\ \E def \in GetWorkflow(call[c].row.type) \ {NotFound} :
       \E act \in GetTransitionAction(def, call[c].row.step, call[c].action) :
         Set(c, [call[c] EXCEPT !.stage = "moved", !.row = Advance(@, act)])
  /\ UNCHANGED <<workflows, write, fatal, load, listeners>>

\* The row to save, by the action found at the start.
Move(c) ==
  /\ call[c].stage = "listening" /\ call[c].next > call[c].copied
  /\ \E act \in call[c].act :
       Set(c, [call[c] EXCEPT !.stage = "moved", !.row = Advance(@, act)])
  /\ UNCHANGED <<workflows, write, fatal, load, listeners>>

Next ==
  /\ ~fatal
  /\ \/ ReadDir \/ LoadFile \/ RegisterWorkflow \/ EndLoad \/ EndUnregister \/ Throw
     \/ \E t \in WorkflowTypes : UnregisterWorkflow(t)
     \/ \E filter \in Filters : OnBeforeTransition(filter)
     \/ \E c \in Calls : BeginCall(c) \/ CopyListeners(c) \/ CallListener(c) \/ Move(c)

Spec == Init /\ [][Next]_vars

-----------------------------------------------------------------------------
(***************************************************************************)
(* Properties.                                                             *)
(***************************************************************************)
\* The workflow files of the directory that come before the first broken one.
Good ==
  {n \in DOMAIN load.files :
     /\ load.files[n].kind = "workflow"
     /\ \A m \in 1 .. n : load.files[m].kind # "broken"}

Has(kind) == \E n \in DOMAIN load.files : load.files[n].kind = kind

\* loader.go:44-75: a load that returns nil has registered every workflow file of
\* the directory, one that fails those before the first broken file, if any; of two
\* files for one type the later one stays.
DirectoriesLoadInOrder ==
  LET done == Range(load.registered) IN
  /\ done \subseteq Good
  /\ \A n \in Good : (\E m \in done : n < m) => n \in done
  /\ load.stage = "loaded" => done = Good /\ Has("workflow") /\ ~Has("broken")
  /\ load.stage = "failed" =>
       \/ done = {}                                      \* no directory, or no file
       \/ done = Good /\ Has("broken")
  /\ \A n \in done :
       LET def == ParseWorkflowFromJSON(load.files[n].config) IN
       \/ def.type \in load.removed
       \/ workflows[def.type] = def
       \/ \E m \in done : m > n /\ load.files[m].config.type = def.type

\* service.go:160-206: whatever is registered and removed while the listeners of a
\* call run, the row it saves is the one that a definition known at its start, and
\* no mixture of two, makes of the row it read.
MovesByOneDefinition ==
  \A c \in Calls : call[c].stage = "moved" =>
    \E def \in call[c].known \ {NotFound} :
      \E act \in GetTransitionAction(def, call[c].from.step, call[c].action) :
        call[c].row = Advance(call[c].from, act)

\* events.go:114-139: the listeners called are the matching ones among those
\* registered when the list was copied, each once, in order and without a gap, each on
\* the data of the one before; a call moves on only after all of them, with the data of
\* the last one.
ListenersEnrichInOrder ==
  \A c \in Calls :
    LET asked == call[c].asked
        called == {asked[k].listener : k \in DOMAIN asked}
        matching == {n \in 1 .. call[c].copied : matchesBeforeFilter(listeners[n], c)}
    IN  call[c].stage \in {"listening", "blocked", "moved"} =>
          /\ called \subseteq matching
          /\ \A n \in matching :
               call[c].stage = "moved" \/ (\E m \in called : n < m) => n \in called
          /\ \A k \in DOMAIN asked :
               /\ \A j \in 1 .. k - 1 : asked[j].listener < asked[k].listener
               /\ asked[k].got = IF k = 1 THEN NoData ELSE asked[k - 1].returned
          /\ call[c].input = IF asked = <<>> THEN NoData ELSE asked[Len(asked)].returned
=============================================================================
