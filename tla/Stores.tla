------------------------------- MODULE Stores -------------------------------
(***************************************************************************)
(* The three implementations of engine.Store (gorm, memory, mock) under the *)
(* same calls, with the read side of the service and of the admin handlers  *)
(* on top.  A behaviour has one of the stores.  A call is one step: a       *)
(* statement of the database, or a method that holds the lock throughout    *)
(* (what the pointers handed out by the memory store do is MemoryStore).    *)
(*                                                                          *)
(* An answer that depends on the order of a map, or of rows that tie, is a  *)
(* set of possible answers.  0 stands for an answer that is an error.       *)
(*                                                                          *)
(* Bound: the scope, chosen at the start: what the rows and the filters are *)
(* made of and how many rows there are.                                     *)
(***************************************************************************)
EXTENDS Integers, SequencesExt

CONSTANTS
  StoreKinds,      \* subset of {"gorm", "memory", "mock"}
  Anonymous,       \* user ID 0
  Nil,             \* a nil pointer, a nil json.RawMessage
  EmptyObject,     \* {}
  Values,          \* other JSON values
  ActionNames,
  Ints,            \* values of Limit and Offset
  IntWidth,        \* bits of an int
  DefaultLimit,    \* 100
  Scopes           \* records: users, types, positions (pairs of step and state),
                   \* filters (values of store.InstanceFilter without Limit and
                   \* Offset), instances, transitions, histories, walks

Blank == ""

MaxInt == 2 ^ (IntWidth - 1) - 1

ASSUME StoreKindsAssumption == StoreKinds \subseteq {"gorm", "memory", "mock"}

ASSUME IntsAssumption ==
  /\ IntWidth \in Nat \ {0}
  /\ Ints \subseteq -(MaxInt + 1) .. MaxInt
  /\ DefaultLimit \in 1 .. MaxInt
  /\ MaxInt \in Nat

\* Times are times.
ASSUME ScopesAssumption ==
  \A s \in Scopes : \A f \in s.filters : {f.after, f.before} \subseteq Int \cup {Nil}

VARIABLES
  store,        \* the kind of store
  scope,        \* bounds
  instances,    \* rows by id
  transitions,
  histories,
  given,        \* history: the transitions and histories as the callers gave them
  walk          \* an admin client that reads GET /admin/workflows page by page

vars == <<store, scope, instances, transitions, histories, given, walk>>

Init ==
  /\ store \in StoreKinds
  /\ scope \in Scopes
  /\ instances = <<>>
  /\ transitions = <<>>
  /\ histories = <<>>
  /\ given = [transitions |-> <<>>, histories |-> <<>>]
  /\ walk = [stage |-> "none"]

Steps == {p[1] : p \in scope.positions}
States == {p[2] : p \in scope.positions}

-----------------------------------------------------------------------------
(***************************************************************************)
(* JSON columns: a gorm store keeps no nil, the two others do.              *)
(***************************************************************************)
\* SetInputData, SetOldValue, SetNewValue: nil stays nil, anything else is JSON.
Marshalled == {Nil, EmptyObject} \cup Values

\* JSONRawMessage.Value and Scan: a column holds {} for nil.
Column(json) == IF json = Nil THEN EmptyObject ELSE json

TransitionFromEngine(t) == [t EXCEPT !.input = Column(@)]

TransitionHistoryFromEngine(h) == [h EXCEPT !.old = Column(@), !.new = Column(@)]

-----------------------------------------------------------------------------
(***************************************************************************)
(* Instances.                                                              *)
(***************************************************************************)
\* created_at of the next row: the caller's clock ties with that of the last row,
\* is ahead of it, or behind.
Now == IF instances = <<>> THEN {1}
       ELSE {Last(instances).created + tick : tick \in {-1, 0, 1}}

InsertInstance(u, t) ==
  /\ Len(instances) < scope.instances
  /\ \E p \in scope.positions, c \in Now :
       instances' = Append(instances, [user |-> u, type |-> t, step |-> p[1],
                                       state |-> p[2], finished |-> FALSE, created |-> c])
  /\ UNCHANGED <<store, scope, transitions, histories, given, walk>>

Of(u, t) == {i \in DOMAIN instances : instances[i].user = u /\ instances[i].type = t}

Active(u, t) == {i \in Of(u, t) : ~instances[i].finished}

GormCreateInstance(u, t) == store = "gorm" /\ InsertInstance(u, t)

MemoryCreateInstance(u, t) == store = "memory" /\ InsertInstance(u, t)

\* Only the mock refuses a second active instance: ErrDuplicateInstance.
MockCreateInstance(u, t) == store = "mock" /\ Active(u, t) = {} /\ InsertInstance(u, t)

CreateInstance(u, t) ==
  GormCreateInstance(u, t) \/ MemoryCreateInstance(u, t) \/ MockCreateInstance(u, t)

\* The columns of Updates; the two others replace the object, of which callers
\* change no other field.
UpdateInstance(i) ==
  /\ \E p \in scope.positions, finished \in BOOLEAN :
       instances' = [instances EXCEPT ![i].step = p[1], ![i].state = p[2],
                                      ![i].finished = finished]
  /\ UNCHANGED <<store, scope, transitions, histories, given, walk>>

\* Transaction(fn) where fn creates an instance and then returns an error: gorm
\* rolls the row back, the two others have it.
FailedTransaction(u, t) ==
  IF store = "gorm" THEN UNCHANGED vars ELSE CreateInstance(u, t)

GormGetInstance(u, t) ==
  IF u = Anonymous \/ Of(u, t) = {} THEN {0} ELSE {Min(Of(u, t))}

MemoryGetInstance(u, t) == IF Active(u, t) = {} THEN {0} ELSE Active(u, t)

MockGetInstance(u, t) == IF u = Anonymous THEN {0} ELSE MemoryGetInstance(u, t)

GetInstance(u, t) ==
  CASE store = "gorm"   -> GormGetInstance(u, t)
    [] store = "memory" -> MemoryGetInstance(u, t)
    [] store = "mock"   -> MockGetInstance(u, t)

-----------------------------------------------------------------------------
(***************************************************************************)
(* ListInstances.                                                          *)
(***************************************************************************)
\* The WHERE clause.
applyInstanceFilter(f) ==
  {i \in DOMAIN instances :
     /\ f.type = Blank \/ instances[i].type = f.type
     /\ f.user = Nil \/ instances[i].user = f.user
     /\ f.step = Blank \/ instances[i].step = f.step
     /\ f.state = Blank \/ instances[i].state = f.state
     /\ f.finished = Nil \/ instances[i].finished = f.finished
     /\ f.after = Nil \/ instances[i].created >= f.after
     /\ f.before = Nil \/ instances[i].created <= f.before}

\* Mutant of matchesFilter: CreatedBefore is exclusive.
matchesFilterBefore(o, f) ==
  ~ \/ f.type # Blank /\ o.type # f.type
    \/ f.user # Nil /\ o.user # f.user
    \/ f.step # Blank /\ o.step # f.step
    \/ f.state # Blank /\ o.state # f.state
    \/ f.finished # Nil /\ f.finished # o.finished
    \/ f.after # Nil /\ o.created < f.after
    \/ f.before # Nil /\ o.created >= f.before

\* The tests of memory.matchesFilter, and of the loop in the mock.
matchesFilter(o, f) ==
  ~ \/ f.type # Blank /\ o.type # f.type
    \/ f.user # Nil /\ o.user # f.user
    \/ f.step # Blank /\ o.step # f.step
    \/ f.state # Blank /\ o.state # f.state
    \/ f.finished # Nil /\ f.finished # o.finished
    \/ f.after # Nil /\ o.created < f.after
    \/ f.before # Nil /\ o.created > f.before

Matching(f) == {i \in DOMAIN instances : matchesFilter(instances[i], f)}

\* ORDER BY created_at DESC: rows that tie come in any order.
NewestFirst(ids) ==
  {s \in SetToSeqs(ids) :
     \A j, k \in DOMAIN s : j < k => instances[s[j]].created >= instances[s[k]].created}

From(s, offset) == SubSeq(s, offset + 1, Len(s))

UpTo(s, limit) == SubSeq(s, 1, Min({limit, Len(s)}))

\* LIMIT and OFFSET, each only if it is positive.
GormPage(s, limit, offset) ==
  LET rest == IF offset > 0 THEN From(s, offset) ELSE s
  IN  IF limit > 0 THEN UpTo(rest, limit) ELSE rest

MemoryPage(s, limit, offset) ==
  LET rest == CASE offset > 0 /\ offset < Len(s) -> From(s, offset)
                [] offset >= Len(s)              -> <<>>
                [] OTHER                         -> s
  IN  IF limit > 0 /\ limit < Len(rest) THEN UpTo(rest, limit) ELSE rest

\* Mutant of GormListing: the ORDER BY is lost.
GormListingUnordered(f) == SetToSeqs(applyInstanceFilter(f))

GormListing(f) == NewestFirst(applyInstanceFilter(f))

MemoryListing(f) == SetToSeqs(Matching(f))

\* The mock reverses the order of its map, which is random: any order again.
MockListing(f) == {Reverse(s) : s \in SetToSeqs(Matching(f))}

\* The orders in which a store may list the rows of a filter, and the page it cuts.
Listing(f) ==
  CASE store = "gorm"   -> GormListing(f)
    [] store = "memory" -> MemoryListing(f)
    [] store = "mock"   -> MockListing(f)

Page(s, limit, offset) ==
  IF store = "gorm" THEN GormPage(s, limit, offset) ELSE MemoryPage(s, limit, offset)

-----------------------------------------------------------------------------
(***************************************************************************)
(* GET /admin/workflows: ListWorkflowsHandler, and a client that asks for   *)
(* one page after the other until one is not full.                          *)
(***************************************************************************)
\* The filters a query string can make: no times, no user 0.
HandlerFilters == {f \in scope.filters : f.after = Nil /\ f.before = Nil /\ f.user # Anonymous}

PageSize(limit) == IF limit <= 0 THEN DefaultLimit ELSE limit

\* WorkflowService.ListInstances in between hands the filter on as it is.
ListWorkflowsHandler(f, limit, offset) ==
  {Page(s, PageSize(limit), offset) : s \in Listing(f)}

StartWalk ==
  /\ scope.walks /\ walk.stage = "none"
  /\ \E f \in HandlerFilters, limit \in Ints :
       walk' = [stage |-> "reading", filter |-> f, limit |-> limit, offset |-> 0,
                start |-> applyInstanceFilter(f), seen |-> {}]
  /\ UNCHANGED <<store, scope, instances, transitions, histories, given>>

ReadPage ==
  /\ walk.stage = "reading"
  /\ \E page \in ListWorkflowsHandler(walk.filter, walk.limit, walk.offset) :
       walk' = [walk EXCEPT
                  !.seen = @ \cup Range(page),
                  !.offset = @ + Len(page),
                  !.stage = IF Len(page) < PageSize(walk.limit) THEN "done" ELSE @]
  /\ UNCHANGED <<store, scope, instances, transitions, histories, given>>

\* The sum of two ints wraps.
Plus(a, b) == ((a + b + MaxInt + 1) % (2 * (MaxInt + 1))) - (MaxInt + 1)

\* Mutant of BuildPagination: has_more on the last full page.
BuildPaginationInclusive(total, limit, offset) ==
  LET size == PageSize(limit)
      from == IF offset < 0 THEN 0 ELSE offset
      next == Plus(from, size)
  IN  [count |-> IF next > total THEN Max({total - from, 0}) ELSE size,
       hasMore |-> next <= total]

BuildPagination(total, limit, offset) ==
  LET size == PageSize(limit)
      from == IF offset < 0 THEN 0 ELSE offset
      next == Plus(from, size)
  IN  [count |-> IF next > total THEN Max({total - from, 0}) ELSE size,
       hasMore |-> next < total]

-----------------------------------------------------------------------------
(***************************************************************************)
(* Transitions and their history.                                          *)
(***************************************************************************)
Transition == [instance : DOMAIN instances, step : Steps,
               action : ActionNames, state : States, input : Marshalled]

History == [transition : DOMAIN transitions, old : Marshalled, new : Marshalled]

\* A transition, and an entry of its history, as the store keeps it.
Kept(t) == IF store = "gorm" THEN TransitionFromEngine(t) ELSE t

KeptEntry(h) == IF store = "gorm" THEN TransitionHistoryFromEngine(h) ELSE h

\* The service makes records of instances it has read; only the mock checks.
CreateTransition ==
  /\ Len(transitions) < scope.transitions
  /\ \E t \in Transition :
       /\ transitions' = Append(transitions, Kept(t))
       /\ given' = [given EXCEPT !.transitions = Append(@, t)]
  /\ UNCHANGED <<store, scope, instances, histories, walk>>

\* Callers change the state and the input of a transition they read: the columns
\* gorm writes; the two others replace the object.
UpdateTransition(k) ==
  \E state \in States, input \in Marshalled :
    LET t == [transitions[k] EXCEPT !.state = state, !.input = input]
    IN  /\ transitions' =
             IF store = "gorm"
               THEN [transitions EXCEPT ![k].state = state,
                                        ![k].input = TransitionFromEngine(t).input]
               ELSE [transitions EXCEPT ![k] = t]
        /\ given' = [given EXCEPT !.transitions[k] = t]
        /\ UNCHANGED <<store, scope, instances, histories, walk>>

CreateTransitionHistory ==
  /\ Len(histories) < scope.histories
  /\ \E h \in History :
       /\ histories' = Append(histories, KeptEntry(h))
       /\ given' = [given EXCEPT !.histories = Append(@, h)]
  /\ UNCHANGED <<store, scope, instances, transitions, walk>>

At(i, step) ==
  {k \in DOMAIN transitions : transitions[k].instance = i /\ transitions[k].step = step}

Doing(a, ks) == {k \in ks : transitions[k].action = a}

\* A blank action is no condition; the first row by id.
GormGetTransition(i, step, a) ==
  LET found == IF a = Blank THEN At(i, step) ELSE Doing(a, At(i, step))
  IN  IF step = Blank \/ found = {} THEN {0} ELSE {Min(found)}

MemoryGetTransition(i, step, a) ==
  IF Doing(a, At(i, step)) = {} THEN {0} ELSE Doing(a, At(i, step))

MockGetTransition(i, step, a) ==
  LET found == IF a = Blank THEN At(i, step) ELSE Doing(a, At(i, step))
  IN  IF step = Blank \/ found = {} THEN {0} ELSE found

GetTransition(i, step, a) ==
  CASE store = "gorm"   -> GormGetTransition(i, step, a)
    [] store = "memory" -> MemoryGetTransition(i, step, a)
    [] store = "mock"   -> MockGetTransition(i, step, a)

GetTransitionByID(k) == IF k \in DOMAIN transitions THEN {k} ELSE {0}

ListTransitions(i) == {k \in DOMAIN transitions : transitions[k].instance = i}

ListTransitionHistory(k) == {n \in DOMAIN histories : histories[n].transition = k}

\* The body of GetTransitionHistoryHandler: :id is not looked at.
GetTransitionHistoryHandler(k) ==
  IF GetTransitionByID(k) = {0} THEN {0}
  ELSE {[id |-> n, old |-> histories[n].old, new |-> histories[n].new] :
          n \in ListTransitionHistory(k)}

\* Reset of the mock, between tests.
Reset ==
  /\ store = "mock"
  /\ instances' = <<>> /\ transitions' = <<>> /\ histories' = <<>>
  /\ given' = [transitions |-> <<>>, histories |-> <<>>]
  /\ walk' = [stage |-> "none"]
  /\ UNCHANGED <<store, scope>>

Next ==
  \/ \E u \in scope.users, t \in scope.types : CreateInstance(u, t) \/ FailedTransaction(u, t)
  \/ \E i \in DOMAIN instances : UpdateInstance(i)
  \/ CreateTransition
  \/ \E k \in DOMAIN transitions : UpdateTransition(k)
  \/ CreateTransitionHistory
  \/ StartWalk \/ ReadPage \/ Reset

Spec == Init /\ [][Next]_vars

-----------------------------------------------------------------------------
(***************************************************************************)
(* Properties.                                                             *)
(***************************************************************************)
Positive(n) == Max({n, 0})

\* What a filter means, field by field.
Satisfying(f) ==
  {i \in DOMAIN instances :
     /\ \A field \in {"type", "step", "state"} : f[field] \in {Blank, instances[i][field]}
     /\ \A field \in {"user", "finished"} : f[field] \in {Nil, instances[i][field]}
     /\ f.after # Nil => f.after <= instances[i].created
     /\ f.before # Nil => instances[i].created <= f.before}

\* A page has rows of the filter, none twice, as many as are left at the offset
\* and fit the limit; that of the gorm store is sorted.
ListingsAnswer ==
  \A f \in scope.filters : \A s \in Listing(f) : \A limit, offset \in Ints :
    LET page == Page(s, limit, offset)
        left == Positive(Cardinality(Satisfying(f)) - Positive(offset))
    IN  /\ IsInjective(page)
        /\ Range(page) \subseteq Satisfying(f)
        /\ Len(page) = IF limit > 0 THEN Min({limit, left}) ELSE left
        /\ store = "gorm" => \A j \in 2 .. Len(page) :
             instances[page[j]].created <= instances[page[j - 1]].created

\* An instance or a transition looked up by its attributes has them, and is found
\* if there is one: for instances, if it is the only one, active, and of a user;
\* for transitions, if both names are given.  An instance found is an active one
\* (workflow_e2e_test.go:424), but in the gorm store, which finds finished ones too.
LookupsAnswer ==
  /\ \A u \in scope.users, t \in scope.types : \A i \in GetInstance(u, t) :
       /\ i = 0 => u = Anonymous \/ Active(u, t) = {}
       /\ i # 0 => i \in IF store = "gorm" THEN Of(u, t) ELSE Active(u, t)
  /\ \A i \in DOMAIN instances, step \in Steps,
        a \in ActionNames \cup {Blank} :
       \A k \in GetTransition(i, step, a) :
         /\ k = 0 => Blank \in {a, step} \/ ~\E n \in ListTransitions(i) :
                       given.transitions[n].step = step /\ given.transitions[n].action = a
         /\ k # 0 => /\ given.transitions[k].instance = i
                     /\ given.transitions[k].step = step
                     /\ a \in {Blank, given.transitions[k].action}

\* What is read back is what was given, but for a nil that reads {}.
Reads(json, value) == json = value \/ (value = Nil /\ json = EmptyObject)

ReadBack ==
  /\ \A k \in DOMAIN transitions :
       /\ [transitions[k] EXCEPT !.input = Nil] = [given.transitions[k] EXCEPT !.input = Nil]
       /\ Reads(transitions[k].input, given.transitions[k].input)
  /\ \A k \in DOMAIN transitions : \A entry \in GetTransitionHistoryHandler(k) :
       /\ given.histories[entry.id].transition = k
       /\ Reads(entry.old, given.histories[entry.id].old)
       /\ Reads(entry.new, given.histories[entry.id].new)

\* Code written against one store finds the same answers in the others, up to the
\* order of rows the store does not sort, nil for {}, and finished instances, which
\* only the gorm store finds:
\* memory/store.go:131-218, mock/store.go:285-338, gorm/store.go:179-325.
StoresAnswerAlike == ListingsAnswer /\ LookupsAnswer /\ ReadBack

\* gorm/store.go:256: a client that pages through the instances of a type or user
\* sees each one that was there when it started, whatever is created and updated
\* between two pages, as long as no two have the same created_at.
PagingSkipsNothing ==
  (/\ store = "gorm" /\ walk.stage = "done"
   /\ walk.filter.step = Blank /\ walk.filter.state = Blank /\ walk.filter.finished = Nil
   /\ \A i, j \in DOMAIN instances : i # j => instances[i].created # instances[j].created)
  => walk.start \subseteq walk.seen

\* response.go:211: the pagination computed from the total describes the page that
\* ListInstances returns, as long as offset + limit does not overflow.
PaginationDescribesThePage ==
  \A f \in HandlerFilters, limit, offset \in Ints :
    Positive(offset) + PageSize(limit) <= MaxInt =>
      \A page \in ListWorkflowsHandler(f, limit, offset) :
        LET total == Cardinality(Satisfying(f))
            info == BuildPagination(total, limit, offset)
        IN  /\ info.count = Len(page)
            /\ info.hasMore = (Positive(offset) + Len(page) < total)
=============================================================================
