# Verification of go-workflow-engine

TLA+ models of the workflow engine (`src/`), checked with TLC on small instances
and proved with TLAPS where that is possible. Paths below are relative to `src/`.

## 1. The system

A workflow is a *definition* (steps, and per step the actions that lead to other
steps and states) read from JSON. An *instance* is a row with a step, a state
and a finish time. Requests, each in a goroutine of its own, create instances
and move them by named actions; every move leaves a *transition record* and
sends an *event* to listeners.

| Component | State | Operations | Works with |
|---|---|---|---|
| Workflow service, `pkg/engine/service.go` | the event channel, `done`, `closeOnce` | CreateInstance, TransitionStep, FinishInstance, getters, EventCh, Close | calls the store, the registry, the listeners; sends on the channel |
| Definitions, `definition.go` | package map of definitions, not locked | Register/Get/UnregisterWorkflow, step and action lookups, parser | read by every request |
| Loader, `loader.go` | none | InitWorkflowsFromDir, ValidateWorkflowDefinition | fills the map of definitions |
| Validation registry, `registry.go` | map of functions under a lock | Register, Get, Has, Unregister, Clear | read twice by TransitionStep |
| Listeners, `events.go` | two lists under a lock | OnAfterTransition, OnBeforeTransition, emit, emitBefore | called by the worker, or inside TransitionStep |
| Gorm store, `pkg/store/gorm/` | tables of a database | CRUD by id, listing with filters | copies rows in and out |
| Migrations, `pkg/store/gorm/migrations.go` | table `schema_migrations` | AutoMigrate, RunMigrations, RollbackMigration | run by every process when it starts |
| Memory store, `pkg/store/memory/` | maps under a lock | as the gorm store | hands out pointers to its own objects |
| Mock store, `pkg/store/mock/` | maps under a lock | as the gorm store, and a check for duplicates | hands out copies |
| HTTP layer, `echo/` | none | view a step, act on a step, admin list, act, history | two to four service calls per request |
| Context helpers, example | context values | | |

What is hard here, and what makes each part correct:

* **Service over a database.** Nothing locks or versions a row and the service
  opens no transaction: between the read and the write of one call lie a
  validation and listeners of any length. A write may fail, or commit and be
  reported as failed; the process may die between the row, its record and its
  event. Correct means: a row always stands where its definition can lead; each
  write is one whole call away from something the row has been; refused calls
  leave nothing; successful ones leave a row, a record and an event that agree.
* **Events.** A bounded channel that drops when full, one worker, listeners that
  come at any time, other readers of the same channel, and Close. Correct means:
  what the channel accepted reaches every listener that waited for it, once and
  in order, and Close returns after that and not before.
* **Migrations.** Several processes start at once on one database and any of
  them may die at any statement. Correct means: each migration takes effect
  once, in order, and a start that reports success is one after which all are in.
* **HTTP.** A PUT looks up an instance, perhaps creates one, moves it and reads it
  again, in separate calls with other requests in between. Correct means: what is
  acted on belongs to the caller; where an answer or an action is not what the
  handler saw, some other write came in just that gap; and a status of 4xx means
  that nothing happened, unless a write itself failed.
* **Memory store.** Callers share its objects: a move is visible word by word, before
  `UpdateInstance`. Correct means: as long as two moves of one instance do not overlap,
  nobody who waits for them can tell.
* **Three stores, one interface.** Correct means: the same calls give the same answers,
  up to differences that can be named; a page is a page of what the filter means.
* **Definitions and before listeners.** A map without a lock, a directory that loads
  half, listeners that change what the next one gets. Correct means: one call uses
  one definition, a load leaves what came before the failure, a record is made of
  what the last listener returned.

`PROJECT.json` lists every component with its status, and the hazards with the
line where each one bites.

## 2. Modules

| Module | Models |
|---|---|
| `WorkflowDefinition` | lookups, what an action does to an instance, parser, validator; and which positions a definition can reach |
| `WorkflowFSM` | abstract: instances are created, moved by one action of their definition, finished for good |
| `TransitionService` | the service over a store that copies (gorm), requests as concurrent processes |
| `TransitionServiceProofs` | theorems about it: rows, and what refused calls leave |
| `TransitionServiceEffects` | theorems about it: writes, records and events of a call; without overlap it implements `WorkflowFSM` |
| `EventDispatch` | channel, worker, filters, listeners, consumers, Close |
| `EventDispatchProofs` | the theorems about it |
| `Migrations` | concurrent starts and rollbacks over `schema_migrations` |
| `MigrationsProofs` | the theorems about it |
| `HttpHandlers` | handlers and middleware, on top of `TransitionService`, which it extends |
| `HttpHandlersProofs` | the theorems about it |
| `MemoryStore` | the service over shared objects, against the same `WorkflowFSM` |
| `MemoryStoreProofs` | the theorems about it |
| `Stores` | gorm, memory and mock store under one interface; listing, pages and history of the admin routes |
| `StoresProofs` | the theorems about it |
| `WorkflowRegistry` | the loader, the map of definitions and the before listeners around a call |
| `WorkflowRegistryProofs` | the theorems about it |
| `MC...` | instances for TLC |

**TransitionService.** `instances` and `transitions` are the tables,
`validations` the registry; `frame[r]` holds the local variables of request r
(the copy GetInstanceByID returned, the action found, the input) and `pc[r]` the
access to shared state it makes next. The steps of a TransitionStep are

    BeginTransition   read of the row and lookups            service.go:155-173
    HasValidation, GetValidation   two locked reads          178-186
    EmitBefore        listeners: an input map, or an error   188-198
    UpdateInstance    write of three columns by id           200-210
    CreateTransition  marshalling and insert of the record   212-230
    SendEvent         the select                             232-247

and FinishInstance is `BeginFinish` and `SaveFinished`. A step whose effect no other
request can see is not separated from its neighbour. Each write has three
outcomes: acknowledged, committed but reported as an error, failed. `Crash` ends
all calls in flight, empties the registry to what start-up fills in and keeps the
tables. The history variable `writes` lists the committed writes of rows. `offered`
holds the events as they come to the select; what happens to them there is
EventDispatch's part.

Lookups that return a value or an error are sets with one element or none. Names
are members of small sets. Times, titles, users and logging are left out;
`finished_at` is a Boolean, because only nil or not matters. Of the input map the one
question kept is whether `json.Marshal` takes it.

**EventDispatch.** `Send` is the select of TransitionStep: it queues, drops on a
full buffer, or panics on a closed channel. The worker goes through `Receive`, `Emit`
(the copy of the list and its filters), `CallListener`, `Exit`; what it has left to call are
positions of the list, which only grows, so that the lowest is the next. `BeginClose` and
`EndClose` are the two sides of `closeOnce.Do`, the second for its first
caller (waiting for `done`) and for the rest (waiting for the once). `Consume` is a
reader of EventCh. `ClosingListeners` are listeners that may call Close.

**Migrations.** A process steps through AutoMigrate, HasTable, CreateTable,
getAppliedMigrations and the loop; applyMigration is `Apply` (inside the open
transaction), `InsertRecord` (which the primary key makes wait for, or fail on,
another's record) and `Commit`. RollbackMigration is `BeginRollback`, `Rollback` (the
function, inside the transaction) and `CommitRollback`; it asks neither whether its
migration is recorded nor what was applied after it. `StatementFails` is every error
path, and the death of the process: both roll the transaction back and lose the local
variables. `Panicking` holds the migrations of which a function may panic, `Reversible`
those with a Rollback. `ran` counts the effects of a migration in the schema,
`undone` remembers what was rolled back. The functions of migrations are the application's:
they run in the transaction they are given, and a Rollback fails on a schema without its change. The database is external; `TransactionalDDL`
says which kind it is.

**HttpHandlers.** `http[h]` is the handler of client h: the route, the values its
middleware left, the instance it found. A client makes at most one GET and then one
PUT, and the calls of its PUT are the requests `<<h, "create">>` and `<<h, "transit">>`
of TransitionService, whose steps interleave with everything (`ServiceStep`).

    BeginCreateStep   identification, GetInstance, any error of it   handlers.go:102-126
    CreateForUser     CreateInstance                                 127-132
    BeginTransitStep  the admin route's read and comparison          314-350
    TransitInstance   the first step of TransitionStep               134, 352
    Answer            its result, and one more read                  134-153, 352-370

`Groups` are the route groups of an application with their middleware: the open group of
the documentation and one behind RequireAuthMiddleware. `owner` is the column user_id.
`known`, `readAt` and `viewedAt` are history variables that say how many writes had been made
when a handler read; the properties use them to name the gap in which another
write must have come.

**MemoryStore.** The object is the state: every read of `CurrentStep` and each
assignment is a step of its own, and an assignment of a string is two (pointer and
length), so that a reader in between gets a `Torn` value. This is how a data race may
show; the Go memory model allows more, and the properties only claim what
holds when calls do not overlap on an instance. `View` maps the objects to the
instances of `WorkflowFSM`: an instance that one call changes has its old position until
the first word is stored, and its new one from then on, so that what a reader sees
between two words is left out on purpose.

**Stores.** A behaviour chooses a store and a scope (which users, types and
filters, how many rows), and makes the calls of the interface. Every answer is a
set of possible answers: a map is iterated in any order, rows that tie come in any
order. `given` keeps what callers passed in, to be compared with what they read. `walk` is a client of
GET /admin/workflows that asks for page after page. `Plus` is the sum of two ints of
`IntWidth` bits.

**WorkflowRegistry.** One goroutine loads directories and unregisters types, a call looks its
definition up, runs the copied chain of listeners and computes the row to save. A write of
the map takes time (`write`), and a lookup during it finds the old, the new or no definition, or ends
the process (`fatal`). The types it unregisters are ones that a load has just registered;
removing a type that is not there changes nothing.

## 3. Runs

| Run | Shows | Instance |
|---|---|---|
| `concurrent` | 7 safety properties and the type invariant of the service | 4 calls, 2 at once, 1 crash |
| `serial` | calls that do not overlap implement `WorkflowFSM`; a validated definition never strands an instance | 4 calls, 1 crash, a valid, a broken and an unknown type |
| `dispatch` | the promises of the event channel and of Close, and their liveness | 3 events, capacity 2, 2 listeners of which one may call Close, 2 other closers, a reader of EventCh |
| `start` | each migration is in effect once if it is recorded, in order but for rollbacks, completely, and no call waits for ever | 2 processes, 3 migrations, of which one may panic and two can be rolled back |
| `http` | what a handler did is explained by its own calls or by a write in the gap between two of them | 2 clients with a GET and a PUT each, one FinishInstance, failing writes, 1 crash, 2 route groups |
| `memory` | without overlap on an instance the memory store implements `WorkflowFSM`; finishes are final | 5 calls, 2 at once, one definition |
| `contract` | the three stores agree; pages miss nothing; the pagination describes the page | 3 stores, 4 scopes of up to 3 rows, 12 filters, limits and offsets of -1, 1, 2 and 127 with ints of 8 bits |
| `loading` | loads stop at the first broken file; a call uses one definition; listeners form a chain | 4 directories, 2 loads, 3 listeners of 3 filters, 1 call |

Four more runs show where the code differs from what its documents or comments
say. Each checks one property, quoted in `findings`:

* `finish_undone`: a transition that read the row before FinishInstance sets
  `finished_at` back to nil, because UpdateInstance writes every column of the
  copy. The same shape loses one of two transitions decided on one version.
* `send_after_close`: a TransitionStep that overlaps Close panics, its row and its
  record written.
* `stolen_events`: a reader of EventCh takes events away from the listeners.
* `panic`: a migration that panics is rolled back and reported as done.

More limits are written into the properties, each as the case it excludes:

* A validation function that is not registered at the moment is not required
  (`StartupValidationsRun` is about those that are always there).
* A listener that calls Close waits for itself for ever, with every other Close
  behind it (the liveness properties exclude that state by name).
* The gorm `GetInstance` refuses user 0, and any error of a lookup leads to a new
  instance: each anonymous PUT creates one (`SecondInstanceNeedsARace` excludes
  user 0, failed lookups, races and finished instances).
* The gorm `GetInstance` does not look at `finished_at`: after FinishInstance a PUT goes on with the
  finished instance, for ever. The memory and the mock store pass it over, which a test
  asks of the memory store (`workflow_e2e_test.go:424`), and the service calls what it finds
  active (`service.go:129`). `StoresAnswerAlike` claims it of these two and excepts gorm;
  `SecondInstanceNeedsARace` takes no side, as it excludes finished instances.
* An admin's action is taken from another step than the URL names when the row
  is written between the handler's read and that of TransitionStep.
* The stores differ in more than order: gorm finds a finished instance and reads `{}` for a nil
  JSON value; memory has instances of user 0 and takes a blank action for a name; only the mock
  refuses a second active instance. `StoresAnswerAlike` says what is left.
* Some hazards come true in the code, and the properties next to them name the case and leave it out: a move lost to
  another call's copy, a validation unregistered between two lookups, the stranded instances of
  an invalid definition, two first starts of which one fails, half a move of a shared object,
  a 400 after a write, a finished instance that is found, ties of `created_at`, an offset that wraps. `PROJECT.json` lists them with a
  note instead of a property.
* A database that commits schema changes at once may run a migration twice: `RecordedIsRun`
  is about `TransactionalDDL`, in the run and in its theorem.

Other places where a document and the code differ, met on the way and not given a run:
`middleware.go:125` and `doc.go:63` say that a request without a user goes on as user
0, and the handlers answer 401; `mock/store.go:321` "Sort by created_at DESC" reverses the
random order of a map; `Total` of ListWorkflowsResponse is the length of the page;
GetTransitionHistoryHandler does not look at `:id`; the default prefix of
RegisterRoutesWithConfig doubles `/workflows`.

**Bounds, and why they are enough.** Lost updates, undone finishes and mixed rows
take a creation and two overlapping calls; the fourth call acts on what they left.
Two in flight are enough because a row remembers nothing but its last write: a
third overlapping writer is one more pair. The definition used
has what changes the shape of a move: an action that keeps the state, one
of two actions with the same name, a step with none, a validation function that
start-up registers and one that comes and goes, a step listed twice in the file.
Three events and a channel of two reach: full, dropped, buffered
at the close, one in the worker's hands with another behind it. Capacity 100 would
add only longer queues. For migrations, two processes make every
race on the primary key, and either may die and start again; of three
migrations one can be recorded, one contended and one panic, and a rollback can leave a gap
below another. A migration is rolled back to the end once (`undone`); starts, failures
and restarts are not bounded.

Two clients suffice for `http` since every property is about one handler and one
other writer; a definition of two steps with an action that keeps the step gives an
admin the wrong step and a reader a newer row. In `memory` two calls at once tear an
instance that a third created, and two more act on what they left. In `contract` two rows that
agree and differ in each field exercise each filter, three rows with limits of 1 and 2
give a walk of several pages during which rows come in, and 127 is the largest int of 8 bits. In `loading`
two loads replace a definition under a call; the directories have each kind of entry, two
files of one type, and a broken one in the middle. Counters are bounded by `Requests`,
`Events`, `MaxCrashes`, `MaxLoads` and `MaxListeners`.

`CHECK_DEADLOCK FALSE` is set where the system really comes to rest: EventDispatch
after all events are sent and Close has returned (or hangs in a listener), HttpHandlers
and MemoryStore after the last call, WorkflowRegistry after the last load, or when
the runtime has ended the process. TransitionService never stops because the registry
can always change, Migrations because a process can always be started, Stores because rows can always be updated.

**Symmetry** is used for requests (or clients and users), in runs with safety properties and for
the two refinements, safety properties whose abstract state does not mention requests.

**Fairness.** EventDispatch: weak fairness of the worker and of the return of a
waiting Close. The Go scheduler runs a goroutine that can run, and a listener is assumed
to return. Senders, consumers and callers of Close owe nothing. Migrations: weak
fairness of a started process, and strong fairness of the insert that waits for
another's key and of the rollback that waits for another's: the database grants a lock in turn, so
neither is overtaken for ever. Failures, crashes and restarts owe nothing.
The other modules claim no liveness: every call is a straight line.

**Mutants.** Each property has a bug that breaks it (the operators called
"Mutant of ..." in the modules): a column missing from the update, a save ahead of the
listeners, a retried insert, an error that is ignored, a worker that stops at the
close, a forgotten rollback.

## 4. Proofs

Every invariant, action property and refinement of the passing runs is a theorem,
for all values of the constants that meet these assumptions:

| Module | Assumes | Because |
|---|---|---|
| `TransitionService` | the definitions name known steps, states and actions, and a step's actions are a slice; start-up validations are validation functions and none of these has the blank name; the bounds are numbers | the parser makes no others; `RegisterValidation` refuses the blank name (`registry.go:29`) |
| `HttpHandlers` | the calls of clients are requests; a route group is one of the middleware combinations | names of the model |
| `EventDispatch` | the capacity is positive; "worker" and `NoEvent` are names of nothing else | `service.go` makes a buffered channel |
| `Migrations` | the constants are what they are called | |
| `MemoryStore` | definitions as above; `Torn` is no name | |
| `Stores` | an int has a width, and the default limit and the limits and offsets are such ints; the times of a filter are numbers or nil; the store is one of the three | types of Go |
| `WorkflowRegistry` | a directory is a finite sequence of entries of the four kinds | `os.ReadDir` |

Nothing is assumed of how many requests, clients, processes, events, migrations, files, rows
or pages there are, or of which definition is used. Each proof has one preservation lemma per
action (or per group of actions that leave the same variables alone), and the theorem
of a property follows from an invariant that is stronger than it.

**The service.** `TransitionServiceProofs`:

| Theorem | States |
|---|---|
| `TypeCorrect` | `Spec => []TypeOK` |
| `RowsReachable` | `Spec => []RowsAreReachable` |
| `WritesStem` | `Spec => []WritesStemFromThePast` |
| `RejectionsTraceless` | `Spec => []RejectionsLeaveNoTrace` |
| `Invariance` | `Spec => []IInv`, which the others follow from |

None of these is inductive alone. That the row written by a call is one move from
an earlier version needs to know that the copy in the call's frame *was* a version
of the row (`FrameInv`: it is the row of a recorded write), and that follows
for the moment of the read because every current row is the outcome of a recorded write
(`HistoryInv`). The frame also has to hold an action of the step that was
read, not of the step the row has moved to since. Reachability goes over the writes, not over the rows
(`WritesAreReachable`): an overwritten position can come back, but never one
that was not written. Refusals need `ProgressInv`: a call that has not
come to its first write has left no trace. `IInv` is their conjunction.
A few lemmas carry the data: reachable positions are closed under `Advance`, `Moved` keeps
the type of a row, a write appends to the history what `SaveColumns` puts in the table.

`TransitionServiceEffects` goes on from there:

| Theorem | States |
|---|---|
| `Effects` | `Spec => []EInv`, the invariant of the next four |
| `OrderedAndOnce` | `Spec => []EffectsInOrderAndOnce` |
| `RecordsFollow` | `Spec => []RecordsFollowTheDefinition` |
| `SuccessComplete` | `Spec => []SuccessIsComplete` |
| `ValidationsRun` | `Spec => []StartupValidationsRun` |
| `ValidatedNeverStrand` | `Spec => []ValidatedWorkflowsNeverStrand` |
| `ReadsAreCurrent` | `Spec => []RowsAreLatest`: the table holds the last write of each row |

`EInv` adds to `IInv` what a call's stage says of the logs (`CallInv`): past the write there is
a write of this very move, past the record a record, and what counts as validated
was validated. The three logs only grow, so an entry found once stays. `ValidatedNeverStrand` needs no
induction over steps: the validator makes the set of a definition's steps
closed under its moves (`ValidStepsAreClosed`), and reachable positions are the least
such set, in which `RowsAreReachable` puts every row.

The module also proves `SerialServiceRefinesFSM`: `Spec => RefinesFSM` if
`MaxInFlight = 1`. The invariant is that until its write a call's copy *is* the row.
The assumption is the statement: with two calls at once the refinement is false, as
`finish_undone` shows.

**The HTTP layer.** `HttpHandlersProofs`:

| Theorem | States |
|---|---|
| `HandlersKeepStep` | `HttpSpec => [](StagesInv /\ ServiceInv)` |
| `HandlersImplementService` | `HttpSpec => Spec` |
| `HttpTypeCorrect` | `HttpSpec => []HttpTypeOK` |
| `RefusalsLeaveThingsAsTheyAre` | `HttpSpec => []RefusalsMoveNothing` |
| `UsersKeepToTheirOwn` | `HttpSpec => []UsersMoveOnlyTheirOwn` |
| `AdminsMoveFromTheNamedStep` | `HttpSpec => []AdminMovesFromTheNamedStep` |
| `RepliesShowTheMove` | `HttpSpec => []RepliesShowTheOwnMoveOrLater` |
| `SecondInstancesAreRaces` | `HttpSpec => []SecondInstanceNeedsARace` |
| `OffersAreKept` | `HttpSpec => []OfferedActionsExist` |

`HandlersImplementService` carries the theorems about the service over to the handlers; it is
no matter of form, because a handler's step is a step of the service only if
the request it uses is still idle, which `StagesInv` says (where the handler is, its two calls
are). Each property then has an invariant of its own about what a handler *remembers*:
whose instance it found (`OwnersInv`), what the admin route compared (`AdminInv`), what a
lookup missed (`RaceInv`: what it did not find had not been created), what a GET listed (`OffersInv`). A remembered row was the current one when so and so
many writes had been made, which is true for ever, and `ReadsAreCurrent` says
that a newer row comes with a newer write.

**Events.** `EventDispatchProofs`:

| Theorem | States |
|---|---|
| `DispatchTypeCorrect` | `Spec => []TypeOK` |
| `ChannelLosesNothing` | `Spec => []NothingLostInTheChannel` |
| `ClosedIsDrained` | `Spec => []CloseDrains` |
| `NoCallAfterClose` | `Spec => SilentAfterClose`, an action property |
| `ListenersHear` | `Spec => []ListenersHearAcceptedEvents` |
| `CalledInOrder` | `Spec => []CallsInOrder` |

`CloseInv` ties `once`, `done`, `closed` and the worker's place together: each is set
after the one before it. What the listeners heard needs to know where calls come from (`Origins`: of received
events, and each event and listener is there once), and what the worker has still to do: a
listener that an event is for was called or is to be called (`HearInv`), and what was
called comes before what is to be called (`OrderInv`).

**The memory store.** `MemoryStoreProofs`:

| Theorem | States |
|---|---|
| `MemoryTypeCorrect` | `Spec => []TypeOK` |
| `FinishedForGood` | `Spec => FinishedStaysFinished`, an action property |
| `UndisturbedAgree` | `Spec => []UndisturbedCallsAgree` |
| `UndisturbedRefinesFSM` | `Spec => ImplementsFSMUntilOverlap` |

`Undisturbed` says what the words of an instance are at each stage of the one call that works on
it (`InStep`), and that they are whole when there is none (`AtRest`); `Agreement` that a record and an event of
such a call were made from the same words. In the refinement the first word of
the step is the abstract `Move`, and the other three show nothing
(`FirstWordMoves`, `OtherWordsHide`).

**Three stores.** `StoresProofs` (its `TypeOK` says that rows refer to rows that are there):

| Theorem | States |
|---|---|
| `StoresTypeCorrect` | `Spec => []TypeOK` |
| `StoresKeepWhatIsGiven` | `Spec => []GivenInv` |
| `StoresAgree` | `Spec => []StoresAnswerAlike` |
| `PagesAreDescribed` | `Spec => []PaginationDescribesThePage` |
| `PagingMissesNothing` | `Spec => []PagingSkipsNothing` |

The first half is about sequences. However a store orders its rows, a listing has each row of the
filter once (`ListingHolds`: `SetToSeqs` are injections of as many numbers, and a reversed
one is another), and a page is a stretch of it (`PageIs`): as long as the rows left
at the offset and the limit allow, whether `LIMIT` and `OFFSET` cut it or slices do. What a page
holds, and what the pagination says of it, are these two facts and arithmetic; the sum in
`BuildPagination` needs the premise that it does not wrap (`NoOverflow`).
Lookups and reads follow from `GivenInv`: each row is what its caller gave, as the store keeps it.

`PagingSkipsNothing` is about the end of a walk, so its invariant says where a row
stands during one (`PagesInv`): a row of the start that was not seen has at least as many newer rows as
the offset. That is inductive because a created or updated row
never takes a newer one away (`NewerRows`), and because in a sorted listing the newer
rows are exactly those before a row (`PositionIs`), which needs that no two tie. A row
behind the page is still behind the new offset, and a page that is not full leaves
none behind it.

**Definitions, loads and before listeners.** `WorkflowRegistryProofs`:

| Theorem | States |
|---|---|
| `OneDefinitionMoves` | `Spec => []MovesByOneDefinition` |
| `LoadsInOrder` | `Spec => []DirectoriesLoadInOrder` |
| `ListenersEnrich` | `Spec => []ListenersEnrichInOrder` |

The invariants are loop invariants: the files before `next` are registered, and what one of them
registered is only replaced by a later one (`LoadInv`); the listeners before a position
have been asked or do not match, and each got what the one before returned (`ListenInv`).

**Migrations.** `MigrationsProofs`:

| Theorem | States |
|---|---|
| `TypeCorrect` | `Spec => []TypeOK` |
| `EachRunsOnce` | `Spec => []RecordedIsRun`, if schema changes are transactional |
| `InOrder` | `Spec => []RecordedInOrder` |
| `NilMeansMigrated` | `Spec => []ReturnedMeansMigrated` |

The argument is one of keys: a process between its insert and its commit is the only
one there with its migration, and that migration is not in the table; one between its
Rollback and its commit is the only one there with its own, which is in the table if schema changes are
transactional (`KeysAreExclusive`). So the commit of either changes the table. A process has
passed only what is recorded, panics or was rolled back (`PassedIsRecorded`), since what it read at the
start stays in the table unless it is rolled back. Every action but `InsertRecord`, `Rollback` and the two commits
goes through one lemma about steps that leave the table alone (`TableUntouched`).

**What the counterexamples come from.** Each of the four runs that end in one has a
theorem that names its cause: what the run refutes holds without it.

| Run | Theorem | States |
|---|---|---|
| `finish_undone` | `SerialFinishIsFinal` | `Spec => []FinishIsFinal` if `MaxInFlight = 1` |
| `send_after_close` | `PanicsFollowClose` | `Spec => [](closed \/ NoSendPanics)` |
| `stolen_events` | `ListenersAloneHearEverything` | `Spec => []WildcardsHearEverything` if `Consumers = {}` |
| `panic` | `WithoutPanicsAllRan` | `Spec => []ReturnedMeansAllRan` if `Panicking = {}` |

The first goes by an invariant of its own (`FinishInv`: a row that was ever written finished is
finished in the table), which a call keeps that writes the row it read. It is in
`TransitionServiceEffects`, the others are with the proofs of their modules.

**Only model-checked.** The liveness of EventDispatch (`CloseReturns`,
`AcceptedIsDelivered`) and of Migrations (`MigrateEnds`), because TLAPS does not prove
`ENABLED` and so no fairness; and the four runs that end in a counterexample, which
are about one behaviour each. Two refinements are proved in the form that is true:
the service implements `WorkflowFSM` if calls do not overlap, the memory store until
two of them do on one instance.

## 5. Not modelled, and why

* Formatting of responses, registration of routes, logging, timestamps other than `created_at`: no state depends on them.
* Context helpers: values of one call only, without a caller in the repository. The
  example: wiring of the library.
* Of the mock store, the counters for assertions of tests. Of the gorm store,
  ApplyOrdering, InstanceFilterBuilder and QueryOptions, which have no caller, and
  the texts of databases by which isDuplicateKeyError knows an error: the tables have no unique
  key but the id, so that error does not come.
* DropWorkflowTables, a helper without a caller.
* Loading from readers and strings, and ToJSON: the same parser, or none.
* A definition that changes between two starts of the process while rows stay, together with
  failures and crashes: WorkflowRegistry has the change, on any row; TransitionService has the failures.
* Effects of data races beyond torn strings, and of the unlocked map beyond a wrong or
  missing entry and the end of the process.

## 6. Files

`<Module>_<run>.cfg` is the configuration of a run on `<Module>.tla`.
`PROJECT.json` relates every definition to the lines it models.

    tlc -workers 2 -config MCTransitionService_concurrent.cfg MCTransitionService.tla
    tlc -workers 2 -config MCHttpHandlers_http.cfg MCHttpHandlers.tla
    for m in TransitionServiceProofs TransitionServiceEffects HttpHandlersProofs \
             EventDispatchProofs MemoryStoreProofs StoresProofs \
             WorkflowRegistryProofs MigrationsProofs; do tlapm $m.tla; done

## 7. Left open

The modules planned are written and their safety properties proved, except `Engine`:
TransitionService composed with EventDispatch, the event of a returned call followed to
its listeners. Its two halves meet in `offered` (what comes to the select,
`SuccessComplete`) and `Send` (what the channel does with it, `ListenersHear`), and the
two theorems meet there as well.
