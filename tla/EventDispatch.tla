---------------------------- MODULE EventDispatch ----------------------------
(***************************************************************************)
(* After-transition events (pkg/engine/events.go and the channel part of   *)
(* pkg/engine/service.go): TransitionStep offers its event to a bounded    *)
(* channel and never waits, a goroutine takes the events and calls the     *)
(* listeners, EventCh() gives the same channel to whoever asks, and Close  *)
(* closes the channel and waits for the goroutine.                         *)
(*                                                                         *)
(* An element of Events is the event of one TransitionStep; its workflow   *)
(* type and target state are what the filters look at.  Bounds: Events,    *)
(* Listeners and Closers are finite sets, Capacity is 100 in the code.     *)
(***************************************************************************)
EXTENDS Naturals, Sequences, FiniteSets

CONSTANTS Events, Listeners, Closers, Consumers, Capacity,
          EventType, EventState,     \* [Events -> names]
          TypeFilter, StateFilter,   \* [Listeners -> names, or AnyName]
          AnyName,                   \* the empty string: a filter that matches all
          ClosingListeners,          \* the listeners that may call Close themselves
          NoEvent                    \* in the worker's hands while it has none

ASSUME CapacityAssumption == Capacity \in Nat \ {0}

ASSUME ListenersAssumption == ClosingListeners \subseteq Listeners

ASSUME NoEventAssumption == NoEvent \notin Events

ASSUME ConsumersAssumption == "worker" \notin Consumers

VARIABLES
  eventCh, closed,   \* the channel's buffer, and whether it was closed
  once,              \* closeOnce: "free", "running" or "finished"
  done,              \* whether the channel done was closed
  listeners,         \* TransitionListenerManager.listeners
  worker,            \* processEvents: [pc, event, todo], todo being the positions in
                     \* listeners that emit has still to call
  sender,            \* what became of each event's select
  closer,            \* the callers of Close
  accepted,          \* history: the events the channel took, in order
  received,          \* history: [event, by], in order
  calls,             \* history: <<listener, event>>, in order
  knownAt            \* history: the listeners registered when an event was sent

vars == <<eventCh, closed, once, done, listeners, worker, sender, closer,
          accepted, received, calls, knownAt>>

-----------------------------------------------------------------------------
Elements(s) == {s[i] : i \in DOMAIN s}

matchesFilter(l, e) ==
  /\ TypeFilter[l] \in {AnyName, EventType[e]}
  /\ StateFilter[l] \in {AnyName, EventState[e]}

\* Mutant of matchesFilter: one filter that matches is enough.
matchesEitherFilter(l, e) ==
  \/ TypeFilter[l] \in {AnyName, EventType[e]}
  \/ StateFilter[l] \in {AnyName, EventState[e]}

Receiving == [pc |-> "receiving", event |-> NoEvent, todo |-> {}]

Init ==
  /\ eventCh = <<>> /\ closed = FALSE
  /\ once = "free" /\ done = FALSE
  /\ listeners = <<>>
  /\ worker = Receiving
  /\ sender = [e \in Events |-> "ready"]
  /\ closer = [c \in Closers |-> "idle"]
  /\ accepted = <<>> /\ received = <<>> /\ calls = <<>>
  /\ knownAt = [e \in Events |-> {}]

\* Mutant of Send: the channel is made one place larger than intended.
SendBeyondCapacity(e) ==
  /\ sender[e] = "ready"
  /\ ~closed /\ Len(eventCh) <= Capacity
  /\ sender' = [sender EXCEPT ![e] = "sent"]
  /\ eventCh' = Append(eventCh, e)
  /\ accepted' = Append(accepted, e)
  /\ knownAt' = [knownAt EXCEPT ![e] = Elements(listeners)]
  /\ UNCHANGED <<closed, once, done, listeners, worker, closer, received, calls>>

\* Mutant of Send: a full channel loses its oldest event rather than the new one.
SendDroppingOldest(e) ==
  /\ sender[e] = "ready"
  /\ ~closed
  /\ sender' = [sender EXCEPT ![e] = "sent"]
  /\ eventCh' = Append(IF Len(eventCh) = Capacity THEN Tail(eventCh) ELSE eventCh, e)
  /\ accepted' = Append(accepted, e)
  /\ knownAt' = [knownAt EXCEPT ![e] = Elements(listeners)]
  /\ UNCHANGED <<closed, once, done, listeners, worker, closer, received, calls>>

(***************************************************************************)
(* The select of TransitionStep.  A send on a closed channel panics; the   *)
(* default branch is for a channel that is full.                           *)
(***************************************************************************)
Send(e) ==
  /\ sender[e] = "ready"
  /\ \/ /\ closed
        /\ sender' = [sender EXCEPT ![e] = "panicked"]
        /\ UNCHANGED <<eventCh, accepted, knownAt>>
     \/ /\ ~closed /\ Len(eventCh) < Capacity
        /\ sender' = [sender EXCEPT ![e] = "sent"]
        /\ eventCh' = Append(eventCh, e)
        /\ accepted' = Append(accepted, e)
        /\ knownAt' = [knownAt EXCEPT ![e] = Elements(listeners)]
     \/ /\ ~closed /\ Len(eventCh) = Capacity
        /\ sender' = [sender EXCEPT ![e] = "dropped"]
        /\ UNCHANGED <<eventCh, accepted, knownAt>>
  /\ UNCHANGED <<closed, once, done, listeners, worker, closer, received, calls>>

\* A listener is registered, at any time, under the manager's lock.
OnAfterTransition(l) ==
  /\ l \notin Elements(listeners)
  /\ listeners' = Append(listeners, l)
  /\ UNCHANGED <<eventCh, closed, once, done, worker, sender, closer,
                 accepted, received, calls, knownAt>>

\* A receive from the channel, which a closed channel still serves.
TakeFrom(by) ==
  /\ eventCh # <<>>
  /\ eventCh' = Tail(eventCh)
  /\ received' = Append(received, [event |-> Head(eventCh), by |-> by])

\* processEvents takes the next event.
Receive ==
  /\ worker.pc = "receiving"
  /\ TakeFrom("worker")
  /\ worker' = [pc |-> "emitting", event |-> Head(eventCh), todo |-> {}]
  /\ UNCHANGED <<closed, once, done, listeners, sender, closer, accepted, calls, knownAt>>

\* The listeners an event is for.
Matching(e) == {i \in DOMAIN listeners : matchesFilter(listeners[i], e)}

\* Mutant of Emit: the listener registered first is left out.
EmitSkippingFirst ==
  /\ worker.pc = "emitting"
  /\ LET todo == Matching(worker.event) \ {1}
     IN  worker' = IF todo = {} THEN Receiving
                   ELSE [worker EXCEPT !.pc = "calling", !.todo = todo]
  /\ UNCHANGED <<eventCh, closed, once, done, listeners, sender, closer,
                 accepted, received, calls, knownAt>>

\* emit copies the list of listeners under the lock and calls them outside it.
Emit ==
  /\ worker.pc = "emitting"
  /\ LET todo == Matching(worker.event)
     IN  worker' = IF todo = {} THEN Receiving
                   ELSE [worker EXCEPT !.pc = "calling", !.todo = todo]
  /\ UNCHANGED <<eventCh, closed, once, done, listeners, sender, closer,
                 accepted, received, calls, knownAt>>

\* Mutant of CallListener: the listener registered last is called first.
CallListenerNewestFirst ==
  /\ worker.pc = "calling"
  /\ \E i \in worker.todo :
       /\ \A j \in worker.todo : j <= i
       /\ calls' = Append(calls, <<listeners[i], worker.event>>)
       /\ worker' = IF worker.todo = {i} THEN Receiving
                    ELSE [worker EXCEPT !.todo = @ \ {i}]
  /\ UNCHANGED <<eventCh, closed, once, done, listeners, sender, closer,
                 accepted, received, knownAt>>

(***************************************************************************)
(* One listener is called; what it returns is only logged.  A listener     *)
(* that calls Close runs it in the worker: the once is its own or another's*)
(* and either way it waits for the worker to be done.                      *)
(***************************************************************************)
CallListener ==
  /\ worker.pc = "calling"
  /\ \E i \in worker.todo :
       /\ \A j \in worker.todo : i <= j
       /\ calls' = Append(calls, <<listeners[i], worker.event>>)
       /\ \/ /\ worker' = IF worker.todo = {i} THEN Receiving
                          ELSE [worker EXCEPT !.todo = @ \ {i}]
             /\ UNCHANGED <<closed, once>>
          \/ /\ listeners[i] \in ClosingListeners
             /\ worker' = [worker EXCEPT !.pc = "blockedInClose"]
             /\ closed' = TRUE
             /\ once' = "running"
  /\ UNCHANGED <<eventCh, done, listeners, sender, closer, accepted, received, knownAt>>

\* Mutant of Exit: the goroutine stops at the close, before the channel is empty.
ExitAtClose ==
  /\ worker.pc = "receiving"
  /\ closed
  /\ worker' = [worker EXCEPT !.pc = "exited"]
  /\ done' = TRUE
  /\ UNCHANGED <<eventCh, closed, once, listeners, sender, closer,
                 accepted, received, calls, knownAt>>

\* The range over a closed and empty channel ends, and done is closed.
Exit ==
  /\ worker.pc = "receiving"
  /\ closed /\ eventCh = <<>>
  /\ worker' = [worker EXCEPT !.pc = "exited"]
  /\ done' = TRUE
  /\ UNCHANGED <<eventCh, closed, once, listeners, sender, closer,
                 accepted, received, calls, knownAt>>

\* Whoever holds EventCh() receives from the same channel.
Consume(c) ==
  /\ TakeFrom(c)
  /\ UNCHANGED <<closed, once, done, listeners, worker, sender, closer,
                 accepted, calls, knownAt>>

\* Mutant of BeginClose: Close does not wait for the worker.
BeginCloseWithoutWaiting(c) ==
  /\ closer[c] = "idle"
  /\ closer' = [closer EXCEPT ![c] = "returned"]
  /\ closed' = TRUE
  /\ once' = "finished"
  /\ UNCHANGED <<eventCh, done, listeners, worker, sender, accepted, received, calls, knownAt>>

\* Close: the first caller closes the channel, the others wait for the first.
BeginClose(c) ==
  /\ closer[c] = "idle"
  /\ \/ /\ once = "free"
        /\ once' = "running" /\ closed' = TRUE
        /\ closer' = [closer EXCEPT ![c] = "awaitDone"]
     \/ /\ once # "free"
        /\ closer' = [closer EXCEPT ![c] = "awaitOnce"]
        /\ UNCHANGED <<once, closed>>
  /\ UNCHANGED <<eventCh, done, listeners, worker, sender, accepted, received, calls, knownAt>>

\* Mutant of EndClose: the channel done is awaited outside the once, by nobody else.
EndCloseLeavingOnce(c) ==
  /\ closer[c] = "awaitDone" /\ done
  /\ closer' = [closer EXCEPT ![c] = "returned"]
  /\ UNCHANGED <<eventCh, closed, once, done, listeners, worker, sender, accepted, received, calls, knownAt>>

EndClose(c) ==
  /\ \/ closer[c] = "awaitDone" /\ done /\ once' = "finished"
     \/ closer[c] = "awaitOnce" /\ once = "finished" /\ UNCHANGED once
  /\ closer' = [closer EXCEPT ![c] = "returned"]
  /\ UNCHANGED <<eventCh, closed, done, listeners, worker, sender,
                 accepted, received, calls, knownAt>>

Worker == Receive \/ Emit \/ CallListener \/ Exit

Next ==
  \/ \E e \in Events : Send(e)
  \/ \E l \in Listeners : OnAfterTransition(l)
  \/ Worker
  \/ \E c \in Consumers : Consume(c)
  \/ \E c \in Closers : BeginClose(c) \/ EndClose(c)

\* The Go scheduler runs every goroutine that can run, and listeners return.
Fairness == WF_vars(Worker) /\ \A c \in Closers : WF_vars(EndClose(c))

Spec == Init /\ [][Next]_vars /\ Fairness

-----------------------------------------------------------------------------
(***************************************************************************)
(* Properties.                                                             *)
(***************************************************************************)
WorkerStates == {"receiving", "emitting", "calling", "blockedInClose", "exited"}

TypeOK ==
  /\ eventCh \in Seq(Events) /\ Len(eventCh) <= Capacity
  /\ closed \in BOOLEAN /\ done \in BOOLEAN
  /\ once \in {"free", "running", "finished"}
  /\ listeners \in Seq(Listeners)
  /\ worker \in [pc : WorkerStates, event : Events \cup {NoEvent}, todo : SUBSET DOMAIN listeners]
  /\ sender \in [Events -> {"ready", "sent", "dropped", "panicked"}]
  /\ closer \in [Closers -> {"idle", "awaitDone", "awaitOnce", "returned"}]
  /\ accepted \in Seq(Events)
  /\ received \in Seq([event : Events, by : {"worker"} \cup Consumers])
  /\ calls \in Seq(Listeners \X Events)
  /\ knownAt \in [Events -> SUBSET Listeners]

\* The channel loses, repeats and reorders nothing: what was received, followed
\* by what is buffered, is what was accepted.
NothingLostInTheChannel ==
  /\ Len(accepted) = Len(received) + Len(eventCh)
  /\ \A i \in DOMAIN received : received[i].event = accepted[i]
  /\ \A i \in DOMAIN eventCh : eventCh[i] = accepted[Len(received) + i]

\* Events reach the listeners in the order in which they were accepted, those of
\* one event in the order of registration, and no listener twice with one event.
CallsInOrder ==
  \A j, k \in DOMAIN calls : j < k =>
    LET Place(s, x) == CHOOSE i \in DOMAIN s : s[i] = x
        event(i) == Place(accepted, calls[i][2])
        listener(i) == Place(listeners, calls[i][1])
    IN  \/ event(j) < event(k)
        \/ event(j) = event(k) /\ listener(j) < listener(k)

ReceivedBy(by) == {received[i].event : i \in {k \in DOMAIN received : received[k].by = by}}

\* e was taken from the channel and nobody is at work on it any more.
Delivered(e) == e \in Elements(accepted) \ Elements(eventCh) /\ worker.event # e

\* events.go:77-82: a listener registered before a transition is called with its
\* event if its filters match, once the worker is through with it, and no other
\* listener is.
ListenersHearAcceptedEvents ==
  /\ \A e \in ReceivedBy("worker") : Delivered(e) =>
       \A l \in knownAt[e] : matchesFilter(l, e) => <<l, e>> \in Elements(calls)
  /\ \A k \in DOMAIN calls :
       LET l == calls[k][1]
           e == calls[k][2]
       IN  /\ TypeFilter[l] # AnyName => TypeFilter[l] = EventType[e]
           /\ StateFilter[l] # AnyName => StateFilter[l] = EventState[e]

\* service.go:89: when a Close has returned, the channel is drained, the worker
\* is gone, and every event it accepted has gone all the way.
CloseDrains ==
  (\E c \in Closers : closer[c] = "returned") =>
    /\ closed /\ done
    /\ worker.pc = "exited"
    /\ \A e \in Elements(accepted) : Delivered(e)

\* No listener is called once any caller has seen Close return.
SilentAfterClose ==
  [][(\E c \in Closers : closer[c] = "returned") => UNCHANGED calls]_vars

Stuck == worker.pc = "blockedInClose"

\* A call of Close returns, the listeners being finitely many calls away, unless
\* a listener calls Close too: that one waits for itself (service.go:93).
CloseReturns ==
  \A c \in Closers : closer[c] # "idle" ~> closer[c] = "returned" \/ Stuck

\* What the channel accepted is dispatched, or taken by a consumer, in the end,
\* closed or not, and again unless a listener calls Close.
AcceptedIsDelivered ==
  \A e \in Events : e \in Elements(accepted) ~> Delivered(e) \/ Stuck

\* events.go:79: a listener without filters hears of every transition whose event
\* the channel accepted and let go of.
WildcardsHearEverything ==
  \A e \in Events : Delivered(e) =>
    \A l \in knownAt[e] :
      TypeFilter[l] = AnyName /\ StateFilter[l] = AnyName => <<l, e>> \in Elements(calls)

\* README.md:17, "graceful shutdown": a TransitionStep that is still running when
\* Close is called comes to its end.
NoSendPanics == \A e \in Events : sender[e] # "panicked"
=============================================================================
