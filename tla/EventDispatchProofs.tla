------------------------- MODULE EventDispatchProofs -------------------------
(***************************************************************************)
(* Proofs about the event channel, its worker and Close (service.go,       *)
(* events.go): for every capacity and every set of events, listeners,      *)
(* consumers and closers, what the channel accepted is handed on once and  *)
(* in order, the listeners hear of it in that order, and a Close that has  *)
(* returned leaves nothing behind.  That it returns is liveness, and is    *)
(* left to TLC.                                                            *)
(***************************************************************************)
EXTENDS EventDispatch, TLAPS

Delivery == [event : Events, by : {"worker"} \cup Consumers]
WorkerState == [pc : WorkerStates, event : Events \cup {NoEvent},
                todo : SUBSET DOMAIN listeners]

-----------------------------------------------------------------------------
(* Facts about sequences. *)

LEMMA EmptyIsASequence == ASSUME NEW S PROVE <<>> \in Seq(S)
  OBVIOUS

LEMMA AppendKeeps ==
  ASSUME NEW S, NEW s \in Seq(S), NEW x \in S
  PROVE  /\ Append(s, x) \in Seq(S)
         /\ Len(Append(s, x)) = Len(s) + 1 /\ Len(s) \in Nat
         /\ DOMAIN s = 1 .. Len(s) /\ DOMAIN Append(s, x) = 1 .. Len(s) + 1
         /\ \A i \in DOMAIN s : i \in DOMAIN Append(s, x) /\ Append(s, x)[i] = s[i]
         /\ Append(s, x)[Len(s) + 1] = x
         /\ \A i \in DOMAIN Append(s, x) : i \in DOMAIN s \/ i = Len(s) + 1
  OBVIOUS

LEMMA TailDrops ==
  ASSUME NEW S, NEW s \in Seq(S), s # <<>>
  PROVE  /\ Tail(s) \in Seq(S) /\ Head(s) \in S /\ Head(s) = s[1]
         /\ Len(s) \in Nat /\ Len(Tail(s)) = Len(s) - 1 /\ Len(s) >= 1
         /\ DOMAIN s = 1 .. Len(s) /\ DOMAIN Tail(s) = 1 .. Len(s) - 1
         /\ \A i \in DOMAIN Tail(s) : Tail(s)[i] = s[i + 1]
  OBVIOUS

-----------------------------------------------------------------------------
(* Types. *)

\* The worker has an event in its hands exactly while it is at work on one.
WorkerHolds ==
  IF worker.pc \in {"receiving", "exited"} THEN worker.event = NoEvent
                                           ELSE worker.event \in Events

TInv == TypeOK /\ WorkerHolds

LEMMA InitTyped == Init => TInv
  <1> SUFFICES ASSUME Init PROVE TInv
    OBVIOUS
  <1>1. worker \in [pc : WorkerStates, event : Events \cup {NoEvent},
                    todo : SUBSET DOMAIN listeners]
    BY DEF Init, Receiving, WorkerStates
  <1>2. knownAt \in [Events -> SUBSET Listeners]
    BY DEF Init
  <1>3. WorkerHolds
    BY DEF Init, Receiving, WorkerHolds
  <1>4. TypeOK
    <2>1. eventCh \in Seq(Events) /\ Len(eventCh) <= Capacity
      BY CapacityAssumption DEF Init
    <2>2. closed \in BOOLEAN /\ done \in BOOLEAN /\ once \in {"free", "running", "finished"}
      BY DEF Init
    <2>4. listeners \in Seq(Listeners) /\ accepted \in Seq(Events)
      BY EmptyIsASequence DEF Init
    <2>5. received \in Seq([event : Events, by : {"worker"} \cup Consumers])
      BY EmptyIsASequence DEF Init
    <2>6. calls \in Seq(Listeners \X Events)
      BY EmptyIsASequence DEF Init
    <2>3. /\ sender \in [Events -> {"ready", "sent", "dropped", "panicked"}]
          /\ closer \in [Closers -> {"idle", "awaitDone", "awaitOnce", "returned"}]
      BY DEF Init
    <2> QED
      BY <1>1, <1>2, <2>1, <2>2, <2>3, <2>4, <2>5, <2>6 DEF TypeOK
  <1> QED
    BY <1>3, <1>4 DEF TInv

LEMMA TakeFromTyped ==
  ASSUME TypeOK, NEW by \in {"worker"} \cup Consumers, TakeFrom(by)
  PROVE  /\ eventCh' \in Seq(Events) /\ Len(eventCh') <= Capacity
         /\ received' \in Seq(Delivery) /\ Head(eventCh) \in Events
  <1>1. /\ eventCh \in Seq(Events) /\ received \in Seq(Delivery) /\ eventCh # <<>>
        /\ Len(eventCh) <= Capacity /\ Capacity \in Nat
    BY CapacityAssumption DEF TypeOK, Delivery, TakeFrom
  <1>2. /\ Tail(eventCh) \in Seq(Events) /\ Head(eventCh) \in Events
        /\ Len(Tail(eventCh)) <= Capacity
    BY <1>1, TailDrops
  <1>3. [event |-> Head(eventCh), by |-> by] \in Delivery
    BY <1>2 DEF Delivery
  <1> QED
    BY <1>1, <1>2, <1>3, AppendKeeps DEF TakeFrom

\* The worker gets to another of its states.
LEMMA WorkerTyped ==
  ASSUME TInv, UNCHANGED listeners,
         \/ worker' = Receiving
         \/ worker' = [worker EXCEPT !.pc = "exited"] /\ worker.pc = "receiving"
         \/ worker' = [worker EXCEPT !.pc = "blockedInClose"] /\ worker.pc = "calling"
         \/ \E todo \in SUBSET DOMAIN listeners :
              \/ worker' = [worker EXCEPT !.pc = "calling", !.todo = todo]
                 /\ worker.pc = "emitting"
              \/ worker' = [worker EXCEPT !.todo = todo]
         \/ \E e \in Events : worker' = [pc |-> "emitting", event |-> e, todo |-> {}]
  PROVE  /\ worker' \in [pc : WorkerStates, event : Events \cup {NoEvent},
                         todo : SUBSET DOMAIN listeners']
         /\ WorkerHolds'
  <1>1. worker \in WorkerState
    BY DEF TInv, TypeOK, WorkerState
  <1>2. WorkerStates = {"receiving", "emitting", "calling", "blockedInClose", "exited"}
    BY DEF WorkerStates
  <1>3. worker' \in WorkerState /\ WorkerHolds'
    <2>1. CASE worker' = Receiving
      BY <1>2, <2>1 DEF Receiving, WorkerState, WorkerHolds
    <2>2. CASE worker' = [worker EXCEPT !.pc = "exited"] /\ worker.pc = "receiving"
      BY <1>1, <1>2, <2>2 DEF WorkerState, TInv, WorkerHolds
    <2>3. CASE worker' = [worker EXCEPT !.pc = "blockedInClose"] /\ worker.pc = "calling"
      BY <1>1, <1>2, <2>3 DEF WorkerState, TInv, WorkerHolds
    <2>4. ASSUME NEW todo \in SUBSET DOMAIN listeners, worker.pc = "emitting",
                 worker' = [worker EXCEPT !.pc = "calling", !.todo = todo]
          PROVE  worker' \in WorkerState /\ WorkerHolds'
      BY <1>1, <1>2, <2>4 DEF WorkerState, TInv, WorkerHolds
    <2>5. ASSUME NEW todo \in SUBSET DOMAIN listeners, worker' = [worker EXCEPT !.todo = todo]
          PROVE  worker' \in WorkerState /\ WorkerHolds'
      <3>1. worker' \in WorkerState /\ worker'.pc = worker.pc /\ worker'.event = worker.event
        BY <1>1, <2>5 DEF WorkerState
      <3> QED
        BY <3>1 DEF TInv, WorkerHolds
    <2>6. ASSUME NEW e \in Events, worker' = [pc |-> "emitting", event |-> e, todo |-> {}]
          PROVE  worker' \in WorkerState /\ WorkerHolds'
      <3>1. worker'.pc = "emitting" /\ worker'.event = e
        BY <2>6
      <3>2. worker' \in WorkerState
        BY <1>2, <2>6 DEF WorkerState
      <3> QED
        BY <3>1, <3>2 DEF WorkerHolds
    <2> QED
      BY <2>1, <2>2, <2>3, <2>4, <2>5, <2>6
  <1> QED
    BY <1>3 DEF WorkerState

LEMMA NextTyped == TInv /\ [Next]_vars => TInv'
  <1> SUFFICES ASSUME TypeOK, TInv, [Next]_vars PROVE TInv'
    BY DEF TInv
  <1>1. ASSUME NEW e \in Events, Send(e) PROVE TInv'
    <2>1. /\ eventCh \in Seq(Events) /\ accepted \in Seq(Events) /\ Capacity \in Nat
          /\ listeners \in Seq(Listeners)
      BY CapacityAssumption DEF TypeOK
    <2>2. eventCh' \in Seq(Events) /\ Len(eventCh') <= Capacity /\ accepted' \in Seq(Events)
      <3>1. CASE UNCHANGED <<eventCh, accepted>>
        BY <3>1 DEF TypeOK
      <3>2. CASE /\ Len(eventCh) < Capacity /\ eventCh' = Append(eventCh, e)
                 /\ accepted' = Append(accepted, e)
        BY <2>1, <3>2, AppendKeeps
      <3> QED
        BY <1>1, <3>1, <3>2 DEF Send
    <2>3. knownAt' \in [Events -> SUBSET Listeners]
      <3>1. Elements(listeners) \in SUBSET Listeners
        BY <2>1 DEF Elements
      <3>2. knownAt \in [Events -> SUBSET Listeners]
        BY DEF TypeOK
      <3>3. knownAt' \in {knownAt, [knownAt EXCEPT ![e] = Elements(listeners)]}
        BY <1>1 DEF Send
      <3> QED
        BY <3>1, <3>2, <3>3
    <2>4. sender' \in [Events -> {"ready", "sent", "dropped", "panicked"}]
      BY <1>1 DEF Send, TypeOK
    <2> QED
      BY <1>1, <2>2, <2>3, <2>4 DEF Send, TypeOK, TInv, WorkerHolds
  <1>2. ASSUME NEW l \in Listeners, OnAfterTransition(l) PROVE TInv'
    <2>1. /\ listeners' \in Seq(Listeners) /\ DOMAIN listeners \subseteq DOMAIN listeners'
      BY <1>2, AppendKeeps DEF OnAfterTransition, TypeOK
    <2>2. worker' \in [pc : WorkerStates, event : Events \cup {NoEvent},
                       todo : SUBSET DOMAIN listeners']
      BY <1>2, <2>1 DEF OnAfterTransition, TypeOK
    <2> QED
      BY <1>2, <2>1, <2>2 DEF OnAfterTransition, TypeOK, TInv, WorkerHolds
  <1>3. CASE Receive
    <2>1. TakeFrom("worker") /\ UNCHANGED listeners
      BY <1>3 DEF Receive
    <2>2. worker' \in [pc : WorkerStates, event : Events \cup {NoEvent},
                       todo : SUBSET DOMAIN listeners'] /\ WorkerHolds'
      BY <1>3, <2>1, TakeFromTyped, WorkerTyped DEF Receive
    <2> QED
      BY <1>3, <2>1, <2>2, TakeFromTyped DEF Receive, TypeOK, TInv, Delivery
  <1>4. CASE Emit
    <2>1. Matching(worker.event) \in SUBSET DOMAIN listeners
      BY DEF Matching
    <2>2. worker' \in [pc : WorkerStates, event : Events \cup {NoEvent},
                       todo : SUBSET DOMAIN listeners'] /\ WorkerHolds'
      BY <1>4, <2>1, WorkerTyped DEF Emit
    <2> QED
      BY <1>4, <2>2 DEF Emit, TypeOK, TInv
  <1>5. CASE CallListener
    <2>1. PICK i \in worker.todo :
            /\ calls' = Append(calls, <<listeners[i], worker.event>>)
            /\ \/ /\ \/ worker' = Receiving
                     \/ worker' = [worker EXCEPT !.todo = worker.todo \ {i}]
                  /\ UNCHANGED <<closed, once>>
               \/ /\ worker' = [worker EXCEPT !.pc = "blockedInClose"]
                  /\ closed' = TRUE
                  /\ once' = "running"
      BY <1>5 DEF CallListener
    <2>2. worker.todo \subseteq DOMAIN listeners /\ listeners \in Seq(Listeners)
      BY DEF TypeOK
    <2>3. worker' \in [pc : WorkerStates, event : Events \cup {NoEvent},
                       todo : SUBSET DOMAIN listeners'] /\ WorkerHolds'
      <3>1. worker.todo \ {i} \in SUBSET DOMAIN listeners /\ "blockedInClose" \in WorkerStates
        BY <2>2 DEF WorkerStates
      <3> QED
        BY <1>5, <2>1, <3>1, WorkerTyped DEF CallListener
    <2>4. calls' \in Seq(Listeners \X Events)
      <3>1. <<listeners[i], worker.event>> \in Listeners \X Events
        BY <1>5, <2>2 DEF CallListener, TInv, WorkerHolds
      <3> QED
        BY <2>1, <3>1, AppendKeeps DEF TypeOK
    <2> QED
      BY <1>5, <2>1, <2>3, <2>4 DEF CallListener, TypeOK, TInv
  <1>6. CASE Exit
    <2>1. worker' \in [pc : WorkerStates, event : Events \cup {NoEvent},
                       todo : SUBSET DOMAIN listeners'] /\ WorkerHolds'
      BY <1>6, WorkerTyped DEF Exit, WorkerStates
    <2> QED
      BY <1>6, <2>1 DEF Exit, TypeOK, TInv
  <1>7. ASSUME NEW c \in Consumers, Consume(c) PROVE TInv'
    BY <1>7, TakeFromTyped DEF Consume, TypeOK, TInv, WorkerHolds, Delivery
  <1>8. ASSUME NEW c \in Closers, BeginClose(c) \/ EndClose(c) PROVE TInv'
    BY <1>8 DEF BeginClose, EndClose, TypeOK, TInv, WorkerHolds
  <1>9. CASE UNCHANGED vars
    BY <1>9 DEF vars, TypeOK, TInv, WorkerHolds
  <1> QED
    BY <1>1, <1>2, <1>3, <1>4, <1>5, <1>6, <1>7, <1>8, <1>9 DEF Next, Worker

LEMMA DispatchTyped == Spec => []TInv
  BY InitTyped, NextTyped, PTL DEF Spec

\* The channel never holds more than its capacity, and the worker, the senders and
\* the callers of Close are in one of their states.
THEOREM DispatchTypeCorrect == Spec => []TypeOK
  BY DispatchTyped, PTL DEF TInv

-----------------------------------------------------------------------------
(* The channel. *)

LEMMA ChannelTakes ==
  ASSUME TInv, NothingLostInTheChannel, NEW by \in {"worker"} \cup Consumers, TakeFrom(by),
         UNCHANGED accepted
  PROVE  NothingLostInTheChannel'
  <1>1. /\ eventCh \in Seq(Events) /\ received \in Seq(Delivery) /\ accepted \in Seq(Events)
        /\ eventCh # <<>>
    BY DEF TInv, TypeOK, Delivery, TakeFrom
  <1>2. [event |-> Head(eventCh), by |-> by] \in Delivery
    BY <1>1, TailDrops DEF Delivery
  <1>3. Len(accepted') = Len(received') + Len(eventCh')
    <2>1. /\ Len(received') = Len(received) + 1 /\ Len(received) \in Nat
      BY <1>1, <1>2, AppendKeeps DEF TakeFrom
    <2>2. Len(eventCh') = Len(eventCh) - 1 /\ Len(eventCh) \in Nat
      BY <1>1, TailDrops DEF TakeFrom
    <2> QED
      BY <2>1, <2>2 DEF NothingLostInTheChannel
  <1>4. ASSUME NEW i \in DOMAIN received' PROVE received'[i].event = accepted'[i]
    <2>1. CASE i \in DOMAIN received
      BY <1>1, <1>2, <2>1, AppendKeeps DEF TakeFrom, NothingLostInTheChannel
    <2>2. CASE i = Len(received) + 1
      <3>1. received'[i].event = Head(eventCh)
        BY <1>1, <1>2, <2>2, AppendKeeps DEF TakeFrom
      <3>2. 1 \in DOMAIN eventCh /\ Head(eventCh) = eventCh[1]
        BY <1>1, TailDrops
      <3> QED
        BY <2>2, <3>1, <3>2 DEF NothingLostInTheChannel
    <2> QED
      BY <1>1, <1>2, <2>1, <2>2, AppendKeeps DEF TakeFrom
  <1>5. ASSUME NEW i \in DOMAIN eventCh' PROVE eventCh'[i] = accepted'[Len(received') + i]
    <2>1. i \in Nat /\ i + 1 \in DOMAIN eventCh /\ eventCh'[i] = eventCh[i + 1]
      BY <1>1, TailDrops DEF TakeFrom
    <2>2. Len(received') = Len(received) + 1 /\ Len(received) \in Nat
      BY <1>1, <1>2, AppendKeeps DEF TakeFrom
    <2>3. Len(received') + i = Len(received) + (i + 1)
      BY <2>1, <2>2
    <2> QED
      BY <2>1, <2>3 DEF NothingLostInTheChannel
  <1> QED
    BY <1>3, <1>4, <1>5 DEF NothingLostInTheChannel

LEMMA ChannelGives ==
  ASSUME TInv, NothingLostInTheChannel, NEW e \in Events, UNCHANGED received,
         eventCh' = Append(eventCh, e), accepted' = Append(accepted, e)
  PROVE  NothingLostInTheChannel'
  <1>1. /\ eventCh \in Seq(Events) /\ received \in Seq(Delivery) /\ accepted \in Seq(Events)
    BY DEF TInv, TypeOK, Delivery
  <1>2. Len(accepted') = Len(received') + Len(eventCh') /\ Len(received) \in Nat
    BY <1>1, AppendKeeps DEF NothingLostInTheChannel
  <1>3. ASSUME NEW i \in DOMAIN received' PROVE received'[i].event = accepted'[i]
    <2>1. i \in DOMAIN accepted
      BY <1>1, AppendKeeps DEF NothingLostInTheChannel
    <2> QED
      BY <1>1, <2>1, AppendKeeps DEF NothingLostInTheChannel
  <1>4. ASSUME NEW i \in DOMAIN eventCh' PROVE eventCh'[i] = accepted'[Len(received') + i]
    <2>1. CASE i \in DOMAIN eventCh
      <3>1. Len(received) + i \in DOMAIN accepted
        BY <1>1, <2>1, AppendKeeps DEF NothingLostInTheChannel
      <3> QED
        BY <1>1, <2>1, <3>1, AppendKeeps DEF NothingLostInTheChannel
    <2>2. CASE i = Len(eventCh) + 1
      <3>1. Len(received') + i = Len(accepted) + 1
        BY <1>1, <2>2, AppendKeeps DEF NothingLostInTheChannel
      <3> QED
        BY <1>1, <2>2, <3>1, AppendKeeps
    <2> QED
      BY <1>1, <2>1, <2>2, AppendKeeps
  <1> QED
    BY <1>2, <1>3, <1>4 DEF NothingLostInTheChannel

LEMMA ChannelStep ==
  TInv /\ NothingLostInTheChannel /\ [Next]_vars => NothingLostInTheChannel'
  <1> SUFFICES ASSUME TInv, NothingLostInTheChannel, [Next]_vars
               PROVE  NothingLostInTheChannel'
    OBVIOUS
  <1>1. CASE UNCHANGED <<eventCh, accepted, received>>
    BY <1>1 DEF NothingLostInTheChannel
  <1>2. ASSUME NEW e \in Events, Send(e) PROVE NothingLostInTheChannel'
    BY <1>1, <1>2, ChannelGives DEF Send
  <1>3. CASE Receive
    BY <1>3, ChannelTakes DEF Receive
  <1>4. ASSUME NEW c \in Consumers, Consume(c) PROVE NothingLostInTheChannel'
    BY <1>4, ChannelTakes DEF Consume
  <1>5. ASSUME NEW l \in Listeners, OnAfterTransition(l) PROVE NothingLostInTheChannel'
    BY <1>1, <1>5 DEF OnAfterTransition
  <1>6. CASE Emit \/ CallListener \/ Exit
    BY <1>1, <1>6 DEF Emit, CallListener, Exit
  <1>7. ASSUME NEW c \in Closers, BeginClose(c) \/ EndClose(c)
        PROVE  NothingLostInTheChannel'
    BY <1>1, <1>7 DEF BeginClose, EndClose
  <1>8. CASE UNCHANGED vars
    BY <1>1, <1>8 DEF vars
  <1> QED
    BY <1>2, <1>3, <1>4, <1>5, <1>6, <1>7, <1>8 DEF Next, Worker

\* The channel loses, repeats and reorders nothing, whoever receives from it, and
\* whether or not it is closed meanwhile (service.go, events.go).
THEOREM ChannelLosesNothing == Spec => []NothingLostInTheChannel
  <1>1. Init => NothingLostInTheChannel
    BY DEF Init, NothingLostInTheChannel
  <1> QED
    BY <1>1, DispatchTyped, ChannelStep, PTL DEF Spec

-----------------------------------------------------------------------------
(* Close. *)

\* How far a Close has got is how far the worker has got.
CloseInv ==
  /\ done <=> worker.pc = "exited"
  /\ done => closed /\ eventCh = <<>>
  /\ once = "finished" => done
  /\ \A c \in Closers : closer[c] = "returned" => once = "finished"

LEMMA CloseStep == TInv /\ CloseInv /\ [Next]_vars => CloseInv'
  <1> SUFFICES ASSUME TInv, CloseInv, [Next]_vars PROVE CloseInv'
    OBVIOUS
  <1>0. worker \in WorkerState /\ closer \in [Closers -> {"idle", "awaitDone", "awaitOnce", "returned"}]
    BY DEF TInv, TypeOK, WorkerState
  <1>1. ASSUME NEW e \in Events, Send(e) PROVE CloseInv'
    BY <1>1 DEF Send, CloseInv
  <1>2. ASSUME NEW l \in Listeners, OnAfterTransition(l) PROVE CloseInv'
    BY <1>2 DEF OnAfterTransition, CloseInv
  <1>3. CASE Receive
    BY <1>3 DEF Receive, CloseInv
  <1>4. CASE Emit
    <2>1. ~done /\ worker'.pc # "exited"
      BY <1>0, <1>4 DEF Emit, CloseInv, Receiving, WorkerState
    <2> QED
      BY <1>4, <2>1 DEF Emit, CloseInv
  <1>5. CASE CallListener
    <2>1. ~done /\ worker'.pc # "exited" /\ once # "finished"
      BY <1>0, <1>5 DEF CallListener, CloseInv, Receiving, WorkerState
    <2>2. \A c \in Closers : closer'[c] # "returned"
      BY <1>5, <2>1 DEF CallListener, CloseInv
    <2>3. once' # "finished" /\ ~done'
      BY <1>5, <2>1 DEF CallListener
    <2> QED
      BY <2>1, <2>2, <2>3 DEF CloseInv
  <1>6. CASE Exit
    <2>1. worker'.pc = "exited"
      BY <1>0, <1>6 DEF Exit, WorkerState
    <2> QED
      BY <1>6, <2>1 DEF Exit, CloseInv
  <1>7. ASSUME NEW c \in Consumers, Consume(c) PROVE CloseInv'
    BY <1>7 DEF Consume, TakeFrom, CloseInv
  <1>8. ASSUME NEW c \in Closers, BeginClose(c) PROVE CloseInv'
    BY <1>0, <1>8 DEF BeginClose, CloseInv
  <1>9. ASSUME NEW c \in Closers, EndClose(c) PROVE CloseInv'
    <2>1. done /\ once' = "finished"
      BY <1>9 DEF EndClose, CloseInv
    <2> QED
      BY <1>9, <2>1 DEF EndClose, CloseInv
  <1>10. CASE UNCHANGED vars
    BY <1>10 DEF vars, CloseInv
  <1> QED
    BY <1>1, <1>2, <1>3, <1>4, <1>5, <1>6, <1>7, <1>8, <1>9, <1>10 DEF Next, Worker

LEMMA CloseHolds == Spec => []CloseInv
  <1>1. Init => CloseInv
    BY DEF Init, CloseInv, Receiving
  <1> QED
    BY <1>1, DispatchTyped, CloseStep, PTL DEF Spec

\* A Close that has returned, to whichever of its callers, leaves the channel
\* drained, the worker gone and no accepted event behind (service.go:89).
THEOREM ClosedIsDrained == Spec => []CloseDrains
  <1>1. TInv /\ CloseInv => CloseDrains
    <2> SUFFICES ASSUME TInv, CloseInv, NEW c \in Closers, closer[c] = "returned"
                 PROVE  /\ closed /\ done /\ worker.pc = "exited"
                        /\ \A e \in Elements(accepted) : Delivered(e)
      BY DEF CloseDrains
    <2>1. closed /\ done /\ worker.pc = "exited" /\ eventCh = <<>>
      BY DEF CloseInv
    <2>2. worker.event = NoEvent
      BY <2>1 DEF TInv, WorkerHolds
    <2>3. ASSUME NEW e \in Elements(accepted) PROVE Delivered(e)
      <3>1. e \in Events
        BY DEF TInv, TypeOK, Elements
      <3>2. Elements(eventCh) = {}
        BY <2>1 DEF Elements
      <3> QED
        BY <2>2, <3>1, <3>2, NoEventAssumption DEF Delivered
    <2> QED
      BY <2>1, <2>3
  <1> QED
    BY <1>1, DispatchTyped, CloseHolds, PTL

\* Once any caller has seen Close return, no listener is called (service.go:89).
THEOREM NoCallAfterClose == Spec => SilentAfterClose
  <1>1. /\ CloseInv /\ [Next]_vars
        => [(\E c \in Closers : closer[c] = "returned") => UNCHANGED calls]_vars
    <2> SUFFICES ASSUME CloseInv, [Next]_vars, NEW c \in Closers, closer[c] = "returned"
                 PROVE  UNCHANGED calls
      OBVIOUS
    <2>1. worker.pc = "exited"
      BY DEF CloseInv
    <2>2. ASSUME NEW e \in Events, Send(e) PROVE UNCHANGED calls
      BY <2>2 DEF Send
    <2>3. ASSUME NEW l \in Listeners, OnAfterTransition(l) PROVE UNCHANGED calls
      BY <2>3 DEF OnAfterTransition
    <2>4. CASE Worker
      BY <2>1, <2>4 DEF Worker, Receive, Emit, CallListener, Exit
    <2>5. ASSUME NEW k \in Consumers, Consume(k) PROVE UNCHANGED calls
      BY <2>5 DEF Consume
    <2>6. ASSUME NEW k \in Closers, BeginClose(k) \/ EndClose(k) PROVE UNCHANGED calls
      BY <2>6 DEF BeginClose, EndClose
    <2>7. CASE UNCHANGED vars
      BY <2>7 DEF vars
    <2> QED
      BY <2>2, <2>3, <2>4, <2>5, <2>6, <2>7 DEF Next
  <1> QED
    BY <1>1, CloseHolds, PTL DEF Spec, SilentAfterClose

-----------------------------------------------------------------------------
(* Where events and calls come from. *)

\* An event is accepted once and a listener registered once; who is called, and
\* with what, has been registered, and received by the worker.
Origins ==
  /\ \A a, b \in DOMAIN accepted : accepted[a] = accepted[b] => a = b
  /\ \A a \in DOMAIN accepted : sender[accepted[a]] = "sent"
  /\ \A p, q \in DOMAIN listeners : listeners[p] = listeners[q] => p = q
  /\ \A e \in Events : knownAt[e] \subseteq Elements(listeners)
  /\ \A k \in DOMAIN calls : calls[k][1] \in Elements(listeners)
                             /\ calls[k][2] \in ReceivedBy("worker")
  /\ worker.event # NoEvent => worker.event \in ReceivedBy("worker")
  /\ worker.todo \subseteq Matching(worker.event)

DInv == TInv /\ NothingLostInTheChannel /\ Origins

LEMMA Sequences ==
  ASSUME TypeOK
  PROVE  /\ eventCh \in Seq(Events) /\ accepted \in Seq(Events) /\ listeners \in Seq(Listeners)
         /\ received \in Seq(Delivery) /\ calls \in Seq(Listeners \X Events)
         /\ worker \in WorkerState
  BY DEF TypeOK, Delivery, WorkerState

\* What the worker received was accepted, no later than it was received.
LEMMA ReceivedWasAccepted ==
  ASSUME TInv, NothingLostInTheChannel, NEW e \in ReceivedBy("worker")
  PROVE  /\ e \in Events
         /\ \E p \in DOMAIN accepted : p <= Len(received) /\ accepted[p] = e
  <1>1. PICK p \in DOMAIN received : received[p].event = e
    BY DEF ReceivedBy
  <1>2. /\ received \in Seq(Delivery) /\ accepted \in Seq(Events) /\ eventCh \in Seq(Events)
    BY Sequences DEF TInv
  <1>3. p \in 1 .. Len(received) /\ Len(received) \in Nat /\ Len(eventCh) \in Nat
        /\ DOMAIN accepted = 1 .. Len(accepted)
    BY <1>1, <1>2
  <1>4. p \in DOMAIN accepted /\ p <= Len(received)
    BY <1>3 DEF NothingLostInTheChannel
  <1> QED
    BY <1>1, <1>2, <1>4 DEF NothingLostInTheChannel

LEMMA ReceivedStays ==
  ASSUME TypeOK, NEW by \in {"worker"} \cup Consumers, TakeFrom(by)
  PROVE  /\ ReceivedBy("worker") \subseteq ReceivedBy("worker")'
         /\ by = "worker" => Head(eventCh) \in ReceivedBy("worker")'
         /\ by # "worker" => ReceivedBy("worker")' = ReceivedBy("worker")
         /\ ReceivedBy("worker")' \subseteq ReceivedBy("worker") \cup {Head(eventCh)}
  <1>1. received \in Seq(Delivery) /\ [event |-> Head(eventCh), by |-> by] \in Delivery
    BY Sequences, TakeFromTyped DEF Delivery
  <1>2. /\ Len(received) + 1 \in DOMAIN received'
        /\ received'[Len(received) + 1] = [event |-> Head(eventCh), by |-> by]
        /\ \A i \in DOMAIN received : i \in DOMAIN received' /\ received'[i] = received[i]
        /\ \A i \in DOMAIN received' : i \in DOMAIN received \/ i = Len(received) + 1
    BY <1>1, AppendKeeps DEF TakeFrom
  <1> HIDE DEF TakeFrom
  <1>3. ReceivedBy("worker") \subseteq ReceivedBy("worker")'
    BY <1>2 DEF ReceivedBy
  <1>4. by = "worker" => Head(eventCh) \in ReceivedBy("worker")'
    BY <1>2 DEF ReceivedBy
  <1>5. ASSUME NEW e \in ReceivedBy("worker")'
        PROVE  e \in ReceivedBy("worker") \/ (e = Head(eventCh) /\ by = "worker")
    <2>1. PICK i \in DOMAIN received' : received'[i].by = "worker" /\ received'[i].event = e
      BY DEF ReceivedBy
    <2>2. CASE i \in DOMAIN received
      BY <1>2, <2>1, <2>2 DEF ReceivedBy
    <2>3. CASE i = Len(received) + 1
      BY <1>2, <2>1, <2>3
    <2> QED
      BY <1>2, <2>1, <2>2, <2>3
  <1> QED
    BY <1>3, <1>4, <1>5

LEMMA OriginsStep == DInv /\ [Next]_vars => Origins'
  <1> SUFFICES ASSUME TypeOK, TInv, NothingLostInTheChannel, Origins, [Next]_vars
               PROVE  Origins'
    BY DEF DInv, TInv
  <1>0. /\ eventCh \in Seq(Events) /\ accepted \in Seq(Events) /\ listeners \in Seq(Listeners)
        /\ received \in Seq(Delivery) /\ calls \in Seq(Listeners \X Events)
        /\ worker \in WorkerState
    BY Sequences
  <1>1. ASSUME NEW e \in Events, Send(e) PROVE Origins'
    <2>1. UNCHANGED <<listeners, worker, calls, received>> /\ sender[e] = "ready"
      BY <1>1 DEF Send
    <2>2. CASE UNCHANGED <<accepted, knownAt>>
      <3>1. sender' \in {[sender EXCEPT ![e] = s] : s \in {"sent", "dropped", "panicked"}}
        BY <1>1 DEF Send
      <3>2. \A a \in DOMAIN accepted : sender'[accepted[a]] = "sent"
        BY <2>1, <3>1 DEF Origins, TypeOK
      <3> QED
        BY <2>1, <2>2, <3>2 DEF Origins, Elements, ReceivedBy, Matching
    <2>3. CASE /\ accepted' = Append(accepted, e)
               /\ knownAt' = [knownAt EXCEPT ![e] = Elements(listeners)]
               /\ sender' = [sender EXCEPT ![e] = "sent"]
      <3>1. \A a \in DOMAIN accepted : accepted[a] # e /\ accepted[a] \in Events
        BY <1>0, <2>1 DEF Origins
      <3>2. sender' \in [Events -> {"ready", "sent", "dropped", "panicked"}] /\ sender'[e] = "sent"
            /\ \A x \in Events \ {e} : sender'[x] = sender[x]
        BY <2>3 DEF TypeOK
      <3>3. /\ \A a \in DOMAIN accepted' : a \in DOMAIN accepted \/ a = Len(accepted) + 1
            /\ \A a \in DOMAIN accepted : accepted'[a] = accepted[a]
            /\ accepted'[Len(accepted) + 1] = e
        BY <1>0, <2>3, AppendKeeps
      <3>4. \A a, b \in DOMAIN accepted' : accepted'[a] = accepted'[b] => a = b
        BY <3>1, <3>3 DEF Origins
      <3>5. \A a \in DOMAIN accepted' : sender'[accepted'[a]] = "sent"
        BY <3>1, <3>2, <3>3 DEF Origins
      <3>6. \A x \in Events : knownAt'[x] \subseteq Elements(listeners')
        BY <2>1, <2>3 DEF Origins, Elements, TypeOK
      <3> QED
        BY <2>1, <3>4, <3>5, <3>6 DEF Origins, Elements, ReceivedBy, Matching
    <2> QED
      BY <1>1, <2>2, <2>3 DEF Send
  <1>2. ASSUME NEW l \in Listeners, OnAfterTransition(l) PROVE Origins'
    <2>1. /\ UNCHANGED <<accepted, sender, knownAt, calls, worker, received>>
          /\ l \notin Elements(listeners)
      BY <1>2 DEF OnAfterTransition
    <2>2. /\ \A i \in DOMAIN listeners : i \in DOMAIN listeners' /\ listeners'[i] = listeners[i]
          /\ \A i \in DOMAIN listeners' : i \in DOMAIN listeners \/ i = Len(listeners) + 1
          /\ listeners'[Len(listeners) + 1] = l
      BY <1>0, <1>2, AppendKeeps DEF OnAfterTransition
    <2>3. Elements(listeners) \subseteq Elements(listeners')
      BY <2>2 DEF Elements
    <2>4. \A p, q \in DOMAIN listeners' : listeners'[p] = listeners'[q] => p = q
      BY <2>1, <2>2 DEF Origins, Elements
    <2>5. worker'.todo \subseteq Matching(worker.event)'
      BY <2>1, <2>2 DEF Origins, Matching, matchesFilter
    <2> QED
      BY <2>1, <2>3, <2>4, <2>5 DEF Origins, ReceivedBy, Elements
  <1>3. CASE Receive
    <2>1. /\ UNCHANGED <<accepted, sender, knownAt, calls, listeners>> /\ TakeFrom("worker")
          /\ worker'.event = Head(eventCh) /\ worker'.todo = {}
      BY <1>3 DEF Receive
    <2>2. /\ ReceivedBy("worker") \subseteq ReceivedBy("worker")'
          /\ Head(eventCh) \in ReceivedBy("worker")'
      BY <2>1, ReceivedStays
    <2> QED
      BY <2>1, <2>2 DEF Origins, Elements
  <1>4. CASE Emit
    <2>1. UNCHANGED <<accepted, sender, knownAt, calls, listeners, received>>
      BY <1>4 DEF Emit
    <2>2. CASE worker' = Receiving
      BY <2>1, <2>2 DEF Receiving, Origins, Elements, ReceivedBy
    <2>3. CASE worker' = [worker EXCEPT !.pc = "calling", !.todo = Matching(worker.event)]
      <3>1. worker'.event = worker.event /\ worker'.todo = Matching(worker.event)
        BY <1>0, <2>3 DEF WorkerState
      <3> QED
        BY <2>1, <3>1 DEF Origins, Elements, ReceivedBy, Matching
    <2> QED
      BY <1>4, <2>2, <2>3 DEF Emit
  <1>5. CASE CallListener
    <2>1. PICK i \in worker.todo :
            /\ calls' = Append(calls, <<listeners[i], worker.event>>)
            /\ \/ worker' = Receiving
               \/ worker' = [worker EXCEPT !.todo = worker.todo \ {i}]
               \/ worker' = [worker EXCEPT !.pc = "blockedInClose"]
      BY <1>5 DEF CallListener
    <2>2. UNCHANGED <<accepted, sender, knownAt, listeners, received>> /\ worker.pc = "calling"
      BY <1>5 DEF CallListener
    <2>3. worker.event \in Events /\ worker.event # NoEvent
      BY <2>2, NoEventAssumption DEF TInv, WorkerHolds
    <2>4. listeners[i] \in Listeners /\ i \in DOMAIN listeners
      BY <1>0 DEF WorkerState
    <2>5. \A k \in DOMAIN calls' : calls'[k][1] \in Elements(listeners)
                                   /\ calls'[k][2] \in ReceivedBy("worker")
      <3>1. <<listeners[i], worker.event>> \in Listeners \X Events
        BY <2>3, <2>4
      <3>2. listeners[i] \in Elements(listeners) /\ worker.event \in ReceivedBy("worker")
        BY <2>3, <2>4 DEF Elements, Origins
      <3> QED
        BY <1>0, <2>1, <3>1, <3>2, AppendKeeps DEF Origins
    <2>6. /\ worker'.event \in {NoEvent, worker.event}
          /\ worker'.todo \subseteq worker.todo
          /\ worker'.event # worker.event => worker'.todo = {}
      <3>1. CASE worker' = Receiving
        BY <3>1 DEF Receiving
      <3>2. CASE worker' = [worker EXCEPT !.todo = worker.todo \ {i}]
        BY <1>0, <3>2 DEF WorkerState
      <3>3. CASE worker' = [worker EXCEPT !.pc = "blockedInClose"]
        BY <1>0, <3>3 DEF WorkerState
      <3> QED
        BY <2>1, <3>1, <3>2, <3>3
    <2> QED
      BY <2>2, <2>5, <2>6 DEF Origins, Elements, ReceivedBy, Matching
  <1>6. CASE Exit
    <2>1. worker'.event = worker.event /\ worker'.todo = worker.todo
      BY <1>0, <1>6 DEF Exit, WorkerState
    <2> QED
      BY <1>6, <2>1 DEF Exit, Origins, Elements, ReceivedBy, Matching
  <1>7. ASSUME NEW c \in Consumers, Consume(c) PROVE Origins'
    <2>1. TakeFrom(c) /\ UNCHANGED <<accepted, sender, knownAt, calls, listeners, worker>>
      BY <1>7 DEF Consume
    <2>2. ReceivedBy("worker") \subseteq ReceivedBy("worker")'
      BY <2>1, ReceivedStays
    <2> QED
      BY <2>1, <2>2 DEF Origins, Elements, Matching
  <1>8. ASSUME NEW c \in Closers, BeginClose(c) \/ EndClose(c) PROVE Origins'
    BY <1>8 DEF BeginClose, EndClose, Origins, Elements, ReceivedBy, Matching
  <1>9. CASE UNCHANGED vars
    BY <1>9 DEF vars, Origins, Elements, ReceivedBy, Matching
  <1> QED
    BY <1>1, <1>2, <1>3, <1>4, <1>5, <1>6, <1>7, <1>8, <1>9 DEF Next, Worker

LEMMA DispatchOrigins == Spec => []DInv
  <1>1. Init => Origins
    BY DEF Init, Origins, Elements, Receiving
  <1>2. DInv /\ [Next]_vars => DInv'
    BY OriginsStep, NextTyped, ChannelStep DEF DInv
  <1>3. Init => DInv
    <2>1. Init => NothingLostInTheChannel
      BY DEF Init, NothingLostInTheChannel
    <2> QED
      BY <1>1, <2>1, InitTyped DEF DInv
  <1> QED
    BY <1>2, <1>3, PTL DEF Spec

-----------------------------------------------------------------------------
(* Every listener that should hear of an event does. *)

\* l was called with e, or will be while the worker holds e.
Heard(l, e) == <<l, e>> \in Elements(calls)
ToBeHeard(l) == \E i \in worker.todo : listeners[i] = l

\* While the worker emits an event, each listener it is for was called or is still
\* to be called; when it lets go of the event, none is left.
HearInv ==
  /\ \A e \in ReceivedBy("worker") : worker.event # e =>
       \A l \in knownAt[e] : matchesFilter(l, e) => Heard(l, e)
  /\ worker.pc = "calling" =>
       \A l \in knownAt[worker.event] :
         matchesFilter(l, worker.event) => Heard(l, worker.event) \/ ToBeHeard(l)
  /\ \A k \in DOMAIN calls : matchesFilter(calls[k][1], calls[k][2])

LEMMA HearStep == DInv /\ HearInv /\ [Next]_vars => HearInv'
  <1> SUFFICES ASSUME TypeOK, TInv, NothingLostInTheChannel, Origins, HearInv, [Next]_vars
               PROVE  HearInv'
    BY DEF DInv, TInv
  <1>0. /\ eventCh \in Seq(Events) /\ accepted \in Seq(Events) /\ listeners \in Seq(Listeners)
        /\ received \in Seq(Delivery) /\ calls \in Seq(Listeners \X Events)
        /\ worker \in WorkerState
    BY Sequences
  <1> USE DEF Heard, ToBeHeard
  <1>1. ASSUME NEW e \in Events, Send(e) PROVE HearInv'
    <2>1. UNCHANGED <<listeners, worker, calls, received>> /\ sender[e] = "ready"
      BY <1>1 DEF Send
    <2>2. \A x \in Events \ {e} : knownAt'[x] = knownAt[x]
      BY <1>1 DEF Send, TypeOK
    <2>3. \A x \in ReceivedBy("worker") : x \in Events /\ x # e
      BY <2>1, ReceivedWasAccepted DEF Origins
    <2>4. worker.pc = "calling" => worker.event \in ReceivedBy("worker")
      BY NoEventAssumption DEF Origins, TInv, WorkerHolds
    <2>5. UNCHANGED ReceivedBy("worker")
      BY <2>1 DEF ReceivedBy
    <2> QED
      BY <2>1, <2>2, <2>3, <2>4, <2>5 DEF HearInv, Elements
  <1>2. ASSUME NEW l \in Listeners, OnAfterTransition(l) PROVE HearInv'
    <2>1. UNCHANGED <<knownAt, calls, worker, received>>
      BY <1>2 DEF OnAfterTransition
    <2>2. \A i \in worker.todo : listeners'[i] = listeners[i]
      BY <1>0, <1>2, AppendKeeps DEF OnAfterTransition, WorkerState
    <2>3. UNCHANGED ReceivedBy("worker")
      BY <2>1 DEF ReceivedBy
    <2> QED
      BY <2>1, <2>2, <2>3 DEF HearInv, Elements
  <1>3. CASE Receive
    <2>1. /\ UNCHANGED <<knownAt, calls, listeners>> /\ TakeFrom("worker")
          /\ worker.pc = "receiving"
          /\ worker'.event = Head(eventCh) /\ worker'.pc = "emitting"
      BY <1>3 DEF Receive
    <2>2. ReceivedBy("worker")' \subseteq ReceivedBy("worker") \cup {Head(eventCh)}
      BY <2>1, ReceivedStays
    <2>3. \A x \in ReceivedBy("worker") : worker.event # x
      BY <2>1, ReceivedWasAccepted, NoEventAssumption DEF TInv, WorkerHolds
    <2> QED
      BY <2>1, <2>2, <2>3 DEF HearInv, Elements
  <1>4. CASE Emit
    <2>1. UNCHANGED <<knownAt, calls, listeners, received>>
      BY <1>4 DEF Emit
    <2>2. UNCHANGED ReceivedBy("worker")
      BY <2>1 DEF ReceivedBy
    <2>3. worker.event \in Events /\ worker.event \in ReceivedBy("worker")
      BY <1>4, NoEventAssumption DEF Emit, TInv, WorkerHolds, Origins
    <2>4. \A l \in knownAt[worker.event] : matchesFilter(l, worker.event) =>
            \E i \in Matching(worker.event) : listeners[i] = l
      <3>1. knownAt[worker.event] \subseteq Elements(listeners)
        BY <2>3 DEF Origins
      <3> QED
        BY <3>1 DEF Elements, Matching
    <2>5. CASE Matching(worker.event) = {}
      <3>1. worker'.event = NoEvent /\ worker'.pc = "receiving"
        BY <1>4, <2>5 DEF Emit, Receiving
      <3> QED
        BY <2>1, <2>2, <2>4, <2>5, <3>1 DEF HearInv, Elements
    <2>6. CASE Matching(worker.event) # {}
      <3>1. worker'.event = worker.event /\ worker'.todo = Matching(worker.event)
        BY <1>0, <1>4, <2>6 DEF Emit, WorkerState
      <3> QED
        BY <2>1, <2>2, <2>4, <3>1 DEF HearInv, Elements
    <2> QED
      BY <2>5, <2>6
  <1>5. CASE CallListener
    <2> DEFINE After(l, e) == <<l, e>> \in Elements(calls')
    <2>1. PICK i \in worker.todo :
            /\ calls' = Append(calls, <<listeners[i], worker.event>>)
            /\ \/ worker' = IF worker.todo = {i} THEN Receiving
                            ELSE [worker EXCEPT !.todo = worker.todo \ {i}]
               \/ worker' = [worker EXCEPT !.pc = "blockedInClose"]
      BY <1>5 DEF CallListener
    <2>2. UNCHANGED <<knownAt, listeners, received>> /\ worker.pc = "calling"
      BY <1>5 DEF CallListener
    <2>3. worker.event \in Events
      BY <2>2 DEF TInv, WorkerHolds
    <2>4. i \in DOMAIN listeners /\ matchesFilter(listeners[i], worker.event)
          /\ listeners[i] \in Listeners
      BY <1>0 DEF Origins, Matching
    <2>5. <<listeners[i], worker.event>> \in Listeners \X Events
      BY <2>3, <2>4
    <2>6. /\ \A k \in DOMAIN calls : k \in DOMAIN calls' /\ calls'[k] = calls[k]
          /\ \A k \in DOMAIN calls' : k \in DOMAIN calls \/ k = Len(calls) + 1
          /\ Len(calls) + 1 \in DOMAIN calls'
          /\ calls'[Len(calls) + 1] = <<listeners[i], worker.event>>
      BY <1>0, <2>1, <2>5, AppendKeeps
    <2>7. \A l, e : Heard(l, e) => After(l, e)
      BY <2>6 DEF Elements
    <2>8. After(listeners[i], worker.event)
      BY <2>6 DEF Elements
    <2>9. \A k \in DOMAIN calls' : matchesFilter(calls'[k][1], calls'[k][2])
      BY <2>4, <2>6 DEF HearInv
    <2>10. UNCHANGED ReceivedBy("worker")
      BY <2>2 DEF ReceivedBy
    <2>11. \A l \in knownAt[worker.event] : matchesFilter(l, worker.event) =>
             After(l, worker.event) \/ \E j \in worker.todo \ {i} : listeners[j] = l
      BY <2>2, <2>7, <2>8 DEF HearInv
    <2>12. CASE worker.todo = {i} /\ worker' = Receiving
      <3>1. worker'.event = NoEvent /\ worker'.pc = "receiving"
        BY <2>12 DEF Receiving
      <3>2. \A l \in knownAt[worker.event] :
              matchesFilter(l, worker.event) => After(l, worker.event)
        BY <2>11, <2>12
      <3>3. ASSUME NEW e \in ReceivedBy("worker"), NEW l \in knownAt[e], matchesFilter(l, e)
            PROVE  After(l, e)
        BY <2>7, <3>2, <3>3 DEF HearInv
      <3> QED
        BY <2>2, <2>9, <2>10, <3>1, <3>3 DEF HearInv
    <2>13. CASE worker' = [worker EXCEPT !.todo = worker.todo \ {i}]
      <3>1. worker'.event = worker.event /\ worker'.todo = worker.todo \ {i}
        BY <1>0, <2>13 DEF WorkerState
      <3>2. \A l \in knownAt[worker.event] : matchesFilter(l, worker.event) =>
              After(l, worker.event) \/ ToBeHeard(l)'
        BY <2>2, <2>11, <3>1
      <3>3. ASSUME NEW e \in ReceivedBy("worker"), worker.event # e,
                   NEW l \in knownAt[e], matchesFilter(l, e)
            PROVE  After(l, e)
        BY <2>7, <3>3 DEF HearInv
      <3> QED
        BY <2>2, <2>9, <2>10, <3>1, <3>2, <3>3 DEF HearInv
    <2>14. CASE worker' = [worker EXCEPT !.pc = "blockedInClose"]
      <3>1. worker'.event = worker.event /\ worker'.pc = "blockedInClose"
        BY <1>0, <2>14 DEF WorkerState
      <3>2. ASSUME NEW e \in ReceivedBy("worker"), worker.event # e,
                   NEW l \in knownAt[e], matchesFilter(l, e)
            PROVE  After(l, e)
        BY <2>7, <3>2 DEF HearInv
      <3> QED
        BY <2>2, <2>9, <2>10, <3>1, <3>2 DEF HearInv
    <2> QED
      BY <2>1, <2>12, <2>13, <2>14
  <1>6. CASE Exit
    <2>1. /\ UNCHANGED <<knownAt, calls, listeners, received>>
          /\ worker'.event = worker.event /\ worker'.pc = "exited"
      BY <1>0, <1>6 DEF Exit, WorkerState
    <2> QED
      BY <2>1 DEF HearInv, Elements, ReceivedBy
  <1>7. ASSUME NEW c \in Consumers, Consume(c) PROVE HearInv'
    <2>1. TakeFrom(c) /\ UNCHANGED <<knownAt, calls, listeners, worker>>
      BY <1>7 DEF Consume
    <2>2. UNCHANGED ReceivedBy("worker")
      BY <2>1, ReceivedStays, ConsumersAssumption
    <2> QED
      BY <2>1, <2>2 DEF HearInv, Elements
  <1>8. ASSUME NEW c \in Closers, BeginClose(c) \/ EndClose(c) PROVE HearInv'
    BY <1>8 DEF BeginClose, EndClose, HearInv, Elements, ReceivedBy
  <1>9. CASE UNCHANGED vars
    BY <1>9 DEF vars, HearInv, Elements, ReceivedBy
  <1> QED
    BY <1>1, <1>2, <1>3, <1>4, <1>5, <1>6, <1>7, <1>8, <1>9 DEF Next, Worker

\* A listener that was registered when the channel took an event is called with it
\* if its filters match, once the worker is through with it, and a listener whose
\* filters do not match is never called (events.go:77-82).
THEOREM ListenersHear == Spec => []ListenersHearAcceptedEvents
  <1>1. Init => HearInv
    BY DEF Init, HearInv, ReceivedBy, Receiving
  <1>2. HearInv => ListenersHearAcceptedEvents
    BY DEF HearInv, Heard, ListenersHearAcceptedEvents, Delivered, matchesFilter
  <1> QED
    BY <1>1, <1>2, DispatchOrigins, HearStep, PTL DEF Spec

-----------------------------------------------------------------------------
(* The order of the calls. *)

\* The places of one call's event and listener, in the sequence of events acc and
\* in that of listeners lis, come before those of another.
EventBefore(acc, d, e) ==
  \A a, b \in DOMAIN acc : acc[a] = d /\ acc[b] = e => a < b

Before(acc, lis, c, d) ==
  \A a, b \in DOMAIN acc : acc[a] = c[2] /\ acc[b] = d[2] =>
    \/ a < b
    \/ a = b /\ \A p, q \in DOMAIN lis : lis[p] = c[1] /\ lis[q] = d[1] => p < q

\* What was called comes before what the worker is about to call.
OrderInv ==
  /\ \A j, k \in DOMAIN calls : j < k => Before(accepted, listeners, calls[j], calls[k])
  /\ worker.pc = "emitting" =>
       \A k \in DOMAIN calls : EventBefore(accepted, calls[k][2], worker.event)
  /\ worker.pc = "calling" =>
       \A k \in DOMAIN calls : \A i \in worker.todo :
         Before(accepted, listeners, calls[k], <<listeners[i], worker.event>>)

LEMMA BeforeMoreEvents ==
  ASSUME NEW acc \in Seq(Events), NEW lis, NEW e \in Events, NEW c, NEW d,
         c[2] # e, d[2] # e, Before(acc, lis, c, d)
  PROVE  Before(Append(acc, e), lis, c, d)
  <1>1. \A a \in DOMAIN Append(acc, e) :
          Append(acc, e)[a] # e => a \in DOMAIN acc /\ Append(acc, e)[a] = acc[a]
    BY AppendKeeps
  <1> QED
    BY <1>1 DEF Before

LEMMA EventBeforeMoreEvents ==
  ASSUME NEW acc \in Seq(Events), NEW e \in Events, NEW c, NEW d,
         c # e, d # e, EventBefore(acc, c, d)
  PROVE  EventBefore(Append(acc, e), c, d)
  <1>1. \A a \in DOMAIN Append(acc, e) :
          Append(acc, e)[a] # e => a \in DOMAIN acc /\ Append(acc, e)[a] = acc[a]
    BY AppendKeeps
  <1> QED
    BY <1>1 DEF EventBefore

LEMMA BeforeMoreListeners ==
  ASSUME NEW acc, NEW lis \in Seq(Listeners), NEW l \in Listeners, NEW c, NEW d,
         c[1] # l, d[1] # l, Before(acc, lis, c, d)
  PROVE  Before(acc, Append(lis, l), c, d)
  <1>1. \A p \in DOMAIN Append(lis, l) :
          Append(lis, l)[p] # l => p \in DOMAIN lis /\ Append(lis, l)[p] = lis[p]
    BY AppendKeeps
  <1> QED
    BY <1>1 DEF Before

LEMMA OrderStep == DInv /\ OrderInv /\ [Next]_vars => OrderInv'
  <1> SUFFICES ASSUME TypeOK, TInv, NothingLostInTheChannel, Origins, OrderInv, [Next]_vars
               PROVE  OrderInv'
    BY DEF DInv, TInv
  <1>0. /\ eventCh \in Seq(Events) /\ accepted \in Seq(Events) /\ listeners \in Seq(Listeners)
        /\ received \in Seq(Delivery) /\ calls \in Seq(Listeners \X Events)
        /\ worker \in WorkerState
    BY Sequences
  <1>1. ASSUME NEW e \in Events, Send(e) PROVE OrderInv'
    <2>1. UNCHANGED <<listeners, worker, calls, received>> /\ sender[e] = "ready"
      BY <1>1 DEF Send
    <2>2. CASE UNCHANGED accepted
      BY <2>1, <2>2 DEF OrderInv
    <2>3. CASE accepted' = Append(accepted, e)
      <3>1. \A x \in ReceivedBy("worker") : x # e
        BY <2>1, ReceivedWasAccepted DEF Origins
      <3>2. \A k \in DOMAIN calls : calls[k][2] # e
        BY <3>1 DEF Origins
      <3>3. worker.pc \in {"emitting", "calling"} => worker.event # e
        BY <3>1, NoEventAssumption DEF Origins, TInv, WorkerHolds
      <3>4. ASSUME NEW j \in DOMAIN calls, NEW k \in DOMAIN calls, j < k
            PROVE  Before(accepted', listeners, calls[j], calls[k])
        BY <1>0, <2>3, <3>2, <3>4, BeforeMoreEvents DEF OrderInv
      <3>5. ASSUME NEW k \in DOMAIN calls, worker.pc = "emitting"
            PROVE  EventBefore(accepted', calls[k][2], worker.event)
        BY <1>0, <2>3, <3>2, <3>3, <3>5, EventBeforeMoreEvents DEF OrderInv
      <3>6. ASSUME NEW k \in DOMAIN calls, NEW i \in worker.todo, worker.pc = "calling"
            PROVE  Before(accepted', listeners, calls[k], <<listeners[i], worker.event>>)
        <4>1. <<listeners[i], worker.event>>[2] # e
          BY <3>3, <3>6
        <4>2. Before(accepted, listeners, calls[k], <<listeners[i], worker.event>>)
          BY <3>6 DEF OrderInv
        <4> QED
          BY <1>0, <2>3, <3>2, <4>1, <4>2, BeforeMoreEvents
      <3> QED
        BY <2>1, <3>4, <3>5, <3>6 DEF OrderInv
    <2> QED
      BY <1>1, <2>2, <2>3 DEF Send
  <1>2. ASSUME NEW l \in Listeners, OnAfterTransition(l) PROVE OrderInv'
    <2>1. /\ UNCHANGED <<accepted, calls, worker>> /\ listeners' = Append(listeners, l)
          /\ l \notin Elements(listeners)
      BY <1>2 DEF OnAfterTransition
    <2>2. \A k \in DOMAIN calls : calls[k][1] # l
      BY <2>1 DEF Origins
    <2>3. \A i \in worker.todo : listeners[i] # l /\ listeners'[i] = listeners[i]
      BY <1>0, <2>1, AppendKeeps DEF WorkerState, Elements
    <2>4. ASSUME NEW j \in DOMAIN calls, NEW k \in DOMAIN calls, j < k
          PROVE  Before(accepted, listeners', calls[j], calls[k])
      BY <1>0, <2>1, <2>2, <2>4, BeforeMoreListeners DEF OrderInv
    <2>5. ASSUME NEW k \in DOMAIN calls, NEW i \in worker.todo, worker.pc = "calling"
          PROVE  Before(accepted, listeners', calls[k], <<listeners'[i], worker.event>>)
      <3>1. <<listeners[i], worker.event>>[1] # l
        BY <2>3
      <3>2. Before(accepted, listeners, calls[k], <<listeners[i], worker.event>>)
        BY <2>5 DEF OrderInv
      <3> QED
        BY <1>0, <2>1, <2>2, <2>3, <3>1, <3>2, BeforeMoreListeners
    <2> QED
      BY <2>1, <2>4, <2>5 DEF OrderInv
  <1>3. CASE Receive
    <2>1. /\ UNCHANGED <<accepted, calls, listeners>> /\ TakeFrom("worker")
          /\ worker'.event = Head(eventCh) /\ worker'.pc = "emitting"
      BY <1>3 DEF Receive
    <2>2. /\ Len(received) + 1 \in DOMAIN accepted
          /\ accepted[Len(received) + 1] = Head(eventCh) /\ Len(received) \in Nat
      <3>1. 1 \in DOMAIN eventCh /\ Head(eventCh) = eventCh[1] /\ Len(eventCh) >= 1
        BY <1>0, <2>1, TailDrops DEF TakeFrom
      <3>2. Len(received) \in Nat /\ DOMAIN accepted = 1 .. Len(accepted) /\ Len(eventCh) \in Nat
        BY <1>0
      <3> QED
        BY <3>1, <3>2 DEF NothingLostInTheChannel
    <2>3. ASSUME NEW k \in DOMAIN calls
          PROVE  EventBefore(accepted, calls[k][2], Head(eventCh))
      <3>1. PICK p \in DOMAIN accepted : p <= Len(received) /\ accepted[p] = calls[k][2]
        BY ReceivedWasAccepted DEF Origins
      <3>2. \A a, b \in DOMAIN accepted :
              accepted[a] = calls[k][2] /\ accepted[b] = Head(eventCh)
              => a = p /\ b = Len(received) + 1
        BY <2>2, <3>1 DEF Origins
      <3>3. p \in Nat
        BY <1>0
      <3> QED
        BY <2>2, <3>1, <3>2, <3>3 DEF EventBefore
    <2> QED
      BY <2>1, <2>3 DEF OrderInv
  <1>4. CASE Emit
    <2>1. UNCHANGED <<accepted, calls, listeners>> /\ worker.pc = "emitting"
      BY <1>4 DEF Emit
    <2>2. \/ worker' = Receiving
          \/ worker' = [worker EXCEPT !.pc = "calling", !.todo = Matching(worker.event)]
      BY <1>4 DEF Emit
    <2>3. worker'.pc = "receiving" \/ (worker'.pc = "calling" /\ worker'.event = worker.event)
      <3>1. CASE worker' = Receiving
        BY <3>1 DEF Receiving
      <3>2. CASE worker' = [worker EXCEPT !.pc = "calling", !.todo = Matching(worker.event)]
        BY <1>0, <3>2 DEF WorkerState
      <3> QED
        BY <2>2, <3>1, <3>2
    <2>4. ASSUME NEW k \in DOMAIN calls, NEW l
          PROVE  Before(accepted, listeners, calls[k], <<l, worker.event>>)
      BY <2>1 DEF OrderInv, EventBefore, Before
    <2> QED
      BY <2>1, <2>3, <2>4 DEF OrderInv
  <1>5. CASE CallListener
    <2>1. PICK i \in worker.todo :
            /\ \A j \in worker.todo : i <= j
            /\ calls' = Append(calls, <<listeners[i], worker.event>>)
            /\ \/ worker' = Receiving
               \/ worker' = [worker EXCEPT !.todo = worker.todo \ {i}]
               \/ worker' = [worker EXCEPT !.pc = "blockedInClose"]
      BY <1>5 DEF CallListener
    <2>2. UNCHANGED <<accepted, listeners, received>> /\ worker.pc = "calling"
      BY <1>5 DEF CallListener
    <2>3. worker.event \in Events /\ i \in DOMAIN listeners /\ listeners[i] \in Listeners
      BY <1>0, <2>2 DEF TInv, WorkerHolds, WorkerState
    <2> DEFINE c == <<listeners[i], worker.event>>
    <2>4. c \in Listeners \X Events /\ c[1] = listeners[i] /\ c[2] = worker.event
      BY <2>3
    <2>5. ASSUME NEW k \in DOMAIN calls
          PROVE  Before(accepted, listeners, calls[k], c)
      BY <2>2 DEF OrderInv
    <2>6. ASSUME NEW q \in worker.todo, q # i
          PROVE  Before(accepted, listeners, c, <<listeners[q], worker.event>>)
      <3>1. q \in DOMAIN listeners /\ i < q
        BY <1>0, <2>1, <2>3, <2>6 DEF WorkerState
      <3> QED
        BY <2>3, <3>1 DEF Before, Origins
    <2>7. /\ \A k \in DOMAIN calls : k \in DOMAIN calls' /\ calls'[k] = calls[k] /\ k <= Len(calls)
          /\ \A k \in DOMAIN calls' : k \in DOMAIN calls \/ k = Len(calls) + 1
          /\ calls'[Len(calls) + 1] = c /\ Len(calls) \in Nat
          /\ \A k \in DOMAIN calls' : k \in Nat /\ k <= Len(calls) + 1
      <3> HIDE DEF c
      <3> QED
        BY <1>0, <2>1, <2>4, AppendKeeps
    <2> HIDE DEF c
    <2>8. ASSUME NEW j \in DOMAIN calls', NEW k \in DOMAIN calls', j < k
          PROVE  Before(accepted, listeners, calls'[j], calls'[k])
      <3>1. j \in DOMAIN calls
        BY <2>7, <2>8
      <3>2. CASE k \in DOMAIN calls
        BY <2>7, <2>8, <3>1, <3>2 DEF OrderInv
      <3>3. CASE k = Len(calls) + 1
        BY <2>5, <2>7, <3>1, <3>3
      <3> QED
        BY <2>7, <3>2, <3>3
    <2>9. CASE worker' = Receiving
      BY <2>2, <2>8, <2>9 DEF OrderInv, Receiving
    <2>10. CASE worker' = [worker EXCEPT !.todo = worker.todo \ {i}]
      <3>1. worker'.pc = "calling" /\ worker'.event = worker.event
            /\ worker'.todo = worker.todo \ {i}
        BY <1>0, <2>2, <2>10 DEF WorkerState
      <3>2. ASSUME NEW k \in DOMAIN calls', NEW q \in worker.todo \ {i}
            PROVE  Before(accepted, listeners, calls'[k], <<listeners[q], worker.event>>)
        <4>1. CASE k \in DOMAIN calls
          BY <2>2, <2>7, <4>1 DEF OrderInv
        <4>2. CASE k = Len(calls) + 1
          BY <2>6, <2>7, <4>2
        <4> QED
          BY <2>7, <4>1, <4>2
      <3> QED
        BY <2>2, <2>8, <3>1, <3>2 DEF OrderInv
    <2>11. CASE worker' = [worker EXCEPT !.pc = "blockedInClose"]
      <3>1. worker'.pc = "blockedInClose"
        BY <1>0, <2>11 DEF WorkerState
      <3> QED
        BY <2>2, <2>8, <3>1 DEF OrderInv
    <2> QED
      BY <2>1, <2>9, <2>10, <2>11
  <1>6. CASE Exit
    <2>1. UNCHANGED <<accepted, calls, listeners>> /\ worker'.pc = "exited"
      BY <1>0, <1>6 DEF Exit, WorkerState
    <2> QED
      BY <2>1 DEF OrderInv
  <1>7. ASSUME NEW k \in Consumers, Consume(k) PROVE OrderInv'
    BY <1>7 DEF Consume, OrderInv
  <1>8. ASSUME NEW k \in Closers, BeginClose(k) \/ EndClose(k) PROVE OrderInv'
    BY <1>8 DEF BeginClose, EndClose, OrderInv
  <1>9. CASE UNCHANGED vars
    BY <1>9 DEF vars, OrderInv
  <1> QED
    BY <1>1, <1>2, <1>3, <1>4, <1>5, <1>6, <1>7, <1>8, <1>9 DEF Next, Worker

\* Listeners are called event by event as the channel took them, for one event in
\* the order of their registration, and never twice with one event (events.go).
THEOREM CalledInOrder == Spec => []CallsInOrder
  <1>1. Init => OrderInv
    BY DEF Init, OrderInv, Receiving
  <1>2. DInv /\ OrderInv => CallsInOrder
    <2> SUFFICES ASSUME DInv, OrderInv PROVE CallsInOrder
      OBVIOUS
    <2> DEFINE Place(s, x) == CHOOSE i \in DOMAIN s : s[i] = x
               event(k) == Place(accepted, calls[k][2])
               listener(k) == Place(listeners, calls[k][1])
    <2>1. ASSUME NEW k \in DOMAIN calls
          PROVE  /\ event(k) \in DOMAIN accepted /\ accepted[event(k)] = calls[k][2]
                 /\ listener(k) \in DOMAIN listeners /\ listeners[listener(k)] = calls[k][1]
      <3>1. \E a \in DOMAIN accepted : accepted[a] = calls[k][2]
        BY ReceivedWasAccepted DEF DInv, Origins
      <3>2. \E p \in DOMAIN listeners : listeners[p] = calls[k][1]
        BY DEF DInv, Origins, Elements
      <3> QED
        BY <3>1, <3>2
    <2> HIDE DEF event, listener
    <2>2. ASSUME NEW j \in DOMAIN calls, NEW k \in DOMAIN calls, j < k
          PROVE  \/ event(j) < event(k)
                 \/ event(j) = event(k) /\ listener(j) < listener(k)
      BY <2>1, <2>2 DEF OrderInv, Before
    <2> QED
      BY <2>2 DEF CallsInOrder, event, listener
  <1> QED
    BY <1>1, <1>2, DispatchOrigins, OrderStep, PTL DEF Spec

-----------------------------------------------------------------------------
(***************************************************************************)
(* What the two counterexamples come from: a send panics only once Close   *)
(* was called, and an event passes the listeners by only if somebody else  *)
(* receives from the channel.                                              *)
(***************************************************************************)

\* service.go:232-247: as long as nobody has closed the channel, no select of a
\* TransitionStep panics.
THEOREM PanicsFollowClose == Spec => [](closed \/ NoSendPanics)
  <1>1. Init => closed \/ NoSendPanics
    BY DEF Init, NoSendPanics
  <1>2. TypeOK /\ (closed \/ NoSendPanics) /\ [Next]_vars => (closed \/ NoSendPanics)'
    <2> SUFFICES ASSUME TypeOK, closed \/ NoSendPanics, [Next]_vars PROVE closed' \/ NoSendPanics'
      OBVIOUS
    <2>1. ASSUME NEW e \in Events, Send(e) PROVE closed' \/ NoSendPanics'
      <3>1. closed' = closed /\ sender \in [Events -> {"ready", "sent", "dropped", "panicked"}]
        BY <2>1 DEF Send, TypeOK
      <3>2. closed \/ \E s \in {"sent", "dropped"} : sender' = [sender EXCEPT ![e] = s]
        BY <2>1 DEF Send
      <3> QED
        BY <3>1, <3>2 DEF NoSendPanics
    <2>2. ASSUME closed => closed', UNCHANGED sender PROVE closed' \/ NoSendPanics'
      BY <2>2 DEF NoSendPanics
    <2>3. ASSUME NEW l \in Listeners, OnAfterTransition(l) PROVE closed' \/ NoSendPanics'
      BY <2>2, <2>3 DEF OnAfterTransition
    <2>4. CASE Worker
      <3>1. CASE Receive \/ Emit \/ Exit
        BY <2>2, <3>1 DEF Receive, Emit, Exit
      <3>2. CASE CallListener
        <4>1. UNCHANGED sender /\ (closed' = TRUE \/ closed' = closed)
          BY <3>2 DEF CallListener
        <4> QED
          BY <2>2, <4>1
      <3> QED
        BY <2>4, <3>1, <3>2 DEF Worker
    <2>5. ASSUME NEW c \in Consumers, Consume(c) PROVE closed' \/ NoSendPanics'
      BY <2>2, <2>5 DEF Consume
    <2>6. ASSUME NEW c \in Closers, BeginClose(c) \/ EndClose(c) PROVE closed' \/ NoSendPanics'
      BY <2>2, <2>6 DEF BeginClose, EndClose
    <2>7. CASE UNCHANGED vars
      BY <2>2, <2>7 DEF vars
    <2> QED
      BY <2>1, <2>3, <2>4, <2>5, <2>6, <2>7 DEF Next
  <1> QED
    BY <1>1, <1>2, DispatchTypeCorrect, PTL DEF Spec

\* What the worker alone receives, it receives all of.
LEMMA WorkerGetsAll ==
  ASSUME TypeOK, NothingLostInTheChannel, Consumers = {},
         NEW e \in Elements(accepted) \ Elements(eventCh)
  PROVE  e \in ReceivedBy("worker")
  <1>1. PICK i \in DOMAIN accepted : accepted[i] = e
    BY DEF Elements
  <1>2. /\ Len(accepted) \in Nat /\ DOMAIN accepted = 1 .. Len(accepted)
        /\ Len(eventCh) \in Nat /\ DOMAIN eventCh = 1 .. Len(eventCh)
        /\ Len(received) \in Nat /\ DOMAIN received = 1 .. Len(received)
        /\ \A k \in DOMAIN received : received[k].by = "worker"
    <2>1. /\ accepted \in Seq(Events) /\ eventCh \in Seq(Events)
          /\ received \in Seq([event : Events, by : {"worker"}])
      BY DEF TypeOK
    <2>2. /\ Len(accepted) \in Nat /\ DOMAIN accepted = 1 .. Len(accepted)
          /\ Len(eventCh) \in Nat /\ DOMAIN eventCh = 1 .. Len(eventCh)
          /\ Len(received) \in Nat /\ DOMAIN received = 1 .. Len(received)
      BY <2>1
    <2>3. \A k \in DOMAIN received : received[k].by = "worker"
      <3> DEFINE Entry == [event : Events, by : {"worker"}]
      <3>1. \A x \in Entry : x.by = "worker"
        OBVIOUS
      <3>2. received \in Seq(Entry)
        BY <2>1
      <3> HIDE DEF Entry
      <3>3. \A k \in DOMAIN received : received[k] \in Entry
        BY <3>2
      <3> QED
        BY <3>1, <3>3
    <2> QED
      BY <2>2, <2>3
  <1>3. i \in DOMAIN received
    <2> SUFFICES ASSUME i > Len(received) PROVE FALSE
      BY <1>1, <1>2
    <2>1. i - Len(received) \in DOMAIN eventCh /\ Len(received) + (i - Len(received)) = i
      BY <1>1, <1>2 DEF NothingLostInTheChannel
    <2>2. eventCh[i - Len(received)] = e
      BY <1>1, <2>1 DEF NothingLostInTheChannel
    <2> QED
      BY <2>1, <2>2 DEF Elements
  <1>4. received[i].event = e
    BY <1>1, <1>3 DEF NothingLostInTheChannel
  <1> QED
    BY <1>2, <1>3, <1>4 DEF ReceivedBy

\* events.go:79 holds where nobody asks for EventCh: a listener without filters
\* hears of every transition whose event the channel took and let go of.
THEOREM ListenersAloneHearEverything ==
  ASSUME Consumers = {}
  PROVE  Spec => []WildcardsHearEverything
  <1>1. TypeOK /\ NothingLostInTheChannel /\ ListenersHearAcceptedEvents
        => WildcardsHearEverything
    <2> SUFFICES ASSUME TypeOK, NothingLostInTheChannel, ListenersHearAcceptedEvents,
                        NEW e \in Events, Delivered(e), NEW l \in knownAt[e],
                        TypeFilter[l] = AnyName, StateFilter[l] = AnyName
                 PROVE  <<l, e>> \in Elements(calls)
      BY DEF WildcardsHearEverything
    <2>1. e \in ReceivedBy("worker")
      BY WorkerGetsAll DEF Delivered
    <2>2. matchesFilter(l, e)
      BY DEF matchesFilter
    <2> QED
      BY <2>1, <2>2 DEF ListenersHearAcceptedEvents
  <1> QED
    BY <1>1, DispatchTypeCorrect, ChannelLosesNothing, ListenersHear, PTL
==============================================================================
