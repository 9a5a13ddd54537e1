\* Three events through a channel of two, two callers of Close, a consumer of
\* EventCh, and a listener that may call Close.
CONSTANTS
  NoEvent = NoEvent
  e1 = e1
  e2 = e2
  e3 = e3
  e4 = e4
  wildcard = wildcard
  byType = byType
  byState = byState
  AnyName = ""
  EventType <- MCEventType
  EventState <- MCEventState
  TypeFilter <- MCTypeFilter
  StateFilter <- MCStateFilter
  Events = {e1, e2, e3}
  Listeners = {wildcard, byType}
  Closers = {c1, c2}
  Consumers = {reader}
  Capacity = 2
  ClosingListeners = {byType}
SPECIFICATION Spec
CHECK_DEADLOCK FALSE
INVARIANTS
  TypeOK
  NothingLostInTheChannel
  CallsInOrder
  ListenersHearAcceptedEvents
  CloseDrains
PROPERTIES
  SilentAfterClose
  CloseReturns
  AcceptedIsDelivered
