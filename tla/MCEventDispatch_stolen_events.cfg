\* A consumer of EventCh beside a listener without filters.
CONSTANTS
  NoEvent = NoEvent
  e1 = e1
  e2 = e2
  e3 = e3
  e4 = e4
  wildcard = wildcard
  byType = byType
  byState = byState
  AnyName = ""
  EventType <- MCEventType
  EventState <- MCEventState
  TypeFilter <- MCTypeFilter
  StateFilter <- MCStateFilter
  Events = {e1, e2, e3}
  Listeners = {wildcard, byType}
  Closers = {c1}
  Consumers = {reader}
  Capacity = 2
  ClosingListeners = {}
SPECIFICATION Spec
CHECK_DEADLOCK FALSE
INVARIANT
  WildcardsHearEverything
