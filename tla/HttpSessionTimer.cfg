\* One request is enough.
SPECIFICATION Spec
CONSTANT MaxRequests = 1
INVARIANT TimerStopsWithSession
