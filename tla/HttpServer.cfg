\* Five processors make three pool threads, as many as there are clients.
SPECIFICATION Spec
CONSTANTS
    Processors = 5
    Callers = {main}
    Clients = {k1, k2, k3}
    NoClient = noClient
INVARIANTS
    TypeOK
    ReturnsOnlyWhenStopped
    HandlersStayInside
PROPERTIES
    StopEndsStart
    ClientsAreServed
