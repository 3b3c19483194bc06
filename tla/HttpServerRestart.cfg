\* A second thread calls start on the running server.
SPECIFICATION Spec
CONSTANTS
    Processors = 4
    Callers = {main, other}
    Clients = {k1}
    NoClient = noClient
INVARIANT SecondStartIsHarmless
