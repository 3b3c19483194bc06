\* Three threads, a queue for two messages, two calls of each thread.
\* The process ends: no deadlock check.
SPECIFICATION Spec
CONSTANTS
    Threads = {"main", "io_1", "io_2"}
    Capacity = 2
    MaxCalls = 2
INVARIANTS
    TypeOK
    MessagesKeepTheirOrder
    AllIsPrintedAtExit
PROPERTIES
    CallsReturn
    ProcessEnds
CHECK_DEADLOCK FALSE
