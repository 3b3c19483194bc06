\* Two threads, one name, two dates; timestamps below 16, times of -4 to 3.
SPECIFICATION Spec
CONSTANTS
    Threads = {t1, t2}
    Names = {"walk"}
    Dates = {6, 15}
    Bounds = {0, 2, 6, 14, 15}
    Values <- MCValues
    NoValue = noValue
    NoCall = noCall
    Requests <- MCRequests
    WordSize = 16
    IntSize = 4
    ArrayLen = 2
    WordOfDouble <- MCWordOfDouble
    IntOfDouble <- MCIntOfDouble
INVARIANTS
    TypeOK
    AcknowledgedEventsAreKept
    MeanIsOfPostedEvents
PROPERTY EveryRequestIsAnswered
