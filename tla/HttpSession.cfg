\* Three requests: a session that goes around its loop twice and more.
SPECIFICATION Spec
CONSTANT MaxRequests = 3
INVARIANTS
    TypeOK
    WaitingIsTimed
    AnswerIsLostForCause
PROPERTIES
    KeepsContract
    SessionEnds
    SessionIsReleased
