\* Sixteen messages, alone or two in a buffer, cut anywhere; the parser is used again.
SPECIFICATION Spec
CONSTANTS
    Messages <- MCMessages
    MaxTogether = 2
INVARIANTS
    TypeOK
    LoneRequestIsItsMessage
    AcceptedPostIsWhole
    WellFormedIsAccepted
    LastOfManyIsReturned
