\* Three threads on one name: one can be late, another fast, a third read.
SPECIFICATION Spec
CONSTANTS
    Threads = {t1, t2, t3}
    Names = {n1}
    Dates = {2}
    Bounds = {1, 3}
    Values = {v1}
    NoValue = noValue
    NoCall = noCall
SYMMETRY DataSymmetry
INVARIANTS
    TypeOK
    IInv
    FreshEntryIsPrivate
    RaceNeedsLateCreator
PROPERTIES
    SettledNamesStaySafe
    ImplementsEventStore
