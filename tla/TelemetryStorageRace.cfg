\* Two first stores of one name.
SPECIFICATION Spec
CONSTANTS
    Threads = {t1, t2}
    Names = {n1}
    Dates = {1}
    Bounds = {1}
    Values = {v1}
    NoValue = noValue
    NoCall = noCall
INVARIANT TreeAccessIsExclusive
