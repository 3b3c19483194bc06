\* Two threads, two values: what a record is once it was stored, and that both return;
\* no symmetry, for liveness.
SPECIFICATION Spec
CONSTANTS
    Threads = {t1, t2}
    Names = {n1}
    Dates = {2}
    Bounds = {1, 3}
    Values = {v1, v2}
    NoValue = noValue
    NoCall = noCall
PROPERTIES
    RecordsAreWrittenOnce
    CallsReturn
