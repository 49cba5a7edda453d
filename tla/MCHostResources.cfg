SPECIFICATION Spec
CONSTANTS
    Threads = {t1, t2, t3}
    Addresses = {a1, a2}
    Objects = {o1, o2}
    MaxSize = 1
    MaxRefs = 2
    MaxFailures = 1
    None = None
SYMMETRY Symmetry
INVARIANTS
    BuffersHaveOneOwner
    NothingOutstanding
    ReferencesBalance
CHECK_DEADLOCK FALSE
