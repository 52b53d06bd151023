\* Two objects to begin with and one more, three threads.
SPECIFICATION Spec
CONSTANTS
    Objects = {o1, o2, o3}
    Size = 2
    Threads = {t1, t2, t3}
    CountSize = 4
    Null = Null
SYMMETRY Symmetry
CHECK_DEADLOCK FALSE
INVARIANT ObjectsAccounted
