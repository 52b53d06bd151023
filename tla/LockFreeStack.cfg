\* Three indexes and their nodes, three threads.
SPECIFICATION StackSpec
CONSTANTS
    Objects = {n1, n2, n3}
    Size = 3
    Items = {i1, i2, i3}
    Threads = {t1, t2, t3}
    Poppers = {t1, t2}
    Pushers = {t3}
    CountSize = 4
    Null = Null
    NoItem = NoItem
SYMMETRY Symmetry
INVARIANT NoNewNode
PROPERTY RefinesStack
