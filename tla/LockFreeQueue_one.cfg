\* One producer, two consumers.
SPECIFICATION Spec
CONSTANTS
    Nodes = {n1, n2, n3, n4}
    Producers = {p1}
    Consumers = {c1, c2}
    MaxItems = 4
    Null = Null
SYMMETRY Symmetry
CHECK_DEADLOCK FALSE
PROPERTY RefinesQueue
