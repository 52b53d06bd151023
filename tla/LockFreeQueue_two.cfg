\* Two producers, one consumer.
SPECIFICATION FairSpec
CONSTANTS
    Nodes = {n1, n2, n3}
    Producers = {p1, p2}
    Consumers = {c1}
    MaxItems = 3
    Null = Null
INVARIANTS
    NodesAccounted
    NothingLost
PROPERTY ShareServed
