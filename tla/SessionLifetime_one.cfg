\* One slot that is recycled, two workers, two callers with stale IDs.
SPECIFICATION Spec
CONSTANTS
    Slots = {s1}
    Acceptor = acceptor
    Workers = {w1, w2}
    Callers = {c1, c2}
    MaxUnique = 2
    NoID = NoID
    NoSlot = NoSlot
SYMMETRY Symmetry
INVARIANTS
    TypeOK
    RefsExact
    HolderSafe
    OneReleaser
    OneOperationPerKind
    ZeroIsNoticed
    SlotsAccounted
    NeverPopEmpty
PROPERTIES
    NoRecycleUnderHolder
    RefinesContract
