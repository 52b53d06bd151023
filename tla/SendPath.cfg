\* One session, recycled, with two senders and a worker.
SPECIFICATION FairSpec
CONSTANTS
    Sessions = {a}
    Messages = {m1, m2}
    Senders = {c1, c2}
    Workers = {w1}
    MaxCreate = 3
    NoSession = NoSession
    NoMessage = NoMessage
INVARIANTS
    OneSend
    NoneStranded
    ReferencesKept
PROPERTIES
    RefinesSendContract
    QueueDrains
