SPECIFICATION FairSpec
CONSTANTS
    Port = {p1, p2}
    Key = {k1, k2}
    Thread = {t1}
    Lease = {l1}
    Name = {a}
    Val = {x}
    BuilderLimit = 1
    QueueLimit = 1
    CacheLimit = 1
    LeaseLimit = 1
    EntryLimit = 1
    MaxGen = 2
    MaxOrphans = 1
    NoKey = NoKey
    NoVal = NoVal
    NoPort = NoPort
INVARIANT BuildTypeOK
INVARIANT NoDanglingPort
INVARIANT StorageExact
INVARIANT NeverStops
PROPERTY NoLateImage
PROPERTY NothingIsKept
CHECK_DEADLOCK FALSE
