SPECIFICATION MCSpec
CONSTANTS
    LockKey = LockKey
    Contenders = {a, b}
    LeaseIDs = {1, 2, 3}
    Values = {1, 2, 3}
    NoLease = NoLease
    Keys <- MCKeys
    ValidKeys <- MCKeys
    SizeOf <- MCSizeOf
    MaxValueSize = 10
    MaxStorageSize = 10
    MaxFaults = 2
    MaxRetryRev = 14
    Nodes = {n1, n2}
    NoMaster = NoMaster
    MaxInputs = 3
CONSTRAINT LeasesInOrder
CHECK_DEADLOCK FALSE
INVARIANTS HolderHasLease KeyNamesLiveLease VersionsKept
PROPERTIES LockFreed UnsealedHaveTheKey
