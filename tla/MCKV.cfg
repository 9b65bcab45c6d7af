SPECIFICATION MCSpec
CONSTANTS
    k1 = k1
    k2 = k2
    bad = bad
    empty = empty
    small = small
    large = large
    l1 = l1
    NoLease = NoLease
    Keys <- MCKeys
    ValidKeys <- MCValidKeys
    Values <- MCValues
    LeaseIDs <- MCLeaseIDs
    SizeOf <- MCSizeOf
    MaxValueSize = 2
    MaxStorageSize = 4
    MaxRevision = 5
    Callers = {c1, c2}
    Requests <- MCRequests
    RemoteCmds <- MCRemote
    MaxCommits = 3
    MaxKvEvents = 3
    Watched <- MCValidKeys
    StartRevisions = {0, 1}
    BufferSize = 1
    MaxWrites = 3
    Machines = {"m1", "m2"}
    TPMs = {"m1"}
    KeyBits = 1
    MaxIdentities = 2
    MaxKmEvents = 7
CHECK_DEADLOCK FALSE
INVARIANTS SizeAccounting  OvershootBound KeysRecoverable
PROPERTIES CallersToldTruth WatchFaithful
