SPECIFICATION Spec
CONSTANTS
    LockKey = LockKey
    Contenders = {a, b, c}
    LeaseIDs = {l1, l2, l3, l4}
    Values = {l1, l2, l3, l4}
    NoLease = NoLease
    Keys <- MCKeys
    ValidKeys <- MCKeys
    SizeOf <- MCSizeOf
    MaxValueSize = 10
    MaxStorageSize = 10
    MaxFaults = 0
    MaxRetryRev = 14
CHECK_DEADLOCK FALSE
SYMMETRY Symmetry
INVARIANT
    MutualExclusion
