SPECIFICATION MCSpec
CONSTANTS
    MaxItems = 4
    MaxFaults = 2
    Unhandled = {3}
    Oversized = {4}
    MaxVersion = 2
    ChanCap = 1
    MaxPolicyFaults = 2
    Targets = {t1}
    MaxAttempts = 2
    MaxPatchAttempts = 1
    Channels = {1, 2}
    Conns = {1, 2}
    MaxCommands = 1
    MaxReplicaFaults = 1
CONSTRAINT Overlap
CHECK_DEADLOCK FALSE
INVARIANTS KeptUntilDelivered  PolicyInStep SyncedMeansReceived
PROPERTIES EventuallyDelivered PolicyMovesForward ReplicasMoveForward
