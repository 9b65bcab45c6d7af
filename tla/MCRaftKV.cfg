SPECIFICATION Spec
CONSTANTS
    Nodes = {n1, n2, n3}
    NoNode = NoNode
    Clients = {c1}
    Idle = Idle
    Workload <- MCWorkload
    MaxLog = 2
    k = k
    v = v
    l = l
    NoLease = NoLease
    Keys <- MCKeys
    ValidKeys <- MCKeys
    Values <- MCValues
    LeaseIDs <- MCLeaseIDs
    SizeOf <- MCSizeOf
    MaxValueSize = 2
    MaxStorageSize = 4
SYMMETRY NodeSymmetry
INVARIANTS
    ReplicaAgreement
PROPERTIES
    NeverBackwards
    
