CONSTANTS
    MaxItems = 2
    MaxFaults = 0
    Unhandled = {}
    Oversized = {}
SPECIFICATION Spec
INVARIANT EnqueueSafeWhileDraining
CHECK_DEADLOCK FALSE
