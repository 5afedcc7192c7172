\* Multiplayer server: every release is stamped with the current time.
CONSTANTS
    MinValue = 0
    MaxValue = 4
    BlockSize = 2
    MaxTime = 2
    UnstampedFree = FALSE
SPECIFICATION Spec
INVARIANTS TypeOK EachIdOnce AvailableExact
PROPERTIES Quarantine ImplementsPool
CHECK_DEADLOCK FALSE
