SPECIFICATION Spec
CHECK_DEADLOCK FALSE
CONSTANTS
    m1 = m1
    m2 = m2
    m3 = m3
    Messages <- ThreeMessages
    Size <- MCSize
    Timeout <- MCTimeout
    MaxEntries = 2
    MaxBytes = 3
    Interval = 1
    Expire = 2
    DrainLimit = 1
    AttemptCap = 1
    LastCall = 0
    LastStop = 2
    Horizon = 3
SYMMETRY LargeSymmetry
INVARIANTS
    TypeOK
    ScanInBounds
    Capacity
    BytesAccounted
    NoConcurrentAttempts
    DueHeld
    ExpiryComplete
    RetryNotEarly
    ExactlyOneFate
    LogIsRecord
PROPERTIES
    ImplementsCustody
