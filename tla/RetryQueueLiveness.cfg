SPECIFICATION PromptSpec
CHECK_DEADLOCK FALSE
CONSTANTS
    m1 = m1
    m2 = m2
    m3 = m3
    Messages <- TwoMessages
    Size <- MCSize
    Timeout <- MCTimeout
    MaxEntries = 2
    MaxBytes = 3
    Interval = 1
    Expire = 2
    DrainLimit = 1
    AttemptCap = 1
    LastCall = 1
    LastStop = 4
    Horizon = 8
PROPERTIES
    DrainTerminates
    HeldSettles
    CallReplied
