SPECIFICATION FairSpec
CHECK_DEADLOCK FALSE
CONSTANTS
    Configs <- MCConfigs
    MaxListeners = 2
    Conns = {c1, c2, c3}
    MaxSignals = 3
PROPERTIES
    LimitInForce
