SPECIFICATION Spec
CHECK_DEADLOCK FALSE
CONSTANTS
    Configs <- MCConfigs
    Senders <- MCSenders
    Worlds <- MCWorlds
    QueryTimeout = 2
    CommandTimeout = 3
INVARIANTS
    TimeoutIsTemporary
