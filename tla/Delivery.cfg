SPECIFICATION EndingSpec
CHECK_DEADLOCK FALSE
CONSTANTS
    Lower <- MCLower
    Undotted <- MCUndotted
    DomainOf <- MCDomainOf
    Second = 4
    MaxInt = 32
    Files <- MCFiles
    Recipients <- MCRecipients
    Bodies <- MCBodies
    Replies <- MCReplies
    Statuses <- MCStatuses
    ExitCodes <- MCExitCodes
INVARIANTS
    TypeOK
    LookupSpecified
    NoRouteShadowed
    FitForUse
    OkMeansTaken
    HeardIsFinal
    PermJustified
    RelayedIntact
PROPERTIES
    AttemptEnds
