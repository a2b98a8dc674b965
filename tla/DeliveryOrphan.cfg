SPECIFICATION FairSpec
CHECK_DEADLOCK FALSE
CONSTANTS
    Lower <- MCLower
    Undotted <- MCUndotted
    DomainOf <- MCDomainOf
    Second = 4
    MaxInt = 32
    Files <- SmallFiles
    Recipients <- MCRecipients
    Bodies <- MCBodies
    Replies <- MCReplies
    Statuses <- MCStatuses
    ExitCodes <- MCExitCodes
PROPERTIES
    AttemptEnds
