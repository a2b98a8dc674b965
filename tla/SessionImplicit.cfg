SPECIFICATION FairSpec
CHECK_DEADLOCK FALSE
CONSTANTS
    Modes = {"implicit"}
    HasCert = TRUE
    Senders <- MCSenders
    Recipients <- MCRecipients
    Routed <- MCRouted
    Commands <- MCCommands
    BodyLines <- MCBodyLines
    Octets <- MCOctets
    MaxMessageBytes = 4
    CommandTimeout = 1
    SessionTimeout = 2
    MaxAhead = 1
PROPERTIES
    SessionEnds
