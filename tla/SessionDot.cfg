SPECIFICATION Spec
CHECK_DEADLOCK FALSE
CONSTANTS
    Modes = {"none", "starttls", "implicit"}
    HasCert = TRUE
    Senders <- MCSenders
    Recipients <- MCRecipients
    Routed <- MCRouted
    Commands <- MCCommands
    BodyLines <- MCBodyLines
    Octets <- MCOctets
    MaxMessageBytes = 4
    CommandTimeout = 1
    SessionTimeout = 2
    MaxAhead = 2
INVARIANTS
    DotAnswered
