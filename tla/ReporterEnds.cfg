SPECIFICATION FairSpec
CONSTANTS
    u1 = u1
    u2 = u2
    MaxBytes = 2
    ChannelSize = 1
    User <- Nobody
    UserOps <- NoOps
PROPERTY ReporterEnds
CHECK_DEADLOCK FALSE
