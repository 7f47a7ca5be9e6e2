SPECIFICATION FairSpec
CONSTANTS
    u1 = u1
    u2 = u2
    MaxBytes = 1
    ChannelSize = 2
    User <- MCUser
    UserOps <- AllOps
INVARIANT FramesInOrder
PROPERTY ParamsStayAvailable
CHECK_DEADLOCK FALSE
