SPECIFICATION FairSpec
CONSTANTS
    t1 = t1
    t2 = t2
    Task <- OneTask
    MaxConcurrent = 1
    MaxFaults = 0
    OutboxSize = 1
    InboxSize = 2
PROPERTY FinishedTasksLeaveTable
CHECK_DEADLOCK FALSE
