SPECIFICATION FairSpec
CONSTANTS
    t1 = t1
    t2 = t2
    Task <- TwoTasks
    MaxConcurrent = 1
    MaxFaults = 2
    OutboxSize = 1
    InboxSize = 2
INVARIANTS PermitsConserved LiveTasksListed
PROPERTIES EveryTaskClaimed DeletedNodeComesBack
CHECK_DEADLOCK FALSE
