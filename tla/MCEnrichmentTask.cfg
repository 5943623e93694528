CONSTANTS
    r1 = r1
    r2 = r2
    u1 = u1
    u2 = u2
    w1 = w1
    Roots <- MCRoots
    Tasks <- MCTasks
    Subtasks <- MCSubtasks
    Users <- MCUsers
    Waiters <- MCWaiters
    MaxSeeds = 2
    NoOne = NoOne
    NoRoot = NoRoot
    NoTask = NoTask
    NoSubtask = NoSubtask

SPECIFICATION FairSpec

INVARIANTS
    CancelledTaskWindsDown
    OneRunPerRoot
    WaitCoversWhatRan

PROPERTIES
    CancelledTaskEnds
    WaitReturns

CHECK_DEADLOCK FALSE
