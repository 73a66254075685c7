SPECIFICATION FairSpec
CONSTANTS
    p1 = p1
    p2 = p2
    NoProc = NoProc
    NoEvent = NoEvent
    Procs = {p1, p2}
    Sources = {"chat"}
    Types = {"msg"}
    Priorities = {0, 3}
    Commands = {"publish", "dedup", "consume", "ack-all"}
    WINDOW = 1
    MAX_EVENTS = 9
    MAX_SIZE = 1
    MaxPublish = 2
    MaxTime = 2
    MaxFaults = 1
PROPERTY EveryEventConsumed
CHECK_DEADLOCK FALSE
