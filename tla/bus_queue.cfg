SPECIFICATION Spec
CONSTANTS
    p1 = p1
    p2 = p2
    NoProc = NoProc
    NoEvent = NoEvent
    Procs = {p1, p2}
    Sources = {"chat"}
    Types = {"msg"}
    Priorities = {1}
    Commands = {"publish", "dedup", "ack-all", "prune"}
    WINDOW = 1
    MAX_EVENTS = 2
    MAX_SIZE = 1
    MaxPublish = 3
    MaxTime = 4
    MaxFaults = 1
SYMMETRY ProcSymmetry
INVARIANT IInv
INVARIANT DedupWindow
PROPERTY QueueSpec
CHECK_DEADLOCK FALSE
