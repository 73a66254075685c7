SPECIFICATION FairSpec
CONSTANTS
    p1 = p1
    p2 = p2
    alice = alice
    bob = bob
    carol = carol
    NoProc = NoProc
    NoFile = NoFile
    NoHandle = NoHandle
    Procs = {p1, p2}
    Handles = {alice, bob}
    Commands = {"send", "read", "filter", "delete", "poll", "cursor-set"}
    Senders = {alice, bob}
    Readers = {alice}
    THRESHOLD = 1
    CLEAVE = 1
    MAX_MESSAGES = 1
    PARTS_CAP = 1
    CURSORS_CAP = 1
    MaxSends = 2
    MaxFaults = 1
PROPERTY EveryCommandEnds
