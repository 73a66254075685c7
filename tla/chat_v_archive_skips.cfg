SPECIFICATION Spec
CONSTANTS
    p1 = p1
    p2 = p2
    alice = alice
    bob = bob
    carol = carol
    NoProc = NoProc
    NoFile = NoFile
    NoHandle = NoHandle
    Procs = {p1}
    Handles = {alice, bob}
    Commands = {"send", "read"}
    Senders = {bob}
    Readers = {alice}
    THRESHOLD = 2
    CLEAVE = 2
    MAX_MESSAGES = 9
    PARTS_CAP = 9
    CURSORS_CAP = 9
    MaxSends = 3
    MaxFaults = 0
SYMMETRY Symmetry
PROPERTY ArchiveKeepsUnread
