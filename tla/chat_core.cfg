SPECIFICATION Spec
CONSTANTS
    p1 = p1
    p2 = p2
    alice = alice
    bob = bob
    carol = carol
    NoProc = NoProc
    NoFile = NoFile
    NoHandle = NoHandle
    Procs = {p1, p2}
    Handles = {alice, bob, carol}
    Commands = {"send", "read", "delete"}
    Senders = {alice, bob}
    Readers = {carol}
    THRESHOLD = 2
    CLEAVE = 1
    MAX_MESSAGES = 9
    PARTS_CAP = 9
    CURSORS_CAP = 9
    MaxSends = 3
    MaxFaults = 1
SYMMETRY Symmetry
INVARIANT IInv
INVARIANT HeaderCoversLines
INVARIANT ReaderCursorDelivered
PROPERTY LogSpec
PROPERTY IndexStable
PROPERTY NoLostCursorUpdate
