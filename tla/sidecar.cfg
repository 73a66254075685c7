SPECIFICATION Spec
CONSTANTS
    Handles = {"alice"}
    Human = "human"
    Begins <- MCBegins
    Texts <- MCTexts
    Supervisor = "alice"
    ALIVE_ERRORS = 1
    BUS_CHECK = 1
    FAIL_THRESHOLD = 1
    POLL = TRUE
    Posters = {"human"}
    MaxMsgs = 2
    MaxFaults = 1
PROPERTY EveryMessageRead NoNotificationStorm
CHECK_DEADLOCK FALSE
