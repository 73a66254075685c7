SPECIFICATION TeamSpec
CONSTANTS
    Sidecars = {s1, s2}
    INTERVAL = 4
    FIRST_DELAY = 3
    RECHECK = 2
    LAG = 1
    MaxTime = 12
    MaxTriggerFaults = 2
    Paths = {p1, p2}
    MaxInbox = 3
    MaxRegistryFaults = 1
    Launches = {1, 2}
    Respawns = {3}
    MaxCommands = 2
    MaxAgentFaults = 1
    Procs = {1}
    Tasks = {1, 2}
    Direct = {2}
    Roles = {"pythia"}
    OracleRoles = {"pythia"}
    POLLS = 1
    MaxFaults = 1
    HubProcs = {1}
    Phases = {"PLANNING", "BUILD", "UNNAMED"}
    Docs = {"spec", "notes"}
    DocPaths = {"d1", "d2"}
    AUDIT_THRESHOLD = 2
    MAX_DOCS = 2
    MaxUnaudited = 4
    MaxPhase = 2
    MaxHubFaults = 2
INVARIANT TInv
INVARIANT InboxDecides
INVARIANT OwnPidfile
INVARIANT PhasePassedOnce
INVARIANT DocReadsBack
PROPERTY ClaimsApart
PROPERTY DueTriggerFires
PROPERTY AgentServed
PROPERTY SpawnGated
PROPERTY MonitorKillsOwn
PROPERTY WatchedWorkerEnds
CHECK_DEADLOCK FALSE
