CONSTANTS
    None = None
    Procs = {d1, d2, d3}
SPECIFICATION FairSpec
INVARIANTS
    ServerReachable
PROPERTIES
    KeyKept
    OldDaemonStops
    ShutdownObeyed
CHECK_DEADLOCK FALSE
