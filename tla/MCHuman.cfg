CONSTANTS
    root = root
    bot = bot
    kid = kid
    ann = ann
    e1 = e1
    e2 = e2
    e3 = e3
    None = None
    Actors <- TeamActors
    InitActor <- TeamActor
    InitLedger <- TeamLedger
    InitEnvelope <- DelegateEnvelope
    Envelopes = {e1, e2, e3}
    Holds = {h1}
    Tasks = {t1, t2}
    Requests <- CascadeRequests
    MaxClock = 0
    MaxTicks = 0
    EnergyPerTick = 3
SPECIFICATION CalmSpec
INVARIANTS
    HumansNeverFrozen
SYMMETRY TaskSymmetry
CHECK_DEADLOCK FALSE
