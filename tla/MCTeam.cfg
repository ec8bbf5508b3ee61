CONSTANTS
    root = root
    bot = bot
    kid = kid
    ann = ann
    e1 = e1
    e2 = e2
    e3 = e3
    None = None
    Actors <- TeamActors
    InitActor <- TeamActor
    InitLedger <- TeamLedger
    InitEnvelope <- DelegateEnvelope
    Envelopes = {e1, e2, e3}
    Holds = {h1}
    Tasks = {t1, t2, t3}
    Requests <- TeamRequests
    MaxClock = 1
    MaxTicks = 1
    EnergyPerTick = 3
SPECIFICATION Spec
INVARIANTS
    TypeOK
    BalanceExplained
    DelegationShrinks
PROPERTY TicksAreNeutral
SYMMETRY TeamSymmetry
CHECK_DEADLOCK FALSE
