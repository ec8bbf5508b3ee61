CONSTANTS
    root = root
    bot = bot
    kid = kid
    ann = ann
    e1 = e1
    e2 = e2
    e3 = e3
    None = None
    Actors <- PairActors
    InitActor <- PairActor
    InitLedger <- RichLedger
    InitEnvelope <- HoldEnvelope
    Envelopes = {e1}
    Holds = {h1}
    Tasks = {t1, t2}
    Requests <- HoldRequests
    MaxClock = 0
    MaxTicks = 0
    EnergyPerTick = 3
SPECIFICATION CalmSpec
INVARIANTS
    LockCountsTowardBudget
SYMMETRY TaskSymmetry
CHECK_DEADLOCK FALSE
