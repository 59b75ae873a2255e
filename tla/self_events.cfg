SPECIFICATION Spec
CONSTANTS
    a = a
    b = b
    r1 = r1
    r2 = r2
    None = None
    Services = {a, b}
    Reqs = {r1, r2}
    Rank <- RankAB
    StopBurst <- Burst3
    AtBoot <- NoneAtBoot
    Budgets <- BudgetsWatched
    OpTTL = 12
    Grace = 0
    Cooldown = 0
    Default = None
    MaxQueue = 1
    EventCap = 1
    ActivityCap = 1
    MaxLate = 0
    MaxOps = 0
INVARIANT SelfEventsExplained
