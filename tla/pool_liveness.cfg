SPECIFICATION FairSpec
CONSTANTS
    a = a
    b = b
    r1 = r1
    r2 = r2
    None = None
    Services = {a, b}
    Reqs = {r1, r2}
    Rank <- RankAB
    StopBurst <- Burst2
    AtBoot <- NoneAtBoot
    Budgets <- BudgetsLiveness
    OpTTL = 0
    Grace = 1
    Cooldown = 1
    Default = None
    MaxQueue = 1
    EventCap = 1
    ActivityCap = 0
    MaxLate = 0
    MaxOps = 0
PROPERTY EveryRequestAnswered
PROPERTY SwappingEnds
