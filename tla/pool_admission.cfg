SPECIFICATION Spec
CONSTANTS
    a = a
    b = b
    r1 = r1
    r2 = r2
    None = None
    Services = {a, b}
    Reqs = {r1, r2}
    Rank <- RankAB
    StopBurst <- Burst2
    AtBoot <- LeftRunning
    Budgets <- BudgetsAdmission
    OpTTL = 0
    Grace = 1
    Cooldown = 1
    Default = a
    MaxQueue = 1
    EventCap = 1
    ActivityCap = 1
    MaxLate = 0
    MaxOps = 3
CONSTRAINT FewOps
SYMMETRY ReqSymmetry
INVARIANT TypeOK
INVARIANT OneReplyEach
INVARIANT NoLostRequest
INVARIANT NoGhostWaiter
INVARIANT NoStranded
INVARIANT WorkerMatchesState
INVARIANT CountdownIsReal
INVARIANT DefaultRetried
INVARIANT MutexAtRest
PROPERTY GraceHonoured
PROPERTY FastPathHonest
