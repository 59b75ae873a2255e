------------------------------- MODULE MCPool -------------------------------
EXTENDS Pool, TLC

CONSTANTS a, b, r1, r2

RankAB == (a :> 1) @@ (b :> 2)
LeftRunning == {{}, {b}}
NoneAtBoot == {{}}
Burst1 == <<"die">>
Burst2 == <<"die", "stop">>
Burst3 == <<"kill", "die", "stop">>

ReqSymmetry == Permutations(Reqs)

\* A teardown that comes late for every retry of the default service makes
\* the retries go on for ever.
CONSTANT MaxOps
FewOps == opSeq <= MaxOps

BudgetsAdmission ==
    [fault |-> 1, external |-> 0, subscribe |-> 0, admin |-> 1, cancel |-> 1, close |-> 0]
BudgetsEvents ==
    [fault |-> 0, external |-> 1, subscribe |-> 1, admin |-> 0, cancel |-> 0, close |-> 0]
BudgetsLiveness ==
    [fault |-> 1, external |-> 0, subscribe |-> 0, admin |-> 0, cancel |-> 1, close |-> 0]
BudgetsShutdown ==
    [fault |-> 0, external |-> 0, subscribe |-> 0, admin |-> 0, cancel |-> 1, close |-> 1]
BudgetsOperator ==
    [fault |-> 0, external |-> 0, subscribe |-> 0, admin |-> 1, cancel |-> 0, close |-> 0]
BudgetsCancel ==
    [fault |-> 0, external |-> 0, subscribe |-> 0, admin |-> 0, cancel |-> 1, close |-> 0]
BudgetsWatched ==
    [fault |-> 0, external |-> 0, subscribe |-> 1, admin |-> 1, cancel |-> 0, close |-> 0]
BudgetsTargetDies ==
    [fault |-> 0, external |-> 1, subscribe |-> 1, admin |-> 1, cancel |-> 0, close |-> 0]
=============================================================================
