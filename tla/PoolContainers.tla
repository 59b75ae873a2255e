--------------------------- MODULE PoolContainers ---------------------------
(***************************************************************************)
(* What runs: when nothing fails and nobody else uses Docker, a pool at    *)
(* rest runs its active container and no other.                            *)
(***************************************************************************)
EXTENDS PoolProofs

-----------------------------------------------------------------------------
(* Disturbances.                                                           *)

\* A step takes from a budget, or leaves them all alone; a closed pool stays
\* closed.
LEMMA StepSpends ==
    ASSUME [Next]_vars
    PROVE  /\ UNCHANGED budget \/ \E k \in BudgetKinds : Spend(k)
           /\ closed => closed'
<1> DEFINE Spends == UNCHANGED budget \/ \E k \in BudgetKinds : Spend(k)
<1>0. {"fault", "external", "subscribe", "admin", "cancel", "close"} \subseteq BudgetKinds
  BY DEF BudgetKinds
<1>1. CASE UNCHANGED vars
  BY <1>1 DEF vars, dockerVars, workerVars
<1>2. ASSUME NEW r \in Reqs, ClientNext(r) PROVE Spends /\ closed' = closed
  <2>1. CASE Arrive(r) \/ Receive(r) \/ Abandon(r)
    BY <2>1 DEF Arrive, Receive, Abandon, poolVars, dockerVars, workerVars
  <2>2. CASE Submit(r) \/ Cancel(r)
    BY <2>2 DEF Submit, Cancel, HandleAdmit, HandleCancel, outsideVars, dockerVars
  <2>3. CASE GiveUp(r)
    BY <1>0, <2>3 DEF GiveUp, workerVars
  <2> QED
    BY <1>2, <2>1, <2>2, <2>3 DEF ClientNext
<1>3. CASE ManagerNext
  <2>1. ASSUME NEW w \in workers, HandleSwap(w) PROVE UNCHANGED outsideVars
    BY <2>1 DEF HandleSwap, StaleReport, SwapComplete, SwapFailed, SwapHealthTimeout, PoolStopped
  <2>2. ASSUME NEW t \in ticks, HandleTick(t) PROVE UNCHANGED outsideVars
    BY <2>2 DEF HandleTick
  <2>3. ASSUME ChainAfterComplete \/ HandleActivity \/ HandleExternalEvent \/ Shutdown
        PROVE  UNCHANGED outsideVars
    BY <2>3 DEF ChainAfterComplete, HandleActivity, HandleExternalEvent, Shutdown
  <2>4. ASSUME NEW s \in Services, HandleAdminSwap(s) PROVE Spends /\ closed' = closed
    BY <1>0, <2>4 DEF HandleAdminSwap
  <2>5. CASE HandleAdminStop \/ Close
    BY <1>0, <2>5 DEF HandleAdminStop, Close
  <2> QED
    BY <1>3, <2>1, <2>2, <2>3, <2>4, <2>5 DEF ManagerNext, outsideVars, dockerVars
<1>4. ASSUME NEW w \in workers, WorkerNext(w) PROVE Spends /\ closed' = closed
  BY <1>0, <1>4 DEF WorkerNext, WorkerSweep, WorkerSweepFails, WorkerSuperseded, WorkerSwept,
     WorkerStop, WorkerStopFails, WorkerConfirm, WorkerConfirmFails, WorkerStart,
     WorkerStartFails, WorkerStarted, WorkerHealthy, WorkerUnhealthy, WorkerPanic, WorkerExit,
     CallFails, dockerVars
<1>5. ASSUME NEW k \in Stopper, StopperNext(k) PROVE Spends /\ closed' = closed
  BY <1>0, <1>5 DEF StopperNext, StopperBegin, StopperStop, CallFails, dockerVars
<1>6. CASE WatcherNext \/ OutsideNext \/ Tick
  BY <1>0, <1>6 DEF WatcherNext, Route, Notify, Resubscribe, Subscribe, StreamError, OutsideNext,
     ExternalStart, ExternalStop, Tick, dockerVars, workerVars
<1> QED
  BY <1>1, <1>2, <1>3, <1>4, <1>5, <1>6 DEF Next, WorkersNext

\* A pool that is undisturbed after a step was so before it, and the step
\* was no disturbance.
LEMMA CalmBefore ==
    ASSUME TypeOK, NoRefund, UNCHANGED budget \/ \E k \in BudgetKinds : Spend(k),
           closed => closed'
    PROVE  /\ NoRefund'
           /\ Undisturbed' => /\ Undisturbed /\ ~closed
                              /\ ~Spend("fault") /\ ~Spend("external")
<1>0. /\ budget \in [BudgetKinds -> Nat] /\ Budgets \in [BudgetKinds -> Nat]
      /\ "fault" \in BudgetKinds /\ "external" \in BudgetKinds
  BY DockerAssumption DEF TypeOK, DockerType, BudgetKinds
<1>1. \A j \in BudgetKinds : budget'[j] <= budget[j] /\ budget'[j] \in Int
  BY <1>0 DEF Spend
<1>2. NoRefund'
  BY <1>0, <1>1 DEF NoRefund
<1>3. ASSUME Undisturbed'
      PROVE  \A j \in {"fault", "external"} : budget[j] = Budgets[j] /\ budget'[j] = budget[j]
  BY <1>0, <1>1, <1>3 DEF NoRefund, Undisturbed
<1>4. ASSUME NEW j \in BudgetKinds, Spend(j) PROVE budget'[j] # budget[j]
  BY <1>0, <1>4 DEF Spend
<1> QED
  BY <1>0, <1>2, <1>3, <1>4 DEF Undisturbed

-----------------------------------------------------------------------------
(* The workers.                                                            *)

\* What a worker's next record is, field by field.
LEMMA Fields ==
    ASSUME NEW w \in Worker
    PROVE  /\ \A res : LET n == [w EXCEPT !.pc = "report", !.todo = {}, !.at = None, !.res = res] IN
                 /\ n.target = w.target /\ n.canceled = w.canceled
                 /\ n.pc = "report" /\ n.todo = {} /\ n.at = None /\ n.res = res
           /\ \A pc : LET n == [w EXCEPT !.pc = pc] IN
                 /\ n.target = w.target /\ n.canceled = w.canceled
                 /\ n.pc = pc /\ n.todo = w.todo /\ n.at = w.at /\ n.res = w.res
           /\ \A c : LET n == [w EXCEPT !.pc = "stop", !.at = c] IN
                 /\ n.target = w.target /\ n.canceled = w.canceled
                 /\ n.pc = "stop" /\ n.todo = w.todo /\ n.at = c /\ n.res = w.res
           /\ \A c : LET n == [w EXCEPT !.todo = @ \ {c}] IN
                 /\ n.target = w.target /\ n.canceled = w.canceled
                 /\ n.pc = w.pc /\ n.todo = w.todo \ {c} /\ n.at = w.at /\ n.res = w.res
           /\ \A c : LET n == [w EXCEPT !.pc = "sweep", !.at = None, !.todo = @ \ {c}] IN
                 /\ n.target = w.target /\ n.canceled = w.canceled
                 /\ n.pc = "sweep" /\ n.todo = w.todo \ {c} /\ n.at = None /\ n.res = w.res
BY DEF Worker

\* A worker's step keeps Sweeping: what is swept only shrinks, the target is
\* started only once nothing is left, and only a superseded worker stops its
\* target.
LEMMA SweepGoesOn ==
    ASSUME TypeOK, SweepInv, NEW w \in workers, WorkerNext(w)
    PROVE  SweepInv'
<1>0. w \in Worker /\ Sweeping(w)
  BY DEF TypeOK, WorkerType, SweepInv
<1>G. ASSUME NEW n, Step(w, n), Sweeping(n) PROVE SweepInv'
  BY <1>G DEF Step, SweepInv
<1>1. ASSUME NEW res, Report(w, res) PROVE SweepInv'
  <2> DEFINE n == [w EXCEPT !.pc = "report", !.todo = {}, !.at = None, !.res = res]
  <2>1. Step(w, n) /\ n.pc = "report" /\ n.todo = {}
    BY <1>0, <1>1, Fields DEF Report
  <2> QED
    BY <1>G, <2>1 DEF Sweeping
<1>2. ASSUME NEW c, w.pc = "sweep", Step(w, [w EXCEPT !.todo = @ \ {c}]) PROVE SweepInv'
  <2> DEFINE n == [w EXCEPT !.todo = @ \ {c}]
  <2>1. n.target = w.target /\ n.pc = "sweep" /\ n.todo = w.todo \ {c}
    BY <1>0, <1>2, Fields
  <2>2. Sweeping(n)
    BY <1>0, <2>1 DEF Sweeping
  <2> QED
    BY <1>G, <1>2, <2>2
<1>3. ASSUME NEW c, c \in w.todo \/ w.canceled, Step(w, [w EXCEPT !.pc = "stop", !.at = c])
      PROVE  SweepInv'
  <2> DEFINE n == [w EXCEPT !.pc = "stop", !.at = c]
  <2>1. /\ n.target = w.target /\ n.pc = "stop" /\ n.todo = w.todo /\ n.at = c
        /\ n.canceled = w.canceled
    BY <1>0, Fields
  <2>2. Sweeping(n)
    BY <1>0, <1>3, <2>1 DEF Sweeping
  <2> QED
    BY <1>G, <1>3, <2>2
<1>4. ASSUME NEW ok, AfterStop(w, ok) PROVE SweepInv'
  <2>1. CASE Report(w, "failed")
    BY <1>1, <2>1
  <2>2. CASE Step(w, [w EXCEPT !.pc = "sweep", !.at = None, !.todo = @ \ {w.at}])
    <3> DEFINE n == [w EXCEPT !.pc = "sweep", !.at = None, !.todo = @ \ {w.at}]
    <3>1. n.target = w.target /\ n.pc = "sweep" /\ n.todo = w.todo \ {w.at}
      BY <1>0, Fields
    <3>2. Sweeping(n)
      BY <1>0, <3>1 DEF Sweeping
    <3> QED
      BY <1>G, <2>2, <3>2
  <2> QED
    BY <1>4, <2>1, <2>2 DEF AfterStop
<1>5. ASSUME NEW pc \in {"confirm", "start", "started", "probe"}, Step(w, [w EXCEPT !.pc = pc]),
             pc = "confirm" => w.pc = "stop",
             pc # "confirm" => w.todo = {}
      PROVE  SweepInv'
  <2> DEFINE n == [w EXCEPT !.pc = pc]
  <2>1. /\ n.target = w.target /\ n.pc = pc /\ n.todo = w.todo /\ n.at = w.at
        /\ n.canceled = w.canceled
    BY <1>0, Fields
  <2>2. Sweeping(n)
    BY <1>0, <1>5, <2>1 DEF Sweeping
  <2> QED
    BY <1>G, <1>5, <2>2
<1>6. CASE WorkerSweep(w)
  BY <1>2, <1>3, <1>6 DEF WorkerSweep, First
<1>7. CASE WorkerSweepFails(w)
  BY <1>1, <1>2, <1>7 DEF WorkerSweepFails
<1>8. CASE WorkerSuperseded(w) \/ WorkerPanic(w) \/ WorkerStartFails(w) \/ WorkerHealthy(w)
           \/ WorkerUnhealthy(w)
  BY <1>1, <1>8 DEF WorkerSuperseded, WorkerPanic, WorkerStartFails, WorkerHealthy,
     WorkerUnhealthy
<1>9. CASE WorkerSwept(w)
  BY <1>1, <1>5, <1>9 DEF WorkerSwept
<1>10. CASE WorkerStop(w)
  BY <1>5, <1>10 DEF WorkerStop
<1>11. CASE WorkerStopFails(w) \/ WorkerConfirm(w) \/ WorkerConfirmFails(w)
  BY <1>4, <1>11 DEF WorkerStopFails, WorkerConfirm, WorkerConfirmFails
<1>12. CASE WorkerStart(w) \/ WorkerStarted(w)
  BY <1>0, <1>3, <1>5, <1>12 DEF WorkerStart, WorkerStarted, Sweeping
<1>13. CASE WorkerExit(w)
  BY <1>13 DEF WorkerExit, SweepInv
<1> QED
  BY <1>6, <1>7, <1>8, <1>9, <1>10, <1>11, <1>12, <1>13 DEF WorkerNext

\* Without a disturbance a worker drops a container only when the container
\* does not run any more, and starts one only into its own hands.
LEMMA TendingGoesOn ==
    ASSUME TypeOK, WorkerInv, ContainerInv, NEW w \in workers, WorkerNext(w),
           Undisturbed, ~closed, ~Spend("fault"), UNCHANGED <<state, active>>
    PROVE  NoOrphan'
<1>0. w \in Worker /\ Sweeping(w) /\ Shaped(w) /\ ~CallFails /\ NoOrphan
  BY DEF TypeOK, WorkerType, WorkerInv, WorkerShape, ContainerInv, SweepInv, CallFails
<1>G. ASSUME NEW n, Step(w, n),
             \A c \in running' : c \in running \/ Tends(n, c),
             \A c \in running' : Tends(w, c) => Tends(n, c)
      PROVE  NoOrphan'
  <2> SUFFICES ASSUME state \in {"ACTIVE", "SWAPPING"}, NEW c \in running'
               PROVE  (state = "ACTIVE" /\ c = active) \/ \E v \in workers' : Tends(v, c)
    BY DEF NoOrphan, LookedAfter
  <2>1. n \in workers' /\ \A v \in workers : v = w \/ v \in workers'
    BY <1>G DEF Step
  <2>2. CASE Tends(n, c)
    BY <2>1, <2>2
  <2>3. CASE c \in running
    <3>1. (state = "ACTIVE" /\ c = active) \/ \E v \in workers : Tends(v, c)
      BY <1>0, <2>3 DEF NoOrphan, LookedAfter
    <3> QED
      BY <1>G, <2>1, <3>1
  <2> QED
    BY <1>G, <2>2, <2>3
<1>1. ASSUME NEW res \in {"failed", "timeout"}, Report(w, res), running' = running,
             ~w.canceled \/ w.pc \notin {"started", "stop"}
      PROVE  NoOrphan'
  <2> DEFINE n == [w EXCEPT !.pc = "report", !.todo = {}, !.at = None, !.res = res]
  <2>1. Step(w, n) /\ n.pc = "report" /\ n.res = res /\ n.canceled = w.canceled
    BY <1>0, <1>1, Fields DEF Report
  <2>2. \A c : Tends(w, c) => Tends(n, c)
    BY <1>1, <2>1 DEF Tends, WontComplete
  <2> QED
    BY <1>1, <1>G, <2>1, <2>2
<1>2. CASE WorkerSweep(w)
  <2>1. PICK c \in First(w.todo) :
            IF c \in running THEN Step(w, [w EXCEPT !.pc = "stop", !.at = c])
            ELSE Step(w, [w EXCEPT !.todo = @ \ {c}])
    BY <1>2 DEF WorkerSweep
  <2>2. running' = running /\ w.pc = "sweep"
    BY <1>2 DEF WorkerSweep, dockerVars
  <2>3. CASE c \in running
    <3> DEFINE n == [w EXCEPT !.pc = "stop", !.at = c]
    <3>1. /\ Step(w, n) /\ n.target = w.target /\ n.todo = w.todo /\ n.canceled = w.canceled
      BY <1>0, <2>1, <2>3, Fields
    <3>2. \A d : Tends(w, d) => Tends(n, d)
      BY <2>2, <3>1 DEF Tends, WontComplete
    <3> QED
      BY <1>G, <2>2, <3>1, <3>2
  <2>4. CASE c \notin running
    <3> DEFINE n == [w EXCEPT !.todo = @ \ {c}]
    <3>1. /\ Step(w, n) /\ n.target = w.target /\ n.todo = w.todo \ {c} /\ n.pc = w.pc
          /\ n.canceled = w.canceled
      BY <1>0, <2>1, <2>4, Fields
    <3>2. \A d \in running : Tends(w, d) => Tends(n, d)
      BY <2>2, <2>4, <3>1 DEF Tends, WontComplete
    <3> QED
      BY <1>G, <2>2, <3>1, <3>2
  <2> QED
    BY <2>3, <2>4
<1>3. CASE WorkerSuperseded(w)
  <2>1. /\ w.canceled /\ w.pc = "sweep" /\ running' = running
        /\ Report(w, FailureOf(w))
    BY <1>3 DEF WorkerSuperseded, dockerVars
  <2> DEFINE n == [w EXCEPT !.pc = "report", !.todo = {}, !.at = None, !.res = FailureOf(w)]
  <2>2. Step(w, n)
    BY <2>1 DEF Report
  <2>3. \A c : ~Tends(w, c)
    BY <2>1 DEF Tends
  <2> QED
    BY <1>G, <2>1, <2>2, <2>3
<1>4. CASE WorkerSwept(w)
  <2>0. w.pc = "sweep" /\ running' = running /\ w.todo = {}
    BY <1>4 DEF WorkerSwept, dockerVars
  <2>1. CASE w.target = None
    <3> DEFINE n == [w EXCEPT !.pc = "report", !.todo = {}, !.at = None, !.res = "stopped"]
    <3>1. Step(w, n) /\ n.target = None /\ n.canceled = w.canceled
      BY <1>0, <1>4, <2>1, Fields DEF WorkerSwept, Report
    <3>2. \A c : Tends(w, c) => Tends(n, c)
      BY <2>0, <3>1 DEF Tends, WontComplete
    <3> QED
      BY <1>G, <2>0, <3>1, <3>2
  <2>2. CASE w.target # None
    <3> DEFINE n == [w EXCEPT !.pc = "start"]
    <3>1. /\ Step(w, n) /\ n.target = w.target /\ n.canceled = w.canceled
          /\ n.todo = w.todo
      BY <1>0, <1>4, <2>2, Fields DEF WorkerSwept
    <3>2. \A c : Tends(w, c) => Tends(n, c)
      BY <2>0, <3>1 DEF Tends, WontComplete
    <3> QED
      BY <1>G, <2>0, <3>1, <3>2
  <2> QED
    BY <2>1, <2>2
<1>5. CASE WorkerStop(w)
  <2> DEFINE n == [w EXCEPT !.pc = "confirm"]
  <2>1. /\ Step(w, n) /\ n.target = w.target /\ n.canceled = w.canceled
        /\ n.todo = w.todo /\ running' = running \ {w.at} /\ w.pc = "stop"
    BY <1>0, <1>5, Fields DEF WorkerStop, StopContainer
  <2>2. \A c \in running' : Tends(w, c) => Tends(n, c)
    BY <2>1 DEF Tends, WontComplete
  <2> QED
    BY <1>G, <2>1, <2>2
<1>6. CASE WorkerConfirm(w) \/ WorkerConfirmFails(w)
  <2>1. /\ w.pc = "confirm" /\ running' = running
        /\ (AfterStop(w, TRUE) /\ w.at \notin running) \/ AfterStop(w, FALSE)
    BY <1>0, <1>6 DEF WorkerConfirm, WorkerConfirmFails, dockerVars
  <2>2. CASE Report(w, "failed")
    BY <1>1, <2>1, <2>2
  <2>3. CASE /\ Step(w, [w EXCEPT !.pc = "sweep", !.at = None, !.todo = @ \ {w.at}])
             /\ w.target = None \/ w.at \notin running
    <3> DEFINE n == [w EXCEPT !.pc = "sweep", !.at = None, !.todo = @ \ {w.at}]
    <3>1. n.target = w.target /\ n.canceled = w.canceled /\ n.todo = w.todo \ {w.at}
      BY <1>0, Fields
    <3>2. \A c \in running : Tends(w, c) => Tends(n, c)
      BY <2>1, <2>3, <3>1 DEF Tends, WontComplete
    <3> QED
      BY <1>G, <2>1, <2>3, <3>2
  <2> QED
    BY <2>1, <2>2, <2>3 DEF AfterStop
<1>7. CASE WorkerStart(w)
  <2> DEFINE n == [w EXCEPT !.pc = "started"]
  <2>1. /\ Step(w, n) /\ n.target = w.target /\ n.canceled = w.canceled /\ n.pc = "started"
        /\ n.todo = w.todo /\ running' = running \cup {w.target} /\ w.pc = "start"
    BY <1>0, <1>7, Fields DEF WorkerStart, StartContainer
  <2>2. Tends(n, w.target) /\ \A c : Tends(w, c) => Tends(n, c)
    BY <2>1 DEF Tends, WontComplete
  <2> QED
    BY <1>G, <2>1, <2>2
<1>8. CASE WorkerStarted(w)
  <2>0. running' = running /\ w.pc = "started"
    BY <1>8 DEF WorkerStarted, dockerVars
  <2>1. CASE w.canceled
    <3> DEFINE n == [w EXCEPT !.pc = "stop", !.at = w.target]
    <3>1. Step(w, n)
      BY <1>8, <2>1 DEF WorkerStarted
    <3>2. /\ n.target = w.target /\ n.canceled = w.canceled
          /\ n.pc = "stop" /\ n.at = w.target
      BY <1>0, Fields
    <3>3. \A c : Tends(w, c) => Tends(n, c)
      BY <2>1, <3>2 DEF Tends, WontComplete
    <3> QED
      BY <1>G, <2>0, <3>1, <3>3
  <2>2. CASE ~w.canceled
    <3> DEFINE n == [w EXCEPT !.pc = "probe"]
    <3>1. /\ Step(w, n) /\ n.target = w.target /\ n.canceled = w.canceled
          /\ n.todo = w.todo
      BY <1>0, <1>8, <2>2, Fields DEF WorkerStarted
    <3>2. \A c : Tends(w, c) => Tends(n, c)
      BY <2>0, <2>2, <3>1 DEF Tends, WontComplete
    <3> QED
      BY <1>G, <2>0, <3>1, <3>2
  <2> QED
    BY <2>1, <2>2
<1>9. CASE WorkerHealthy(w)
  <2> DEFINE n == [w EXCEPT !.pc = "report", !.todo = {}, !.at = None, !.res = "complete"]
  <2>1. /\ Step(w, n) /\ n.target = w.target /\ n.canceled = w.canceled
        /\ w.pc = "probe" /\ w.todo = {} /\ running' = running
    BY <1>0, <1>9, Fields DEF WorkerHealthy, Report, Sweeping, dockerVars
  <2>2. \A c : Tends(w, c) => Tends(n, c)
    BY <2>1 DEF Tends, WontComplete
  <2> QED
    BY <1>G, <2>1, <2>2
<1>10. CASE WorkerUnhealthy(w)
  BY <1>1, <1>10 DEF WorkerUnhealthy
<1>11. CASE WorkerSweepFails(w) \/ WorkerStopFails(w) \/ WorkerStartFails(w) \/ WorkerPanic(w)
            \/ WorkerExit(w)
  BY <1>0, <1>11 DEF WorkerSweepFails, WorkerStopFails, WorkerStartFails, WorkerPanic, WorkerExit
<1> QED
  BY <1>2, <1>3, <1>4, <1>5, <1>6, <1>7, <1>8, <1>9, <1>10, <1>11 DEF WorkerNext

-----------------------------------------------------------------------------
(* The manager.                                                            *)

\* A cancelled worker sweeps as before.
LEMMA SupersededSweep ==
    ASSUME TypeOK, SweepInv, NEW ws \in SUBSET workers
    PROVE  \A v \in Superseded(ws) : Sweeping(v)
<1> SUFFICES ASSUME NEW v \in Superseded(ws) PROVE Sweeping(v)
  OBVIOUS
<1>1. PICK w \in ws : v = [w EXCEPT !.canceled = @ \/ w.op = opSeq]
  BY DEF Superseded, CancelOp
<1>2. w \in Worker /\ Sweeping(w)
  BY DEF TypeOK, WorkerType, SweepInv
<1>3. v = [op |-> w.op, target |-> w.target, canceled |-> w.canceled \/ w.op = opSeq,
           pc |-> w.pc, todo |-> w.todo, at |-> w.at, res |-> w.res]
  BY <1>1, <1>2 DEF Worker
<1>4. /\ v.target = w.target /\ v.pc = w.pc /\ v.todo = w.todo /\ v.at = w.at
      /\ v.canceled = (w.canceled \/ w.op = opSeq)
  BY <1>3
<1>5. w.canceled => v.canceled
  BY <1>4, Zenon
<1> QED
  BY <1>2, <1>4, <1>5 DEF Sweeping

\* The worker startSwap spawns has every container in its hands.
LEMMA SwapTendsAll ==
    ASSUME TypeOK, SweepInv, NEW ws \in SUBSET workers, NEW s \in Services \cup {None},
           StartSwap(s, ws), running' = running
    PROVE  SweepInv' /\ NoOrphan'
<1> DEFINE n == NewWorker(opSeq + 1, s)
<1>1. workers' = Superseded(ws) \cup {n}
  BY DEF StartSwap
<1>2. n.target = s /\ n.todo = Services \ {s} /\ ~n.canceled /\ n.pc = "sweep"
  BY DEF NewWorker
<1>3. running \subseteq Services
  BY DEF TypeOK, DockerType
<1> HIDE DEF n
<1>4. SweepInv'
  BY <1>1, <1>2, SupersededSweep DEF SweepInv, Sweeping
<1>5. \A c \in Services : Tends(n, c)
  BY <1>2 DEF Tends
<1>6. NoOrphan'
  BY <1>1, <1>3, <1>5 DEF NoOrphan, LookedAfter
<1> QED
  BY <1>4, <1>6

\* A pool that neither serves nor swaps answers for nothing.
LEMMA ColdPool ==
    ASSUME SweepInv, workers' \subseteq workers, state' \notin {"ACTIVE", "SWAPPING"}
    PROVE  SweepInv' /\ NoOrphan'
BY DEF SweepInv, NoOrphan

\* What stops a container, or concerns neither containers nor workers, is
\* harmless.
LEMMA ContainersApart ==
    ASSUME SweepInv, NoOrphan, Undisturbed' => Undisturbed, running' \subseteq running,
           UNCHANGED <<workers, state, active>>
    PROVE  SweepInv' /\ NoOrphan'
BY DEF SweepInv, NoOrphan, LookedAfter

\* The chain after a swap that came to nothing.
LEMMA ChainKeepsContainers ==
    ASSUME TypeOK, SweepInv, NEW ws \in SUBSET workers, NEW q,
           ChainAfterTerminal(FALSE, None, q, ws), running' = running
    PROVE  SweepInv' /\ NoOrphan'
<1>1. CASE \E s \in Services \cup {None} : StartSwap(s, ws)
  BY <1>1, SwapTendsAll
<1>2. CASE workers' = ws /\ state' = "IDLE"
  BY <1>2, ColdPool
<1>3. adminPending \in Services \cup {None}
  BY DEF TypeOK, ManagerType
<1> QED
  BY <1>1, <1>2, <1>3 DEF ChainAfterTerminal, Become, OldestQueued

\* A completed swap swept all but its target, and the other workers are
\* superseded: what runs is the target, or in the hands of one of those.
LEMMA CompleteKeepsContainers ==
    ASSUME TypeOK, WorkerInv, SweepInv, NoOrphan, Undisturbed' => Undisturbed,
           NEW w \in workers, SwapComplete(w)
    PROVE  SweepInv' /\ NoOrphan'
<1>1. /\ Reported(w) /\ w.op = opSeq /\ w.res = "complete" /\ w.pc = "report"
      /\ state' = "ACTIVE" /\ active' = w.target /\ workers' = workers \ {w} /\ running' = running
  BY DEF SwapComplete, Reported, Become, outsideVars, dockerVars
<1>2. /\ state = "SWAPPING" /\ ~w.canceled /\ mgr = "run"
      /\ w \in Worker /\ Sweeping(w) /\ Shaped(w) /\ None \notin Services
  BY <1>1, CurrentWorker, DockerAssumption
     DEF TypeOK, WorkerType, SweepInv, WorkerInv, WorkerShape
<1>3. w.todo = {} /\ ~WontComplete(w)
  BY <1>1, <1>2 DEF Sweeping, Shaped, WontComplete
<1>4. SweepInv'
  BY <1>1 DEF SweepInv
<1>5. NoOrphan'
  <2> SUFFICES ASSUME Undisturbed', NEW c \in running
               PROVE  c = w.target \/ \E v \in workers \ {w} : Tends(v, c)
    BY <1>1 DEF NoOrphan, LookedAfter
  <2>1. PICK v \in workers : Tends(v, c)
    BY <1>2 DEF NoOrphan, LookedAfter
  <2>2. CASE v = w
    BY <1>2, <1>3, <2>1, <2>2 DEF Tends
  <2> QED
    BY <2>1, <2>2
<1> QED
  BY <1>4, <1>5

\* The report of a superseded worker: it has nothing in its hands.
LEMMA StaleKeepsContainers ==
    ASSUME TypeOK, WorkerInv, SweepInv, NoOrphan, Undisturbed' => Undisturbed,
           NEW w \in workers, StaleReport(w)
    PROVE  SweepInv' /\ NoOrphan'
<1>1. /\ mgr = "run" /\ w.pc = "report" /\ w.op # opSeq /\ workers' = workers \ {w}
      /\ UNCHANGED <<running, state, active>>
  BY DEF StaleReport, Reported, managerVars, phaseVars, outsideVars, dockerVars
<1>2. w.canceled
  BY <1>1 DEF WorkerInv, WorkerMatchesState
<1>3. \A c : ~Tends(w, c)
  BY <1>1, <1>2 DEF Tends
<1>4. SweepInv'
  BY <1>1 DEF SweepInv
<1>5. NoOrphan'
  BY <1>1, <1>3 DEF NoOrphan, LookedAfter
<1> QED
  BY <1>4, <1>5

LEMMA ManagerKeepsContainers ==
    ASSUME TypeOK, WorkerInv, ChainInv, SweepInv, NoOrphan, Undisturbed' => Undisturbed, ManagerNext
    PROVE  SweepInv' /\ NoOrphan'
<1>0. /\ workers \in SUBSET workers /\ None \in Services \cup {None}
      /\ Default \in Services \cup {None} /\ adminPending \in Services \cup {None}
  BY PoolAssumption DEF TypeOK, ManagerType
<1>S. ASSUME \E s \in Services \cup {None} : StartSwap(s, workers), running' = running
      PROVE  SweepInv' /\ NoOrphan'
  BY <1>0, <1>S, SwapTendsAll
<1>A. ASSUME UNCHANGED <<phaseVars, workers>>, running' = running PROVE SweepInv' /\ NoOrphan'
  BY <1>A, ContainersApart DEF phaseVars
<1>1. ASSUME NEW w \in workers, HandleSwap(w) PROVE SweepInv' /\ NoOrphan'
  <2>1. CASE SwapFailed(w) \/ SwapHealthTimeout(w) \/ PoolStopped(w)
    <3>1. /\ \E q : ChainAfterTerminal(FALSE, None, q, workers \ {w})
          /\ running' = running
      BY <2>1 DEF SwapFailed, SwapHealthTimeout, PoolStopped, outsideVars, dockerVars
    <3> QED
      BY <3>1, ChainKeepsContainers
  <2> QED
    BY <1>1, <2>1, StaleKeepsContainers, CompleteKeepsContainers DEF HandleSwap
<1>2. ASSUME NEW t \in ticks, HandleTick(t) PROVE SweepInv' /\ NoOrphan'
  <2>1. running' = running
    BY <1>2 DEF HandleTick, outsideVars, dockerVars
  <2> QED
    BY <1>0, <1>2, <1>S, <1>A, <2>1 DEF HandleTick, StaleTick, GraceTick, RetryTick, DeferCooldown,
       CooldownExpired, IdleTick, StartStopAll, OldestQueued
<1>3. CASE HandleActivity
  BY <1>3, <1>A DEF HandleActivity, outsideVars, dockerVars
<1>4. ASSUME NEW s \in Services, HandleAdminSwap(s) PROVE SweepInv' /\ NoOrphan'
  BY <1>4, <1>S, <1>A DEF HandleAdminSwap
<1>5. CASE HandleAdminStop
  BY <1>0, <1>5, <1>S, <1>A DEF HandleAdminStop, StartStopAll
<1>6. CASE HandleExternalEvent
  <2>1. running' = running
    BY <1>6 DEF HandleExternalEvent, outsideVars, dockerVars
  <2>2. CASE Become("ERROR", None, None) /\ UNCHANGED workers
    BY <2>2, ColdPool DEF Become
  <2>3. CASE Become("ERROR", None, None) /\ workers' = Superseded(workers)
    BY <1>0, <2>3, SupersededSweep DEF Become, SweepInv, NoOrphan
  <2> QED
    BY <1>6, <1>S, <1>A, <2>1, <2>2, <2>3 DEF HandleExternalEvent, ActiveDied, TargetDied,
       UnauthorizedStart, IgnoredEvent, ChainNow, OldestQueued
<1>7. CASE Close
  BY <1>7, <1>A DEF Close, managerVars
<1>8. CASE Shutdown
  BY <1>8, ColdPool DEF Shutdown, Become
<1>9. CASE ChainAfterComplete
  <2>1. /\ state = "ACTIVE" /\ running' = running
        /\ ChainAfterTerminal(TRUE, active, queue, workers)
    BY <1>9 DEF ChainAfterComplete, ChainInv, outsideVars, dockerVars
  <2>2. CASE state' = "ACTIVE" /\ UNCHANGED <<active, workers>>
    BY <2>1, <2>2, ContainersApart
  <2> QED
    BY <1>0, <1>S, <2>1, <2>2 DEF ChainAfterTerminal, Become, OldestQueued
<1> QED
  BY <1>1, <1>2, <1>3, <1>4, <1>5, <1>6, <1>7, <1>8, <1>9 DEF ManagerNext

-----------------------------------------------------------------------------
(* Every step.                                                             *)

LEMMA StepKeepsContainers == Inv /\ ContainerInv /\ [Next]_vars => ContainerInv'
<1> SUFFICES ASSUME Inv, ContainerInv, [Next]_vars
             PROVE  ContainerInv'
  OBVIOUS
<1>0. /\ TypeOK /\ WorkerInv /\ ChainInv /\ RequestShape
      /\ NoRefund /\ SweepInv /\ NoOrphan
  BY DEF Inv, RequestInv, ContainerInv
<1>1. /\ NoRefund'
      /\ Undisturbed' => Undisturbed /\ ~closed /\ ~Spend("fault") /\ ~Spend("external")
  BY <1>0, StepSpends, CalmBefore
<1>2. ASSUME NEW r \in Reqs, ClientNext(r) PROVE SweepInv' /\ NoOrphan'
  <2>1. CASE Submit(r)
    <3>1. running' = running /\ svc[r] \in Services \cup {None} /\ workers \in SUBSET workers
      BY <1>0, <2>1 DEF Submit, HandleAdmit, outsideVars, dockerVars, TypeOK, AdmissionType
    <3>2. CASE StartSwap(svc[r], workers)
      BY <1>0, <3>1, <3>2, SwapTendsAll
    <3>3. CASE UNCHANGED <<phaseVars, workers>>
      BY <1>0, <1>1, <3>1, <3>3, ContainersApart DEF phaseVars
    <3> QED
      BY <2>1, <3>2, <3>3 DEF Submit, HandleAdmit, AdmitNow, AdmitFull, AdmitQueued
  <2>2. CASE Arrive(r) \/ Receive(r) \/ GiveUp(r) \/ Abandon(r) \/ Cancel(r)
    <3>1. UNCHANGED <<running, workers, state, active>>
      BY <2>2 DEF Arrive, Receive, GiveUp, Abandon, Cancel, HandleCancel, poolVars, dockerVars,
         workerVars, managerVars, phaseVars, outsideVars
    <3> QED
      BY <1>0, <1>1, <3>1, ContainersApart
  <2> QED
    BY <1>2, <2>1, <2>2 DEF ClientNext
<1>3. ASSUME ManagerNext PROVE SweepInv' /\ NoOrphan'
  BY <1>0, <1>1, <1>3, ManagerKeepsContainers
<1>4. ASSUME WorkersNext, NEW w \in workers, WorkerNext(w) PROVE SweepInv' /\ NoOrphan'
  <2>1. UNCHANGED <<state, active>>
    BY <1>4 DEF WorkersNext, managerVars, phaseVars
  <2>2. SweepInv'
    BY <1>0, <1>4, SweepGoesOn
  <2>3. Undisturbed' => NoOrphan'
    BY <1>0, <1>1, <1>4, <2>1, TendingGoesOn
  <2> QED
    BY <2>2, <2>3 DEF NoOrphan
<1>5. ASSUME WorkersNext, NEW k \in Stopper, StopperNext(k) PROVE SweepInv' /\ NoOrphan'
  <2>1. UNCHANGED <<workers, state, active>> /\ running' \subseteq running
    BY <1>5 DEF WorkersNext, managerVars, phaseVars, StopperNext, StopperBegin, StopperStop,
       StopContainer, NoEffect, dockerVars
  <2> QED
    BY <1>0, <1>1, <2>1, ContainersApart
<1>6. ASSUME WatcherNext \/ Tick \/ UNCHANGED vars PROVE SweepInv' /\ NoOrphan'
  <2>1. UNCHANGED <<running, workers, state, active>>
    BY <1>6 DEF WatcherNext, Route, Notify, Resubscribe, Subscribe, StreamError, Tick, vars,
       dockerVars, workerVars, managerVars, phaseVars
  <2> QED
    BY <1>0, <1>1, <2>1, ContainersApart
<1>7. ASSUME OutsideNext PROVE SweepInv' /\ NoOrphan'
  <2>1. Spend("external") /\ UNCHANGED workers
    BY <1>7 DEF OutsideNext, ExternalStart, ExternalStop, workerVars
  <2> QED
    BY <1>0, <1>1, <2>1 DEF SweepInv, NoOrphan
<1> QED
  BY <1>1, <1>2, <1>3, <1>4, <1>5, <1>6, <1>7 DEF Next, WorkersNext, ContainerInv

LEMMA InitContainers == Init => ContainerInv
<1> SUFFICES ASSUME Init PROVE ContainerInv
  OBVIOUS
<1>1. NoRefund
  BY DockerAssumption DEF Init, DockerInit, NoRefund
<1>2. SweepInv /\ NoOrphan
  BY DEF Init, WorkerInit, ManagerInit, SweepInv, NoOrphan
<1> QED
  BY <1>1, <1>2 DEF ContainerInv

-----------------------------------------------------------------------------
(* The theorems.                                                           *)

\* Undisturbed, no container of a pool that serves or swaps runs unless it is
\* the active one or some worker will see to it.
THEOREM ContainersHeld == Spec => []ContainerInv
BY InitContainers, StepKeepsContainers, InvHolds, PTL DEF Spec

\* When no call fails and nobody else uses Docker, an ACTIVE pool whose
\* workers have finished runs its active container and no other, whatever ran
\* when StageHand started and however many swaps were superseded.
THEOREM MutexHoldsAtRest == Spec => []MutexAtRest
<1>1. ContainerInv => MutexAtRest
  BY DEF ContainerInv, NoOrphan, LookedAfter, MutexAtRest
<1> QED
  BY <1>1, ContainersHeld, PTL
=============================================================================
