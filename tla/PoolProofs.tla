----------------------------- MODULE PoolProofs -----------------------------
(***************************************************************************)
(* Theorems about module Pool, for every set of services and requests,     *)
(* every configuration of the pool and every budget.                       *)
(***************************************************************************)
EXTENDS PoolTypes

-----------------------------------------------------------------------------
(* The workers.                                                            *)

\* What a step of a worker does to the set of workers: the worker moves on
\* with its identity, or leaves a closed pool.
LEMMA WorkerEffect ==
    ASSUME WorkerType, WorkerShape, NEW w \in workers, WorkerNext(w)
    PROVE  \/ \E n \in Worker :
                /\ Step(w, n) /\ Shaped(n)
                /\ n.op = w.op /\ n.target = w.target /\ n.canceled = w.canceled
           \/ closed /\ workers' = workers \ {w}
<1> DEFINE Goal == \E n \in Worker :
                /\ Step(w, n) /\ Shaped(n)
                /\ n.op = w.op /\ n.target = w.target /\ n.canceled = w.canceled
<1>0. w \in Worker /\ Shaped(w)
  BY DEF WorkerType, WorkerShape
<1>1. ASSUME NEW res \in Outcomes, Report(w, res),
             res \in {"complete", "failed", "timeout"} => w.target \in Services
      PROVE  Goal
  <2> DEFINE n == [w EXCEPT !.pc = "report", !.todo = {}, !.at = None, !.res = res]
  <2>1. n \in Worker /\ Shaped(n) /\ n.op = w.op /\ n.target = w.target /\ n.canceled = w.canceled
    BY <1>0, <1>1 DEF Worker, Shaped
  <2>2. Step(w, n)
    BY <1>1 DEF Report
  <2> QED
    BY <2>1, <2>2
<1>2. w.target # None => w.target \in Services
  BY <1>0 DEF Worker
<1>3. {"complete", "failed", "timeout", "stopped"} \subseteq Outcomes
  BY DEF Outcomes
<1>4. ASSUME NEW c \in Services, Step(w, [w EXCEPT !.pc = "stop", !.at = c]) PROVE Goal
  <2>1. [w EXCEPT !.pc = "stop", !.at = c] \in Worker /\ Shaped([w EXCEPT !.pc = "stop", !.at = c])
    BY <1>0 DEF Worker, Shaped
  <2> QED
    BY <1>0, <1>4, <2>1 DEF Worker
<1>5. ASSUME NEW c, w.pc = "sweep", Step(w, [w EXCEPT !.todo = @ \ {c}]) PROVE Goal
  <2>1. [w EXCEPT !.todo = @ \ {c}] \in Worker /\ Shaped([w EXCEPT !.todo = @ \ {c}])
    BY <1>0, <1>5 DEF Worker, Shaped
  <2> QED
    BY <1>0, <1>5, <2>1 DEF Worker
<1>6. ASSUME w.pc \in {"stop", "confirm"}, NEW ok, AfterStop(w, ok) PROVE Goal
  <2>1. w.at \in Services
    BY <1>0, <1>6 DEF Shaped
  <2>2. CASE Report(w, "failed") /\ (w.at = w.target \/ w.target # None)
    BY <1>1, <1>2, <1>3, <2>1, <2>2
  <2>3. CASE Step(w, [w EXCEPT !.pc = "sweep", !.at = None, !.todo = @ \ {w.at}])
    <3> DEFINE n == [w EXCEPT !.pc = "sweep", !.at = None, !.todo = @ \ {w.at}]
    <3>1. n \in Worker /\ Shaped(n) /\ n.op = w.op /\ n.target = w.target /\ n.canceled = w.canceled
      BY <1>0 DEF Worker, Shaped
    <3> QED
      BY <2>3, <3>1
  <2> QED
    BY <1>6, <2>2, <2>3 DEF AfterStop
<1>7. ASSUME NEW pc \in {"start", "started", "probe", "confirm"},
             Step(w, [w EXCEPT !.pc = pc]),
             pc = "confirm" => w.at \in Services,
             pc # "confirm" => w.target \in Services
      PROVE  Goal
  <2>1. [w EXCEPT !.pc = pc] \in Worker /\ Shaped([w EXCEPT !.pc = pc])
    BY <1>0, <1>7 DEF Worker, Shaped
  <2> QED
    BY <1>0, <1>7, <2>1 DEF Worker
<1>8. FailureOf(w) \in {"failed", "timeout", "complete"} => w.target \in Services
  BY <1>2 DEF FailureOf
<1>9. CASE WorkerSweep(w)
  BY <1>0, <1>4, <1>5, <1>9 DEF WorkerSweep, First, Worker
<1>10. CASE WorkerSweepFails(w)
  BY <1>1, <1>2, <1>3, <1>5, <1>10 DEF WorkerSweepFails
<1>11. CASE WorkerSuperseded(w) \/ WorkerPanic(w)
  BY <1>1, <1>8, <1>11, FailureType DEF WorkerSuperseded, WorkerPanic
<1>12. CASE WorkerSwept(w)
  BY <1>1, <1>2, <1>3, <1>7, <1>12 DEF WorkerSwept
<1>13. CASE WorkerStop(w)
  BY <1>0, <1>7, <1>13 DEF WorkerStop, Shaped
<1>14. CASE WorkerStopFails(w) \/ WorkerConfirm(w) \/ WorkerConfirmFails(w)
  BY <1>6, <1>14 DEF WorkerStopFails, WorkerConfirm, WorkerConfirmFails
<1>15. CASE WorkerStart(w)
  BY <1>0, <1>7, <1>15 DEF WorkerStart, Shaped
<1>16. CASE WorkerStartFails(w) \/ WorkerHealthy(w) \/ WorkerUnhealthy(w)
  BY <1>0, <1>1, <1>3, <1>16 DEF WorkerStartFails, WorkerHealthy, WorkerUnhealthy, Shaped
<1>17. CASE WorkerStarted(w)
  BY <1>0, <1>4, <1>7, <1>17 DEF WorkerStarted, Shaped
<1>18. CASE WorkerExit(w)
  BY <1>18 DEF WorkerExit
<1> QED
  BY <1>9, <1>10, <1>11, <1>12, <1>13, <1>14, <1>15, <1>16, <1>17, <1>18 DEF WorkerNext

\* Hence the workers' steps keep what is known of the workers.
LEMMA WorkersKeepWorkerInv ==
    ASSUME TypeOK, WorkerInv, WorkersNext
    PROVE  WorkerInv'
<1>0. WorkerType /\ WorkerShape /\ WorkerIdentity /\ WorkerMatchesState
  BY DEF TypeOK, WorkerInv
<1>1. UNCHANGED <<opSeq, state, target, mgr>>
  BY DEF WorkersNext, managerVars, phaseVars
<1>2. CASE \E w \in workers : WorkerNext(w)
  <2>1. PICK w \in workers : WorkerNext(w)
    BY <1>2
  <2>2. closed' = closed
    BY <2>1 DEF WorkerNext, WorkerSweep, WorkerSweepFails, WorkerSuperseded, WorkerSwept,
       WorkerStop, WorkerStopFails, WorkerConfirm, WorkerConfirmFails, WorkerStart,
       WorkerStartFails, WorkerStarted, WorkerHealthy, WorkerUnhealthy, WorkerPanic, WorkerExit
  <2>3. CASE closed /\ workers' = workers \ {w}
    BY <1>0, <1>1, <2>2, <2>3
       DEF WorkerInv, WorkerShape, WorkerIdentity, WorkerMatchesState, Shaped
  <2>4. CASE \E n \in Worker :
                /\ Step(w, n) /\ Shaped(n)
                /\ n.op = w.op /\ n.target = w.target /\ n.canceled = w.canceled
    <3>1. PICK n \in Worker :
                /\ workers' = (workers \ {w}) \cup {n} /\ Shaped(n)
                /\ n.op = w.op /\ n.target = w.target /\ n.canceled = w.canceled
      BY <2>4 DEF Step
    <3>2. WorkerShape'
      BY <1>0, <3>1 DEF WorkerShape, Shaped
    <3>3. WorkerIdentity'
      BY <1>0, <1>1, <3>1 DEF WorkerIdentity
    <3>4. WorkerMatchesState'
      BY <1>0, <1>1, <2>2, <3>1 DEF WorkerMatchesState
    <3> QED
      BY <3>2, <3>3, <3>4 DEF WorkerInv
  <2> QED
    BY <1>0, <2>1, <2>3, <2>4, WorkerEffect
<1>3. CASE \E k \in Stopper : StopperNext(k)
  <2>1. UNCHANGED <<workers, closed>>
    BY <1>3 DEF StopperNext, StopperBegin, StopperStop
  <2> QED
    BY <1>0, <1>1, <2>1 DEF WorkerInv, WorkerShape, WorkerIdentity, WorkerMatchesState, Shaped
<1> QED
  BY <1>2, <1>3 DEF WorkersNext

-----------------------------------------------------------------------------
(* The manager and its workers.                                            *)

\* After supersedeWorker no worker has a live context: the only one that had
\* was the one opSeq named.
LEMMA SupersededFacts ==
    ASSUME TypeOK, WorkerInv, mgr # "stopped", NEW ws \in SUBSET workers
    PROVE  /\ \A v \in Superseded(ws) : v.canceled /\ v.op <= opSeq /\ Shaped(v)
           /\ \A u, v \in Superseded(ws) : u.op = v.op => u = v
<1>0. /\ workers \subseteq Worker /\ WorkerShape /\ WorkerIdentity /\ WorkerMatchesState
      /\ opSeq \in Nat
  BY DEF TypeOK, WorkerInv, WorkerType, ManagerType, PhaseType
<1> DEFINE Cancelled(w) == [w EXCEPT !.canceled = @ \/ w.op = opSeq]
<1>1. ASSUME NEW w \in ws
      PROVE  /\ Cancelled(w).canceled /\ Cancelled(w).op = w.op /\ w.op <= opSeq
             /\ Shaped(Cancelled(w))
  <2>1. w \in Worker /\ Shaped(w) /\ w.op <= opSeq /\ (~w.canceled => w.op = opSeq)
    BY <1>0 DEF WorkerShape, WorkerIdentity, WorkerMatchesState
  <2>2. Cancelled(w) = [op |-> w.op, target |-> w.target, canceled |-> w.canceled \/ w.op = opSeq,
                        pc |-> w.pc, todo |-> w.todo, at |-> w.at, res |-> w.res]
    BY <2>1 DEF Worker
  <2> HIDE DEF Cancelled
  <2>3. /\ Cancelled(w).op = w.op /\ Cancelled(w).target = w.target
        /\ Cancelled(w).canceled = (w.canceled \/ w.op = opSeq)
        /\ Cancelled(w).pc = w.pc /\ Cancelled(w).at = w.at /\ Cancelled(w).res = w.res
    BY <2>2
  <2>4. Cancelled(w).canceled
    BY <2>1, <2>3, Zenon
  <2> QED
    BY <2>1, <2>3, <2>4 DEF Shaped
<1>2. Superseded(ws) = {Cancelled(w) : w \in ws}
  BY DEF Superseded, CancelOp
<1> HIDE DEF Cancelled
<1>3. ASSUME NEW v \in Superseded(ws) PROVE v.canceled /\ v.op <= opSeq /\ Shaped(v)
  <2>1. PICK w \in ws : v = Cancelled(w)
    BY <1>2
  <2> QED
    BY <1>1, <2>1, Zenon
<1>4. ASSUME NEW u \in ws, NEW v \in ws, Cancelled(u).op = Cancelled(v).op
      PROVE  Cancelled(u) = Cancelled(v)
  <2>1. u.op = v.op
    BY <1>1, <1>4, Zenon
  <2>2. u = v
    BY <1>0, <2>1 DEF WorkerIdentity
  <2> QED
    BY <2>2
<1>5. ASSUME NEW u \in Superseded(ws), NEW v \in Superseded(ws), u.op = v.op PROVE u = v
  BY <1>2, <1>4, <1>5
<1> QED
  BY <1>3, <1>5

\* startSwap leaves exactly one worker with a live context: the one SWAPPING
\* waits for.
LEMMA StartSwapWorkers ==
    ASSUME TypeOK, WorkerInv, mgr # "stopped", NEW ws \in SUBSET workers,
           NEW s \in Services \cup {None}, StartSwap(s, ws), closed' = closed
    PROVE  WorkerInv'
<1>0. opSeq \in Nat /\ opSeq' = opSeq + 1 /\ state' = "SWAPPING" /\ target' = s
  BY DEF TypeOK, ManagerType, PhaseType, StartSwap, Become
<1> DEFINE n == NewWorker(opSeq + 1, s)
<1>1. workers' = Superseded(ws) \cup {n}
  BY DEF StartSwap
<1>2. n.op = opSeq + 1 /\ n.target = s /\ ~n.canceled /\ n.pc = "sweep" /\ n.res = "none"
  BY DEF NewWorker
<1>3. Shaped(n)
  BY <1>2 DEF Shaped
<1>4. /\ \A v \in Superseded(ws) : v.canceled /\ v.op <= opSeq /\ Shaped(v)
      /\ \A u, v \in Superseded(ws) : u.op = v.op => u = v
  BY SupersededFacts
<1>5. \A v \in Superseded(ws) : v.op \in Nat
  BY SupersededType DEF TypeOK, WorkerType, Worker
<1> HIDE DEF n
<1>6. WorkerShape'
  BY <1>1, <1>3, <1>4 DEF WorkerShape, Shaped
<1>7. WorkerIdentity'
  BY <1>0, <1>1, <1>2, <1>4, <1>5 DEF WorkerIdentity
<1>8. WorkerMatchesState'
  BY <1>0, <1>1, <1>2, <1>4 DEF WorkerMatchesState
<1> QED
  BY <1>6, <1>7, <1>8 DEF WorkerInv

\* The pool leaves SWAPPING with the report of the worker opSeq names, so the
\* workers left are all superseded.
LEMMA LastWorkerLeaves ==
    ASSUME TypeOK, WorkerInv, mgr = "run", NEW w \in workers, w.op = opSeq,
           workers' = workers \ {w}, opSeq' = opSeq, state' # "SWAPPING"
    PROVE  WorkerInv'
<1>0. WorkerShape /\ WorkerIdentity /\ WorkerMatchesState
  BY DEF WorkerInv
<1>1. \A v \in workers' : v.canceled
  BY <1>0 DEF WorkerIdentity, WorkerMatchesState
<1>2. WorkerShape' /\ WorkerIdentity'
  BY <1>0 DEF WorkerShape, WorkerIdentity, Shaped
<1> QED
  BY <1>1, <1>2 DEF WorkerInv, WorkerMatchesState

\* The report of the current worker finds the pool SWAPPING.
LEMMA CurrentWorker ==
    ASSUME TypeOK, WorkerInv, NEW w \in workers, Reported(w), w.op = opSeq
    PROVE  state = "SWAPPING" /\ ~w.canceled /\ mgr = "run"
<1>1. opSeq \in Nat /\ mgr = "run" /\ WorkerIdentity /\ WorkerMatchesState
  BY DEF TypeOK, ManagerType, PhaseType, Reported, WorkerInv
<1>2. ~w.canceled
  BY <1>1 DEF WorkerIdentity
<1> QED
  BY <1>1, <1>2 DEF WorkerMatchesState

\* What is not a change of workers, state, target or opSeq does not matter.
LEMMA WorkersApart ==
    ASSUME WorkerInv, UNCHANGED <<workers, closed, opSeq, state, target, mgr>>
    PROVE  WorkerInv'
BY DEF WorkerInv, WorkerShape, WorkerIdentity, WorkerMatchesState, Shaped

\* chainAfterTerminal, for the report of the current worker.
LEMMA ChainKeepsWorkerInv ==
    ASSUME TypeOK, WorkerInv, mgr = "run", NEW w \in workers, w.op = opSeq,
           NEW activated \in BOOLEAN, NEW act, NEW q,
           ChainAfterTerminal(activated, act, q, workers \ {w}), closed' = closed
    PROVE  WorkerInv'
<1>0. workers \ {w} \in SUBSET workers /\ adminPending \in Services \cup {None}
  BY DEF TypeOK, ManagerType
<1>1. CASE StartSwap(adminPending, workers \ {w})
  BY <1>0, <1>1, StartSwapWorkers
<1>2. CASE \E s \in OldestQueued(q) : StartSwap(s, workers \ {w})
  BY <1>0, <1>2, StartSwapWorkers DEF OldestQueued
<1>3. CASE /\ Become(IF activated THEN "ACTIVE" ELSE "IDLE", act, None)
           /\ workers' = workers \ {w} /\ opSeq' = opSeq
  BY <1>3, LastWorkerLeaves DEF Become
<1> QED
  BY <1>1, <1>2, <1>3 DEF ChainAfterTerminal

\* The manager's steps keep what is known of the workers.
LEMMA ManagerKeepsWorkerInv ==
    ASSUME TypeOK, WorkerInv, ChainInv, ManagerNext
    PROVE  WorkerInv'
<1>0. /\ workers \in SUBSET workers /\ None \in Services \cup {None}
      /\ Default \in Services \cup {None} /\ TRUE \in BOOLEAN /\ FALSE \in BOOLEAN
  BY PoolAssumption
<1>1. ASSUME NEW w \in workers, HandleSwap(w) PROVE WorkerInv'
  <2>1. CASE StaleReport(w)
    <3>1. /\ workers' = workers \ {w} /\ w.op # opSeq /\ mgr = "run"
          /\ UNCHANGED <<closed, opSeq, state, target, mgr>>
      BY <2>1 DEF StaleReport, Reported, managerVars, phaseVars, outsideVars
    <3>2. WorkerShape' /\ WorkerIdentity'
      BY <3>1 DEF WorkerInv, WorkerShape, WorkerIdentity, Shaped
    <3>3. WorkerMatchesState'
      BY <3>1 DEF WorkerInv, WorkerMatchesState
    <3> QED
      BY <3>2, <3>3 DEF WorkerInv
  <2>2. CASE SwapComplete(w)
    BY <2>2, LastWorkerLeaves DEF SwapComplete, Reported, Become
  <2>3. CASE SwapFailed(w)
    BY <1>0, <2>3, ChainKeepsWorkerInv DEF SwapFailed, Reported, outsideVars
  <2>4. CASE SwapHealthTimeout(w)
    BY <1>0, <2>4, ChainKeepsWorkerInv DEF SwapHealthTimeout, Reported, outsideVars
  <2>5. CASE PoolStopped(w)
    BY <1>0, <2>5, ChainKeepsWorkerInv DEF PoolStopped, Reported, outsideVars
  <2> QED
    BY <1>1, <2>1, <2>2, <2>3, <2>4, <2>5 DEF HandleSwap
<1>2. ASSUME NEW t \in ticks, HandleTick(t) PROVE WorkerInv'
  <2>1. mgr = "run" /\ UNCHANGED <<mgr, closed>>
    BY <1>2 DEF HandleTick, outsideVars
  <2>2. CASE \E s \in Services \cup {None} : StartSwap(s, workers)
    BY <1>0, <2>1, <2>2, StartSwapWorkers
  <2>3. CASE UNCHANGED <<phaseVars, workers>>
    BY <2>1, <2>3, WorkersApart DEF phaseVars
  <2> QED
    BY <1>0, <1>2, <2>2, <2>3 DEF HandleTick, StaleTick, GraceTick, RetryTick, DeferCooldown,
       CooldownExpired, IdleTick, StartStopAll, OldestQueued
<1>3. CASE HandleActivity
  BY <1>3, WorkersApart DEF HandleActivity, phaseVars, outsideVars
<1>4. ASSUME NEW s \in Services, HandleAdminSwap(s) PROVE WorkerInv'
  <2>1. mgr = "run" /\ UNCHANGED <<mgr, closed>>
    BY <1>4 DEF HandleAdminSwap
  <2>2. CASE StartSwap(s, workers)
    BY <1>0, <2>1, <2>2, StartSwapWorkers
  <2>3. CASE UNCHANGED <<phaseVars, workers>>
    BY <2>1, <2>3, WorkersApart DEF phaseVars
  <2> QED
    BY <1>4, <2>2, <2>3 DEF HandleAdminSwap
<1>5. CASE HandleAdminStop
  <2>1. mgr = "run" /\ UNCHANGED <<mgr, closed>>
    BY <1>5 DEF HandleAdminStop
  <2>2. CASE StartStopAll(workers)
    BY <1>0, <2>1, <2>2, StartSwapWorkers DEF StartStopAll
  <2>3. CASE UNCHANGED <<phaseVars, workers>>
    BY <2>1, <2>3, WorkersApart DEF phaseVars
  <2> QED
    BY <1>5, <2>2, <2>3 DEF HandleAdminStop
<1>6. CASE HandleExternalEvent
  <2> DEFINE e == Head(dockerEv)
  <2>1. mgr = "run" /\ UNCHANGED <<mgr, closed>>
    BY <1>6 DEF HandleExternalEvent, outsideVars
  <2>2. CASE \E s \in Services \cup {None} : StartSwap(s, workers)
    BY <1>0, <2>1, <2>2, StartSwapWorkers
  <2>3. CASE UNCHANGED <<phaseVars, workers>>
    BY <2>1, <2>3, WorkersApart DEF phaseVars
  <2>4. CASE state = "ACTIVE" /\ Become("ERROR", None, None) /\ UNCHANGED <<opSeq, workers>>
    BY <2>1, <2>4 DEF Become, WorkerInv, WorkerShape, WorkerIdentity, WorkerMatchesState, Shaped
  <2>5. CASE Become("ERROR", None, None) /\ opSeq' = opSeq + 1 /\ workers' = Superseded(workers)
    <3>1. /\ opSeq \in Nat /\ state' # "SWAPPING"
          /\ \A v \in workers' : v.op \in Nat
      BY <1>0, <2>5, SupersededType
         DEF Become, TypeOK, ManagerType, PhaseType, WorkerType, Worker
    <3>2. /\ \A v \in workers' : v.canceled /\ v.op <= opSeq /\ Shaped(v)
          /\ \A u, v \in workers' : u.op = v.op => u = v
      BY <1>0, <2>1, <2>5, SupersededFacts
    <3> QED
      BY <2>5, <3>1, <3>2 DEF WorkerInv, WorkerShape, WorkerIdentity, WorkerMatchesState, Shaped
  <2> QED
    BY <1>6, <2>2, <2>3, <2>4, <2>5 DEF HandleExternalEvent, ActiveDied, TargetDied,
       UnauthorizedStart, IgnoredEvent, ChainNow, OldestQueued
<1>7. CASE Close
  BY <1>7 DEF Close, managerVars, phaseVars, WorkerInv, WorkerShape, WorkerIdentity,
     WorkerMatchesState, Shaped
<1>8. CASE Shutdown
  BY <1>8 DEF Shutdown, WorkerInv, WorkerShape, WorkerIdentity, WorkerMatchesState, Shaped
<1>9. CASE ChainAfterComplete
  <2>1. /\ mgr # "stopped" /\ state = "ACTIVE" /\ closed' = closed
        /\ adminPending \in Services \cup {None}
    BY <1>9 DEF ChainAfterComplete, ChainInv, outsideVars, TypeOK, ManagerType
  <2>2. CASE \E s \in Services \cup {None} : StartSwap(s, workers)
    BY <1>0, <2>1, <2>2, StartSwapWorkers
  <2>3. CASE state' = "ACTIVE" /\ UNCHANGED <<opSeq, workers>>
    BY <2>1, <2>3 DEF WorkerInv, WorkerShape, WorkerIdentity, WorkerMatchesState, Shaped
  <2> QED
    BY <1>9, <2>1, <2>2, <2>3 DEF ChainAfterComplete, ChainAfterTerminal, Become, OldestQueued
<1> QED
  BY <1>1, <1>2, <1>3, <1>4, <1>5, <1>6, <1>7, <1>8, <1>9 DEF ManagerNext

\* An admission may start a swap; nothing else a client does concerns the
\* workers.
LEMMA ClientKeepsWorkerInv ==
    ASSUME TypeOK, WorkerInv, RequestShape, NEW r \in Reqs, ClientNext(r)
    PROVE  WorkerInv'
<1>1. CASE Submit(r)
  <2>1. /\ mgr = "run" /\ UNCHANGED <<mgr, closed>> /\ svc[r] \in Services
        /\ workers \in SUBSET workers
    BY <1>1 DEF Submit, HandleAdmit, outsideVars, RequestShape
  <2>2. CASE StartSwap(svc[r], workers)
    BY <2>1, <2>2, StartSwapWorkers
  <2>3. CASE UNCHANGED <<phaseVars, workers>>
    BY <2>1, <2>3, WorkersApart DEF phaseVars
  <2> QED
    BY <1>1, <2>2, <2>3 DEF Submit, HandleAdmit, AdmitNow, AdmitFull, AdmitQueued
<1>2. CASE Arrive(r) \/ Receive(r) \/ GiveUp(r) \/ Abandon(r)
  BY <1>2, WorkersApart DEF Arrive, Receive, GiveUp, Abandon, poolVars, workerVars, managerVars,
     phaseVars
<1>3. CASE Cancel(r)
  BY <1>3, WorkersApart DEF Cancel, HandleCancel, phaseVars, outsideVars
<1> QED
  BY <1>1, <1>2, <1>3 DEF ClientNext

-----------------------------------------------------------------------------
(* The requests.                                                           *)

\* What concerns neither the queues nor the clients does not matter.
LEMMA RequestsApart ==
    ASSUME RequestInv, UNCHANGED <<queue, reply, phase, svc, closed>>
    PROVE  RequestInv'
BY DEF RequestInv, RequestShape, OneReplyEach, NoLostRequest, NoGhostWaiter

\* A flush answers exactly those it removes, each of them for the first time.
LEMMA FlushRequests ==
    ASSUME TypeOK, RequestInv, NEW S \in SUBSET Services, NEW res \in Results, Flush(S, res),
           UNCHANGED <<phase, svc, closed>>
    PROVE  RequestInv'
<1>0. /\ queue \in [Services -> SUBSET Waiter] /\ reply \in [Reqs -> Seq(Results)]
      /\ RequestShape /\ OneReplyEach /\ NoLostRequest /\ NoGhostWaiter
  BY DEF TypeOK, ManagerType, QueueType, RequestInv
<1> DEFINE hit(r) == \E s \in S : \E w \in queue[s] : w.req = r
<1>1. \A s \in Services : queue'[s] = IF s \in S THEN {} ELSE queue[s]
  BY DEF Flush, Flushed
<1>2. \A r \in Reqs : reply'[r] = IF hit(r) THEN Append(reply[r], res) ELSE reply[r]
  BY DEF Flush
<1>3. ASSUME NEW r \in Reqs, hit(r)
      PROVE  /\ reply[r] = << >> /\ svc[r] \in S /\ phase[r] \in {"wait", "giveup", "done"}
             /\ Len(reply'[r]) = 1 /\ reply'[r] # << >>
  <2>1. reply[r] = << >> /\ svc[r] \in S /\ phase[r] \in {"wait", "giveup", "done"}
    BY <1>0, <1>3 DEF NoGhostWaiter, RequestShape
  <2>2. reply'[r] = Append(<< >>, res)
    BY <1>2, <1>3, <2>1
  <2> QED
    BY <2>1, <2>2
<1> HIDE DEF hit
<1>4. RequestShape'
  BY <1>0, <1>1, <1>2, <1>3 DEF RequestShape
<1>5. OneReplyEach'
  <2> SUFFICES ASSUME NEW r \in Reqs PROVE Len(reply'[r]) <= 1
    BY DEF OneReplyEach
  <2>1. CASE hit(r)
    <3>1. Len(reply'[r]) = 1
      BY <1>3, <2>1, Zenon
    <3> QED
      BY <3>1
  <2>2. CASE ~hit(r)
    BY <1>0, <1>2, <2>2 DEF OneReplyEach
  <2> QED
    BY <2>1, <2>2
<1>6. NoLostRequest'
  <2> SUFFICES ASSUME NEW r \in Reqs, phase[r] = "wait", reply'[r] = << >>
               PROVE  \E w \in queue'[svc[r]] : w.req = r
    BY DEF NoLostRequest
  <2>1. ~hit(r) /\ reply[r] = << >>
    BY <1>2, <1>3
  <2>2. svc[r] \in Services /\ \E w \in queue[svc[r]] : w.req = r
    BY <1>0, <2>1 DEF NoLostRequest, RequestShape
  <2> QED
    BY <1>1, <2>1, <2>2 DEF hit
<1>7. NoGhostWaiter'
  <2> SUFFICES ASSUME NEW s \in Services, NEW w \in queue'[s]
               PROVE  /\ svc[w.req] = s /\ reply'[w.req] = << >>
                      /\ closed \/ phase[w.req] \in {"wait", "giveup"}
    BY DEF NoGhostWaiter
  <2>1. s \notin S /\ w \in queue[s] /\ w.req \in Reqs
    BY <1>0, <1>1 DEF Waiter
  <2>2. /\ svc[w.req] = s /\ reply[w.req] = << >>
        /\ closed \/ phase[w.req] \in {"wait", "giveup"}
    BY <1>0, <2>1 DEF NoGhostWaiter
  <2> QED
    BY <1>2, <1>3, <2>1, <2>2
<1> QED
  BY <1>4, <1>5, <1>6, <1>7 DEF RequestInv

\* handleAdmit answers the request or queues it where it asked to be.
LEMMA SubmitRequests ==
    ASSUME TypeOK, RequestInv, NEW r \in Reqs, Submit(r)
    PROVE  RequestInv'
<1>0. /\ queue \in [Services -> SUBSET Waiter] /\ reply \in [Reqs -> Seq(Results)]
      /\ phase \in [Reqs -> Phases] /\ seq \in Nat
      /\ RequestShape /\ OneReplyEach /\ NoLostRequest /\ NoGhostWaiter
  BY DEF TypeOK, ManagerType, QueueType, AdmissionType, RequestInv
<1>1. /\ phase[r] = "send" /\ reply[r] = << >> /\ svc[r] \in Services
      /\ phase' = [phase EXCEPT ![r] = "wait"] /\ UNCHANGED <<svc, closed>>
  <2>1. /\ phase[r] = "send" /\ UNCHANGED svc
        /\ phase' = [phase EXCEPT ![r] = "wait"]
    BY Zenon DEF Submit
  <2>2. UNCHANGED closed
    BY DEF Submit, HandleAdmit, outsideVars
  <2>3. reply[r] = << >> /\ svc[r] \in Services
    BY <1>0, <2>1 DEF RequestShape
  <2> QED
    BY <2>1, <2>2, <2>3
<1>2. \A s \in Services : \A w \in queue[s] : w.req # r /\ w.req \in Reqs
  BY <1>0, <1>1 DEF RequestShape, Waiter
<1>3. CASE \E res \in Results : UNCHANGED queue /\ reply' = [reply EXCEPT ![r] = Append(@, res)]
  <2>1. PICK res \in Results : UNCHANGED queue /\ reply' = [reply EXCEPT ![r] = Append(@, res)]
    BY <1>3
  <2>2. reply'[r] = Append(<< >>, res) /\ \A p \in Reqs : p # r => reply'[p] = reply[p]
    BY <1>0, <1>1, <2>1
  <2>3. Len(reply'[r]) = 1 /\ reply'[r] # << >>
    BY <2>2
  <2>4. RequestShape' /\ OneReplyEach'
    BY <1>0, <1>1, <1>2, <2>1, <2>2, <2>3 DEF RequestShape, OneReplyEach
  <2>5. NoLostRequest'
    BY <1>0, <1>1, <1>2, <2>1, <2>2, <2>3 DEF NoLostRequest
  <2>6. NoGhostWaiter'
    BY <1>0, <1>1, <1>2, <2>1, <2>2 DEF NoGhostWaiter
  <2> QED
    BY <2>4, <2>5, <2>6 DEF RequestInv
<1>4. CASE /\ queue' = [queue EXCEPT ![svc[r]] = @ \cup {[req |-> r, seq |-> seq + 1]}]
           /\ UNCHANGED reply
  <2>1. RequestShape' /\ OneReplyEach'
    BY <1>0, <1>1, <1>2, <1>4 DEF RequestShape, OneReplyEach
  <2>2. NoLostRequest'
    <3> SUFFICES ASSUME NEW p \in Reqs, phase'[p] = "wait", reply[p] = << >>
                 PROVE  \E w \in queue'[svc[p]] : w.req = p
      BY <1>1, <1>4 DEF NoLostRequest
    <3>1. CASE p = r
      <4>1. [req |-> r, seq |-> seq + 1] \in queue'[svc[r]]
        BY <1>0, <1>1, <1>4
      <4> QED
        BY <3>1, <4>1
    <3>2. CASE p # r
      <4>1. phase[p] = "wait" /\ svc[p] \in Services
        BY <1>0, <1>1, <3>2 DEF RequestShape
      <4>2. \E w \in queue[svc[p]] : w.req = p
        BY <1>0, <4>1 DEF NoLostRequest
      <4>3. queue[svc[p]] \subseteq queue'[svc[p]]
        BY <1>0, <1>1, <1>4, <4>1
      <4> QED
        BY <4>2, <4>3
    <3> QED
      BY <3>1, <3>2
  <2>3. NoGhostWaiter'
    BY <1>0, <1>1, <1>2, <1>4 DEF NoGhostWaiter
  <2> QED
    BY <2>1, <2>2, <2>3 DEF RequestInv
<1>5. {"Go", "QueueFull"} \subseteq Results
  BY DEF Results
<1> QED
  BY <1>3, <1>4, <1>5 DEF Submit, HandleAdmit, AdmitNow, AdmitFull, AdmitQueued

\* A request that moves on in Admit without the manager: it was not queued,
\* or stays as queued as it was, or the pool is closed.
LEMMA PhaseMoves ==
    ASSUME TypeOK, RequestInv, NEW r \in Reqs, NEW p \in {"send", "giveup", "done"},
           phase' = [phase EXCEPT ![r] = p], UNCHANGED <<queue, reply, closed>>,
           \/ phase[r] = "idle" /\ \E s \in Services : svc' = [svc EXCEPT ![r] = s]
           \/ phase[r] # "idle" /\ UNCHANGED svc,
           p = "send" => phase[r] = "idle",
           p = "giveup" => phase[r] = "wait",
           p = "done" => closed \/ phase[r] \in {"idle", "send"} \/ reply[r] # << >>
    PROVE  RequestInv'
<1>0. /\ queue \in [Services -> SUBSET Waiter]
      /\ phase \in [Reqs -> Phases] /\ svc \in [Reqs -> Services \cup {None}]
      /\ RequestShape /\ OneReplyEach /\ NoLostRequest /\ NoGhostWaiter
  BY DEF TypeOK, ManagerType, QueueType, AdmissionType, RequestInv
<1>1. /\ phase'[r] = p /\ svc'[r] \in Services
      /\ \A q \in Reqs : q # r => phase'[q] = phase[q] /\ svc'[q] = svc[q]
  BY <1>0 DEF RequestShape
<1>2. \A s \in Services : \A w \in queue[s] :
        /\ w.req \in Reqs /\ (w.req = r => phase[r] \notin {"idle", "send"} /\ reply[r] = << >>)
        /\ svc'[w.req] = svc[w.req]
  BY <1>0, <1>1 DEF RequestShape, NoGhostWaiter, Waiter
<1>3. RequestShape'
  BY <1>0, <1>1, <1>2 DEF RequestShape
<1>4. OneReplyEach'
  BY <1>0 DEF OneReplyEach
<1>5. NoLostRequest'
  BY <1>0, <1>1 DEF NoLostRequest
<1>6. NoGhostWaiter'
  BY <1>0, <1>1, <1>2 DEF NoGhostWaiter
<1> QED
  BY <1>3, <1>4, <1>5, <1>6 DEF RequestInv

\* The steps of the clients keep the books of the requests.
LEMMA ClientKeepsRequestInv ==
    ASSUME TypeOK, RequestInv, NEW r \in Reqs, ClientNext(r)
    PROVE  RequestInv'
<1>0. /\ queue \in [Services -> SUBSET Waiter] /\ phase \in [Reqs -> Phases]
      /\ RequestShape /\ OneReplyEach /\ NoLostRequest /\ NoGhostWaiter
  BY DEF TypeOK, ManagerType, QueueType, AdmissionType, RequestInv
<1>1. CASE Arrive(r)
  <2>1. UNCHANGED <<queue, reply, closed>>
    BY <1>1 DEF Arrive, poolVars, workerVars, queueVars
  <2>2. \E p \in {"send", "done"} : phase' = [phase EXCEPT ![r] = p]
    BY <1>1 DEF Arrive, Return
  <2> QED
    BY <1>1, <2>1, <2>2, PhaseMoves DEF Arrive
<1>2. CASE Submit(r)
  BY <1>2, SubmitRequests
<1>3. CASE Receive(r)
  BY <1>3, PhaseMoves DEF Receive, Return, poolVars, workerVars, managerVars, queueVars
<1>4. CASE GiveUp(r)
  BY <1>4, PhaseMoves DEF GiveUp, Return, workerVars, managerVars, queueVars
<1>5. CASE Cancel(r)
  <2>1. /\ phase[r] = "giveup" /\ phase' = [phase EXCEPT ![r] = "done"]
        /\ queue' = [queue EXCEPT ![svc[r]] = {w \in @ : w.req # r}]
        /\ UNCHANGED <<reply, svc, closed>>
    BY <1>5 DEF Cancel, HandleCancel, RemoveByReply, Return, outsideVars
  <2>2. \A s \in Services : queue'[s] \subseteq queue[s]
    BY <1>0, <2>1
  <2>3. \A s \in Services : \A w \in queue'[s] : w.req \in Reqs /\ w.req # r
    BY <1>0, <2>1 DEF NoGhostWaiter, Waiter
  <2>4. RequestShape'
    BY <1>0, <2>1, <2>2, <2>3 DEF RequestShape
  <2>5. OneReplyEach'
    BY <1>0, <2>1 DEF OneReplyEach
  <2>6. NoLostRequest'
    <3> SUFFICES ASSUME NEW p \in Reqs, phase'[p] = "wait", reply[p] = << >>
                 PROVE  \E w \in queue'[svc[p]] : w.req = p
      BY <2>1 DEF NoLostRequest
    <3>1. p # r /\ phase[p] = "wait" /\ svc[p] \in Services
      BY <1>0, <2>1 DEF RequestShape
    <3>2. PICK w \in queue[svc[p]] : w.req = p
      BY <1>0, <3>1 DEF NoLostRequest
    <3>3. w \in queue'[svc[p]]
      BY <1>0, <2>1, <3>1, <3>2
    <3> QED
      BY <3>2, <3>3
  <2>7. NoGhostWaiter'
    BY <1>0, <2>1, <2>2, <2>3 DEF NoGhostWaiter
  <2> QED
    BY <2>4, <2>5, <2>6, <2>7 DEF RequestInv
<1>6. CASE Abandon(r)
  BY <1>6, PhaseMoves DEF Abandon, Return, poolVars, workerVars, managerVars, queueVars
<1> QED
  BY <1>1, <1>2, <1>3, <1>4, <1>5, <1>6 DEF ClientNext

\* The manager's steps keep the books of the requests.
LEMMA ManagerKeepsRequestInv ==
    ASSUME TypeOK, WorkerShape, RequestInv, ManagerNext
    PROVE  RequestInv'
<1>0. /\ {"Go", "DockerError", "StartupTimeout", "Shutdown"} \subseteq Results
      /\ Services \in SUBSET Services
      /\ UNCHANGED <<phase, svc>>
  BY DEF Results, ManagerNext, clientVars
<1>1. ASSUME NEW w \in workers, HandleSwap(w) PROVE RequestInv'
  <2>1. closed' = closed
    BY <1>1 DEF HandleSwap, StaleReport, SwapComplete, SwapFailed, SwapHealthTimeout, PoolStopped,
       outsideVars
  <2>2. CASE StaleReport(w) \/ PoolStopped(w)
    BY <1>0, <2>1, <2>2, RequestsApart DEF StaleReport, PoolStopped, managerVars, queueVars
  <2>3. CASE SwapComplete(w) \/ SwapFailed(w) \/ SwapHealthTimeout(w)
    <3>1. w.target \in Services
      BY <2>3 DEF WorkerShape, Shaped, SwapComplete, SwapFailed, SwapHealthTimeout
    <3>2. {w.target} \in SUBSET Services
      BY <3>1
    <3>3. \E res \in {"Go", "DockerError", "StartupTimeout"} : Flush({w.target}, res)
      BY <2>3 DEF SwapComplete, SwapFailed, SwapHealthTimeout
    <3> QED
      BY <1>0, <2>1, <3>2, <3>3, FlushRequests
  <2> QED
    BY <1>1, <2>2, <2>3 DEF HandleSwap
<1>2. ASSUME NEW t \in ticks, HandleTick(t) PROVE RequestInv'
  BY <1>0, <1>2, RequestsApart DEF HandleTick, queueVars, outsideVars
<1>3. CASE HandleActivity
  BY <1>0, <1>3, RequestsApart DEF HandleActivity, queueVars, outsideVars
<1>4. ASSUME NEW s \in Services, HandleAdminSwap(s) PROVE RequestInv'
  BY <1>0, <1>4, RequestsApart DEF HandleAdminSwap, queueVars
<1>5. CASE HandleAdminStop
  BY <1>0, <1>5, FlushRequests DEF HandleAdminStop
<1>6. CASE HandleExternalEvent
  <2> DEFINE e == Head(dockerEv)
  <2>0. dockerEv \in Seq(Event) /\ dockerEv # << >>
    BY <1>6 DEF HandleExternalEvent, TypeOK, ManagerType, InboxType
  <2>e. e \in Event
    BY <2>0
  <2>1. closed' = closed /\ e.container \in Services
    BY <1>6, <2>e DEF HandleExternalEvent, outsideVars, Event
  <2>2. CASE Flush({e.container}, "DockerError")
    <3>1. {e.container} \in SUBSET Services
      BY <2>1
    <3> QED
      BY <1>0, <2>1, <2>2, <3>1, FlushRequests
  <2>3. CASE UNCHANGED <<queue, reply>>
    BY <1>0, <2>1, <2>3, RequestsApart
  <2> QED
    BY <1>6, <2>2, <2>3 DEF HandleExternalEvent, ActiveDied, TargetDied, UnauthorizedStart,
       IgnoredEvent
<1>7. CASE Close
  BY <1>0, <1>7 DEF Close, managerVars, queueVars, RequestInv, RequestShape, OneReplyEach,
     NoLostRequest, NoGhostWaiter
<1>8. CASE Shutdown
  BY <1>0, <1>8, FlushRequests DEF Shutdown, outsideVars
<1>9. CASE ChainAfterComplete
  BY <1>0, <1>9, RequestsApart DEF ChainAfterComplete, queueVars, outsideVars
<1> QED
  BY <1>1, <1>2, <1>3, <1>4, <1>5, <1>6, <1>7, <1>8, <1>9 DEF ManagerNext

-----------------------------------------------------------------------------
(* Nobody is stranded.                                                     *)

\* Nothing to show while a swap is in flight, when nobody waits, or once the
\* manager is gone.
LEMMA NobodyWaits ==
    ASSUME state' = "SWAPPING" \/ ~AnyQueued(queue') \/ mgr' # "run"
    PROVE  NoStranded'
BY DEF NoStranded, AnyQueued

\* A step that adds no waiter, does not move the state machine and leaves the
\* live grace ticks alone.
LEMMA GraceTickStays ==
    ASSUME TypeOK, NoStranded, UNCHANGED <<mgr, state, sinceStart>>,
           AnyQueued(queue') => AnyQueued(queue),
           epochs'["grace"] = epochs["grace"],
           \A t \in ticks : Live(t) /\ t.kind = "grace" => t \in ticks'
    PROVE  NoStranded'
<1> SUFFICES ASSUME mgr = "run", AnyQueued(queue')
             PROVE  /\ state \in {"ACTIVE", "SWAPPING"}
                    /\ state = "ACTIVE" => \E t \in ticks' : /\ t.epoch = epochs'[t.kind]
                                                             /\ t.kind = "grace"
                                                             /\ t.left + sinceStart <= Grace
  BY DEF NoStranded, AnyQueued, Live
<1> QED
  BY DEF NoStranded, Live

\* Arming the grace timer in time for the grace period's end.
LEMMA GraceArmed ==
    ASSUME TypeOK, NEW d \in Int, ArmTimer("grace", d, ticks), state' = "ACTIVE",
           d + sinceStart' <= Grace
    PROVE  NoStranded'
<1> DEFINE t == [kind |-> "grace", epoch |-> epochs["grace"] + 1, left |-> d]
<1>1. t \in ticks' /\ epochs'["grace"] = epochs["grace"] + 1
  BY DEF ArmTimer, TypeOK, ManagerType, TimerType, Kinds
<1>2. t.epoch = epochs'[t.kind] /\ t.kind = "grace" /\ t.left + sinceStart' <= Grace
  BY <1>1
<1> QED
  BY <1>1, <1>2 DEF NoStranded, Live

LEMMA ClientKeepsNoStranded ==
    ASSUME TypeOK, RequestShape, NoStranded, NEW r \in Reqs, ClientNext(r)
    PROVE  NoStranded'
<1>0. /\ queue \in [Services -> SUBSET Waiter] /\ sinceStart \in 0 .. Grace /\ Grace \in Nat
      /\ state \in States
  BY PoolAssumption DEF TypeOK, ManagerType, PhaseType, QueueType, ClockType
<1>1. CASE Arrive(r) \/ Receive(r) \/ GiveUp(r) \/ Abandon(r)
  <2>1. UNCHANGED <<mgr, state, sinceStart, queue, epochs, ticks>>
    BY <1>1 DEF Arrive, Receive, GiveUp, Abandon, managerVars, phaseVars, timerVars, queueVars,
       clockVars
  <2> QED
    BY <2>1, GraceTickStays
<1>2. CASE Submit(r)
  <2>1. CASE AdmitNow(svc[r], r) \/ AdmitFull(svc[r], r)
    <3>1. UNCHANGED <<mgr, state, sinceStart, queue, epochs, ticks>>
      BY <1>2, <2>1 DEF Submit, HandleAdmit, AdmitNow, AdmitFull, phaseVars, timerVars, clockVars
    <3> QED
      BY <3>1, GraceTickStays
  <2>2. CASE AdmitQueued(svc[r], r)
    <3>1. CASE SwapNow
      <4>1. state' = "SWAPPING"
        BY <2>2, <3>1 DEF AdmitQueued, StartSwap, Become, SwapNow
      <4> QED
        BY <4>1, NobodyWaits
    <3>2. CASE state = "SWAPPING" /\ ~SwapNow
      <4>1. state' = "SWAPPING"
        BY <2>2, <3>2 DEF AdmitQueued, phaseVars
      <4> QED
        BY <4>1, NobodyWaits
    <3>3. CASE state = "ACTIVE" /\ ~SwapNow
      <4>1. ArmTimer("grace", Grace - sinceStart, ticks) /\ UNCHANGED <<state, sinceStart>>
        BY <2>2, <3>3 DEF AdmitQueued, phaseVars, clockVars
      <4>2. Grace - sinceStart \in Int /\ (Grace - sinceStart) + sinceStart' <= Grace
        BY <1>0, <4>1
      <4> QED
        BY <3>3, <4>1, <4>2, GraceArmed
    <3> QED
      BY <1>0, <3>1, <3>2, <3>3 DEF States, SwapNow
  <2> QED
    BY <1>2, <2>1, <2>2 DEF Submit, HandleAdmit
<1>3. CASE Cancel(r)
  <2>1. /\ UNCHANGED <<mgr, state, sinceStart, epochs, ticks>>
        /\ queue' = [queue EXCEPT ![svc[r]] = {w \in @ : w.req # r}]
    BY <1>3 DEF Cancel, HandleCancel, RemoveByReply, phaseVars, timerVars, clockVars
  <2>2. \A s \in Services : queue'[s] \subseteq queue[s]
    BY <1>0, <2>1
  <2>3. AnyQueued(queue') => AnyQueued(queue)
    BY <2>2 DEF AnyQueued
  <2> QED
    BY <2>1, <2>3, GraceTickStays
<1> QED
  BY <1>1, <1>2, <1>3 DEF ClientNext

\* The reports: chainAfterTerminal starts a swap for those who wait.
LEMMA ReportKeepsNoStranded ==
    ASSUME TypeOK, NoStranded, NEW w \in workers, HandleSwap(w)
    PROVE  NoStranded'
<1>0. Grace \in Nat
  BY PoolAssumption
<1>1. CASE StaleReport(w)
  <2>1. UNCHANGED <<mgr, state, sinceStart, queue, epochs, ticks>>
    BY <1>1 DEF StaleReport, managerVars, phaseVars, timerVars, queueVars, clockVars
  <2> QED
    BY <2>1, GraceTickStays
<1>2. ASSUME NEW ws, ChainAfterTerminal(FALSE, None, queue', ws) PROVE NoStranded'
  <2>1. state' = "SWAPPING" \/ ~AnyQueued(queue')
    BY <1>2 DEF ChainAfterTerminal, StartSwap, Become
  <2> QED
    BY <2>1, NobodyWaits
<1>3. CASE SwapComplete(w)
  <2>1. mgr' # "run"
    BY <1>3 DEF SwapComplete
  <2> QED
    BY <2>1, NobodyWaits
<1>4. CASE SwapFailed(w)
  <2>1. ChainAfterTerminal(FALSE, None, queue', workers \ {w})
    BY <1>4 DEF SwapFailed, Flush
  <2> QED
    BY <1>2, <2>1
<1>5. CASE SwapHealthTimeout(w)
  <2>1. ChainAfterTerminal(FALSE, None, queue', workers \ {w})
    BY <1>5 DEF SwapHealthTimeout, Flush
  <2> QED
    BY <1>2, <2>1
<1>6. CASE PoolStopped(w)
  <2>1. ChainAfterTerminal(FALSE, None, queue', workers \ {w})
    BY <1>6 DEF PoolStopped, queueVars
  <2> QED
    BY <1>2, <2>1
<1> QED
  BY <1>1, <1>3, <1>4, <1>5, <1>6 DEF HandleSwap

\* After a completed swap it may arm the grace timer for them instead.
LEMMA ChainKeepsNoStranded ==
    ASSUME TypeOK, ChainInv, ChainAfterComplete
    PROVE  NoStranded'
<1>1. Grace \in Nat /\ sinceStart' = 0
  BY PoolAssumption DEF ChainAfterComplete, ChainInv
<1>2. ChainAfterTerminal(TRUE, active, queue, workers) /\ UNCHANGED queue
  BY DEF ChainAfterComplete, queueVars
<1>3. CASE state' = "SWAPPING" \/ ~AnyQueued(queue')
  BY <1>3, NobodyWaits
<1>4. CASE state' # "SWAPPING" /\ AnyQueued(queue')
  <2>1. state' = "ACTIVE" /\ ArmTimer("grace", Grace, ticks)
    BY <1>2, <1>4 DEF ChainAfterTerminal, StartSwap, Become
  <2> QED
    BY <1>1, <2>1, GraceArmed
<1> QED
  BY <1>3, <1>4

\* The ticks: the grace tick may go only once it has started a swap.
LEMMA TickKeepsNoStranded ==
    ASSUME TypeOK, NoStranded, NEW t \in ticks, HandleTick(t)
    PROVE  NoStranded'
<1>0. mgr = "run" /\ UNCHANGED <<mgr, queue, sinceStart>> /\ epochs \in [Kinds -> Nat]
  BY DEF HandleTick, queueVars, clockVars, TypeOK, ManagerType, TimerType
<1>1. CASE StaleTick(t)
  BY <1>0, <1>1, GraceTickStays DEF StaleTick, phaseVars
<1>2. CASE GraceTick(t)
  <2>1. CASE state = "ACTIVE" /\ AnyQueued(queue)
    <3>1. state' = "SWAPPING"
      BY <1>2, <2>1 DEF GraceTick, StartSwap, Become
    <3> QED
      BY <3>1, NobodyWaits
  <2>2. CASE ~(state = "ACTIVE" /\ AnyQueued(queue))
    <3>1. UNCHANGED state
      BY <1>2, <2>2 DEF GraceTick, phaseVars
    <3>2. state' = "SWAPPING" \/ ~AnyQueued(queue')
      BY <1>0, <2>2, <3>1 DEF NoStranded
    <3> QED
      BY <3>2, NobodyWaits
  <2> QED
    BY <2>1, <2>2
<1>3. CASE RetryTick(t) \/ CooldownExpired(t)
  <2>1. ~AnyQueued(queue')
    BY <1>0, <1>3 DEF RetryTick, CooldownExpired, NoStranded
  <2> QED
    BY <2>1, NobodyWaits
<1>4. CASE DeferCooldown(t)
  <2>1. /\ UNCHANGED state /\ t.kind = "cooldown" /\ ticks \ {t} \subseteq ticks'
        /\ epochs'["grace"] = epochs["grace"]
    BY <1>0, <1>4 DEF DeferCooldown, ArmTimer, phaseVars, Kinds
  <2> QED
    BY <1>0, <2>1, GraceTickStays
<1>5. CASE IdleTick(t)
  BY <1>0, <1>5, GraceTickStays DEF IdleTick, phaseVars
<1> QED
  BY <1>1, <1>2, <1>3, <1>4, <1>5 DEF HandleTick

LEMMA ManagerKeepsNoStranded ==
    ASSUME TypeOK, ChainInv, NoStranded, ManagerNext
    PROVE  NoStranded'
<1>1. CASE \E w \in workers : HandleSwap(w)
  BY <1>1, ReportKeepsNoStranded
<1>2. CASE \E t \in ticks : HandleTick(t)
  BY <1>2, TickKeepsNoStranded
<1>3. CASE HandleActivity
  BY <1>3, GraceTickStays DEF HandleActivity, phaseVars, timerVars, queueVars
<1>4. ASSUME NEW s \in Services, HandleAdminSwap(s) PROVE NoStranded'
  <2>1. CASE StartSwap(s, workers)
    BY <2>1, NobodyWaits DEF StartSwap, Become
  <2>2. CASE UNCHANGED <<phaseVars, epochs>>
    BY <1>4, <2>2, GraceTickStays DEF HandleAdminSwap, phaseVars, queueVars, clockVars
  <2> QED
    BY <1>4, <2>1, <2>2 DEF HandleAdminSwap
<1>5. CASE HandleAdminStop
  <2>1. \A s \in Services : queue'[s] = {}
    BY <1>5 DEF HandleAdminStop, Flush, Flushed
  <2>2. ~AnyQueued(queue')
    BY <2>1 DEF AnyQueued
  <2> QED
    BY <2>2, NobodyWaits
<1>6. CASE HandleExternalEvent
  <2> DEFINE e == Head(dockerEv)
  <2>1. CASE ActiveDied(e) \/ TargetDied(e)
    <3>1. queue' = Flushed(queue, {e.container})
      BY <2>1 DEF ActiveDied, TargetDied, Flush
    <3>2. state' = "SWAPPING" \/ ~AnyQueued(queue')
      BY <2>1, <3>1 DEF ActiveDied, TargetDied, ChainNow, StartSwap, Become
    <3> QED
      BY <3>2, NobodyWaits
  <2>2. CASE UnauthorizedStart(e) \/ IgnoredEvent(e)
    <3>1. UNCHANGED <<mgr, state, sinceStart, queue, epochs, ticks>>
      BY <1>6, <2>2 DEF HandleExternalEvent, UnauthorizedStart, IgnoredEvent, phaseVars, clockVars
    <3> QED
      BY <3>1, GraceTickStays
  <2> QED
    BY <1>6, <2>1, <2>2 DEF HandleExternalEvent
<1>7. CASE Close
  BY <1>7, GraceTickStays DEF Close, managerVars, phaseVars, timerVars, queueVars, clockVars
<1>8. CASE Shutdown
  BY <1>8, NobodyWaits DEF Shutdown
<1>9. CASE ChainAfterComplete
  BY <1>9, ChainKeepsNoStranded
<1> QED
  BY <1>1, <1>2, <1>3, <1>4, <1>5, <1>6, <1>7, <1>8, <1>9 DEF ManagerNext

\* Time brings the grace tick nearer at least as fast as the period's end.
LEMMA TimeKeepsNoStranded ==
    ASSUME TypeOK, NoStranded, Tick
    PROVE  NoStranded'
<1>0. /\ sinceStart \in 0 .. Grace /\ Grace \in Nat
      /\ ticks \subseteq [kind : Kinds, epoch : Nat, left : Int]
      /\ UNCHANGED <<mgr, state, queue, epochs>>
  BY PoolAssumption DEF TypeOK, ManagerType, ClockType, TimerType, Tick, phaseVars, queueVars
<1> SUFFICES ASSUME mgr = "run", AnyQueued(queue)
             PROVE  /\ state \in {"ACTIVE", "SWAPPING"}
                    /\ state = "ACTIVE" => \E u \in ticks' : /\ u.epoch = epochs[u.kind]
                                                             /\ u.kind = "grace"
                                                             /\ u.left + sinceStart' <= Grace
  BY <1>0 DEF NoStranded, AnyQueued, Live
<1>1. state \in {"ACTIVE", "SWAPPING"}
  BY DEF NoStranded
<1>2. ASSUME state = "ACTIVE"
      PROVE  \E u \in ticks' : /\ u.epoch = epochs[u.kind] /\ u.kind = "grace"
                               /\ u.left + sinceStart' <= Grace
  <2>1. PICK t \in ticks : /\ t.epoch = epochs[t.kind] /\ t.kind = "grace"
                           /\ t.left + sinceStart <= Grace
    BY <1>2 DEF NoStranded, Live
  <2> DEFINE u == [t EXCEPT !.left = @ - 1]
  <2>2. u \in ticks'
    BY DEF Tick
  <2>3. u.kind = t.kind /\ u.epoch = t.epoch /\ u.left = t.left - 1 /\ t.left \in Int
    BY <1>0
  <2>4. sinceStart' <= sinceStart + 1
    BY <1>0 DEF Tick, Capped
  <2>5. sinceStart' \in Int
    BY <1>0 DEF Tick, Capped
  <2> HIDE DEF u
  <2>6. u.left + sinceStart' <= Grace
    BY <1>0, <2>1, <2>3, <2>4, <2>5
  <2> QED
    BY <2>1, <2>2, <2>3, <2>6
<1> QED
  BY <1>1, <1>2

-----------------------------------------------------------------------------
(* The snapshot, and the pause in chainAfterTerminal.                      *)

\* A handler that moves the state machine publishes where it got to.
LEMMA Publishes ==
    /\ \A st, act, tgt : Become(st, act, tgt) => snap' = [state |-> state', active |-> active']
    /\ \A s, ws : StartSwap(s, ws) => snap' = [state |-> state', active |-> active']
<1>1. \A st, act, tgt : Become(st, act, tgt) => snap' = [state |-> state', active |-> active']
  BY DEF Become
<1> QED
  BY <1>1 DEF StartSwap

\* What leaves the state machine and its clock alone.
LEMMA PhaseApart ==
    ASSUME SnapshotFresh, ChainInv, UNCHANGED <<phaseVars, sinceStart, mgr>>
    PROVE  SnapshotFresh' /\ ChainInv'
BY DEF SnapshotFresh, ChainInv, phaseVars

\* A handler that ends where the loop goes on.
LEMMA HandlerEnds ==
    ASSUME SnapshotFresh, mgr' = "run",
           UNCHANGED phaseVars \/ snap' = [state |-> state', active |-> active']
    PROVE  SnapshotFresh' /\ ChainInv'
BY DEF SnapshotFresh, ChainInv, phaseVars

LEMMA ManagerKeepsSnapshot ==
    ASSUME SnapshotFresh, ChainInv, ManagerNext
    PROVE  SnapshotFresh' /\ ChainInv'
<1> DEFINE Published == snap' = [state |-> state', active |-> active']
<1>0. /\ \A st, act, tgt : Become(st, act, tgt) => Published
      /\ \A s, ws : StartSwap(s, ws) => Published
  BY Publishes
<1>1. \A activated, act, q, ws : ChainAfterTerminal(activated, act, q, ws) => Published
  BY <1>0 DEF ChainAfterTerminal
<1> HIDE DEF Published
<1>2. ASSUME NEW w \in workers, HandleSwap(w) PROVE SnapshotFresh' /\ ChainInv'
  <2>1. CASE StaleReport(w)
    BY <2>1, HandlerEnds DEF StaleReport, Reported, managerVars
  <2>2. CASE SwapComplete(w)
    <3>1. /\ Published /\ mgr' = "chain" /\ state' = "ACTIVE" /\ target' = None
          /\ sinceStart' = 0
      BY <1>0, <2>2 DEF SwapComplete, Become
    <3> QED
      BY <3>1 DEF SnapshotFresh, ChainInv, Published
  <2>3. CASE SwapFailed(w) \/ SwapHealthTimeout(w) \/ PoolStopped(w)
    <3>1. Published /\ mgr' = "run"
      BY <1>1, <2>3 DEF SwapFailed, SwapHealthTimeout, PoolStopped, Reported
    <3> QED
      BY <3>1, HandlerEnds DEF Published
  <2> QED
    BY <1>2, <2>1, <2>2, <2>3 DEF HandleSwap
<1>3. CASE ChainAfterComplete
  <2>1. Published /\ mgr' = "run"
    BY <1>1, <1>3 DEF ChainAfterComplete
  <2> QED
    BY <2>1, HandlerEnds DEF Published
<1>4. ASSUME NEW t \in ticks, HandleTick(t) PROVE SnapshotFresh' /\ ChainInv'
  <2>1. mgr' = "run" /\ (UNCHANGED phaseVars \/ Published)
    BY <1>0, <1>4 DEF HandleTick, StaleTick, GraceTick, RetryTick, DeferCooldown, CooldownExpired,
       IdleTick, StartStopAll
  <2> QED
    BY <2>1, HandlerEnds DEF Published
<1>5. CASE HandleActivity \/ HandleAdminStop \/ \E s \in Services : HandleAdminSwap(s)
  <2>1. mgr' = "run" /\ (UNCHANGED phaseVars \/ Published)
    BY <1>0, <1>5 DEF HandleActivity, HandleAdminStop, HandleAdminSwap, StartStopAll
  <2> QED
    BY <2>1, HandlerEnds DEF Published
<1>6. CASE HandleExternalEvent
  <2>1. mgr' = "run" /\ (UNCHANGED phaseVars \/ Published)
    BY <1>0, <1>6 DEF HandleExternalEvent, ActiveDied, TargetDied, ChainNow, UnauthorizedStart,
       IgnoredEvent
  <2> QED
    BY <2>1, HandlerEnds DEF Published
<1>7. CASE Close
  BY <1>7, PhaseApart DEF Close, managerVars, clockVars
<1>8. CASE Shutdown
  <2>1. Published /\ mgr' = "stopped" /\ state' = "IDLE"
    BY <1>0, <1>8 DEF Shutdown, Become
  <2> QED
    BY <2>1 DEF SnapshotFresh, ChainInv, Published
<1> QED
  BY <1>2, <1>3, <1>4, <1>5, <1>6, <1>7, <1>8 DEF ManagerNext

LEMMA ClientKeepsSnapshot ==
    ASSUME SnapshotFresh, ChainInv, NEW r \in Reqs, ClientNext(r)
    PROVE  SnapshotFresh' /\ ChainInv'
<1>1. CASE Submit(r)
  <2>1. /\ mgr' = "run"
        /\ UNCHANGED phaseVars \/ snap' = [state |-> state', active |-> active']
    BY <1>1, Publishes DEF Submit, HandleAdmit, AdmitNow, AdmitFull, AdmitQueued
  <2> QED
    BY <2>1, HandlerEnds
<1>2. CASE Cancel(r)
  BY <1>2, PhaseApart DEF Cancel, HandleCancel, clockVars
<1>3. CASE Arrive(r) \/ Receive(r) \/ GiveUp(r) \/ Abandon(r)
  BY <1>3, PhaseApart DEF Arrive, Receive, GiveUp, Abandon, managerVars, clockVars
<1> QED
  BY <1>1, <1>2, <1>3 DEF ClientNext

-----------------------------------------------------------------------------
(* The theorems.                                                           *)

\* The invariant holds when the pool is built.
LEMMA InitInv == Init => Inv
<1> SUFFICES ASSUME Init PROVE Inv
  OBVIOUS
<1> USE DEF Init, DockerInit, RegistryInit, WorkerInit, ManagerInit, WatcherInit, AdmissionInit
<1>1. DockerType
  <2>1. running \subseteq Services /\ stream \in Seq(Event)
    BY DockerAssumption
  <2>2. subscribed \in BOOLEAN
    BY Zenon
  <2>3. budget \in [BudgetKinds -> Nat]
    BY DockerAssumption
  <2> QED
    BY <2>1, <2>2, <2>3 DEF DockerType
<1>2. RegistryType /\ WatcherType
  BY DEF RegistryType, Entry, NoEntry, WatcherType
<1>3. WorkerType
  BY DEF WorkerType
<1>4. ManagerType
  <2>1. PhaseType
    BY DEF PhaseType, States
  <2>2. epochs \in [Kinds -> Nat] /\ ticks \subseteq [kind : Kinds, epoch : Nat, left : Int]
    OBVIOUS
  <2>3. cooldownArmed \in BOOLEAN
    BY Zenon
  <2>4. QueueType
    BY DEF QueueType
  <2>5. ClockType
    BY PoolAssumption DEF ClockType
  <2>6. InboxType
    BY DEF InboxType
  <2> QED
    BY <2>1, <2>2, <2>3, <2>4, <2>5, <2>6 DEF ManagerType, TimerType
<1>5. AdmissionType
  BY DEF AdmissionType, Phases
<1>6. WorkerInv
  BY DEF WorkerInv, WorkerShape, WorkerIdentity, WorkerMatchesState
<1>7. RequestInv
  <2>1. RequestShape /\ NoLostRequest /\ NoGhostWaiter
    BY DEF RequestShape, NoLostRequest, NoGhostWaiter
  <2>2. OneReplyEach
    BY DEF OneReplyEach
  <2> QED
    BY <2>1, <2>2 DEF RequestInv
<1>8. NoStranded
  BY DEF NoStranded, AnyQueued
<1>9. SnapshotFresh /\ ChainInv
  BY DEF SnapshotFresh, ChainInv
<1> QED
  BY <1>1, <1>2, <1>3, <1>4, <1>5, <1>6, <1>7, <1>8, <1>9 DEF Inv, TypeOK

\* Every step keeps it.
LEMMA NextInv == Inv /\ [Next]_vars => Inv'
<1> SUFFICES ASSUME Inv, [Next]_vars PROVE Inv'
  OBVIOUS
<1>0. /\ TypeOK /\ SnapshotFresh /\ ChainInv /\ WorkerInv /\ RequestInv /\ NoStranded /\ WorkerShape /\ RequestShape
  BY DEF Inv, WorkerInv, RequestInv
<1>1. ASSUME NEW r \in Reqs, ClientNext(r) PROVE Inv'
  BY <1>0, <1>1, ClientStepType, ClientKeepsSnapshot, ClientKeepsWorkerInv, ClientKeepsRequestInv,
     ClientKeepsNoStranded DEF Inv
<1>2. CASE ManagerNext
  BY <1>0, <1>2, ManagerStepType, ManagerKeepsSnapshot, ManagerKeepsWorkerInv,
     ManagerKeepsRequestInv, ManagerKeepsNoStranded DEF Inv
<1>3. CASE WorkersNext
  <2>1. /\ UNCHANGED <<mgr, state, sinceStart, queue, reply, epochs, ticks, phase, svc>>
        /\ UNCHANGED phaseVars
    BY <1>3 DEF WorkersNext, managerVars, phaseVars, timerVars, queueVars, clockVars, clientVars
  <2>2. UNCHANGED closed
    BY <1>3 DEF WorkersNext, WorkerNext, WorkerSweep, WorkerSweepFails, WorkerSuperseded,
       WorkerSwept, WorkerStop, WorkerStopFails, WorkerConfirm, WorkerConfirmFails, WorkerStart,
       WorkerStartFails, WorkerStarted, WorkerHealthy, WorkerUnhealthy, WorkerPanic, WorkerExit,
       StopperNext, StopperBegin, StopperStop
  <2> QED
    BY <1>0, <1>3, <2>1, <2>2, WorkersStepType, PhaseApart, WorkersKeepWorkerInv, RequestsApart,
       GraceTickStays DEF Inv
<1>4. CASE WatcherNext /\ UNCHANGED clientVars
  <2>1. /\ UNCHANGED <<workers, closed, opSeq, state, target, mgr>>
        /\ UNCHANGED <<sinceStart, queue, reply, epochs, ticks, phase, svc, result, phaseVars>>
    BY <1>4 DEF WatcherNext, Route, Notify, Resubscribe, workerVars, managerVars, phaseVars,
       timerVars, queueVars, clockVars, clientVars
  <2>2. TypeOK'
    BY <1>0, <1>4, <2>1, WatcherStepType DEF TypeOK, AdmissionType
  <2> QED
    BY <1>0, <2>1, <2>2, PhaseApart, WorkersApart, RequestsApart,
       GraceTickStays DEF Inv
<1>5. CASE OutsideNext
  <2>1. /\ UNCHANGED <<workers, closed, opSeq, state, target, mgr>>
        /\ UNCHANGED <<sinceStart, queue, reply, epochs, ticks, phase, svc, phaseVars>>
    BY <1>5 DEF OutsideNext, workerVars, managerVars, phaseVars, timerVars, queueVars, clockVars,
       clientVars
  <2> QED
    BY <1>0, <1>5, <2>1, OutsideStepType, PhaseApart, WorkersApart,
       RequestsApart, GraceTickStays DEF Inv
<1>6. CASE Tick
  <2>0. SnapshotFresh' /\ ChainInv'
    BY <1>0, <1>6 DEF Tick, SnapshotFresh, ChainInv, phaseVars
  <2>1. /\ UNCHANGED <<workers, closed, opSeq, state, target, mgr>>
        /\ UNCHANGED <<queue, reply, phase, svc>>
    BY <1>6 DEF Tick, workerVars, phaseVars, queueVars, clientVars
  <2> QED
    BY <1>0, <1>6, <2>0, <2>1, TickType, WorkersApart, RequestsApart, TimeKeepsNoStranded DEF Inv
<1>7. CASE UNCHANGED vars
  <2>1. /\ UNCHANGED <<workers, closed, opSeq, state, target, mgr>>
        /\ UNCHANGED <<sinceStart, queue, reply, epochs, ticks, phase, svc, phaseVars>>
    BY <1>7 DEF vars, workerVars, managerVars, phaseVars, timerVars, queueVars, clockVars,
       clientVars
  <2>2. TypeOK'
    BY <1>0, <1>7 DEF vars, TypeOK, DockerType, RegistryType, WorkerType, ManagerType,
       WatcherType, AdmissionType, PhaseType, TimerType, QueueType, ClockType, InboxType,
       dockerVars, workerVars, managerVars, phaseVars, timerVars, queueVars, clockVars,
       inboxVars, clientVars
  <2> QED
    BY <1>0, <2>1, <2>2, PhaseApart, WorkersApart, RequestsApart,
       GraceTickStays DEF Inv
<1> QED
  BY <1>1, <1>2, <1>3, <1>4, <1>5, <1>6, <1>7 DEF Next

\* Inv is an inductive invariant of the pool.
THEOREM InvHolds == Spec => []Inv
BY InitInv, NextInv, PTL DEF Spec

\* Every variable keeps its type: no handler leaves a field of the pool, a
\* worker or a request with a value the code has no meaning for.
THEOREM TypeCorrect == Spec => []TypeOK
<1>1. Inv => TypeOK
  BY DEF Inv
<1> QED
  BY <1>1, InvHolds, PTL

\* The manager never sends twice on a reply channel, so it never blocks
\* (queue.go, "buffered(1): manager never blocks sending").
THEOREM RepliesOnce == Spec => []OneReplyEach
<1>1. Inv => OneReplyEach
  BY DEF Inv, RequestInv
<1> QED
  BY <1>1, InvHolds, PTL

\* A request the manager took is answered or in the queue of its service: no
\* swap, tick, cancellation, event or command drops it.
THEOREM RequestsKept == Spec => []NoLostRequest
<1>1. Inv => NoLostRequest
  BY DEF Inv, RequestInv
<1> QED
  BY <1>1, InvHolds, PTL

\* A queue holds only requests that still want its service and have no
\* answer: removeByReply and flush leave no ghost behind.
THEOREM QueuesHonest == Spec => []NoGhostWaiter
<1>1. Inv => NoGhostWaiter
  BY DEF Inv, RequestInv
<1> QED
  BY <1>1, InvHolds, PTL

\* Whoever waits has a swap in flight or a live grace tick that is due no
\* later than the grace period's end.
THEOREM NobodyStranded == Spec => []NoStranded
<1>1. Inv => NoStranded
  BY DEF Inv
<1> QED
  BY <1>1, InvHolds, PTL

\* SWAPPING waits for exactly one worker, which is not cancelled and reports
\* under the current opSeq; every other worker is superseded.
THEOREM WorkersMatch == Spec => []WorkerMatchesState
<1>1. Inv => WorkerMatchesState
  BY DEF Inv, WorkerInv
<1> QED
  BY <1>1, InvHolds, PTL

\* A request that Admit lets through without asking the manager finds its
\* service active: the snapshot is never behind the manager's own state.
THEOREM FastPathIsHonest == Spec => FastPathHonest
<1> DEFINE Honest ==
        \A r \in Reqs :
            phase[r] = "idle" /\ phase'[r] = "done" =>
                mgr # "stopped" /\ state = "ACTIVE" /\ active = svc'[r]
<1>1. ASSUME Inv, [Next]_vars PROVE [Honest]_vars
  <2> SUFFICES ASSUME Next, NEW r \in Reqs, phase[r] = "idle", phase'[r] = "done"
               PROVE  mgr # "stopped" /\ state = "ACTIVE" /\ active = svc'[r]
    BY <1>1
  <2>0. /\ SnapshotFresh /\ phase \in [Reqs -> Phases]
        /\ svc \in [Reqs -> Services \cup {None}]
    BY <1>1 DEF Inv, TypeOK, AdmissionType
  <2>1. ~UNCHANGED phase
    OBVIOUS
  <2>2. PICK q \in Reqs : ClientNext(q)
    BY <2>1 DEF Next, ManagerNext, WorkersNext, OutsideNext, Tick, clientVars
  <2>3. \E p \in Phases : phase' = [phase EXCEPT ![q] = p]
    BY <2>2 DEF ClientNext, Arrive, Submit, Receive, GiveUp, Cancel, Abandon, Return, Phases
  <2>4. q = r
    BY <2>0, <2>3
  <2>5. Arrive(r)
    BY <2>2, <2>4 DEF ClientNext, Submit, Receive, GiveUp, Cancel, Abandon
  <2>6. PICK s \in Services :
          /\ svc' = [svc EXCEPT ![r] = s]
          /\ snap # [state |-> "ACTIVE", active |-> s] => phase' = [phase EXCEPT ![r] = "send"]
    BY <2>5 DEF Arrive
  <2>7. snap = [state |-> "ACTIVE", active |-> s] /\ svc'[r] = s
    BY <2>0, <2>6
  <2> QED
    BY <2>0, <2>7 DEF SnapshotFresh
<1> QED
  BY <1>1, InvHolds, PTL DEF Spec, FastPathHonest
=============================================================================
