----------------------------- MODULE PoolTypes ------------------------------
(***************************************************************************)
(* Every step of module Pool keeps the types: the lemmas on which the      *)
(* theorems of PoolProofs rest.                                            *)
(***************************************************************************)
EXTENDS Pool, TLAPS

-----------------------------------------------------------------------------
(* Docker and the registry.                                                *)

\* What Emit leaves in the stream are events.
LEMMA EmitType ==
    ASSUME stream \in Seq(Event), NEW c \in Services, NEW acts \in Seq(Actions),
           Emit(c, acts)
    PROVE  stream' \in Seq(Event)
<1> DEFINE news == [i \in DOMAIN acts |-> [container |-> c, action |-> acts[i]]]
<1>1. news \in Seq(Event)
  <2>1. /\ Len(acts) \in Nat
        /\ DOMAIN acts = 1 .. Len(acts)
        /\ \A i \in 1 .. Len(acts) : acts[i] \in Actions
    OBVIOUS
  <2>2. news \in [1 .. Len(acts) -> Event]
    BY <2>1 DEF Event
  <2> QED
    BY <2>1, <2>2
<1>2. stream \o news \in Seq(Event)
  BY <1>1
<1> QED
  BY <1>2 DEF Emit

\* Start and Stop, effective or not, keep the containers and the stream typed.
LEMMA StartType ==
    ASSUME DockerType, NEW c \in Services, StartContainer(c)
    PROVE  running' \subseteq Services /\ stream' \in Seq(Event)
<1>0. <<"start">> \in Seq(Actions) /\ << >> \in Seq(Actions)
  BY DEF Actions
<1>1. (IF c \in running THEN << >> ELSE <<"start">>) \in Seq(Actions)
  BY <1>0
<1> QED
  BY <1>1, EmitType DEF StartContainer, DockerType

LEMMA StopType ==
    ASSUME DockerType, NEW c \in Services, StopContainer(c)
    PROVE  running' \subseteq Services /\ stream' \in Seq(Event)
<1>1. StopBurst \in Seq(Actions)
  <2>1. StopBurst \in Seq(Actions \ {"start"})
    BY DockerAssumption
  <2> QED
    BY <2>1
<1>2. (IF c \in running THEN StopBurst ELSE << >>) \in Seq(Actions)
  BY <1>1
<1> QED
  BY <1>2, EmitType DEF StopContainer, DockerType

LEMMA SpendType ==
    ASSUME DockerType, NEW kind \in BudgetKinds, Spend(kind)
    PROVE  budget' \in [BudgetKinds -> Nat]
BY DEF Spend, DockerType

LEMMA ExpectType ==
    ASSUME RegistryType, NEW c \in Services, NEW kind \in {"start", "stop"}, Expect(c, kind)
    PROVE  RegistryType'
BY DEF Expect, RegistryType, Entry

-----------------------------------------------------------------------------
(* The workers.                                                            *)

\* Replacing a worker by a well-typed one keeps the set typed.
LEMMA StepType ==
    ASSUME WorkerType, NEW w \in workers, NEW next \in Worker, Step(w, next)
    PROVE  workers' \subseteq Worker
BY DEF WorkerType, Step

LEMMA ReportType ==
    ASSUME WorkerType, NEW w \in workers, NEW res \in Outcomes, Report(w, res)
    PROVE  workers' \subseteq Worker
<1>1. w \in Worker
  BY DEF WorkerType
<1>2. [w EXCEPT !.pc = "report", !.todo = {}, !.at = None, !.res = res] \in Worker
  BY <1>1 DEF Worker
<1> QED
  BY <1>2, StepType DEF Report

LEMMA FailureType == \A w : FailureOf(w) \in Outcomes
BY DEF FailureOf, Outcomes

LEMMA AfterStopType ==
    ASSUME WorkerType, NEW w \in workers, NEW ok \in BOOLEAN, AfterStop(w, ok)
    PROVE  workers' \subseteq Worker
<1>1. w \in Worker /\ "failed" \in Outcomes
  BY DEF WorkerType, Outcomes
<1>2. [w EXCEPT !.pc = "sweep", !.at = None, !.todo = @ \ {w.at}] \in Worker
  BY <1>1 DEF Worker
<1> QED
  BY <1>1, <1>2, StepType, ReportType DEF AfterStop

\* A Docker call's failure spends from the budget or is free.
LEMMA CallFailsType ==
    ASSUME DockerType, CallFails
    PROVE  budget' \in [BudgetKinds -> Nat]
<1>1. "fault" \in BudgetKinds
  BY DEF BudgetKinds
<1> QED
  BY <1>1, SpendType DEF CallFails, DockerType

\* Every step of a worker keeps the types.
LEMMA WorkerStepType ==
    ASSUME DockerType, RegistryType, WorkerType, WorkerShape,
           NEW w \in workers, WorkerNext(w)
    PROVE  DockerType' /\ RegistryType' /\ WorkerType'
<1>0. /\ w \in Worker
      /\ {"failed", "stopped", "complete", "timeout"} \subseteq Outcomes
      /\ "fault" \in BudgetKinds
  BY DEF WorkerType, Outcomes, BudgetKinds
<1>1. CASE WorkerSweep(w)
  <2>1. PICK c \in First(w.todo) :
            IF c \in running
            THEN /\ Expect(c, "stop")
                 /\ Step(w, [w EXCEPT !.pc = "stop", !.at = c])
            ELSE /\ Step(w, [w EXCEPT !.todo = @ \ {c}])
                 /\ UNCHANGED entries
    BY <1>1 DEF WorkerSweep
  <2>2. c \in Services
    BY <1>0, <2>1 DEF First, Worker
  <2>3. /\ [w EXCEPT !.pc = "stop", !.at = c] \in Worker
        /\ [w EXCEPT !.todo = @ \ {c}] \in Worker
    BY <1>0, <2>2 DEF Worker
  <2>4. RegistryType'
    BY <2>1, <2>2, ExpectType DEF RegistryType
  <2>5. workers' \subseteq Worker
    BY <2>1, <2>3, StepType
  <2> QED
    BY <1>1, <2>4, <2>5 DEF WorkerSweep, WorkerType, DockerType, dockerVars
<1>2. CASE WorkerSweepFails(w)
  <2>1. PICK c \in First(w.todo) :
            IF w.target = None
            THEN Step(w, [w EXCEPT !.todo = @ \ {c}])
            ELSE Report(w, "failed")
    BY <1>2 DEF WorkerSweepFails
  <2>2. [w EXCEPT !.todo = @ \ {c}] \in Worker
    BY <1>0 DEF Worker
  <2>3. workers' \subseteq Worker
    BY <1>0, <2>1, <2>2, StepType, ReportType
  <2> QED
    BY <1>2, <2>3, CallFailsType DEF WorkerSweepFails, WorkerType, DockerType, RegistryType
<1>3. CASE WorkerSuperseded(w)
  BY <1>3, FailureType, ReportType
     DEF WorkerSuperseded, WorkerType, DockerType, RegistryType, dockerVars
<1>4. CASE WorkerSwept(w)
  <2>1. [w EXCEPT !.pc = "start"] \in Worker
    BY <1>0 DEF Worker
  <2>2. workers' \subseteq Worker
    BY <1>0, <1>4, <2>1, StepType, ReportType DEF WorkerSwept
  <2>3. w.target # None => w.target \in Services
    BY <1>0 DEF Worker
  <2>4. RegistryType'
    BY <1>4, <2>3, ExpectType DEF WorkerSwept, RegistryType
  <2> QED
    BY <1>4, <2>2, <2>4 DEF WorkerSwept, WorkerType, DockerType, dockerVars
<1>5. CASE WorkerStop(w)
  <2>1. [w EXCEPT !.pc = "confirm"] \in Worker
    BY <1>0 DEF Worker
  <2>2. workers' \subseteq Worker
    BY <1>5, <2>1, StepType DEF WorkerStop
  <2>3. w.at \in Services
    BY <1>5 DEF WorkerStop, WorkerShape, Shaped
  <2> QED
    BY <1>5, <2>2, <2>3, StopType DEF WorkerStop, WorkerType, DockerType, RegistryType
<1>6. CASE WorkerStopFails(w)
  <2>1. w.at \in Services
    BY <1>6 DEF WorkerStopFails, WorkerShape, Shaped
  <2>2. running' \subseteq Services /\ stream' \in Seq(Event)
    BY <1>6, <2>1, StopType DEF WorkerStopFails, NoEffect, DockerType
  <2>3. workers' \subseteq Worker
    BY <1>6, AfterStopType DEF WorkerStopFails
  <2> QED
    BY <1>6, <2>2, <2>3, CallFailsType DEF WorkerStopFails, WorkerType, DockerType, RegistryType
<1>7. CASE WorkerConfirm(w)
  <2>1. workers' \subseteq Worker
    BY <1>7, AfterStopType DEF WorkerConfirm
  <2> QED
    BY <1>7, <2>1 DEF WorkerConfirm, WorkerType, DockerType, RegistryType, dockerVars
<1>8. CASE WorkerConfirmFails(w)
  <2>1. workers' \subseteq Worker
    BY <1>8, AfterStopType DEF WorkerConfirmFails
  <2>2. budget' \in [BudgetKinds -> Nat]
    BY <1>8, CallFailsType DEF WorkerConfirmFails, DockerType
  <2> QED
    BY <1>8, <2>1, <2>2 DEF WorkerConfirmFails, WorkerType, DockerType, RegistryType
<1>9. CASE WorkerStart(w)
  <2>1. [w EXCEPT !.pc = "started"] \in Worker
    BY <1>0 DEF Worker
  <2>2. workers' \subseteq Worker
    BY <1>9, <2>1, StepType DEF WorkerStart
  <2>3. w.target \in Services
    BY <1>9 DEF WorkerStart, WorkerShape, Shaped
  <2> QED
    BY <1>9, <2>2, <2>3, StartType DEF WorkerStart, WorkerType, DockerType, RegistryType
<1>10. CASE WorkerStartFails(w)
  <2>1. w.target \in Services
    BY <1>10 DEF WorkerStartFails, WorkerShape, Shaped
  <2>2. running' \subseteq Services /\ stream' \in Seq(Event)
    BY <1>10, <2>1, StartType DEF WorkerStartFails, NoEffect, DockerType
  <2>3. workers' \subseteq Worker
    BY <1>0, <1>10, ReportType DEF WorkerStartFails
  <2> QED
    BY <1>10, <2>2, <2>3, CallFailsType DEF WorkerStartFails, WorkerType, DockerType, RegistryType
<1>11. CASE WorkerStarted(w)
  <2>1. w.target \in Services
    BY <1>11 DEF WorkerStarted, WorkerShape, Shaped
  <2>2. /\ [w EXCEPT !.pc = "stop", !.at = w.target] \in Worker
        /\ [w EXCEPT !.pc = "probe"] \in Worker
    BY <1>0, <2>1 DEF Worker
  <2>3. workers' \subseteq Worker
    BY <1>11, <2>2, StepType DEF WorkerStarted
  <2>4. RegistryType'
    BY <1>11, <2>1, ExpectType DEF WorkerStarted, RegistryType
  <2> QED
    BY <1>11, <2>3, <2>4 DEF WorkerStarted, WorkerType, DockerType, dockerVars
<1>12. CASE WorkerHealthy(w)
  BY <1>0, <1>12, ReportType
     DEF WorkerHealthy, WorkerType, DockerType, RegistryType, dockerVars
<1>13. CASE WorkerUnhealthy(w)
  <2>1. budget' \in [BudgetKinds -> Nat]
    BY <1>0, <1>13, SpendType DEF WorkerUnhealthy, DockerType
  <2> QED
    BY <1>0, <1>13, <2>1, ReportType DEF WorkerUnhealthy, WorkerType, DockerType, RegistryType
<1>14. CASE WorkerPanic(w)
  BY <1>0, <1>14, SpendType, FailureType, ReportType
     DEF WorkerPanic, WorkerType, DockerType, RegistryType
<1>15. CASE WorkerExit(w)
  BY <1>15 DEF WorkerExit, WorkerType, DockerType, RegistryType, dockerVars
<1> QED
  BY <1>1, <1>2, <1>3, <1>4, <1>5, <1>6, <1>7, <1>8, <1>9, <1>10, <1>11, <1>12, <1>13,
     <1>14, <1>15 DEF WorkerNext

\* So does every step of a stopper.
LEMMA StopperStepType ==
    ASSUME DockerType, RegistryType, WorkerType, NEW k \in Stopper, StopperNext(k)
    PROVE  DockerType' /\ RegistryType' /\ WorkerType'
<1>0. k.container \in Services /\ [k EXCEPT !.pc = "stop"] \in Stopper
  BY DEF Stopper
<1>1. CASE StopperBegin(k)
  <2>1. RegistryType'
    BY <1>0, <1>1, ExpectType DEF StopperBegin, RegistryType
  <2>2. stoppers' \in [Stopper -> Nat]
    BY <1>0, <1>1 DEF StopperBegin, WorkerType
  <2> QED
    BY <1>1, <2>1, <2>2 DEF StopperBegin, WorkerType, DockerType, dockerVars
<1>2. CASE StopperStop(k)
  <2>1. stoppers' \in [Stopper -> Nat]
    BY <1>2 DEF StopperStop, WorkerType
  <2>2. /\ running' \subseteq Services /\ stream' \in Seq(Event)
        /\ budget' \in [BudgetKinds -> Nat]
    BY <1>0, <1>2, StopType, CallFailsType DEF StopperStop, NoEffect, DockerType
  <2> QED
    BY <1>2, <2>1, <2>2 DEF StopperStop, WorkerType, DockerType, RegistryType
<1> QED
  BY <1>1, <1>2 DEF StopperNext

-----------------------------------------------------------------------------
(* The manager.                                                            *)

LEMMA FlushType ==
    ASSUME QueueType, NEW S, NEW res \in Results, Flush(S, res)
    PROVE  /\ queue' \in [Services -> SUBSET Waiter]
           /\ reply' \in [Reqs -> Seq(Results)]
BY DEF QueueType, Flush, Flushed

LEMMA ArmTimerType ==
    ASSUME TimerType, NEW kind \in Kinds, NEW d \in Int, NEW pending \in SUBSET ticks,
           ArmTimer(kind, d, pending)
    PROVE  TimerType'
BY DEF TimerType, ArmTimer

LEMMA BecomeType ==
    ASSUME PhaseType, NEW st \in States, NEW act \in Services \cup {None},
           NEW tgt \in Services \cup {None}, Become(st, act, tgt), opSeq' \in Nat
    PROVE  PhaseType'
BY DEF PhaseType, Become

LEMMA SupersededType ==
    ASSUME NEW ws \in SUBSET Worker
    PROVE  Superseded(ws) \subseteq Worker
BY DEF Superseded, CancelOp, Worker

LEMMA StartSwapType ==
    ASSUME PhaseType, TimerType, NEW s \in Services \cup {None}, NEW ws \in SUBSET Worker,
           StartSwap(s, ws)
    PROVE  /\ PhaseType' /\ workers' \subseteq Worker
           /\ epochs' \in [Kinds -> Nat] /\ cooldownArmed' \in BOOLEAN
<1>1. PhaseType'
  <2>1. /\ Become("SWAPPING", None, s)
        /\ opSeq' = opSeq + 1
    BY Zenon DEF StartSwap
  <2>2. "SWAPPING" \in States
    BY DEF States
  <2>3. opSeq' \in Nat
    BY <2>1 DEF PhaseType
  <2> QED
    BY <2>1, <2>2, <2>3 DEF PhaseType, Become
<1>2. NewWorker(opSeq + 1, s) \in Worker
  BY DEF NewWorker, Worker, PhaseType
<1>3. workers' \subseteq Worker
  BY <1>2, SupersededType DEF StartSwap
<1>4. epochs' \in [Kinds -> Nat]
  BY DEF StartSwap, BumpEpochs, TimerType
<1>5. cooldownArmed' \in BOOLEAN
  BY Zenon DEF StartSwap, BumpEpochs
<1> QED
  BY <1>1, <1>3, <1>4, <1>5

LEMMA TouchType ==
    ASSUME ClockType, NEW s, Touch(s)
    PROVE  idle' \in 0 .. Cooldown
BY PoolAssumption DEF ClockType, Touch

LEMMA OldestType == \A q : OldestQueued(q) \subseteq Services
BY DEF OldestQueued

LEMMA ChainType ==
    ASSUME ManagerType, NEW activated \in BOOLEAN, NEW act \in Services \cup {None},
           NEW q, NEW ws \in SUBSET Worker, ChainAfterTerminal(activated, act, q, ws)
    PROVE  /\ PhaseType' /\ TimerType' /\ workers' \subseteq Worker
           /\ idle' \in 0 .. Cooldown /\ adminPending' \in Services \cup {None}
<1>0. PhaseType /\ TimerType /\ ClockType /\ adminPending \in Services \cup {None}
  BY DEF ManagerType
<1>1. adminPending' \in Services \cup {None}
  BY DEF ChainAfterTerminal
<1>2. CASE \E s \in Services \cup {None} : StartSwap(s, ws) /\ UNCHANGED <<ticks, idle>>
  BY <1>0, <1>1, <1>2, StartSwapType DEF TimerType, ClockType
<1>3. CASE /\ Become(IF activated THEN "ACTIVE" ELSE "IDLE", act, None)
           /\ workers' = ws
           /\ UNCHANGED opSeq
           /\ \/ ArmTimer("grace", Grace, ticks) /\ UNCHANGED idle
              \/ ArmTimer("cooldown", Cooldown, ticks) /\ idle' \in {0, idle}
              \/ UNCHANGED <<timerVars, idle>>
  <2>1. (IF activated THEN "ACTIVE" ELSE "IDLE") \in States
    BY DEF States
  <2>2. PhaseType'
    BY <1>0, <1>3, <2>1, BecomeType DEF PhaseType
  <2>3. Grace \in Int /\ Cooldown \in Int /\ {"grace", "cooldown"} \subseteq Kinds
    BY PoolAssumption DEF Kinds
  <2>4. TimerType'
    BY <1>0, <1>3, <2>3, ArmTimerType DEF TimerType, timerVars
  <2>5. idle' \in 0 .. Cooldown
    BY <1>0, <1>3, PoolAssumption DEF ClockType
  <2> QED
    BY <1>1, <1>3, <2>2, <2>4, <2>5
<1> QED
  BY <1>0, <1>2, <1>3, OldestType DEF ChainAfterTerminal

LEMMA HandleAdmitType ==
    ASSUME ManagerType, WorkerType, NEW s \in Services, NEW r \in Reqs, HandleAdmit(s, r)
    PROVE  ManagerType' /\ WorkerType'
<1>0. PhaseType /\ TimerType /\ QueueType /\ ClockType /\ {"Go", "QueueFull"} \subseteq Results
  BY DEF ManagerType, Results
<1>1. CASE AdmitNow(s, r)
  <2>1. QueueType'
    BY <1>0, <1>1 DEF AdmitNow, QueueType
  <2>2. ClockType'
    BY <1>0, <1>1, TouchType DEF AdmitNow, ClockType
  <2> QED
    BY <1>0, <1>1, <2>1, <2>2
       DEF AdmitNow, HandleAdmit, ManagerType, WorkerType, PhaseType, TimerType, InboxType,
           phaseVars, timerVars, inboxVars, outsideVars
<1>2. CASE AdmitFull(s, r)
  <2>1. QueueType'
    BY <1>0, <1>2 DEF AdmitFull, QueueType
  <2> QED
    BY <1>0, <1>2, <2>1
       DEF AdmitFull, HandleAdmit, ManagerType, WorkerType, PhaseType, TimerType, InboxType,
           ClockType, phaseVars, timerVars, inboxVars, clockVars, outsideVars
<1>3. CASE AdmitQueued(s, r)
  <2>1. QueueType'
    BY <1>0, <1>3 DEF AdmitQueued, QueueType, Waiter
  <2>2. PhaseType' /\ TimerType' /\ workers' \subseteq Worker
    <3>1. CASE StartSwap(s, workers) /\ UNCHANGED ticks
      BY <1>0, <3>1, StartSwapType DEF WorkerType, TimerType
    <3>2. CASE ArmTimer("grace", Grace - sinceStart, ticks) /\ UNCHANGED <<phaseVars, workers>>
      <4>1. Grace - sinceStart \in Int /\ "grace" \in Kinds
        BY <1>0, PoolAssumption DEF ClockType, Kinds
      <4> QED
        BY <1>0, <3>2, <4>1, ArmTimerType DEF WorkerType, PhaseType, phaseVars
    <3>3. CASE UNCHANGED <<phaseVars, timerVars, workers>>
      BY <1>0, <3>3 DEF WorkerType, PhaseType, TimerType, phaseVars, timerVars
    <3> QED
      BY <1>3, <3>1, <3>2, <3>3 DEF AdmitQueued
  <2> QED
    BY <1>0, <1>3, <2>1, <2>2
       DEF AdmitQueued, HandleAdmit, ManagerType, WorkerType, InboxType, ClockType,
           inboxVars, clockVars, outsideVars
<1> QED
  BY <1>1, <1>2, <1>3 DEF HandleAdmit

LEMMA HandleCancelType ==
    ASSUME ManagerType, WorkerType, NEW s \in Services, NEW r \in Reqs, HandleCancel(s, r)
    PROVE  ManagerType' /\ WorkerType'
<1>1. queue' \in [Services -> SUBSET Waiter]
  BY DEF HandleCancel, RemoveByReply, ManagerType, QueueType
<1> QED
  BY <1>1 DEF HandleCancel, ManagerType, WorkerType, PhaseType, TimerType, QueueType, ClockType,
     InboxType, phaseVars, timerVars, clockVars, inboxVars, outsideVars

LEMMA SpawnedType ==
    ASSUME WorkerType, NEW c, NEW forced \in BOOLEAN
    PROVE  Spawned(c, forced) \in [Stopper -> Nat]
<1> DEFINE k == [container |-> c, forced |-> forced, pc |-> "begin"]
<1>1. CASE k \in Stopper
  <2>1. stoppers[k] + 1 \in Nat
    BY <1>1 DEF WorkerType
  <2> HIDE DEF k
  <2> QED
    BY <2>1 DEF Spawned, WorkerType, k
<1>2. CASE k \notin Stopper
  <2>1. DOMAIN stoppers = Stopper
    BY DEF WorkerType
  <2> HIDE DEF k
  <2>2. [stoppers EXCEPT ![k] = @ + 1] = stoppers
    BY <1>2, <2>1 DEF WorkerType
  <2> QED
    BY <2>2 DEF Spawned, WorkerType, k
<1> QED
  BY <1>1, <1>2

LEMMA HandleSwapType ==
    ASSUME ManagerType, WorkerType, NEW w \in workers, HandleSwap(w)
    PROVE  ManagerType' /\ WorkerType'
<1>0. /\ PhaseType /\ TimerType /\ QueueType /\ ClockType
      /\ {"Go", "DockerError", "StartupTimeout"} \subseteq Results
      /\ workers \ {w} \in SUBSET Worker
      /\ w.target \in Services \cup {None}
      /\ None \in Services \cup {None}
      /\ TRUE \in BOOLEAN /\ FALSE \in BOOLEAN
  BY DEF ManagerType, Results, WorkerType, Worker
<1>1. CASE StaleReport(w)
  BY <1>0, <1>1 DEF StaleReport, ManagerType, WorkerType, PhaseType, TimerType, QueueType,
     ClockType, InboxType, managerVars, phaseVars, timerVars, queueVars, clockVars, inboxVars,
     outsideVars
<1>2. CASE SwapComplete(w)
  <2>0. "ACTIVE" \in States
    BY DEF States
  <2>1. PhaseType'
    BY <1>0, <1>2, <2>0, BecomeType DEF SwapComplete, PhaseType
  <2>2. queue' \in [Services -> SUBSET Waiter] /\ reply' \in [Reqs -> Seq(Results)]
    BY <1>0, <1>2, FlushType DEF SwapComplete
  <2>3. sinceStart' \in 0 .. Grace
    BY <1>2, PoolAssumption DEF SwapComplete
  <2> QED
    BY <1>0, <1>2, <2>1, <2>2, <2>3
       DEF SwapComplete, ManagerType, WorkerType, TimerType, QueueType, ClockType, InboxType,
           timerVars, inboxVars, outsideVars
<1>3. CASE SwapFailed(w)
  <2>1. /\ PhaseType' /\ TimerType' /\ workers' \subseteq Worker
        /\ idle' \in 0 .. Cooldown /\ adminPending' \in Services \cup {None}
    BY <1>0, <1>3, ChainType DEF SwapFailed
  <2>2. queue' \in [Services -> SUBSET Waiter] /\ reply' \in [Reqs -> Seq(Results)]
    BY <1>0, <1>3, FlushType DEF SwapFailed
  <2> QED
    BY <1>0, <1>3, <2>1, <2>2
       DEF SwapFailed, ManagerType, WorkerType, QueueType, ClockType, InboxType, inboxVars,
           outsideVars
<1>4. CASE SwapHealthTimeout(w)
  <2>1. /\ PhaseType' /\ TimerType' /\ workers' \subseteq Worker
        /\ idle' \in 0 .. Cooldown /\ adminPending' \in Services \cup {None}
    BY <1>0, <1>4, ChainType DEF SwapHealthTimeout
  <2>2. queue' \in [Services -> SUBSET Waiter] /\ reply' \in [Reqs -> Seq(Results)]
    BY <1>0, <1>4, FlushType DEF SwapHealthTimeout
  <2>3. stoppers' \in [Stopper -> Nat]
    BY <1>0, <1>4, SpawnedType DEF SwapHealthTimeout
  <2> QED
    BY <1>0, <1>4, <2>1, <2>2, <2>3
       DEF SwapHealthTimeout, ManagerType, WorkerType, QueueType, ClockType, InboxType,
           inboxVars, outsideVars
<1>5. CASE PoolStopped(w)
  <2>1. /\ PhaseType' /\ TimerType' /\ workers' \subseteq Worker
        /\ idle' \in 0 .. Cooldown /\ adminPending' \in Services \cup {None}
    BY <1>0, <1>5, ChainType DEF PoolStopped
  <2> QED
    BY <1>0, <1>5, <2>1
       DEF PoolStopped, ManagerType, WorkerType, QueueType, ClockType, InboxType, inboxVars,
           queueVars, outsideVars
<1> QED
  BY <1>1, <1>2, <1>3, <1>4, <1>5 DEF HandleSwap

LEMMA ChainAfterCompleteType ==
    ASSUME ManagerType, WorkerType, ChainAfterComplete
    PROVE  ManagerType' /\ WorkerType'
<1>0. /\ TRUE \in BOOLEAN /\ active \in Services \cup {None}
      /\ workers \in SUBSET Worker
  BY DEF ManagerType, PhaseType, WorkerType
<1>1. /\ PhaseType' /\ TimerType' /\ workers' \subseteq Worker
      /\ idle' \in 0 .. Cooldown /\ adminPending' \in Services \cup {None}
  BY <1>0, ChainType DEF ChainAfterComplete
<1> QED
  BY <1>1 DEF ChainAfterComplete, ManagerType, WorkerType, QueueType, ClockType, InboxType,
     inboxVars, queueVars, outsideVars

LEMMA HandleTickType ==
    ASSUME ManagerType, WorkerType, NEW t \in ticks, HandleTick(t)
    PROVE  ManagerType' /\ WorkerType'
<1>0. /\ PhaseType /\ TimerType /\ ClockType
      /\ workers \in SUBSET Worker /\ Default \in Services \cup {None}
      /\ None \in Services \cup {None}
  BY PoolAssumption DEF ManagerType, WorkerType
<1>1. PhaseType' /\ TimerType' /\ workers' \subseteq Worker
  <2>1. CASE /\ ticks' = ticks \ {t}
             /\ \/ UNCHANGED <<phaseVars, epochs, cooldownArmed, workers>>
                \/ \E s \in Services \cup {None} : StartSwap(s, workers)
    BY <1>0, <2>1, StartSwapType DEF PhaseType, TimerType, phaseVars
  <2>2. CASE DeferCooldown(t)
    <3>1. /\ (IF AnyQueued(queue) THEN Cooldown ELSE Cooldown - idle) \in Int
          /\ "cooldown" \in Kinds
          /\ ticks \ {t} \in SUBSET ticks
      BY <1>0, PoolAssumption DEF ClockType, Kinds
    <3>2. TimerType'
      BY <1>0, <2>2, <3>1, ArmTimerType DEF DeferCooldown
    <3> QED
      BY <1>0, <2>2, <3>2 DEF DeferCooldown, PhaseType, phaseVars
  <2> QED
    BY <1>0, <2>1, <2>2, OldestType
       DEF HandleTick, StaleTick, GraceTick, RetryTick, CooldownExpired, IdleTick, StartStopAll
<1> QED
  BY <1>1 DEF HandleTick, ManagerType, WorkerType, QueueType, ClockType, InboxType, queueVars,
     clockVars, inboxVars, outsideVars

LEMMA HandleActivityType ==
    ASSUME ManagerType, WorkerType, HandleActivity
    PROVE  ManagerType' /\ WorkerType'
<1>1. ClockType'
  BY TouchType DEF HandleActivity, ManagerType, ClockType
<1>2. activity' \in Seq(Services)
  BY DEF HandleActivity, ManagerType, InboxType
<1> QED
  BY <1>1, <1>2 DEF HandleActivity, ManagerType, WorkerType, PhaseType, TimerType, QueueType,
     InboxType, phaseVars, timerVars, queueVars, outsideVars

LEMMA HandleAdminSwapType ==
    ASSUME DockerType, ManagerType, WorkerType, NEW s \in Services, HandleAdminSwap(s)
    PROVE  DockerType' /\ ManagerType' /\ WorkerType'
<1>0. PhaseType /\ TimerType /\ workers \in SUBSET Worker /\ "admin" \in BudgetKinds
  BY DEF ManagerType, WorkerType, BudgetKinds
<1>1. /\ PhaseType' /\ epochs' \in [Kinds -> Nat] /\ cooldownArmed' \in BOOLEAN
      /\ workers' \subseteq Worker
  BY <1>0, StartSwapType DEF HandleAdminSwap, PhaseType, TimerType, phaseVars
<1>2. adminPending' \in Services \cup {None}
  BY DEF HandleAdminSwap, ManagerType
<1>3. DockerType'
  BY <1>0, SpendType DEF HandleAdminSwap, DockerType
<1> QED
  BY <1>0, <1>1, <1>2, <1>3 DEF HandleAdminSwap, ManagerType, WorkerType, TimerType, QueueType,
     ClockType, InboxType, queueVars, clockVars, inboxVars

LEMMA HandleAdminStopType ==
    ASSUME DockerType, ManagerType, WorkerType, HandleAdminStop
    PROVE  DockerType' /\ ManagerType' /\ WorkerType'
<1>0. /\ PhaseType /\ TimerType /\ QueueType /\ workers \in SUBSET Worker
      /\ "admin" \in BudgetKinds /\ "Shutdown" \in Results
      /\ None \in Services \cup {None}
  BY DEF ManagerType, WorkerType, BudgetKinds, Results
<1>1. /\ PhaseType' /\ epochs' \in [Kinds -> Nat] /\ cooldownArmed' \in BOOLEAN
      /\ workers' \subseteq Worker
  BY <1>0, StartSwapType DEF HandleAdminStop, StartStopAll, PhaseType, TimerType, phaseVars
<1>2. queue' \in [Services -> SUBSET Waiter] /\ reply' \in [Reqs -> Seq(Results)]
  BY <1>0, FlushType DEF HandleAdminStop
<1>3. DockerType'
  BY <1>0, SpendType DEF HandleAdminStop, DockerType
<1> QED
  BY <1>0, <1>1, <1>2, <1>3 DEF HandleAdminStop, ManagerType, WorkerType, TimerType, QueueType,
     ClockType, InboxType, clockVars, inboxVars

LEMMA HandleExternalEventType ==
    ASSUME ManagerType, WorkerType, HandleExternalEvent
    PROVE  ManagerType' /\ WorkerType'
<1> DEFINE e == Head(dockerEv)
<1>0. /\ PhaseType /\ TimerType /\ QueueType /\ workers \in SUBSET Worker
      /\ "DockerError" \in Results /\ "ERROR" \in States
      /\ dockerEv' \in Seq(Event)
      /\ None \in Services \cup {None}
  BY DEF HandleExternalEvent, ManagerType, InboxType, WorkerType, Results, States
<1>1. /\ PhaseType' /\ epochs' \in [Kinds -> Nat] /\ cooldownArmed' \in BOOLEAN
      /\ queue' \in [Services -> SUBSET Waiter] /\ reply' \in [Reqs -> Seq(Results)]
      /\ workers' \subseteq Worker /\ stoppers' \in [Stopper -> Nat]
  <2>1. CASE ActiveDied(e)
    <3>1. queue' \in [Services -> SUBSET Waiter] /\ reply' \in [Reqs -> Seq(Results)]
      BY <1>0, <2>1, FlushType DEF ActiveDied
    <3>2. stoppers' \in [Stopper -> Nat]
      BY <2>1 DEF ActiveDied, WorkerType
    <3>3. CASE \E s \in Services : StartSwap(s, workers)
      BY <1>0, <3>1, <3>2, <3>3, StartSwapType
    <3>4. CASE Become("ERROR", None, None) /\ BumpEpochs /\ UNCHANGED <<opSeq, workers>>
      <4>1. PhaseType'
        BY <1>0, <3>4, BecomeType DEF PhaseType
      <4>2. epochs' \in [Kinds -> Nat]
        BY <1>0, <3>4 DEF BumpEpochs, TimerType
      <4>3. cooldownArmed' \in BOOLEAN
        BY <3>4, Zenon DEF BumpEpochs
      <4> QED
        BY <1>0, <3>1, <3>2, <3>4, <4>1, <4>2, <4>3
    <3> QED
      BY <2>1, <3>3, <3>4, OldestType DEF ActiveDied, ChainNow
  <2>2. CASE TargetDied(e)
    <3>1. queue' \in [Services -> SUBSET Waiter] /\ reply' \in [Reqs -> Seq(Results)]
      BY <1>0, <2>2, FlushType DEF TargetDied
    <3>2. stoppers' \in [Stopper -> Nat]
      BY <2>2 DEF TargetDied, WorkerType
    <3>3. CASE \E s \in Services : StartSwap(s, workers)
      BY <1>0, <3>1, <3>2, <3>3, StartSwapType
    <3>4. CASE /\ Become("ERROR", None, None)
               /\ opSeq' = opSeq + 1
               /\ workers' = Superseded(workers)
               /\ UNCHANGED <<epochs, cooldownArmed>>
      <4>1. PhaseType'
        BY <1>0, <3>4, BecomeType DEF PhaseType
      <4> QED
        BY <1>0, <3>1, <3>2, <3>4, <4>1, SupersededType DEF TimerType
    <3> QED
      BY <2>2, <3>3, <3>4, OldestType DEF TargetDied, ChainNow
  <2>3. CASE UnauthorizedStart(e)
    <3>1. TRUE \in BOOLEAN
      OBVIOUS
    <3>2. stoppers' \in [Stopper -> Nat]
      BY <2>3, <3>1, SpawnedType DEF UnauthorizedStart
    <3> QED
      BY <1>0, <2>3, <3>2 DEF UnauthorizedStart, PhaseType, TimerType, QueueType, phaseVars
  <2>4. CASE IgnoredEvent(e)
    BY <1>0, <2>4 DEF IgnoredEvent, WorkerType, PhaseType, TimerType, QueueType, phaseVars
  <2> QED
    BY <2>1, <2>2, <2>3, <2>4 DEF HandleExternalEvent
<1> QED
  BY <1>0, <1>1 DEF HandleExternalEvent, ManagerType, WorkerType, TimerType, QueueType,
     ClockType, InboxType, clockVars, outsideVars

LEMMA CloseType ==
    ASSUME DockerType, ManagerType, WorkerType, Close \/ Shutdown
    PROVE  DockerType' /\ ManagerType' /\ WorkerType'
<1>0. /\ PhaseType /\ TimerType /\ QueueType
      /\ "close" \in BudgetKinds /\ "Shutdown" \in Results /\ "IDLE" \in States
      /\ None \in Services \cup {None} /\ target \in Services \cup {None}
  BY DEF ManagerType, PhaseType, BudgetKinds, Results, States
<1>1. CASE Close
  <2>1. DockerType'
    BY <1>0, <1>1, SpendType DEF Close, DockerType
  <2> QED
    BY <1>0, <1>1, <2>1 DEF Close, ManagerType, WorkerType, PhaseType, TimerType, QueueType,
       ClockType, InboxType, managerVars, phaseVars, timerVars, queueVars, clockVars, inboxVars
<1>2. CASE Shutdown
  <2>1. PhaseType'
    BY <1>0, <1>2, BecomeType DEF Shutdown, PhaseType
  <2>2. queue' \in [Services -> SUBSET Waiter] /\ reply' \in [Reqs -> Seq(Results)]
    BY <1>0, <1>2, FlushType DEF Shutdown
  <2> QED
    BY <1>0, <1>2, <2>1, <2>2 DEF Shutdown, DockerType, ManagerType, WorkerType, TimerType,
       QueueType, ClockType, InboxType, clockVars, inboxVars, outsideVars, dockerVars
<1> QED
  BY <1>1, <1>2

-----------------------------------------------------------------------------
(* The watcher, the clients, the outside and the clock.                    *)

LEMMA WatcherStepType ==
    ASSUME TypeOK, WatcherNext
    PROVE  DockerType' /\ RegistryType' /\ WorkerType' /\ ManagerType' /\ WatcherType'
<1>0. DockerType /\ RegistryType /\ WorkerType /\ ManagerType /\ WatcherType
  BY DEF TypeOK
<1>1. CASE Route
  <2> DEFINE e == Head(stream)
  <2>1. e \in Event /\ stream' \in Seq(Event)
    BY <1>0, <1>1 DEF Route, DockerType
  <2>2. e.container \in Services
    BY <2>1 DEF Event
  <2>3. RegistryType'
    <3>1. entries[e.container] \in Entry
      BY <1>0, <2>2 DEF RegistryType
    <3>2. Consume(e.container, e.action)
      BY <1>1 DEF Route
    <3> QED
      BY <1>0, <2>2, <3>1, <3>2 DEF Consume, RegistryType, Entry, NoEntry
  <2>4. WatcherType'
    BY <1>1, <2>1 DEF Route, WatcherType
  <2> QED
    BY <1>0, <1>1, <2>1, <2>3, <2>4 DEF Route, DockerType, WorkerType, ManagerType, PhaseType,
       TimerType, QueueType, ClockType, InboxType, workerVars, managerVars, phaseVars,
       timerVars, queueVars, clockVars, inboxVars
<1>2. CASE Notify
  <2>1. Head(held) \in Event
    BY <1>0, <1>2 DEF Notify, WatcherType
  <2>2. dockerEv' \in Seq(Event)
    BY <1>0, <1>2, <2>1 DEF Notify, ManagerType, InboxType
  <2>3. WatcherType'
    BY <1>2 DEF Notify, WatcherType
  <2> QED
    BY <1>0, <1>2, <2>2, <2>3 DEF Notify, DockerType, RegistryType, WorkerType, ManagerType,
       PhaseType, TimerType, QueueType, ClockType, InboxType, dockerVars, workerVars, phaseVars,
       timerVars, queueVars, clockVars
<1>3. CASE Resubscribe
  <2>1. {"subscribe", "fault"} \subseteq BudgetKinds
    BY DEF BudgetKinds
  <2>2. budget' \in [BudgetKinds -> Nat]
    BY <1>0, <1>3, <2>1, SpendType DEF Resubscribe, Subscribe, StreamError
  <2>3. running' \subseteq Services /\ stream' \in Seq(Event)
    <3>1. CASE Subscribe
      BY <1>0, <3>1 DEF Subscribe, DockerType
    <3>2. CASE StreamError
      BY <1>0, <3>2 DEF StreamError, DockerType
    <3> QED
      BY <1>3, <3>1, <3>2 DEF Resubscribe
  <2>4. subscribed' \in BOOLEAN
    BY <1>3, Zenon DEF Resubscribe, Subscribe, StreamError
  <2> QED
    BY <1>0, <1>3, <2>2, <2>3, <2>4 DEF Resubscribe, DockerType, RegistryType, WorkerType,
       ManagerType, WatcherType, PhaseType, TimerType, QueueType, ClockType, InboxType,
       workerVars, managerVars, phaseVars, timerVars, queueVars, clockVars, inboxVars
<1> QED
  BY <1>1, <1>2, <1>3 DEF WatcherNext

LEMMA OutsideStepType ==
    ASSUME TypeOK, OutsideNext
    PROVE  TypeOK'
<1>0. DockerType /\ "external" \in BudgetKinds
  BY DEF TypeOK, BudgetKinds
<1>1. DockerType'
  <2>1. PICK c \in Services : ExternalStart(c) \/ ExternalStop(c)
    BY DEF OutsideNext
  <2> QED
    BY <1>0, <2>1, StartType, StopType, SpendType DEF ExternalStart, ExternalStop, DockerType
<1> QED
  BY <1>1 DEF OutsideNext, TypeOK, RegistryType, WorkerType, ManagerType, WatcherType,
     AdmissionType, PhaseType, TimerType, QueueType, ClockType, InboxType, workerVars,
     managerVars, phaseVars, timerVars, queueVars, clockVars, inboxVars, clientVars

LEMMA TickType ==
    ASSUME TypeOK, Tick
    PROVE  TypeOK'
<1>0. RegistryType /\ TimerType /\ ClockType
  BY DEF TypeOK, ManagerType
<1>1. ticks' \subseteq [kind : Kinds, epoch : Nat, left : Int]
  BY <1>0 DEF Tick, TimerType
<1>2. ClockType'
  BY <1>0, PoolAssumption DEF Tick, Capped, ClockType
<1>3. RegistryType'
  BY <1>0, OpTTLAssumption DEF Tick, AgeEntries, RegistryType, Entry, NoEntry
<1> QED
  BY <1>1, <1>2, <1>3 DEF Tick, TypeOK, DockerType, WorkerType, ManagerType, WatcherType,
     AdmissionType, PhaseType, TimerType, QueueType, InboxType, dockerVars, workerVars,
     phaseVars, queueVars, inboxVars, clientVars

\* Requests know their service from their arrival on.
LEMMA ClientStepType ==
    ASSUME TypeOK, RequestShape, NEW r \in Reqs, ClientNext(r)
    PROVE  TypeOK'
<1>0. /\ DockerType /\ RegistryType /\ WorkerType /\ ManagerType /\ WatcherType
      /\ AdmissionType
      /\ {"Canceled", "Shutdown", "Go"} \subseteq Results \cup {"none", "Canceled"}
  BY DEF TypeOK, Results
<1>1. CASE Arrive(r)
  <2>1. activity' \in Seq(Services)
    <3>1. activity \in Seq(Services)
      BY <1>0 DEF ManagerType, InboxType
    <3>2. PICK s \in Services : activity' = activity \/ activity' = Append(activity, s)
      BY <1>1 DEF Arrive
    <3> QED
      BY <3>1, <3>2
  <2>2. AdmissionType'
    BY <1>0, <1>1 DEF Arrive, Return, AdmissionType, Phases
  <2> QED
    BY <1>0, <1>1, <2>1, <2>2 DEF Arrive, TypeOK, DockerType, RegistryType, WorkerType,
       ManagerType, WatcherType, PhaseType, TimerType, QueueType, ClockType, InboxType,
       poolVars, dockerVars, workerVars, phaseVars, timerVars, queueVars, clockVars
<1>2. CASE Submit(r)
  <2>1. svc[r] \in Services
    BY <1>2 DEF Submit, RequestShape
  <2>2. ManagerType' /\ WorkerType'
    BY <1>0, <1>2, <2>1, HandleAdmitType DEF Submit
  <2>3. AdmissionType'
    BY <1>0, <1>2 DEF Submit, AdmissionType, Phases
  <2> QED
    BY <1>0, <1>2, <2>2, <2>3 DEF Submit, HandleAdmit, TypeOK, DockerType, RegistryType,
       WatcherType, outsideVars, dockerVars
<1>3. CASE Receive(r)
  <2>1. reply[r] \in Seq(Results) /\ reply[r] # << >>
    BY <1>0, <1>3 DEF Receive, ManagerType, QueueType
  <2>2. Head(reply[r]) \in Results
    BY <2>1
  <2>3. AdmissionType'
    BY <1>0, <1>3, <2>2 DEF Receive, Return, AdmissionType, Phases
  <2> QED
    BY <1>0, <1>3, <2>3 DEF Receive, TypeOK, DockerType, RegistryType, WorkerType, ManagerType,
       WatcherType, PhaseType, TimerType, QueueType, ClockType, InboxType, poolVars, dockerVars,
       workerVars, managerVars, phaseVars, timerVars, queueVars, clockVars, inboxVars
<1>4. CASE GiveUp(r)
  <2>1. "cancel" \in BudgetKinds
    BY DEF BudgetKinds
  <2>2. DockerType'
    BY <1>0, <1>4, <2>1, SpendType DEF GiveUp, DockerType
  <2>3. AdmissionType'
    BY <1>0, <1>4 DEF GiveUp, Return, AdmissionType, Phases
  <2> QED
    BY <1>0, <1>4, <2>2, <2>3 DEF GiveUp, TypeOK, RegistryType, WorkerType, ManagerType,
       WatcherType, PhaseType, TimerType, QueueType, ClockType, InboxType,
       workerVars, managerVars, phaseVars, timerVars, queueVars, clockVars, inboxVars
<1>5. CASE Cancel(r)
  <2>1. svc[r] \in Services
    BY <1>5 DEF Cancel, RequestShape
  <2>2. ManagerType' /\ WorkerType'
    BY <1>0, <1>5, <2>1, HandleCancelType DEF Cancel
  <2>3. AdmissionType'
    BY <1>0, <1>5 DEF Cancel, Return, AdmissionType, Phases
  <2> QED
    BY <1>0, <1>5, <2>2, <2>3 DEF Cancel, HandleCancel, TypeOK, DockerType, RegistryType,
       WatcherType, outsideVars, dockerVars
<1>6. CASE Abandon(r)
  <2>1. AdmissionType'
    BY <1>0, <1>6 DEF Abandon, Return, AdmissionType, Phases
  <2> QED
    BY <1>0, <1>6, <2>1 DEF Abandon, TypeOK, DockerType, RegistryType, WorkerType, ManagerType,
       WatcherType, PhaseType, TimerType, QueueType, ClockType, InboxType, poolVars, dockerVars,
       workerVars, managerVars, phaseVars, timerVars, queueVars, clockVars, inboxVars
<1> QED
  BY <1>1, <1>2, <1>3, <1>4, <1>5, <1>6 DEF ClientNext

LEMMA ManagerStepType ==
    ASSUME TypeOK, ManagerNext
    PROVE  TypeOK'
<1>0. DockerType /\ RegistryType /\ WorkerType /\ ManagerType
  BY DEF TypeOK
<1>1. DockerType' /\ RegistryType' /\ ManagerType' /\ WorkerType'
  <2>1. CASE \E w \in workers : HandleSwap(w)
    BY <1>0, <2>1, HandleSwapType DEF HandleSwap, StaleReport, SwapComplete, SwapFailed,
       SwapHealthTimeout, PoolStopped, DockerType, RegistryType, outsideVars, dockerVars
  <2>2. CASE \E t \in ticks : HandleTick(t)
    BY <1>0, <2>2, HandleTickType
       DEF HandleTick, DockerType, RegistryType, outsideVars, dockerVars
  <2>3. CASE HandleActivity
    BY <1>0, <2>3, HandleActivityType
       DEF HandleActivity, DockerType, RegistryType, outsideVars, dockerVars
  <2>4. CASE \E s \in Services : HandleAdminSwap(s)
    BY <1>0, <2>4, HandleAdminSwapType DEF HandleAdminSwap, RegistryType
  <2>5. CASE HandleAdminStop
    BY <1>0, <2>5, HandleAdminStopType DEF HandleAdminStop, RegistryType
  <2>6. CASE HandleExternalEvent
    BY <1>0, <2>6, HandleExternalEventType
       DEF HandleExternalEvent, DockerType, RegistryType, outsideVars, dockerVars
  <2>7. CASE Close \/ Shutdown
    BY <1>0, <2>7, CloseType DEF Close, Shutdown, RegistryType, outsideVars
  <2>8. CASE ChainAfterComplete
    BY <1>0, <2>8, ChainAfterCompleteType
       DEF ChainAfterComplete, DockerType, RegistryType, outsideVars, dockerVars
  <2> QED
    BY <2>1, <2>2, <2>3, <2>4, <2>5, <2>6, <2>7, <2>8 DEF ManagerNext
<1> QED
  BY <1>1 DEF ManagerNext, TypeOK, WatcherType, AdmissionType, clientVars

LEMMA WorkersStepType ==
    ASSUME TypeOK, WorkerShape, WorkersNext
    PROVE  TypeOK'
<1>0. DockerType /\ RegistryType /\ WorkerType
  BY DEF TypeOK
<1>1. DockerType' /\ RegistryType' /\ WorkerType'
  BY <1>0, WorkerStepType, StopperStepType DEF WorkersNext
<1> QED
  BY <1>1 DEF WorkersNext, TypeOK, ManagerType, WatcherType, AdmissionType, PhaseType,
     TimerType, QueueType, ClockType, InboxType, managerVars, phaseVars, timerVars, queueVars,
     clockVars, inboxVars, clientVars
=============================================================================
