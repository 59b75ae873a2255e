---------------------------- MODULE PoolManager -----------------------------
(***************************************************************************)
(* The manager goroutine of a pool (orchestrator/pool.go, queue.go and the *)
(* reconciliation half of events.go).  One action per case of the select   *)
(* in Pool.run; a handler runs to its end before the next message is       *)
(* taken, so each is one step.  The exception is a completed swap: the     *)
(* snapshot it publishes can be read before chainAfterTerminal publishes   *)
(* the next one.                                                           *)
(***************************************************************************)
EXTENDS SwapWorker

CONSTANTS
    Reqs,          \* the requests, each with a reply channel of its own
    Grace,         \* grace_period, in ticks
    Cooldown,      \* cooldown, in ticks; 0 disables it
    Default,       \* default_service, None for a cold pool
    MaxQueue,      \* max_queue of each service
    EventCap,      \* capacity of dockerEv
    ActivityCap    \* capacity of activity

ASSUME PoolAssumption ==
    /\ Grace \in Nat
    /\ Cooldown \in Nat
    /\ Default \in Services \cup {None}
    /\ MaxQueue \in Nat
    /\ EventCap \in Nat
    /\ ActivityCap \in Nat

VARIABLES
    state, active, target,      \* the state machine; None is ""
    snap,                       \* the published snapshot
    opSeq,                      \* identifies the current worker
    adminPending,               \* the operator's swap chained behind one in flight
    queue,                      \* queue[s]: the waiters of service s
    seq,                        \* the last waiter's number
    reply,                      \* reply[r]: all that was ever sent to r
    epochs,                     \* the current epoch of each timer kind
    ticks,                      \* the AfterFuncs set and the ticks in channel `timers'
    cooldownArmed,
    sinceStart,                 \* time since startedAt, at most Grace
    idle,                       \* time since lastActivity, at most Cooldown
    dockerEv, activity,         \* the channels of those names
    mgr                         \* "run" in its loop, "chain" in chainAfterTerminal
                                \* after a completed swap, "stopped" after it

phaseVars == <<state, active, target, snap, opSeq>>
timerVars == <<epochs, ticks, cooldownArmed>>
queueVars == <<queue, seq, reply>>
clockVars == <<sinceStart, idle>>
inboxVars == <<dockerEv, activity>>
managerVars == <<phaseVars, timerVars, queueVars, clockVars, inboxVars, adminPending, mgr>>
outsideVars == <<dockerVars, entries, closed>>

States == {"IDLE", "ACTIVE", "SWAPPING", "ERROR"}
Kinds == {"grace", "cooldown"}
Results == {"Go", "QueueFull", "DockerError", "StartupTimeout", "Shutdown"}
Waiter == [req : Reqs, seq : Nat]

PhaseType ==
    /\ state \in States
    /\ active \in Services \cup {None}
    /\ target \in Services \cup {None}
    /\ snap \in [state : States, active : Services \cup {None}]
    /\ opSeq \in Nat

TimerType ==
    /\ epochs \in [Kinds -> Nat]
    /\ ticks \subseteq [kind : Kinds, epoch : Nat, left : Int]
    /\ cooldownArmed \in BOOLEAN

QueueType ==
    /\ queue \in [Services -> SUBSET Waiter]
    /\ seq \in Nat
    /\ reply \in [Reqs -> Seq(Results)]

ClockType == sinceStart \in 0 .. Grace /\ idle \in 0 .. Cooldown

InboxType == dockerEv \in Seq(Event) /\ activity \in Seq(Services)

ManagerType ==
    /\ PhaseType /\ TimerType /\ QueueType /\ ClockType /\ InboxType
    /\ adminPending \in Services \cup {None}
    /\ mgr \in {"run", "chain", "stopped"}

\* NewPool: IDLE, whatever runs.
ManagerInit ==
    /\ state = "IDLE" /\ active = None /\ target = None
    /\ snap = [state |-> "IDLE", active |-> None]
    /\ opSeq = 0
    /\ adminPending = None
    /\ queue = [s \in Services |-> {}]
    /\ seq = 0
    /\ reply = [r \in Reqs |-> << >>]
    /\ epochs = [k \in Kinds |-> 0]
    /\ ticks = {}
    /\ cooldownArmed = FALSE
    /\ sinceStart = Grace /\ idle = Cooldown
    /\ dockerEv = << >> /\ activity = << >>
    /\ mgr = "run"

-----------------------------------------------------------------------------
(* The queues.  A queue is filled in the order of seq, so the set of its   *)
(* waiters says what the slice does.                                       *)

QueueFull(s) == Cardinality(queue[s]) >= MaxQueue

\* Mutant: removes the head waiter, whoever it is.
RemoveHead(s, r) ==
    queue' = [queue EXCEPT ![s] = {w \in @ : \E v \in @ : v.seq < w.seq}]

\* removeByReply: the reply channel identifies the waiter.
RemoveByReply(s, r) ==
    queue' = [queue EXCEPT ![s] = {w \in @ : w.req # r}]

Flushed(q, S) == [s \in Services |-> IF s \in S THEN {} ELSE q[s]]

\* Mutant: the queue is not emptied.
FlushKeepsQueue(S, result) ==
    /\ queue' = queue
    /\ reply' = [r \in Reqs |->
                    IF \E s \in S : \E w \in queue[s] : w.req = r
                    THEN Append(reply[r], result)
                    ELSE reply[r]]

\* Mutant: the queue is emptied and nobody told.
FlushSilently(S, result) ==
    /\ queue' = Flushed(queue, S)
    /\ reply' = reply

\* flush, for the services in S.
Flush(S, result) ==
    /\ queue' = Flushed(queue, S)
    /\ reply' = [r \in Reqs |->
                    IF \E s \in S : \E w \in queue[s] : w.req = r
                    THEN Append(reply[r], result)
                    ELSE reply[r]]

AnyQueued(q) == \E s \in Services : q[s] # {}

\* The service whose head waiter has the lowest seq.
OldestQueued(q) ==
    {s \in Services : \E w \in q[s] :
        \A t \in Services : \A v \in q[t] : w.seq <= v.seq}

-----------------------------------------------------------------------------
(* The timers.                                                             *)

\* Mutant: the tick carries the epoch it supersedes.
ArmStale(kind, d, pending) ==
    /\ epochs' = [epochs EXCEPT ![kind] = @ + 1]
    /\ ticks' = pending \cup {[kind |-> kind, epoch |-> epochs[kind], left |-> d]}
    /\ cooldownArmed' = (cooldownArmed \/ kind = "cooldown")

\* Mutant: one epoch for both kinds, so that arming one timer disarms the other.
ArmSharedEpoch(kind, d, pending) ==
    /\ epochs' = [k \in Kinds |-> epochs[k] + 1]
    /\ ticks' = pending \cup {[kind |-> kind, epoch |-> epochs[kind] + 1, left |-> d]}
    /\ cooldownArmed' = (cooldownArmed \/ kind = "cooldown")

\* `pending' is what is left of ticks once the message at hand is taken.
ArmTimer(kind, d, pending) ==
    /\ epochs' = [epochs EXCEPT ![kind] = @ + 1]
    /\ ticks' = pending \cup {[kind |-> kind, epoch |-> epochs[kind] + 1, left |-> d]}
    /\ cooldownArmed' = (cooldownArmed \/ kind = "cooldown")

BumpEpochs ==
    /\ epochs' = [k \in Kinds |-> epochs[k] + 1]
    /\ cooldownArmed' = FALSE

Live(t) == t.epoch = epochs[t.kind]

\* Mutant: stores the moment the cooldown would end.
TouchStoresDeadline(s) ==
    idle' = IF state = "ACTIVE" /\ active = s THEN -Cooldown ELSE idle

\* touch: lastActivity moves only for the active service.
Touch(s) == idle' = IF state = "ACTIVE" /\ active = s THEN 0 ELSE idle

-----------------------------------------------------------------------------
(* Transitions.                                                            *)

\* Mutant: publishes before it moves.
PublishFirst(st, act, tgt) ==
    /\ state' = st
    /\ active' = act
    /\ target' = tgt
    /\ snap' = [state |-> state, active |-> active]

\* Every transition ends in publish.
Become(st, act, tgt) ==
    /\ state' = st
    /\ active' = act
    /\ target' = tgt
    /\ snap' = [state |-> st, active |-> act]

\* Mutant: the context is not cancelled.
NotCancelled(ws) == ws

\* supersedeWorker, on the workers in ws.
Superseded(ws) == CancelOp(ws, opSeq)

\* startSwap, and with s = None startStopAll.
StartSwap(s, ws) ==
    /\ Become("SWAPPING", None, s)
    /\ BumpEpochs
    /\ opSeq' = opSeq + 1
    /\ workers' = Superseded(ws) \cup {NewWorker(opSeq + 1, s)}

StartStopAll(ws) == StartSwap(None, ws)

\* chainAfterTerminal, once the queues are q and the workers ws: the
\* operator's swap, else the longest-waiting service, else a countdown.
ChainAfterTerminal(activated, act, q, ws) ==
    /\ adminPending' = None
    /\ \/ /\ adminPending \notin {None, act}
          /\ StartSwap(adminPending, ws)
          /\ UNCHANGED <<ticks, idle>>
       \/ /\ adminPending \in {None, act}
          /\ AnyQueued(q)
          /\ ~(activated /\ Grace > 0)
          /\ \E s \in OldestQueued(q) : StartSwap(s, ws)
          /\ UNCHANGED <<ticks, idle>>
       \/ /\ adminPending \in {None, act}
          /\ AnyQueued(q) => activated /\ Grace > 0
          /\ Become(IF activated THEN "ACTIVE" ELSE "IDLE", act, None)
          /\ workers' = ws
          /\ UNCHANGED opSeq
          /\ CASE AnyQueued(q) ->
                    ArmTimer("grace", Grace, ticks) /\ UNCHANGED idle
               [] ~AnyQueued(q) /\ activated /\ Cooldown > 0 /\ act # Default ->
                    ArmTimer("cooldown", Cooldown, ticks) /\ idle' = 0
               [] ~AnyQueued(q) /\ ~activated /\ Cooldown > 0 /\ Default # None ->
                    ArmTimer("cooldown", Cooldown, ticks) /\ UNCHANGED idle
               [] OTHER -> UNCHANGED <<timerVars, idle>>

-----------------------------------------------------------------------------
(* handleAdmit: r asks for service s, which the router took from the       *)
(* pool's own members.                                                     *)

AdmitNow(s, r) ==
    /\ state = "ACTIVE" /\ active = s
    /\ reply' = [reply EXCEPT ![r] = Append(@, "Go")]
    /\ Touch(s)
    /\ UNCHANGED <<phaseVars, timerVars, queue, seq, sinceStart, workers>>

AdmitFull(s, r) ==
    /\ ~(state = "ACTIVE" /\ active = s)
    /\ QueueFull(s)
    /\ seq' = seq + 1
    /\ reply' = [reply EXCEPT ![r] = Append(@, "QueueFull")]
    /\ UNCHANGED <<phaseVars, timerVars, queue, clockVars, workers>>

\* Mutant: the grace period is not looked at.
SwapAtOnce == state # "SWAPPING"

\* Does a queued request start a swap right away?
SwapNow == state \in {"IDLE", "ERROR"} \/ (state = "ACTIVE" /\ sinceStart >= Grace)

AdmitQueued(s, r) ==
    /\ ~(state = "ACTIVE" /\ active = s)
    /\ ~QueueFull(s)
    /\ seq' = seq + 1
    /\ queue' = [queue EXCEPT ![s] = @ \cup {[req |-> r, seq |-> seq + 1]}]
    /\ \/ /\ SwapNow
          /\ StartSwap(s, workers)
          /\ UNCHANGED ticks
       \/ /\ state = "ACTIVE" /\ ~SwapNow
          /\ ArmTimer("grace", Grace - sinceStart, ticks)
          /\ UNCHANGED <<phaseVars, workers>>
       \/ /\ state = "SWAPPING"
          /\ UNCHANGED <<phaseVars, timerVars, workers>>
    /\ UNCHANGED <<reply, clockVars>>

HandleAdmit(s, r) ==
    /\ mgr = "run"
    /\ AdmitNow(s, r) \/ AdmitFull(s, r) \/ AdmitQueued(s, r)
    /\ UNCHANGED <<inboxVars, adminPending, mgr, outsideVars, stoppers>>

\* Mutant: the waiter stays.
CancelIgnored(s, r) ==
    /\ mgr = "run"
    /\ UNCHANGED <<managerVars, outsideVars, workers, stoppers>>

\* cancelCmd
HandleCancel(s, r) ==
    /\ mgr = "run"
    /\ RemoveByReply(s, r)
    /\ UNCHANGED <<phaseVars, timerVars, seq, reply, clockVars, inboxVars, adminPending,
                   mgr, outsideVars, workers, stoppers>>

-----------------------------------------------------------------------------
(* handleSwap: the report of worker w.                                     *)

Reported(w) == mgr = "run" /\ w.pc = "report"

StaleReport(w) ==
    /\ Reported(w)
    /\ w.op # opSeq
    /\ workers' = workers \ {w}
    /\ UNCHANGED <<managerVars, outsideVars, stoppers>>

\* Mutant: everybody is told to go, not only who waits for the target.
SwapCompleteFlushesAll(w) ==
    /\ Reported(w)
    /\ w.op = opSeq /\ w.res = "complete"
    /\ Become("ACTIVE", w.target, None)
    /\ sinceStart' = 0
    /\ Flush(Services, "Go")
    /\ workers' = workers \ {w}
    /\ mgr' = "chain"
    /\ UNCHANGED <<opSeq, timerVars, seq, idle, inboxVars, adminPending, outsideVars, stoppers>>

\* ACTIVE is published, and the fast path open, before the next decision.
SwapComplete(w) ==
    /\ Reported(w)
    /\ w.op = opSeq /\ w.res = "complete"
    /\ Become("ACTIVE", w.target, None)
    /\ sinceStart' = 0
    /\ Flush({w.target}, "Go")
    /\ workers' = workers \ {w}
    /\ mgr' = "chain"
    /\ UNCHANGED <<opSeq, timerVars, seq, idle, inboxVars, adminPending, outsideVars, stoppers>>

ChainAfterComplete ==
    /\ mgr = "chain"
    /\ mgr' = "run"
    /\ ChainAfterTerminal(TRUE, active, queue, workers)
    /\ UNCHANGED <<queueVars, sinceStart, inboxVars, outsideVars, stoppers>>

SwapFailed(w) ==
    /\ Reported(w)
    /\ w.op = opSeq /\ w.res = "failed"
    /\ Flush({w.target}, "DockerError")
    /\ ChainAfterTerminal(FALSE, None, Flushed(queue, {w.target}), workers \ {w})
    /\ UNCHANGED <<seq, sinceStart, inboxVars, mgr, outsideVars, stoppers>>

SwapHealthTimeout(w) ==
    /\ Reported(w)
    /\ w.op = opSeq /\ w.res = "timeout"
    /\ stoppers' = Spawned(w.target, FALSE)
    /\ Flush({w.target}, "StartupTimeout")
    /\ ChainAfterTerminal(FALSE, None, Flushed(queue, {w.target}), workers \ {w})
    /\ UNCHANGED <<seq, sinceStart, inboxVars, mgr, outsideVars>>

PoolStopped(w) ==
    /\ Reported(w)
    /\ w.op = opSeq /\ w.res = "stopped"
    /\ ChainAfterTerminal(FALSE, None, queue, workers \ {w})
    /\ UNCHANGED <<queueVars, sinceStart, inboxVars, mgr, outsideVars, stoppers>>

HandleSwap(w) ==
    StaleReport(w) \/ SwapComplete(w) \/ SwapFailed(w) \/ SwapHealthTimeout(w) \/ PoolStopped(w)

-----------------------------------------------------------------------------
(* handleTick: tick t has reached channel `timers'.                        *)

StaleTick(t) ==
    /\ ~Live(t)
    /\ ticks' = ticks \ {t}
    /\ UNCHANGED <<phaseVars, epochs, cooldownArmed, workers>>

GraceTick(t) ==
    /\ Live(t) /\ t.kind = "grace"
    /\ ticks' = ticks \ {t}
    /\ IF state = "ACTIVE" /\ AnyQueued(queue)
       THEN \E s \in OldestQueued(queue) : StartSwap(s, workers)
       ELSE UNCHANGED <<phaseVars, epochs, cooldownArmed, workers>>

\* The default service is retried after a failure left the pool cold.
RetryTick(t) ==
    /\ Live(t) /\ t.kind = "cooldown" /\ state = "IDLE"
    /\ ticks' = ticks \ {t}
    /\ IF Default # None /\ ~AnyQueued(queue)
       THEN StartSwap(Default, workers)
       ELSE UNCHANGED <<phaseVars, epochs, cooldownArmed, workers>>

\* Deferred while a request is queued, extended while there was traffic.
DeferCooldown(t) ==
    /\ Live(t) /\ t.kind = "cooldown" /\ state = "ACTIVE"
    /\ AnyQueued(queue) \/ idle < Cooldown
    /\ ArmTimer("cooldown", IF AnyQueued(queue) THEN Cooldown ELSE Cooldown - idle, ticks \ {t})
    /\ UNCHANGED <<phaseVars, workers>>

CooldownExpired(t) ==
    /\ Live(t) /\ t.kind = "cooldown" /\ state = "ACTIVE"
    /\ ~AnyQueued(queue) /\ idle >= Cooldown
    /\ ticks' = ticks \ {t}
    /\ IF Default = None THEN StartStopAll(workers)
       ELSE IF active # Default THEN StartSwap(Default, workers)
       ELSE UNCHANGED <<phaseVars, epochs, cooldownArmed, workers>>

\* Never act on timers mid-swap.
IdleTick(t) ==
    /\ Live(t) /\ t.kind = "cooldown" /\ state \in {"SWAPPING", "ERROR"}
    /\ ticks' = ticks \ {t}
    /\ UNCHANGED <<phaseVars, epochs, cooldownArmed, workers>>

HandleTick(t) ==
    /\ mgr = "run"
    /\ t.left <= 0
    /\ \/ StaleTick(t) \/ GraceTick(t) \/ RetryTick(t)
       \/ DeferCooldown(t) \/ CooldownExpired(t) \/ IdleTick(t)
    /\ UNCHANGED <<queueVars, clockVars, inboxVars, adminPending, mgr, outsideVars, stoppers>>

\* A fast-path ping.
HandleActivity ==
    /\ mgr = "run"
    /\ activity # << >>
    /\ Touch(Head(activity))
    /\ activity' = Tail(activity)
    /\ UNCHANGED <<phaseVars, timerVars, queueVars, sinceStart, dockerEv, adminPending, mgr,
                   outsideVars, workers, stoppers>>

-----------------------------------------------------------------------------
(* The operator's commands.                                                *)

HandleAdminSwap(s) ==
    /\ mgr = "run"
    /\ Spend("admin")
    /\ \/ /\ state = "SWAPPING"
          /\ adminPending' = IF target = s THEN adminPending ELSE s
          /\ UNCHANGED <<phaseVars, epochs, cooldownArmed, workers>>
       \/ /\ state # "SWAPPING" /\ ~(state = "ACTIVE" /\ active = s)
          /\ StartSwap(s, workers)
          /\ UNCHANGED adminPending
       \/ /\ state = "ACTIVE" /\ active = s
          /\ UNCHANGED <<phaseVars, epochs, cooldownArmed, workers, adminPending>>
    /\ UNCHANGED <<ticks, queueVars, clockVars, inboxVars, mgr,
                   running, stream, subscribed, entries, stoppers, closed>>

\* Mutant: a cold pool is disarmed as well.
AdminStopDisarms ==
    /\ mgr = "run"
    /\ Spend("admin")
    /\ adminPending' = None
    /\ Flush(Services, "Shutdown")
    /\ IF state = "IDLE"
       THEN BumpEpochs /\ UNCHANGED <<phaseVars, workers>>
       ELSE StartStopAll(workers)
    /\ UNCHANGED <<ticks, seq, clockVars, inboxVars, mgr,
                   running, stream, subscribed, entries, stoppers, closed>>

HandleAdminStop ==
    /\ mgr = "run"
    /\ Spend("admin")
    /\ adminPending' = None
    /\ Flush(Services, "Shutdown")
    /\ IF state = "IDLE"
       THEN UNCHANGED <<phaseVars, epochs, cooldownArmed, workers>>
       ELSE StartStopAll(workers)
    /\ UNCHANGED <<ticks, seq, clockVars, inboxVars, mgr,
                   running, stream, subscribed, entries, stoppers, closed>>

-----------------------------------------------------------------------------
(* handleExternalEvent: a container changed and no operation of ours       *)
(* explains it.                                                            *)

Died(e) == e.action \in {"die", "stop", "kill"}

\* startSwap for the longest-waiting service, if anyone waits.
ChainNow(q, ws) == \E s \in OldestQueued(q) : StartSwap(s, ws)

\* Mutant: no chainNow.
ActiveDiedUnchained(e) ==
    /\ Died(e) /\ state = "ACTIVE" /\ active = e.container
    /\ Flush({e.container}, "DockerError")
    /\ Become("ERROR", None, None)
    /\ BumpEpochs
    /\ UNCHANGED <<opSeq, workers, stoppers>>

\* ERROR and disarm; waiters of other services recover at once.  (The code
\* bumps the epochs once more in startSwap: either way no tick stays live.)
ActiveDied(e) ==
    LET q == Flushed(queue, {e.container}) IN
    /\ Died(e) /\ state = "ACTIVE" /\ active = e.container
    /\ Flush({e.container}, "DockerError")
    /\ \/ ChainNow(q, workers)
       \/ /\ ~AnyQueued(q)
          /\ Become("ERROR", None, None)
          /\ BumpEpochs
          /\ UNCHANGED <<opSeq, workers>>
    /\ UNCHANGED stoppers

\* The worker is superseded, by nobody unless chainNow starts another.
TargetDied(e) ==
    LET q == Flushed(queue, {e.container}) IN
    /\ Died(e) /\ state = "SWAPPING" /\ target = e.container
    /\ Flush({e.container}, "DockerError")
    /\ \/ ChainNow(q, workers)
       \/ /\ ~AnyQueued(q)
          /\ Become("ERROR", None, None)
          /\ opSeq' = opSeq + 1
          /\ workers' = Superseded(workers)
          /\ UNCHANGED <<epochs, cooldownArmed>>
    /\ UNCHANGED stoppers

\* Tolerated: the target of the swap in flight, and the active container.
Authorized(c) ==
    \/ state = "SWAPPING" /\ target = c
    \/ state = "ACTIVE" /\ active = c

UnauthorizedStart(e) ==
    /\ e.action = "start" /\ ~Authorized(e.container)
    /\ stoppers' = Spawned(e.container, TRUE)
    /\ UNCHANGED <<phaseVars, epochs, cooldownArmed, queue, reply, workers>>

IgnoredEvent(e) ==
    /\ IF Died(e) THEN ~Authorized(e.container) ELSE Authorized(e.container)
    /\ UNCHANGED <<phaseVars, epochs, cooldownArmed, queue, reply, workers, stoppers>>

HandleExternalEvent ==
    /\ mgr = "run"
    /\ dockerEv # << >>
    /\ dockerEv' = Tail(dockerEv)
    /\ \/ ActiveDied(Head(dockerEv)) \/ TargetDied(Head(dockerEv))
       \/ UnauthorizedStart(Head(dockerEv)) \/ IgnoredEvent(Head(dockerEv))
    /\ UNCHANGED <<ticks, seq, clockVars, activity, adminPending, mgr, outsideVars>>

-----------------------------------------------------------------------------
(* Close, and the manager's last step.                                     *)

Close ==
    /\ ~closed
    /\ Spend("close")
    /\ closed' = TRUE
    /\ UNCHANGED <<managerVars, running, stream, subscribed, entries, workers, stoppers>>

\* The ticks still to come find `done' closed and go nowhere.
Shutdown ==
    /\ closed
    /\ mgr = "run"
    /\ mgr' = "stopped"
    /\ Become("IDLE", None, target)
    /\ Flush(Services, "Shutdown")
    /\ ticks' = {}
    /\ UNCHANGED <<opSeq, epochs, cooldownArmed, seq, clockVars, inboxVars, adminPending,
                   outsideVars, workers, stoppers>>
=============================================================================
