-------------------------------- MODULE Pool --------------------------------
(***************************************************************************)
(* One VRAM pool at work: the manager, its workers and stoppers, the       *)
(* events watcher, the request handlers, the Docker daemon and whoever     *)
(* else uses it, the operator, and the clock.                              *)
(***************************************************************************)
EXTENDS Admission

CONSTANT MaxLate    \* how long a due tick may wait for the manager

ASSUME LateAssumption == MaxLate \in Nat

vars == <<dockerVars, entries, workerVars, managerVars, held, clientVars>>

TypeOK ==
    /\ DockerType
    /\ RegistryType
    /\ WorkerType
    /\ ManagerType
    /\ WatcherType
    /\ AdmissionType

Init ==
    /\ DockerInit
    /\ RegistryInit
    /\ WorkerInit
    /\ ManagerInit
    /\ WatcherInit
    /\ AdmissionInit

Capped(n, cap) == IF n < cap THEN n + 1 ELSE n

\* A unit of time passes.  A timer fires when its time has come; a due tick
\* is with the manager before MaxLate more units pass, and a handler takes
\* no time.
Tick ==
    /\ mgr # "chain"
    /\ \A t \in ticks : t.left > -MaxLate
    /\ ticks' = {[t EXCEPT !.left = @ - 1] : t \in ticks}
    /\ sinceStart' = Capped(sinceStart, Grace)
    /\ idle' = Capped(idle, Cooldown)
    /\ AgeEntries
    /\ UNCHANGED <<dockerVars, workerVars, phaseVars, epochs, cooldownArmed, queueVars,
                   inboxVars, adminPending, mgr, held, clientVars>>

ManagerNext ==
    /\ \/ \E w \in workers : HandleSwap(w)
       \/ ChainAfterComplete
       \/ \E t \in ticks : HandleTick(t)
       \/ HandleActivity
       \/ \E s \in Services : HandleAdminSwap(s)
       \/ HandleAdminStop
       \/ HandleExternalEvent
       \/ Close
       \/ Shutdown
    /\ UNCHANGED <<held, clientVars>>

WorkersNext ==
    /\ \/ \E w \in workers : WorkerNext(w)
       \/ \E k \in Stopper : StopperNext(k)
    /\ UNCHANGED <<managerVars, held, clientVars>>

OutsideNext ==
    /\ \E c \in Services : ExternalStart(c) \/ ExternalStop(c)
    /\ UNCHANGED <<entries, workerVars, managerVars, held, clientVars>>

Next ==
    \/ \E r \in Reqs : ClientNext(r)
    \/ ManagerNext
    \/ WorkersNext
    \/ WatcherNext /\ UNCHANGED clientVars
    \/ OutsideNext
    \/ Tick

Spec == Init /\ [][Next]_vars

\* The scheduler runs every goroutine, a select with several ready cases
\* picks each of them eventually, and time passes.  Nothing is assumed of
\* clients (they need not come, nor give up), of the operator, of Docker
\* events from outside, or of failures.
Fairness ==
    /\ \A r \in Reqs :
        /\ WF_vars(Submit(r))
        /\ WF_vars(Receive(r) \/ Abandon(r) \/ Cancel(r))
    /\ WF_vars((\E w \in workers : HandleSwap(w)) /\ UNCHANGED <<held, clientVars>>)
    /\ WF_vars(ChainAfterComplete /\ UNCHANGED <<held, clientVars>>)
    /\ WF_vars((\E t \in ticks : HandleTick(t)) /\ UNCHANGED <<held, clientVars>>)
    /\ WF_vars(HandleActivity /\ UNCHANGED <<held, clientVars>>)
    /\ WF_vars(HandleExternalEvent /\ UNCHANGED <<held, clientVars>>)
    /\ WF_vars(Shutdown /\ UNCHANGED <<held, clientVars>>)
    /\ WF_vars(WorkersNext)
    /\ WF_vars((Route \/ Notify) /\ UNCHANGED clientVars)
    /\ WF_vars(Tick)

FairSpec == Spec /\ Fairness

-----------------------------------------------------------------------------
(* The requests.                                                           *)

\* A reply channel is never sent to twice: its buffer holds one reply, so a
\* second send would block the manager goroutine for good ("buffered(1):
\* manager never blocks sending").
OneReplyEach == \A r \in Reqs : Len(reply[r]) <= 1

\* A request the manager has taken and not answered is in the queue of the
\* service it asked for, whatever swap, timer, cancellation, event, operator
\* command or shutdown came in between: some flush will find it.
NoLostRequest ==
    \A r \in Reqs :
        phase[r] = "wait" /\ reply[r] = << >> => \E w \in queue[svc[r]] : w.req = r

\* A queue holds only requests that still want the service and have no
\* answer, so a client that went away cannot cause a swap for nobody.
NoGhostWaiter ==
    \A s \in Services : \A w \in queue[s] :
        /\ svc[w.req] = s
        /\ reply[w.req] = << >>
        /\ closed \/ phase[w.req] \in {"wait", "giveup"}

\* Nobody waits for something that is not coming: no waiter outlives a
\* transition to IDLE or ERROR, and while another service is active a live
\* grace tick is set, due no later than the grace period's end.
NoStranded ==
    mgr = "run" /\ AnyQueued(queue) =>
        /\ state \in {"ACTIVE", "SWAPPING"}
        /\ state = "ACTIVE" =>
            \E t \in ticks : Live(t) /\ t.kind = "grace" /\ t.left + sinceStart <= Grace

\* The lock-free fast path lets a request through only while the manager
\* itself holds the service active: never on a pool that failed or started to
\* swap before the request looked, nor once shutdown has published IDLE.  (On
\* a pool that was closed but whose manager has not noticed it still does.)
FastPathHonest ==
    [][\A r \in Reqs :
        phase[r] = "idle" /\ phase'[r] = "done" =>
            mgr # "stopped" /\ state = "ACTIVE" /\ active = svc'[r]]_vars

\* Every request that reaches the pool gets an answer.
EveryRequestAnswered ==
    \A r \in Reqs : phase[r] \in {"send", "wait", "giveup"} ~> phase[r] = "done"

-----------------------------------------------------------------------------
(* The state machine and its workers.                                      *)

\* SWAPPING waits for a worker that is there, is not cancelled, works on the
\* manager's target and reports under the current opSeq; and every worker
\* whose context is live is that one.  So no report is taken for another
\* operation's, and SWAPPING cannot get stuck.
WorkerMatchesState ==
    mgr # "stopped" =>
        /\ state = "SWAPPING" /\ ~closed => \E w \in workers : ~w.canceled
        /\ \A w \in workers : ~w.canceled =>
            state = "SWAPPING" /\ w.op = opSeq /\ w.target = target

\* SWAPPING ends, after however many failed swaps.
SwappingEnds == state = "SWAPPING" ~> state # "SWAPPING"

\* Requests for another service do not take a container down before it has
\* had its grace period; only the operator, the container's own death and
\* idleness may.
GraceHonoured ==
    [][state = "ACTIVE" /\ state' = "SWAPPING" /\ AnyQueued(queue')
        /\ budget' = budget /\ dockerEv' = dockerEv
        /\ (mgr = "chain" => adminPending \in {None, active}) => sinceStart >= Grace]_vars

\* SecondsUntilCooldown of buildStatus.
StatusCountdown ==
    IF state = "ACTIVE" /\ cooldownArmed
    THEN IF idle < Cooldown THEN Cooldown - idle ELSE 0
    ELSE -1

\* Status answers for a manager that is gone: no countdown.
Status == IF mgr = "stopped" THEN -1 ELSE StatusCountdown

\* A countdown the status API shows is one that a live tick will act on,
\* within a cooldown period, and never one for the default service.
CountdownIsReal ==
    mgr # "chain" /\ Status >= 0 =>
        /\ active # Default
        /\ \E t \in ticks : Live(t) /\ t.kind = "cooldown" /\ t.left <= Cooldown

\* A pool with a default service does not stay cold: once a swap has failed
\* or the pool was stopped, a live tick will start the default service.
DefaultRetried ==
    mgr = "run" /\ state = "IDLE" /\ opSeq > 0 /\ Default # None /\ Cooldown > 0 =>
        \E t \in ticks : Live(t) /\ t.kind = "cooldown" /\ t.left <= Cooldown

\* No call has failed, no pool was closed under its workers' calls, and
\* nobody else used Docker.
Undisturbed == ~closed /\ \A kind \in {"fault", "external"} : budget[kind] = Budgets[kind]

\* Undisturbed, an ACTIVE pool whose workers have all finished runs no
\* container but the active one, whatever ran at boot and whatever was
\* superseded on the way.
MutexAtRest ==
    state = "ACTIVE" /\ workers = {} /\ Undisturbed => running \subseteq {active}

-----------------------------------------------------------------------------
(* What a pool promises, and that this one keeps it.                       *)

Verdict(r) ==
    CASE reply[r] # << >> -> IF Head(reply[r]) = "Go" THEN "go" ELSE "no"
      [] reply[r] = << >> /\ result[r] = "Go" -> "go"
      [] OTHER -> "none"

Outcome(r) ==
    CASE phase[r] # "done" -> "none"
      [] phase[r] = "done" /\ result[r] = "Go" -> "served"
      [] phase[r] = "done" /\ result[r] = "Canceled" -> "withdrawn"
      [] OTHER -> "refused"

Service == INSTANCE PoolService WITH
    serving <- IF state = "ACTIVE" THEN active ELSE None,
    shut <- closed,
    verdict <- [r \in Reqs |-> Verdict(r)],
    outcome <- [r \in Reqs |-> Outcome(r)]

\* The pool with its queues, timers, workers, cancellations and Docker events
\* implements the abstract service: it serves one service at a time, decides
\* each request once, and says "go" only while it serves what was asked for.
ImplementsService == Service!Spec

-----------------------------------------------------------------------------
(* What the proofs carry along: the facts about the parts that make the    *)
(* properties above inductive.                                             *)

\* A worker at a Docker call knows its container, and only doSwap reports a
\* swap.
Shaped(w) ==
    /\ w.pc \in {"stop", "confirm"} => w.at \in Services
    /\ w.pc \in {"start", "started", "probe"} => w.target \in Services
    /\ w.res \in {"complete", "failed", "timeout"} => w.target \in Services

WorkerShape == \A w \in workers : Shaped(w)

\* Workers have their operations to themselves, and a worker is cancelled
\* exactly when opSeq has moved on.
WorkerIdentity ==
    /\ \A v, w \in workers : v.op = w.op => v = w
    /\ \A w \in workers : w.op <= opSeq
    /\ \A w \in workers : w.canceled => w.op < opSeq

\* A request that has not reached the manager is unknown to it, and only the
\* closing of the pool lets a queued request leave on its own.
RequestShape ==
    /\ \A r \in Reqs : phase[r] \in {"idle", "send"} => reply[r] = << >>
    /\ \A s \in Services : \A w \in queue[s] : phase[w.req] \in {"wait", "giveup", "done"}
    /\ \A r \in Reqs : phase[r] # "idle" => svc[r] \in Services

RequestInv == RequestShape /\ OneReplyEach /\ NoLostRequest /\ NoGhostWaiter

\* The snapshot is what the manager holds.
SnapshotFresh ==
    /\ snap = [state |-> state, active |-> active]
    /\ mgr = "stopped" => state = "IDLE"

\* What chainAfterTerminal finds after a completed swap.
ChainInv == mgr = "chain" => state = "ACTIVE" /\ target = None /\ sinceStart = 0

WorkerInv == WorkerShape /\ WorkerIdentity /\ WorkerMatchesState

Inv == TypeOK /\ SnapshotFresh /\ ChainInv /\ WorkerInv /\ RequestInv /\ NoStranded

\* No timer is live during a swap: startSwap bumps both epochs, and no tick
\* is ahead of its kind's.
QuietSwap ==
    /\ \A t \in ticks : t.epoch <= epochs[t.kind]
    /\ state = "SWAPPING" \/ mgr = "chain" => ~cooldownArmed /\ \A t \in ticks : ~Live(t)

\* A live grace tick is not due before the grace period's end.
GraceNotEarly ==
    mgr = "run" /\ state = "ACTIVE" =>
        \A t \in ticks : Live(t) /\ t.kind = "grace" =>
            sinceStart = Grace \/ t.left + sinceStart >= Grace

CooldownTick(t) == Live(t) /\ t.kind = "cooldown" /\ t.left <= Cooldown

\* cooldownArmed says whether there is a cooldown tick to come.
ArmedInv ==
    /\ \A t \in ticks : Live(t) /\ t.kind = "cooldown" => cooldownArmed
    /\ mgr = "run" /\ state = "ACTIVE" /\ cooldownArmed =>
        active # Default /\ \E t \in ticks : CooldownTick(t)

TimerInv == QuietSwap /\ GraceNotEarly /\ ArmedInv /\ DefaultRetried

\* A worker sweeps only what is not its target, all of it before it starts
\* the target.
Sweeping(w) ==
    /\ w.target \notin w.todo
    /\ w.pc \in {"start", "started", "probe", "report"} => w.todo = {}
    /\ w.pc \in {"stop", "confirm"} /\ ~w.canceled => w.at \in w.todo

\* A worker whose report will not make the pool ACTIVE.
WontComplete(w) == w.target = None \/ (w.pc = "report" /\ w.res \in {"failed", "timeout"})

\* Container c is in w's hands.  The swap in flight answers for its target,
\* for what it has yet to sweep and, if it comes to nothing, for all, which
\* the next swap sweeps; a superseded worker will stop what it has started.
Tends(w, c) ==
    IF w.canceled
    THEN w.target = c /\ (w.pc = "started" \/ (w.pc = "stop" /\ w.at = c))
    ELSE c = w.target \/ c \in w.todo \/ WontComplete(w)

\* c is the active container or in somebody's hands.
LookedAfter(c) == (state = "ACTIVE" /\ c = active) \/ \E w \in workers : Tends(w, c)

\* Nothing is given back to a budget.
NoRefund == \A k \in BudgetKinds : budget[k] <= Budgets[k]

SweepInv == \A w \in workers : Sweeping(w)

\* Undisturbed, a pool that serves or swaps has no container that runs and is
\* nobody's.
NoOrphan ==
    Undisturbed /\ state \in {"ACTIVE", "SWAPPING"} => \A c \in running : LookedAfter(c)

ContainerInv == NoRefund /\ SweepInv /\ NoOrphan

-----------------------------------------------------------------------------
(* What the documentation and the comments say, and the code does not do.  *)

\* PRD 3.2: only one service of a pool may be running at any moment; here
\* from the first swap's completion on, so that what ran at boot is excused.
MutualExclusion ==
    Undisturbed /\ state = "ACTIVE" => running \subseteq {active}

\* pool.go on supersedeWorker: "a superseded worker cannot mutate Docker
\* state out from under its replacement".
SupersededWorkersHarmless ==
    [][\A w \in workers :
        w.canceled /\ w \notin workers' /\ w.at \in running \ running'
            => w.at \notin {target, active}]_vars

\* cooldown_test.go: a pool whose waiters cancel "must still go cold instead
\* of staying warm forever".
WarmPoolGoesCold ==
    mgr = "run" /\ state = "ACTIVE" /\ ~AnyQueued(queue) /\ Cooldown > 0 /\ active # Default
        => \E t \in ticks : Live(t) /\ t.kind = "cooldown"

\* events.go on opRegistry: an operation's "resulting event can therefore
\* never observe a missing entry": with nobody else using Docker, no event is
\* ever taken for an external one.
SelfEventsExplained == budget["external"] = Budgets["external"] => held = << >>

\* pool.go on adminPending: an "operator-requested swap chained behind one in
\* flight".
AdminPendingChained == mgr = "run" /\ adminPending # None => state = "SWAPPING"
=============================================================================
