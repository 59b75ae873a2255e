----------------------------- MODULE SwapWorker -----------------------------
(***************************************************************************)
(* The goroutines that touch containers for a pool (orchestrator/swap.go   *)
(* and the detached teardowns of pool.go and events.go):                   *)
(*   - swap workers (doSwap) and cold-stop workers (doStopAll), several at *)
(*     a time, because a superseded one runs on until it notices;          *)
(*   - detached stoppers, which stop one container and tell nobody.        *)
(* A worker's terminal report is a worker whose pc is "report": channel    *)
(* `swaps' and the workers blocked in deliver taken together.              *)
(***************************************************************************)
EXTENDS OpRegistry

CONSTANT Rank    \* the name order sortedMembers sorts by

ASSUME RankAssumption ==
    /\ Rank \in [Services -> Nat]
    /\ \A s, t \in Services : Rank[s] = Rank[t] => s = t

VARIABLES
    workers,     \* the doSwap and doStopAll goroutines
    stoppers,    \* how many detached stoppers are at each point
    closed       \* is channel `done' closed?

workerVars == <<workers, stoppers, closed>>

Outcomes == {"complete", "failed", "timeout", "stopped"}

\* target is None in doStopAll; canceled is the state of the swap context;
\* todo is what the sweep has yet to look at; at is the container in
\* stopAndConfirm.
Worker ==
    [op : Nat, target : Services \cup {None}, canceled : BOOLEAN,
     pc : {"sweep", "stop", "confirm", "start", "started", "probe", "report"},
     todo : SUBSET Services, at : Services \cup {None},
     res : Outcomes \cup {"none"}]

\* forced: spawned by forceStop, not by handleSwap's teardown.
Stopper == [container : Services, forced : BOOLEAN, pc : {"begin", "stop"}]

WorkerType ==
    /\ workers \subseteq Worker
    /\ stoppers \in [Stopper -> Nat]
    /\ closed \in BOOLEAN

WorkerInit ==
    /\ workers = {}
    /\ stoppers = [k \in Stopper |-> 0]
    /\ closed = FALSE

\* Mutant: the worker is spawned before supersedeWorker moves opSeq on.
NewWorkerOldOp(op, target) ==
    [op |-> op - 1, target |-> target, canceled |-> FALSE, pc |-> "sweep",
     todo |-> Services \ {target}, at |-> None, res |-> "none"]

\* A doSwap worker sweeps the other containers, a doStopAll worker all.
NewWorker(op, target) ==
    [op |-> op, target |-> target, canceled |-> FALSE, pc |-> "sweep",
     todo |-> Services \ {target}, at |-> None, res |-> "none"]

\* The swap context of the worker that runs operation op is cancelled.
CancelOp(ws, op) == {[w EXCEPT !.canceled = @ \/ w.op = op] : w \in ws}

Spawned(container, forced) ==
    [stoppers EXCEPT ![[container |-> container, forced |-> forced, pc |-> "begin"]] = @ + 1]

\* The container of S that sortedMembers lists first.
First(S) == {c \in S : \A d \in S : Rank[c] <= Rank[d]}

Step(w, next) == workers' = (workers \ {w}) \cup {next}

Report(w, res) ==
    Step(w, [w EXCEPT !.pc = "report", !.todo = {}, !.at = None, !.res = res])

FailureOf(w) == IF w.target = None THEN "stopped" ELSE "failed"

\* A Docker call errs: the daemon misbehaves or the call's deadline passes,
\* or the pool is closed, which cancels every opCtx.
CallFails ==
    \/ Spend("fault")
    \/ closed /\ UNCHANGED budget

-----------------------------------------------------------------------------
(* doSwap and doStopAll.                                                   *)

\* isRunning on the next container; stopAndConfirm announces the stop first.
\* Only doStopAll looks at its context here.
WorkerSweep(w) ==
    /\ w.pc = "sweep"
    /\ w.target = None => ~w.canceled
    /\ \E c \in First(w.todo) :
        IF c \in running
        THEN /\ Expect(c, "stop")
             /\ Step(w, [w EXCEPT !.pc = "stop", !.at = c])
        ELSE /\ Step(w, [w EXCEPT !.todo = @ \ {c}])
             /\ UNCHANGED entries
    /\ UNCHANGED <<dockerVars, stoppers, closed>>

\* isRunning errs: doSwap gives up, doStopAll goes on to the next container.
WorkerSweepFails(w) ==
    /\ w.pc = "sweep"
    /\ w.target = None => ~w.canceled
    /\ \E c \in First(w.todo) :
        IF w.target = None
        THEN Step(w, [w EXCEPT !.todo = @ \ {c}])
        ELSE Report(w, "failed")
    /\ CallFails
    /\ UNCHANGED <<running, stream, subscribed, entries, stoppers, closed>>

\* The context check: doStopAll before each container, doSwap after the sweep.
WorkerSuperseded(w) ==
    /\ w.pc = "sweep"
    /\ w.canceled
    /\ w.target = None <=> w.todo # {}
    /\ Report(w, FailureOf(w))
    /\ UNCHANGED <<dockerVars, entries, stoppers, closed>>

\* The sweep is over: doStopAll reports, doSwap announces the start.
WorkerSwept(w) ==
    /\ w.pc = "sweep"
    /\ w.todo = {}
    /\ IF w.target = None
       THEN Report(w, "stopped") /\ UNCHANGED entries
       ELSE /\ ~w.canceled
            /\ Expect(w.target, "start")
            /\ Step(w, [w EXCEPT !.pc = "start"])
    /\ UNCHANGED <<dockerVars, stoppers, closed>>

\* What follows stopAndConfirm: the clean-up of a superseded worker's own
\* target ends in a report; doSwap gives up on an error, doStopAll never does.
AfterStop(w, ok) ==
    IF w.at = w.target \/ (~ok /\ w.target # None)
    THEN Report(w, "failed")
    ELSE Step(w, [w EXCEPT !.pc = "sweep", !.at = None, !.todo = @ \ {w.at}])

WorkerStop(w) ==
    /\ w.pc = "stop"
    /\ StopContainer(w.at)
    /\ Step(w, [w EXCEPT !.pc = "confirm"])
    /\ UNCHANGED <<subscribed, budget, entries, stoppers, closed>>

\* An error does not tell whether the daemon carries the stop out.
WorkerStopFails(w) ==
    /\ w.pc = "stop"
    /\ CallFails
    /\ StopContainer(w.at) \/ NoEffect
    /\ AfterStop(w, FALSE)
    /\ UNCHANGED <<subscribed, entries, stoppers, closed>>

WorkerConfirm(w) ==
    /\ w.pc = "confirm"
    /\ w.at \notin running
    /\ AfterStop(w, TRUE)
    /\ UNCHANGED <<dockerVars, entries, stoppers, closed>>

\* Still running at the deadline, or the inspection errs.
WorkerConfirmFails(w) ==
    /\ w.pc = "confirm"
    /\ \/ w.at \in running /\ UNCHANGED budget
       \/ CallFails
    /\ AfterStop(w, FALSE)
    /\ UNCHANGED <<running, stream, subscribed, entries, stoppers, closed>>

WorkerStart(w) ==
    /\ w.pc = "start"
    /\ StartContainer(w.target)
    /\ Step(w, [w EXCEPT !.pc = "started"])
    /\ UNCHANGED <<subscribed, budget, entries, stoppers, closed>>

WorkerStartFails(w) ==
    /\ w.pc = "start"
    /\ CallFails
    /\ StartContainer(w.target) \/ NoEffect
    /\ Report(w, "failed")
    /\ UNCHANGED <<subscribed, entries, stoppers, closed>>

\* Mutant: no second look at the context (issue #7).
WorkerStartedUnchecked(w) ==
    /\ w.pc = "started"
    /\ Step(w, [w EXCEPT !.pc = "probe"])
    /\ UNCHANGED <<dockerVars, entries, stoppers, closed>>

\* The check after Start: a superseded worker stops what it has started.
WorkerStarted(w) ==
    /\ w.pc = "started"
    /\ IF w.canceled
       THEN /\ Expect(w.target, "stop")
            /\ Step(w, [w EXCEPT !.pc = "stop", !.at = w.target])
       ELSE /\ Step(w, [w EXCEPT !.pc = "probe"])
            /\ UNCHANGED entries
    /\ UNCHANGED <<dockerVars, stoppers, closed>>

\* The health poll looks at the URL and the clock, never at the context.
WorkerHealthy(w) ==
    /\ w.pc = "probe"
    /\ w.target \in running
    /\ Report(w, "complete")
    /\ UNCHANGED <<dockerVars, entries, stoppers, closed>>

\* A container that is down never gets healthy; one that is up may fail to.
WorkerUnhealthy(w) ==
    /\ w.pc = "probe"
    /\ IF w.target \in running THEN Spend("fault") ELSE UNCHANGED budget
    /\ Report(w, "timeout")
    /\ UNCHANGED <<running, stream, subscribed, entries, stoppers, closed>>

\* The deferred recover.
WorkerPanic(w) ==
    /\ w.pc # "report"
    /\ Spend("fault")
    /\ Report(w, FailureOf(w))
    /\ UNCHANGED <<running, stream, subscribed, entries, stoppers, closed>>

\* Both deliver and the poll's sleep give up once the pool is closed.
WorkerExit(w) ==
    /\ closed
    /\ w.pc \in {"probe", "report"}
    /\ workers' = workers \ {w}
    /\ UNCHANGED <<dockerVars, entries, stoppers, closed>>

WorkerNext(w) ==
    \/ WorkerSweep(w) \/ WorkerSweepFails(w) \/ WorkerSuperseded(w) \/ WorkerSwept(w)
    \/ WorkerStop(w) \/ WorkerStopFails(w) \/ WorkerConfirm(w) \/ WorkerConfirmFails(w)
    \/ WorkerStart(w) \/ WorkerStartFails(w) \/ WorkerStarted(w)
    \/ WorkerHealthy(w) \/ WorkerUnhealthy(w) \/ WorkerPanic(w) \/ WorkerExit(w)

-----------------------------------------------------------------------------
(* The detached stoppers: handleSwap's teardown and forceStop.             *)

StopperBegin(k) ==
    /\ k.pc = "begin"
    /\ stoppers[k] > 0
    /\ IF k.forced /\ closed
       THEN /\ stoppers' = [stoppers EXCEPT ![k] = @ - 1]
            /\ UNCHANGED entries
       ELSE /\ Expect(k.container, "stop")
            /\ stoppers' = [stoppers EXCEPT ![k] = @ - 1,
                                            ![[k EXCEPT !.pc = "stop"]] = @ + 1]
    /\ UNCHANGED <<dockerVars, workers, closed>>

StopperStop(k) ==
    /\ k.pc = "stop"
    /\ stoppers[k] > 0
    /\ stoppers' = [stoppers EXCEPT ![k] = @ - 1]
    /\ \/ StopContainer(k.container) /\ UNCHANGED budget
       \/ CallFails /\ NoEffect
    /\ UNCHANGED <<subscribed, entries, workers, closed>>

StopperNext(k) == StopperBegin(k) \/ StopperStop(k)
=============================================================================
