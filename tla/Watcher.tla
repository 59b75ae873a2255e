------------------------------ MODULE Watcher -------------------------------
(***************************************************************************)
(* The events watcher (orchestrator/events.go: Watcher.Run, route and      *)
(* Pool.NotifyContainerEvent), for the containers of one pool.  It asks    *)
(* the registry about an event before it hands it on, and the hand-over    *)
(* may block on a full channel: two steps.                                 *)
(***************************************************************************)
EXTENDS PoolManager

VARIABLE held    \* the unexplained event being handed to the manager, as a
                 \* sequence of at most one

WatcherType == held \in {<< >>} \cup {<<e>> : e \in Event}

WatcherInit == held = << >>

\* route and isExpected
Route ==
    /\ held = << >>
    /\ stream # << >>
    /\ LET e == Head(stream) IN
        /\ held' = IF IsExpected(e.container, e.action) THEN << >> ELSE <<e>>
        /\ Consume(e.container, e.action)
    /\ stream' = Tail(stream)
    /\ UNCHANGED <<running, subscribed, budget, workerVars, managerVars>>

\* NotifyContainerEvent's send, or its way out of a closed pool.
Notify ==
    /\ held # << >>
    /\ \/ /\ Len(dockerEv) < EventCap
          /\ dockerEv' = Append(dockerEv, Head(held))
       \/ /\ closed
          /\ UNCHANGED dockerEv
    /\ held' = << >>
    /\ UNCHANGED <<dockerVars, entries, workerVars, phaseVars, timerVars, queueVars,
                   clockVars, activity, adminPending, mgr>>

\* Run: subscribe, and on an error subscribe again.
Resubscribe ==
    /\ held = << >>
    /\ Subscribe \/ StreamError
    /\ UNCHANGED <<entries, workerVars, managerVars, held>>

WatcherNext == Route \/ Notify \/ Resubscribe
=============================================================================
