----------------------------- MODULE Admission ------------------------------
(***************************************************************************)
(* The request handlers' side of a pool: Pool.Admit (orchestrator/pool.go).*)
(* Channel cmds is unbuffered, so a command and its handler are one step.  *)
(***************************************************************************)
EXTENDS Watcher

VARIABLES
    phase,     \* where request r is in Admit
    svc,       \* the service r asks for
    result     \* what Admit returned

clientVars == <<phase, svc, result>>

Phases == {"idle", "send", "wait", "giveup", "done"}

AdmissionType ==
    /\ phase \in [Reqs -> Phases]
    /\ svc \in [Reqs -> Services \cup {None}]
    /\ result \in [Reqs -> Results \cup {"none", "Canceled"}]

AdmissionInit ==
    /\ phase = [r \in Reqs |-> "idle"]
    /\ svc = [r \in Reqs |-> None]
    /\ result = [r \in Reqs |-> "none"]

Return(r, res) ==
    /\ phase' = [phase EXCEPT ![r] = "done"]
    /\ result' = [result EXCEPT ![r] = res]

poolVars == <<dockerVars, entries, workerVars, held>>

\* The fast path trusts the snapshot; a ping that finds the channel full is
\* dropped.
Arrive(r) ==
    /\ phase[r] = "idle"
    /\ \E s \in Services :
        /\ svc' = [svc EXCEPT ![r] = s]
        /\ IF snap = [state |-> "ACTIVE", active |-> s]
           THEN /\ Return(r, "Go")
                /\ activity' = IF Len(activity) < ActivityCap THEN Append(activity, s)
                               ELSE activity
           ELSE /\ phase' = [phase EXCEPT ![r] = "send"]
                /\ UNCHANGED <<result, activity>>
    /\ UNCHANGED <<poolVars, phaseVars, timerVars, queueVars, clockVars, dockerEv,
                   adminPending, mgr>>

\* admitCmd changes hands.
Submit(r) ==
    /\ phase[r] = "send"
    /\ HandleAdmit(svc[r], r)
    /\ phase' = [phase EXCEPT ![r] = "wait"]
    /\ UNCHANGED <<held, svc, result>>

Receive(r) ==
    /\ phase[r] = "wait"
    /\ reply[r] # << >>
    /\ Return(r, Head(reply[r]))
    /\ UNCHANGED <<poolVars, managerVars, svc>>

\* The client goes away: before the manager knows of the request there is
\* nothing to undo, after that the manager must be told.
GiveUp(r) ==
    /\ Spend("cancel")
    /\ \/ phase[r] = "send" /\ Return(r, "Canceled")
       \/ /\ phase[r] = "wait"
          /\ phase' = [phase EXCEPT ![r] = "giveup"]
          /\ UNCHANGED result
    /\ UNCHANGED <<running, stream, subscribed, entries, workerVars, held, managerVars, svc>>

\* cancelCmd changes hands.
Cancel(r) ==
    /\ phase[r] = "giveup"
    /\ HandleCancel(svc[r], r)
    /\ Return(r, "Canceled")
    /\ UNCHANGED <<held, svc>>

\* Mutant: a request the manager never took does not watch `done'.
AbandonWaiting(r) ==
    /\ closed
    /\ \/ phase[r] = "wait" /\ Return(r, "Shutdown")
       \/ phase[r] = "giveup" /\ Return(r, "Canceled")
    /\ UNCHANGED <<poolVars, managerVars, svc>>

\* Channel `done' is closed.
Abandon(r) ==
    /\ closed
    /\ \/ phase[r] \in {"send", "wait"} /\ Return(r, "Shutdown")
       \/ phase[r] = "giveup" /\ Return(r, "Canceled")
    /\ UNCHANGED <<poolVars, managerVars, svc>>

ClientNext(r) == Arrive(r) \/ Submit(r) \/ Receive(r) \/ GiveUp(r) \/ Cancel(r) \/ Abandon(r)
=============================================================================
