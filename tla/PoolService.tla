---------------------------- MODULE PoolService -----------------------------
(***************************************************************************)
(* What a VRAM pool promises to the request handlers, without its queues,  *)
(* timers, workers and containers: one service is served at a time, a      *)
(* request is let through only while its own service is, and every request *)
(* gets one verdict and leaves once.  A step may decide many requests, as  *)
(* the flush of a queue does.  Module Pool is shown to implement this.     *)
(***************************************************************************)
CONSTANTS Services, None, Reqs

VARIABLES
    serving,   \* the service the pool serves, None between two services
    shut,      \* has the pool been closed?
    svc,       \* the service r has asked for
    verdict,   \* what the pool has decided about r
    outcome    \* how r left the pool

vars == <<serving, shut, svc, verdict, outcome>>

Init ==
    /\ serving = None
    /\ shut = FALSE
    /\ svc = [r \in Reqs |-> None]
    /\ verdict = [r \in Reqs |-> "none"]
    /\ outcome = [r \in Reqs |-> "none"]

\* The old service is given up before the next one is served.
Switch == serving' # serving => None \in {serving, serving'}

\* A request asks for one service, once.
Ask(r) == svc'[r] # svc[r] => svc[r] = None /\ svc'[r] \in Services

\* The verdict is final, and "go" only while the service asked for is served.
Decide(r) ==
    verdict'[r] # verdict[r] =>
        /\ verdict[r] = "none"
        /\ svc'[r] \in Services
        /\ verdict'[r] = "go" => serving' = svc'[r]

\* Served on a "go", refused on a "no" or by a closed pool; anyone may
\* withdraw.  Nobody leaves twice.
Leave(r) ==
    outcome'[r] # outcome[r] =>
        /\ outcome[r] = "none"
        /\ \/ outcome'[r] = "served" /\ verdict'[r] = "go"
           \/ outcome'[r] = "refused" /\ (verdict'[r] = "no" \/ shut')
           \/ outcome'[r] = "withdrawn"

Next ==
    /\ Switch
    /\ shut => shut'
    /\ \A r \in Reqs : Ask(r) /\ Decide(r) /\ Leave(r)

Spec == Init /\ [][Next]_vars
=============================================================================
