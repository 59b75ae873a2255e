------------------------------- MODULE Docker -------------------------------
(***************************************************************************)
(* The Docker daemon as StageHand sees it through dockerctl.Client: which  *)
(* containers run, the effect of the Start and Stop calls, and the events  *)
(* stream a subscriber reads.  Service and container names correspond one  *)
(* to one (config.validate rejects a shared container_name), so a          *)
(* container is named by its service.                                      *)
(*                                                                         *)
(* The daemon is outside the repository.  Its behaviour is what the        *)
(* Client interface documents and FakeClient mirrors: Start of a running   *)
(* and Stop of a stopped container succeed without an event.               *)
(***************************************************************************)
EXTENDS Integers, Sequences, FiniteSets

CONSTANTS
    Services,    \* the members of the pool, each with its own container
    None,        \* the empty service name of the Go code ("")
    StopBurst,   \* the actions the daemon reports when a container is stopped
    AtBoot,      \* the sets of containers that may run when the pool is built
    Budgets      \* how often each thing StageHand does not control may happen

BudgetKinds == {"fault", "external", "subscribe", "admin", "cancel", "close"}

Actions == {"start", "die", "stop", "kill"}

ASSUME DockerAssumption ==
    /\ None \notin Services
    /\ StopBurst \in Seq(Actions \ {"start"})
    /\ AtBoot \subseteq SUBSET Services
    /\ Budgets \in [BudgetKinds -> Nat]

VARIABLES
    running,     \* the set of running containers
    stream,      \* events sent to the current subscription, not yet read
    subscribed,  \* is an events subscription open?
    budget       \* what is left of Budgets

dockerVars == <<running, stream, subscribed, budget>>

Event == [container : Services, action : Actions]

DockerType ==
    /\ running \subseteq Services
    /\ stream \in Seq(Event)
    /\ subscribed \in BOOLEAN
    /\ budget \in [BudgetKinds -> Nat]

\* Containers survive a StageHand restart, so some may run at boot.
DockerInit ==
    /\ running \in AtBoot
    /\ stream = << >>
    /\ subscribed = FALSE
    /\ budget = Budgets

Spend(kind) ==
    /\ budget[kind] > 0
    /\ budget' = [budget EXCEPT ![kind] = @ - 1]

\* The daemon reports the actions `acts' on c; nobody hears them unless subscribed.
Emit(c, acts) ==
    stream' = IF subscribed
              THEN stream \o [i \in DOMAIN acts |-> [container |-> c, action |-> acts[i]]]
              ELSE stream

StartContainer(c) ==
    /\ running' = running \cup {c}
    /\ Emit(c, IF c \in running THEN << >> ELSE <<"start">>)

StopContainer(c) ==
    /\ running' = running \ {c}
    /\ Emit(c, IF c \in running THEN StopBurst ELSE << >>)

NoEffect == UNCHANGED <<running, stream>>

-----------------------------------------------------------------------------
(* What happens outside StageHand.                                         *)

\* Somebody runs `docker start c'.
ExternalStart(c) ==
    /\ c \notin running
    /\ Spend("external")
    /\ StartContainer(c)
    /\ UNCHANGED subscribed

\* Somebody runs `docker stop c', or the container crashes or is OOM-killed.
ExternalStop(c) ==
    /\ c \in running
    /\ Spend("external")
    /\ StopContainer(c)
    /\ UNCHANGED subscribed

\* The watcher's docker.Events call opens a subscription.
Subscribe ==
    /\ ~subscribed
    /\ Spend("subscribe")
    /\ subscribed' = TRUE
    /\ UNCHANGED <<running, stream>>

\* The stream fails: the watcher cancels the subscription, and what it had
\* not read by then is lost.
StreamError ==
    /\ subscribed
    /\ Spend("fault")
    /\ subscribed' = FALSE
    /\ stream' = << >>
    /\ UNCHANGED running
=============================================================================
