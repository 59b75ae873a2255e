------------------------------ MODULE MCServer ------------------------------
EXTENDS Server, TLC

CONSTANTS c1, hup, adm

Svc(container, pool) ==
    [container |-> container, target |-> "http", health |-> << >>, startup |-> 0,
     maxQueue |-> 0, pool |-> pool]

RouteAll(s) == <<[prefix |-> <<"/">>, service |-> s, headers |-> << >>, models |-> << >>]>>

Cold == [grace |-> 0, cooldown |-> 0, default |-> None]

\* Two services share a GPU.
Base ==
    [port |-> 0, maxQueue |-> 1, maxRequestBytes |-> 0, adminToken |-> None, proxyToken |-> None,
     pools |-> "gpu" :> Cold,
     services |-> ("a" :> Svc("ca", "gpu")) @@ ("b" :> Svc("cb", "gpu")),
     routes |-> RouteAll("a")]

\* The queue bound of the pool changes with the server's.
Raised == [Base EXCEPT !.maxQueue = 2]

\* b moves to a pool of its own, and a stays where it is alone.
Apart == [Base EXCEPT !.pools = ("gpu" :> Cold) @@ ("gpu2" :> Cold), !.services["b"].pool = "gpu2"]

\* Nothing of the pools changes.
Retokened == [Base EXCEPT !.proxyToken = "t"]

\* Refused by validate: two pools with one container; a target that is no URL.
Shared == [Apart EXCEPT !.services["b"].container = "ca"]
BadTarget == [Raised EXCEPT !.services["b"].target = "::"]

EditsAll == {Raised, Apart, Retokened, Shared, BadTarget}
EditsRaised == {Raised}
=============================================================================
