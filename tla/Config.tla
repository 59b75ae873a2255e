------------------------------- MODULE Config -------------------------------
(***************************************************************************)
(* config.yaml: what Load accepts (config/load.go and validate.go) and     *)
(* what the server derives from an accepted revision (config.go and the    *)
(* pool helpers of server/server.go).                                      *)
(*                                                                         *)
(* A revision is a record; pools and services are functions from names, a  *)
(* nil pointer or an empty name is None.  Names, URLs, header and model    *)
(* values are opaque; a path is the sequence of the pieces it is made of,  *)
(* the first of them "/"; a target stands for its URL without the trailing *)
(* slash that HealthURL trims.  The warnings of validate change nothing    *)
(* and are left out.                                                       *)
(***************************************************************************)
EXTENDS Integers, Sequences, FiniteSets

CONSTANTS
    None,         \* "" and nil
    Unreadable,   \* a file that is missing, is no YAML or has unknown keys
    HTTPTargets,  \* the target URLs that are absolute http(s) with a host
    BlankTokens,  \* the tokens that are only white space
    MaxPort,      \* 65535
    DefaultPort, DefaultMaxQueueSize, DefaultStartup

ASSUME ConfigAssumption ==
    /\ None \notin HTTPTargets
    /\ MaxPort \in Nat
    /\ DefaultPort \in 1 .. MaxPort
    /\ DefaultMaxQueueSize \in Nat \ {0}
    /\ DefaultStartup \in Nat \ {0}

AtRoot(path) == path # << >> /\ Head(path) = "/"

OrDefault(value, zero, default) == IF value = zero THEN default ELSE value

\* applyDefaults, on the settings that matter to a running StageHand.
ApplyDefaults(c) ==
    [c EXCEPT
        !.port = OrDefault(@, 0, DefaultPort),
        !.maxQueue = OrDefault(@, 0, DefaultMaxQueueSize),
        !.services = [s \in DOMAIN c.services |->
            [c.services[s] EXCEPT
                !.health = OrDefault(@, << >>, <<"/">>),
                !.startup = OrDefault(@, 0, DefaultStartup)]]]

-----------------------------------------------------------------------------
(* validate                                                                *)

ValidServer(c) ==
    /\ c.port \in 1 .. MaxPort
    /\ c.maxQueue >= 1
    /\ c.maxRequestBytes >= 0
    /\ c.adminToken \notin BlankTokens
    /\ c.proxyToken \notin BlankTokens

\* Mutant: two services may manage one container.
ValidServiceShared(c, s) ==
    LET svc == c.services[s] IN
    /\ svc.container # None
    /\ svc.target \in HTTPTargets
    /\ AtRoot(svc.health)
    /\ svc.startup >= 1
    /\ svc.maxQueue >= 0
    /\ svc.pool # None => svc.pool \in DOMAIN c.pools

\* Mutant: an unparsable target URL is left to buildRuntime.
ValidServiceAnyTarget(c, s) ==
    LET svc == c.services[s] IN
    /\ svc.container # None
    /\ \A t \in DOMAIN c.services \ {s} : c.services[t].container # svc.container
    /\ AtRoot(svc.health)
    /\ svc.startup >= 1
    /\ svc.maxQueue >= 0
    /\ svc.pool # None => svc.pool \in DOMAIN c.pools

ValidService(c, s) ==
    LET svc == c.services[s] IN
    /\ svc.container # None
    /\ \A t \in DOMAIN c.services \ {s} : c.services[t].container # svc.container
    /\ svc.target \in HTTPTargets
    /\ AtRoot(svc.health)
    /\ svc.startup >= 1
    /\ svc.maxQueue >= 0
    /\ svc.pool # None => svc.pool \in DOMAIN c.pools

ValidPool(c, p) ==
    LET pool == c.pools[p] IN
    /\ pool.grace >= 0
    /\ pool.cooldown >= 0
    /\ pool.default # None =>
        /\ pool.default \in DOMAIN c.services
        /\ c.services[pool.default].pool = p

\* Mutant: the targets of a models map are not looked up.
ValidRouteFallbackOnly(c, route) ==
    /\ AtRoot(route.prefix)
    /\ route.service \in DOMAIN c.services
    /\ None \notin DOMAIN route.models

ValidRoute(c, route) ==
    /\ AtRoot(route.prefix)
    /\ route.service \in DOMAIN c.services
    /\ \A m \in DOMAIN route.models : m # None /\ route.models[m] \in DOMAIN c.services

Valid(c) ==
    /\ ValidServer(c)
    /\ DOMAIN c.services # {}
    /\ \A s \in DOMAIN c.services : ValidService(c, s)
    /\ \A p \in DOMAIN c.pools : ValidPool(c, p)
    /\ c.routes # << >>
    /\ \A i \in DOMAIN c.routes : ValidRoute(c, c.routes[i])

Loadable(raw) == raw # Unreadable /\ Valid(ApplyDefaults(raw))

\* Load, where it returns no error.
Load(raw) == ApplyDefaults(raw)

-----------------------------------------------------------------------------
(* What an accepted revision means.                                        *)

QueueSize(c, s) ==
    IF c.services[s].maxQueue > 0 THEN c.services[s].maxQueue ELSE c.maxQueue

ContainerNames(c) == {c.services[s].container : s \in DOMAIN c.services}

Members(c, p) == {s \in DOMAIN c.services : c.services[s].pool = p}

HealthURL(c, s) == <<c.services[s].target, c.services[s].health>>

\* The PoolConfig buildRuntime passes to NewPool, members as poolMembers
\* lists them.
PoolConfig(c, p) ==
    [grace    |-> c.pools[p].grace,
     cooldown |-> c.pools[p].cooldown,
     default  |-> c.pools[p].default,
     members  |-> [s \in Members(c, p) |->
        [container |-> c.services[s].container,
         healthURL |-> HealthURL(c, s),
         startup   |-> c.services[s].startup,
         maxQueue  |-> QueueSize(c, s)]]]

\* Mutant: a changed queue bound goes unnoticed.
PoolSignatureNoQueue(c, p) ==
    <<c.pools[p].grace, c.pools[p].cooldown, c.pools[p].default,
      {<<s, c.services[s].container, HealthURL(c, s), c.services[s].startup>> :
            s \in Members(c, p)}>>

\* Mutant: the fingerprint takes in the server's settings.
PoolSignatureServer(c, p) ==
    <<c.port, c.maxQueue, c.proxyToken, c.pools[p], {<<s, c.services[s]>> : s \in Members(c, p)}>>

\* The text poolSignature prints.  It is sorted by member name, so the set of
\* its entries stands for it; names hold none of the separators it uses.
PoolSignature(c, p) ==
    <<c.pools[p].grace, c.pools[p].cooldown, c.pools[p].default,
      {<<s, c.services[s].container, HealthURL(c, s), c.services[s].startup, QueueSize(c, s)>> :
            s \in Members(c, p)}>>
=============================================================================
