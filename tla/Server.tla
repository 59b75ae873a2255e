------------------------------- MODULE Server -------------------------------
(***************************************************************************)
(* The server around the pools (server/server.go and run.go): the runtime  *)
(* pointer, hot reload from the admin endpoint and SIGHUP, the watcher's   *)
(* route table, and shutdown with its WebSocket tunnels (websocket.go).    *)
(*                                                                         *)
(* A pool is reduced to what its owner sees of it: what it serves, the     *)
(* swap it has in flight, whether it is closed, and who waits in it.  Its  *)
(* inside is module Pool.  A pool is named by its name in the              *)
(* configuration and how many of that name were built before it.           *)
(***************************************************************************)
EXTENDS Config

CONSTANTS
    BootFile,     \* config.yaml when StageHand starts
    Edits,        \* what config.yaml may be changed to
    Reloaders,    \* goroutines that call ReloadFromSource, once each
    AdminCalls,   \* those of them that serve POST /stagehand/reload
    Clients,      \* requests
    Containers,   \* the containers that exist on the host
    MaxEdits      \* how often config.yaml may change

\* The revisions Load may return.
Revisions == {Load(f) : f \in {g \in Edits \cup {BootFile} : Loadable(g)}}

PoolNames == UNION {DOMAIN c.pools : c \in Revisions}
ServiceNames == UNION {DOMAIN c.services : c \in Revisions}
PoolConfigs == UNION {{PoolConfig(c, p) : p \in DOMAIN c.pools} : c \in Revisions}

\* How many pools of its name were built before it, and its name.
PoolId == Nat \X PoolNames

ASSUME ServerAssumption ==
    /\ Loadable(BootFile)
    /\ ContainerNames(Load(BootFile)) \subseteq Containers
    /\ \A c \in Revisions : IsFiniteSet(DOMAIN c.pools)
    /\ {None, "run"} \cap Reloaders = {} /\ None # "run"
    /\ AdminCalls \subseteq Reloaders
    /\ MaxEdits \in Nat

VARIABLES
    file,      \* config.yaml
    rt,        \* the runtime: its revision and its pools
    pools,     \* every pool built so far
    routes,    \* the watcher's table: container to pool
    mu,        \* the holder of reloadMu
    job,       \* where each reloader is
    server,    \* where Run is
    client,    \* where each request is
    left       \* what is left of MaxEdits

reloadVars == <<rt, routes, mu, job>>
vars == <<file, reloadVars, pools, server, client, left>>

NoJob == [pc |-> "idle", cfg |-> None, todo |-> {}]

NewPool(conf) ==
    [conf |-> conf, active |-> None, target |-> None, closed |-> FALSE, stopped |-> FALSE]

\* The container's owner in runtime r, if it has one.
Owner(r, c) ==
    {r.pools[p] : p \in {q \in DOMAIN r.pools :
        \E s \in Members(r.cfg, q) : r.cfg.services[s].container = c}}

RoutesOf(r) == [c \in Containers |-> Owner(r, c)]

BootRuntime ==
    [cfg |-> Load(BootFile), pools |-> [p \in DOMAIN Load(BootFile).pools |-> <<0, p>>]]

\* New
Init ==
    /\ file = BootFile
    /\ rt = BootRuntime
    /\ pools = [i \in {<<0, p>> : p \in DOMAIN Load(BootFile).pools} |->
                    NewPool(PoolConfig(Load(BootFile), i[2]))]
    /\ routes = RoutesOf(BootRuntime)
    /\ mu = None
    /\ job = [j \in Reloaders |-> NoJob]
    /\ server = "serve"
    /\ client = [c \in Clients |-> [pc |-> "idle", svc |-> None, pool |-> None]]
    /\ left = MaxEdits

Edit ==
    /\ left > 0
    /\ left' = left - 1
    /\ file' \in Edits \ {file}
    /\ UNCHANGED <<reloadVars, pools, server, client>>

-----------------------------------------------------------------------------
(* Reload                                                                  *)

At(j, pc) == job[j].pc = pc

Go(j, pc) == job' = [job EXCEPT ![j].pc = pc]

\* The handler or the SIGHUP loop is done with this reload.
EndJob(j) == job' = [job EXCEPT ![j] = [NoJob EXCEPT !.pc = "done"]]

\* Does the HTTP server still take requests?  Run closes the pools before it
\* stops listening.
Listening == server \in {"serve", "signalled", "closing", "closed"}

\* ReloadFromSource reads the file before it has the lock.
ReadFile(j) ==
    /\ At(j, "idle")
    /\ j \in AdminCalls => Listening
    /\ IF Loadable(file)
       THEN job' = [job EXCEPT ![j].pc = "lock", ![j].cfg = Load(file)]
       ELSE EndJob(j)
    /\ UNCHANGED <<file, rt, routes, mu, pools, server, client, left>>

\* ValidateContainers under the lock: one is missing, or Docker does not
\* answer.  The lock is given back by the deferred Unlock.
RejectReload(j) ==
    /\ At(j, "lock")
    /\ mu = None
    /\ EndJob(j)
    /\ UNCHANGED <<file, rt, routes, mu, pools, server, client, left>>

\* ValidateContainers finds them all.
Lock(j) ==
    /\ At(j, "lock")
    /\ mu = None
    /\ ContainerNames(job[j].cfg) \subseteq Containers
    /\ mu' = j
    /\ Go(j, "locked")
    /\ UNCHANGED <<file, rt, routes, pools, server, client, left>>

\* A pool is reused if its signature is the one the current runtime has.
Reusable(cfg, p) ==
    p \in DOMAIN rt.pools /\ PoolSignature(rt.cfg, p) = PoolSignature(cfg, p)

\* The pools buildRuntime gives a revision.
NextPools(cfg) ==
    [p \in DOMAIN cfg.pools |->
        IF Reusable(cfg, p) THEN rt.pools[p]
        ELSE <<Cardinality({i \in DOMAIN pools : i[2] = p}), p>>]

\* The pools of `prev' that `next' has rebuilt or does not have.
Replaced(prev, next) ==
    {prev[p] : p \in {q \in DOMAIN prev : q \notin DOMAIN next \/ prev[q] # next[q]}}

Parses(target) == target \in HTTPTargets

\* buildRuntime starts the managers of the new pools, and only then looks at
\* the target URLs, one of which may drop the runtime; then the pointer is
\* stored.  main always has an admin token to fall back on.
StoreRuntime(j) ==
    LET cfg   == job[j].cfg
        next  == NextPools(cfg)
        fresh == {next[p] : p \in DOMAIN next} \ DOMAIN pools
    IN
    /\ At(j, "locked")
    /\ pools' = [i \in DOMAIN pools \cup fresh |->
                    IF i \in fresh THEN NewPool(PoolConfig(cfg, i[2])) ELSE pools[i]]
    /\ IF \A s \in DOMAIN cfg.services : Parses(cfg.services[s].target)
       THEN /\ rt' = [cfg |-> cfg, pools |-> next]
            /\ job' = [job EXCEPT ![j] = [pc |-> "stored", cfg |-> None,
                                          todo |-> Replaced(rt.pools, next)]]
            /\ UNCHANGED mu
       ELSE /\ EndJob(j)
            /\ mu' = None
            /\ UNCHANGED rt
    /\ UNCHANGED <<file, routes, server, client, left>>

\* Mutant: a container keeps the pool it was first routed to.
SyncKeepsOld(j) ==
    /\ At(j, "stored")
    /\ routes' = [c \in Containers |-> IF routes[c] = {} THEN Owner(rt, c) ELSE routes[c]]
    /\ Go(j, "synced")
    /\ UNCHANGED <<file, rt, mu, pools, server, client, left>>

SyncWatcher(j) ==
    /\ At(j, "stored")
    /\ routes' = RoutesOf(rt)
    /\ Go(j, "synced")
    /\ UNCHANGED <<file, rt, mu, pools, server, client, left>>

Closed(i) == [pools EXCEPT ![i].closed = TRUE]

\* Mutant: closing a pool waits for the responses that come through it.
CloseReplacedDrains(j) ==
    /\ At(j, "synced")
    /\ \E i \in job[j].todo :
        /\ \A c \in Clients : client[c].pool = i => client[c].pc # "proxied"
        /\ pools' = Closed(i)
        /\ job' = [job EXCEPT ![j].todo = @ \ {i}]
    /\ UNCHANGED <<file, rt, routes, mu, server, client, left>>

CloseReplaced(j) ==
    /\ At(j, "synced")
    /\ \E i \in job[j].todo :
        /\ pools' = Closed(i)
        /\ job' = [job EXCEPT ![j].todo = @ \ {i}]
    /\ UNCHANGED <<file, rt, routes, mu, server, client, left>>

Unlock(j) ==
    /\ At(j, "synced")
    /\ job[j].todo = {}
    /\ EndJob(j)
    /\ mu' = None
    /\ UNCHANGED <<file, rt, routes, pools, server, client, left>>

ReloadNext(j) ==
    \/ ReadFile(j) \/ RejectReload(j) \/ Lock(j) \/ StoreRuntime(j)
    \/ SyncWatcher(j) \/ CloseReplaced(j) \/ Unlock(j)

-----------------------------------------------------------------------------
(* Requests, from the moment handle loads the runtime.                     *)

Moved(cs, pc) == [c \in Clients |-> IF c \in cs THEN [client[c] EXCEPT !.pc = pc] ELSE client[c]]

\* Requests let through are proxied, or hijacked if they are WebSocket
\* handshakes.
LetThrough(cs) ==
    \E kind \in [cs -> {"proxied", "hijacked"}] :
        client' = [c \in Clients |->
            IF c \in cs THEN [client[c] EXCEPT !.pc = kind[c]] ELSE client[c]]

Waiting(i, s) == {c \in Clients : client[c] = [pc |-> "wait", svc |-> s, pool |-> i]}

\* Mutant: the request goes to a pool that does not have its service.
AcceptAnyPool(c) ==
    /\ client[c].pc = "idle"
    /\ Listening
    /\ \E s \in DOMAIN rt.cfg.services : \E p \in DOMAIN rt.pools :
        client' = [client EXCEPT ![c] = [pc |-> "admit", svc |-> s, pool |-> rt.pools[p]]]
    /\ UNCHANGED <<file, reloadVars, pools, server, left>>

\* The pool is resolved in the runtime the request finds.
Accept(c) ==
    /\ client[c].pc = "idle"
    /\ Listening
    /\ \E s \in DOMAIN rt.cfg.services : \E p \in DOMAIN rt.pools :
        /\ rt.cfg.services[s].pool = p
        /\ client' = [client EXCEPT ![c] = [pc |-> "admit", svc |-> s, pool |-> rt.pools[p]]]
    /\ UNCHANGED <<file, reloadVars, pools, server, left>>

\* Admit: the fast path, a full queue, the queue, or a pool that is closed.
Admit(c) ==
    LET pool == pools[client[c].pool]
        s    == client[c].svc
    IN
    /\ client[c].pc = "admit"
    /\ \/ pool.active = s /\ LetThrough({c})
       \/ /\ pool.active # s /\ ~pool.stopped
          /\ client' = Moved({c}, IF Cardinality(Waiting(client[c].pool, s))
                                        < pool.conf.members[s].maxQueue THEN "wait" ELSE "done")
       \/ pool.active # s /\ pool.closed /\ client' = Moved({c}, "done")
    /\ UNCHANGED <<file, reloadVars, pools, server, left>>

\* Mutant: a waiter is released by the shutdown of the server only.
ReleasedByShutdown(c) ==
    /\ client[c].pc = "wait"
    /\ pools[client[c].pool].closed
    /\ server # "serve"
    /\ client' = Moved({c}, "done")
    /\ UNCHANGED <<file, reloadVars, pools, server, left>>

\* A waiter leaves a closed pool with 503: it sees `done' closed, or the
\* manager's last flush.
Released(c) ==
    /\ client[c].pc = "wait"
    /\ pools[client[c].pool].closed
    /\ client' = Moved({c}, "done")
    /\ UNCHANGED <<file, reloadVars, pools, server, left>>

\* The response is complete.
EndResponse(c) ==
    /\ client[c].pc = "proxied"
    /\ client' = Moved({c}, "done")
    /\ UNCHANGED <<file, reloadVars, pools, server, left>>

\* Tunnel: tracker.add, and the deferred tracker.remove once one of the two
\* sides has closed its connection.
Track(c) ==
    /\ client[c].pc = "hijacked"
    /\ client' = Moved({c}, "relay")
    /\ UNCHANGED <<file, reloadVars, pools, server, left>>

EndTunnel(c) ==
    /\ client[c].pc = "relay"
    /\ client' = Moved({c}, "done")
    /\ UNCHANGED <<file, reloadVars, pools, server, left>>

ClientNext(c) ==
    \/ Accept(c) \/ Admit(c) \/ Released(c) \/ EndResponse(c) \/ Track(c) \/ EndTunnel(c)

-----------------------------------------------------------------------------
(* The pools.                                                              *)

ContainersOf(conf) == {conf.members[s].container : s \in DOMAIN conf.members}

\* startSwap, for somebody who waits or back to the default.
BeginSwap(i) ==
    /\ ~pools[i].stopped
    /\ pools[i].target = None
    /\ \E s \in DOMAIN pools[i].conf.members :
        /\ Waiting(i, s) # {} \/ (pools[i].active = None /\ s = pools[i].conf.default)
        /\ pools' = [pools EXCEPT ![i].target = s, ![i].active = None]
    /\ UNCHANGED <<file, reloadVars, server, client, left>>

\* The worker reports success and the waiters go.
SwapComplete(i) ==
    LET s == pools[i].target IN
    /\ s # None /\ ~pools[i].stopped
    /\ pools' = [pools EXCEPT ![i].active = s, ![i].target = None]
    /\ LetThrough(Waiting(i, s))
    /\ UNCHANGED <<file, reloadVars, server, left>>

\* It fails and the waiters are refused.
SwapFailed(i) ==
    LET s == pools[i].target IN
    /\ s # None /\ ~pools[i].stopped
    /\ pools' = [pools EXCEPT ![i].target = None]
    /\ client' = Moved(Waiting(i, s), "done")
    /\ UNCHANGED <<file, reloadVars, server, left>>

\* Cooldown, an operator's stop, or the container dies.
GoCold(i) ==
    /\ ~pools[i].stopped
    /\ pools[i].active # None
    /\ pools' = [pools EXCEPT ![i].active = None]
    /\ UNCHANGED <<file, reloadVars, server, client, left>>

\* The manager finds `done' closed and publishes IDLE.
ManagerStops(i) ==
    /\ pools[i].closed /\ ~pools[i].stopped
    /\ pools' = [pools EXCEPT ![i].stopped = TRUE, ![i].active = None, ![i].target = None]
    /\ UNCHANGED <<file, reloadVars, server, client, left>>

PoolNext(i) ==
    BeginSwap(i) \/ SwapComplete(i) \/ SwapFailed(i) \/ GoCold(i) \/ ManagerStops(i)

-----------------------------------------------------------------------------
(* Run: SIGTERM, Close, Shutdown.                                          *)

Current == {rt.pools[p] : p \in DOMAIN rt.pools}

Signal ==
    /\ server = "serve"
    /\ server' = "signalled"
    /\ UNCHANGED <<file, reloadVars, pools, client, left>>

LockForClose ==
    /\ server = "signalled"
    /\ mu = None
    /\ mu' = "run"
    /\ server' = "closing"
    /\ UNCHANGED <<file, rt, routes, job, pools, client, left>>

ClosePool ==
    /\ server = "closing"
    /\ \E i \in Current : ~pools[i].closed /\ pools' = Closed(i)
    /\ UNCHANGED <<file, reloadVars, server, client, left>>

\* CloseAll closes the tunnels that are in the tracker by now, and the lock is
\* given back.
CloseTunnels ==
    /\ server = "closing"
    /\ \A i \in Current : pools[i].closed
    /\ client' = Moved({c \in Clients : client[c].pc = "relay"}, "done")
    /\ mu' = None
    /\ server' = "closed"
    /\ UNCHANGED <<file, rt, routes, job, pools, left>>

\* httpSrv.Shutdown: no new connections.
StopListening ==
    /\ server = "closed"
    /\ server' = "drain"
    /\ UNCHANGED <<file, reloadVars, pools, client, left>>

\* The requests Shutdown waits for; it does not know hijacked connections.
InFlight ==
    {c \in Clients : client[c].pc \in {"admit", "wait", "proxied"}}
    \cup {j \in AdminCalls : job[j].pc \notin {"idle", "done"}}

Held(c) == client[c].pc \in {"admit", "wait"}

\* Mutant: Shutdown has no deadline.
ExitDrained ==
    /\ server = "drain"
    /\ InFlight = {}
    /\ server' = "exited"
    /\ UNCHANGED <<file, reloadVars, pools, client, left>>

\* Everything is drained, or the drain deadline passes: that long, only a
\* response that streams or a pool that is not closed can hold a request.
Exit ==
    /\ server = "drain"
    /\ InFlight = {} \/ \A c \in Clients : Held(c) => ~pools[client[c].pool].closed
    /\ server' = "exited"
    /\ UNCHANGED <<file, reloadVars, pools, client, left>>

RunNext == Signal \/ LockForClose \/ ClosePool \/ CloseTunnels \/ StopListening \/ Exit

Exited == server = "exited" /\ UNCHANGED vars

Next ==
    \/ /\ server # "exited"
       /\ \/ Edit
          \/ \E j \in Reloaders : ReloadNext(j)
          \/ \E c \in Clients : ClientNext(c)
          \/ \E i \in DOMAIN pools : PoolNext(i)
          \/ RunNext
    \/ Exited

Spec == Init /\ [][Next]_vars

\* Reloads, pools and Run go on; nothing is assumed of clients, tunnels,
\* streaming responses, edits or signals, nor that a reload is asked for.
Fairness ==
    /\ \A j \in Reloaders :
        WF_vars(server # "exited" /\ ReloadNext(j) /\ ~At(j, "idle"))
    /\ \A c \in Clients : WF_vars(server # "exited" /\ (Admit(c) \/ Released(c)))
    /\ WF_vars(server # "exited" /\ \E i \in DOMAIN pools :
                    BeginSwap(i) \/ SwapComplete(i) \/ ManagerStops(i))
    /\ WF_vars(RunNext /\ server # "serve")

FairSpec == Spec /\ Fairness

-----------------------------------------------------------------------------
(* What has to hold.                                                       *)

JobStates == {"idle", "lock", "locked", "stored", "synced", "done"}
ClientStates == {"idle", "admit", "wait", "proxied", "hijacked", "relay", "done"}
RunStates == {"serve", "signalled", "closing", "closed", "drain", "exited"}

PoolRecord ==
    [conf : PoolConfigs, active : ServiceNames \cup {None}, target : ServiceNames \cup {None},
     closed : BOOLEAN, stopped : BOOLEAN]

\* Besides the types: a request asks its pool for a service the pool has, a
\* pool serves its own services, and a reloader closes pools that were built.
TypeOK ==
    /\ file \in Edits \cup {BootFile}
    /\ rt.cfg \in Revisions
    /\ rt.pools \in [DOMAIN rt.cfg.pools -> DOMAIN pools]
    /\ DOMAIN pools \subseteq PoolId
    /\ pools \in [DOMAIN pools -> PoolRecord]
    /\ mu \in Reloaders \cup {None, "run"}
    /\ job \in [Reloaders -> [pc : JobStates, cfg : Revisions \cup {None},
                             todo : SUBSET DOMAIN pools]]
    /\ server \in RunStates
    /\ client \in [Clients -> [pc : ClientStates, svc : ServiceNames \cup {None},
                              pool : DOMAIN pools \cup {None}]]
    /\ left \in 0 .. MaxEdits
    /\ \A c \in Clients : client[c].pc # "idle" =>
        /\ client[c].pool \in DOMAIN pools
        /\ client[c].svc \in DOMAIN pools[client[c].pool].conf.members
    /\ \A i \in DOMAIN pools :
        {pools[i].active, pools[i].target} \subseteq DOMAIN pools[i].conf.members \cup {None}

\* Between reloads every pool is in the runtime or closed: no reload, also
\* one that is rejected, leaves a manager running outside the runtime, where
\* neither a later reload nor Close would find it.
NoPoolLeaks == mu = None => \A i \in DOMAIN pools : i \in Current \/ pools[i].closed

\* The pools behind the runtime pointer are at every moment configured as its
\* revision says, the reused ones too: the signature leaves nothing out.
RuntimeConsistent ==
    /\ DOMAIN rt.pools = DOMAIN rt.cfg.pools
    /\ \A p \in DOMAIN rt.pools : pools[rt.pools[p]].conf = PoolConfig(rt.cfg, p)

\* No container is in the hands of two pools of the runtime.  (A pool that a
\* reload has replaced still has its containers until it is closed.)
SoleOwner ==
    \A i, k \in Current :
        i # k => ContainersOf(pools[i].conf) \cap ContainersOf(pools[k].conf) = {}

\* Between reloads the watcher hands an event to the pool that now owns the
\* container, and to nobody if it has been taken out of the configuration.
\* (Within a reload the table is behind from Store to syncWatcher.)
EventsReachOwner == mu = None => routes = RoutesOf(rt)

\* README: "pools whose config is unchanged keep their queues and active
\* container".  The pool stays the same, and no reload closes one that is in
\* the runtime.
UnchangedPoolsKept ==
    [][/\ \A p \in DOMAIN rt.pools \cap DOMAIN rt'.pools :
            PoolConfig(rt.cfg, p) = PoolConfig(rt'.cfg, p) => rt'.pools[p] = rt.pools[p]
       /\ \A i \in Current :
            ~pools[i].closed /\ pools'[i].closed => server = "closing"]_vars

\* Whatever is reloaded, rejected or shut down meanwhile, no request is held
\* for ever.
HeldRequestsEnd == \A c \in Clients : Held(c) ~> ~Held(c) \/ server = "exited"

\* A reload that has read its file comes to an end.
ReloadsEnd == \A j \in Reloaders : At(j, "lock") ~> At(j, "done") \/ server = "exited"

\* After a signal StageHand exits, though reloads compete for the lock and
\* tunnels and responses are open.
ShutdownEnds == server = "signalled" ~> server = "exited"

-----------------------------------------------------------------------------
(* What the proofs carry along: the facts about the reload and its lock    *)
(* that make the properties above inductive.                               *)

\* The lock is with the one reload between its Lock and its Unlock, or with
\* Close.
LockInv ==
    /\ \A j \in Reloaders : job[j].pc \in {"locked", "stored", "synced"} <=> mu = j
    /\ mu = "run" <=> server = "closing"

\* A reload works with a revision Load has accepted, and with no list of pools
\* to close until it has stored the new runtime.
JobInv ==
    \A j \in Reloaders :
        /\ job[j].pc \in {"lock", "locked"} => job[j].cfg \in Revisions
        /\ job[j].pc \notin {"stored", "synced"} => job[j].todo = {}

\* A pool has its name and number to itself, so the next number of a name is
\* free.
IdInv ==
    /\ IsFiniteSet(DOMAIN pools)
    /\ \A i \in DOMAIN pools : i[1] < Cardinality({k \in DOMAIN pools : k[2] = i[2]})
    /\ \A p \in DOMAIN rt.pools : rt.pools[p][2] = p

\* A pool that is in the runtime no longer is closed, or the reload that
\* replaced it has yet to close it; and it closes no other.
AccountedFor ==
    /\ \A i \in DOMAIN pools :
        i \in Current \/ pools[i].closed \/ \E j \in Reloaders : i \in job[j].todo
    /\ \A j \in Reloaders : job[j].todo \cap Current = {}

\* The watcher's table is behind only between Store and SyncWatcher.
RoutesInv == routes = RoutesOf(rt) \/ \E j \in Reloaders : job[j].pc = "stored"

Inv ==
    /\ TypeOK /\ LockInv /\ JobInv /\ IdInv /\ AccountedFor /\ RoutesInv
    /\ RuntimeConsistent

-----------------------------------------------------------------------------
(* What the documentation says, and the code does not do.                  *)

\* server.go on Close: "a reload racing shutdown can neither resurrect pools nor
\* leave freshly-built ones unclosed".
ClosedForGood ==
    server \in {"closed", "drain", "exited"} => \A i \in DOMAIN pools : pools[i].closed
=============================================================================
