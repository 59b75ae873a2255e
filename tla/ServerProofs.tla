---------------------------- MODULE ServerProofs ----------------------------
(***************************************************************************)
(* Theorems about module Server, for every configuration file and every    *)
(* sequence of edits, every number of reloads and of requests.             *)
(***************************************************************************)
EXTENDS Server, FiniteSetTheorems, TLAPS

-----------------------------------------------------------------------------
(* The configuration.                                                      *)

\* What Load returns has passed validate.
LEMMA RevisionFacts ==
    ASSUME NEW c \in Revisions
    PROVE  Valid(c) /\ IsFiniteSet(DOMAIN c.pools)
BY ServerAssumption DEF Revisions, Loadable, Load

LEMMA RevisionNames ==
    ASSUME NEW c \in Revisions
    PROVE  /\ DOMAIN c.pools \subseteq PoolNames
           /\ DOMAIN c.services \subseteq ServiceNames
           /\ \A p \in DOMAIN c.pools : PoolConfig(c, p) \in PoolConfigs
<1>1. DOMAIN c.pools \in {DOMAIN d.pools : d \in Revisions}
  OBVIOUS
<1>2. DOMAIN c.services \in {DOMAIN d.services : d \in Revisions}
  OBVIOUS
<1>3. {PoolConfig(c, p) : p \in DOMAIN c.pools}
        \in {{PoolConfig(d, p) : p \in DOMAIN d.pools} : d \in Revisions}
  OBVIOUS
<1> QED
  BY <1>1, <1>2, <1>3 DEF PoolNames, ServiceNames, PoolConfigs

LEMMA BootIsRevision == Load(BootFile) \in Revisions
BY ServerAssumption DEF Revisions

\* The members a pool is configured with are those the revision gives it.
LEMMA ConfigMembers ==
    ASSUME NEW c, NEW p
    PROVE  DOMAIN PoolConfig(c, p).members = Members(c, p)
BY DEF PoolConfig

\* poolSignature leaves nothing out: pools with equal signatures have equal
\* configurations.
LEMMA SignatureDetermines ==
    ASSUME NEW c, NEW d, NEW p, PoolSignature(c, p) = PoolSignature(d, p)
    PROVE  PoolConfig(c, p) = PoolConfig(d, p)
<1> DEFINE Entry(e, s) == <<s, e.services[s].container, HealthURL(e, s), e.services[s].startup,
                            QueueSize(e, s)>>
           Entries(e) == {Entry(e, s) : s \in Members(e, p)}
           Fields(e, s) == [container |-> e.services[s].container, healthURL |-> HealthURL(e, s),
                            startup |-> e.services[s].startup, maxQueue |-> QueueSize(e, s)]
<1>1. /\ c.pools[p].grace = d.pools[p].grace /\ c.pools[p].cooldown = d.pools[p].cooldown
      /\ c.pools[p].default = d.pools[p].default /\ Entries(c) = Entries(d)
  BY DEF PoolSignature
<1>2. ASSUME NEW e, NEW f, NEW s, NEW t, Entry(e, s) = Entry(f, t)
      PROVE  s = t /\ Fields(e, s) = Fields(f, t)
  BY <1>2
<1> HIDE DEF Entry, Fields
<1>3. \A s \in Members(c, p) : s \in Members(d, p) /\ Fields(c, s) = Fields(d, s)
  <2> SUFFICES ASSUME NEW s \in Members(c, p)
               PROVE  s \in Members(d, p) /\ Fields(c, s) = Fields(d, s)
    OBVIOUS
  <2>1. Entry(c, s) \in Entries(d)
    BY <1>1
  <2>2. PICK t \in Members(d, p) : Entry(c, s) = Entry(d, t)
    BY <2>1
  <2> QED
    BY <1>2, <2>2
<1>4. \A s \in Members(d, p) : s \in Members(c, p)
  <2> SUFFICES ASSUME NEW s \in Members(d, p) PROVE s \in Members(c, p)
    OBVIOUS
  <2>1. Entry(d, s) \in Entries(c)
    BY <1>1
  <2>2. PICK t \in Members(c, p) : Entry(d, s) = Entry(c, t)
    BY <2>1
  <2> QED
    BY <1>2, <2>2
<1>5. [s \in Members(c, p) |-> Fields(c, s)] = [s \in Members(d, p) |-> Fields(d, s)]
  <2>1. Members(c, p) = Members(d, p)
    BY <1>3, <1>4
  <2> QED
    BY <1>3, <2>1
<1> QED
  BY <1>1, <1>5 DEF PoolConfig, Fields

\* And it holds nothing else: pools with equal configurations have equal
\* signatures.
LEMMA SignatureMinimal ==
    ASSUME NEW c, NEW d, NEW p, PoolConfig(c, p) = PoolConfig(d, p)
    PROVE  PoolSignature(c, p) = PoolSignature(d, p)
<1> DEFINE Fields(e, s) == [container |-> e.services[s].container, healthURL |-> HealthURL(e, s),
                            startup |-> e.services[s].startup, maxQueue |-> QueueSize(e, s)]
           Table(e) == [s \in Members(e, p) |-> Fields(e, s)]
<1>1. /\ c.pools[p].grace = d.pools[p].grace /\ c.pools[p].cooldown = d.pools[p].cooldown
      /\ c.pools[p].default = d.pools[p].default /\ Table(c) = Table(d)
  BY DEF PoolConfig
<1>2. Members(c, p) = Members(d, p)
  <2>1. DOMAIN Table(c) = DOMAIN Table(d)
    BY <1>1
  <2> QED
    BY <2>1
<1>3. ASSUME NEW s \in Members(c, p)
      PROVE  /\ c.services[s].container = d.services[s].container
             /\ HealthURL(c, s) = HealthURL(d, s) /\ QueueSize(c, s) = QueueSize(d, s)
             /\ c.services[s].startup = d.services[s].startup
  <2>1. Table(c)[s] = Fields(c, s) /\ Table(d)[s] = Fields(d, s)
    BY <1>2
  <2>2. Fields(c, s) = Fields(d, s)
    BY <1>1, <2>1, Zenon
  <2> QED
    BY <2>2
<1> QED
  BY <1>1, <1>2, <1>3 DEF PoolSignature

\* validate: no container has two services, so no two pools share one.
LEMMA PoolsDisjoint ==
    ASSUME NEW c, Valid(c), NEW p, NEW q, p # q
    PROVE  ContainersOf(PoolConfig(c, p)) \cap ContainersOf(PoolConfig(c, q)) = {}
<1>1. ASSUME NEW r
      PROVE  ContainersOf(PoolConfig(c, r)) = {c.services[s].container : s \in Members(c, r)}
  BY DEF PoolConfig, ContainersOf
<1>2. ASSUME NEW s \in Members(c, p), NEW t \in Members(c, q)
      PROVE  c.services[s].container # c.services[t].container
  <2>1. s \in DOMAIN c.services /\ t \in DOMAIN c.services \ {s}
    BY DEF Members
  <2> QED
    BY <2>1 DEF Valid, ValidService
<1> QED
  BY <1>1, <1>2

-----------------------------------------------------------------------------
(* Steps that leave the runtime and the reloads alone.                     *)

\* The pools keep their identity and their configuration, and stay closed.
PoolsKept ==
    /\ DOMAIN pools' = DOMAIN pools
    /\ pools' \in [DOMAIN pools -> PoolRecord]
    /\ \A i \in DOMAIN pools :
        /\ pools'[i].conf = pools[i].conf
        /\ pools[i].closed => pools'[i].closed
        /\ {pools'[i].active, pools'[i].target} \subseteq DOMAIN pools[i].conf.members \cup {None}

\* The requests ask their pools for services the pools have.
ClientsFit ==
    /\ client' \in [Clients -> [pc : ClientStates, svc : ServiceNames \cup {None},
                                pool : DOMAIN pools \cup {None}]]
    /\ \A c \in Clients : client'[c].pc # "idle" =>
        /\ client'[c].pool \in DOMAIN pools
        /\ client'[c].svc \in DOMAIN pools[client'[c].pool].conf.members

LEMMA PoolsUnchanged ==
    ASSUME TypeOK, UNCHANGED pools
    PROVE  PoolsKept
BY DEF TypeOK, PoolsKept

LEMMA ClientsUnchanged ==
    ASSUME TypeOK, UNCHANGED client
    PROVE  ClientsFit
BY DEF TypeOK, ClientsFit

\* One pool changes.
LEMMA PoolUpdated ==
    ASSUME TypeOK, NEW i \in DOMAIN pools, NEW x \in PoolRecord,
           x.conf = pools[i].conf, pools[i].closed => x.closed,
           {x.active, x.target} \subseteq DOMAIN pools[i].conf.members \cup {None},
           pools' = [pools EXCEPT ![i] = x]
    PROVE  PoolsKept
<1>1. pools \in [DOMAIN pools -> PoolRecord]
  BY DEF TypeOK
<1>2. /\ DOMAIN pools' = DOMAIN pools /\ pools' \in [DOMAIN pools -> PoolRecord]
      /\ \A k \in DOMAIN pools : pools'[k] = IF k = i THEN x ELSE pools[k]
  BY <1>1
<1> QED
  BY <1>2 DEF TypeOK, PoolsKept

\* Some requests that are in a pool move on.
LEMMA ClientsMoved ==
    ASSUME TypeOK, NEW cs \in SUBSET Clients, \A c \in cs : client[c].pc # "idle",
           NEW kind \in [cs -> ClientStates],
           client' = [c \in Clients |->
                        IF c \in cs THEN [client[c] EXCEPT !.pc = kind[c]] ELSE client[c]]
    PROVE  ClientsFit
<1>1. client \in [Clients -> [pc : ClientStates, svc : ServiceNames \cup {None},
                              pool : DOMAIN pools \cup {None}]]
  BY DEF TypeOK
<1>2. ASSUME NEW c \in Clients
      PROVE  /\ client'[c] \in [pc : ClientStates, svc : ServiceNames \cup {None},
                                pool : DOMAIN pools \cup {None}]
             /\ client'[c].svc = client[c].svc /\ client'[c].pool = client[c].pool
             /\ client'[c].pc # "idle" => client[c].pc # "idle"
  BY <1>1
<1>3. client' \in [Clients -> [pc : ClientStates, svc : ServiceNames \cup {None},
                               pool : DOMAIN pools \cup {None}]]
  BY <1>2
<1> QED
  BY <1>2, <1>3 DEF TypeOK, ClientsFit

LEMMA ClientsMovedTo ==
    ASSUME TypeOK, NEW cs \in SUBSET Clients, \A c \in cs : client[c].pc # "idle",
           NEW pc \in ClientStates, client' = Moved(cs, pc)
    PROVE  ClientsFit
<1> DEFINE kind == [c \in cs |-> pc]
<1>1. kind \in [cs -> ClientStates] /\ \A c \in cs : kind[c] = pc
  OBVIOUS
<1>2. client' = [c \in Clients |->
                    IF c \in cs THEN [client[c] EXCEPT !.pc = kind[c]] ELSE client[c]]
  BY <1>1 DEF Moved
<1> HIDE DEF kind
<1> QED
  BY <1>1, <1>2, ClientsMoved

LEMMA ClientsLetThrough ==
    ASSUME TypeOK, NEW cs \in SUBSET Clients, \A c \in cs : client[c].pc # "idle",
           LetThrough(cs)
    PROVE  ClientsFit
<1>1. PICK kind \in [cs -> {"proxied", "hijacked"}] :
        client' = [c \in Clients |->
            IF c \in cs THEN [client[c] EXCEPT !.pc = kind[c]] ELSE client[c]]
  BY DEF LetThrough
<1>2. kind \in [cs -> ClientStates]
  BY DEF ClientStates
<1> QED
  BY <1>1, <1>2, ClientsMoved

\* Such steps keep the invariant, if they keep the lock's.
LEMMA KeptInv ==
    ASSUME Inv, PoolsKept, ClientsFit, UNCHANGED <<rt, routes, job>>,
           file' \in Edits \cup {BootFile}, left' \in 0 .. MaxEdits, server' \in RunStates,
           mu' \in Reloaders \cup {None, "run"}, LockInv'
    PROVE  Inv'
<1>0. TypeOK /\ JobInv /\ IdInv /\ AccountedFor /\ RoutesInv /\ RuntimeConsistent
  BY DEF Inv
<1>1. TypeOK'
  BY <1>0 DEF TypeOK, PoolsKept, ClientsFit
<1>2. JobInv' /\ RoutesInv'
  BY <1>0 DEF JobInv, RoutesInv, RoutesOf, Owner
<1>3. IdInv'
  BY <1>0 DEF IdInv, PoolsKept
<1>4. AccountedFor'
  BY <1>0 DEF AccountedFor, Current, PoolsKept
<1>5. RuntimeConsistent'
  <2>1. \A p \in DOMAIN rt.pools : rt.pools[p] \in DOMAIN pools
    BY <1>0 DEF TypeOK
  <2> QED
    BY <1>0, <2>1 DEF RuntimeConsistent, PoolsKept
<1> QED
  BY <1>1, <1>2, <1>3, <1>4, <1>5 DEF Inv

\* Requests and pools.
LEMMA ApartInv ==
    ASSUME Inv, PoolsKept, ClientsFit, UNCHANGED <<file, reloadVars, server, left>>
    PROVE  Inv'
<1>1. /\ UNCHANGED <<rt, routes, job, mu>>
      /\ file' \in Edits \cup {BootFile} /\ left' \in 0 .. MaxEdits /\ server' \in RunStates
      /\ mu' \in Reloaders \cup {None, "run"}
  BY DEF reloadVars, Inv, TypeOK
<1>2. LockInv'
  BY <1>1 DEF Inv, LockInv
<1> QED
  BY <1>1, <1>2, KeptInv

LEMMA ClientKeepsInv ==
    ASSUME Inv, NEW c \in Clients, ClientNext(c)
    PROVE  Inv'
<1>0. /\ TypeOK /\ RuntimeConsistent /\ {c} \in SUBSET Clients
      /\ {"wait", "done", "relay"} \subseteq ClientStates
  BY DEF Inv, ClientStates
<1>1. UNCHANGED <<file, reloadVars, pools, server, left>>
  BY DEF ClientNext, Accept, Admit, Released, EndResponse, Track, EndTunnel
<1>2. CASE Accept(c)
  <2>1. PICK s \in DOMAIN rt.cfg.services, p \in DOMAIN rt.pools :
          /\ rt.cfg.services[s].pool = p
          /\ client' = [client EXCEPT ![c] = [pc |-> "admit", svc |-> s, pool |-> rt.pools[p]]]
    BY <1>2 DEF Accept
  <2>2. /\ rt.pools[p] \in DOMAIN pools /\ s \in ServiceNames
        /\ s \in DOMAIN pools[rt.pools[p]].conf.members
    BY <1>0, <2>1, ConfigMembers, RevisionNames DEF TypeOK, RuntimeConsistent, Members
  <2>3. ClientsFit
    BY <1>0, <2>1, <2>2 DEF TypeOK, ClientsFit, ClientStates
  <2> QED
    BY <1>0, <1>1, <2>3, PoolsUnchanged, ApartInv
<1>3. CASE client[c].pc # "idle" /\ \E pc \in {"wait", "done", "relay"} : client' = Moved({c}, pc)
  BY <1>0, <1>1, <1>3, ClientsMovedTo, PoolsUnchanged, ApartInv
<1>4. CASE client[c].pc # "idle" /\ LetThrough({c})
  BY <1>0, <1>1, <1>4, ClientsLetThrough, PoolsUnchanged, ApartInv
<1> QED
  BY <1>2, <1>3, <1>4 DEF ClientNext, Admit, Released, EndResponse, Track, EndTunnel

LEMMA PoolKeepsInv ==
    ASSUME Inv, NEW i \in DOMAIN pools, PoolNext(i)
    PROVE  Inv'
<1>0. /\ TypeOK /\ pools[i] \in PoolRecord /\ DOMAIN pools[i].conf.members \subseteq ServiceNames
      /\ {pools[i].active, pools[i].target} \subseteq DOMAIN pools[i].conf.members \cup {None}
  <2>1. TypeOK /\ pools[i] \in PoolRecord
    BY DEF Inv, TypeOK
  <2>2. PICK d \in Revisions : \E p \in DOMAIN d.pools : pools[i].conf = PoolConfig(d, p)
    BY <2>1 DEF PoolRecord, PoolConfigs
  <2>3. DOMAIN pools[i].conf.members \subseteq ServiceNames
    BY <2>2, ConfigMembers, RevisionNames DEF Members
  <2> QED
    BY <2>1, <2>3 DEF TypeOK
<1>1. UNCHANGED <<file, reloadVars, server, left>>
  BY DEF PoolNext, BeginSwap, SwapComplete, SwapFailed, GoCold, ManagerStops
<1>2. ASSUME NEW s PROVE /\ Waiting(i, s) \in SUBSET Clients
                         /\ \A c \in Waiting(i, s) : client[c].pc # "idle"
  BY DEF Waiting
<1>3. CASE BeginSwap(i)
  <2>1. PICK s \in DOMAIN pools[i].conf.members :
          pools' = [pools EXCEPT ![i].target = s, ![i].active = None]
    BY <1>3 DEF BeginSwap
  <2> DEFINE x == [pools[i] EXCEPT !.target = s, !.active = None]
  <2>2. x \in PoolRecord /\ x.conf = pools[i].conf /\ x.closed = pools[i].closed
        /\ {x.active, x.target} \subseteq DOMAIN pools[i].conf.members \cup {None}
    BY <1>0 DEF PoolRecord
  <2>3. pools' = [pools EXCEPT ![i] = x]
    BY <1>0, <2>1 DEF TypeOK, PoolRecord
  <2> HIDE DEF x
  <2> QED
    BY <1>0, <1>1, <1>3, <2>2, <2>3, PoolUpdated, ClientsUnchanged, ApartInv DEF BeginSwap
<1>4. CASE SwapComplete(i)
  <2> DEFINE x == [pools[i] EXCEPT !.active = pools[i].target, !.target = None]
  <2>1. x \in PoolRecord /\ x.conf = pools[i].conf /\ x.closed = pools[i].closed
        /\ {x.active, x.target} \subseteq DOMAIN pools[i].conf.members \cup {None}
    BY <1>0 DEF PoolRecord
  <2>2. pools' = [pools EXCEPT ![i] = x]
    BY <1>0, <1>4 DEF TypeOK, PoolRecord, SwapComplete
  <2>3. LetThrough(Waiting(i, pools[i].target))
    BY <1>4 DEF SwapComplete
  <2> HIDE DEF x
  <2> QED
    BY <1>0, <1>1, <1>2, <2>1, <2>2, <2>3, PoolUpdated, ClientsLetThrough, ApartInv
<1>5. CASE SwapFailed(i)
  <2> DEFINE x == [pools[i] EXCEPT !.target = None]
  <2>1. x \in PoolRecord /\ x.conf = pools[i].conf /\ x.closed = pools[i].closed
        /\ {x.active, x.target} \subseteq DOMAIN pools[i].conf.members \cup {None}
    BY <1>0 DEF PoolRecord
  <2>2. pools' = [pools EXCEPT ![i] = x]
    BY <1>0, <1>5 DEF TypeOK, PoolRecord, SwapFailed
  <2>3. client' = Moved(Waiting(i, pools[i].target), "done") /\ "done" \in ClientStates
    BY <1>5 DEF SwapFailed, ClientStates
  <2> HIDE DEF x
  <2> QED
    BY <1>0, <1>1, <1>2, <2>1, <2>2, <2>3, PoolUpdated, ClientsMovedTo, ApartInv
<1>6. CASE GoCold(i)
  <2> DEFINE x == [pools[i] EXCEPT !.active = None]
  <2>1. x \in PoolRecord /\ x.conf = pools[i].conf /\ x.closed = pools[i].closed
        /\ {x.active, x.target} \subseteq DOMAIN pools[i].conf.members \cup {None}
    BY <1>0 DEF PoolRecord
  <2>2. pools' = [pools EXCEPT ![i] = x]
    BY <1>0, <1>6 DEF TypeOK, PoolRecord, GoCold
  <2> HIDE DEF x
  <2> QED
    BY <1>0, <1>1, <1>6, <2>1, <2>2, PoolUpdated, ClientsUnchanged, ApartInv DEF GoCold
<1>7. CASE ManagerStops(i)
  <2> DEFINE x == [pools[i] EXCEPT !.stopped = TRUE, !.active = None, !.target = None]
  <2>1. x \in PoolRecord /\ x.conf = pools[i].conf /\ x.closed = pools[i].closed
        /\ {x.active, x.target} \subseteq DOMAIN pools[i].conf.members \cup {None}
    BY <1>0 DEF PoolRecord
  <2>2. pools' = [pools EXCEPT ![i] = x]
    BY <1>0, <1>7 DEF TypeOK, PoolRecord, ManagerStops
  <2> HIDE DEF x
  <2> QED
    BY <1>0, <1>1, <1>7, <2>1, <2>2, PoolUpdated, ClientsUnchanged, ApartInv DEF ManagerStops
<1> QED
  BY <1>3, <1>4, <1>5, <1>6, <1>7 DEF PoolNext

\* Close sets one flag of one pool.
LEMMA ClosedKept ==
    ASSUME TypeOK, NEW i \in DOMAIN pools, pools' = Closed(i)
    PROVE  /\ PoolsKept /\ pools'[i].closed
           /\ \A k \in DOMAIN pools : k # i => pools'[k] = pools[k]
<1> DEFINE x == [pools[i] EXCEPT !.closed = TRUE]
<1>0. pools[i] \in PoolRecord /\ pools \in [DOMAIN pools -> PoolRecord]
  BY DEF TypeOK
<1>1. /\ x \in PoolRecord /\ x.conf = pools[i].conf /\ x.closed
      /\ {x.active, x.target} \subseteq DOMAIN pools[i].conf.members \cup {None}
  BY <1>0 DEF TypeOK, PoolRecord
<1>2. pools' = [pools EXCEPT ![i] = x]
  BY <1>0 DEF Closed, PoolRecord
<1> HIDE DEF x
<1> QED
  BY <1>0, <1>1, <1>2, PoolUpdated

\* Run and Close.
LEMMA RunKeepsInv ==
    ASSUME Inv, RunNext
    PROVE  Inv'
<1>0. /\ TypeOK /\ LockInv /\ {"signalled", "closing", "closed", "drain", "exited"} \subseteq RunStates
      /\ None \notin Reloaders /\ "run" \notin Reloaders /\ None # "run"
  BY ServerAssumption DEF Inv, RunStates
<1>1. /\ UNCHANGED <<file, rt, routes, job, left>>
      /\ file' \in Edits \cup {BootFile} /\ left' \in 0 .. MaxEdits /\ server' \in RunStates
  BY <1>0 DEF RunNext, Signal, LockForClose, ClosePool, CloseTunnels, StopListening, Exit,
     reloadVars, TypeOK
<1>2. CASE Signal \/ StopListening \/ Exit
  <2>1. UNCHANGED <<mu, pools, client>> /\ server # "closing" /\ server' # "closing"
    BY <1>2 DEF Signal, StopListening, Exit, reloadVars
  <2>2. LockInv' /\ mu' \in Reloaders \cup {None, "run"}
    BY <1>0, <1>1, <2>1 DEF LockInv, TypeOK
  <2> QED
    BY <1>0, <1>1, <2>1, <2>2, PoolsUnchanged, ClientsUnchanged, KeptInv
<1>3. CASE LockForClose
  <2>1. UNCHANGED <<pools, client>>
    BY <1>3 DEF LockForClose
  <2>2. LockInv' /\ mu' \in Reloaders \cup {None, "run"}
    BY <1>0, <1>1, <1>3 DEF LockForClose, LockInv, TypeOK
  <2> QED
    BY <1>0, <1>1, <2>1, <2>2, PoolsUnchanged, ClientsUnchanged, KeptInv
<1>4. CASE ClosePool
  <2>1. UNCHANGED <<mu, client, server>>
    BY <1>4 DEF ClosePool, reloadVars
  <2>2. LockInv' /\ mu' \in Reloaders \cup {None, "run"}
    BY <1>0, <1>1, <2>1 DEF LockInv, TypeOK
  <2>3. PICK i \in DOMAIN pools : pools' = Closed(i)
    BY <1>0, <1>4 DEF ClosePool, Current, TypeOK
  <2> QED
    BY <1>0, <1>1, <2>1, <2>2, <2>3, ClosedKept, ClientsUnchanged, KeptInv
<1>5. CASE CloseTunnels
  <2> DEFINE cs == {c \in Clients : client[c].pc = "relay"}
  <2>1. UNCHANGED pools /\ client' = Moved(cs, "done") /\ "done" \in ClientStates
    BY <1>5 DEF CloseTunnels, ClientStates
  <2>2. LockInv' /\ mu' \in Reloaders \cup {None, "run"}
    BY <1>0, <1>1, <1>5 DEF CloseTunnels, LockInv, TypeOK
  <2>3. cs \in SUBSET Clients /\ \A c \in cs : client[c].pc # "idle"
    OBVIOUS
  <2> HIDE DEF cs
  <2> QED
    BY <1>0, <1>1, <2>1, <2>2, <2>3, PoolsUnchanged, ClientsMovedTo, KeptInv
<1> QED
  BY <1>2, <1>3, <1>4, <1>5 DEF RunNext

LEMMA EditKeepsInv ==
    ASSUME Inv, Edit
    PROVE  Inv'
<1>0. TypeOK /\ LockInv /\ UNCHANGED <<rt, routes, job, mu, pools, server, client>>
  BY DEF Inv, Edit, reloadVars
<1>1. file' \in Edits \cup {BootFile}
  BY DEF Edit
<1>2. left' \in 0 .. MaxEdits
  BY <1>0, ServerAssumption DEF Edit, TypeOK
<1>3. LockInv' /\ server' \in RunStates /\ mu' \in Reloaders \cup {None, "run"}
  BY <1>0 DEF LockInv, TypeOK
<1> QED
  BY <1>0, <1>1, <1>2, <1>3, PoolsUnchanged, ClientsUnchanged, KeptInv

-----------------------------------------------------------------------------
(* The reload.                                                             *)

JobRecord == [pc : JobStates, cfg : Revisions \cup {None}, todo : SUBSET DOMAIN pools]

\* Only the holder of the lock has pools to close.
LEMMA HolderOnly ==
    ASSUME Inv, NEW j \in Reloaders, job[j].pc \in {"locked", "stored", "synced"}
    PROVE  /\ mu = j
           /\ \A k \in Reloaders : k # j =>
                job[k].pc \notin {"locked", "stored", "synced"} /\ job[k].todo = {}
<1>1. mu = j
  BY DEF Inv, LockInv
<1>2. \A k \in Reloaders : k # j => job[k].pc \notin {"locked", "stored", "synced"}
  BY <1>1 DEF Inv, LockInv
<1> QED
  BY <1>1, <1>2 DEF Inv, JobInv

\* A reload moves on, and neither the runtime nor a pool changes.
LEMMA JobMoves ==
    ASSUME Inv, NEW j \in Reloaders, NEW n \in JobRecord, job' = [job EXCEPT ![j] = n],
           UNCHANGED <<file, rt, pools, server, client, left>>,
           n.todo = job[j].todo,
           n.pc \in {"lock", "locked"} => n.cfg \in Revisions,
           n.pc \notin {"stored", "synced"} => n.todo = {},
           mu' \in Reloaders \cup {None, "run"}, LockInv', RoutesInv'
    PROVE  Inv'
<1>0. TypeOK /\ JobInv /\ IdInv /\ AccountedFor /\ RuntimeConsistent
  BY DEF Inv
<1>1. /\ job \in [Reloaders -> JobRecord] /\ job' \in [Reloaders -> JobRecord]
      /\ job'[j] = n /\ \A k \in Reloaders : k # j => job'[k] = job[k]
  BY <1>0 DEF TypeOK, JobRecord
<1>2. TypeOK'
  BY <1>0, <1>1 DEF TypeOK, JobRecord
<1>3. JobInv'
  BY <1>0, <1>1 DEF JobInv
<1>4. IdInv' /\ RuntimeConsistent'
  BY <1>0 DEF IdInv, RuntimeConsistent
<1>5. AccountedFor'
  <2>1. \A k \in Reloaders : job'[k].todo = job[k].todo
    BY <1>1
  <2> QED
    BY <1>0, <2>1 DEF AccountedFor, Current
<1> QED
  BY <1>2, <1>3, <1>4, <1>5 DEF Inv

LEMMA JobFacts ==
    ASSUME TypeOK, NEW j \in Reloaders
    PROVE  job[j] \in JobRecord /\ job \in [Reloaders -> JobRecord]
BY DEF TypeOK, JobRecord

\* The reload is over, and left no pool to close.
LEMMA JobEnds ==
    ASSUME Inv, NEW j \in Reloaders, EndJob(j), job[j].todo = {},
           UNCHANGED <<file, rt, routes, pools, server, client, left>>,
           \/ job[j].pc \notin {"locked", "stored", "synced"} /\ UNCHANGED mu
           \/ job[j].pc = "synced" /\ mu' = None
    PROVE  Inv'
<1> DEFINE n == [NoJob EXCEPT !.pc = "done"]
<1>0. TypeOK /\ LockInv /\ RoutesInv /\ None \notin Reloaders
  BY ServerAssumption DEF Inv
<1>1. n = [pc |-> "done", cfg |-> None, todo |-> {}]
  BY DEF NoJob
<1>2. n \in JobRecord /\ n.todo = {} /\ n.pc = "done"
  BY <1>1 DEF JobRecord, JobStates
<1>3. job' = [job EXCEPT ![j] = n]
  BY DEF EndJob
<1> HIDE DEF n
<1>4. job'[j] = n /\ \A k \in Reloaders : k # j => job'[k] = job[k]
  BY <1>0, <1>3, JobFacts
<1>5. LockInv'
  <2>1. CASE job[j].pc \notin {"locked", "stored", "synced"} /\ UNCHANGED mu
    BY <1>0, <1>2, <1>4, <2>1 DEF LockInv
  <2>2. CASE job[j].pc = "synced" /\ mu' = None
    <3>1. mu = j /\ server # "closing"
      BY <1>0, <2>2, ServerAssumption DEF LockInv
    <3>2. \A k \in Reloaders : job'[k].pc \notin {"locked", "stored", "synced"}
      BY <1>2, <1>4, <2>2, HolderOnly
    <3>3. None # "run"
      BY ServerAssumption
    <3> QED
      BY <1>0, <2>2, <3>1, <3>2, <3>3 DEF LockInv
  <2> QED
    BY <2>1, <2>2
<1>6. RoutesInv'
  <2>1. CASE \E k \in Reloaders : k # j /\ job[k].pc = "stored"
    BY <1>4, <2>1 DEF RoutesInv
  <2>2. CASE ~\E k \in Reloaders : k # j /\ job[k].pc = "stored"
    <3>1. routes = RoutesOf(rt)
      BY <1>0, <2>2 DEF RoutesInv
    <3> QED
      BY <3>1 DEF RoutesInv, RoutesOf, Owner
  <2> QED
    BY <2>1, <2>2
<1>7. mu' \in Reloaders \cup {None, "run"}
  BY <1>0 DEF TypeOK
<1> QED
  BY <1>2, <1>3, <1>5, <1>6, <1>7, JobMoves

\* Every step of a reload but StoreRuntime.
LEMMA ReloadKeepsInv ==
    ASSUME Inv, NEW j \in Reloaders,
           ReadFile(j) \/ RejectReload(j) \/ Lock(j) \/ SyncWatcher(j) \/ CloseReplaced(j)
               \/ Unlock(j)
    PROVE  Inv'
<1>0. /\ TypeOK /\ LockInv /\ JobInv /\ RoutesInv /\ None \notin Reloaders
      /\ job[j] \in JobRecord /\ job \in [Reloaders -> JobRecord] /\ j # None /\ j # "run"
  BY ServerAssumption, JobFacts DEF Inv
<1>1. CASE ReadFile(j)
  <2>1. /\ At(j, "idle") /\ job[j].todo = {}
        /\ UNCHANGED <<file, rt, routes, mu, pools, server, client, left>>
    BY <1>0, <1>1 DEF ReadFile, JobInv, At
  <2>2. CASE Loadable(file)
    <3> DEFINE n == [job[j] EXCEPT !.pc = "lock", !.cfg = Load(file)]
    <3>1. Load(file) \in Revisions
      BY <1>0, <2>2 DEF TypeOK, Revisions
    <3>2. n \in JobRecord /\ n.pc = "lock" /\ n.cfg = Load(file) /\ n.todo = {}
      BY <1>0, <2>1, <3>1 DEF JobRecord, JobStates
    <3>3. job' = [job EXCEPT ![j] = n]
      BY <1>0, <1>1, <2>2 DEF ReadFile, JobRecord
    <3> HIDE DEF n
    <3>4. job'[j].pc = "lock" /\ \A k \in Reloaders : k # j => job'[k] = job[k]
      BY <1>0, <3>2, <3>3
    <3>5. LockInv' /\ RoutesInv'
      BY <1>0, <2>1, <3>4 DEF LockInv, RoutesInv, RoutesOf, Owner, At
    <3> QED
      BY <1>0, <2>1, <3>1, <3>2, <3>3, <3>5, JobMoves DEF TypeOK
  <2>3. CASE ~Loadable(file)
    BY <1>1, <2>1, <2>3, JobEnds DEF ReadFile, At
  <2> QED
    BY <2>2, <2>3
<1>2. CASE RejectReload(j)
  BY <1>0, <1>2, JobEnds DEF RejectReload, At, JobInv
<1>3. CASE Lock(j)
  <2> DEFINE n == [job[j] EXCEPT !.pc = "locked"]
  <2>1. /\ job[j].pc = "lock" /\ job[j].cfg \in Revisions /\ job[j].todo = {}
        /\ mu = None /\ mu' = j
        /\ UNCHANGED <<file, rt, routes, pools, server, client, left>>
    BY <1>0, <1>3 DEF Lock, At, JobInv
  <2>2. n \in JobRecord /\ n.pc = "locked" /\ n.cfg \in Revisions /\ n.todo = {}
    BY <1>0, <2>1 DEF JobRecord, JobStates
  <2>3. job' = [job EXCEPT ![j] = n]
    BY <1>0, <1>3 DEF Lock, Go, JobRecord
  <2> HIDE DEF n
  <2>4. job'[j].pc = "locked" /\ \A k \in Reloaders : k # j => job'[k] = job[k]
    BY <1>0, <2>2, <2>3
  <2>5. LockInv'
    BY <1>0, <2>1, <2>4, ServerAssumption DEF LockInv
  <2>6. RoutesInv'
    BY <1>0, <2>1, <2>4 DEF RoutesInv, RoutesOf, Owner
  <2> QED
    BY <2>1, <2>2, <2>3, <2>5, <2>6, JobMoves
<1>4. CASE SyncWatcher(j)
  <2> DEFINE n == [job[j] EXCEPT !.pc = "synced"]
  <2>1. /\ job[j].pc = "stored" /\ routes' = RoutesOf(rt)
        /\ UNCHANGED <<file, rt, mu, pools, server, client, left>>
    BY <1>4 DEF SyncWatcher, At
  <2>2. n \in JobRecord /\ n.pc = "synced" /\ n.todo = job[j].todo
    BY <1>0 DEF JobRecord, JobStates
  <2>3. job' = [job EXCEPT ![j] = n]
    BY <1>0, <1>4 DEF SyncWatcher, Go, JobRecord
  <2> HIDE DEF n
  <2>4. job'[j].pc = "synced" /\ \A k \in Reloaders : k # j => job'[k] = job[k]
    BY <1>0, <2>2, <2>3
  <2>5. LockInv' /\ RoutesInv'
    BY <1>0, <2>1, <2>4 DEF LockInv, RoutesInv, RoutesOf, Owner
  <2> QED
    BY <1>0, <2>1, <2>2, <2>3, <2>5, JobMoves DEF TypeOK
<1>5. CASE CloseReplaced(j)
  <2>1. PICK i \in job[j].todo : pools' = Closed(i) /\ job' = [job EXCEPT ![j].todo = @ \ {i}]
    BY <1>5 DEF CloseReplaced
  <2> DEFINE n == [job[j] EXCEPT !.todo = @ \ {i}]
  <2>2. /\ job[j].pc = "synced" /\ UNCHANGED <<file, rt, routes, mu, server, client, left>>
    BY <1>5 DEF CloseReplaced, At
  <2>3. n \in JobRecord /\ n.pc = "synced" /\ n.cfg = job[j].cfg /\ n.todo = job[j].todo \ {i}
    BY <1>0, <2>2 DEF JobRecord
  <2>4. job' = [job EXCEPT ![j] = n]
    BY <1>0, <2>1 DEF JobRecord
  <2> HIDE DEF n
  <2>5. job'[j] = n /\ \A k \in Reloaders : k # j => job'[k] = job[k]
    BY <1>0, <2>4
  <2>6. i \in DOMAIN pools
    BY <1>0, <2>1 DEF JobRecord
  <2>7. /\ PoolsKept /\ pools'[i].closed
        /\ \A k \in DOMAIN pools : k # i => pools'[k] = pools[k]
    BY <1>0, <2>1, <2>6, ClosedKept
  <2>8. job' \in [Reloaders -> JobRecord]
    BY <1>0, <2>3, <2>4
  <2>9. TypeOK'
    BY <1>0, <2>2, <2>7, <2>8 DEF TypeOK, PoolsKept, JobRecord
  <2>10. LockInv' /\ JobInv'
    BY <1>0, <2>2, <2>3, <2>5 DEF LockInv, JobInv
  <2>11. IdInv' /\ RoutesInv'
    <3>1. IdInv'
      BY <2>2, <2>7 DEF Inv, IdInv, PoolsKept
    <3>2. CASE routes = RoutesOf(rt)
      BY <2>2, <3>1, <3>2 DEF RoutesInv, RoutesOf, Owner
    <3>3. CASE \E k \in Reloaders : job[k].pc = "stored"
      BY <2>2, <2>5, <3>1, <3>3 DEF RoutesInv
    <3> QED
      BY <1>0, <3>2, <3>3 DEF RoutesInv
  <2>12. AccountedFor'
    <3>0. AccountedFor /\ Current' = Current /\ DOMAIN pools' = DOMAIN pools
      BY <2>2, <2>7 DEF Inv, Current, PoolsKept
    <3>1. \A k \in Reloaders : job'[k].todo = IF k = j THEN job[k].todo \ {i} ELSE job[k].todo
      BY <2>3, <2>5
    <3>2. \A h \in DOMAIN pools : h # i =>
            h \in Current \/ pools'[h].closed \/ \E k \in Reloaders : h \in job'[k].todo
      BY <2>7, <3>0, <3>1 DEF AccountedFor
    <3>3. \A k \in Reloaders : job'[k].todo \cap Current = {}
      BY <3>0, <3>1 DEF AccountedFor
    <3> QED
      BY <2>7, <3>0, <3>2, <3>3 DEF AccountedFor
  <2>13. RuntimeConsistent'
    <3>1. \A p \in DOMAIN rt.pools : rt.pools[p] \in DOMAIN pools
      BY <1>0 DEF TypeOK
    <3> QED
      BY <2>2, <2>7, <3>1 DEF Inv, RuntimeConsistent, PoolsKept
  <2> QED
    BY <2>9, <2>10, <2>11, <2>12, <2>13 DEF Inv
<1>6. CASE Unlock(j)
  BY <1>6, JobEnds DEF Unlock, At
<1> QED
  BY <1>1, <1>2, <1>3, <1>4, <1>5, <1>6

\* buildRuntime gives every pool of the revision a pool of its name: the one
\* that runs if its signature is the same, or one that did not exist.
LEMMA NextPoolsFacts ==
    ASSUME TypeOK, IdInv, NEW c \in Revisions, NEW p \in DOMAIN c.pools
    PROVE  /\ NextPools(c)[p] \in PoolId /\ NextPools(c)[p][2] = p
           /\ Reusable(c, p) => /\ NextPools(c)[p] = rt.pools[p] /\ NextPools(c)[p] \in DOMAIN pools
           /\ ~Reusable(c, p) =>
                /\ NextPools(c)[p] \notin DOMAIN pools
                /\ NextPools(c)[p][1] = Cardinality({i \in DOMAIN pools : i[2] = p})
<1> DEFINE named == {i \in DOMAIN pools : i[2] = p}
<1>1. IsFiniteSet(named)
  BY FS_Subset DEF IdInv
<1>2. Cardinality(named) \in Nat
  BY <1>1, FS_CardinalityType
<1>3. p \in PoolNames
  BY RevisionNames
<1>4. CASE Reusable(c, p)
  <2>1. p \in DOMAIN rt.pools /\ rt.pools[p] \in DOMAIN pools /\ rt.pools[p][2] = p
    BY <1>4 DEF Reusable, TypeOK, IdInv
  <2>2. NextPools(c)[p] = rt.pools[p]
    BY <1>4 DEF NextPools
  <2> QED
    BY <1>4, <2>1, <2>2 DEF TypeOK
<1>5. CASE ~Reusable(c, p)
  <2>1. NextPools(c)[p] = <<Cardinality(named), p>>
    BY <1>5 DEF NextPools
  <2>2. <<Cardinality(named), p>> \notin DOMAIN pools
    <3> SUFFICES ASSUME <<Cardinality(named), p>> \in DOMAIN pools PROVE FALSE
      OBVIOUS
    <3> DEFINE i == <<Cardinality(named), p>>
    <3>1. i[1] < Cardinality({k \in DOMAIN pools : k[2] = i[2]})
      BY DEF IdInv
    <3>2. {k \in DOMAIN pools : k[2] = i[2]} = named /\ i[1] = Cardinality(named)
      OBVIOUS
    <3> QED
      BY <1>2, <3>1, <3>2
  <2> HIDE DEF named
  <2>3. NextPools(c)[p] \in PoolId /\ NextPools(c)[p][2] = p /\ NextPools(c)[p][1] = Cardinality(named)
    BY <1>2, <1>3, <2>1 DEF PoolId
  <2> QED
    BY <1>5, <2>1, <2>2, <2>3 DEF named
<1> QED
  BY <1>4, <1>5

\* The pools whose signature did not change are still those they were, and
\* the others are to be closed.
LEMMA ReplacedFacts ==
    ASSUME TypeOK, IdInv, NEW c \in Revisions
    PROVE  /\ Replaced(rt.pools, NextPools(c)) \subseteq Current
           /\ \A i \in Current : \/ i \in Replaced(rt.pools, NextPools(c))
                                 \/ \E p \in DOMAIN c.pools : i = NextPools(c)[p]
           /\ \A p \in DOMAIN c.pools : NextPools(c)[p] \notin Replaced(rt.pools, NextPools(c))
<1> DEFINE next == NextPools(c)
<1>1. DOMAIN next = DOMAIN c.pools
  BY DEF NextPools
<1>2. \A p \in DOMAIN rt.pools : rt.pools[p][2] = p
  BY DEF IdInv
<1>3. \A p \in DOMAIN c.pools : next[p][2] = p
  BY NextPoolsFacts
<1> HIDE DEF next
<1>4. ASSUME NEW p \in DOMAIN c.pools, next[p] \in Replaced(rt.pools, next) PROVE FALSE
  <2>1. PICK q \in DOMAIN rt.pools : (q \notin DOMAIN next \/ rt.pools[q] # next[q]) /\ next[p] = rt.pools[q]
    BY <1>4 DEF Replaced
  <2>2. p = q
    BY <1>2, <1>3, <2>1
  <2> QED
    BY <1>1, <2>1, <2>2
<1>5. Replaced(rt.pools, next) \subseteq Current
  BY DEF Replaced, Current
<1>6. ASSUME NEW i \in Current, i \notin Replaced(rt.pools, next)
      PROVE  \E p \in DOMAIN c.pools : i = next[p]
  BY <1>1, <1>6 DEF Replaced, Current
<1> QED
  BY <1>4, <1>5, <1>6 DEF next

\* StoreRuntime puts the next runtime in place: validate has seen to it that
\* no target URL stops it half-way.
LEMMA StoreEffect ==
    ASSUME Inv, NEW j \in Reloaders, StoreRuntime(j)
    PROVE  LET c == job[j].cfg IN
           /\ job[j].pc = "locked" /\ c \in Revisions
           /\ rt' = [cfg |-> c, pools |-> NextPools(c)]
           /\ job' = [job EXCEPT ![j] = [pc |-> "stored", cfg |-> None,
                                         todo |-> Replaced(rt.pools, NextPools(c))]]
           /\ DOMAIN pools' = DOMAIN pools \cup {NextPools(c)[p] : p \in DOMAIN c.pools}
           /\ \A i \in DOMAIN pools : pools'[i] = pools[i]
           /\ \A p \in DOMAIN c.pools : ~Reusable(c, p) =>
                pools'[NextPools(c)[p]] = NewPool(PoolConfig(c, p))
           /\ pools' = [i \in DOMAIN pools' |-> pools'[i]]
           /\ UNCHANGED <<file, routes, mu, server, client, left>>
<1> DEFINE c == job[j].cfg
           next == NextPools(c)
           fresh == {next[p] : p \in DOMAIN next} \ DOMAIN pools
<1>0. job[j].pc = "locked" /\ c \in Revisions /\ TypeOK /\ IdInv
  BY DEF StoreRuntime, At, Inv, JobInv
<1>1. \A s \in DOMAIN c.services : Parses(c.services[s].target)
  BY <1>0, RevisionFacts DEF Valid, ValidService, Parses
<1>2. pools' = [i \in DOMAIN pools \cup fresh |->
                    IF i \in fresh THEN NewPool(PoolConfig(c, i[2])) ELSE pools[i]]
  BY DEF StoreRuntime
<1>3. /\ rt' = [cfg |-> c, pools |-> next]
      /\ job' = [job EXCEPT ![j] = [pc |-> "stored", cfg |-> None,
                                    todo |-> Replaced(rt.pools, next)]]
      /\ UNCHANGED <<file, routes, mu, server, client, left>>
  BY <1>1 DEF StoreRuntime
<1>4. DOMAIN next = DOMAIN c.pools
  BY DEF NextPools
<1>5. /\ DOMAIN pools' = DOMAIN pools \cup {next[p] : p \in DOMAIN c.pools}
      /\ \A i \in DOMAIN pools : pools'[i] = pools[i]
      /\ pools' = [i \in DOMAIN pools' |-> pools'[i]]
  <2> HIDE DEF next
  <2> QED
    BY <1>2, <1>4
<1>6. ASSUME NEW p \in DOMAIN c.pools, ~Reusable(c, p)
      PROVE  pools'[next[p]] = NewPool(PoolConfig(c, p))
  <2>1. next[p] \notin DOMAIN pools /\ next[p][2] = p
    BY <1>0, <1>6, NextPoolsFacts
  <2> HIDE DEF next
  <2>2. next[p] \in fresh
    BY <1>4, <2>1
  <2> QED
    BY <1>2, <2>1, <2>2
<1> QED
  BY <1>0, <1>3, <1>5, <1>6

\* The number a new pool gets is free, and the next one will be.
LEMMA StoreKeepsIds ==
    ASSUME Inv, NEW j \in Reloaders, StoreRuntime(j)
    PROVE  IdInv'
<1> DEFINE c == job[j].cfg
           next == NextPools(c)
           fresh == {next[p] : p \in DOMAIN c.pools}
           Named(S, p) == {k \in S : k[2] = p}
<1>0. c \in Revisions /\ TypeOK /\ IdInv
  BY StoreEffect DEF Inv
<1>n. DOMAIN next = DOMAIN c.pools /\ next = [p \in DOMAIN c.pools |-> next[p]]
  BY DEF NextPools
<1>r. rt' = [cfg |-> c, pools |-> next] /\ DOMAIN pools' = DOMAIN pools \cup fresh
  BY StoreEffect
<1>1. rt'.pools = next /\ DOMAIN pools' = DOMAIN pools \cup fresh /\ DOMAIN next = DOMAIN c.pools
  BY <1>n, <1>r
<1>2. IsFiniteSet(fresh)
  <2>1. IsFiniteSet(DOMAIN c.pools)
    BY <1>0, RevisionFacts
  <2> HIDE DEF c, next
  <2>2. next \in Surjection(DOMAIN c.pools, fresh)
    BY <1>n DEF Surjection
  <2> HIDE DEF fresh
  <2> QED
    BY <2>1, <2>2, FS_Surjection
<1>3. IsFiniteSet(DOMAIN pools')
  <2>1. IsFiniteSet(DOMAIN pools)
    BY <1>0 DEF IdInv
  <2> HIDE DEF fresh
  <2>2. IsFiniteSet(DOMAIN pools \cup fresh)
    BY <1>2, <2>1, FS_Union
  <2> QED
    BY <1>1, <2>2
<1>4. \A p \in DOMAIN next : next[p][2] = p
  BY <1>0, <1>1, NextPoolsFacts
<1>5. ASSUME NEW i \in DOMAIN pools' PROVE i[1] < Cardinality(Named(DOMAIN pools', i[2]))
  <2> DEFINE old == Named(DOMAIN pools, i[2])
             new == Named(DOMAIN pools', i[2])
  <2>1. IsFiniteSet(new) /\ old \subseteq new
    BY <1>1, <1>3, FS_Subset
  <2>2. /\ IsFiniteSet(old) /\ Cardinality(old) <= Cardinality(new)
        /\ Cardinality(old) \in Nat /\ Cardinality(new) \in Nat
    BY <2>1, FS_Subset, FS_CardinalityType
  <2>3. CASE i \in DOMAIN pools
    <3>1. i[1] < Cardinality(old) /\ i[1] \in Nat
      BY <1>0, <2>3 DEF IdInv, TypeOK, PoolId
    <3> QED
      BY <2>2, <3>1
  <2>4. CASE i \notin DOMAIN pools
    <3>1. PICK p \in DOMAIN c.pools : i = next[p]
      BY <1>1, <2>4
    <3>2. i[2] = p /\ i[1] = Cardinality(Named(DOMAIN pools, p))
      BY <1>0, <2>4, <3>1, NextPoolsFacts
    <3> HIDE DEF c, next
    <3>3. i \in new /\ i \notin old
      BY <2>4
    <3>4. Cardinality(old \cup {i}) = Cardinality(old) + 1 /\ IsFiniteSet(old \cup {i})
      BY <2>2, <3>3, FS_AddElement
    <3>5. old \cup {i} \subseteq new
      BY <2>1, <3>3
    <3>6. Cardinality(old \cup {i}) <= Cardinality(new)
      BY <2>1, <3>5, FS_Subset
    <3>7. i[1] = Cardinality(old)
      BY <3>2
    <3> HIDE DEF old, new
    <3>8. i[1] < Cardinality(new)
      BY <2>2, <3>4, <3>6, <3>7
    <3> QED
      BY <3>8 DEF new
  <2> QED
    BY <2>3, <2>4
<1> QED
  BY <1>1, <1>3, <1>4, <1>5 DEF IdInv

\* Storing the next runtime keeps the invariant: the pools that are reused are
\* configured as the new revision says, and those that are not are on the
\* reload's list.
LEMMA StoreKeepsInv ==
    ASSUME Inv, NEW j \in Reloaders, StoreRuntime(j)
    PROVE  Inv'
<1> DEFINE c == job[j].cfg
           next == NextPools(c)
           todo == Replaced(rt.pools, next)
           n == [pc |-> "stored", cfg |-> None, todo |-> todo]
<1>0. /\ TypeOK /\ LockInv /\ JobInv /\ IdInv /\ AccountedFor /\ RoutesInv /\ RuntimeConsistent
      /\ job \in [Reloaders -> JobRecord]
  BY JobFacts DEF Inv
<1>1. job[j].pc = "locked" /\ c \in Revisions /\ UNCHANGED <<file, routes, mu, server, client, left>>
  BY StoreEffect
<1>2. rt' = [cfg |-> c, pools |-> next] /\ job' = [job EXCEPT ![j] = n]
  BY StoreEffect
<1>3. DOMAIN pools' = DOMAIN pools \cup {next[p] : p \in DOMAIN c.pools}
  BY StoreEffect
<1>4. /\ \A i \in DOMAIN pools : pools'[i] = pools[i]
      /\ pools' = [i \in DOMAIN pools' |-> pools'[i]]
  BY StoreEffect
<1>5. ASSUME NEW p \in DOMAIN c.pools
      PROVE  /\ next[p] \in PoolId
             /\ Reusable(c, p) => next[p] = rt.pools[p] /\ next[p] \in DOMAIN pools
             /\ ~Reusable(c, p) => pools'[next[p]] = NewPool(PoolConfig(c, p))
  BY <1>0, <1>1, <1>5, NextPoolsFacts, StoreEffect
<1>6. DOMAIN next = DOMAIN c.pools /\ next = [p \in DOMAIN c.pools |-> next[p]]
  BY DEF NextPools
<1>7. /\ todo \subseteq Current
      /\ \A i \in Current : i \in todo \/ \E p \in DOMAIN c.pools : i = next[p]
      /\ \A p \in DOMAIN c.pools : next[p] \notin todo
  BY <1>0, <1>1, ReplacedFacts
<1>8. mu = j /\ \A k \in Reloaders : k # j =>
                    job[k].pc \notin {"locked", "stored", "synced"} /\ job[k].todo = {}
  BY <1>1, HolderOnly
<1>9. job[j].todo = {}
  BY <1>0, <1>1 DEF JobInv
<1>10. \A p \in DOMAIN c.pools : PoolConfig(c, p) \in PoolConfigs
  BY <1>1, RevisionNames
<1>11. ASSUME NEW p \in DOMAIN c.pools PROVE pools'[next[p]].conf = PoolConfig(c, p)
  <2>1. CASE Reusable(c, p)
    <3>1. p \in DOMAIN rt.pools /\ PoolConfig(rt.cfg, p) = PoolConfig(c, p)
      BY <2>1, SignatureDetermines DEF Reusable
    <3>2. pools'[next[p]] = pools[rt.pools[p]]
      BY <1>4, <1>5, <2>1
    <3>3. pools[rt.pools[p]].conf = PoolConfig(rt.cfg, p)
      BY <1>0, <3>1 DEF RuntimeConsistent
    <3> QED
      BY <3>1, <3>2, <3>3
  <2>2. CASE ~Reusable(c, p)
    <3>1. pools'[next[p]] = NewPool(PoolConfig(c, p))
      BY <1>5, <2>2
    <3> HIDE DEF c, next
    <3> QED
      BY <3>1 DEF NewPool
  <2> QED
    BY <2>1, <2>2
<1> HIDE DEF c, next, todo
<1>12. Current' = {next[p] : p \in DOMAIN c.pools}
  BY <1>2, <1>6 DEF Current
<1>13. todo \subseteq DOMAIN pools /\ Current \subseteq DOMAIN pools
  BY <1>0, <1>7 DEF Current, TypeOK
<1>14. job'[j] = n /\ \A k \in Reloaders : k # j => job'[k] = job[k]
  BY <1>0, <1>2
<1>15. ASSUME NEW i \in DOMAIN pools'
       PROVE  /\ pools'[i] \in PoolRecord
              /\ {pools'[i].active, pools'[i].target} \subseteq DOMAIN pools'[i].conf.members \cup {None}
  <2>1. CASE i \in DOMAIN pools
    BY <1>0, <1>4, <2>1 DEF TypeOK
  <2>2. CASE i \notin DOMAIN pools
    <3>1. PICK p \in DOMAIN c.pools : i = next[p]
      BY <1>3, <2>2
    <3>2. pools'[i] = NewPool(PoolConfig(c, p)) /\ PoolConfig(c, p) \in PoolConfigs
      BY <1>5, <1>10, <2>2, <3>1
    <3> QED
      BY <3>2 DEF NewPool, PoolRecord
  <2> QED
    BY <2>1, <2>2
<1>16. TypeOK'
  <2>1. rt'.cfg \in Revisions /\ rt'.pools \in [DOMAIN rt'.cfg.pools -> DOMAIN pools']
    BY <1>1, <1>2, <1>3, <1>6
  <2>2. DOMAIN pools' \subseteq PoolId
    BY <1>0, <1>3, <1>5 DEF TypeOK
  <2>3. pools' \in [DOMAIN pools' -> PoolRecord]
    BY <1>4, <1>15
  <2>4. job' \in [Reloaders -> [pc : JobStates, cfg : Revisions \cup {None},
                                todo : SUBSET DOMAIN pools']]
    <3>1. n \in [pc : JobStates, cfg : Revisions \cup {None}, todo : SUBSET DOMAIN pools']
      BY <1>3, <1>13 DEF JobStates
    <3>2. \A k \in Reloaders :
            job[k] \in [pc : JobStates, cfg : Revisions \cup {None}, todo : SUBSET DOMAIN pools']
      BY <1>0, <1>3 DEF JobRecord
    <3> HIDE DEF n
    <3> QED
      BY <1>0, <1>2, <3>1, <3>2
  <2>5. client' \in [Clients -> [pc : ClientStates, svc : ServiceNames \cup {None},
                                 pool : DOMAIN pools' \cup {None}]]
    BY <1>0, <1>1, <1>3 DEF TypeOK
  <2>6. \A d \in Clients : client'[d].pc # "idle" =>
            /\ client'[d].pool \in DOMAIN pools'
            /\ client'[d].svc \in DOMAIN pools'[client'[d].pool].conf.members
    BY <1>0, <1>1, <1>3, <1>4 DEF TypeOK
  <2> QED
    BY <1>0, <1>1, <1>15, <2>1, <2>2, <2>3, <2>4, <2>5, <2>6 DEF TypeOK
<1>17. LockInv'
  BY <1>0, <1>1, <1>8, <1>14 DEF LockInv
<1>18. JobInv'
  BY <1>0, <1>14 DEF JobInv
<1>19. AccountedFor'
  <2>1. ASSUME NEW i \in DOMAIN pools'
        PROVE  i \in Current' \/ pools'[i].closed \/ i \in todo
    <3>1. CASE i \in DOMAIN pools
      <4>1. i \in Current \/ pools[i].closed
        BY <1>0, <1>8, <1>9, <3>1 DEF AccountedFor
      <4> QED
        BY <1>4, <1>7, <1>12, <3>1, <4>1
    <3>2. CASE i \notin DOMAIN pools
      BY <1>3, <1>12, <3>2
    <3> QED
      BY <3>1, <3>2
  <2>2. job'[j].todo = todo /\ \A k \in Reloaders : k # j => job'[k].todo = {}
    <3>1. job'[j].todo = todo
      BY <1>14
    <3>2. \A k \in Reloaders : k # j => job'[k].todo = {}
      BY <1>8, <1>14, Zenon
    <3> QED
      BY <3>1, <3>2
  <2>3. todo \cap Current' = {}
    BY <1>7, <1>12
  <2> QED
    BY <2>1, <2>2, <2>3 DEF AccountedFor
<1>20. RoutesInv'
  BY <1>14 DEF RoutesInv
<1>21. RuntimeConsistent'
  BY <1>2, <1>6, <1>11 DEF RuntimeConsistent
<1> QED
  BY <1>16, <1>17, <1>18, <1>19, <1>20, <1>21, StoreKeepsIds DEF Inv

-----------------------------------------------------------------------------
(* The theorems.                                                           *)

\* StageHand starts with the invariant.
LEMMA InitInv == Init => Inv
<1> SUFFICES ASSUME Init PROVE Inv
  OBVIOUS
<1> DEFINE c == Load(BootFile)
           ids == {<<0, p>> : p \in DOMAIN c.pools}
<1>0. c \in Revisions /\ IsFiniteSet(DOMAIN c.pools) /\ DOMAIN c.pools \subseteq PoolNames
  BY BootIsRevision, RevisionFacts, RevisionNames
<1>1. /\ rt = [cfg |-> c, pools |-> [p \in DOMAIN c.pools |-> <<0, p>>]]
      /\ pools = [i \in ids |-> NewPool(PoolConfig(c, i[2]))]
      /\ file = BootFile /\ routes = RoutesOf(rt) /\ mu = None
      /\ job = [j \in Reloaders |-> NoJob] /\ server = "serve" /\ left = MaxEdits
      /\ client = [d \in Clients |-> [pc |-> "idle", svc |-> None, pool |-> None]]
  BY DEF Init, BootRuntime
<1>2. \A p \in DOMAIN c.pools : PoolConfig(c, p) \in PoolConfigs
  BY <1>0, RevisionNames
<1> HIDE DEF c
<1>3. ASSUME NEW i \in ids
      PROVE  /\ i \in PoolId /\ i[1] = 0 /\ i[2] \in DOMAIN c.pools
             /\ NewPool(PoolConfig(c, i[2])) \in PoolRecord
             /\ {NewPool(PoolConfig(c, i[2])).active, NewPool(PoolConfig(c, i[2])).target} = {None}
  BY <1>0, <1>2 DEF PoolId, NewPool, PoolRecord
<1>4. TypeOK
  <2>1. pools \in [DOMAIN pools -> PoolRecord] /\ DOMAIN pools \subseteq PoolId
    BY <1>1, <1>3
  <2>2. rt.cfg \in Revisions /\ rt.pools \in [DOMAIN rt.cfg.pools -> DOMAIN pools]
    BY <1>0, <1>1
  <2>3. job \in [Reloaders -> [pc : JobStates, cfg : Revisions \cup {None},
                               todo : SUBSET DOMAIN pools]]
    BY <1>1 DEF NoJob, JobStates
  <2>4. client \in [Clients -> [pc : ClientStates, svc : ServiceNames \cup {None},
                                pool : DOMAIN pools \cup {None}]]
    BY <1>1 DEF ClientStates
  <2>5. \A i \in DOMAIN pools :
          {pools[i].active, pools[i].target} \subseteq DOMAIN pools[i].conf.members \cup {None}
    BY <1>1, <1>3
  <2>6. left \in 0 .. MaxEdits
    BY <1>1, ServerAssumption
  <2> QED
    BY <1>1, <2>1, <2>2, <2>3, <2>4, <2>5, <2>6 DEF TypeOK, RunStates
<1>5. LockInv /\ JobInv
  BY <1>1, ServerAssumption DEF LockInv, JobInv, NoJob
<1>6. IdInv
  <2>1. IsFiniteSet(ids)
    <3> DEFINE f == [p \in DOMAIN c.pools |-> <<0, p>>]
    <3>1. f \in Surjection(DOMAIN c.pools, ids)
      BY DEF Surjection
    <3> HIDE DEF f, ids
    <3> QED
      BY <1>0, <3>1, FS_Surjection
  <2>2. ASSUME NEW i \in DOMAIN pools PROVE i[1] < Cardinality({k \in DOMAIN pools : k[2] = i[2]})
    <3> DEFINE named == {k \in DOMAIN pools : k[2] = i[2]}
    <3>1. IsFiniteSet(named) /\ i \in named
      BY <1>1, <2>1, FS_Subset
    <3>2. Cardinality(named) \in Nat /\ Cardinality(named) # 0
      BY <3>1, FS_CardinalityType, FS_EmptySet
    <3>3. i[1] = 0
      BY <1>1, <1>3
    <3> HIDE DEF named
    <3>4. i[1] < Cardinality(named)
      BY <3>2, <3>3
    <3> QED
      BY <3>4 DEF named
  <2>3. \A p \in DOMAIN rt.pools : rt.pools[p][2] = p
    BY <1>1
  <2> QED
    BY <1>1, <2>1, <2>2, <2>3 DEF IdInv
<1>7. AccountedFor
  <2>1. Current = ids
    BY <1>1 DEF Current
  <2> QED
    BY <1>1, <2>1 DEF AccountedFor, NoJob
<1>8. RoutesInv
  BY <1>1 DEF RoutesInv
<1>9. RuntimeConsistent
  BY <1>1 DEF RuntimeConsistent, NewPool
<1> QED
  BY <1>4, <1>5, <1>6, <1>7, <1>8, <1>9 DEF Inv

\* Every step keeps it.
LEMMA NextInv == Inv /\ [Next]_vars => Inv'
<1> SUFFICES ASSUME Inv, [Next]_vars PROVE Inv'
  OBVIOUS
<1>0. TypeOK
  BY DEF Inv
<1>1. CASE Edit
  BY <1>1, EditKeepsInv
<1>2. ASSUME NEW j \in Reloaders, ReloadNext(j) PROVE Inv'
  BY <1>2, ReloadKeepsInv, StoreKeepsInv DEF ReloadNext
<1>3. ASSUME NEW c \in Clients, ClientNext(c) PROVE Inv'
  BY <1>3, ClientKeepsInv
<1>4. ASSUME NEW i \in DOMAIN pools, PoolNext(i) PROVE Inv'
  BY <1>4, PoolKeepsInv
<1>5. CASE RunNext
  BY <1>5, RunKeepsInv
<1>6. CASE UNCHANGED vars
  BY <1>0, <1>6, PoolsUnchanged, ClientsUnchanged, ApartInv DEF vars, reloadVars
<1> QED
  BY <1>1, <1>2, <1>3, <1>4, <1>5, <1>6 DEF Next, Exited

\* Inv is an inductive invariant of the server.
THEOREM InvHolds == Spec => []Inv
BY InitInv, NextInv, PTL DEF Spec

\* Every variable keeps its type, every request asks a pool for a service the
\* pool has, and no pool serves a service of another.
THEOREM TypeCorrect == Spec => []TypeOK
<1>1. Inv => TypeOK
  BY DEF Inv
<1> QED
  BY <1>1, InvHolds, PTL

\* Reload and Close leave no pool behind that is neither in the runtime nor
\* closed, however often the file changes and whatever is rejected.
THEOREM PoolsDoNotLeak == Spec => []NoPoolLeaks
<1>1. Inv => NoPoolLeaks
  <2> SUFFICES ASSUME Inv, mu = None, NEW i \in DOMAIN pools PROVE i \in Current \/ pools[i].closed
    BY DEF NoPoolLeaks
  <2>1. \A j \in Reloaders : job[j].todo = {}
    BY ServerAssumption DEF Inv, LockInv, JobInv
  <2> QED
    BY <2>1 DEF Inv, AccountedFor
<1> QED
  BY <1>1, InvHolds, PTL

\* The pools behind the runtime pointer are configured as its revision says:
\* poolSignature leaves nothing out that a pool is built from.
THEOREM RuntimeIsConsistent == Spec => []RuntimeConsistent
<1>1. Inv => RuntimeConsistent
  BY DEF Inv
<1> QED
  BY <1>1, InvHolds, PTL

\* validate and the reload keep every container in the hands of one pool.
THEOREM ContainersHaveOneOwner == Spec => []SoleOwner
<1>1. Inv => SoleOwner
  <2> SUFFICES ASSUME Inv, NEW i \in Current, NEW k \in Current, i # k
               PROVE  ContainersOf(pools[i].conf) \cap ContainersOf(pools[k].conf) = {}
    BY DEF SoleOwner
  <2>1. PICK p \in DOMAIN rt.pools : i = rt.pools[p]
    BY DEF Current
  <2>2. PICK q \in DOMAIN rt.pools : k = rt.pools[q]
    BY DEF Current
  <2>3. pools[i].conf = PoolConfig(rt.cfg, p) /\ pools[k].conf = PoolConfig(rt.cfg, q) /\ p # q
    BY <2>1, <2>2 DEF Inv, RuntimeConsistent
  <2>4. Valid(rt.cfg)
    BY RevisionFacts DEF Inv, TypeOK
  <2> QED
    BY <2>3, <2>4, PoolsDisjoint
<1> QED
  BY <1>1, InvHolds, PTL

\* Between reloads the watcher's table names the owners of now.
THEOREM EventsReachTheirOwner == Spec => []EventsReachOwner
<1>1. Inv => EventsReachOwner
  BY ServerAssumption DEF Inv, LockInv, RoutesInv, EventsReachOwner
<1> QED
  BY <1>1, InvHolds, PTL

\* A reload leaves the pools whose configuration is unchanged as they are, and
\* closes no pool that is in the runtime; only Close does.
THEOREM UnchangedPoolsStay == Spec => UnchangedPoolsKept
<1> DEFINE Kept ==
        /\ \A p \in DOMAIN rt.pools \cap DOMAIN rt'.pools :
            PoolConfig(rt.cfg, p) = PoolConfig(rt'.cfg, p) => rt'.pools[p] = rt.pools[p]
        /\ \A i \in Current :
            ~pools[i].closed /\ pools'[i].closed => server = "closing"
<1>1. ASSUME Inv, [Next]_vars PROVE [Kept]_vars
  <2> SUFFICES ASSUME Next PROVE Kept
    BY <1>1
  <2>0. TypeOK /\ Current \subseteq DOMAIN pools
    BY <1>1 DEF Inv, TypeOK, Current
  <2>1. CASE UNCHANGED rt /\ \A i \in Current : pools'[i].closed = pools[i].closed
    BY <2>1
  <2>2. CASE UNCHANGED <<rt, pools>>
    BY <2>2
  <2>3. ASSUME NEW j \in Reloaders, StoreRuntime(j) PROVE Kept
    <3> DEFINE c == job[j].cfg
    <3>1. c \in Revisions /\ IdInv
      BY <1>1, <2>3, StoreEffect DEF Inv
    <3>2. rt' = [cfg |-> c, pools |-> NextPools(c)] /\ \A i \in DOMAIN pools : pools'[i] = pools[i]
      BY <1>1, <2>3, StoreEffect
    <3>3. DOMAIN NextPools(c) = DOMAIN c.pools
      BY DEF NextPools
    <3> HIDE DEF c
    <3>4. ASSUME NEW p \in DOMAIN rt.pools \cap DOMAIN c.pools, PoolConfig(rt.cfg, p) = PoolConfig(c, p)
          PROVE  NextPools(c)[p] = rt.pools[p]
      <4>1. PoolSignature(rt.cfg, p) = PoolSignature(c, p)
        BY <3>4, SignatureMinimal
      <4>2. Reusable(c, p)
        BY <4>1 DEF Reusable
      <4> QED
        BY <2>0, <3>1, <4>2, NextPoolsFacts
    <3> QED
      BY <2>0, <3>2, <3>3, <3>4
  <2>4. ASSUME NEW j \in Reloaders, CloseReplaced(j) PROVE Kept
    <3>1. PICK i \in job[j].todo : pools' = Closed(i)
      BY <2>4 DEF CloseReplaced
    <3>2. i \in DOMAIN pools /\ i \notin Current
      BY <1>1, <2>0, JobFacts DEF Inv, AccountedFor, JobRecord
    <3>3. \A k \in DOMAIN pools : k # i => pools'[k] = pools[k]
      BY <2>0, <3>1, <3>2, ClosedKept
    <3>4. UNCHANGED rt
      BY <2>4 DEF CloseReplaced
    <3> QED
      BY <2>0, <2>1, <3>2, <3>3, <3>4
  <2>5. ASSUME NEW j \in Reloaders, ReloadNext(j) PROVE Kept
    BY <2>2, <2>3, <2>4, <2>5 DEF ReloadNext, ReadFile, RejectReload, Lock, SyncWatcher, Unlock
  <2>6. ASSUME NEW i \in DOMAIN pools, PoolNext(i) PROVE Kept
    <3>1. UNCHANGED rt
      BY <2>6 DEF PoolNext, BeginSwap, SwapComplete, SwapFailed, GoCold, ManagerStops, reloadVars
    <3>2. pools \in [DOMAIN pools -> PoolRecord]
      BY <2>0 DEF TypeOK
    <3>3. \A k \in DOMAIN pools : pools'[k].closed = pools[k].closed
      <4>1. CASE BeginSwap(i)
        BY <3>2, <4>1 DEF BeginSwap, PoolRecord
      <4>2. CASE SwapComplete(i)
        BY <3>2, <4>2 DEF SwapComplete, PoolRecord
      <4>3. CASE SwapFailed(i)
        BY <3>2, <4>3 DEF SwapFailed, PoolRecord
      <4>4. CASE GoCold(i)
        BY <3>2, <4>4 DEF GoCold, PoolRecord
      <4>5. CASE ManagerStops(i)
        BY <3>2, <4>5 DEF ManagerStops, PoolRecord
      <4> QED
        BY <2>6, <4>1, <4>2, <4>3, <4>4, <4>5 DEF PoolNext
    <3> QED
      BY <2>0, <2>1, <3>1, <3>3
  <2>7. CASE ClosePool
    BY <2>7 DEF ClosePool, reloadVars
  <2>8. CASE Edit \/ \E d \in Clients : ClientNext(d)
    BY <2>2, <2>8 DEF Edit, ClientNext, Accept, Admit, Released, EndResponse, Track, EndTunnel,
       reloadVars
  <2>9. CASE Signal \/ LockForClose \/ CloseTunnels \/ StopListening \/ Exit \/ Exited
    BY <2>2, <2>9 DEF Signal, LockForClose, CloseTunnels, StopListening, Exit, Exited, vars,
       reloadVars
  <2> QED
    BY <2>5, <2>6, <2>7, <2>8, <2>9 DEF Next, RunNext
<1> QED
  BY <1>1, InvHolds, PTL DEF Spec, UnchangedPoolsKept
=============================================================================
