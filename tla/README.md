# A TLA+ model of StageHand

StageHand is an HTTP gateway in front of GPU services that cannot all be loaded
at once. Services that compete for the same VRAM form a *pool*; at most one
container of a pool should run. A request for a service that is not active
waits in a queue while StageHand stops the other containers, starts the right
one and polls it until it is healthy. This directory models the pool that
decides all this, the path of a request to it and past it, and the server that
builds, replaces and closes pools; checks them with TLC on small instances and
proves their safety properties and the refinement with TLAPS.

Paths below are relative to the repository (`src/`).

## 1. The system

| Component | Code | State it keeps | Operations |
|---|---|---|---|
| Pool manager | `internal/orchestrator/pool.go`, `queue.go`, `state.go`, `events.go` | state, active, target, published snapshot, opSeq, pending operator swap, one queue per service, timer epochs, clocks | admit, cancel, worker report, timer tick, activity ping, operator swap and stop, external event, shutdown |
| Swap and stop workers | `internal/orchestrator/swap.go`, `health.go` | their place in the sweep, their context | sweep, stop, confirm, start, re-check, probe, report |
| Detached stoppers | `pool.go` `handleSwap`, `events.go` `forceStop` | the container they stop | announce, stop |
| Admission | `pool.go` `Admit` | the request's place in `Admit`, its reply channel | fast path, submit, wait, give up |
| Operation registry | `events.go` `opRegistry` | one announced operation per container, a budget and a TTL | expect, isExpected |
| Events watcher | `events.go` `Watcher` | the subscription, the routing table | route, notify, resubscribe, replace routes |
| Docker daemon and client | `internal/dockerctl/` | which containers run, the events stream | inspect, start, stop, events |
| Server | `internal/server/server.go`, `run.go` | the current runtime, pools and their signatures, the reload lock | reload, close, run |
| Request handler, admin API | `internal/server/handler.go`, `admin.go` | the revision a request runs in | resolve, admit, forward; swap, stop, reload, status |
| Router, configuration | `internal/router/`, `internal/config/` | the route table, a revision | match; load, default, validate |
| Body peek | `internal/proxy/bodypeek.go` | none | buffer and replay a body |
| WebSocket tunnel | `internal/proxy/websocket.go` | tracked connections | add, remove, close all |
| Access log, panic recovery, auth | `internal/server/access_log.go`, `auth.go`, `server.go` | the status recorded for a response | record, recover, gate |
| Reverse proxy | `internal/proxy/proxy.go` | pooled connections | forward, map errors |
| CORS, error bodies, command line | the rest | none | - |

How they interact. A pool is an actor: one goroutine owns its state and takes
messages from six channels (commands, worker reports, timer ticks, activity
pings, external events, and `done`). Request handlers send commands and wait on
a reply channel of their own; before that they look at a lock-free snapshot and
skip the manager if their service is active. The manager starts a worker for
every transition; a newer transition *supersedes* the worker by cancelling its
context and moving `opSeq` on, and the old worker runs on until it notices.
Workers announce what they do to Docker in the registry, so that the watcher
can tell their events from those of a human at a shell, and forwards only the
latter to the manager. The server holds everything derived from one revision of
the configuration behind an atomic pointer. A request loads it once and lives
in that revision; a reload builds the next one beside it, reuses the pools whose
signature is unchanged, stores the pointer, replaces the watcher's table and
closes the pools that were replaced. Reloads and the shutdown share a lock;
requests take none. Timers (grace period, cooldown) carry an epoch; every
transition moves the epochs on and so makes ticks already in flight stale.

What is hard about it: the superseded workers beside their replacement; ticks,
reports and events that are out of date when they are read; the snapshot that
is read without the manager; cancellation against flush; failure of any Docker
call, with or without effect; a container that dies under the pool; events lost
with the stream; closing while anything of this goes on; a reload under requests
that hold the old pools, against another reload and against the shutdown; the
limits on a body that is read by two parties. `PROJECT.json` lists
these under "hazards", each at its line, with the properties that watch over it.

What makes each component correct:

- *requests*: each that the manager took is answered, once, with what happened
  to the service it asked for, or stays in that service's queue; nobody waits
  for something that is not coming; every request gets an answer;
- *state machine and workers*: SWAPPING always has exactly one live worker, on
  the manager's target, whose report will be believed, and no other's will;
  SWAPPING ends;
- *timers*: the grace period is kept; a countdown shown is a countdown armed;
  a pool with a default service comes back to it;
- *fast path*: it never shows a pool that has moved on as active;
- *containers*: at rest only the active one runs;
- *server*: the pools behind the pointer are those of its revision, unchanged
  ones are the same pools as before, and every pool that is replaced is closed;
  no container has two owners and its events find the one it has; requests held
  in a pool, reloads and the shutdown come to an end;
- *handler, router, body peek*: a request goes where one revision's first
  applicable route sends it; the backend gets the body the client sent; the cap
  is exact; a client that listens gets an answer; the log has the status that
  went out first.

## 2. The modules

There are two towers. In the first each module extends the one before it, from
`Docker` to `Pool`, which composes them and is shown to implement `PoolService`.
In the second `Config` is extended by `Router`, `BodyPeek` and `Gateway` on one
side (a request) and by `Server` on the other (the pools around the requests).
`Gateway` and `Server` see a pool as `PoolService` describes it.

| Module | Models | State |
|---|---|---|
| `Docker` | the daemon as `dockerctl.Client` documents and `FakeClient` mirrors it | `running`, `stream`, `subscribed`, `budget` |
| `OpRegistry` | `opRegistry` | `entries` |
| `SwapWorker` | `doSwap`, `doStopAll`, `stopAndConfirm`, the health poll, the teardown of an unhealthy container, `forceStop` | `workers`, `stoppers`, `closed` |
| `PoolManager` | `Pool.run` and its handlers, the queues and the timers | the fields of `Pool` under their own names, `reply`, `ticks`, `dockerEv`, `activity`, `mgr` |
| `Watcher` | `Watcher.Run`, `route`, `NotifyContainerEvent` | `held` |
| `Admission` | `Pool.Admit` | `phase`, `svc`, `result` |
| `Pool` | the composition, the clock, fairness, the properties, the refinement mapping | - |
| `PoolService` | what a pool promises to a request handler (abstract) | `serving`, `shut`, `svc`, `verdict`, `outcome` |
| `MCPool` | the instances TLC checks | - |
| `PoolTypes` | lemmas: every step keeps the types | - |
| `PoolProofs` | the inductive invariant of the pool, its requests and its workers | - |
| `PoolTimers` | proofs about the grace period and the cooldown | - |
| `PoolContainers` | proofs about what runs | - |
| `PoolRefinement` | the proof that `Pool` implements `PoolService` | - |
| `Config` | `Load` with defaults and `validate`; `PoolConfig`, `poolSignature` and the other things derived from a revision | - |
| `Router` | `Router.Match`: the loop's first hit | - |
| `BodyPeek` | `PeekModel`, with `io.LimitReader` and `http.MaxBytesReader` as it uses them | - |
| `Gateway` | `handle`, the admin endpoints, `recoverPanics`, `logRequests`, what `proxy.go` and `Tunnel` answer | `rt`, and of one request `pc`, `req`, `mine`, `body`, `getBody`, `match`, `sent`, `interim`, `recorded`, `got`, `here` |
| `Server` | `New`, `Reload`, `ReloadFromSource`, `syncWatcher`, `Close`, `Run`, the SIGHUP loop, `ConnTracker` | `file`, `rt`, `pools`, `routes`, `mu`, `job`, `server`, `client`, `left` |
| `MCGateway`, `MCServer` | the instances TLC checks | - |
| `GatewayProofs`, `ServerProofs` | the inductive invariants and theorems of these two | - |

How state and steps of the pool correspond to the code:

- A handler of the manager is one step, because nothing else can see the
  manager's fields. The exception is a completed swap. It publishes ACTIVE and
  then decides what comes next, and a request may read the snapshot in between:
  `SwapComplete` ends with `mgr = "chain"`, and `ChainAfterComplete` is the rest
  of the handler. No other message is taken meanwhile and no time passes.
- Channel `cmds` is unbuffered, so a request handing over its command and the
  manager's handler for it are one step (`Submit`, `Cancel`). `swaps` and the
  workers that block in `deliver` together are the workers whose `pc` is
  "report": the manager may take any of them. `dockerEv` and `activity` are
  bounded queues; a full `activity` drops the ping, a full `dockerEv` blocks the
  watcher.
- A worker takes one step per Docker call and per look at its context. The
  announcement in the registry precedes the call in a step of its own. A call
  that fails may or may not have had its effect.
- `queue[s]` is a set of waiters that carry their sequence number. Waiters are
  appended in that order, so the set says what the slice does; `OldestQueued`
  compares the heads.
- `reply[r]` holds all that was ever sent to a request's reply channel, not
  just what its buffer of one has room for: that makes a second send visible.
- `startedAt` and `lastActivity` are the time that has passed since
  (`sinceStart`, `idle`), capped at the period they are compared with.
- An armed timer is a tick with its epoch and the time it has `left`; it stays
  in `ticks` until the manager takes it, stale or not.
- A container is named by its service: the configuration rejects a container
  used twice.
- `budget` bounds what StageHand does not control: failing calls, other users
  of Docker, subscriptions, operator commands, clients that give up, a close.
- Left out of the handlers: the reply for a service that is no member of the
  pool (the runtime passes only its own members' names), `depthCmd` (it only
  reads), the operator's reply strings, logging.

The refinement. `PoolService` knows one service that is served, and of each
request what it asked for, the pool's verdict and how it left. It says that the
served service changes only by way of none, that a verdict is final and is "go"
only while the service asked for is served, and that a request leaves once: on a
"go" as served, on a "no" or from a closed pool as refused, or by withdrawing.
`Pool` maps `serving` to the active service while the manager is in ACTIVE, the
verdict to the fast path or the first reply, and the outcome to the result of
`Admit`.

The request path and the server:

- `Gateway` follows one request. Handlers share nothing but the runtime
  pointer, and `Reload` may swap that between any two steps. The first half of
  `handle` (gates, cap, first match) reads only the loaded revision and the
  request and is a step per early return. `mine` is the revision the handler
  loaded; the admin endpoints load `rt` once more, as `buildAdminMux` does.
- A path is a sequence of pieces and a body a sequence of bytes; `req.model` is
  what decoding the body would yield. `int64` is scaled down to 4 with a peek
  limit of 2, so that every size up to the largest integer is tried.
- `sent` is the final status line on the wire, `interim` the first 1xx one before
  it and `recorded` what `statusRecorder` holds. `net/http` sends a 1xx status at
  once and goes on waiting for the final one; it sends 200 if nobody wrote one,
  and drops a second. `Interim` is the relay of a backend's 100 or 103, any
  number of times before the backend answers, fails or the handler panics; all
  but the first leave the state as it is.
- `PeekModel` returns at once for `http.NoBody`; with a cap the handler has wrapped
  that in a `MaxBytesReader`, so it is read, and `GetBody` is set for it too.
- `Config` keeps every rule of `validate` that can refuse a file; `validate`'s
  list of all violations becomes a conjunction. `poolSignature` prints its
  members sorted by name, so the set of what it prints stands for the text; that
  no two configurations print the same needs names without its separators.
- `Server` reduces a pool to what it serves, its swap in flight, whether it is
  closed and whether its manager has noticed. `ReadFile` is apart from `Lock`
  because `ReloadFromSource` reads the file before it has the lock. Validation
  under the lock and the lock itself are one step; building and storing the
  runtime are one step, since nobody sees the runtime before the pointer; the
  watcher's table and each `Close` of a replaced pool are steps of their own.
- Tunnels are registered after the hijack in a step of their own. `CloseAll`
  ends those that are registered by then; `http.Server.Shutdown` waits for
  requests but not for hijacked connections, and `Exit` is taken when nothing is
  in flight or the drain deadline has passed. A request that a closed pool has
  only to release leaves long before that deadline, so `Exit` does not overtake
  it.

## 3. The runs

The runs named `pool_*` and the first five counterexamples are instances of
`MCPool` with two services and two requests.

| Run | What happens in it | What it shows |
|---|---|---|
| `pool_admission` | default service, grace, cooldown, one failing call, one cancellation, one operator command, a container left over from before | no request is lost, answered twice, stranded or left in a queue as a ghost; SWAPPING has its worker; the grace period, the displayed countdown, the retry of the default service; at rest one container; the fast path is honest |
| `pool_events` | the stream is subscribed to; one container is started or stopped from outside at any moment | the reconciliation keeps the same promises, and those of `PoolService` |
| `pool_liveness` | fairness; one failing call, one client that gives up | every request is answered; SWAPPING ends |
| `pool_shutdown` | fairness; the pool is closed at any moment, one client gives up | every request is answered, once; `PoolService` is implemented, closing included |
| `gateway` | one request out of about 80 (probes, admin calls, handshakes, bodies of every size, declared or chunked), interim responses, 4 acceptable files and 8 that are refused, a reload at any step, failures and panics | the body arrives whole, the cap is exact, one revision decides, the log has the first status sent, a client that listens gets a final one, a body that was read can be sent again |
| `server` | fairness; two services; the file is edited once (queue bound, second pool, other token, or one of two files `validate` refuses), reloaded by SIGHUP and by an admin call, one request, SIGTERM | reloads leave one consistent runtime and no pool behind; everything that is held, running or closing ends |
| `mutual_exclusion`, `superseded_worker`, `warm_forever`, `self_events`, `admin_pending`, `closed_reload` | one each of the statements of section 6 | a counterexample |

Bounds. Two services are enough for every distinction the manager makes (the
active one, the target, another one). Two requests give a waiter for each
service, or two for the same one of which the second finds the queue full
(`MaxQueue = 1`). One unit of each budget puts one fault, one cancellation and
one command into every possible place; combinations of several faults are left
to the proofs. `Grace` and `Cooldown` are 1 (2 in `warm_forever`): a tick can
be pending, due, or stale. `OpTTL` is 0 where no event is awaited long, so
that entries also expire; `self_events` uses 12, more than the trace needs, so
that no entry is lost to time. `EventCap` and `ActivityCap` are 1 so that both
channels fill. `MaxLate = 0` says that a due tick reaches the manager before
time moves on; without some such bound time could run past every timer.
`StopBurst`, the events of a stop, is one to three long. `MaxOps` stops
`pool_admission` after three operations: with a default service that keeps
failing, the code retries for ever. In `server` one edit and two reloads give a
reload that reads the old file and applies it after the new one, two that do
the same, and one that waits for the other or for `Close`; one request is in the
old pool, the new one or a closed one. In `gateway` one request is enough because
requests do not see each other. Symmetry (permuting requests) is used only
in runs without liveness.

Fairness. Weak fairness for each thing a goroutine does by itself: handing over
and receiving, each case of the manager's `select` (Go chooses among ready cases
at random, so a case that stays ready is taken), the workers, the watcher, and
the clock. Nothing is assumed of clients, operators, other users of Docker or
failures. The worker step is one condition for all workers, which assumes
less than one condition each. In `server`, goroutines that have read a file go
on, managers and workers of pools go on (`http` calls and Docker calls have
timeouts), a request that is in `Admit` takes the ways out that are open, and
`Run` goes on once the signal is there. That a response or a tunnel ends, that
anyone edits, reloads or signals is not assumed.

## 4. What is proved

Every invariant and action property that a passing run checks is also a theorem,
and so is the refinement. TLC checked each inductive invariant named below
before it was proved.

| Module | Theorem | Statement |
|---|---|---|
| `PoolProofs` | `InvHolds` | `Spec => []Inv` |
| | `TypeCorrect` | `Spec => []TypeOK` |
| | `RepliesOnce` | `Spec => []OneReplyEach` |
| | `RequestsKept` | `Spec => []NoLostRequest` |
| | `QueuesHonest` | `Spec => []NoGhostWaiter` |
| | `NobodyStranded` | `Spec => []NoStranded` |
| | `WorkersMatch` | `Spec => []WorkerMatchesState` |
| | `FastPathIsHonest` | `Spec => FastPathHonest` |
| `PoolTimers` | `TimersHold` | `Spec => []TimerInv` |
| | `CountdownsAreReal` | `Spec => []CountdownIsReal` |
| | `DefaultIsRetried` | `Spec => []DefaultRetried` |
| | `GraceIsHonoured` | `Spec => GraceHonoured` |
| `PoolContainers` | `ContainersHeld` | `Spec => []ContainerInv` |
| | `MutexHoldsAtRest` | `Spec => []MutexAtRest` |
| `PoolRefinement` | `PoolImplementsService` | `Spec => ImplementsService` |
| `ServerProofs` | `InvHolds` | `Spec => []Inv` |
| | `TypeCorrect` | `Spec => []TypeOK` |
| | `PoolsDoNotLeak` | `Spec => []NoPoolLeaks` |
| | `RuntimeIsConsistent` | `Spec => []RuntimeConsistent` |
| | `ContainersHaveOneOwner` | `Spec => []SoleOwner` |
| | `EventsReachTheirOwner` | `Spec => []EventsReachOwner` |
| | `UnchangedPoolsStay` | `Spec => UnchangedPoolsKept` |
| `GatewayProofs` | `InvHolds` | `Spec => []Inv` |
| | `TypeCorrect` | `Spec => []TypeOK` |
| | `BodiesIntact` | `Spec => []BodyIntact` |
| | `CapIsExact` | `Spec => []CapExact` |
| | `TargetsExist` | `Spec => []RouteTargetExists` |
| | `RoutedInOneRevision` | `Spec => []RoutedByOneRevision` |
| | `LogIsTruthful` | `Spec => []LogTruthful` |
| | `NobodyIgnored` | `Spec => []NeverSilent` |
| | `PeekedCanBeReplayed` | `Spec => []PeekedReplayable` |

What they assume. Of the pool: that the constants have their types, that `None`
is no service and that `Rank` orders the services. The theorems hold for every
set of services and requests, every grace period, cooldown, queue and channel
size, default service, stop burst, set of containers at boot and budget. Of the
server: that the file it boots from loads and its containers exist on the host,
that a revision has finitely many pools, and that the names of reloaders are not
those of the other lock holders; any files, any number of reloaders, requests
and edits. Of the gateway: that some file loads, that a cap is an `int64` and
routes are a sequence, that a body is no longer than an `int64` counts, and that
`net/http` hands out a declared body at its declared length; any files, requests
and peek limit below the largest integer.

The pool's invariant. None of the properties is inductive alone, so one
invariant carries them:

    Inv == TypeOK /\ SnapshotFresh /\ ChainInv /\ WorkerInv /\ RequestInv /\ NoStranded

`WorkerInv` needs that operations are unique to their worker, that none is
ahead of `opSeq` and that a cancelled worker's operation is behind it
(`WorkerIdentity`): then cancelling the worker of `opSeq` and spawning one for
`opSeq + 1` leaves exactly one live worker, and a report whose operation is
`opSeq` is that worker's. `WorkerShape` says where a worker has a container in
hand. `RequestInv` adds to the three request properties that a request that has
not reached the manager has no reply and that a queued one has reached it
(`RequestShape`); `OneReplyEach` follows because only queued requests are
flushed, and these have no reply (`NoGhostWaiter`). `NoStranded` rests on the
grace tick: arming another one is never later, a stale one is not counted, and
the live one is consumed only in the step that starts a swap. `ChainInv` and
`SnapshotFresh` deal with the pause inside a completed swap and with the fast
path. `Inv` is preserved action by action; the lemmas about types are in
`PoolTypes`, those about workers, requests and the grace tick in `PoolProofs`.

The timers. `TimerInv` is inductive relative to `Inv`. Its base is `QuietSwap`:
no tick is ahead of its kind's epoch, so bumping the epochs silences all of
them, and during a swap, or between a completed one and its chain, none is live.
What is live afterwards was armed since. `GraceNotEarly` is the counterpart of
`NoStranded`: a live grace tick is not due before the end of the grace period,
as it is not due after it. `ArmedInv` ties `cooldownArmed`, which the status
reads, to a live cooldown tick: a deferred tick is armed again with at most a
period, and the one that is consumed starts a swap. With it the only ways from
ACTIVE to SWAPPING are those that `GraceHonoured` lists.

The containers. `ContainerInv` says, for a pool that nobody disturbs, in whose
hands each running container is (`Tends`): the live worker's, which has its
target, what it has yet to sweep and, if it will report failure, everything,
since failure leads to another sweep or to a cold pool; or a superseded worker's
that has started it and not yet looked at its context. A new worker tends all; a
worker lets go of a container only once it does not run; the report that makes
the pool ACTIVE comes from a worker with nothing left to sweep (`Sweeping`).
When no worker is left the active container is the only one. Disturbances are
excluded by their budgets, which nothing refills (`NoRefund`).

The refinement. `PoolRefinement` shows that initial states map to initial
states and each step to a step of `PoolService` or to none. The served service
changes only by way of none: a completed swap finds the pool SWAPPING, because a
report under `opSeq` is the live worker's. A verdict is final because a reply
channel is written once, and a flush with "Go" happens only in the step that
makes the service active.

The server. `LockInv` says that the lock is with the one reloader between "lock"
and "unlock" or with `Close`; `AccountedFor`, that a pool is current, closed, or
on the list of the reloader that replaced it, and that this list holds no
current pool; `IdInv`, that the next number of a pool's name is free, so a new
pool is never mistaken for an old one; `RoutesInv`, that the watcher's table is
behind only between "stored" and "synced". Two facts about `Config` carry
the rest: equal signatures mean equal pool configurations, and a valid revision
names no container twice.

The gateway. `PayloadInv` (the body the handler holds is the client's, also
after the peek), `MatchInv` (the match is that of the loaded revision, for the
model as far as it has been read) and `ResponseInv` (what is recorded is the
first status that went out, only a relay sends an interim one, and only a handler
whose client has left comes back without a final one) are stated per place in the
handler. Below them are lemmas about
`PeekModel` for every limit and length, and that `Match` returns the first route
that applies. The latter needs the least element of a set of indices, which the
well-foundedness of the natural numbers gives.

Only model-checked: the liveness properties (`EveryRequestAnswered`,
`SwappingEnds`, `HeldRequestsEnd`, `ReloadsEnd`, `ShutdownEnds`). They need
fairness and `ENABLED`, which are beyond the prover.

## 5. Mutants

Every property of a passing run has a mutant in `PROJECT.json`: an operator
beside the original, marked `Mutant:`, that changes it as a plausible slip
would (a dropped context check, a stale epoch, a flush that keeps the queue, a
publish before the move). With it in place the run fails on that property.

## 6. Where code and documentation differ

Each of these is a run that ends in a counterexample.

- `mutual_exclusion`: the PRD says only one service of a pool may be running at
  any moment. A superseded worker may sit between its last look at the context
  and the effect of its Start; its replacement sweeps before that effect. Two
  containers then run until the old worker looks again. (`MutexAtRest` holds: it
  does look, and cleans up.)
- `superseded_worker`: a comment says a superseded worker cannot change Docker
  under its replacement. Its sweep does not look at the context, and its
  clean-up stops its target by name, even when that is the replacement's.
- `warm_forever`: a test's comment says a pool whose waiters cancel must still
  go cold. If a swap completes with a waiter for another service, only the
  grace timer is armed; once that waiter cancels no cooldown is.
- `self_events`: a comment says an event of our own never finds its entry
  missing. There is one entry per container; the next operation overwrites it.
- `admin_pending`: the operator's pending swap is said to be chained behind the
  one in flight. If that one's target dies, it stays pending with nothing in
  flight and fires after a later, unrelated swap.
- `closed_reload`: the comment on `Server.Close` says that a reload racing the
  shutdown can neither resurrect pools nor leave new ones unclosed. `Close` keeps
  no mark that it has run. A reload that waits for the lock, or one that comes
  while `Run` drains, builds pools for a changed configuration that nobody
  closes; a request that gets into one waits for the drain deadline.

Two are findings of the `gateway` run, whose properties are stated so that they
hold and say where the code stops short:

- The access log. `statusRecorder` is there to capture the response's status and
  its comment speaks of the final one, but it keeps the first status it is given.
  The reverse proxy relays a backend's interim responses through it, so a request
  whose backend sends 103 (or 100) first is logged as 103, whatever the client got
  in the end. `LogTruthful` says so: the log has the interim status where there is
  one. Without that exception TLC finds a violation by `Interim`, `ForwardFails`
  and `Return`: the client gets 502, the log has 100.
- The replay of capped bodies. PRD 4.3, the comment on `MaxRequestBytes` and the
  runbook say that with a cap every accepted body is buffered and can be sent
  again. Only `PeekModel` buffers, and it is called only for JSON POSTs on a route
  with a `models` map; any other body is streamed, and a stale connection after a
  swap is a 502 for it. `PeekedReplayable` is stated for the peeked bodies. Without
  that restriction it fails in the state where the handler begins to forward.

Four more that no run of its own shows:

- `Run`'s comment lists "stop accepting new connections" first, but `Close` runs
  before `Shutdown`, so requests and tunnels still arrive in between (`server` has
  them: `Accept` is enabled until `StopListening`, and a tunnel may register after
  `CloseTunnels`; such a tunnel does not hold up the exit, and ends with the
  process).
- The PRD lets a service that is removed from the configuration run "until cooled
  down or swapped out", but its container belongs to no pool any more, so neither
  happens.
- `shutdown` publishes its snapshot first so that the fast path "must never see a
  stale ACTIVE state on a closed pool". Between `Close` and the manager noticing,
  it does; `FastPathHonest` and `PoolService` speak of the manager's own end.
- The teardown after a health timeout is detached. A new request may start the same
  container again and find it healthy before the teardown's stop takes effect; the
  pool is then ACTIVE with nothing running. If the stop was announced after the
  start, the registry explains its events and nothing corrects the state. The model
  has this interleaving, and nothing in the repository promises the contrary.

## 7. Not modelled, and the plan

Not modelled: CORS and the text of error bodies (stateless formatting); the
header rewriting and flushing of the reverse proxy (configuration of the
standard library); YAML and JSON decoding (opaque); the JSON of the status
document; flags, banners, token generation and the healthcheck client of the
command line (pure I/O); Docker's `Connect` and `Ping` beyond their failing; the
failure of the listener, which ends `Run` at once. `Server` does not follow
containers, so what a reload does to a container whose service is removed is
described above and not checked. Events that occur while the stream is down are
lost in the model as in the code; nothing is promised about them. Nor is it
checked that a watcher which blocks on a full event channel gets away when the
pool is closed: with a subscription the runs under fairness grow too large. Within
a reload, between the store of the pointer and that of the watcher's table, events
go to the pools that are being replaced; `EventsReachOwner` speaks of the time
after it.

Left to prove:

1. That `Server` and `Gateway` see of a pool only what `PoolService` allows. Both
   were written to that description, but their pools are not instances of it.
2. The parts of the liveness arguments that are safety: that a waiting request
   always has an enabled step of the manager, a worker or the clock that brings
   it closer to its answer. TLC checks the liveness properties themselves.
