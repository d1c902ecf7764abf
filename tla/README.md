# TLA+ models of stouter

stouter is a service mesh daemon. Every daemon gossips a versioned service
catalog (the *dynamic config*) and a table of its peers with others, runs local
TCP and HTTP proxies for the services in the catalog, and carries their
connections through mutually authenticated tunnels to the nodes that host them.
These modules model the parts of it where concurrency, failures and long
sequences of events make testing hard: config replication, membership and health
gossip, load balancing with connection limits and ejection, the retry logic of the
two proxies, the manager that starts and stops them, the way of a tunnel through
session, relay, pool and node until the node drains, routes, and the command that
moves a service between clusters.

Source paths below are relative to `src/`, the crate's directory.

## Inventory

| Part | Source | Model |
|---|---|---|
| Config replication: admin RPC, CLI, hand edits, poll loop, ConfigUpdate, Sync, persistence, indexes | `gossip/mod.rs`, `gossip/messages.rs`, `state.rs`, `main.rs` | `ConfigGossip` |
| Config operations (upsert, remove, rename, routes, validation) | `config.rs` | `Catalog`; in `ConfigGossip` as "groups or routes change and the version grows by one" |
| Peers table, liveness, NodeLeave, health checks and reports | `gossip/mod.rs`, `health.rs`, `config.rs` | `Membership` |
| Balancer: weighted round-robin, ejection, connection slots | `subscribe/balancer.rs` | `Balancer`, `RoundRobin`, promise in `ConnectionLimit` |
| TCP proxy | `subscribe/proxy.rs` | `ServeClient`; `establish_tunnel` in `Tunnels` |
| HTTP proxy: attempts, fallback, retry budget | `subscribe/http.rs` | `HttpAttempt` |
| Route matching, label subsets | `config.rs`, `subscribe/http.rs` | `Routes`, on the balancer in `RoundRobin` |
| Stream pools | `state.rs` | `StreamPool`, promise in `Handoff` |
| In-flight tracking, graceful drain | `state.rs`, `main.rs` | `InFlight`; NodeLeave and process end in `Membership` |
| Mux sessions and their upkeep | `mux.rs`, `subscribe/mod.rs` | `Tunnels` |
| Reverse connections, relay, tunnel handler | `node/*.rs` | `Tunnels`, on `StreamPool` and `InFlight` |
| Proxy manager, registry of HTTP proxies, HTTP listener's use of it | `subscribe/mod.rs`, `subscribe/proxy.rs`, `subscribe/http.rs`, `subscribe/listener.rs` | `ProxyManager` |
| CLI: local changes | `main.rs` | `ConfigGossip` |
| CLI: `service move`, remote changes | `main.rs` | `ServiceMove`, on `Catalog` |
| Bidirectional copy | `io.rs` | no: a thin wrapper of tokio's copy |
| REST API, telemetry, metrics | `subscribe/api.rs`, `telemetry.rs`, `metrics.rs` | no: read-only, or nothing depends on it |
| TLS, PKI, CLI parsing | `tls.rs`, `pki.rs`, `main.rs` | no: thin use of libraries |

`PROJECT.json` lists the components, the lines behind every definition (`map`),
the hazards, and which property covers which hazard.

## Modules

### ConfigGossip

`dc` is `SharedState::dynamic_config`, `file` the copy in the config file,
`service_index` and `routes` the lock-free indexes (as the config they were built
from), `task` the program counter and locals of every connection handler, the
poll loop and the sync loop of every daemon, `cli` what a running CLI command has
loaded, `cut` a ghost flag that is TRUE while an index is old because a timeout
cut a rebuild off.

A handler is one step up to where it releases the write lock (change and persist
happen under it), and one step for each later await: the two stores of
`rebuild_service_index` (during which the read lock keeps writers out), the
broadcast, the nodes half of `merge_sync`, `persist_state`, the reply. A config
is a version with a value for `service_groups` and one for `routes`; the
operations in `config.rs` each change one of the two and add one to the version,
and refused operations change nothing.

Messages may be lost, delayed and reordered, writes of the file may fail, and so
may the CLI's read of it, which then starts from an empty config (`PersistFaults`), `run_sync_loop`'s timeout drops an exchange at any await, and
daemons are killed and restarted from their file.

### Balancer, ConnectionLimit, ServeClient, RoundRobin, HttpAttempt

`Balancer` has the state of one `Balancer` value (`current`, `active`, `outlier`)
and its operations, each of which runs under the mutex and is one step. `slots`
is the set of `Slot` guards alive, each with the limit it was taken under; the
code has no such set, and `ActiveCountsSlots` says that its counters amount to
it. Ejection time is counted in units of `BASE_EJECTION`. Ejections after the
first that lasts `MAX_EJECTION` are not counted further, as the count then
changes nothing.

`ConnectionLimit` is the abstract specification: slots are reserved below the
limit the client goes by, and given back. `ServeClient` and `HttpAttempt` are
shown to implement it (`KeepsLimits`), with `slots` mapped to itself. What holds of
the balancer under either proxy (`ActiveCountsSlots`, `HardCap`, `KeepsLimits`) is
stated once, in `Balancer`.

`ServeClient` is `serve_client` for several connections on one balancer, while
the service's instances change. `HttpAttempt` is `handle` and `attempt` for
several requests: the body is awaited between the deposit and the attempt, so the
instances are read late; a retried answer is kept with its slot as the fallback;
the client may go away at any await, which drops everything the request holds
(`Leave`, which also stands for a body that cannot be read and for the end of an
upgraded stream). The budget is counted in units of `RETRY_BUDGET_RATIO`.

`Routes` has the operators of L7 routing. A path is a sequence of characters,
since segment boundaries are what `path_has_prefix` is about; labels and headers
are functions. The ticket that `select_route` draws is its parameter. `RoundRobin`
puts routes on one balancer: requests are routed to label subsets of a fixed set of
instances, every subset picks from the same running weights, and the picks are
counted. `PrefixOnSegments`, which compares `path_has_prefix` with a definition by
segments, is in `MCRoundRobin` with that definition.

### StreamPool, Handoff, InFlight, Tunnels

`StreamPool` is one key of a `StreamPool<T>`. The store and the wakeup of `push`,
and the registration, the look and the sleep of `take`, are steps of their own;
tokio's `Notify` is modelled with its stored permit and the wakeup that a dropped
`Notified` passes on. Which idle connection is popped and which waiter is woken is
left open (the code pops the newest, tokio wakes the first). `Handoff` is the
promise: a connection goes to one taker, and while a task asks and a connection is
idle, some task gets one. `HandsOver` maps `asking` to the tasks inside `take` and
`held` to what `got` holds.

`InFlight` is `InFlightTracker` with `graceful_drain`: handlers take a guard, then
look at the shutdown flag; the last guard notifies in a step of its own; the drain
sets the flag and waits for zero or for `DRAIN_TIMEOUT`. The NodeLeave broadcast in
between is in `Membership`. Guards of gossip and admin requests are not in it; they
only make a drain longer.

`Tunnels` composes the two. A subscriber opens a stream on the relay's mux session
(`session` is the `MuxPool` entry, `live` the sessions whose driver runs) or falls
back to a connection of its own; the relay takes a reverse connection from its
pool, forwards the request, passes the status on and bridges; the node's workers
keep reverse connections open and hand requests to `handle_tunnel`, each counted
by `InFlight`. The node may drain and exit; the relay stays up. The warm, cold and
reverse fallbacks of `establish_tunnel` are one connection that can be made or
not; `fill_tunnel_pool` is in the model only as that. Clocks agree within
`MAX_SKEW_MS`. `try_take` is an action of `StreamPool`'s own specification, for
which the proofs hold, and is not used by the relay.

### Catalog, ServiceMove

`Catalog` has a `DynamicConfig` with its groups, services and routes as sequences,
the operations on it and `handle_admin_request`; a service's settings are its
protocol and its health path, the ones that are validated. `ServiceMove` is the
command: it reads the source, adds to the target, removes from the source, and
rolls the add back if that fails. Every RPC is answered, or its connection breaks
and the daemon handles the request later or never (`orphans`); the command may be
interrupted at any point; other admins change both clusters meanwhile. One daemon
stands for a cluster. `before`, `broken` and `disturbed` are history.

### Membership

`known_nodes[n][m]` is n's row for m: its health report and whether `last_seen`
is recent. `local_health`, `failures` and `first_round` are the state of
`run_health_checks`; failures saturate at `UNHEALTHY_AFTER`. `push` is a pending
`broadcast_sync`, `waiting` and `owed` the two ends of an exchange of the sync
loop. Leaving is `graceful_drain`: NodeLeave goes out, the listener stops, and
what was under way goes on until the process ends. Wall clocks only need an order,
so a clock advances when a report is made; `ClockSteps` lets it be set back at
any time. A daemon sends to `Peers`, its bootstrap peers and the rows of its table,
as `peer_addrs` has it; a pass of the sync loop reads them once, the model before each
exchange, so a row that is dropped in the middle of a pass ends that peer's turn. A
daemon's row for itself, addresses, relays and NodeJoin are left out.

### ProxyManager

`manager` is where `manage_proxies` is in a pass, with the snapshot it works on,
`proxies` its handles, `service_ports` what the REST API lists, `task` the
`run_proxy` tasks, `http_proxies` the `HttpProxies` map with a number for each
`HttpProxy`. A pass is one step per await and per key, in any order of the keys, as
the code iterates over hash maps. `abort` marks a task, which ends at its next
await; until then it holds its port. Config, nodes, ports held by other processes
and shutdown change at any step, and an accept error may end a task.

## Runs

| Run | Question | Result |
|---|---|---|
| `config_settles` | One writer, killed at any point: do versions identify configs, does a restart forget anything, are indexes torn outside a rebuild, and do daemons and indexes converge? | holds |
| `config_file_edits` | CLI, hand edits, failing writes, restarts, losses and timeouts together: can the running config go back, or an index be left behind? | holds |
| `config_cli_overwritten` | Is the file written in version order, as the comments at `gossip/mod.rs:553` and `:562` say? | violated |
| `config_index_cut_off` | Do new connections always see the current config, as `docs/http-proxy.md:49` says? | violated |
| `serve` | Connections that retry while instances change: are counts exact, limits hard, ejections on time, picks right, running weights balanced? | holds |
| `round_robin` | Requests of several routes on one balancer: is every node's share within a pick or so of its weight's share of its subset, do running weights stay bounded when subsets overlap, are prefixes matched by segment and splits exact? | holds |
| `http` | Requests that are retried, time out, lose their client: acted on once, answered by a backend if one answered, slots and budget kept? | holds |
| `health_order` | Restarts, clocks set back, relays, losses: is a host's own report the newest, and do copies never go back? | holds |
| `membership_settles` | Do peers end up with the right health, and do stopped daemons go stale? | holds |
| `proxies` | Proxies start, move ports and die while the config changes under a pass: is what `/services` lists served, is any listener left behind, do a service's two entries share a balancer, and do the proxies settle? | holds |
| `tunnels` | Tunnels through a relay, while connections break, sessions die or the node drains: is a wakeup lost, a connection handed out twice, a client bridged to the wrong end, an accepted tunnel cut off by a finished drain, a drain or a tunnel attempt left hanging? | holds |
| `service_move` | A move between clusters or groups, with refused, broken and late RPCs and other admins: do configs stay well formed, is a move whole or nothing, is the service ever in neither place? | holds |

What the violations show:

- `config_cli_overwritten`: the CLI saves a newer version to the daemon's file
  without the daemon's lock; before the poll loop comes round, a Sync changes the
  peers table and `persist_state` writes the old config over it. The change
  survives only if one of the peers the CLI broadcast it to took it.
- `config_index_cut_off`: the timeout around `sync_with_peer` expires while
  `merge_sync` waits for the lock in `rebuild_service_index`. The config is
  adopted and saved, so later Syncs with the same version do not rebuild either;
  proxies use the old index until the next change.

What the properties except, because the code does not give it:

- `OwnReportIsNewest` is checked with `LateClock = FALSE`. `next_version` compares
  with the previous report of this process only, and a new process starts at 0. With
  `LateClock = TRUE` in `health_order.cfg` TLC finds, in seven steps: a host reports
  and pushes the report, its backend fails, its clock is set back, its daemon is killed
  and restarted, and the first report of the new process has the version of the old
  one. Peers drop it. Nothing is published again before the service's health changes,
  so peers go by the old report at least until then, even if the clock is put right
  in the meantime. `config.rs:491` says that "a restarted
  node's reports still supersede the ones peers held from before the restart",
  `README.md:348` the same of the first report, and `health.rs:74` that ordering holds
  "even if the clock steps backwards": that is so within one process, or if the clock
  is not behind the last report when a daemon starts.
- `LeaversStayAway` does not hold and is in no run: `merge_sync` inserts unknown
  rows, and NodeLeave leaves no trace, so a Sync on its way, or a sync pass the
  leaving daemon is still in, brings the row back with a fresh marker.
  `StoppedGoStale` is what remains: the marker goes stale.
- `ServiceKept` asks that the removal is answered. If the daemon removes the service
  and the answer is lost, the rollback removes it from the target too, and it is in
  neither cluster. `MoveAllOrNothing` excepts a target that has a service of that
  name: the add replaces it and the rollback removes it. A rolled back add leaves
  behind the group it created. A move from a place to itself removes the service;
  `Moves` leaves it out.
- `CatalogWellFormed` says nothing of the target of routes: removing or renaming a
  routed service, or adding an instance of it that speaks tcp, leaves routes that
  `Config::validate` rejects. `docs/http-proxy.md:138` has the condition "checked by
  `stouter check`, the CLI and the admin RPC alike", which is so when routes are set.
  Nor does it say anything of domains and local ports, which `Config::validate` also
  looks at and `Catalog` does not have.
- `SmoothShare` is for subsets that do not overlap. Overlapping ones share running
  weights, and a node then makes up in one subset for what it got in another; for
  them `WeightsBounded` holds. Nor is smooth round-robin always within one pick of
  the exact share. A node is never a whole pick ahead, and with up to three nodes
  never a whole pick behind, but with more it may be: with the weights 1, 75, 12, 3
  and 1 a node falls 1.02 picks behind. `Lag` is the bound that does hold for every
  number of nodes. It came out of the proof: a bound of one pick is what the run with
  three nodes suggested, and it is not inductive for more.
- `WeightsBounded` has the factor N - 1 for a like reason. With three nodes running
  weights stay below the sum of all weights; with four, of weights 1, 1, 1 and 5, and
  overlapping subsets, one can reach it.
- `ListedIsServed` excepts a proxy whose `accept` failed: it ends, and
  `manage_proxies` does not look at its tasks, so the service stays listed. `Settles`
  counts such a proxy as settled, for the same reason.
- `EveryTunnelDecided` is about attempts. `MuxPool::open_stream` removes a session by
  address when a stream cannot be opened, so it may remove a live one that took the
  dead one's place; the model does so too, and no property says that it may not.

### Bounds

Two daemons with one handler each are enough for the races within a daemon
(handler, poll loop and sync loop are separate processes) and between two;
`Membership` has three daemons where relaying matters, with the sync loop of one
of the peers active, which exchanges tables in both directions. That peer has both
others as bootstrap peers. The host has it in `health_order`, and nobody in
`membership_settles`, where its first report may be pushed to no one; the third
daemon has no bootstrap peer and learns of the others. Two versions
allow a change on top of a change; one restart lets old and new state meet.
`config_file_edits` has one version only and no admin RPC, for the size of what the
CLI, the editor, faults and timeouts add to it, and restarts the daemon whose file is
left alone; for more versions, any writers and any restarts its two properties are
proved (`IndexesAreCurrent`, `ConfigNeverGoesBack`). `serve` has no drained instances;
those are in `round_robin`. Two
connections suffice to compete for a limit of one; the HTTP run has three
backends so that a second fallback replaces the first, and a budget that two
retries exhaust. `MaxMsgs` bounds what is in flight at once, not how much is sent.
A step that would exceed it waits. `proxies` has two ports, one of them also given
out at random, so that ports are fought over; its configs swap fixed ports, put a
name in two groups, make instances disagree, and leave services out. Three tasks
let an aborted proxy linger beside two live ones.

`round_robin` has three nodes with every assignment of the weights 0, 1, 2 and 4
and of two labels, and eight picks, more than a full round for most of them; its
route tables have a split with a weight of zero, and overlapping subsets behind
conditions on prefix, method and header.

`tunnels` has two tunnels, two reverse connections, one worker and two session
names, so that a tunnel waits for what another holds, a worker reconnects while its
last request is being served, and a session is replaced while streams are open on
it. To keep it small, complications come one at a time (`Scenario`): breaking
connections, a drain, or mux sessions in front of a service of the relay's own; the
subscriber's part does not depend on what lies behind the relay but through the
status. Takers that may give up make the liveness half of `HandsOver` weaker here
than in the pool: `NoLostWakeup` is what shows that the wakeup itself is not lost.

`service_move` starts with the service present or absent, with and without routes,
and a target that is free or taken; three operations of other admins suffice to
remove a service, add it again and rename another onto it. `config_*` keep one
version counter, so the content of operations is in `service_move` and their
replication in `config_*`.

`health_order` takes clocks set back and restarts together, with clocks that are
not behind earlier reports when a daemon makes its first.

Deadlock is checked except where the system may stop: in `http` and `round_robin`
when the bounded number of requests or picks is used up, in `membership_settles`
when only daemons without work are left, in `proxies` after shutdown, in `tunnels`
when all tunnels are over or the node is gone, in `service_move` when the command
has ended. `TypeOK` is checked by `config_settles`; in the other modules it states
the type of the variables.

Symmetry is used for connections and requests, in no run with liveness.

### Fairness

Weak fairness of a handler's, loop's or checker's next step: tokio schedules every
ready task. Weak fairness of reception, with a network that loses nothing: the
liveness runs set `LossyNet = FALSE`. Strong fairness of a sync with each peer:
`run_sync_loop` goes through all peers every ten seconds; the model's send is only
sometimes possible, because of the bound on messages and because the loop is
busy with another peer. A daemon that is down and may come back does
(`Boot`), and a drain ends (`Kill` while draining), for `DRAIN_TIMEOUT` bounds it.
The marker of a stopped node goes stale as time passes. `manage_proxies` ticks every
two seconds and its tasks run. In `tunnels` it is the weakest of these: while some
task is ready, or the timeout of some `take` runs, one of them makes a step, and
nothing is assumed of which. No fairness is assumed of
changes, kills, losses, timeouts in a working exchange, backends, clients,
reconnecting workers or the operator.

## Proofs

TLAPS checks these for all values of the constants.

`ConfigGossip_proofs`:

- `TypeCorrect`: `TypeOK` is inductive by itself.
- `IndexesAreCurrent`, `IndexesAreTornOnlyInRebuild`, `ConfigNeverGoesBack`. The
  invariant is `IndexInv`: while a rebuild is between its two stores the service
  index is current; otherwise both indexes agree; without a rebuild pending or
  cut off they are current; and neither is ever newer than, or different within a
  version from, the config. It is needed because the properties only speak of
  moments without a rebuild. Every action is first shown to be, for each daemon,
  one of six kinds of step (`IndexStep`), and the invariant is proved for those.
- `RestartsKeepConfig`, `VersionsDetermineConfigs`, from the assumption
  `OneWriter(w)`: only daemon w takes admin RPCs, no one else writes files, and
  writing succeeds. The first rests on `FileInv` (file and memory are equal). The
  second on `OneWriterInv`: all configs held anywhere, messages and handlers
  included, are told apart by their version, and none is newer than w's, so that
  w's next version is fresh also after a restart.

`Balancer_proofs` begins with what the others need of finite sets: a highest and a
lowest element, finite images, and sums of integers (`SumFunctionOnSet`), which are
shown not to depend on the order of summation. Then come the operations of the
balancer: what `pick` returns, that every operation keeps the types and `Counted` (a
node's count is the number of slots on it), and what one pick does to the running
weights (`TurnSum`, `TurnBounded`, `TurnEven`).

- `LimitsAreHardCaps`, from the assumption that limits are numbers or `NoLimit`.
  `HardCap` is not inductive (giving slots back could leave a set none of whose
  holders allows its size), so the invariant `CapInv` says it of every nonempty
  subset of a node's slots.

`Proxies_proofs`, on the TCP proxy, for any number of nodes, connections and changes:

- `CountsAreExact`, `ServeKeepsLimits`, `ServeHardCap`, `RunningWeightsBalance`, from
  the invariant `ServeInv`. Its `SlotsMatch` says that a connection has a slot
  exactly in the states that use one, so that a failed attempt gives back the slot of
  its own node; `BalanceInv` that no connection is about to forget a node
  while the instances stay the same. That the proxy implements `ConnectionLimit` is
  proved step by step, and the hard cap follows from the theorem about the
  abstract specification.
- `EjectionsRunTheirTime` and `EjectedAreAvoided`, the action properties, from the
  same invariant: a pick compares counts, the property speaks of slots.

and on the HTTP proxy, for any number of nodes, requests and retries, any retry cost
and size of the budget: `HttpCountsAreExact`, `HttpKeepsLimits`, `HttpHardCap`,
`AtMostTwoSlots`, `NoUnsafeRetry`, `AnswersBeatErrors`, `RetriesAreEarned`. In
`HttpInv`, slots are on the backend in use or the fallback; `RequestOK` says, for
each state, which fields can be set: an unsafe request in a state before a new send
has reached no backend, and an answered one is in a state with an answer or has a
fallback; `BudgetInv` counts what is left in the bucket too, since retries alone
do not bound what the next one may take.

`RoundRobin_proofs`, for any number of nodes, any weights, limits, labels and valid
routes, and any number of picks:

- `SharesAreSmooth`. With `ShareInv`, the running weight of a node is its share of its
  subset's turns less what it was given, so that the property is a bound on running
  weights. That bound is not inductive node by node: who wins depends on all of them.
  `Even` therefore bounds the sum over every set of nodes of a subset, by a bound that
  depends on the size of the set. Either the chosen node is in the set, which then
  loses the total and gains at most as much, or it is not; then it had at least the
  average of the set, and the bound for the set with it applies, which is the recursion
  in `Lag`. No node is a whole pick ahead because the one chosen has the highest running
  weight, which is positive. Shares are exact after full rounds because running weights
  are then multiples of the total, none is as low as minus the total, and they sum
  to zero.
- `WeightsAreBounded`, from `BalanceInv`: a bound on the sums over all sets of nodes
  (`Bounded`) in the same manner, with the largest weight in place of the total, since
  the subset picked from changes.
- `TicketsFollowWeights`: the tickets of a backend are the interval between two partial
  sums of the weights, which grow with the index.

`Membership_proofs`, for any finite set of daemons:

- `RelayedCopiesAreNotOlder`, from the types and that messages are finite in number
  (a restart looks for the highest version in circulation).
- `FirstReportReplaces`, from the assumption `~LateClock` (see above). `NewestInv`
  adds what holds of a host that has not reported since it started: its clock has
  passed every copy of its earlier reports. Clocks set back later do no harm.

`Tunnels_proofs`, for any finite sets of tunnels and connections
and any workers:

- `PoolLosesNoWakeup`. `NoLostWakeup` counts idle connections against pushes about
  to notify, wakeups on their way and tasks about to look. `PoolInv` adds which
  registration a task has where in the loop, and that a task in the loop holds no
  connection; each action is shown to change both sides of the count alike.
- `PoolImplementsHandoff`: the initial state and every step of the pool map to
  `Handoff`'s under the mapping of `HandsOver`. Its fairness is left to TLC.
- `DrainCutsOffNothing`. `DrainInv` adds that accepted tunnels are counted and that
  the flag is set before the drain looks.
- `TunnelsLoseNoWakeup`, `TunnelsHandOver`, `TunnelsAreDrained`: every step of
  `Tunnels` is shown to be a step of the pool or none, and one of the drain or none,
  so that the three results hold of the composition.
- `BridgesReachTheService`. `TunnelInv` says that a connection is in the pool or with
  one tunnel, and that nothing is left on it from before when a tunnel gets it, so
  that the status byte the relay reads answers its own request.

`ProxyManager_proofs`, for any configs, services, ports, tasks and changes:
`ListingsAreServed`, `NoListenerIsLost`, `PortsShareTheBalancer`. `ManagerInv` adds
that a name has one handle even if it is in several groups, that a name about to be
listed is not listed yet, where a pass has got to (until the removals are done, every
proxy is to be removed or is of a service that the config has, which is why
`HttpProxies::retain` drops no balancer in use), and that a task that binds is the
one being waited for.

`ServiceMove_proofs`, for any clusters, groups, nodes and services, any valid configs
to start with, and any number of operations of other admins: `CatalogsStayValid`,
`ServiceIsKept`, `MovesAreAllOrNothing`.

- It begins with what the operations of `Catalog` do. `Retain` keeps the elements at the
  given positions in their order, shown by way of an injective rank of positions. Every
  operation is then described by what it does to the set of entries (group, service) of a
  config: `UpsertFacts`, `RemoveFacts`, `RenameFacts`, `SetRoutesFacts`, and from
  them `HandleKeeps`, that no request breaks `WellFormed`.
- `MoveInv` has three parts. `StateInv`: what the move has fetched is a valid service of
  the name and node it was asked for, and every request that went astray is one of the
  move's three. `KeptInv`: as long as nobody interferes and the removal is answered, the
  source has the service until the move has ended with success, the target has it from
  the confirmed add on, and a request that went astray cannot hit the source. `WholeInv`:
  the entries of every cluster at each step of the move, in terms of those before it, and
  that a rollback will be accepted because the add was. The properties speak only of the
  end of a move, so this is what carries them through it. That the move is between two
  different places is needed throughout: the removal must not hit the copy.

All these invariants were first checked by TLC on the instances of the runs.

The assumptions on constants are the modules' ASSUMEs: numbers are numbers, the sets of
nodes, tunnels and reverse connections are finite, the values that stand for "none" are not
members of the sets they are used with, and what a config holds are instances.

Only model-checked:

- all liveness (`Convergence`, `HealthConverges`, `StoppedGoStale`, `Settles`,
  `EveryTunnelDecided`, `ZeroEndsDrain`, the fairness half of `HandsOver`), which is
  out of the prover's reach;
- `PrefixOnSegments`: it compares two ways to take a path apart, one of them by sorting
  the positions of slashes, for every path. That is an induction over sequences, and the
  prover cannot instantiate the library's induction theorems. (Sums over finite sets are
  within reach because a counterexample can be taken smallest in a set of subsets,
  `SmallestSubset`, which needs no operator parameter; `Retain` is defined by positions
  and not by a fold for the same reason.)

## Not modelled

- Two daemons that accept changes at the same version end up with different configs
  under one version for good, since only a higher one is taken. The documentation
  does not claim otherwise; convergence is stated for one writer. A hand edit of
  `routes` alone is not noticed by the poll loop; the model has it so.
- Addresses and relays in the peers table, NodeJoin, and the row that a reverse
  registration updates: they carry no version, and nothing says which of two
  addresses should win.
- The spawning of reverse workers for new peers, the target of `fill_tunnel_pool`,
  and several relays for one node.
- Domains and local ports of services in `Config::validate`; host parsing and domain
  lookup in the HTTP listener.
- `io.rs`, the REST API, telemetry and metrics, TLS, PKI and CLI parsing: library
  calls, read-only views, or parts nothing else depends on.
