# Verification of synapse2

synapse2 manages Docker hosts: an MCP server, a REST API and a CLI run container,
compose, docker, host and scout operations on many machines, over pooled SSH
sessions and Docker sockets forwarded through them. This directory holds TLA+
models of the program from the start of a process to the calls of a daemon, the
TLC runs that check them on small instances, and TLAPS proofs of their safety
properties, and of the promises they implement, for any number of callers, hosts,
requests and processes. Paths below are relative to the
repository's `src/` directory unless they say otherwise.

## The system

| Part | Source | State | Operations | Modelled in |
|---|---|---|---|---|
| SSH session pool | `ssh/pool.rs` | key -> `OnceCell<PooledSession>`; per session: permits, last use | `checkout`, `exec`, `invalidate`, `evict_idle`, `shutdown`, `spawn_close` | `SshPool` |
| Multi-host fanout | `fanout.rs` | one future per host, a semaphore, the results so far | `fanout` | `FanoutSpec`, `Fanout` |
| Docker client cache, forwarded sockets | `docker_client/*.rs`, `ssh/forward.rs` | host -> `OnceCell<BollardClient>`; a socket file per host; forwards in the ssh master | `client_for`, `invalidate`, `connect_remote`, `ForwardedSocket::open` and `drop` | `DockerClients` |
| Compose discovery | `compose.rs`, `cache.rs` | TTL cache host -> projects | `list`, `refresh` | `ComposeDiscovery` |
| Services | `flux_service/*.rs`, `scout_service/*.rs` | none kept; steps on hosts | 70 operations | `ContainerOps`, `DockerOps`, `ComposeOps`, `HostOps`, `ScoutOps` |
| Confirmation gate | `elicitation_gate.rs` | none kept; a 10 s wait | `require` | `ActionRun` |
| Actions, scopes, dispatch, deadline | `actions*`, `runtime_budget.rs` | none kept | scope of an action, required fields, dispatch | `Actions`, `ActionRun` |
| Surfaces | `api.rs`, `mcp/*.rs`, `cli*` | none kept | REST, MCP tools and resources, command line | `Surfaces`, `ActionRun` |
| HTTP server | `server/routes.rs`, `server.rs` | a semaphore | layers of a route, concurrency limit | `HttpServer` |
| Start, sweep, policy | `main.rs`, `server.rs`, `ssh/known_hosts.rs` | socket files in /tmp | start, `sweep_stale_sockets`, choice of auth, bind, exit, crash | `Startup` |
| Configuration, hosts | `config*.rs`, `host_config.rs` | the environment; read at start, the hosts at every operation | precedence of sources | `Config`, `HostSources` |
| Validators, caps, formatters, logging, help, scaffold, CLI tools | `synapse.rs`, `token_limit.rs`, `formatters*`, `logging*`, `cli/{doctor,setup,watch}.rs`, ... | none | text | no |

How they interact. A process starts (`Startup`), takes its settings (`Config`) and
serves. A request passes the layers of its route (`HttpServer`), becomes an action,
whose scope is checked, and runs under a five-minute deadline (`ActionRun`); when
it passes, or the client goes away, the future is **dropped at whatever await it is
in**. The action calls a service method, which asks for a confirmation if it is
destructive, and fans out over hosts (`Fanout`) or tries one host after another. A
remote command goes through `SshPool::exec`; a docker request through a client of
`DockerClientCache`, whose socket is forwarded over a session checked out of the
same pool. `DockerClientCache::invalidate` forgets the client and then the session;
`SshPool::invalidate` forgets the session only, and the client above it finds out
at its next request. Compose operations read the list that discovery cached.

What makes it hard:

- the runtime is multi-threaded, and every `.await` and every gap between two map
  operations lets other callers in: a map entry may be another one when a caller
  comes back to it, and removals are **by key**;
- futures are dropped (deadline, gone client), so code after an await may never
  run; only destructors do; a change already sent takes effect all the same;
- a lost reply looks like a failure, and a failure sends the operation to the next
  host;
- what an operation found before it asked the user is acted on after the answer;
- who may do what is spread over scope tables, the gate, the policy and the start;
- `OnceCell` initialisers fail, and the next waiter runs its own;
- removed sessions and clients live on in the hands of other callers, and their
  destructors act on names (a socket path) that a successor uses by then;
- processes crash and leave files under a pid that is used again;
- hosts hang, connects and commands fail and time out; the wall clock may be set;
- settings are read twice, and the first reading may move where the second looks.

`PROJECT.json` lists the hazards with the line where each bites and the property
that covers it, or why none does.

## Modules

How they are put together:

    OpSteps <- ContainerOps <- DockerOps <- HostOps <- ScoutOps <-+
       ^------ ComposeOps <-------------------------------------- Actions <- Surfaces <- ActionRun
    OperationSpec <-- refinement -- ActionRun          FanoutSpec <-- refinement -- Fanout
    ConnectionSpec <-- refinement -- SshPool, DockerClients
    HostSources <- Config        Actions <-- INSTANCE -- Startup
    Queues <- SshPool, DockerClients, HttpServer       Lists <- ActionRun, HostSources
    ComposeDiscovery: on its own
    each module with theorems <- its *Proofs           Queues, Lists <- ListProofs <- theirs
    (those of Config are in StartupProofs)

### The operations: OpSteps, ContainerOps, DockerOps, ComposeOps, HostOps, ScoutOps

An operation is a **program**: a sequence of phases, in the order of the service
method. `Require`, `Validate`, `ResolveHost`, `TargetHosts`, `SeveralHosts`,
`OtherHost` are checks and lookups; `Confirm` is the gate, with whether its text
names the host; `Discover` asks the hosts for their daemon's id; `Probe`, `First`,
`One`, `OneOther`, `Cached`, `Each` work on hosts, with a **body**: a sequence of
calls of a daemon (`Get`, `Do`) or commands (`Run`, `Change`). `Attempt` and
`OrElse` say which errors the code survives. `EachEvicting` and `First` invalidate
the client of a dead transport, `One`, `Probe` and `Discover` do not. So
`RecreateOnHost(pull)` reads like the function: inspect, pull, stop with its error
dropped, remove, create, start.

Two operations are simpler than the code: the resource of the compose projects asks its
hosts one after the other (`mcp/resources.rs:130-147`) and has `Each` here, and `delta`
always reads its target with `stat` and `cat`, where the code opens a local one itself
(`fs.rs:332-334`). Both only read, and no property depends on the difference.

Of replies only success or failure is kept: which containers match a filter, what
is parsed from `df`, how a diff looks, is data no property is about. `create_exec`
counts as a read: what it makes does nothing before `start_exec`. The list of
`emit` is a non-empty prefix of the hosts.

### Actions and Surfaces

`Actions` is the table: for each action and subaction the program its dispatch
runs, with the fields it requires, and the scope `actions.rs` demands. The scope
tables and the programs are translated from different files; that they agree is a
property. `Surfaces` says which operations each surface offers: the fixed part of
REST, everything over MCP and two resources beside it, and the command line, which
parses its own arguments and checks some fields in another order.

### ActionRun and OperationSpec

`ActionRun` runs the programs: `Arrive` with the scope check of the surface;
`Check`, `TargetHosts_`, `ResolveHost_`, `ResolveOthers` and `Skip` for the phases
without work; `RequireConfirmation`, `UserReplies`, `Elicited`, `ElicitTimeout` for
the gate with its four confirmers; `Read`, `Send`, `Reply` for a step of a body on a
host, where a reply may be success, an error, or lost; `Conclude` for the end of a
phase; `Deadline` and `Abandon` for the dropped future. A change whose reply was lost,
or whose operation was dropped, is `late`: `Straggle` lets it take effect at any time,
or never. That may be at once, while the operation asks the next host to do the same,
or long after the answer.

| Model | Code |
|---|---|
| `op`, `host`, `caller` | the request |
| `phase`, `lane` | where the operation is, and where on each host |
| `targets`, `owner`, `other` | the hosts it found |
| `gate`, `asked`, `user` | the confirmer's `require` |
| `daemon`, `cont`, `client` | the world: which daemon a host leads to, the container of a daemon, a cached client that is usable or dead |
| `late` | changes on their way whose replies nobody waits for |
| `issued`, `done`, `blurred`, `stale` | history, for the properties |

Every daemon has one container, the one the requests are about. `Accepts` and
`After` are what dockerd does with a call; paused containers are running ones, and
a call that could be refused in a state may fail in any. A daemon that gives no id
is one whose `Discover` failed; `Dedupe` keeps, in order, the hosts that do not repeat
the id of one before. The deadline does not apply to the command line and
to resources, as in the code.

`OperationSpec` is what a user may rely on: nothing is changed before the operation
is permitted, by its scope and, if it has a gate, by the gate; and nothing further
is sent once it is answered. `PromiseSpec` is the refinement.

### Queues and Lists

The waiters of a semaphore of tokio in the order they came, and what is left when one
of them is dropped; `SshPool`, `DockerClients` and `HttpServer` have such queues.
`Lists` has what is kept of a list by a filter: the hosts left by a dedupe (`ActionRun`)
and by the merge of host sources (`HostSources`).

### ConnectionSpec

What the pool of sessions and the cache of docker clients promise alike. Callers of a
key come to its place (`Come`); one of them connects there, if nothing is connected
there yet (`Connect`), and the others take what it has made (`Share`); nothing is
closed, and no place is used for another key, while somebody is at it or can come to
it (`Close`, `Free`); and whoever leaves a connection that failed them has seen to it
that nobody else comes to it (`Fail`, `Report`). Anything may be forgotten at any time
(`Forget`). It says nothing of how callers wait, of evictions, of the two steps a
report takes, nor of files and forwards. `SessionsAreShared` and `ClientsAreShared` are
the two refinements; a place is a cell, and it is open from its connect to its end.

### SshPool (`ssh/pool.rs`)

A session is named by the cell it initialises; the cell's name is reused once
nothing refers to it, so `Cells` bounds the allocations alive at the same time.

| Model | Code |
|---|---|
| `sessions`, `keyOf` | the `DashMap`; which key a cell was inserted for |
| `ready`, `initq` | the `OnceCell`: set or not, and its init semaphore (holder first) |
| `permits`, `permitq` | the session's fair `Semaphore` |
| `idle` | time since `touch` |
| `pc`, `cell` | where a caller is in `exec`, and the `Arc` it holds |
| `stale`, `doomed` | keys `evict_idle` / `shutdown` collected and not yet removed |
| `closers`, `closed` | detached `spawn_close` tasks; sessions closed |

`Enter` takes or inserts the cell under the entry lock. `UseReady`, `JoinInit` and
`ConnectAgain` are the three outcomes of `get_or_try_init`: a session is there; the
caller connects or queues; the permit came to a waiter and it runs its own closure.
`ConnectOk`, `ConnectFail` and `Cleanup` end a connect; `Acquire`, `CommandOk`,
`CommandFail` and `Invalidate` run the command. `Cancel` drops the future at an
await: destructors give permits back, no other code runs. `EvictCollect` and
`EvictRemove`, `ShutdownCollect` and `ShutdownRemove` are the two halves of the
sweeps; `CloseDetached` is a closer that closes only as the last owner;
`Drop` is the end of the last `Arc`. `shutdown` never reaches `close()`:
`Arc::try_unwrap` is given a clone while `pooled` still owns the original.

### FanoutSpec and Fanout (`fanout.rs`)

`FanoutSpec` is the promise in the module's documentation: each host is asked, its
reply is kept under its position, the outcome lists the replies in the hosts'
order. `Fanout` is the code: a permit before the operation (`Start`), results in
completion order (`Finish`), then sort, partition and classify (`Aggregate`).
`KeepsPromise` is the refinement, with `answer` read off the collected results.
`hung` is chosen at the start: the operations that never end, for `fanout` sets no
timeout of its own.

### DockerClients (`docker_client/cache.rs`, `ssh/forward.rs`)

Clients are named by their cells as above. Of the SSH pool the module keeps the
session it has for each host (`pool`), and `PoolForgets` stands for whatever makes
the pool give it up. `Checkout`, `ClearPath`, `RequestForward`, `Secure` are the
steps of `connect_remote` and `ForwardedSocket::open`; `BuildFails` is an error in
any of them, which leaves a forward that was requested without an owner. `ConnectFails`
is an error behind them, in `Docker::connect_with_socket`: the forward has its guard by
then, which unlinks the path and detaches the cancellation (`cancels`,
`CancelForward`). `InvalidateClient` and `InvalidateSession` are the two halves of
`invalidate`. `DropClient` is the destructor (it unlinks the path), `CloseForward`
the detached cancellation of the forward, `DropSession` the end of an ssh master.

External assumption, from how `forward.rs` uses openssh: a session has at most one
forward for a path, a repeated request for it succeeds without binding anything,
and binding fails when a file is there. `file` says whose listener the path leads
to (or to nobody's, `Stale`).

### ComposeDiscovery (`compose.rs`, `cache.rs`)

A host's projects are a version that any change increases; a discovery is the pair
of versions seen by `docker compose ls` (or its failure) and by `find`. `list` is a
lookup (`Hit`, `Miss`), the removal by key of what the lookup took for expired, the
commands, and the insertion; `refresh` and other lists come in between. `floor` and
`need` are history: the version at the last refresh, and whether the host was
quiet (nobody discovering) just then. What is cached when `docker compose ls` failed is
marked `partial`; a refresh ends it as it ends any other list. A discovery that fails or
is dropped between its two halves caches nothing (`CachedIsWhole`).

### HttpServer (`server/routes.rs`)

A request is received for a route with or without credentials; `Layers` is the
stack of its route, the outermost first; `Acquire` takes a permit or a place in the
queue of tokio's fair semaphore, `Respond` and `Disconnect` give it back. Invalid
credentials are as good as none, and status codes are left out. MCP is served
stateless with JSON replies (`mcp/transport.rs`), so a request keeps its permit until
its operation is answered; whether `rmcp` also ends an operation whose client is gone
is up to that library, and `ActionRun` allows both. A slot whose request
was answered stands for the next to come.

### Startup (`main.rs`, `server.rs`, `ssh/known_hosts.rs`)

Processes run as server, over stdio, or as a command, under a pid that is free. The
sweep is two steps per file: the look at the pid (`SweepLooks`) and the removal
(`SweepRemoves`). `LoadConfig` picks any configuration and decides as
`resolve_auth_policy_kind` and `enforce_destructive_policy` do; `CallersOf` says
whom the policy then lets in, in the terms of `ActionRun`. `Exit` runs destructors,
`Crash` does not. One pid namespace, one user, one port. `SweepRemoves` always succeeds:
the code ignores an error of `remove_file` (`known_hosts.rs:86`), and one user may
remove what is his. A file name is the host name's
`Parts` between hyphens with the pid behind them, for the sweep reads the pid off after
the last hyphen and a host name may have hyphens of its own.

### Config and HostSources (`config.rs`, `config/env.rs`, `host_config.rs`)

One setting of any kind (text, bool, or the limit, which the second reading of the
`.env` files passes over), whose value is the source it came from:
seeding the environment, `config.toml`, the `.env` files again, the environment.
`Ranking` has the sources in the documented order. `HostSources` has the host lists as
operators, over lists of any length: the environment, else the first file that names
any host, below it `~/.ssh/config`, and `local`. A file is its path and what it says,
and a host remembers where it was read (`from`), so that `FirstWins` can tell which
source won, and that nothing of another is there. `ConfigFiles` are the files looked
into: the one `SYNAPSE_CONFIG_FILE` leads to if that is set, however little is in it,
and the default ones otherwise.

### Other modules

`MC*` give TLC its instances and hold the documented sentences the code does not
keep. `*Proofs` hold the theorems. The operators described as faulty variants are
plausible errors in the operator below them, one for each checked property: put in
place of the correct operator, each makes TLC report the property violated.

## Runs

| Run | Instance | Shows |
|---|---|---|
| `SshPool_safety` | 3 callers, 1 host, 3 cells, cap 1 | permits conserved; one connect per cell; no session closed while usable; nobody queues behind a caller that will not go on; the promise of shared connections (a failed session is not found again included); a failed connect takes no good session with it; empty cells are left behind only by dropped callers |
| `SshPool_live` | 2 callers, 2 cells, `with_permits(0)`, the sweep beside them | every `exec` ends; cells out of the map are released |
| `Fanout` | 4 hosts, one name twice, at most 3 at once, any set hanging | the promise; the cap; hung hosts starve nobody while fewer than the cap; the caller returns when none hangs |
| `DockerClients` | 2 callers, 1 host, 2 cells, 2 sessions | the promise of shared connections; a dead tunnel is not handed out again; only failed builds leak a forward; every call ends |
| `ComposeDiscovery` | 2 callers, 1 host, 2 changes, clock may jump | lists after a quiet refresh are fresh, and lack nothing for an older failure; what is cached is a whole discovery of its host; every list ends |
| `ActionRun` | 1 request, every operation and surface, 2 hosts with one daemon or two, 7 kinds of callers | readers change nothing; destructive changes only affirmed in time; only on the hosts named by caller and question; recreate loses nothing to an early failure; every daemon is asked; a second host is changed only behind one that failed in doubt, whenever a lost change takes effect; a dead client survives only in the phases that do not evict; the refinement of `OperationSpec` |
| `ActionPair` | 2 requests about one container: a recreate, and a stop, a prune or another recreate | the container is gone only if someone answers for it |
| `Startup` | 2 processes, 2 pids, a host name with a hyphen, 38 configurations that differ | the sweep spares the sockets of processes older than it and takes the leftovers of the dead; a server others can reach checks, asks, and lets nobody write by the token alone |
| `HttpServer` | 3 requests at a time, limits 0, 1, 2, four policies | the limit holds; who is turned away takes no turn; every request has its turn |
| `Config` | every kind of setting by every combination of its sources; every combination of host sources, with two default files of six contents each or with `SYNAPSE_CONFIG_FILE` set | the documented precedence of settings; the first source looked into that names hosts wins entirely, `local` is always there |

Two more runs each find a statement of the documentation violated (`findings` in
`PROJECT.json` quote them):

- `DockerClients_doc_drop`: the destructor of a replaced client unlinks the socket
  of its successor.
- `Config_doc_home`: with `SYNAPSE_HOME` set in `./.env`, a setting of `./.env` beats
  the one in `SYNAPSE_HOME/.env`, since it is in the environment by then.

### Bounds

- One host or key in the caches: entries of different keys share nothing in any of
  the maps. The proofs are for any set of hosts.
- Three callers suffice for one that fails, one that waits on it, and one that
  comes to the entry left behind; with two, a detached closer, a sweep and the
  shutdown act beside them.
- As many cells as callers: a caller that finds no free name waits, which delays
  it but loses no ordering of the others' steps. Two are enough for an old and a
  new session alive together; the violation of `DockerClients_doc_drop` takes three.
- One cancellation of a session by a failed build at a time (`ConnectFails`): a second
  one would cancel the same forward once more.
- One permit (the least there is, so that every permit matters), one tick of
  timeout, one tick of TTL and two changes: an entry is fresh, about to expire, or
  expired; a list is current, one change behind, or two.
- Two hosts in `ActionRun`: a first and a next, of the same daemon or not, with the
  container on both or on the second only. Requests interact by the container and
  the cached clients only, so two requests on one host are enough for `ActionPair`.
- Two processes and pids: one that crashes and one that comes under its pid, beside
  or before a sweep. Three requests over HTTP: one served, two in the queue.
- Symmetry of callers and cells is used in `SshPool_safety`, of processes in
  `Startup`; neither has a liveness property.
- `Fanout`, `ActionRun`, `ActionPair` and `Config` end when their callers have what
  they asked for, so those runs do not check for deadlock; the others do.

### Fairness

- `exec`, `client_for` and `list` take each step they can (weak fairness of the
  caller's steps together). The runtime polls ready futures, connects end by
  `CONNECT_TIMEOUT`, commands and requests by the operation deadline and bollard's
  timeout. Which way a step ends is not assumed.
- No fairness for `Enter`, `Lookup`, `Hit`, `Miss`, `Cancel`, `refresh`, `Tick` or changes:
  nobody has to call, give up, or change anything.
- The detached closers and the end of an `Arc` are fair, and so is the second half of a
  sweep or a shutdown that has begun. The program never spawns the sweep (`EvictionTask`); the runs have it,
  so that it may act beside the callers at any moment, but without fairness: it may as
  well never run, and that idle sessions go is not a property here.
- `Fanout`: an operation that is not hung ends.
- `ActionRun` has safety properties only, and no fairness: hosts and users may never
  answer, and a late change may never take effect.
- `HttpServer`: a request that was received is routed, and one that is served ends,
  by its deadline; a read of a resource, which has none, by those of its commands.

The semaphores are tokio's, which are fair: first come, first served.

## Proofs

For every value of the constants (the named assumptions of the modules say which:
finite sets of callers and requests, positive bounds, distinct markers, host lists
made of hosts). Every theorem is about `Spec`. The properties are not
inductive alone; what each needs besides is said below.

- `ListProofs`: leaving a queue leaves a queue, of the others, in their order; what is
  kept of a list are members of it, each once, in their order (`MembersAtOrder`). All
  modules below but `FanoutProofs` and `ComposeDiscoveryProofs` cite it. `MembersAt` is
  a recursive function, and the lemma is about every list: it goes by the least length
  at which it would fail, which needs no induction rule.
- `SshPoolProofs`: `TypeCorrect`, `PermitsAreConserved`, `ConnectIsExclusive`,
  `CloseIsSafe`, `DiscardedNeverReturns`, `FailedSessionLeaves`,
  `FailureIsContained`, `GhostsComeOfCancels`, and `SharesSessions` (see below). A
  permit could come back to a semaphore that a connect is about to replace, and a cell could be closed
  or reused under a caller. `IInv` adds that a caller inside `exec` refers to an
  allocated cell (`TasksReferToCells`), that the map has each cell under the key it
  was inserted for (`MapKeysAgree`), that callers past the initialisation hold a
  session (`UsersHoldSessions`), and that what is closed is still allocated
  (`ClosersAreAllocated`). One lemma per conjunct has one step per action; lemmas about
  the cardinality of the running callers carry them.
  `WaitersWaitForSomebody` is the part of "every `exec` ends" that is safety, for any
  number of callers: a caller in a queue is never behind one that will not go on. That
  the head of a queue is a caller at all who waits there needs the queues to be exactly
  the callers that wait, each once, whatever step somebody failed or was dropped in
  (`InitQueues`, `PermitQueues`, from the lemmas of `ListProofs` on joining, leaving and
  heading a queue); that a permit is there when nobody runs is `PermitsConserved`.
- `FanoutProofs`: `TypeCorrect`, `CapHolds`, and `Refinement` (the code implements
  `FanoutSpec`), for every list of hosts and cap, the empty list included. The
  invariant adds that each result comes from a finished future and carries its host,
  that no position has two, and that every finished future has one
  (`RawFaithful`, `RawUnique`, `RawComplete`). When all have finished, sorting puts
  the result of position i at place i (`SortPlaces`), so the partition and the
  classification agree with the promise's. A `Finish` maps to `Reply`, `Aggregate` to
  `Return`, a `Start` to a stutter.
- `DockerClientsProofs`: `TypeCorrect`, `DeadTunnelIsForgotten`, `LeaksOnlyFailedBuilds`,
  `SharesClients` (see below), and `WaitersWaitForSomebody`: as in the pool,
  who waits for a client waits for one that builds it or is next to (`InitQueues`).
  That a reported dead transport leaves neither client nor session takes more than the
  two removals: between them another call may build a client, over the dead session or
  over a new one. `IInv` adds that a session the pool has is of one host, and so is
  every client over it (`SessionsOfOneHost`), that the cache has each cell under its host
  (`CacheAgrees`), that between the two removals the client of the call is out of it and
  stays out (`DeadClientsAreOut`), that a cell has one builder (`OneBuilder`), that only a
  builder, a client or a forward to be cancelled keeps a session (`SessionsHaveUse`), so
  that a name that is used again is not that of a session somebody still holds.
- `ComposeDiscoveryProofs`: `TypeCorrect`, `RefreshedListIsFresh` and
  `WholeListingsAreCached`. The last needs that what a caller has found so far was found
  in its order and on its own host (`FoundInOrder`). For the other the invariant
  adds that a floor is never above what the host has (`FloorsAreReal`), and that what a
  caller has found, and what the cache holds, is no older than the last refresh if
  that one was quiet (`FoundIsFresh`, `StoreIsFresh`). It says so of both sources, the
  running projects and the scanned ones. So a list that lacks the running ones, since
  `docker compose ls` failed, is cached as if it were complete, but ends with the next
  quiet refresh.
- `HttpServerProofs`: `LimitIsKept`. The served and the free permits add up to the
  limit by a cardinality argument over `Acquire` and the permit that passes on to the
  head of the queue; `IInv` adds the types and that nobody queues twice (`Once`). That who
  is turned away holds no permit is read off the layers of the routes.
- `StartupProofs`: `SweepIsComplete`, `EldersKeepSockets`, `ExposureIsGuarded`. A file is
  removed a step after the look at its pid. `IInv` adds that a pid has one process
  (`PidsUnique`), that what a sweep is about to remove is of none of its elders
  (`EldersAreSafe`), that a pid nobody took has no process (`QuietIsQuiet`), and that what
  the dead have left is still before the sweep or gone (`SweepMissesNone`). For the
  exposure it adds that a server is bound with a configuration as resolved and
  enforced (`PolicyDecided`); the rest is the tables, case by case, for all
  configurations.
- `StartupProofs`, second part, about `Config`: `SettingsRanked` and `HostsRanked`. The
  first supposes that no `.env` file sets `SYNAPSE_HOME`; `Config_doc_home` shows what
  happens otherwise. Its invariant, `SettingInv`, says of each step what the input has
  made of the environment and of the setting by then (`Seeded`, `FromToml`,
  `FromFiles`); that this is what the highest source says is then one case per source.
  The second is for host lists and files of any number and length (`WellFormed` is all it
  supposes). `HostsInv` has the hosts as those of the sources. `Counting` is the explicit
  source the operation took, and `OneCounts` that it is the first of the environment and
  the files to name any host; there is only one such (`WinnerIsOne`). `HostsAre` splits
  the hosts into those, the discovered ones with free names, each once, and `local`, and
  `Together` reads off what every name stands for (`FirstOfName`) and where every host
  was read: no host of a source that did not win is among them.
- `ActionRunProofs`: see below.

### The promise of shared connections

`SharesSessions` and `SharesClients` show that the pool and the docker clients
implement `ConnectionSpec`, step by step, for any sets of callers, keys and cells:

| Step of the promise | `SshPool` | `DockerClients` |
|---|---|---|
| `Come` | `Enter` | `Lookup` |
| `Connect` | `ConnectOk` | `Secure` |
| `Share` | `UseReady` | `UseReady` |
| `Leave` | `Cleanup`, `CommandOk`, `Cancel` | `BuildFails`, `ConnectFails`, `OpReturns`, `Cancel` |
| `Fail` | `CommandFail` | `OpDead` |
| `Report` | `Invalidate` | `InvalidateSession`, the second half |
| `Forget` | `EvictRemove`, `ShutdownRemove` | `InvalidateClient`, the first half |
| `Close` | `CloseDetached`, when it closes | `DropClient` |
| `Free` | `Drop` | `CloseForward`, `DropCell` |

All other steps are stutters: queueing, permits, the tick of the clock, collecting what
to evict, and everything about files and forwards. The hard steps are those that act on
a name found before. A `Report` must leave no entry to the connection that failed, though
removals are by key and the entry may be another one by then: the pool needs
`MapKeysAgree`, the clients `DeadClientsAreOut`. A `Leave` may clear an entry only where
nothing is connected: that is why `Cleanup` looks at the cell under the entry lock, and
`HeldIsOpen` (whoever is at a cell with a session finds it open) why it is enough. A
`Close` must find the place deserted, which for the pool is `CloseIsSafe`.

### The operations

`ActionRunProofs` is about every operation of the table, on every surface, for any
number of requests and hosts at once. It goes in two parts.

*What a program looks like.* `WellMade(o)` describes the shape of the program of an
operation: read-only phases first; then, if it is destructive, the gate; changes only
by the last phase; behind a question that names the host, no phase that chooses
another; a recreate removes, creates and starts in this order. The shapes are sets of
sequences of phases that are closed under the ways programs are put together, so each
of the 70 programs is seen to have its shape from how it is written down
(`ProgramFacts`). What the proofs use of it is `Facts`. A program that
asked behind its change, or a change outside the scope's table, would leave a leaf
unproved.

*What a run does with it.* Four layers, each inductive relative to those before it:

| Layer | Says of each request | Carries |
|---|---|---|
| `IInv` | nothing happened before it was permitted; a host works on a step of its phase; no question is passed unaffirmed; changes are sent by the last phase only (`Arrived`, `InStep`, `Confirmed`, `SentLast`) | `TypeCorrect`, `ScopesHold`, `DestructionIsAffirmed`, `KeepsPromise` |
| `SelectionInv` | the hosts chosen are those asked for, those of the question are still the ones worked on, changes went to them, every daemon has a host that is kept (`Chosen`, `AskedFor`, `SentToNamed`, `Covered`, `AtQuestion`) | `NamedHostsOnly`, `DaemonsAreCovered` |
| `EffectsInv` | before a host that is sent a change all have failed; who failed with a change done or late is blurred; a removal is behind the host's step (`Removed`, `InTurn`, `Blurs`, `OneHost`) | `OneHostIsChanged`, `RecreateFailsBeforeRemoval` |
| `SuccessionInv` | a host that removed the container has failed or is about to create the successor; no other host is changed; where a change is late the host has failed; a request without a successor is not answered "ok" (`Lacking`, `Placed`, `Alone`, `Through`, `Doubted`) | `GoneIsReported` |

`KeepsPromise` maps the steps of `ActionRun` to `OperationSpec`: `Send` to a change of
the promise, the step that passes the gate, or the arrival, to its permission, what
concludes to its answer, all others to stutters, `Straggle` among them.

`OneHostIsChanged` must hold of changes nobody waits for: what is said of the hosts a
request has changed is said of those it has touched, with changes `done` or `late`, and a
`Straggle` only moves a change from one to the other.

`GoneIsReported` adds `Accounted`, which relates the world to the requests: a container
that is absent was taken by a prune, or by a request whose host lacks the successor.
It is stated for worlds in which the containers exist at the start, since the property
says who took them away; one that was never there was taken by nobody.

`DeadClientsAreForgotten` does not need the layers: in the programs that go from host
to host every error of a call ends the attempt (`Firm`), and the end of an attempt with
a dead transport evicts.

### Only model-checked

- Liveness, under the fairness above: `ExecReturns`, `DiscardedIsReleased`,
  `OthersAnswer`, `CallerReturns`, `CallReturns`, `ListReturns`, `TurnComes`.
  Of `ExecReturns` and `CallReturns` the two theorems `WaitersWaitForSomebody` prove that
  whoever waits has somebody to wait for; that this one goes on is fairness.

Every invariant and every action property that a passing run checks is stated by a theorem.

## What else the models show

Behaviour the models have because the code has it, and that is worth knowing. None
of it is checked as a property, for it is what the properties have to allow.

- The cap of commands is per session, not per host: after an invalidation old
  commands run on while the new session has a full semaphore (`ssh.rs:18-20` reads
  otherwise). A waiter of a failed connect opens its own, so K waiters on a dead
  host wait K connect timeouts in turn. `shutdown` closes no session; only tests call it.
- Nothing calls `spawn_eviction_task` (`pool.rs:327`), though the documentation says that
  "a background task evicts sessions idle > 5 minutes" (`ssh.rs:22-23`, also `ssh.rs:67`):
  a session stays until a command on it fails.
- The files of hosts are numbered as if one list were gone through (`host_config.rs:3-15`,
  "first non-empty source wins entirely"). Where `SYNAPSE_CONFIG_FILE` is set
  (`host_config.rs:365`) its file takes the place of the later ones, so when it is missing
  or names no host they are not looked into. `ExplicitHostsWin` is about the sources the
  code looks into.
- A late `invalidate` of a client removes the cell another caller builds in, and two
  callers can open one socket path at once. Discovery of daemons, pull, rmi, prune,
  recreate, status, ports and doctor do not invalidate a client whose transport died,
  so the next operation fails on it, too.
- A discovery under way during a refresh caches its stale result after it.
- A mutating container operation without a host goes on to the next host when the
  reply of the first is lost. An `exec` that timed out goes on in its container, and may
  have its effect there while the same command runs on the next host.
- `recreate` and the compose operations ask hosts, by reads only, before they ask
  the user, though a comment has the gate "before any IO" (`container_driver.rs:307`).
- A recreate that fails, or is dropped, after `remove` leaves no container; the answer
  says so only as an error.
- Resources of MCP need valid credentials and no scope; reading
  `synapse://compose/projects` runs discovery on every host in turn, with a deadline
  for each command and none for the whole.
- A process that takes a pid between the sweep's look and its removal may lose its
  socket.
- An empty boolean in a `.env` file or the environment makes the start fail, other
  empty values are ignored; an empty `SYNAPSE_MCP_MAX_CONCURRENCY` in the environment
  hides the one of a `.env` file.

## Not modelled

Contents of commands and replies, ssh options, text layout and logging, the
validators of paths and commands (a check that may refuse stands where the code
calls them, so neither the allowlist nor the refusal of a doubled emit target is
checked), caps on texts and arrays, the pagination of ports; local docker hosts (no
session or socket); `clear()` and the explicit `close()` of the client cache (tests
only); the merging and parsing of compose listings; `refresh(None)`, which no caller
uses; the cache's limit of 10 000 entries, one per host; the verification of tokens,
CORS and body limits (external libraries); sweeps across pid namespaces; edits of the
host files while clients are cached under a host's name. `cli doctor`, `setup` and
`watch` are sequential scripts of one user; help, scaffold and web UI are static
text. The repository's build tools (`xtask`) are outside the server. `PROJECT.json`
has the reason for each component.

## Plan

1. A host's configuration that changes under a cached client, in `DockerClients`: the
   cache goes by name (`docker_client/cache.rs:53`), the host files are read anew.
2. The pure functions that are left: the merge of compose projects, caps by bytes,
   the map of emit targets, against reference definitions.
