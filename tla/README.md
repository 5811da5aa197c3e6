# Verification of outline-gate

outline-gate is a gateway process: it keeps an Outline (Shadowsocks) or AmneziaWG
tunnel alive, offers SOCKS5 / HTTP CONNECT and transparent proxies in front of it,
steers LAN traffic into the transparent proxy with nftables, and lets an operator
change keys, rules and the tunnel from a web UI while all of that runs. Almost
every defect it can have is one of order: two requests that overlap, a restart
between two steps, a value read before a lock and used after it. This project
models those parts in TLA+, checks them with TLC and proves the main invariants
with TLAPS.

The runs of `PROJECT.json` check the properties the code keeps, and one statement of
the docs it does not keep. Other statements of comments and docs that the code does
not keep are listed in section 5, each with the configuration in which TLC finds the
counterexample.

## 1. Inventory

| Component | Source | State | Operations | Module |
|---|---|---|---|---|
| Outline client | `internal/outline` | key, dialer, expanded key, server address (one RWMutex); `ready`, `failCount` (atomics); wake channel, slot channel | Connect, SetAccessKey, Reconnect, DialContext, MaintainReady with its probe, refresh and backoff | `Tunnel`, `OutlineClient` |
| Rule store and manager | `internal/bypass` | rules and file (Store.mu), static / matcher / resolved (Manager.mu) | Load, AddRule, RemoveRule, SetRules, SetStatic, Refresh, RunRefreshLoop, OnChange | `BypassManager` |
| Gateway | `internal/gateway`, driven by `cmd/outline-gate/main.go` | Gateway.active and engine, main's `gw` and `engine`, the kernel table | Apply, UpdateEngine, Flush, rebuildPush, startup retry, SIGHUP, RestartServices, shutdown, restart | `Gateway` |
| Packet paths | `internal/routing`, `internal/proxy/path_decider.go`, nft script | none that changes during a connection | chains, Decide, DecidePath, dialTarget, the process's own dials | `Routing` |
| Tunnel choice | `internal/tunnel`, `internal/amnezia/client.go`, switchBackend | Mux.backend, persisted backend, Client.mu / ready / dialer, daemon, interface, routes, rule | SetBackend, Up, Down, DialContext, RestartServices, shutdown | `Tunnel`, `TunnelSwitch` |
| Proxies | `internal/proxy` | listener, WaitGroup, per connection buffers and half-closed sockets | accept, handshakes, dial, relay, shutdown | `ProxyServer` |
| Connection log | `internal/connlog`, `internal/webui/connections.go` | ring, sequence number, subscribers and channels | Record, prune, Snapshot, Subscribe, cancel, SSE stream | `EventLog`, `ConnLog` |
| Persisted files | `internal/config` (key, backend), `internal/bypass/store.go` | `<path>` and `<path>.tmp`, inodes, what the disk has | PersistAccessKey, PersistBackend, persistLocked, loadAccessKey, Store.Load | `AtomicFile`, `PersistedFile` |
| Process | `run()` of `cmd/outline-gate/main.go` | context, wait group, error channel; main's mutex, engine, gateway pointer | startup, the goroutines and how they end, shutdown, the bounded wait; the callbacks above | `Process`, and the modules it drives |
| DNS stub | `internal/dnsdoh` | sockets and goroutines of every listen address, the read buffer, queries in flight | bind, serve over UDP and TCP, resolve over HTTPS, close | `DohServer` |
| Configuration, health, metrics, logging, UI shell | rest | counters, parsed values | parsing, reading | not modelled |

How they interact. Web UI handlers run one goroutine per request and call straight
into client, manager, mux and store; nothing serialises two requests. The
supervisor (`MaintainReady`) is one goroutine. A rule change, a reconnect or a
switch ends in main's `rebuildPush`, which builds a new routing engine and hands it
to the Gateway. Proxy connections read the manager (`MatchBypass`), dial through
the mux and report to the connection log.

What is hard in it: goroutines that overlap (client, manager, switch, files);
values read under one lock and used under another (`rebuildMatcher`,
`rebuildPush`, `Connect`); wakeups over a channel of capacity one; a restart or
kill between the steps of an update (files, table, interface); partial failure of
multi-step updates (`Up`, an nft delete followed by an add, UDP bound and TCP not);
connections that re-enter the process through the OUTPUT chain; half-closed relays;
an exit that waits for ten goroutines of which any may have failed. `PROJECT.json`
lists the hazards at their lines.

## 2. Plan

Order: the client (everything depends on it), the manager, the gateway, packet
paths, the connection log, the tunnel switch, the proxies, the files, the process
with its DNS stub. All of these are in place. Left, in this order:

1. A composition of `BypassManager` and `Gateway` at main's mutex, with the routing
   engine as the shared state instead of the versions each abstracts it to.
2. `config.Load` in a running process (SIGHUP, RestartServices): it reads the key file
   and renames a refused one as two steps, between which a request may write a good one.

## 3. Modules

Each module has its constants with a named assumption, one action per step that
touches shared state, and its properties at the end. Definitions introduced by
"Mutation of X" are plausible bugs of X; they are not part of the specification
and are used to see that each property notices one. `MC*` modules only add
symmetry sets and small constant sets for TLC; the other modules are run as they are.
`*Proofs` modules hold the inductive invariants and the proofs of section 6.

**OutlineClient.** A goroutine is a program counter and its locals; every access
to the mutex-protected fields, an atomic or a channel is a step. A static key stands
for its endpoint, dialer and address; a dynamic key expands to what its URL
publishes at that moment (`Rotate`). The network is good, flaky or dead, and may
settle. The web UI's ReplaceAccessKey and Reconnect and the key reload of main's
RestartServices are callers. `wait` may prefer its timer or a kick to a cancelled
context; the top of the loop sees it then.

**Tunnel** is what a backend of the mux promises its dials, whichever it is: it has a
dialer while it says it is ready; the dialer may be replaced at any time but is taken away
only when the backend is not ready; a dial is admitted while ready, reads the dialer then or
later, and begins only if it got one and the backend is ready at that moment. Both
`OutlineClient` and `TunnelSwitch` say in `IsTunnel` that they implement it: `up` is
`ready`, `current` the dialer, and `DialStages` and `DialersTaken` give for every goroutine
the part of `DialContext` it is in and the dialer it has read.

**BypassManager.** Rules are network or domain rules; lists are sets, because order
only decides which rule the log names. Persisting, committing to memory, installing
the matcher, looking up, installing the answers and OnChange are steps. The block
list is the same code without OnChange. A crash keeps the file. The file may be one the
operator has edited, and reading it may fail, at start and in a reload: main only warns,
the process goes on with no rules or with those it has, and its next edit replaces the
file. `known` says whether this process has read or written the content the file has;
`DiskIsMemory` is about such a file. DNS may be out for a while (`dnsUp`), and a refresh
then loses the addresses whose lookup fails.

**Gateway.** The table is the set of engines whose elements it carries: `{}` is no
table; a script run on top of an existing table merges. main's mutex and the mutex
of every Gateway object are separate, so two generations exclude only themselves.
`faults` counts the failures of each nft command up to `MaxFaults`.

**Routing.** An address is the set of lists it is on, with `port` if the port is the
transparent proxy's own, which both chains leave alone; a connection moves through the
chains and proxies, and the process's own dials pass the OUTPUT chain again.
`MaxHops` cuts a loop after three entries, two more than a correct path makes. For
a SOCKS client that names a host, `rules` has the rule of each list that comes
nearest to the name: `example.com` or `*.example.com`, for the name itself or for a
domain above it. Only the rule's own host is resolved, so a subdomain of a suffix
rule matches the name but its address is on no list. Its specification is `RouteSpec`
(`RouteInit`, `RouteNext`), so that it can be used in one module with `Gateway`.

**TunnelSwitch.** `host` is the set of parts (`daemon`, routes, rule, pinned route)
that Up has put in place; each step of Up may fail and is followed by its cleanup.
`Crash` ends the process at any step and starts it again: its memory (`pinned`, the
address whose route it has pinned, among it) is gone, the host's parts are not.
`Sweep`, what `downLocked` does to the host, deletes by name whoever made it, except
for the pinned route. `swept` says whether this process has swept yet.

**ProxyServer.** Bytes are items: those of the handshake, then data. `filled` are
the items the buffered reader has taken, `taken` those the handler or relay has
read. The two copy goroutines end separately; a SOCKS or HTTP client is not sent a
half-close, because `prefixConn` has no CloseWrite.

**ConnLog.** An event is its id and time; a stream takes its snapshot, subscribes,
and copies from its channel, in steps of their own; a snapshot that cannot be written ends
the handler before it subscribes. Events carry the wall clock, which `SetBack` may set
back. **EventLog** is what the log promises
those who look at it: events `first..last` are remembered, the oldest are forgotten first, a
page begins with all that is remembered and is then shown later events only, in order;
an event may be missing from a slow page. `IsEventLog` states that `ConnLog` implements it.

**DohServer.** ListenAndServe binds address after address; each bound one has a
goroutine that closes the sockets when the context ends, a loop that reads datagrams
into one buffer, and a loop that accepts connections. A message is its size class (no
id, no header, a query, or over TCP a broken one) and a response the id it carries and
whether it is an answer, or `Lost` if writing it failed; a query's goroutine works on `q`, its copy of the message.

**Process** extends `DohServer` with `run()`: loading the configuration, the bounded
startup, the goroutines of main's wait group, the error channel, the select, shutdown
and the wait of ten seconds. The other services are modelled by how they end: with the
context, with `Shutdown`, or by an error; a proxy also not at all, when one of its
relays hangs. A fatal error makes `run()` return nil, so that the exit code is 0.

**AtomicFile, PersistedFile.** `AtomicFile` is the promise: a register with calls
that take effect at once or not at all, from which a power loss may bring an earlier
value back. `PersistedFile` is the code: names, inodes, open files, what the disk may
have. `kind` tells the two files apart: `rules` is written under a mutex, `key` is not,
and `Overlap` says whether two requests may write it at once. (The third such file, of
the backend's name, is written without an fsync; its write is a step of
`TunnelSwitch`.) `IsAtomic` states that the second implements the first:
`value` is what a reader of the file gets, `older` what the disk may have, `call`
the caller's view of the program counter. A start that cannot read the file uses the
environment, or no rules, like one that finds nothing, but leaves the file alone
(`Unread`). An empty path, which turns persisting off, is left out.

## 4. Runs

Run one with `tlc -config <run>.cfg <module>`.

| Run | Module | Expectation | Properties | What it shows |
|---|---|---|---|---|
| `OutlineSafety` | `OutlineClient` | pass | `SlotAccounting`, `NoLostWakeup`, `IsTunnel` | The supervisor with probes and refreshes, a request of the web UI to replace the key by a dynamic one or to reconnect, and a proxy connection on the only dial slot, over a network that fails at will and keys a dialer cannot be built from: no slot is leaked, no wakeup is lost, and the client implements the abstract tunnel: ready is never announced without a dialer, and a dial begins only while it is announced, through the dialer installed at its admission or a later one. |
| `OutlineLive` | `OutlineClient` | pass | `EventuallyReady`, `DeadTunnelNoticed`, `SupervisorStops` | Under fair scheduling the supervisor brings the tunnel up once the network works, finds out a dead one and returns on shutdown. |
| `OutlineDynamicKey` | `OutlineClient` | pass | `KeyTakesEffect` | With dynamic keys and refreshing on, whatever the order of key replacements, restarts, failed fetches, a rotation at the publisher and the supervisor's fetches, the dialer ends up that of the current key. |
| `BypassRules` | `BypassManager` | pass | `DiskIsMemory`, `ResolvedFollowsRules`, `EngineFollowsRules` | Domain rules, requests and SIGHUP against the refresh loop, an operator who edits the rules file, reads and writes of it that fail, at start too, DNS outages and a crash at any step: whenever the store is unlocked a file this process has read or written, and nobody has edited since, holds what memory holds; stale refreshes and outages are made good, and the routing engine ends up with the effective nets once DNS answers for good. |
| `BypassNetRule` | `BypassManager` | violation | `EngineFollowsRules` | With IP and CIDR rules an edit changes no resolved address, so OnChange is not called and the engine and the nft sets keep the old nets. |
| `GatewayOne` | `Gateway` | pass | `ActiveMeansTable`, `TableIsEngine`, `PushNeverRevives`, `EventuallyApplied`, `PushesSuffice`, `PushReturns` | Rule edits and moves of the server that rebuildPush passes on, a service restart, a SIGHUP that replaces the Gateway object, the startup goroutine, every nft command failing now and then, shutdown, kill and restart, any two of these events in any order: an active gateway has a table and it is its engine's, no push revives a flushed table, startup ends with the rules installed, undisturbed pushes leave the newest nets in the table, and no order of main's mu and the gateways' mutexes blocks a push for good. |
| `RoutePaths` | `Routing` | pass | `LanFollowsPolicy`, `SocksFollowsRules`, `EntersOnce` | Every combination of mode, lists, ports, rules for names, origin, backend and OUTPUT redirection: where the OUTPUT chain exempts @bypass a connection enters the transparent proxy at most once, from the LAN takes the documented path unless it is for the transparent proxy's own port, and from SOCKS takes the path its own rules decide. |
| `ConnLogRing` | `MCConnLog` | pass | `RingIsTail`, `ShownInOrder`, `NoSendOnClosed`, `IsEventLog` | Two event streams that come, fail and go, a full ring, a full channel, expiry and a clock that is set back: the ring is the tail of the log, pages see increasing ids, nothing is sent on a closed channel, and the log implements the abstract one: the oldest events are forgotten first and a page begins with all that is remembered. |
| `SwitchOver` | `TunnelSwitch` | pass | `ReadyHasInterface`, `CleanWhenDown`, `IsTunnel`, `DialsReturn` | The switch at startup, switch and restart requests and a dial, with a daemon that may die, failing starts, configurations, handshakes and disks, and a process that is killed at any step and starts again over what it left in the host: ready is never announced without an interface, the client implements the same abstract tunnel as the Outline client, a client that is down leaves nothing in the host but a route pinned before the kill, and every dial that waits for Up's mutex returns. |
| `ProxyConn` | `ProxyServer` | pass | `StreamInOrder`, `LogIsTrue`, `ReturnWaits`, `HandshakeEnds`, `EndReachesServer`, `EndReachesClient` | A connection of each kind from Accept to Close, with a client that sends early or never, peers that close at any step, failing accepts and cancellation: no byte is lost or swapped between handshake and relay, the log tells the truth, ListenAndServe waits for its handlers, no client holds a handler in the handshake, and the end of a stream is passed on. |
| `FileAtomic` | `MCPersistedFile` | pass | `CrashSafe`, `IsAtomic` | Two goroutines rewrite the rules file under Store.mu, or the key file one request after the other, while file operations fail, the read at start among them, the process is killed and the power is lost at any step: the file is an atomic register, and a start that can read it gets its value. |
| `ProcessLife` | `MCProcess` | pass | `OwnAnswer`, `ServedOnBoth`, `QueriesEnd`, `ProcessExits`, `CleanStop` | run() from config.Load to its return with the DNS stub in full: listen addresses that cannot be bound, queries over UDP and TCP of which some are no queries, an origin that answers or not, goroutines that fail, a relay that never ends, a signal at any step: clients get the response to their own query, no half-bound address is left, every query ends, and the process exits, without its ten seconds if no relay hangs. |

**Bounds.** A run has one of what the code has once (supervisor, refresh loop, startup
goroutine, main) and as many requests, dials, viewers or writers as can overlap in a
way the property is about: against the supervisor a request and a dial in
`OutlineSafety`, a dial and the shutdown in `OutlineLive`, two requests one after the
other and a rotation in `OutlineDynamicKey` (the proofs cover any number; of the
configurations of section 5 `OutlineStaticKey` and `OutlineSetKey` have one request,
`OutlineReady` a request and two dials, `OutlineDiskKey` two requests that overlap);
two requests against the refresh loop in `BypassRules`, an updater, a restart and SIGHUP against
the startup goroutine in `GatewayOne`, a dial against a switch and a restart in
`SwitchOver`, two viewers, two writers. Proxy connections share nothing but the
listener, so `ProxyConn` has one, of each kind. `ProcessLife` has two listen addresses
(one may be served while the other fails), two datagrams, which can share a buffer,
one connection, and three services: the web server, a proxy and the DNS stub, which
stand for the three ways a goroutine ends; the rest end like one of these. One
dial slot instead of eight, a ring of two and channels of two make the full case
frequent; a threshold of two is the smallest at which a single failure is tolerated.
Two keys, or two addresses of one name, are enough to tell old from new. `MaxEdits`, `MaxCalls`,
`MaxRequests`, `MaxDns`, `MaxRotations`, `MaxFaults`, `MaxReloads`, `MaxStops`, `MaxBacks`
and `MaxCrashes` are one or two, which lets a fault hit any step of the second of two
operations and leaves time to recover. `MaxData` of two lets data arrive before and
after the handshake ends. `MaxEvents` bounds the edits, moves, reloads, restarts and
stops of `Gateway` together, and the queries and failures of `Process` together; it is
two, so that any two of them meet at every pair of steps.
Three inodes are the named one, the temporary one and one that only a power loss can
bring back. After a `delete table` that failed an added script merges with the old
elements, so `TableIsEngine` is stated for behaviours in which deletes have worked, and
only for the first gateway; `ActiveMeansTable` is stated for behaviours in which no
service restart applies an object that SIGHUP has replaced (`GatewayStaleApply` shows
what happens then).
`CHECK_DEADLOCK FALSE` is set where the model stops because a bound is used up,
a connection has ended or the process has exited.

**Symmetry** is used only in `ConnLogRing` and `FileAtomic`, which check safety and
a refinement without fairness, on sets whose members are only compared.

**Fairness** (`FairSpec` of each module that states liveness):
- Weak fairness of a goroutine's next step: the Go scheduler runs every runnable
  goroutine, and dials, lookups and fetches have deadlines.
- `OutlineClient`: strong fairness of taking a dial slot (a channel send is served in
  order) and of the refresh and probe tickers (a ticker that keeps becoming due is
  taken by the select, which chooses at random).
- `TunnelSwitch`: strong fairness of a dial's lock (a sync.Mutex hands itself over
  to a waiter that starved for a millisecond).
- `BypassManager`: weak fairness of the refresh tick. `Gateway`: of the startup
  goroutine, its retry, and the restart after a stop. `ProxyServer`: of the
  handshake deadline. `Process`: of every goroutine, of the answer to a query (the
  request has a timeout) and of a connection's deadline. The ten seconds of the exit
  are a timer too, but only `ProcessExits` assumes that it fires; `CleanStop` does not.
- Never assumed: that a client, server, operator or network does anything; the
  network properties say "if the network stays good", those of the rules "if DNS answers
  for good" (`<>[]dnsUp`).

## 5. Statements the code does not keep

In each of these configurations TLC finds a counterexample to the property, which states
what the quoted line says. `BypassNetRule`, of the table above, is the one whose effect is
plainest to a user: no race is needed.

| Configuration | Property | Statement | What happens |
|---|---|---|---|
| `OutlineStaticKey` | `KeyTakesEffect` | `client.go:212` "SetAccessKey replaces the Outline access key and reconnects" | A Connect of the supervisor that read the old key installs its dialer after the new one; static keys are never refreshed. |
| `OutlineReady` | `ReadyBelowThreshold` | `client.go:150` "a dialer is available and the failure threshold has not been hit" | A failure counted between `failCount.Store(0)` and `ready.Store(true)` leaves the client ready with its threshold hit. |
| `OutlineSetKey` | `SetKeyInstallsIt` | `client.go:213` "if Connect fails, ready is false and the new key is kept for retry" | When the fetch of a new ssconf:// key fails, the expanded key of the previous one is installed and success reported. |
| `OutlineDiskKey` | `DiskKeyIsCurrent` | `config.go:378` "runtime key changes survive container restarts" | Two overlapping replacements leave one key in the client and the other on disk. |
| `BypassMatcherRace` | `MatcherIsCurrent` | `docs/routing.md:35` "SOCKS matches hostnames reliably" | Two overlapping edits install their matchers in the opposite order of their rules. |
| `GatewayResidue` | `TornDown` | `docs/design-plan.md:269` "Teardown must remove nftables table" | An Apply that waits for the mutex while shutdown flushes adds the table again. |
| `GatewayRetry` | `ActiveAgain` | `CHANGELOG.md:130` "Gateway Apply retries with exponential backoff" | A rebuild that fails after startup leaves no table, and nothing applies it again. |
| `GatewayHup` | `TableFollows` | `docs/architecture.md:65` "re-read env/files, rebuild routing engine and nft sets" | SIGHUP during the first Apply leaves the new gateway inactive for good. |
| `GatewayStaleApply` | `StaleApplyHarmless` | `gateway.go:38` "Active reports whether rules are currently applied" | RestartServices applies the Gateway object it fetched before a SIGHUP replaced it: that Apply deletes the table, its script fails, and the new object is still active, so `/readyz` says ready over no rules. |
| `GatewayRestart` | `ServerExempt` | `docs/design-plan.md:118` "Always inject Outline server IP(s) into bypass set" | RestartServices applies the engine built before the server was resolved again. |
| `RouteInclude` | `NoLoop` | `gateway.go:227` "The outline-gate process must not be redirected" | Include mode with OUTPUT redirection does not exempt `@bypass`. |
| `RouteServer` | `ServerNeverTunnelled` | `docs/routing.md:7` "the following never go through the tunnel" | The SOCKS listener does not know the server addresses. |
| `RouteBlock` | `BlockedDropped` | `docs/routing.md:12` "drop (before bypass/tunnel)" | The OUTPUT chain returns `@bypass` before the block list is asked. |
| `RoutePort` | `LanEveryPort` | `docs/routing.md:23` "Other TCP ... REDIRECT → transparent proxy → routing.Engine" | The prerouting chain returns everything for the transparent proxy's port, so a LAN connection to that port of a public address is forwarded by the kernel with no decision. |
| `RouteSuffix` | `SocksReliable` | `docs/routing.md:35` "SOCKS matches hostnames reliably" | With OUTPUT redirection a subdomain of a `*.` bypass rule is dialled directly by SOCKS and then redirected, because only the apex is resolved into `@bypass`. |
| `SwitchRace` | `SelectedIsUp` | `mux.go:63` "The caller brings the Amnezia interface up or down around this call" | Two overlapping switches leave AmneziaWG selected and down, or up and not selected. |
| `SwitchFile` | `FileIsBackend` | `config.go:466` "so a UI switch survives restart" | Two overlapping switches persist one backend while the mux uses the other. |
| `SwitchDaemon` | `ReadyIsLive` | `amnezia/client.go:47` "Ready reports a live handshake (or successful probe)" | Nobody watches the daemon after Up. |
| `SwitchCrash` | `BootIsClean` | `main.go:99` "Drop nft/conntrack left by a previous process. A container restart does not clear the host network namespace" | The daemon, interface and policy rule of a killed process stay until the first Up or Down, which on Outline may never come. |
| `SwitchLate` | `ExitIsClean` | `amnezia/client.go:236` "Down tears down the userspace daemon and TUN" | A switch request that outlasts the five seconds of Shutdown runs Up after main's Down. |
| `ProxyAccept` | `ServesUntilClosed` | `socks5.go:79` "serving until the listener is closed or ctx cancelled" | Any error of Accept ends the loop, with the listener open. |
| `FileKeyRace` | `WholeFile` | `config.go:412` "writes the access key to path atomically" | Two requests share `<path>.tmp`: one truncates the file the other renames. |

## 6. Proofs

| Module | Theorem | States |
|---|---|---|
| `OutlineClientProofs` | `TypeCorrect` | `Spec => []TypeOK` |
| | `ReadyImpliesDialer` | `Spec => []ReadyHasDialer` |
| | `SlotsCountDials` | `Spec => []SlotAccounting` |
| | `WakeupsKept` | `Spec => []NoLostWakeup` |
| | `ClientIsTunnel` | the refinement `Spec => IsTunnel` |
| `BypassManagerProofs` | `TypeCorrect`, `FileFollowsMemory` | `Spec => []TypeOK`, `Spec => []DiskIsMemory` |
| `TunnelSwitchProofs` | `TypeCorrect`, `DownIsClean`, `ReadyIsUsable` | `Spec => []TypeOK`, `[]CleanWhenDown`, `[]ReadyHasInterface` |
| | `AmneziaIsTunnel` | the refinement `Spec => IsTunnel` |
| `PersistedFileProofs` | `TypeCorrect`, `WriteIsCrashSafe`, `FileIsAtomic` | `Spec => []TypeOK`, `[]CrashSafe`, and the refinement `Spec => IsAtomic`, assuming `~Overlap` |
| `GatewayProofs` | `TypeCorrect`, `ActiveHasTable`, `TableOfEngine` | `Spec => []TypeOK`, `[]ActiveMeansTable`, `[]TableIsEngine` |
| | `PushRevivesNothing` | the action property `Spec => PushNeverRevives` |
| | `LanKeepsPolicy`, `SocksKeepsRules`, `NoSecondEntry` | of `Routing`: `RouteSpec => []LanFollowsPolicy`, `[]SocksFollowsRules`, `[]EntersOnce` |
| `ConnLogProofs` | `TypeCorrect`, `RingIsTheTail` | `Spec => []TypeOK`, `[]RingIsTail` |
| | `PagesInOrder`, `NeverSendsOnClosed` | `Spec => []ShownInOrder`, `[]NoSendOnClosed` |
| | `LogIsEventLog` | the refinement `Spec => IsEventLog` |
| `ProxyServerProofs` | `TypeCorrect`, `NothingIsLost` | `Spec => []TypeOK`, `[]StreamInOrder` |
| | `LogTellsTheTruth`, `WaitsForHandlers` | `Spec => []LogIsTrue`, `[]ReturnWaits` |
| | `NothingAfterTheEnd` | the action property `Spec => EndIsFinal` (stated in the module) |
| `ProcessProofs` | `TypeCorrect`, `ClientsGetTheirOwn`, `AddressesAreServed` | `Spec => []TypeOK`, `[]OwnAnswer`, `[]ServedOnBoth` |
| | `ErrorsNeverBlock` | `Spec => []SendNeverBlocks` (stated in the module) |

They hold for any number of goroutines, keys, rules, inodes, connections, queries and
events and every value of the bounds, from the assumptions named in the modules
(`ClientAssumption`, `BypassAssumption`, `SwitchAssumption`, `PersistedFileAssumption`,
`GatewayAssumption`, `RoutingAssumption`, `ConnLogAssumption`, `ProxyAssumption`, `DohAssumption`,
`ProcessAssumption`), which TLC evaluates in every run of the module. Each inductive invariant was
model-checked with TLC before it was proved.

*OutlineClient.* The invariant is `StateInv` (types, what a goroutine's task says of
where it can be, and that a goroutine past the dial holds a dialer) and, for wakeups,
`WakeInv`. `NoLostWakeup` alone is not inductive: between a failure and the kick
that follows nobody has kicked yet. `WakeInv` adds who is committed to a kick and
who owes one (`Committed`, `Owes`) until the token is in the channel. The slot
theorem needs finiteness and cardinality lemmas, because the channel's length is the
cardinality of the set of dials that hold a slot. The refinement of `Tunnel` needs
`StateInv` and nothing more: it gives `ApplyUp` a dialer to announce, and the dialer a dial
holds after `DialRecheck` is the one it read there. Its lemmas sort the steps by what they
do to the tunnel (`StillStutters`, `StillInstalls`, `StillAnnounces`, `StillWithdraws`),
and only the steps of `DialContext` move a dial (`OneDial`).

*BypassManager.* `StoreInv`: a goroutine between writing the file and assigning the
rules is the holder of Store.mu and has in `copy` what the file has, unless the operator
has edited it meanwhile. A read that fails and an edit from outside end what the process
knows of the file (`known`), until it writes or reads it again.

*TunnelSwitch.* `MutexInv` (who is inside Up or Down holds Client.mu) and `StageInv`
(at each stage of Up, which parts are in place and which are not), so that every
cleanup path is seen to remove just what is there. Crashes make two more facts
necessary: what this process has put in place since it swept (`Swept`), and that a
pinned route in the host is either known to the client or left by a process that
crashed. For the refinement of `Tunnel` `MutexInv` and `StageInv` matter again: a dialer
is removed under the mutex after ready was cleared, and nobody can announce it in between;
a crash is `TRestart`.

*PersistedFile.* `MutexInv` (the mutex, or the order of the requests, lets one writer
in), `InsideInv` (the writer inside has `<path>.tmp` open and,
from the sync on, the disk has its value and nothing else) and `NamedInv` (an inode the
name may lead to, also after a power loss, is whole, on the disk and not the one open
for writing). Under `NamedInv` what the disk may have of the file is exactly what
its possible names lead to, which makes every step of the file a step or a stutter
of the register: `Publish` is `APut`, every failing exit is `AFail`.

*Gateway.* `ActiveMeansTable` speaks of moments at which no nft command runs
anywhere (`Quiet`); that is not inductive, because the goroutine that ends such a moment
knows nothing of the others. `TableInv` and `EngineInv` state the same of every moment at
which the mutex of the current gateway is free, and `EngineInv` adds that between a delete
that worked and its add there is no table. Two Gateway objects have two mutexes, so the
proof has to exclude an old object's goroutine editing the table of the new one:
`MutexInv` (a push edits the current gateway, under main's mu too, and found it active),
`GenerationInv` (the SIGHUP handler works on the current object) and `FirstApplyInv`
(without restart requests nothing is active, and nobody but the startup goroutine is in
Apply, until it has succeeded). Exactly here `ActiveMeansTable` needs its condition on
restarts after a reload: without it the invariant fails, as `GatewayStaleApply` shows.
`PushNeverRevives` needs `StopInv` and that a push edits only what it found active.

*Routing* (in `GatewayProofs`, which extends both). None of the three properties is
inductive: each speaks of the end of a connection or of a count. `OnceInv` says that what
OUTPUT would redirect has not been in the proxy and goes to the connection's own
destination; `LanInv` and `SocksInv` say what was decided at each station, and `EntryInv`
that nothing is decided where a connection begins. The argument rests on how three pieces
of code agree: what the engine sends directly in exclude mode is what `@bypass` holds
(`DirectExempt`), the tunnel endpoints are in `@bypass` (`EndpointExempt`), so a dial of the
process after a decision is never redirected (`DialsExempt`), and `DecidePath` gives what
the policy promises for every address outside the private ranges (`DecideKeepsPromise`).
It holds for every `MaxHops`: nothing is cut off where OUTPUT exempts `@bypass`.

*ConnLog.* `RingInv` adds to `RingIsTail` that the ring is no longer than the log and that
nothing in it is from the future, without which the next record could break the order of
times. The ring lemmas say that pruning drops a prefix and that a record drops at
most a prefix and adds one event at the end (`PruneDrops`, `PushDrops`), which keeps the
ids consecutive whatever the clock does; the order of times is stated for a clock that was
never set back. That the set of
fresh positions has a least one is taken from the well-foundedness of the naturals.
`OrderInv` bounds what a page was sent or will be sent by the last id recorded, so that
the next offer is larger; `StreamInv` says that a channel is registered exactly while its
handler streams. With these, `ConnLog` implements `EventLog` under `first <- seq - Len(buf)
+ 1`: pruning only raises `first` (`PruneForgets`), a snapshot is the events remembered
at that moment, and what a channel delivers is later than all its page has.

*ProxyServer.* One invariant per connection, by stage: `Position` (how many items the
handler has read, and in the relay that it has passed on all but the handshake), `Flow`
(read, taken from the socket, sent: in this order), `Copies` (the two goroutines run only
inside relay, and a peer that was sent the end has no goroutine left that writes to it)
and `Outcome` (what is logged, told and dialled at each stage).
`HandleStep` and `RelayStep` show that every action of a connection either moves its
record to one that has the invariant or returns with one that may be closed
(`Moves`, `Leaves`). `WaitInv` says that the WaitGroup is the cardinality of the set of
handlers at work, which is finite at every step even if the set of connections is not.
`EndIsFinal` follows from `Copies` and `Outcome`, action by action (`HandleFinal`,
`RelayFinal`): a stage that records or answers is reached with nothing recorded or answered.

*Process and DohServer.* `BindInv` follows ListenAndServe through the addresses: those
before the one at hand are served on both sockets or not at all, the one at hand has at
most its UDP socket, those behind it nothing. `OwnInv`: a goroutine that resolves holds a
copy of its own client's message, whatever the shared buffer has by now. `ErrInv`: an
error in the channel is that of a goroutine that has ended, and main starts fewer
goroutines than the channel has room for.

Only model-checked: all liveness (TLAPS 1.4.5 has no rules for fairness or ENABLED), that
is `EventuallyReady`, `DeadTunnelNoticed`, `SupervisorStops`, `KeyTakesEffect`,
`ResolvedFollowsRules`, `EngineFollowsRules`, `EventuallyApplied`, `PushesSuffice`,
`PushReturns`, `DialsReturn`, `HandshakeEnds`, `EndReachesServer`,
`EndReachesClient`, `QueriesEnd`, `ProcessExits` and `CleanStop`; and the counterexamples of
section 5. Every invariant and every other property of a run has a theorem. The other way
round, `EndIsFinal`, `SendNeverBlocks` and `ReadyHasDialer` (part of what
`IsTunnel` says) are proved and in no run; TLC agreed to each on the constants of
`ProxyConn`, `ProcessLife` and `OutlineSafety`.

## 7. What is not modelled

- IPv6: the gateway's sets are of IPv4 addresses and the SOCKS listener refuses IPv6;
  what the transparent proxy does for it (`originalDST6`) is not modelled.
- Parsing (keys, CIDRs, AmneziaWG files and vpn:// URIs, environment) beyond accept or
  reject: pure functions of their input, called once, whose correctness is a matter of
  formats. The text of the nft script beyond its chains and sets. A rule such as
  `1.2.3.4.` is taken for a domain and written back as `1.2.3.4`, which the next load
  takes for an address: rules are modelled after parsing.
- Health and metrics endpoints, logging, UI authentication and static pages: they keep
  no state other parts depend on.
- Failing teardown commands: `downLocked` ignores the errors of `ip rule del`, `ip route
  flush`, `ip route del` and `ip link del` (`amnezia/client.go:247-268`). `Sweep` is what
  they do when they work or have nothing to delete, so `CleanWhenDown` says nothing of a
  host that refuses to delete what is there.
- The content of DNS messages: a response too long for the buffer of 4096 bytes is cut.
- The quarantine of a refused key while the process runs (plan, item 2).
- Shadowsocks and WireGuard themselves; a dial works or fails.
- Timing: deadlines and tickers are steps that may or, under fairness, must happen.
