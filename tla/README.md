# InProxy in TLA+

TLA+ models of InProxy, a single-process edge proxy written in Go, with the TLC
instances that check them and the TLAPS proofs about the store, the forwarder, one
running forward, the domain router, the HTTP(S) listeners, the DNAT manager and the
process.
File and line references are to the repository.

## 1. Inventory

InProxy terminates or splits public traffic and sends it to internal machines.
An admin edits four collections of rules in a web UI. One `Store` holds them in
memory and in a JSON file; three runtime managers turn three of the collections
into open sockets and kernel rules; the fourth is consulted on every request.

| Component | State | Operations | Talks to |
|---|---|---|---|
| Config store (`config.go`) | four slices, two compiled tables, the file; `s.mu` (RW) | eight edits, `NewStore`, `commitLocked`, `recompileLocked`, `persistLocked`, `Match*`, `List*` | calls `onForward`, `onDNAT`, `onDomain` after an edit, outside `s.mu` |
| L4 forwarder (`forward.go`) | `active` listeners, `status`; `f.mu` | `Apply(snapshot)`, `Status`, `Shutdown`; per listener: accept loop, TCP relay, UDP sessions and their reaper | sockets shared with the machine |
| Domain router (`domains.go`) | `active` port servers; `r.mu` | `Apply()`, `Shutdown`; per port: SNI listener, splice, HTTP server | asks the store for ports while it holds `r.mu`, and for a rule on each connection |
| DNAT manager (`dnat.go`) | `status`, `lastErr`; `m.mu`; the kernel's nat table | `Apply(snapshot)`, `Status`, `Shutdown`, each a sequence of `iptables` processes | the kernel, which outlives the process |
| Reverse proxies (`proxy.go`) | one limiter channel per route | `serve`, the directors | backends |
| Admin UI (`admin.go`, `auth.go`) | none on the server (signed cookies in the browsers) | login, logout, pages, eight edit handlers | store, forwarder, DNAT manager |
| Process (`main.go`) | listeners, signal handling | start order, SIGTERM | everything |
| Certificates (`tls.go`, autocert) | files | generated once; issued on demand under a host policy | store |

**What is hard.** Handlers run concurrently. An edit is atomic under `s.mu`, and
an `Apply` under its own lock, but nothing orders the way from one to the other.
An edit that fails half way - at compiling, or at any of the three file
operations - is reported and not rolled back. Sockets are contended for by other
processes, `iptables` commands fail one by one, and the kernel's rules survive
the process. `hazards` in `PROJECT.json` lists each place with its line and the
properties that watch it.

**What makes each component correct.**

- *Store*: unique names and claims; the tables served are those of memory;
  the file is only replaced by a complete copy of memory; what was acknowledged
  is on disk; what is on disk can be loaded.
- *Forwarder and domain router*: open listeners converge to the configuration
  and never go back to an older one; an edit leaves other listeners alone;
  statuses and answers are true.
- *DNAT manager*: the kernel holds exactly the enabled rules, whatever was there
  before; a rule that was applied and is called active is installed; stopping clears.
- *One forward*: the wait group counts what runs, so `stop` returns, and with
  everything closed; each UDP session has one socket, and silent ones end.
- *Relays*: both ends get everything, in order, the PROXY header and the peeked
  ClientHello first; half-closes are passed on, and only those.
- *SNI listener and servers*: no accepted connection is forgotten; what is
  accepted by name is served by name; a stopped port is free.
- *Routing and limiter*: the most specific rule wins; paths are joined with one
  slash; limits hold across edits and cancelled requests, and waiters leave.
- *Process*: what failed comes back unless the environment, the configuration (one
  that does not load, or a port of main's own in it) or the certificate files stand in
  its way; a shutdown ends, and clears the kernel if its flushes work; a pair of the
  operator's is not overwritten; only who has earned it can edit.

## 2. Plan

In place, in this order:

1. `Rules`, how rules are keyed, added, replaced and removed; `SavedMemory`, the
   abstract specification of a memory that is saved to a file; `ConfigStore`, the
   store and its file, with crashes, which implements it. Proofs in
   `ConfigStoreProofs`.
2. `Reconciler`, the abstract specification of a manager of listeners;
   `Forwarder` and `DomainRouter`, which implement it under the conditions stated
   below. Proofs in `ForwarderProofs` and `DomainRouterProofs`.
3. `DNATManager`, the kernel. Proofs in `DNATManagerProofs`.
4. `Pipe`, the abstract specification of a connection as its two ends see it;
   `Relay`, one TCP connection carried between two ends, which implements it;
   `FwdListener`, one running forward, which composes relays with the UDP sessions
   and `stop`.
   Proofs in `RelayProofs` (lemmas) and `FwdListenerProofs`.
5. `Routing`, the tables and lookups as operators; `SNIListener`, which composes
   `Relay` with the decisions of `Routing`; `Edge`, which adds the HTTP server
   behind it, the handlers, the limiter and the admin's edits. Proofs in
   `EdgeProofs`.
6. `AdminSession`, and `Lifecycle`, which composes it with the process.
   Proofs in `LifecycleProofs`.

Each component has an MC module of its own for its instances. Next:

- `ConfigStore` composed with `DomainRouter`, the compiled table instead of a bare
  set of domains, so that a refused but kept domain reaches the listeners;
- forwarding headers, and what the redirect answers.

## 3. Modules and the code

### Rules

Operators over a set of rules: `CanUpsert`, `Upserted`, `Without`, and the
conflict scan `ClaimFree`. A Go slice is represented by the set of its elements.
That is exact as long as keys are unique, which is an invariant (proved for the
store), and as long as no property depends on the order. Where the order of a
slice decides something - which of two forwards that want one socket gets it -
the models allow every order; where it decides which route is found, `Routing`
keeps the sequence.

### SavedMemory, ConfigStore

`SavedMemory` says what a store with a file promises: an edit changes the memory, a
save makes exactly the memory what is saved, the end of the process loses the memory
and nothing else, and a start begins from what was saved last.

| Model | Code |
|---|---|
| `mem` | `s.sites`, `s.forwards`, `s.dnat`, `s.domains` |
| `siteTable`, `domTable` | `s.compiledSites`, `s.compiledDom` |
| `disk`, `tmp` | the files at `s.path` and `s.path + ".tmp"` |
| `proc`, `pc` | whether the process is down, inside `NewStore` or up; how far the holder of `s.mu` is in `persistLocked` |
| `UpsertSite` ... `DeleteDNAT` | the eight edits, from the lock to the change of memory |
| `Commit`, `Store` | `commitLocked`, and the forward and DNAT edits that only persist |
| `OpenTmp`, `WriteTmp`, `RenameTmp`, `PersistFails` | `os.WriteFile` (truncate, fill) and `os.Rename` |
| `BootFresh`, `BootLoad`, `Stop` | `NewStore` with and without a file; the end of the process |

A validator's refusal changes nothing and is no step; what validation lets
through is the set of inputs. Two checks matter to the properties and are
explicit: no port twice in a domain (`ValidDomain`), and the target that
`net.SplitHostPort` accepts and `url.Parse` rejects (`BadTarget`). The routes of
sites are assumed to compile, as `validate` ensures for every edited site;
a hand-written or first-release file with a route that does not is not modelled,
nor are the flat lists of `routes` and `vhosts` in the object form of the
intermediate format.

### Reconciler, Forwarder, DomainRouter

`Reconciler` says what a manager of listeners promises: it adopts the current
configuration now and then, and in between only closes what the adopted one does
not want and only opens what it wants.

`Forwarder` follows an edit through the handler: `Save` (under `s.mu`),
`FireForwards` (the snapshot, under `s.mu` again), `Lock`, the two loops of
`Apply` one listener at a time (`Stop`, then `SkipDisabled`, `KeepRunning`,
`Start` or `StartFails`), `Publish`, and `Report`, the answer to the admin. A start
may fail for any reason, not only for a socket in use: the address may be another
machine's, the port privileged, the host unresolvable, the descriptors used up.
`Grab` and `Release` are the binds of other processes. `Shutdown` takes one step,
since `stop` releases nothing before it is done. What a listener does while it
runs, and what `stop` does inside, is `FwdListener`. `applied` is a history
variable.

`DomainRouter` has the same shape, but `Apply` takes no snapshot: it asks the
store for the ports (`ReadPorts`) while it holds `r.mu`. A domain is its host and
its enabled ports; what routing does with a connection is `SNIListener` and
`Edge`.

### DNATManager

One step per `iptables` command, in the order of `Apply`: create the chains
(`NewChain`), check and add the jumps (`CheckJump`, `AddJump`), flush (`Flush`),
append (`AppendRedirect`, `AppendMasquerade`), publish. Each may fail; whether
the failure is ignored, costs a rule or ends `Apply` is as in the code. `chains`,
`jumps`, `dnat` and `post` are the kernel's; `Crash`, `Exit` and `Boot` leave
them alone and `Reboot` empties them. `Save` may fail (`SaveMayFail`): the edit then
stays in memory (`rules`) and is not applied, until a later edit of the rules applies
all of memory or a restart loads the file (`saved`); an edit of another collection
saves it without applying it (`SaveOthers`). `refused`, a history variable, says that
this was so of the last edit. `Shown` is the status column of the page, which goes
through the rules of the store and takes a missing status for "active". `swept`,
another history variable, records
whether the flush of the last `Apply` has worked: `LeftoversExplained` needs it to
say that whatever of an old configuration is still in force is there because a
flush failed, and for no other reason.

### Pipe, Relay, FwdListener

`Pipe` says what two ends see of each other when nothing stands between them: what
one sends the other hears in order and once; it is told of the end when everything
has arrived, or when an end has broken off, and hears nothing after it; the
connection is over when both have been told, or before anything has come through.

`handleTCP` (`forward.go`) and `spliceTo` (`domains.go`) are one algorithm and one
module. A record per connection says how far the relay is (`stage`) and what
either end has sent, been read from, been written and been told. Data are
numbered pieces, so that loss, repetition and reordering all show in `got`.
`Dial`, `WriteHeader`, `WriteHello` are the preamble; `Copy` is one read and one
write of `io.Copy`; `CopyEnds` its end with `CloseWrite`; `Close` the end of both.
The ends send, finish and break off at any point, before the relay is up, too.
`Seen` is the view of the two ends, `ActsAsPipe` that a relay implements `Pipe`: the
preamble is invisible (`Heard` leaves the header out), each `Copy` is heard, each
`CloseWrite` told.

`FwdListener` is a `fwdListener` from `startListener` (`BeginTCP`, `BeginUDP`,
each of which may fail) to the end of `stop`, whose four statements are steps of
their own (`CloseQuit`, `CloseLn`, `ClosePc`, `Wait`).

| Model | Code |
|---|---|
| `ln`, `pc`, `quit`, `wg` | the fields of that name |
| `accept`, `loop`, `reaper`, `reverse` | the goroutines: `acceptLoop`, `udpLoop`, the reaper inside it, one reader per session |
| `session`, `sock`, `age` | the map, the sockets toward the target, the time since `s.last` in ticks of the reaper |
| `cur`, `back` | the locals of `udpLoop` between `ReadFrom`, the look at the map under `mu`, and the write after it |
| `Found`, `Connect`, `ConnectFails`, `Write` | that look, and the write |
| `Tick`, `Reap`, `ReaperQuits` | the ticker, a round of the reaper, `<-l.quit` |
| `ReverseEnds` | a read error of a session's socket: it is closed, or the target has refused a datagram |

`stalled` is a history variable: how many ticks `udpLoop` has stood between the
unlock and the write. `LostOnlyToStall` states what the window there costs.

### Routing, SNIListener, Edge

`Routing` translates `recompileLocked`'s sorting and filtering, `MatchSite`,
`MatchDomain`, and the path arithmetic of the director. `CompiledRoutes` gives each
enabled route its place, the number of routes that sort before it (`Preceding`):
`sort.SliceStable` by what it does. The search and the arithmetic have a reference
definition beside them (`MostSpecific`, `WellJoined`) that says what they should come
to, not how. A path is a sequence of slashes and segments. `EdgeAssumption` gives a
route a prefix that begins with a slash (`buildProxy` puts it there) and a base that
is empty or does (a target has a host, `validate`).

`SNIListener` is `loop`, `handle` and the two `decide` functions: a connection is
queued, peeked, decided upon, and spliced (`Relay`), dropped, or offered on the
channel `ready`. `Edge` adds `net/http`, as far as the code uses it: `Serve` and
what it closes when it returns, `Close` and `Shutdown`; and the handlers -
`LookUpSite` and `LookUpDomain` are two looks at tables that may have been
replaced in between - with the limiter (`Acquire`, `Cancel`, `Respond`).
A limiter is named by the compilation that made it (`gen`) and its route, since
each recompilation makes new ones. The listener is main's own, an extra port's,
or the plaintext one of port 80: `scene.place` says which, and the differences
(no SNI on port 80; `Close` instead of `Shutdown` on extra ports) are guards.

### AdminSession, Lifecycle

`AdminSession` is the IP gate, the password and the signed cookie. The server
keeps no session, so a cookie is a key and an age in the browser; a signature is
represented by the key it was made with. `entered` (history) says when a browser
last gave which password.

`Lifecycle` is `main` in its order: the environment and the configuration file
(`LoadConfig`, whose three checks end a start that fails them), forwards, DNAT,
certificates (`ensureTLS` file operation by file operation), domains, the proxy's
port, the servers, `signal.Notify`; then SIGTERM, three `Shutdown`s and the drain.
`Fatal` is `log.Fatalf`: exit status 1 with nothing shut down. `Dies` is a kill, a
failed read or write, an address that is not this machine's (yet), a port another
program has, or a fatal `Accept`, at any point. The managers of the other modules are
the ports they hold (`held`) and whether rules are in the kernel (`kernel`); the
commands of an `Apply` or of the `Shutdown` of the rules may fail, and `swept`
(history) says whether the flushes of that `Shutdown` worked. Of the store it keeps
what a start depends on: whether the file loads, and whether memory holds a refused
domain (`refused`) that the next forward or DNAT edit will save.

## 4. Runs

Every run takes less than two minutes on two workers. Runs marked *refuted* check
one claim of a doc or comment that the code does not keep; `findings` quotes it.

| Run | Asks | Properties |
|---|---|---|
| `store_commit` | site and domain edits, one target that does not compile, all kinds of old file, crashes and failures anywhere | `ServedMatchesMemory` `AckDurable` `RestartLoads` |
| `store_rules` | forward and DNAT edits with renames, every kind of old file with `EXTERNAL_HOST` set | `RulesUnique` `Remembers` `LegacyRoutesKept` |
| `fwd_single` | one editor, conflicting addresses, other processes, starts that fail, SIGTERM | `RuntimeFollowsConfig` `SavedIsServed` `Reconciles` `NotInItsOwnWay` |
| `fwd_pair` | two editors under fair scheduling, failing saves | `StatusIsRuntime` `EditsAnswered` |
| `listener` | one forward of each protocol, its goroutines and relays, ends that break off, stop at any time | `CountsGoroutines` `StoppedIsDrained` `SessionsOwnSockets` `LostOnlyToStall` `HonestEof` `StopReturns` `SilentSessionsEnd` `FinPassedOn` `ActsAsPipe` |
| `router_pair` | two editors under fair scheduling | `ListenersFollowTable` `Reconciles` `PortsServed` |
| `edge` | connections and requests through the three kinds of listener while tables are replaced and the listener stops | `LimitHolds` `LongestPrefixWins` `PathsWellJoined` `AcceptedIsServed` `StoppedPortIsFree` `InOrder` `WaitersLeave` `ConnectionsDecided` |
| `dnat_single` | one editor, failing saves, two failing commands, crashes, reboots, SIGTERM | `KernelFollowsConfig` `ActiveIsInstalled` `LeftoversExplained` |
| `lifecycle` | starts, failures and SIGTERM at every step, edits, refused ones included, and logins under six environments | `ComesBack` `StopEnds` `StopClears` `OwnPairKept` `EditsEarned` |
| `store_poison` *refuted* | the inputs of `store_commit` with forward edits | `RestartLoads` |
| `fwd_stale` *refuted* | two editors | `RuntimeFollowsConfig` |
| `udp_deaf` *refuted* | the inputs of `listener` | `SessionsAnswer` |

The type invariants are all proved for every value of the constants, and not checked
again by a run. The same goes for seven properties that
follow from stronger ones or are proved outright, and that section 5 returns to:
`OneRulePerSlot`, `ServedCompilable` and `ReplacedByMemory` of the store,
`UntouchedKeepsRunning` of the forwarder, `ClosedForAReason` of the router,
`NoLateAdd` of a running forward, `AppliedIsInstalled` of the DNAT manager.

`RestartLoads` and `RuntimeFollowsConfig` appear in a passing and in a refuted run.
The pair is the point: it locates the condition under which the code keeps the
promise. Site and domain edits alone can never make the file unloadable, because
they compile before they save; adding forward edits, which do not, breaks it. A
single editor always ends with the forwarder on the current configuration; two may
not. The domain router, which asks for the ports under its own lock, keeps with two
editors what the forwarder keeps only with one. The conditions under which the two
properties hold are the hypotheses of their theorems in section 5.

`SaveMayFail` is another condition. A save that fails leaves the edit in memory
and fires no callback, so `RuntimeFollowsConfig` and `ListenersFollowTable` are
stated for saves that work; setting the constant to TRUE in their runs gives the
counterexamples. `StatusIsRuntime` and the
refinements do not need it, and `dnat_single` runs with saves that fail:
`KernelFollowsConfig` excepts the time from such an edit to the next one that is saved.

Other conditions are in the properties themselves, and TLC finds the
counterexample when one is taken out. `ComesBack` names four obstacles (`Startable`)
that make every restart fail: an environment main does not accept (`EnvSound`); a
file that does not compile, which `store_poison` shows how to get (`ConfigLoads`); a
forward or domain saved on a port of main's own (`PortsClear`); and certificate files
that exist but are no pair - `ensureTLS` killed half way, or `ADMIN_TLS` with
`TLS_MODE=auto` and no files (`FilesClear`). `StopClears` needs `late`: the admin
server is shut down after the DNAT rules, so an edit still in flight puts rules back
(`main.go:226`); and `swept`: the outcome of the flushes of that `Shutdown` is ignored
(`dnat.go:132`). `LeftoversExplained` needs `swept` for the same reason (`dnat.go:61`),
against "exactly the enabled rules" in `dnat.go:40-41`. `ActiveIsInstalled` excepts the
rules of the page that have not been applied, because an edit is under way or could
not be saved: they have no status or an old one, and `dnatPage` may call them active
(`admin.go:217`).
`LegacyRoutesKept` is checked with `EXTERNAL_HOST` set: without it
routes of a first-release file are dropped on loading (`config.go:164`).
And one fact needs no run: an `Accept` error ends the loop of a forward whose
status stays "running" (`forward.go:138`, `forward.go:22`), and nothing restarts it.

**Bounds.** Two or three names, two hosts and one or two addresses are the least
that lets rules collide, be renamed into one another and swap addresses. The
domain inputs contain a plaintext site, a terminated one whose target does not
compile, the same in passthrough, and a form that names a port twice. `fwd_pair`
gives each of its two editors one forward to create, retarget and delete on one
address: what it asks is about the two locks, not about addresses. Edits are
unbounded in these modules; their state spaces are finite without constraints. Two
editors are enough for every reordering of two snapshots; a third would only
lengthen the queue, and the theorems of section 5 hold for any number. `dnat_single`
has one editor: its edits still race with the first `Apply`, with the crash and
with SIGTERM. `MaxFailures` (two) bounds the failing `iptables` commands: an
`Apply` flushes whatever an earlier one has left, so what more failures add before
it is the same again.

`listener` has two UDP clients and three sockets, so that a client's new socket
meets its old one before the old reader has gone; `Idle` is one tick, so that a
session is refreshed, expires, and is written to too late; there is one connection,
with one piece of data each way (`Chunks`), beside which `stop` runs. The proofs
drop these bounds. `edge` sends one connection of any kind through each
listener while the tables are replaced once (`MaxEdits`), and two through one route
with a single slot; the client sends two pieces, its ClientHello and a request.
The second table differs from the first in all the ways a host can change
(terminated, passed through, gone, with and without a site). The sites have nested
prefixes in the wrong order, a disabled route, and one prefix twice, as only a file
written by hand can; four segments (`Segment`) suffice for a path of each kind. The
redirect listener is on its default port, 80. `lifecycle` has six environments: every
certificate source, admin TLS with and without, rules on each port of main's own and
on a free one, a domain that does not compile, a password that changes, no password,
an unknown `TLS_MODE`; one fault (`MaxFaults`), a failed `iptables` command included,
may strike anywhere, and starts are unbounded; `TTL` is one tick.

`CHECK_DEADLOCK FALSE` stands where the system may stop: in `store_poison` the
process cannot start again, which is the finding; in `listener`, `udp_deaf` and
`edge` a listener that has been stopped and whose connections are over has nothing
left to do.

**Fairness.** Goroutines that can run do run (weak fairness of the steps of
`Apply`, of the handlers, of the loops once their socket is closed). Where a lock
is taken, strong fairness: `sync.Mutex` hands the lock to a goroutine that has
waited for more than a millisecond (its starvation mode), so a waiter cannot be
overtaken for ever. The same holds for a slot of the limiter, since goroutines
blocked on a channel queue first in, first out. Dials return within their ten
seconds, the peek has a deadline of ten seconds, the reaper's ticker ticks;
backends answer, or their requests are given up. In `Lifecycle`, systemd starts
what has failed (`Restart=on-failure`, `deploy/inproxy.service:14`). Admins owe no
clicks, clients no connections and no end of a transfer, the operator no start
after a stop, and the rest of the machine owes no release of a socket.

## 5. Proofs

`ConfigStoreProofs` proves, for every value of the constants that satisfies
`StoreAssumption`: `TypeCorrect`, `RulesStayUnique`, `SlotsAreFunctional`,
`TablesMatchMemory`, `SlotsHaveProxies`, `AcknowledgedIsDurable`, the action
property `FileReplacedByMemory` and the refinement of `SavedMemory`, `StoreRemembers`.

The invariant `Inv` behind all of them adds to the checked properties what makes
them inductive. Every copy of the configuration the program can come back to -
memory, the file, the temporary file - is well formed: keys and claims unique and
the domains normalised with no port twice, since a restart makes any file into
memory and `RulesUnique` would be lost without it. The tables follow memory in
every state of a running process, not only when the lock is free. And `SaveInOrder`
says what the two files hold at each step of `persistLocked`; it is what makes
the rename install a complete copy of memory, and `AckDurable` depends on it.
Lemma `EditStep` reduces all eight edits to one fact: each commits or stores a
well-formed configuration; the lemmas on `Upserted` and `Without` say why. The
refinement maps each step: the eight edits to `Edit`, the rename to `Save`, a failed
operation of an edit to a stutter and one of the first save to `End`.

Three theorems have hypotheses, because without them their properties are false.
`RestartLoads`, which `store_poison` refutes, holds if there are no forward and DNAT
edits, whatever the others contain (`CompiledSavesLoad`): memory may not compile, but
it does while a save is under way (`Loadable`), since `commitLocked` compiles first. It
also holds for all edits if no domain that can be submitted has a bad target
(`GoodTargetsLoad`): then memory compiles at all times. `LegacyRoutesKept` holds when
`EXTERNAL_HOST` is set and its site is not edited (`LegacyRoutesSurvive`); by
`LegacyInv` the running process holds in memory what the file holds of the routes.

`DomainRouterProofs` proves, from `RouterAssumption` and for any number of
editors: `TypeCorrect`; `RouterReconciles`, the refinement of `Reconciler`; and,
when saves do not fail, `RouterConverges` (`ListenersFollowTable`) and
`PortsClosedForAReason` (`ClosedForAReason`). The refinement needs types only:
`ReadPorts` adopts the table as it is in that step, because it reads it under
`r.mu`. Convergence needs that an edit whose ports are not yet adopted always has
a callback to come (`CallbackComing`), that a thread inside `Apply` holds the lock
(`LockHeld`), and what the two loops have achieved by the time each ends
(`Stopped`, `Started`).

`ForwarderProofs` proves, from `ForwarderAssumption`, in two parts. For any number
of editors, saves that may fail included: `TypeCorrect`, `StatusesAreTrue`
(`StatusIsRuntime`) and `OldListenersAreGone` (`NotInItsOwnWay`). Their invariant
`Inv` rests on `f.mu`: inside `Apply` the snapshot is the one recorded, after the
stop loop every listener is one of it, and each forward the start loop has passed
has a status that is true of the listeners (`Progress`). It needs names to be
unique in the store and in every snapshot (`NamesOnce`): the listeners and the
statuses are maps by name, and with a name twice one forward would overwrite the
status of another. The second part assumes a single editor. Then every snapshot on
its way to `Apply` is the current configuration (`Current`), which gives
`ForwarderReconciles`, `UntouchedNotInterrupted`, `SavedMeansServed`
(`SavedIsServed`) and, when saves do not fail, `EditsTakeEffect`
(`RuntimeFollowsConfig`). For `SavedMeansServed` the invariant `Answered` says that
when the handler reads the statuses they are those of the configuration in the store,
and that after "Saved" this stays so until the next edit. `fwd_stale` shows that
`Current` is lost with two editors, so the assumption cannot be dropped.

`FwdListenerProofs` proves, from `RelayAssumption` and `ListenerAssumption`, for any
number of clients, connections and pieces of data and any finite number of
sockets, in two parts. The listener: `GoroutinesCounted`, `NothingAddedLate`,
`SocketsAreOwned`, `StopDrains` and `DatagramsInTime`. The heart of their `Inv` is
`CountsGoroutines` itself, by the cardinality of the set of readers. It gives
`NoLateAdd` at once: whoever adds is counted, so the counter is not at zero. For
`StoppedIsDrained` it says that a counter at zero means that nobody runs, and
`NoLoopNoSession` that then no session is left either, hence (`SessionsOwnSockets`)
no open socket. `WriteInTime` relates the age of the session `udpLoop` is about to
write to with the time it has stood still: both advance with the same tick. The
relays: `RelaysInOrder`, `EofIsHonest` and `RelaysActAsPipe`. The first two follow from
`RelayInv`, which says of each relay that what has been written is what has been read
behind the header (`Faithful`), that a copy that is done has come to the end of its
data or met an end that broke off (`DoneForAReason`), and how the stages go with the
rest (`Shaped`). It is stated, and shown to be kept by every step of a relay and its two
ends, in `RelayProofs`, for connections with and without a peeked ClientHello and
for those an HTTP server reads; the two proofs about listeners add their own steps.
`TypeCorrect` puts both parts together.

`RelaysActAsPipe` is the refinement of `Pipe` (`ActsAsPipe`). By `HeardIsRead` what an
end has heard is what was read from the other, so a `Copy` is a `Hear` of the next
piece and the replay of a peeked hello one of several. `Sound` is added to the
invariant (`PipeInv`) for two things: no more is read than was sent, so a copy that
ends at a finished end tells of the end when exactly everything was heard; and a copy
that is done has told the other end, so a relay closes with both ends told. A target
that cannot be reached or written to in the preamble ends the connection before
anything has been heard. `RelayProofs` maps each step of a relay (`RelayingView`),
`FwdListenerProofs` the steps of the listener, which are none of the pipe's. The
theorem is about forwards; `Edge`, whose connections may be served instead of
relayed, has `NothingReordered`.

`EdgeProofs` proves, from `RelayAssumption` and `EdgeAssumption`, for any finite
number of connections, any configurations and any number of edits:
`TypeCorrect`, `NothingReordered` (`InOrder`), `SlotsAreHeld` (`LimitHolds`),
`AcceptedAreServed` (`AcceptedIsServed`), `StoppedIsFree` (`StoppedPortIsFree`),
`LongestAlwaysWins` (`LongestPrefixWins`) and `BackendPathsWellJoined`
(`PathsWellJoined`). `RelayInv` again
carries the first, across the peek, the decision and the hand-over to the server,
which may have read some of the hello but never goes past it before it is complete.
`SlotsInv` is `LimitHolds` with types: lemma `ServiceStep` reduces every step to a
request begun, moved on, rejected, given a slot or done with it, and only the last
two change who holds what; a slot goes back to the limiter the request names, which
no edit changes. `RuledInv` says of a connection accepted at the current compilation
that its name still has a rule, and none that passes it through (`ruled` equals `gen`),
and needs that stages only advance (`Onward`): the name and the decision of a
connection the server has are settled.

The last two are about data, of any length. That the sort puts the routes where they
belong is an argument about ranks: `Precedes` orders the enabled routes strictly and
totally (`SortOrder`), so the number of routes before each is a place of its own
(`Places`: an injection of a finite set into an interval of its size is onto), and the
first hit among the places is the least of the matching routes in that order
(`FirstHitIsMostSpecific`). `Segments` is a recursive function, and the induction
theorems of the library take a predicate, which these provers cannot instantiate; but
`SetInduction`, the same for a set, follows from the well-foundedness of the naturals
(`WFMin`). With it `CollectsExists` builds the function `Segments` chooses, and
`SegmentsConcat` proves that the segments of two paths put together are those of the
one and then of the other. `Joined` and `PathParts` apply this to the three cases of
`singleJoiningSlash` and to a prefix that is cut off. The invariant they are used with,
`TypeInv`, has every request under way carry a route its path falls under, taken from a
configuration (`MatchedRoute`), and a limiter that exists.

`DNATManagerProofs` proves, from `DNATAssumption`, for any rules and any number of
failing commands, crashes and reboots. With any number of editors: `TypeCorrect`,
`AppliedIsTrue` (`AppliedIsInstalled`, what the page says of the rules that were
applied) and `LeftoversHaveAReason` (`LeftoversExplained`), from an `Inv` that follows the holder of `m.mu` command by
command. `InSequence` ties the command to come to the method under way, so that
nothing but `Apply` itself touches the chains during an `Apply`; `OfSnapshot` says
what is left of the snapshot, `ScaffoldingUp` that past each jump traffic is led to
its chain, and `Progress` that a rule `Apply` is through with has a status that is
true of the kernel. `MainFirst` is needed for the reboot: with the process gone,
nobody is inside `Apply`. `NamesOnce` is needed here, too, since the statuses are a
map by name - in the file, too, which a restart loads. When the file the process starts from claims no address twice,
`CleanIsExact` (`CleanApplyIsExact`, the first half of `KernelFollowsConfig`) says
that an `Apply` no command of which fails leaves exactly the enabled rules of its
snapshot. Its invariant `CleanSoFar` says of a clean `Apply` that the chains exist
once they have been created, are empty once they have been flushed, and then hold
what has been appended, each rule once - which takes that no two rules of a
snapshot claim one address (`ClaimsOnce`), as the scan in `UpsertDNAT` ensures. With
one editor every snapshot on its way is current, and so is what was applied last
unless an edit could not be saved (`Current`), which gives `KernelInStep`
(`KernelFollowsConfig`) and, with `AppliedIsTrue`, `ActiveIsTrue`
(`ActiveIsInstalled`) for every rule of the page.

`LifecycleProofs` proves, from `SessionAssumption` and `LifecycleAssumption`, for any
settings, browsers and number of faults: `TypeCorrect`, `ShutdownClears`,
`OwnPairUntouched` and `EditsAreEarned`. `FilesInv` says what the files are at each
step of `ensureTLS`: a pair of the operator's would have kept it from beginning.
`KernelInv` says that rules in the kernel after a shutdown of theirs whose flushes
worked are an edit's since then. `CookieInv` says that a cookie is never younger than the login behind it, with
the password that is its key and from an address that was allowed; a new password
thus ends every session.

Every safety and action property of a passing run is thus stated by a theorem, with
the hypotheses the run's constants stand for. Model-checked only is liveness -
`EditsAnswered`, `PortsServed`, `StopReturns`, `SilentSessionsEnd`, `FinPassedOn`,
`WaitersLeave`, `ConnectionsDecided`, `ComesBack`, `StopEnds` - since fairness and
ENABLED are out of the reach of TLAPS here; and the three refutations, which are
single behaviours.

## 6. What is not modelled

Forwarding headers, transports and their connection pools, the dashboard's health
check and sorting, the answer of the redirect. The host policy of ACME, which is two
lookups in the tables. The character-level checks of the
validators. Inside `net/http`, `crypto/tls` and `autocert`, what the code does not
depend on. Power failures: `ConfigStore` ends processes, not machines. Faults of the
machine that last (a port another program keeps, an address that never comes): `Dies`
strikes a bounded number of times. The `/_healthz` answer. Templates, the installer and
the wording of messages.
