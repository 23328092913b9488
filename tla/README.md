# Formal models of aptove

aptove is a terminal application that runs a *bridge*: an HTTP/WebSocket server
that connects mobile ACP clients to agent processes on this machine. The agents
outlive the connections ("keep-alive"), the mobile device is paired with a QR
code, and the whole is driven by a ratatui interface. This directory holds TLA+
modules of its concurrent core, TLC configurations that check them on small
instances, and TLAPS proofs for every instance. Paths below are relative to
`src/core/src/` of the repository unless they start with `src/`.

## 1. Inventory

| Component | State it keeps | Operations | What is hard | What makes it correct |
|---|---|---|---|---|
| Agent pool (`agent_pool.rs`) | token → agent process, `connected`, `disconnected_at`, two replay buffers, cached responses | `get_or_spawn`, `mark_disconnected`, `buffer_message`, stdout task, reaper | the stdout task does not take the pool's lock; many connections share one `connected` flag; agents die by themselves | bounded; no process outside the pool; when a client may lose its agent; a line once per device, to the right token |
| Keep-alive WebSocket session (`bridge.rs` 995-2013) | per connection: capture flags, suppression id, session id | two intercepts, replay, Task 1 (client→agent), Task 2 (agent→client), close | two tasks share atomics; caches survive connections, and an old connection may linger beside the new one; a slow one lags; responses are synthesised | each request answered once; cached session belongs to the running agent; silent prompts stay silent; a handshake never hangs |
| Accept loop and limits (`bridge.rs` 51-76, 263-723, `rate_limiter.rs`) | attempts and connections per address, events per webhook token | accept, check, register, route, release | check and registration run in different tasks; many error paths, one of them a panic | a slot is given back on every path but the panic; sliding windows hold |
| Pairing (`pairing.rs`, `runner.rs` 244-283) | code and creation time under a mutex, `used`, `attempts` | `validate`, `renew`, renewal task, QR popup | three pieces of state, none locked together; code on screen is a copy | one win per code; bounded guessing; dead codes refused; popup usable |
| Bridge runner and application (`runner.rs`, `tui/app.rs`) | lock file, shutdown sender, `restart_pending`, popups, wizard | start, stop, restart, wizard and popup keys, bridge events | events do not name their bridge; old and new bridge overlap | one listener; no lost restart; no bridge nobody can stop; status bar true |
| MEMORY.md merge (`bridge.rs` 1220-1326, 1540-1590) | one file | append, refuse, silent prompt, rewrite | two tasks write one file, unflushed and in two steps that outlive them; updates overlap | an entry that landed while no update was under way is not lost; suppression ends |
| Push relay client (`push.rs`) | JWT cache, debounce map | register, unregister, notify | check-then-stamp under two locks; concurrent fetches; the agent's stdout reader awaits `notify` | no expired token used; no caller pushes twice in a cooldown; the reader's stall is bounded |
| Configuration, TLS (`common_config.rs`, `tls.rs`) | `common.toml`, certificate, key, recorded addresses | load, save, load or generate | crash between writes, errors that are ignored, several writers with copies of their own | identity and pinned certificate stable; the certificate covers the advertised address |
| Log rotation (`file_log_layer.rs`) | `aptove.log`, numbered backups | open, append, rotate | small file counts; crash between renames; dropped errors | lines in order, only the oldest forgotten, bounded number and size of files |
| Transports, Tailscale (`transport.rs`, `tailscale.rs`, `src/cli/src/plugins.rs`) | external route | serve, drop guard | old guard dropped after new route; removal may fail unnoticed | a bridge keeps the route it took alone |
| Legacy and in-process handlers (`bridge.rs` 2017-2286) | one agent per connection | relay | not reached by the shipped binary | – |
| Drawing, QR, widgets, entry point | – | pure | – | – |

How they interact: the accept loop spawns one task per connection, which is a
pairing request, a webhook or a WebSocket. A WebSocket calls `get_or_spawn` on
the pool (one `RwLock`), subscribes to the agent's broadcast channel and runs
Task 1 and Task 2 until the client goes; then it marks the agent disconnected.
Lines written meanwhile wait in the pool's buffers. The application starts
`run_bridge` as a task, stops it through a oneshot sender, and hears from it
through an ordered channel of events.

`PROJECT.json` lists all components with what is left out of each, and the
hazards with the line where each bites.

## 2. Modules

| Module | Models | State ↔ code |
|---|---|---|
| `AgentPool` | the pool and the connections that use it | `pool`, `connected`, `idleFor`, `buffer`, `overflow` are the fields of `AgentPool`/`PooledAgent`; `pending` is a line whose broadcast found no receiver; `rx`, `replay`, `held` are a connection's receiver, its lines to replay and the line whose send failed; `deserted` remembers the agents marked disconnected under a client |
| `PoolOwnership` | what the pool promises about processes: `pool`, `alive`, `spawned` | abstract; `AgentPool` implements it |
| `BridgeSession` | one client talking to one pooled agent through the bridge | caches, `captured`, `suppress`, `injected` are the flags of the same names; the wire, the receiver (`RxCap` lines) and the agent's stdin are queues; `left` is Task 2 of a connection whose client has come back on another; `landing` and `rewriting` are file operations under way |
| `Pairing` | `PairingManager`, requests, renewal task, QR popup | one step per atomic operation or critical section |
| `AppLifecycle` | the application and its bridge tasks | `phase[b]` is the position of a task in `run_bridge`, `routed` the bridges with a Tailscale guard, `route` the bridge the external route leads to, `alone` that the last route was taken with no guard out; the other variables are fields of `App` |
| `Gate` | accept loop, both limiters, ends of a connection | the two halves of `check_connection` are two steps, and registration a third, in another task; a task that panicked stays so |
| `PushRelay` | the push client under concurrent calls | `sinceStamp` is the debounce entry, `cacheLeft` the time to `JwtCache::expires_at`, `cacheTrue` the validity the token really has; per call its position, its token and how long its request is under way |
| `LogRotation` | `FileLogLayer` over a directory | `disk` maps slots (0 is `aptove.log`) to files; `open`, `written` are `FileState`; one step per file operation |
| `RollingLog` | what a rolling log promises: append, turn, forget the oldest | abstract; `LogRotation` implements it |
| `ConfigFiles` | `common.toml`, certificate, key and recorded addresses, with the processes of one folder | a save is two steps (truncate, write), each of which may fail; `app[p]`, `bridge[p]` are positions in `run_tui`, in `App` and in `run_bridge` up to the certificate; `copy` is the bridge's clone of the configuration |
| `MCAgentPool`, `MCPairing`, `MCGate`, `MCConfigFiles` | symmetry sets for TLC | |
| `AgentPoolProofs`, `BridgeSessionProofs`, `PairingProofs`, `AppLifecycleProofs`, `GateProofs`, `PushRelayProofs`, `LogRotationProofs`, `ConfigFilesProofs` | theorems about the module of that name; those about `PoolOwnership` are in `AgentPoolProofs`, those about `RollingLog` in `LogRotationProofs` | |

Grain of atomicity. What runs under one lock without awaiting anything another
task could use is one action. In `AgentPool`, `get_or_spawn` is two actions with
the lock held in between (`Reuse`, `Subscribe`) because the stdout task runs
without the lock; that task is two actions as well (`StdoutSend`, `StdoutStore`).
`validate` and `renew` of `Pairing` are one action per atomic. Every file operation of
`LogRotation` and `ConfigFiles` is a step, with a crash possible between any two; in
`BridgeSession` an append is queued and lands later, as `tokio::fs::File` is not flushed,
and a rewrite truncates and then writes, in a thread no aborted task stops;
the steps of `PushRelay` are the critical sections and the two ends of each request.

Refinement. `ImplementsOwnership` instantiates `PoolOwnership` with the variables
of the same names (the mapping is the identity). `ImplementsRollingLog` is
`INSTANCE RollingLog WITH keep <- Survives, kept <- Kept`: the lines that can be read
are those of all files together, and the number of rotations a line outlives is the
number of files (two when one is configured).

Time. `PushRelay` keeps ages and remainders which one `Tick` moves, all of them
saturating or bounded, so its clock needs no bound; `Gate` has a clock with a bound.

Data. A line is (agent, number) in `AgentPool`; a JSON-RPC message is its kind
and the number of its request in `BridgeSession`; a pairing code is a model
value, and a fresh random code is one that nothing refers to any more; MEMORY.md
is the set of its entries; a log file is the sequence of its lines' numbers and a
length; a certificate is a serial number and the address it was made for, a key the
serial of the certificate it belongs to; an attempt is a time and the connection that made it.

## 3. Runs

Passing runs (TLC finishes, no error):

| Run | Bounds | Shows |
|---|---|---|
| `pool_lifecycle` | 2 tokens, 2 connections that may share one, 3 processes, room for 1, idle timeout 1 tick, no output | `PoolBound`, `NoOrphanProcess`, `ImplementsOwnership`, `IdleReaped` |
| `pool_delivery` | 2 tokens, 2 connections that may share one, 2 processes, buffers and channel of 1 line, 2 lines per process (3.2 million states) | no line more often than devices, of another token or silently forgotten (`OncePerDevice`, `LinesStayWithToken`, `WaitingLinesHandedOver`, `ReplayBounded`), and only another connection's end may cost a client its agent (`KilledOnlyIfDeserted`, `AttachedIsConnected`); `TypeOK` with the bounds of the buffers |
| `bridge_session` | 4 client messages, 2 connections that may overlap, channel of 2 lines (114 thousand states) | `AnsweredOnce`, `CachedSessionOfAgent`, `SettledKept`, `SilentHere`, `HandshakeAnswered`, `SuppressionEnds` |
| `pairing_requests` | 2 requests at once, 4 codes, limit 1 | `OneWinPerReset`, `AttemptsBounded`, `DeadCodeRefused` |
| `pairing_popup` | 1 request, 3 codes | `QrStaysUsable` |
| `app_lifecycle` | 2 bridges at once, channel of 1 event, 1 plugin setup (461 thousand states) | `OneListener`, `UpIsTrue`, `LoneBridgeKeepsRoute`, `PendingRestartHasCause`, `AbandonedBridgeStops` |
| `gate` | 3 connections, 2 addresses, limits 1 and 2, window of 2 ticks, clock to 4 (333 thousand states) | `CountIsOpen`, `AttemptsPerMinute`, `EventsPerMinute` |
| `log_rotation` | 1, 2 and 3 files of 2 bytes, lines of 1 and 3, 5 lines, 4 rotations (234 thousand states) | `OrderKept`, `DiskBounded`, `ImplementsRollingLog` |
| `config_files` | 2 processes, 3 addresses of which one is no valid name, 2 identities, 2 certificates (3.1 million states) | `IdentityKept`, `PinKept`, `CoversAddress`, `PairUsable` |
| `push_relay` | 2 concurrent calls, cooldown 5, timeout 2, margin 3, lifetimes 5 and 9 (280 thousand states) | `JwtFresh`, `OnePushEach`, `StallBounded`, `CallsEnd` |

Why these bounds are enough to be interesting. A pool of one with two tokens
makes every spawn an eviction; a third process lets a token lose its agent and
get another. Buffers of one line overflow on the second, and two lines are what
reordering, duplication and a full merge take; a channel of one line makes a slow
connection lag, and two connections on one token are two devices, or a phone that came back
before its loss was noticed. In `bridge_session` two connections are the one that fills the
caches and the one that finds them, the first perhaps still listening, with or without its
agent; four messages make initialize, session, and a prompt and a memory update or two overlapping
ones; a channel of two lines lags on the third. (Three connections have been checked too: 1.2 million
states, too long for a regular run.) Two bridges are the old and the new one; a finished bridge's identity is used again.
A clock of two windows lets attempts leave the window while others stay.
Three files are the least with which the shifting loop runs, and one and two are its
edge cases; a line of 3 bytes is longer than a file; four rotations push a line out of
three files. Two addresses make a certificate outdated and the old address come back, and the
invalid one is recorded without being in the certificate; a second identity shows the loss of the first, a second certificate that of a pin.
Of the lifetimes, 5 caches a token for 2, which is within the margin of 3 at once, so
that it is never reused; 9 caches it for 6, so that it is reused, then comes within the margin
and is fetched again; both exceed two requests, as the assumptions say. The cooldown is longer than the
two requests of a call, as 30 s is longer than 2 x 10 s.

Each property of a passing run has a mutant in `PROJECT.json`: an operator
beside the definition it stands for (`VictimsOffByOne`, `KilledNone`,
`TakenByClone`, `LimitNever`, ...) that carries a plausible bug, under which the
property fails.

Runs that show a disagreement between the code and what is said of it:

| Run | The code is said to | What happens |
|---|---|---|
| `pool_shared_kill` | keep agents with a client alive (`agent_pool.rs:17`) | two devices share a token, the first leaves, `connected` is false, the second's agent is evicted or reaped |
| `app_lock_race` | never start before the old bridge released the lock (`tui/app.rs:125`) | the second of two quick restarts finds no shutdown sender and starts at once |

Further disagreements are stated in the modules, next to the line they contradict,
but have no run of their own (each was found violated by TLC when it was stated):
`ReplayInOrder` (AgentPool: lines stored by a failed send and those of the overflow
buffer come back in another order than they were written), `FreshCodeOnOpen`
(Pairing: the renewal task ends with the first pairing, so a popup opened later
keeps the used code), `OnlyMemoryOutputDropped` (BridgeSession: the user's own output
is dropped until the final response of a memory update), `AtMostCountFiles`
(LogRotation: with `log_file_count = 1` two files are kept), `PairRepaired`
(ConfigFiles: a pair of files left half made by a crash is loaded again and again and
every start fails), `RouteWhileServing` (AppLifecycle: the guard of the old bridge,
dropped after its BridgeStopped, may remove the route of its successor),
`OnlyIdleKilled` and `OwnLinesOnly` (AgentPool, see below), `AlwaysRemoved`
(Gate: `bridge.rs:350` "Always remove connection when done", but a task that panics, as
`bridge.rs:565` does on a token whose twelfth byte is inside a character, skips it and its slot
is lost; the line takes a webhook resolver, which the shipped binary does not set),
`RegeneratedOnChange` (ConfigFiles: `src/README.md:94` says the certificate is made again
when the addresses change, but removing `advertise_addr` keeps it),
`OverflowOnlyWithoutReceivers` and `BufferCapPerAgent` (AgentPool: the overflow
line may be stored after a receiver has come, and the cap holds per buffer),
`SingleUse` and `SuccessDetected` (Pairing: a renewal in the middle of `validate`
lets a code win twice, and may hide a pairing from the renewal task),
`RestartHappens` and `QrVisibleIsPopup` (AppLifecycle), `InitializedOnce` and
`SilentEverywhere` (BridgeSession: a late initialize reaches the agent again; the
output of a memory update is buffered for, and shown to, the next connection),
`ConnectionLimit` (Gate: check and registration are apart).

Two connections of one token overlap when two devices share it, and also when a single phone
reconnects before the bridge has noticed the loss of its old connection; `DevicesPerToken`
bounds how many. The properties of `pool_delivery` hold for any number, and say what is
left then. `OnlyIdleKilled` does not hold (`pool_shared_kill`): `connected` is one flag, which the
first of the two to leave clears, and the model remembers that in `deserted`.
`AttachedIsConnected` and `KilledOnlyIfDeserted` say that this is the *only* way a client's
agent counts as idle, or is killed. Every connection that listens gets every line, so
`OncePerDevice` bounds the copies of a line by `DevicesPerToken`; with one it is "none twice".
`OwnLinesOnly` does not hold: `buffer_message` (`agent_pool.rs:497`) looks the agent
up by token, so a line of a dead agent whose send fails late lands in the buffer of its
successor and is replayed as the successor's; `LinesStayWithToken` says that it stays
with the token, whatever the pool has evicted and spawned meanwhile.

Five things met while modelling are not stated as properties, as nothing in the
repository says otherwise: registrations and unregistrations of a device may reach the relay
in either order (`bridge.rs:1191`); a push that fails leaves its stamp and silences
the next 30 seconds (`push.rs:285`); the port `run_bridge` chose and saved is lost
when the application saves its own copy of the configuration later (`runner.rs:106`,
`tui/app.rs:1436` updates only the screen); a setting saved between the start of a bridge and
its port search is overwritten by the bridge's copy; with `advertise_addr` unset the
local plugin advertises the local IP of the moment (`src/cli/src/plugins.rs:48`), which an
existing certificate, made under another one, is never compared with.

Some counter-intuitive points of the properties. `AttemptsBounded` is not
"`attempts <= MaxAttempts`", which concurrent requests break; the bound is the
one the code does keep. `OneWinPerReset` counts per *reset of the used flag* and
not per code, for the reason given under `SingleUse`. `IdentityKept`, `PinKept`, `CoversAddress`
and `PairUsable` excuse exactly the crashes and errors (`disturbed`, `cut`) after which the code
does not keep them: a save of `common.toml` cut short or read halfway; a generation of
the pair cut short, its addresses not recorded (`tls.rs:64` ignores that) or the outdated pair not
removed (`tls.rs:47`). Interleavings, crashes elsewhere, restarts and edits are not excused.
`PinKept` says that a new certificate means a new address; the converse is `CoversAddress` for an
address that is set, and fails for one that is removed (`RegeneratedOnChange`).
`CoversAddress` is about an address that is set; one that `generate_new` skips as invalid
(`tls.rs:115`) is excused by name.
`OnePushEach` is about each caller, because callers that pass the debounce check
together all push. `DiskBounded` bounds sizes until a rename fails: the byte
count restarts at zero on a file that is not empty. `SettledKept` is about entries
that *landed* with no update under way: the answer to an update that does not contain an entry
overwrites it. It says nothing while a rewrite is between truncation and
writing, nor after the file was read, or a rewrite failed, at that moment (`torn`).
`CachedSessionOfAgent` excuses `haunted`: the agent was replaced while a connection of its
predecessor was still there, whose Task 2 may cache the predecessor's session for the token
(`bridge.rs:1516`). `AnsweredOnce` excuses requests whose answer two connections listened
for (`copied`): the old one's failed send buffers its copy for the next. `HandshakeAnswered` and
`SuppressionEnds` excuse a connection whose receiver `lagged`: a response skipped there is never
seen, and if it was the armed one the suppression lasts until the connection closes.
`LoneBridgeKeepsRoute` is what is left of "a serving bridge keeps its route", which fails
when the old bridge's guard was still out (`RouteWhileServing`).

## 4. Fairness

- `AgentPool`: time passes; the reaper's interval comes round and, as it and
  every closing connection ask for the pool's fair `RwLock`, they get it (strong
  fairness); a connection that holds the lock subscribes at once. Clients,
  agents and failures are under no fairness: nothing need ever happen.
- `Pairing`: the renewal task's interval, the application's event loop and a
  request being handled go on. Expiry and the user are free.
- `AppLifecycle`: the event loop handles events; a bridge task goes on, with
  strong fairness where it waits for room in the channel, which tokio grants in
  order. The user is free.
- `BridgeSession`: the intercepts, the replay and the two tasks go on while the
  connection lives, a live agent answers what it was asked, and a rewrite Task 2 awaits
  ends, well or badly. Queued appends, the connection left behind, the 30 s timeout of
  the intercepts, disconnects and deaths are free.
- `PushRelay`: the calls are polled and the HTTP client keeps its timeout; time goes
  on however many calls begin and fail in between (strong fairness of `Tick`, as it is
  disabled while a step that takes no time is due). The token service and the relay
  promise nothing, so `CallsEnd` rests on the timeout alone.
- `Gate`, `LogRotation` and `ConfigFiles` have only safety properties.

## 5. Proofs

All proofs are checked by TLAPS for every value of the constants allowed by the
named assumptions of the modules. Every safety property a passing run checks, invariant,
action property or refinement, is also a theorem.

**Agent pool** (`AgentPoolProofs`). The assumptions say only that sizes and times are
natural numbers, that a channel holds at least one line and a token has at least one device, and that the mark for "none" is
neither an agent nor a line.

- `OwnershipKept`, of `PoolOwnership`: `PoolBound` and `NoOrphanProcess` are not
  inductive: evicting one token's agent would orphan another's if two tokens
  shared it, so `OwnInv` adds `NoSharedAgent`. A start adds one token and, when the
  pool is full, removes one, hence the bound.
- `TypeCorrect`, `TypeOKKept`: types, with the lengths of all queues. The
  lemmas `PushInQueue`, `TailInQueue` and `DrainedInQueue` say what the queue
  operators preserve.
- `PoolImplementsOwnership`: from `TypeInv`, action by action; the refinement
  mapping is the identity on the three shared variables, with connections, buffers and
  time hidden. `PoolBoundKept` and `NoOrphanProcessKept` follow from it and
  `OwnershipKept`.
- `ReplayBoundedKept`: only a reconnect lengthens what is to be replayed, and
  `DrainedInQueue` bounds the merge of the two buffers.
- `WaitingLinesKept`: for any number of devices, an action property over the two
  ends of the merge: what leaves a buffer is in the replay, or the replay is full.
- `AttachedIsConnectedKept`, `KilledOnlyIfDesertedKept`: only `MarkDisconnected` clears
  `connected`, and if it does so under a client the agent is deserted until the next
  reconnect marks it again; a replacement never leaves a client attached to the new agent.
- `DeliveryInvariant`, then `LinesStayWithTokenKept`: the agent in the pool under a token was
  spawned for it, and so was the one every connection of the token is attached to (`OwnerInv`); a
  line in a buffer, queue or hand was written by an agent of the token of that place (`LinesInv`).
- `OncePerDeviceKept`: all places a line can be in - the reader, both buffers, a hand, the
  receivers, the replays, the screens - form one function `Where` from places to
  sequences, and `FewCopies` says that no line has more than `DevicesPerToken` positions in it. A
  step moves lines, each position tracing back to one of its own before (`Traced`), or adds a fresh
  line to the receivers of one token, of which there are not more than that (`FewUsers`).

**Pairing** (`PairingProofs`), for finitely many requests. `OneWinPerResetKept` needs
"nobody has won while `used` is false"; `AttemptsBoundedKept` counts a request past the
check in advance, as it will add its miss without looking again; `DeadCodeRefusedKept`
needs that a stale request's code stays dead: a renewal only brings in codes nobody carries.

**Application and bridges** (`AppLifecycleProofs`), for any number of bridge tasks and any
channel size. `LockInvariant`, then `OneListenerKept`: from the lock to the end of
`run_bridge` a bridge is the holder of the lock, so two cannot serve. `AppInvariant` is
for three properties. `UpIsTrue` is about an empty channel; `UpInv` says it of what the status
bar *will* show when the events on their way are handled. `PendingRestartHasCause` needs
that the bridge behind the shutdown sender still has its report to send or has it on its way.
`LoneBridgeKeepsRoute` needs that a guard is held from the URL to the return, and that the guard
of a lone bridge is the only one: only its holder announces itself, and only a guard removes a route.

**Session** (`BridgeSessionProofs`), for any number of messages and connections.

- `SessionInvariant`, then `CachedSessionKept`: session ids in the caches belong
  to the running process because every line still in a receiver does, that of the connection left
  behind included as long as its agent is the pool's; nothing is in a receiver without a
  connection, and the caches start empty with the process.
- `SettledAlwaysKept`: `MInv` says that every memory update waiting for the agent, in either
  receiver, being read, or being written carries all settled entries, as long as nothing is torn. An
  entry that lands is settled only if there is no such update, so a rewrite by any of them keeps what is
  settled, in whatever order overlapping rewrites take their two steps.
- `AnsweredOnceKept`: a request is, by its number, in at most one position of the seven queues
  that lead to an answer, and if it is in any it has not been answered (`OnceInv`), except
  the copied ones. A step moves numbers, drops them or answers the one it takes.
- `SilentHereKept`: an update's output is dropped while *some* update is armed, and the
  final response of the armed one ends that. So the invariant is about order: ids
  grow from the client's messages to the agent's requests to its lines, nothing of
  an update follows its final response, the armed id is the latest, and without one nothing of this
  connection's own updates is under way (`OrderInv`, `ArmedInv`). Lines that lag skips are taken
  from the front, which keeps the order.

**Limits** (`GateProofs`). `GateInvariant`, then `CountIsOpenKept`: the counter equals the
cardinality of the set of tasks that are registered or panicked; each action adds or removes one
element or none, and a panic moves one inside it.
`LimiterInvariant`, then `AttemptsPerMinuteKept` and `EventsPerMinuteKept`: the code
counts stamps it keeps, the properties count events in any window; `Windowed` says no recent
event has lost its stamp, so an admission that finds room among the stamps finds room in every
window that ends with it.

**Push client** (`PushRelayProofs`). `PushInvariant`, then `StallAlwaysBounded`,
`JwtAlwaysFresh` and `OnePushEachKept`, for
any number of calls and any durations with `Timeout <= Margin` and lifetimes longer
than two timeouts. `TokensLast`: the cache never counts on a token for longer than it
lives, and a token's remaining life and the time its request has waited exceed a
timeout; `WaitsCounted`: a call's age is covered by its two requests;
`StampsCounted`: the stamp is at least as recent as every caller's own push.

**Log rotation** (`LogRotationProofs`), for any file count, size and lines.
`LogInvariant` joins four parts: lines on disk have been written and are ordered across slots
(`OrderKeptAlways`, which holds whatever fails); the bytes counted are at least those of the file,
and the slots used are below the count (`DiskBoundedAlways`); a line in backup *s* has outlived
*s* rotations, one more while the rotation under way has still to move it; and the slot a
backup is renamed to is free, so that no rename overwrites. From the last two
`LogImplementsRollingLog`: only the removal of the oldest file forgets lines, and those have
outlived theirs. `LinesAreRetained` then states the promise of `RollingLog` for the files.

**Configuration and certificate** (`ConfigFilesProofs`), for any number of processes,
addresses, identities and certificates. `ConfigInvariant` has three parts. One bridge at a time
is past the lock. While nobody replaces the pair and no generation was cut short, failed to be recorded
or left the old pair in place (`cut`, which a complete generation clears), the pair
matches, the recorded address is the certificate's, and the certificate is the one last served
(`Whole`); whoever replaces it has an address the old one lacks (`NewlyAdvertised`): hence
`CoversAddressKept`, `PairUsableKept` and `PinAlwaysKept`. Until a save is cut short or
read halfway, every process, every bridge's copy and the file have the same identity, and from
the first save on the file lacks one only while somebody writes it: hence `IdentityAlwaysKept`,
although processes overwrite each other's settings.

Only model-checked: the liveness properties (`IdleReaped`, `QrStaysUsable`,
`AbandonedBridgeStops`, `HandshakeAnswered`, `SuppressionEnds`, `CallsEnd`), as liveness under
fairness and ENABLED are out of the prover's reach here; and the two disagreements,
for which TLC's counterexample is the evidence.
What a recursive definition over data computes cannot be proved with the
provers installed; no module that holds a theorem declares a RECURSIVE operator.

## 6. What the models leave out

- `AgentPool`: `remove_agent`, `kill_agent` and `shutdown_all`, which only tests
  call (`Die` is also what `kill_agent` does to a process); the command line of an agent.
- `BridgeSession`: other devices on the token and the echo of prompts to them,
  push registration, slash commands, keep-alive pings (their timeout is a free end of the
  connection), more than one connection left behind, and of that one everything but Task 2 and
  the file operations it began, a file of which a reader sees a part,
  the limit of skipped notifications in the session intercept, cached session
  responses without a session id, and the bounded channel to the agent. The broadcast channel is
  bounded as in the code, by `RxCap` lines.
- `Pairing`: one run of the bridge (the manager dies with it), so the
  cancellation of the renewal task is left out, as are its redraw ticks.
- `AppLifecycle`: quitting, logs and their popup, the handling of
  `PairingCompleted` (Pairing has it);
  of the route, only whose it is.
- `Gate`: TLS and parsing, the webhook's body, size and signature, all abstracted to
  whether and when the connection ends; what pairing and WebSocket connections do
  while they hold their slot; panics other than the one at `bridge.rs:565`.
- `PushRelay`: the device a registration names, and the bodies of requests; a call
  slot that ends is used again by another caller of the same kind.
- `LogRotation`: a second process that writes the same log, lines written in part (one a failed flush
  leaves in the writer's buffer goes out at once or is lost with the writer), a
  file count changed between two starts, loss of power (the page cache survives a crash).
- `ConfigFiles`: overlapping writes of one file are taken one after the other; the
  local transport with TLS; `advertise_addr` edited only while nothing runs; which of the
  other addresses a certificate has; an application that cannot parse a file (a truncated one parses, as
  every field has a default).
- The legacy and in-process handlers: `run_bridge` always sets a pool and a command,
  so `handle_websocket_connection` (`bridge.rs` 948-964) never takes their branch in the
  shipped binary.
- Not modelled at all: see the table in section 1 and `PROJECT.json`.

## 7. Plan

Done, in the order of importance: `PoolOwnership` and `AgentPool`; `Pairing`;
`AppLifecycle`; `BridgeSession`; `Gate`; their first theorems; MEMORY.md in
`BridgeSession`; `PushRelay` with its theorems; the Tailscale guard in
`AppLifecycle`; `RollingLog` and `LogRotation`; `ConfigFiles`; the theorems for all their
safety properties.

Next, models:
1. The bounded channel to the agent and the keep-alive pings in Task 1.
2. The echo of prompts to other devices on the token, with two clients.
3. Quitting the application, and overlapping writes of `common.toml`.

Next, proofs: every safety property of the runs has its theorem. What is left is
what a new model brings; the safety parts of the liveness properties (that a step toward
the goal is never undone, as for a suppression whose final response is under way); and shorter
proofs of the two longest modules, `AgentPoolProofs` and `BridgeSessionProofs`.

## 8. Running

    tlc -workers 2 -config PoolLifecycle.cfg MCAgentPool.tla
    tlapm AgentPoolProofs.tla

`PROJECT.json` names the module and configuration of every run. The longest run
takes about two and a half minutes, the longest proof a few minutes. `CHECK_DEADLOCK FALSE` is used
where the bounds let the model stop: the client's messages (BridgeSession), the clock
and the connections (Gate).
