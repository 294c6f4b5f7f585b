# ForgeKit core: TLA+ specifications

Models of this repository's MCP server (TypeScript, `mcp-server/`) and of the parts of the Godot
addon (GDScript, `addons/forgekit_core/`) it works with: the connections between the two, the
transactions that span them, the requests of MCP clients on their way through the server, the
registry of projects and the other files it keeps, its start and its end, and the pure algorithms in
between. TLC checks them on small instances; TLAPS proves the most important results for every value
of the constants.

To check: `tlc -config client_ws.cfg MCChannelClient.tla` (the module of every configuration
is in the table of runs), `tlapm ChannelClientProofs.tla`.

## The system

An MCP client (an AI agent's host) talks JSON-RPC over stdio to the **MCP server**, a Node.js
process. The server reaches the **Godot editor** (an editor plugin) over a WebSocket, the
**running game** (an autoload) over UDP, and the Godot CLI through child processes.

| part | state it keeps | operations | what is hard about it | what makes it correct |
|---|---|---|---|---|
| channel clients: `transports/editor_ws_client.ts`, `transports/runtime_udp_client.ts`, `auto_reconnect.ts` | socket, `connected`, `connecting`, `terminated`, pending requests, three timers, backoff index | connect, disconnect, send; socket and timer callbacks | awaits inside `connectOnce()`, late events of old sockets, timers that outlive their reference, lost datagrams | one connection at a time; every promise settles; no request before the handshake; the reconnect loop never dies, and stops on disconnect |
| cross-channel transactions: `dispatcher/cross_executor.ts`, `transaction_manager.gd`, `transaction_tools.gd`, `undo_redo_wrapper.gd` | active and timed-out ids, one flag, a timer per transaction; the editor's table of open transactions | begin, commit, rollback, auto-rollback | state changed before and after awaits; timers against replies; a restart of either side | what a client is told is what happened; nothing stays open for ever |
| channel router: `dispatcher/channel_router.ts`, `observability/dispatch_logger.ts` | a timer per call | dispatch: log, lookup, race of 30 s | the handler goes on after the timeout; a log line that cannot be written | one answer per call, and it says what happened |
| stdio bridge: `stdio_bridge.ts` | input buffer, queue, draining flag | serial handling of frames | head-of-line blocking, frames in pieces, frames that are no requests | every frame is answered, in order |
| request handlers: `server/tool_request_handlers.ts`, `profiles.ts`, `dispatcher/cli_executor.ts` | the catalogue of tools, three indexes of it | tools/list, tools/call | licenses change between a list and a call | list, filter and routing agree; only exposed tools start |
| project registry: `projects/registry.ts`, `projects/persistence.ts` | Map of workspaces, active id, `workspaces.json` | register, unregister, setActive, fromDisk | awaited checks and writes that overlap; crashes | unique ids and roots, one active workspace, durability |
| workspace channels and resolution: `projects/workspace_channels.ts`, `resolve_workspace.ts`, `auto_register.ts` | ports held per workspace | getOrCreate, release | ports handed out twice | no port is held by two workspaces |
| active-port file and other files: `port_scanner.ts`, `websocket_server.gd`, `udp_server.gd`, `tools/project/atomic_writer.ts`, `tools/modules/errors.ts` | files that several processes read, change and write | read, change, write, rename | lost updates, shared temporary names, crashes | readers see whole files; an error changes nothing |
| project settings: `tools/project/godot_ini.ts`, `update_settings.ts` | `project.godot` | parse, patch, write | a layout that must survive | what was set is read back, and nothing else changes |
| heartbeat monitor: `heartbeat_monitor.gd` | pending ping, misses, drops | start, tick, pong | restarts | a live link is not reported lost |
| editor backend: `editor_channel_backend.gd`, `json_rpc_dispatcher.gd` | open scenes, unsaved text, undo stacks | scene.open/save, node.set_property, editor.undo | several scenes, reopened scenes | undo restores what the edit changed |
| runtime bridge: `mcp_bridge.gd`, `udp_server.gd`, `packet_parser.gd` | server, dispatcher | activate, poll, deactivate | malformed datagrams, per-frame limits | every request gets a reply |
| self-healing: `healing/*` | attempts per path, a latch | increment, reset | latch and count out of step | the limit is reported once |
| licensing: `licensing/startup.ts`, `licensing/*.gd` | directory snapshot, unlocked modules | load, poll, reload | changes during a poll, or between load and first poll | the unlocked set follows the directory |
| start and command line: `index.ts`, `port_scanner.ts`, `health_endpoint.ts` | process, ports of the machine | options, three modes, scan, listen, shutdown | processes that scan the same ports; signals at any moment; requests in progress | the published port is served; a shutdown ends |
| observability: `observability/metrics.ts`, `health_endpoint.ts`, `observability/jsonl_logger.ts` | log files, windows of samples | log, /trace, /metrics | reading files that grow, midnight, percentiles at the edges | traces without gaps, numbers of the window |
| module tools: `tools/modules/*` | a cached promise | check_compatibility | overlapping calls, failures of git | one git process; a verdict that is true |
| git hooks: `scripts/git-hooks/*`, `cli/install_hooks.ts` | hook files and backups | pre-commit, commit-msg, install | ranges of lines; an installer killed half-way | stale documents are stopped; no hook of a user is lost |
| arguments and literals: `schema/*`, `tools/*`, `tools/*.gd`, `type_parser.ts` | none | validate, read, parse | the same names in three places; a grammar with edges | arguments arrive; the grammar is the one documented |
| writers in Godot: `project_settings_atomic_writer.gd`, `script_writer.gd` | one temporary file each | update | crashes between write and rename | old or new content, nothing else |
| the rest: child processes of CLI tools, event bus, manifest loader, update checker, visualizer | little or none | | presentation or plain I/O | out of scope, see "Not modelled" |

How they interact: the clients call back into themselves through socket events and timers;
the router calls clients and the executor and races them against a timer; the executor calls
`editorClient.send()` and depends on the clients' contract (`RpcChannel`); the editor's
servers and the clients share only messages and the active-port file.

At this commit `index.ts` starts the router with placeholders for the clients and the executor
(`makeUnavailableClient`, `makeUnavailableCrossExecutor`), and registry, bridge and transaction tools are
put together by tests only; so are `HealthEndpoint`, `MetricsRegistry`, `DispatchLoggerMiddleware`
and `type_parser`, which embedders may use. The models are of these classes, used together as their
interfaces and tests use them.

## Modules

| module | models |
|---|---|
| `RpcChannel` | what a channel client promises its callers: a link that is up or down, and requests that settle at most once, only while it is up, at the latest when it goes down |
| `ChannelClient` | both clients, selected by `Transport`; `Implements` is its refinement of `RpcChannel` |
| `Ascending` | sets of numbers as increasing sequences (the registry's sorted list, frames in the order of arrival), and what filters and sorts make of a sequence (`Observability`) |
| `ChannelClientProofs`, `CrossTransactionsProofs`, `ProjectProofs` (registry and settings), `McpServerProofs`, `PartsProofs` (the parts of `Workbench`, each alone), `WorkbenchProofs` | theorems and proofs |
| `AscendingProofs`, `FoldLemmas` | what those proofs need to know of `Ascending` and of `FoldLeft` |
| `CrossTransactions` | MCP client calls, router timeout, `CrossExecutor`, the editor channel and `McpTransactionManager`, composed |
| `ProjectRegistry` | `ProjectRegistry` over `FileSystemWorkspacesPersistence`, with crashes and restarts |
| `ToolCatalog` | the entries of `profiles.json`, the filters over them and the three indexes built from them |
| `Dispatch` | `ChannelRouter.dispatch()` over the channels, with its timer and the log around it |
| `StdioBridge`, `ToolRequests`, `LicenseWatch` | what is on top: the bridge, or the handlers of tools/list and tools/call with the licenses they look at |
| `McpServer` | the composition of these five |
| `ServerBoot` | processes from their command line to their end, and the ports they compete for |
| `Observability` | the log files, /trace, and the histogram behind /metrics |
| `ProjectFiles` | one file read, changed and written by several calls in several processes |
| `GodotIni` | `project.godot` as `updateSettings()` and `getSettings()` see it |
| `ModuleTools` | modules.check_compatibility with the cached git process |
| `PreCommit`, `HookInstaller` | the git hooks, and their installation |
| `ToolSchemas`, `ToolFunctions`, `GodotTools`, `ToolArguments` | the arguments of every tool: what schemas accept, functions and Godot handlers read, and what becomes of a call |
| `TypeParser` | the parser of Godot literals |
| `EditorSide` | heartbeat monitor, scenes with their undo, and transactions of edits in the editor |
| `Workbench` | the parts from `ServerBoot` on side by side, `part` saying which one a behaviour is of |
| `MC...` | values of the constants for TLC |

### ChannelClient

The two classes have the same structure, method by method, and the module keeps the names of
their fields. Node.js runs a handler, with the promise continuations it triggers, to
completion before the next event, so an action is one event with the whole handler:

| code | action |
|---|---|
| `connect`, `disconnect`, `send` | `UserConnect`, `UserDisconnect`, `UserSend` |
| `connectOnce`, cut at its awaits (`phase`) | `DiscoverOk/Fail`, `OpenOk/Fail`, `HandshakeAccepted/Rejected`, `ContinueFailed` |
| `handleMessage` | `Reply` |
| heartbeat tick, `handleHeartbeatTimeout`, the reconnect timer and `attemptReconnect` | `HeartbeatTick`, `DeadlineFires`, `ReconnectFires` |
| `close` event and `handleClose`, `tearDownConnection`, `scheduleReconnect` | `CloseEvent`; the helpers `HandleClose`, `TearDown`, `ScheduleReconnect` are part of the actions that call them |
| the network, the peer, time | `RemoteClose`, `ServerStop`, `ServerStart`, `Lose`, `TimePasses` |

Timers carry the time left. A timer object that no field refers to any more stays armed: this
is what happens to the deadline of a heartbeat when the next tick overwrites the field.
`authed`, `outcome`, `missedBeat` and `engaged` are history variables.

The code does not say when `connect()` may be called. `Caller` states what the properties
depend on: a *patient* caller leaves reconnection to the client, an *eager* one also calls
`connect()` while the client waits to reconnect, a *careless* one at any time. `Exclusive`,
`AuthGate` and the other invariants hold for patient callers; for the others the code has
no guard but `connecting` (an eager caller who beats the reconnect timer ends up with two
sockets, and with requests on one that is not authenticated). The contract `RpcChannel` is
checked for the careless caller.

Abstracted: ports, payloads, error codes, traces. Left out: a `ws.send()` that throws inside
the tick, the packet size gate, datagrams that the network duplicates.

### CrossTransactions

`Begin`, `Finish` and `AutoRollback` are the parts of the executor's methods before their
awaits, `ReplyArrives` and `RuntimeAck` the parts after them. `EditorHandles` is one request
handled by the transaction tools in the editor. `RouterTimeout` answers the client while the
handler goes on. `LinkDrops` is a loss of the WebSocket (the client rejects what is pending, as
`ChannelClient` shows), `EditorRestarts` also empties the editor's table. `idKind` is the type
of the ids the editor hands out: numbers in the executor's tests, strings in the repository's
own editor, whose begins therefore all fail in the executor (see the disagreements below); `NoOrphan`
is about numeric ids, the other properties about both. The operations that tools register in a
transaction are in `EditorSide`.

### ProjectRegistry

The callers are the handlers of project.add (`Register`, then with `make_active` a `setActive()` in
`Continues`), project.remove (`Unregister`) and project.switch (`SetActive`).
Each mutation changes the Map in one step and then writes a snapshot (`StartFlush`) that reaches
the file at `Rename` and returns at `Resolve`; `register()` first awaits its file system checks.
A write goes through a temporary file of its own, so only renames matter, and renames of
overlapping writes may happen in any order. `WriteFails`, `Crash`, `Restart` and `RestartUnread`
are the failures. Labels are left out, and the validation of ids, labels and roots is reduced to a
refusal (`RegisterRefused`).

### McpServer: ToolCatalog, Dispatch, StdioBridge, ToolRequests, LicenseWatch

| code | action |
|---|---|
| `dispatch()` to its first await; the end of the channel's promise; `setTimeout` of `callTransport()` | `StartDispatch` (with `Route`, `Forward`), `Completes`, `RouterTimeout`; `Settle` is what each result does to timer, log and answer |
| `registerToolHandlers()`: tools/list, tools/call | `ListTools`, `CallTool` |
| `createStdioBridge()`: `onData`, `drain` at its await, `stop` | `OnData`, `DrainRefuses`, `DrainDispatches`, `Respond`, `StopBridge` |
| `loadActiveLicenses()`, `watchLicenseDir()` cut at their awaits | `StartLoad`, `ReadKey`, `Loaded`, `Tick`, `StatKey`, `Compared`, `CloseWatcher` |
| the client, Godot and the user | `ClientWrites`, `EditKey` |

A behaviour has one front, the SDK's handlers or the bridge, as a process has. Whether a channel is
connected, a tool ends, fails or hangs, and a line of the log can be written is chosen at each step.
`profiles.json` may name a tool twice, because the loader does not look: list, routing table and CLI
handlers then differ in the entry they keep, and `ExposureHolds` is about what that can do.

### Workbench

The parts share no state with each other or with a session, so they are checked in one run, each from
its own initial states.

- `ServerBoot` (part *boot*): `Main`, `Bootstrap`, `LoadDefaultProfiles`, `Connect` are the awaits of `main()`
  and `bootstrapServer()`; `Probe`, `ProbeClosed`, `Listen`, `WriteActivePort` those of `scanFreePort()` and
  `HealthEndpoint.start()`; `Get`, `Answer`, `Signal`, `Shutdown`, `NothingLeft` what happens then; `StartChild`
  and `ChildEnds` are the children of the CLI channel in stdio mode, which keep the process alive after main()
  has returned 0. `parseCliArgs` folds `parseWord` over the words; `OptionsMeanWhatTheySay` compares it with a
  declarative reading of the command line.
- `Observability` (*trace*, *metrics*): `LogLine`, `Midnight`, `AskTrace`, `ReadDay`, `ServeTrace`; `Observe`
  and `percentile`. The n-th line is written at time n.
- `ProjectFiles` (*files*): a call goes through `ReadTarget`, `OpenTemp`, `WriteTemp`, `RenameTemp`, each of
  which may fail, and `UnlinkTemp`; `temp` is the only difference between most of the functions that do this.
  Paths name inodes, so that a rename moves what another call is still writing. What `FilesKept` says of readers
  and of failed calls is for calls that share no temporary file; the run `files_shared` is about the others.
- `GodotIni` (*ini*): `parseGodotIni`, `serializeGodotIni` and `applyPatch` over lines. `settings` is what the
  file should say. `KEY_RE` refuses the keys in `Refused` (none, a first digit, a space in it), which
  `validateParams()` lets through, so that an update can leave a file that no later call reads. `Misread` has the
  lines that are taken for others; `readAs` is what the reader makes of them.
- `ModuleTools` (*modules*): `StartCheck`, `Scanned`, `Resolve`, `GitDescribes`, `GitFails`; `CompatibilityTold`
  is its property.
- `PreCommit` (*commit*): `Edit` stages documents, `Commit` runs both hooks; `gitDiff` is `git diff -U0`
  (external). A section has changed (`SectionChanged`) if it has a new line, or has lost lines below a line other
  than its heading: this is what the ranges of the hook amount to, and `PassedIffChanged` says that a commit
  passes exactly then. `HookInstaller` (*hooks*): one action per file operation of the installer, `InstallFails`,
  `InstallerKilled`, and `UserWrites`.
- `ToolArguments` (*arguments*): `Validate`, then `HandleByFunction` or `HandleInGodot`. Values are classes
  (`ToolSchemas`), and one field at a time is other than usual. `ArgumentsArrive` names the exceptions field by
  field: `AstrayOf` a tool what its implementation does not receive, `Strict` what it refuses although the schema
  accepts it, `Uncallable` the tools that need a field which no schema allows.
- `TypeParser` (*literal*): `tokenize` and `parseValue` as recursive functions of the place in characters and
  tokens; `ParsesTheGrammar` compares their result with a grammar read from right to left of what was written.
  Of the escapes of one letter "n" stands for all that become another character.
- `EditorSide` (*link*, *scenes*, *batch*): one action per method of `McpHeartbeatMonitor`,
  `McpEditorChannelBackend`, `McpUndoRedoWrapper` and `McpTransactionManager`.

## Runs

| run | expected | what it shows | size |
|---|---|---|---|
| `client_ws` | pass | safety of the WebSocket client with token, heartbeat, reconnection, patient caller | 739 thousand states |
| `client_contract` | pass | the UDP client, with lost and overtaking datagrams and a careless caller, implements `RpcChannel` | 441 thousand |
| `client_live` | pass | it reconnects, and every attempt ends, after at most three faults | 10 thousand |
| `client_deadline` | violation | a stale heartbeat deadline drops a healthy link | |
| `client_disconnect` | violation | `disconnect()` does not stop an attempt in progress | |
| `txn` | pass | what clients are told, what the executor believes and what the editor did agree; no orphan | 82 thousand |
| `txn_flag` | violation | `hasOpenTransaction` is false with a transaction active | |
| `registry` | pass | one active workspace, no duplicates, the file up to date when calls do not overlap | 3.6 million |
| `server` | pass | calls through either front: answers and log say what happened and are final, the bridge keeps its order, only exposed tools start, everybody is answered, the unlocked modules follow the files | 269 thousand |
| `workbench` | pass | the parts of `Workbench`, one property or two for each | 243 thousand |
| `registry_durable` | violation | a mutation returns that the file does not hold | |
| `files_shared` | violation | two calls of one process share a temporary file, and `project.godot` is empty for its readers | |

Bounds. Clients: three to five sockets (so a socket, its replacement and the one after), two or
three faults, two calls of `connect()`, five to seven request ids (of which `ReservedIds` are kept
for handshakes in the liveness run, so that the bound on ids never blocks a reconnection),
heartbeats every unit with a timeout of three as in the defaults (10 s and 30 s), and a
schedule of two delays, enough to advance and to saturate. An action that runs out of a bound is
disabled: this can hide long behaviours but adds none, and the theorems below do not depend on
the bounds. Transactions: three or four calls, two transactions and two faults, the least in
which two begins overlap and one of them is lost. Registry: two callers, three ids and roots and a
limit of two, so that the limit and both kinds of duplicate are reached; the clock stands
still, so ties of `registered_at` are resolved by the order of the Map. Symmetry is used
only in runs without liveness.

Server: two calls (or frames), the least in which one is late and the other follows; tools with and without
schema, factory and license, one of them twice in the file; one license file edited once, because a poll
compares one file at a time, and one failing readdir, stat or readFile. Workbench: two processes and two ports,
with one request or child each, the second process headless beside command lines of at most one word; three
lines of log on three days with a lookback of two and a limit of two; a window of three samples; three calls on
one file, at most two of them of one process or of one kind of process, with one failure of a system call; files
of up to three lines and two updates, with a key that is refused and a line that is read as another among them;
two calls of check_compatibility; documents of up to three lines with one line added and two removed, which has
a section before, after, inside and instead of another; two runs of the installer; every tool with every value
of one field; literals of up to three tokens after a beginning that already nests; six pings with a limit of
three misses, two scenes and five edits, two transactions.

Deadlock checking is off where the modelled system may stop: every call made and answered, or
the client disconnected. `registry` checks it.

Fairness (`FairSpec`). Clients: timers that are due fire, awaits complete, `close` events are delivered, a
stopped peer eventually starts, and a peer that is up answers what it received: all of these are properties of
the event loop, the operating system and the peer, and none is assumed of the user or of faults, which are only
bounded. The liveness run is for WebSockets: over UDP a lost handshake leaves `connectOnce()` pending for ever
(there is no timeout per request), so `AttemptEnds` is not claimed there. Transactions: timers fire, the editor
handles its queue, replies arrive and a lost link comes back; clients need not do anything. Server: the router's
timers fire, the promises of file operations in the license watch settle, and the loop of `drain()` goes on;
tools need not end, which is the point of `EverybodyAnswered`. Boot: the steps of a process and the answers to
requests it has accepted happen (`BootStep`); signals, requests and the end of stdin need not, and neither must
a child of the CLI channel end, which has no timeout and is never killed: `ShutdownEnds` is for processes whose
children come to an end.

## Where code and comments disagree

The five violation runs state something a comment says. `PROJECT.json` quotes the lines.

1. `client_deadline`: a heartbeat answered after the next one was sent leaves its deadline armed,
   and it drops the connection later although every later heartbeat was answered.
   `PromptPeerKept` is what remains true: a peer that answers each heartbeat before the next is
   sent is never dropped.
2. `client_disconnect`: after `disconnect()` during an attempt, the attempt connects.
   `QuietAfterDisconnect` remains: no reconnect timer survives.
3. `txn_flag`: two begins overlap (also through the serial bridge, after a router timeout); closing
   one clears the flag. `FlagNotStuck` remains: the flag is never set without a transaction.
4. `registry_durable`: overlapping writes are not queued, an older snapshot may replace a newer.
   `DurableInTurn` remains: calls made one after the other are durable.
5. `files_shared`: `atomicWriteFile()` promises its readers whole files and names its temporary file after the
   process; a second call of the same process truncates it, and the rename of the first publishes that.
   `ReadersSeeWhole` remains: as long as no temporary file is shared and the editor does not write in place.

Seen while modelling, without a run: the header of the clients says a failed handshake
disconnects, but an attempt made by the reconnect timer retries; `errorFromException()` in the router
maps the executor's own error codes (-32004, -32007), and every numeric code of a tool, to -32603; a
registration repeated after a failed write succeeds without writing. Further, by module:

- `CrossTransactions`: `extractTransactionId()` takes finite numbers only (`cross_executor.ts:311`), while the
  schema (`refactor_batch_schemas.ts:212`) and the editor (`transaction_manager.gd:142`) have strings. Every begin
  of the repository's own editor fails in the executor, and its transaction stays open in the editor.
- `Dispatch`: a CLI tool without a handler answers -32603, although `CliExecutor` throws -32601 for
  it. A line of the log that cannot be written makes `dispatch()` reject although the tool ran.
- `StdioBridge`: notifications are answered, with the id null; after `stop()` the queue is still executed
  and only the replies are dropped.
- `LicenseWatch`: the comment at `startup.ts:266` says that the listener never blocks the polling loop, but
  the loop awaits it. A change between the load and the first snapshot is never seen. A key file that `stat()` or
  `readFile()` cannot read for a passing reason during a load is skipped, and a directory that `readdir()` cannot
  read is taken for empty: the unlocked set is wrong until the next change. `LicensesFollow` excepts these.
- `ServerBoot`: `index.ts` says that the headless mode blocks until a signal; without an endpoint nothing keeps
  the process alive and it exits at once. In stdio mode main() returns 0 after a signal, which calls no
  `process.exit()` (`index.ts:500-506`): a Godot child in progress, which has neither timeout nor kill
  (`spawn_godot.ts:45-69`), keeps the process alive until it ends or a second signal comes. `--license-dir
  --stdio` takes the second flag as a directory. Two processes may find the same port free, and the second fails
  to listen. `stop()` leaves the port in the file, and a `start()` that fails to write the file leaves the
  listener.
- `Observability`: the header of `health_endpoint.ts` (lines 17-19) has /trace return the "last 100 JSONL
  entries"; line 367 keeps the first hundred of the days looked at, so of a long trace the oldest part. Which end
  is cut is therefore not claimed: the reply is a stretch of the story.
- `ProjectFiles`: the comment at `atomic_writer.ts:21-24` has the temporary file removed on any failure after it
  exists; a failed write or fsync (lines 43-48) leaves it, and so `NoOrphans` names `updateSettings()` among those
  who leave one. The editor writes the active-port file in place (`websocket_server.gd:231`), so its readers may
  find it truncated. `modules_state` has the temporary names of `atomic_writer.ts`, with the same effect.
- `GodotIni`: `godot_ini.ts:2-5` has the file survive "byte-exact" a round trip without changes. The first write
  drops the comments inside sections and the blank lines between keys, and puts a blank line after each header;
  `OrderKept` is what holds of it too. Keys that `KEY_RE` refuses (nothing after the slash, a first
  digit, a space) are accepted by `update_settings` and make the file unreadable for later calls; a key with "="
  in it, a section with "]" and a value that spans lines are read as something else. Section names with a slash are
  not found again; a section without keys gains a blank line at every write.
- `ModuleTools`: the version of the core is looked up once and kept for the life of the process.
- `PreCommit`: the comments at `pre-commit.ts:255-257` and 269-272 say that a pure deletion cannot overlap a
  section. Its range ends one line before it starts, and the comparison of line 190 finds that such a range
  overlaps a section of at least two lines when it lies below a line other than the heading: these deletions
  count as changes, one right after the last line too. Those right below a heading do not. `HookInstaller`: a
  hook that `stat()` cannot look at is taken for none and overwritten.
- `ToolArguments`: the fields in `Astray` are known to the implementation by other names, not at all, or not
  with every value: `owner` of the inventory tools; `html` and `dot` of the visualizer, which are answered as json
  without an error; its `port`, ignored when it listens already (`visualizer_tools.gd:47-54`); `rect` of
  tilemap.fill_rect, an object in the schema (`theme_ui_tilemap_schemas.ts:185`) and an array of four in the handler
  (`tilemap_tools.gd:13-16`); `layers` of navigation.configure_layers, an object or a list; the noise type `value`,
  taken for another, and the seed 0, for none. Six tools (`Uncallable`) require a field that their schema does not
  allow, and the fields in `Strict` are refused for values it accepts. The capacities -1 (for no limit) and 0 that
  inventory.set_capacity reads are let through by no schema. The qualities of scene3d and navigation tools go
  on as they are, also those the documentation does not list. `profiles.json` lists 32 tools of the editor
  channel that no handler there implements; results have other fields than the output schemas, which nothing reads.
- `TypeParser`: its header says that the dispatcher forwards its errors; nothing in the server uses it.
- `EditorSide`: `start()` after a lost connection reports it lost again at once, unless the last ping is
  answered after all. A rollback calls the undo of operations that were never performed, so it
  overwrites what others changed in between. Without an `EditorUndoRedoManager` changes are reported as
  wrapped or committed and not performed. An operation with the id of a transaction that is over is
  performed at once.

## Proofs

`tlapm` proves the theorems below, each for every value of the constants; a property of a run stands
in brackets where the theorem states it.

| module | theorem | statement |
|---|---|---|
| `ChannelClientProofs` | `TypeCorrect` [`TypeOK`] | types, for every caller; the backoff index stays in the schedule |
| | `ClientImplements` [`Implements`] | the client implements `RpcChannel`, whoever calls it and whatever fails |
| | `OneAtATime` [`Exclusive`] | a patient caller never gets two connections, attempts or timers |
| | `NothingOwedToADeadSocket` [`PendingOnSocket`] | pending requests are on the current socket |
| | `GateHolds` [`AuthGate`] | no request before the handshake |
| | `LoopSound` [`LoopAlive`], `DisconnectIsQuiet` [`QuietAfterDisconnect`] | the reconnect loop neither dies nor outlives `disconnect()` |
| | `PromptPeersAreKept` [`PromptPeerKept`] | no stale deadline drops a peer that answers in time, for all intervals and timeouts |
| | `NobodyWaitsOnADeadLink` | whoever implements `RpcChannel` leaves no request waiting on a link that is down |
| `CrossTransactionsProofs` | `TypeCorrect` [`TypeOK`] | types; the editor hands out no more ids than begins were sent |
| | `NeverLockedOut` [`FlagNotStuck`] | the executor never refuses every begin |
| | `ActiveTransactionsExist` [`ActiveIsOpen`] | what a client may finish is open in the editor, unless that was restarted |
| | `TimeoutIsFinal` [`ExpiredNotCommitted`] | what was reported as timed out is never committed |
| | `ResultsAreTrue` [`ResultIsTrue`] | a success has happened in the editor |
| `ProjectProofs` | `TypeCorrect` [`TypeOK`] | types; lists are sorted |
| | `OneIsActive` [`OneActive`], `NothingTwice` [`NoDuplicates`] | one active workspace, ids and roots once, in memory and in the file |
| | `ReturnedIsDurable` [`DurableInTurn`] | mutations in turn are in the file when they have returned |
| | `SettingsAreKept` [`SettingsHold`] | for files and patches of any length: a written file can be read exactly if no key was set that `KEY_RE` refuses; then what update_settings set is what get_settings reads (of sections without a slash), nothing moves, and from the second write on a change of values touches no other line. After a line that is read as another nothing is claimed |
| `McpServerProofs` | `TypeCorrect` [`ServerTypeOK`] | types of catalogue, requests, bridge and licenses |
| | `ClientsAreTold` [`AnswerTells`], `LogIsComplete` [`LogTells`] | clients and the log are told what happened |
| | `AnswersAreFinal` [`AnswerFinal`] | a late result or timer changes no answer |
| | `OrderIsKept` [`BridgeKeepsOrder`] | replies leave in the order of the frames, for any stream |
| | `ExposureIsKept` [`ExposureHolds`] | only exposed tools start, and the list keeps its word |
| `PartsProofs` | `StaleSectionsAreStopped` | `HookStopsStale`, for documents of any length and any edits: a commit passes exactly if every section asked for has a new line or lost lines below a line other than its heading, and none of these is as in HEAD |
| | `NoHookIsLost`, `SuccessIsTold` | `UserHooksKept` and `SuccessMeansInstalled`, for any failed, killed and repeated installations |
| | `OneProcess`, `VerdictsAreTrue` [`CompatibilityTold`] | one git process for all checks, and true verdicts |
| | `FilesSurvive` [`FilesKept`] | what readers see and errors leave while no temporary file is shared, and what calls in turn keep |
| | `PortsAreServed` [`PortsServed`] | the file names a listener, and not all fail for want of a port |
| | `OptionsAreMeant` [`OptionsMeanWhatTheySay`] | `parseCliArgs` does what a declarative reading of the command line says, for words and tables of any length |
| | `EditorBooksAreKept` [`EditorKeepsBooks`] | misses are the pings in a row without an answer, a scene's text is its edits that stand, rollback and undo take back their own changes unless others made some in between, for any numbers of them |
| | `ObservationsAreTrue` [`ObservationsTrue`] | if all files could be read the reply is a stretch of the trace, in order and cut only by the limit; sum and percentiles are those of the window, for logs and windows of any length |
| `WorkbenchProofs` | `HooksKeepGuard` [`HooksGuard`], `EditorKeepsItsBooks` [`EditorKeepsBooks`], `WorkbenchTellsTheTruth` [`ObservationsTrue`], `PartsKeepTheirPromises` | the same in the workbench, where the parts stand beside each other |
| | `TypesAreKept` [`WorkbenchTypeOK`] | types, of every part but the settings file and the parser of literals |

**Assumptions.** The named assumptions of the modules (types of the constants, a schedule that is not empty, a
heartbeat timeout longer than the interval, versions that are sequences of numbers, command lines that are
sequences of words, entries of a patch whose header and key line are lines a file can have or lines that are
misread) and, where the table says so, a patient caller. The bounds of the runs (sockets, ids, faults, frames,
writers, servers, lines) are arbitrary numbers in the theorems. `Spec`, `BootSpec`, `FilesSpec` and the others
of single parts are of the part alone; `PartsRun` shows that a behaviour of `WorkbenchSpec` is one of each, of
`IniSpec` too, so that `SettingsAreKept` speaks of the workbench as well.

**Inductive invariants.** Few of the properties are inductive alone (`FlagNotStuck` is). What is added:

- `PInv`: a late `close` event is harmless because of which sockets still have listeners, and the
  current one is neither unused nor destroyed; that the loop stays alive needs the link between the phase
  of an attempt, who awaits it, and the timers. `BeatInv`: as long as no heartbeat was missed, the only
  armed deadline is the latest one, its heartbeat is in flight on a live connection, and a ticker fires
  before it.
- `PromiseInv`, for the refinement: a request of the user is pending exactly as long as its `outcome`
  is open. Every step is then a step of `RpcChannel` or changes neither `connected` nor `outcome`.
- `TxInv`: which call, request and reply belongs to which id, that each waiting call has one message on
  its way, and a count: ids handed out are at most the begins sent.
- `RegistryInv`: the Map, the file and the snapshot that each call is about to write are consistent
  (ids and roots once, sorted, the active one among them). While nothing disturbs them, one mutation at a
  time is in flight, and its snapshot, or else the file, equals the Map.
- `ServerInv`: each call is fresh, refused, at work, or ended with an answer that its work and its log allow;
  listed names are within what was allowed; the queue holds frames in order, after every frame that a call was
  made of. The order of frames is that of `Ascending`; that a set of numbers has one increasing enumeration
  (`AscendingProofs`) is proved by the least counterexample, since the induction theorems of the library take an
  operator.
- `InstallInv`: the name of the next backup is free, what is truncated is no hook of the user, and the
  hooks of the plan before the one at work are whole. `GitInv`: a promise in the cache stands for exactly
  one process. `VerdictInv`: every version that a verdict names was described, or asked for.
- `FilesInv`: each call writes to an inode of its own, no two paths name the same one, and a temporary
  file that was not shared holds what its call has seen. `BootInv`: a port in use belongs to the process
  that tries or serves it, and whoever was turned away left somebody there.
- `CommitInv`: what is left of the committed document is in its old order with its old text. A
  touched section has changed because otherwise every old line of it would be in its place and no hunk could
  meet it. A hunk that meets a section either has new lines, one of which is in it, or is a deletion below a line
  of it that is not the heading, and the other way round.

- `EditorInv`: the count of misses is that of the row of pings before the last one; the undo stack of a scene
  holds each text its edits went through; whatever nobody has touched since an operation was queued still has the
  value that undoing it would give, and so has each action in the history what it found.
- `ObservedInv`: a later line of a file, or a line of a later day's file, was written later; what a request has
  gathered is the lines of the days it has read; the running sum is that of the window.
- `IniInv`: once written, the file is `serializeGodotIni()` of one whose sections and keys are there once, it can be
  read exactly if no key was set that `KEY_RE` refuses, and `settings` is what it says, all as long as no line was
  written that is read as another. The lemma that carries it (`FileRead`) is
  that parsing what was serialised gives the same file, but for a blank line more in sections without keys.

What a fold computes is proved without the library's induction theorems. `FoldLemmas` has an operator as its
CONSTANT: for each operator it is instantiated with, it shows by the least counterexample that `FoldLeft` goes by
steps, one per element. What `parseCliArgs` has after the words of a prefix (`CutSoFar`, and `SoFar` for the flags
it was cut into), what a file is after some of its lines and what a patch has done after some of its entries are
then ordinary inductive statements.

TLC checked `FilesInv`, `BootInv` and `CommitInv` on small instances before they were proved; of the others
it checks the properties in the runs. Each theorem follows from its invariant.

**What the proofs changed in the models.** The registry's active id is `None` whenever it names nobody, in the
file too: the first version of `OneActive` did not say so and was not inductive. The names `Nobody`,
`Target` and the constants they must differ from are named apart in the assumptions, and the limits of the
registry start at 1. `SerialUnlessGivenUp` speaks of frames of the bridge only. `VerdictTrue` compares versions
number by number; before, it folded them into one number, which was right only below a bound. What was written
with `SelectSeq`, `SelectInSeq`, `SelectLast` or `SetToSortSeq` and is proved about is written with sets of
positions now, in `Observability` the filters and the sort too, and `settings` of `GodotIni` as a function with
its domain written out. `CommitTypeOK` bounds a line's place by the length of its own file. `ModuleIds` may not
be empty: without a module there is no argument for check_compatibility to have.

**Only model-checked.** All liveness (`EverybodyAnswered`, `LicensesFollow`, `ShutdownEnds`, the properties of
`client_live`, `NoOrphan`), which like `ENABLED` is out of the prover's reach. `ParsesTheGrammar`, and with it the
results that `WorkbenchTypeOK` gives the parser of literals: the parser and its grammar are recursive functions that
compute their own next place, and what these are for every input needs induction over data. `ArgumentsArrive`: it is
about the tables of this repository's tools, which are finite, and the run goes through all of them. The part of
`WorkbenchTypeOK` about the settings file is inside `IniInv` instead; `ProjectProofs` and `Workbench` cannot be
extended together, as both have names of their own for the same things.

## Plan

Modelled in this order: channel clients over `RpcChannel`, transactions, registry; then the server's
requests (`McpServer`), and what stands beside a session (`Workbench`). Proved in the same order, the settings
file last. What would come next:

1. An abstract specification of a file that is replaced at once, which `ProjectFiles` implements while no
   temporary file is shared. `FilesSurvive` states what readers, errors and calls in turn see of it.
2. `ParsesTheGrammar`, by the least place at which parser and grammar would differ, as the lemmas about folds are
   proved.

## Not modelled

- What child processes of CLI tools do, key formats and the license service, the polling of sockets in the
  runtime bridge, the visualizer and the update checker: plain I/O, whose failures appear in the models
  as errors of the caller.
- What tools do to scenes, animations, tiles and other objects of the engine: their arguments are modelled,
  the engine is not in this repository.
- Event bus and manifest loader: signals of the engine, and a loader that runs once at startup.
- Workspace resolution and channels: lookups, and a pool of ports that no module of the server uses.
- Self-healing: a counter per path and pure functions over reports.
- The tools of the RPG modules: only their schemas are here.

`PROJECT.json` lists every component with its reason, and every hazard with the properties that cover it.
