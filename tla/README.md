# errbot, specified

TLA+ specifications of the core of [errbot](https://errbot.io), the TLC runs that
model-check them on small instances, and theorems about them that the TLA+ proof system
(tlapm) checks for every value of the constants. Every definition is translated from the
Python source under `errbot/`; `PROJECT.json` maps each one to its lines.

Contents: [the system](#the-system), [hard behaviours](#what-is-hard-here),
[modules](#the-modules), [runs](#the-runs), [fairness](#fairness), [proofs](#proofs),
[findings](#findings), [limits](#what-is-not-modelled), [plan](#plan).

## The system

errbot is one process. A *backend* (IRC, XMPP, Telegram, a terminal) delivers messages in
one thread; everything else hangs off that thread, off two thread pools and off timers.

| Component | State | Operations | Interacts with |
|---|---|---|---|
| Connection loop (`backends/base.py`, `serve_forever`) | reconnection delay and count | serve_once, wait, again; shutdown | calls `connect_callback` and `disconnect_callback` of the core, which activate and deactivate all plugins |
| Command dispatcher (`core.py`) | `commands`, `re_commands`, `command_filters`, `cmd_history`, `thread_pool` | `process_message`, `_process_command`, `_execute_and_send`, `inject_*`, `remove_*` | hands commands to the pool, asks the filters of plugins, calls `FlowExecutor.trigger` after a success |
| Flow executor (`flow.py`, `core_plugins/flows.py`) | `flow_roots`, `in_flight` (under a lock), the step and context of each `Flow`, a pool of 5 threads | `trigger`, `start_flow`, `stop_flow`, `execute`; `!flows start/stop/kill` | called from the command pool; runs commands of automatic steps in its own threads |
| Plugin manager (`plugin_manager.py`) | the plugins and their `is_activated`, the stored configurations and blacklist | `activate_plugin`, `deactivate_plugin`, `reload_plugin_by_name`, `activate_non_started_plugins`, ... | called by the connection callbacks (on IRC in a thread of each welcome) and by admin commands; calls methods of plugins, which may raise |
| Plugin commands (`core_plugins/plugins.py`) | none | `!plugin activate/deactivate/reload/config/blacklist/unblacklist`, `!repos ...` | admin commands, hence run alone by the dispatcher, but on IRC beside a boot |
| Plugin base (`botplugin.py`) | `is_activated`, `config`, the store, pollers and timers | `activate`, `deactivate`, `configure`, `start_poller`, `stop_poller`, `poller` | registers commands and filters with the core; timers run in threads of their own |
| Storage (`storage/`) | a dictionary per namespace | open, close, get, set, `mutable` | the core, the managers and every plugin |
| Repository manager (`repo_manager.py`) | installed repositories, the index | install, update, uninstall | git, the file system, the plugin manager |
| Rooms and chat backends (`core_plugins/chatRoom.py`, `backends/irc.py`, `xmpp.py`, `test.py`, `text.py`, `telegram_messenger.py`) | the rooms known and joined, the timers of kicks, the DCC transfers, the offset of the updates | the events of the server, join, leave, create, destroy, topic, relays | events on a thread of the library, commands on the pool, the callbacks of plugins on either |
| Streams (`streaming.py`) | a pipe and a `Stream` per client | `Tee.run` | one writer thread, one thread per client plugin |
| Web server (`core_plugins/webserver.py`) | `server`, `server_thread` | activate, deactivate, `run_server` | a thread beside the plugin's life cycle |
| Access control (`core_plugins/acls.py`, `cnf_filter.py`, `help.py`) | the configuration, the tags of the commands | a decision per message | a command filter; the help asks it in a dry run |
| Replies (`core.py`, `utils.py`) | none | `build_reply`, `prefix_groupchat_reply`, `send`, `split_and_send_message`, `send_card`, `warn_admins` | commands on any thread; the backend sends |
| Templates (`templating.py`) | the search path, the loaders | `add_plugin_templates_path`, `remove_plugin_templates_path` | activation and deactivation of plugins |
| Rendering, bootstrap, CLI | | formatting, start-up | |

What makes each correct:

* **Dispatcher**: an admin command never overlaps another command of the pool; what was
  found is still there when it is executed; the history is what `!!` and `!<n>` count on; the only thread that reads messages always
  comes back.
* **Flow executor**: a conversation follows its graph, belongs to its requestor, is in
  flight once, never gets lost between the two pools, and comes back once stopped only
  through a command that held it; an execution returns its thread.
* **Plugin manager**: a plugin is active only with its dependencies and with the
  configuration that is stored for it; a cycle is neither activated nor an endless
  recursion; the blacklist is obeyed; a crash at any point leaves something the next boot
  can start from.
* **Pollers**: one chain of timers per poller, none after deactivation. **Streams**: a
  client that fails does not disturb the others, every stream reaches a final status.
  **Repositories**: the record, the files and the loaded plugins agree. **Web server**: no
  server without an active plugin. **Storage**: what was set is read back.
* **Backends**: an update is handled once over reconnections and crashes, rooms come back
  after kicks and lost connections, a reply reaches whom it is for. **Access**: what runs
  is what the configuration allows, whatever was asked before. **Templates**: an active
  plugin finds its own.

## What is hard here

`PROJECT.json` lists each hazard at its line, under "hazards". In short:

* two pools work on the same `Flow` objects; only `in_flight` has a lock, and the lock is
  released between a check and its consequence (`trigger`, `start_flow`, `_enqueue_flow`);
* the dispatcher looks a command up, waits, and the pool looks it up again; admin commands
  and disconnections change the registry in between;
* the dispatcher thread blocks on the pool (`join`, `result.wait`);
* on IRC the plugins are activated in a thread beside the one that dispatches admin
  commands and disconnections;
* plugin methods raise at any point of a recursive activation, and the process may die
  between storing a configuration and restarting the plugin with it;
* timers outlive what started them: a stopped poller can be started again before its old
  timer fires, and a deactivation walks a list that firing timers shorten, while commands
  that still run start pollers;
* a client of a stream leaves while the writer holds its pipe, or the stream itself fails;
* `mutable` reads, yields and writes back with no lock;
* the web server's thread creates the server that a deactivation looks for;
* an installation of a repository downloads, records, loads and activates, and may stop
  half way through the download, or crash after each;
* a plain and a regex command may have one name, and the filters know them by name;
* the IRC backend keeps its rooms in a dictionary that a lost connection replaces while
  timers, commands and the threads of older connections still add to it;
* XMPP and test rooms check, then act, on objects that others change in between;
* an update of Telegram is stored as seen before it is handled.

## The modules

### FlowExecutor

State: `root`, `requestor` and `step` are the attributes of each `Flow` object (its
`_current_step` is `step`); `in_flight` is the list of the executor, `pool` the tasks of
its thread pool. `worker[w]` says where command thread `w` is in `trigger`, `start_flow`
or `flows_stop`; `exec[e]` where executor thread `e` is in `execute`, with the node its
two reads of the current step have shown (`at`) and the automatic steps that are left in
the round (`todo`). `told`, `stopped`, `held` and `beside` record what the properties speak
about: whether `execute` has sent hints, or died, since the last step, which flows
`stop_flow` has returned, which of them a command had in hand then, and which flows other
command threads had in hand when a flow was created.

One action is what a thread does between two places where another thread can come in:

| Code | Actions |
|---|---|
| `trigger` | `CommandDone`, `TriggerInFlight` / `TriggerNoInFlight`, `TriggerNew` / `TriggerNothing`, `TriggerAdvance` |
| `_enqueue_flow` | `Enqueue` (the locked part), `Submit` |
| `start_flow` | `StartFlow` |
| `stop_flow`, `flows_stop`, `flows_kill` | `StopFlow`, `StopAll`, `StopAllNext` (the loop looks at the next flow, without the lock), `StopAllOne` (it is stopped), `StopAllDone` |
| `execute` | `Take`, `ReadAutosteps`, `ReadSteps`, `SendHints` / `Spin`, `RunAutostep`, `CheckAutostep`, `AdvanceAutostep`, `RemoveFlow` |

`StartFlow` joins the check of `start_flow` with the creation of the flow: nothing that
others see happens between them, and the flow becomes visible with `Enqueue`. The context
of a conversation is a dictionary that commands change and predicates read: a predicate of
the plugin (`AutoEdges`) therefore answers anything each time, and the default one answers
False. Exceptions that kill a task of the pool, which nobody looks at, are modelled where
the code raises them (`CheckAutostep`, a hint for `FLOW_END`, a second removal).

### CommandExclusion and Dispatch

`CommandExclusion` is what the comments of `_process_command` promise: the bot is idle,
shared by ordinary commands, or has one admin command alone. `Dispatch` is the code:
`disp` is where the backend's thread is in `process_message`; `queue` and `worker` are
`thread_pool`; `registry` stands for `commands` and `re_commands`; `history` for
`cmd_history`; `flow` for commands that threads of the flow executor run; `passed` is how
many filters the command in hand has passed. A task records whether the bot has been
disconnected since it was accepted (`undisturbed`). `ImplementsExclusion` is the refinement: `Mode` computes the abstract
mode from the tasks that are outstanding.

| Code | Actions |
|---|---|
| `process_message` | `ReceiveCommand`, `Recall` (`!!`, `!<n>`), `ReceiveText` and `NextMatch` (regex commands) |
| `_process_command_filters` | `FilterAccepts`, `FilterBlocks` (returns None, or raises) |
| `_process_command` | `StartCommand` / `StartUnknown`, `JoinPool`, `ArgsError`, `Submit`, `WaitResult` |
| `_execute_and_send` | `Take`, `Lookup`, `Finish` |
| `serve_forever` and callbacks | `LoseConnection`, `Disconnect`, `Unregister`, `Reconnect`, `Register`, `Connected` |
| `FlowExecutor.execute` | `BeginAutostep`, `EndAutostep` |

An admin command may change the registry in any way when it ends (`Finish`).

### PluginManager

`active` is `is_activated`, `live` is `plugin.config`, `config` and `blacklist` are in the
store. `op` is the operation that the running thread is at. Most backends boot in the
thread that dispatches commands, so there is one operation at a time (`Welcomes = {}`). The
IRC backend starts a thread for every welcome, which boots while the reactor goes on with
admin commands, disconnections and further welcomes: `aside` holds the other threads (each
with all of the variables of a call), and `Switch` lets one of them run. It may come between
any two steps, so what one thread has read another may change before it is used. Commands
and disconnections start only on the dispatching thread, while no other of its operations
runs (`Dispatching`). `lost` and `banned` record, for an activation, which plugins another
thread has deactivated or blacklisted since it began, `raced` which plugins were last
configured beside a boot. `DepsDoneTwice` and `EnterActive` are the exceptions for a plugin
that another thread has activated first. The recursion of
`_activate_plugin_dependencies` is explicit: `top` is the plugin whose frame is innermost,
`frame` holds each frame's next dependency and its caller, `track` is `dep_track`. Methods
of plugins may raise: `ConfigureRaises`, `ActivateRaises`, `CallbackConnectRaises`, and,
for the plugins in `Stubborn`, `deactivate`. A core plugin that `CORE_PLUGINS` leaves out
(`Excluded`) is not `Loaded`, so depending on it is depending on an unknown one. `Silent` plugins return from `activate`
without the inherited one, as VersionChecker, Webserver and TextModeCmds do. `Crash` ends
the process between any two steps; what is stored remains.

`BootActivate` takes the plugins in any order that starts dependencies first, members of a
cycle at any time and possibly twice (`BootCycles`), which covers
`get_plugins_activation_order`.

### Poller

One plugin's pollers. `pollers` counts each entry of `current_pollers`, `timers` is
`current_timers`, `chain[c]` is one chain of timers: `armed`, `fired` (its thread runs),
past the removal from the list (`checks`) or `calling` the method. Each read or write of the
two lists is a step. Nothing here looks at `is_activated`: commands of the pool and polled
methods may start and stop a poller while `deactivate` walks the timers (`sweep` is its
position) and after it. A cancelled timer stays in the list in the source; nothing looks at
it any more, so the model takes it out and stays at its place. `cut` holds the pollers that
were started during the walk and whose only timer it then cancelled. A plugin's
deactivations do not overlap each other.

| Code | Actions |
|---|---|
| `start_poller`, `stop_poller` | `StartPoller`, `StopPoller` |
| `poller`, `program_next_poll` | `TimerFires`, `PollerStarts` (out of the list), `PollerChecks`, `PollerReturns` |
| `deactivate` | `PluginDown` (the list of pollers is emptied), `CancelNext` (one turn of the loop over the timers, by index, since a timer that starts shortens the list under it and then the next is passed over), `SweepEnds` |

### Storage

`StoreMixin` over a memory or a shelf store. `store` holds what is open, `saved` what a
shelf left on disk; in a memory store a value is a reference into `heap`, because `get`
returns the object itself. Sections `with self.mutable(key)` are `Enter`, then `Leave` or
`Raise`; `OpenStorage` and `CloseStorage` come with the plugin's life cycle; `ProcessDies`
keeps what a shelf has written. `overlapped` remembers the sections that ran beside
another one on their key, which the property leaves out.

### Tee

`transfer` is the thread of `Tee.run`, `piped` the chunks in each pipe, `reader` where the
thread of each client is, `status` that of its `Stream`. `kindOf` says what a client's
`callback_stream` does: read to the end, read some, reject, crash, return without an
answer. `source` is the incoming stream, which may be closed early or fail at any time
(`SourceFails`): `CheckClosed` takes a closed one for the end of the stream, and a `read` that
raises (`ReadChunk`, of a stream that failed or was closed since the check) ends the
transfer thread. `FetchPipe` and `WriteChunk` are separate since a client may close its
pipe in between (`Vanish`, `CloseEnds`); the write then ends the transfer thread as well.

### WebServer

The server's thread (`MakeServer`, `Serve`, `StopServing`) against `ActivateWeb`,
`DeactivateWeb`, `ShutdownReturns` and `JoinThread`. A server is named by the start it
belongs to, because `self.server` is never cleared.

The webhooks of a plugin are those of the version of its code (`Webhooks(p, v)`), and
`ReloadHooks` takes the next version. `route` goes through them one at a time (`routing`):
`ChangeRule` gives an existing rule the new view and returns, `AddRule` adds a rule.
`AddRuleRaises` is Flask's refusal of an endpoint that has another view already (the rule is
in the map by then) and of any rule after the first request (`FirstRequest`), which fails
the activation. `rules` is which endpoint each URI is mapped to, `view` which method of
which object answers for an endpoint, `partly` remembers the plugins whose routing raised
half way. The routings of different plugins interleave; a plugin is not deactivated while
its own is going on.

### Templates

`templatePath` counts the occurrences of each directory, `pluginTemplates` the loaders by
name, `env` what the environment was made from. `TemplatedActivation`, `ActivationRaises`,
`ConnectRaises`, `TemplatedDeactivation`.

### Connection

`serve_forever` and the loops in it: `phase` is where it is. For Telegram `Connect`,
`ConnectCallback`, `GetUpdates`, `TakeUpdate`, `HandleUpdate`, `StreamFails`,
`DisconnectCallback`, `DelayReconnect`, `Shutdown`; for the text and test backends
`ConsoleEntry` and `QueueEntry`. `Interrupt` is a KeyboardInterrupt at any step,
`ProcessCrash` the end of the process. `offset` is the local variable, `stored` what
survives.

### IrcRooms, IrcTransfers

`wire` is the events the server has sent and the reactor has not handled; `members` is
what the server knows, `channels` what the library knows, `known` the keys of `_rooms`.
The reactor's handlers are `OnWelcome`, `OnJoin`, `OnEndofnames`, `OnPart`, `OnKick`,
`OnTopic`, `OnDisconnect` with `DeactivateAll`; each welcome starts a thread
(`ActivateNonStarted`, `JoinPresence`, `ListActive`, `SignalConnect`, `WelcomeEnds`) that
may outlive its connection; `KickTimer` is the timer of `on_kick`; `IrcCommand` a room
command, `Others` what other people do. `IrcTransfers` is the sending of a file over DCC:
`RequestTransfer`, `OnDccConnect`, `OnDccMsg` (an acknowledgement), `OnDccDisconnect`.

### XmppRooms, TestRooms

An `XMPPRoom` keeps nothing: `joinedMucs` is the library's, `onOnline` and `onOffline`
count the handlers that `join` registers and `leave` removes. `MucJoin` and `MucLeave` are
the steps of the methods, on pool threads and on the event loop; `Connected`,
`Disconnected` and `MucGone` are sessions and rooms that end. In `TestRooms` each check and
each act of `TestRoom.join`, `leave`, `create`, `destroy` and `topic` is a step (`call[t]`),
and the objects of one name are told apart (`canon`, `bots`). `rivals` and `raced` mark
what ran at the same time, which the properties leave out: no lock prevents it.

### Replies, Access

`Replies` is what the bot says: `SendSimpleReply`, `Send`, `SendCard`, `Relay` and
`WarnAdmins` build the parts (with the `build_reply` of the backend, the prefix and
`split_string_after`), and the four `...SendMessage` actions send them one at a time, on
the sender's thread, or raise. `ReverseRelay` says nothing to anybody, because
`BotPlugin.send` refuses the names it is given. `Unreached` names those whom the code never
speaks to: they, the relayed rooms of Telegram, and the admins after a name that
`build_identifier` refuses (`BuildIdentifierRaises`: Telegram, text and XMPP); only a failure
of the backend to send (`cut`) excuses anybody else. What somebody was told (`Said`) is the concatenation, in
the order of sending, of the parts of a job that go to them. `Access` is who may run what:
`attrs` are the tags that the decorators leave on a method, `Ask` a command with the ACLs
filter, `Help` the dry runs, `AskUnknown` the answer of `cnf_filter`. A plain and a regex
command may share a name (`Names`): `Checked` is the one that `all_commands` finds, whose
attributes and plugin the filter looks at, and not always the one that runs.
`AccessIsAsConfigured` compares the filter's decisions, which go through a dictionary that
is copied and updated, with a reading of the configuration that has no state.

### Repositories

`files` is the copy under the plugin directory, `astray` the archives whose top directory has
another name than the record, `aborted` the repositories whose files a download that failed,
or a crash, left without a record; `recorded` the keys of `INSTALLED_REPOS`,
`infos`, `loaded` and `running` the plugin manager's. The command in progress is `admin`,
since only one runs (see `CommandExclusion`).

| Code | Actions |
|---|---|
| `repos_install` | `InstallStart` (with the index), `Fetch` (`DownloadSucceeds`, or `DownloadFails`, which may leave an empty directory, code that loads or code that does not: `Halfway`), `Record`, `InstallLoad`, `InstallActivate` |
| `repos_uninstall` | `UninstallStart`, `ForgetPlugins`, `DeleteRepo` |
| `repos_update` | `UpdateRepo` |
| bootstrap | `RepoRestart`, after `RepoCrash` |

`Begins(q, r)` is the comparison of paths as text, by which uninstalling `a` also takes the
plugins of `ab`.

### MCFlow, MCDispatch, MCPlugins, MCServices, MCBackends

Instances for TLC: graphs, plugins, rules and model values. `MCServices` (Poller, Storage,
Tee, WebServer, Templates) and `MCBackends` (the others) check several modules in one run.
These components share no state, so `part`, chosen at the start, says which of them moves:
the state space is the sum of theirs and not the product, and no interaction between them
is claimed. Where components do interact, one module has both: the dispatcher with its
pool and the connection callbacks, `IrcRooms` with the callbacks of the core and ChatRoom,
`Repositories` with the plugin manager and the commands, `Access` with the help.

### Proof modules

`SeqLemmas` (what `Append`, `Tail`, `RemoveAt`, `RemoveFirst` and `FlattenSeq` do to
sequences, and two lemmas for what is usually an induction), `FlowExecutor_proofs`,
`FlowTold_proofs`, `Dispatch_proofs`, `PluginManager_proofs`, `Services_proofs` (the modules
of `MCServices`, then the composition), `Rooms_proofs` (`IrcRooms`, `XmppRooms`,
`TestRooms`), `Backends_proofs` (the other modules of `MCBackends`, then the composition).

## The runs

| Run | Expected | Shows |
|---|---|---|
| `flow_concurrent` | pass | 2 command threads, 2 executor threads, a room, a graph with a manual, an automatic and an end edge: no interleaving forgets a waiting flow (`WaitingFlowsAreTold`), lists it twice (`InFlightOnce`), takes it out of its graph (`StaysInGraph`) or lets somebody else move it (`OnlyRequestorAdvances`) |
| `flow_pair` | pass | 2 command threads, one user, 2 flows: a user gets a second flow (`SecondFlowOverlapped`), and a stopped flow comes back (`OnlyHeldFlowsReturn`), only through a command that held a flow meanwhile; `ExecutorsReturn` |
| `flow_stop_race` | violation of `StoppedStaysOut` | the stop that a concurrent trigger undoes |
| `dispatch` | pass | `AdminExclusive`, `NoStaleLookup`, `HistoryDistinct`, `DispatcherReturns`, and the refinement `ImplementsExclusion` |
| `dispatch_autostep` | violation of `AdminAlone` | an automatic step beside an admin command |
| `plugins` | pass | one thread: `CyclicNeverActive`, `OperationsEnd` |
| `plugins_irc` | pass | a boot thread beside the dispatching one: `ActivatedWithDependencies`, `BootSkipsBlacklisted`, `ActiveHasStoredConfig` |
| `plugins_diamond` | violation of `CircularIsReal` | a diamond taken for a cycle |
| `services` | pass | pollers: a registered endless poller is called again and again, a stopped one falls silent (`EndlessPollersKeepPolling`, `StoppedPollersFallSilent`). Storage: changes of sections that ran alone are kept, failed ones leave nothing in a shelf (`MutableSectionsAreAtomic`). Streams: `SuccessIsWhole`, `EveryStreamSettles`. Web server: `DeactivationsEnd`, `WebhooksAnswer`. Templates: `ActivePluginsFindTemplates` |
| `services_transfer` | violation of `JoinedStreamsSettle` | a client that leaves ends the transfer thread, and another one waits for ever |
| `backends` | pass | Telegram updates: `UpdatesAreHandledOnce`; `BackOffGrows`. IRC: no handler misses a room (`ReactorSurvives`), kicked-from and configured rooms are joined again (`RoomsAreRejoined`). XMPP: `ArrivalsAreTold`. Test rooms: `RoomFollowsCommands`. `RepliesReachWhoAsked`, `AccessIsAsConfigured`, `RepositoriesAreRecorded` |
| `irc_transfer` | violation of `TransferedIsWhatWasSent` | after the second chunk `Stream.transfered` is the length of the last one |

Each module's type invariant is checked by one of its passing runs (`flow_pair`,
`dispatch`, `plugins`, `services`, `backends`). Every property has a mutant in
`PROJECT.json`: a plausible slip in one definition (next to it in the module, commented
"Mutant") under which the run finds the property violated.

Bounds, and why they are enough:

* `flow_concurrent`: one `Flow` object, since the races are between threads on the same
  flow; 2 threads of each kind, so that each kind races with itself and the other;
  `MaxPending = 1` task in the executor's queue, with two more being executed: enough for
  the same flow to be executed by two threads while a third run is queued. Threads are
  interchangeable, which the symmetry set uses (only safety is checked).
* `flow_pair`: two command threads and two `Flow` objects for one user, the least that two
  starts side by side need; every command of either may come between, a stop of one flow
  or of all. One executor, and a short graph, in which the flow ends at its only command.
* `dispatch`: one user (histories are independent), two arguments and `MaxHistory = 2`, so
  that the history fills, forgets and repeats; one filter; two pool threads and
  `MaxQueue = 2`, so that tasks wait behind a running one; one command of each kind.
* `plugins`: a diamond a -> b, c with b -> c, a ring d <-> e, and f, which needs a plugin
  that is not installed; one configurable plugin with a good and a bad configuration; a
  silent, a stubborn, an excluded and an incompatible plugin; `MaxBlacklist = 2`; no thread
  beside the first.
* `plugins_irc`: one boot thread beside the dispatching one, a
  plugin b and the configurable c it depends on, two configurations, `MaxBlacklist = 1`: a
  command can fall between any two steps of an activation with one level of recursion, and
  two boots can overlap. The theorems take any number of threads and any dependencies.
* `services`: an endless and a bounded poller (one time) and three chains of timers, so
  that an old chain, a new one and a chain of the other poller live at once, and the loop of
  `deactivate` passes one over. Three sections, two of them on one key, over two reopenings.
  Two clients with every mix of the five kinds, three chunks, pipes of one: the writer
  blocks, a pipe is full, or its reader is gone. Three starts of the server: a deactivation
  can meet the server of the start before, or of the one before that.
  Two plugins in one directory with templates, which can be there three times.
  Three plugins with webhooks in two versions: `ci` keeps its two; a reload of `wiki` finds
  one on another URI, which clashes with the endpoint it has, and a new one; two methods of
  `ops` have one URI once a slash is stripped. What two plugins do to each other is left
  to the theorem, which takes any plugins. `services_transfer` is on the same instance.
* `backends`: three updates and one crash, a maximum delay of 8 with a jitter of 2 (1, 1..3,
  ... reaches the maximum and passes it). Two IRC channels, one in `CHATROOM_PRESENCE`, two
  losses of the connection with two welcome threads, two kicks, topics or commands. Two
  transfers of up to five units in chunks of two. One XMPP room, two threads and the event
  loop, four moves; one test room, two threads and four commands: a create, a join, a leave
  and a destroy in any order. Every backend's replies, two senders with two texts of two
  units, a limit of two, which the prefix makes a text exceed. Six commands, two of one name,
  three rules, one of them hidden behind another. Three repositories, one path beginning with
  another, an archive that needs a dependency, and an archive with another top directory; two
  pushes, one crash.

`CHECK_DEADLOCK FALSE` stands where the bounds, or the system, really stop: all drops, acts
and moves are used up, the bot was shut down, or everything has been answered.

## Fairness

* `FlowExecutor!Fairness`: the threads of both pools keep running (`WF` per thread). They
  are OS threads and nothing holds the lock across a wait. Nobody has to send a command.
  A predicate that is true for ever on a cycle of automatic edges is a program of its own,
  so `ExecutorsReturn` is checked on manual graphs.
* `Dispatch!Fairness`: the dispatcher goes on, and each pool thread takes tasks and
  returns from commands. A command that never returns does block the bot for the next
  admin command: that is the design of `join`.
* `PluginManager!FairSpec`: an operation that has begun goes on, and crashes stop at some
  time; methods of plugins return or raise. `OperationsEnd` is checked for one thread: with
  two, a dispatcher that is given commands for ever may reload for ever what a boot waits for.
* `Poller!PollerFairness`: timers fire, their threads run, a polled method returns (or
  raises, which `poller` logs), the loop of `deactivate` goes on. Nobody has to start or stop.
* `Tee!TeeFairness`: the transfer thread and the thread of each client run; a client's
  `callback_stream` reads or returns. The incoming stream need not fail.
* `WebServer!WebFairness`: the server's thread gets as far as it can, and `shutdown` and
  `join` return when what they wait for has happened.
* `IrcRooms!IrcFairness`: the reactor handles what came in, the threads of `on_welcome` run,
  timers fire. The server does not have to keep the connection, and nobody has to kick.

In all of them fairness is weak and per thread: these are OS threads, and each action it is
about stays enabled until the thread takes it.

## Proofs

TLC looks at the instances above; tlapm proves these for every value of the constants that
satisfies the module's named assumption (`FlowAssumption`, `DispatchAssumption`,
`PluginAssumption`, `ConnectionAssumption`, `ReposAssumption`, `PollerAssumption`,
`StorageAssumption`, `TeeAssumption`, `WebAssumption`, `TemplatesAssumption`,
`IrcAssumption`, `XmppAssumption`, `TestRoomAssumption`, `TransferAssumption`,
`RepliesAssumption`, `AccessAssumption`, and `PartsAssumption` for the composed services). They
say that bounds are natural numbers, which sets
are part of which and what a list holds; where a theorem needs more than that, it says so
itself, and the table repeats it.

Between them the theorems state every safety property of the passing runs.

| Theorem | Module | Argument |
|---|---|---|
| `TypeCorrect` | `FlowExecutor_proofs` | `TypeInv`: beyond the types, what each `pc` says of its record (a thread that is not idle has a created flow, a worker in `advance` has a node to go to, `todo` holds positions of children of `at`). One lemma per thread kind shows that a step leaves the other records alone |
| `InFlightOnceHolds` | `FlowExecutor_proofs` | `Distinct(in_flight)` is inductive: appended only when absent, and `RemoveAt` keeps distinctness (`SeqLemmas`) |
| `OnlyRequestorAdvancesHolds` | `FlowExecutor_proofs` | needs that a worker with a flow was entitled to it when it found it, and that `requestor` never changes after creation (`RequestorFixed`) |
| `SecondFlowOverlappedHolds` | `FlowExecutor_proofs` | for any number of workers: a flow is live when it is in flight or in a worker's hand; a step takes flows out of `Live` or adds a new one whose requestor has no flow in flight (`AddsLive`). `Paired`: two live flows of one user are beside each other, since the older one, not in flight when the younger was created, was then in a hand |
| `OnlyHeldFlowsReturnHolds` | `FlowExecutor_proofs` | for any number of workers, from the same lemma: a flow that was stopped while no worker held it is out of `Live` for good (`StoppedDead`), since a command finds only flows that are in flight |
| `StaysInGraphHolds` | `FlowExecutor_proofs` | for any graph and any threads: the step of a flow, the node a worker heads for and the node an executor has read are reachable from the flow's root (`GraphInv`); `Reach` is the least set that has the root and is closed under children |
| `WaitingFlowsAreToldHolds` | `FlowTold_proofs` | the property is far from inductive: it follows from `NotForgotten`, which says that a flow in flight is queued, carried by a worker or an executor that will look at its step again, or told. The delicate part is an executor that has read a step that has since moved: the trigger that moved it is still on its way to enqueue it. `AutoNeeded` adds that only an automatic step or a hint for `FLOW_END` makes a task die |
| `TypeCorrect` | `Dispatch_proofs` | types, and what each `pc` of the dispatcher and of a pool thread implies for its record |
| `HistoryDistinctHolds` | `Dispatch_proofs` | distinctness through `RemoveAt`, `Tail` and `Append`, and the length through `Push` |
| `AdminExclusiveHolds` | `Dispatch_proofs` | `ExclInv`: if an admin command is outstanding it is the only task and the dispatcher waits; past `JoinPool` with an admin command the pool is idle |
| `ImplementsExclusionHolds` | `Dispatch_proofs` | `ModeShown` gives the mode from the outstanding tasks; each step changes them as `OutstandingStep` says, which is a step of `CommandExclusion` or a stutter |
| `NoStaleLookupHolds` | `Dispatch_proofs` | the registry shrinks only by an admin command, which is alone, or while disconnected, which tasks remember; assumes that no automatic step is an admin command, without which the code breaks it |
| `TypeCorrect` | `PluginManager_proofs` | types, for the running thread and for those aside, with `Stack`: the plugins in `open` have distinct callers in `open`, none is called by `top`, and `dep_track` knows them all. Without it a return could go to a frame that is gone |
| `ActivatedWithDependenciesHolds` | `PluginManager_proofs` | `Ordered`, of every thread: the dependencies a frame has passed are active, silent or lost to another thread, each caller waits for the plugin it called, and past phase `deps` the frame of `top` has passed them all. Whatever deactivates a plugin adds it to `lost` of the others (`AsideOrdered`) |
| `CyclicNeverActiveHolds` | `PluginManager_proofs` | from the same lemma (`NewlyActive`): the first member of the set to become active would need one that was active before (`NeverIn`: none is active and none was ever lost) |
| `BootSkipsBlacklistedHolds` | `PluginManager_proofs` | `BootInv`: in every boot the bottom of the stack is the plugin that the boot has chosen, which is not blacklisted unless it is in `banned` |
| `BlacklistedOnceHolds` | `PluginManager_proofs` | `Distinct(blacklist)` is inductive |
| `ActiveHasStoredConfigHolds` | `PluginManager_proofs` | `ConfigInv`: a plugin that is active, or configured and about to be, has what is stored (`Stored`, `Ready`, also of the threads aside), a plugin that is configured while nobody boots is in no other thread's hands (`Apart`), and the configuration that `plugin_config` takes back is not in use (`Tried`) |
| `ConnectionTypeCorrect` | `Backends_proofs` | types, with sequences of updates: an update that is handled is one there is |
| `UpdatesAreHandledOnceHolds` | `Backends_proofs` | `ConnInv`, inductive only with all its parts: while it serves, the offset in hand is the stored one (`OffsetStored`); the batch goes on from it without a gap (`BatchFollows`); everything handled lies before it (`HandledBefore`); everything before it was handled, lost, or is being handled (`NoneSkipped`). `BrokenOff` is the step that an interrupt and a crash share |
| `BackOffGrowsHolds` | `Backends_proofs` | `NextDelay`: 7d/4 rounded down is at least d, so only the maximum lowers the delay |
| `RepoTypeCorrect` | `Backends_proofs` | types, and that what runs is loaded and what is loaded is known |
| `RepositoriesAreRecordedHolds` | `Backends_proofs` | with `ForgottenFirst`: when `uninstall_repo` removes the record, the repository's plugin has left memory, since its own path begins with itself. `OrphansKept` is the step that adds no code without a record, `FailedDownload` the one that marks what it adds as aborted |
| `PollerTypeCorrect` | `Services_proofs` | `ListedAreIdle`: a timer in the list belongs to a chain that is armed or has just fired, so a chain that puts its next timer there has none, no timer is there twice, and the list is no longer than there are chains (`DistinctLength`, the pigeonhole principle). `TimesAreLeft`: a bounded poller has turns left while its chain lives |
| `StorageTypeCorrect`, `MutableSectionsAreAtomicHolds` | `Services_proofs` | `StorageInv`: of two sections inside on one key both are marked as overlapped (`BothOverlapped`), the value that a section has in hand has what finished alone before it (`InsideKnows`), so writing it back forgets nothing, and what finished alone is in the store (`DoneIsKept`); in a shelf, what is saved is what is open, and has nothing of a section that failed (`ShelfInv`) |
| `TeeTypeCorrect`, `SuccessIsWholeHolds` | `Services_proofs` | a count of chunks per client, read, unread, in the pipe or about to be written: never more than there are (`NoneTwice`), all of them unless the writer died (`NoneLost`), and the pipes are closed after the last, or when the incoming stream was found closed (`EndedLast`); a status is the one its reader gave (`StatusFollows`) |
| `WebTypeCorrect`, `WebhooksAnswerHolds` | `Services_proofs` | `RoutesInv`: a rule has an endpoint with a view (`RulesKnown`); of a plugin that shares nothing the views of its endpoints are its own (`OwnViews`), its first webhook is answered by its object once it is up or past it in `route` (`FirstBegins`), and, with kept webhooks and no routing cut short, all its rules are there or those so far (`AllOrSoFar`) |
| `TemplatesTypeCorrect`, `ActivePluginsFindTemplatesHolds` | `Services_proofs` | the path holds a directory at least as often as plugins of it are active (`EnoughOnPath`): with siblings, a removal takes one occurrence. The environment is the one of the current path and names (`EnvIsCurrent`), which contain those of the active plugins (`NamedWhileActive`) |
| `ServicesTypeCorrect` | `Services_proofs` | `ServicesAreEach`: a behaviour of the composition is one of each module |
| `IrcTypeCorrect`, `ReactorSurvivesHolds` | `Rooms_proofs` | every event on the wire, and every channel of the server and of the library, is of a known room (`WireKnown`): a room is in `_rooms` before the server is asked for it, leaving does not take it out, and a lost connection empties the wire with it |
| `XmppTypeCorrect`, `ArrivalsAreToldHolds` | `Rooms_proofs` | `MucInv`, for the rooms without rivals: one method at most is under way in a room; at each of its steps the two counts differ by what it has registered so far (`MethodRel`), and are equal when nobody is at work |
| `TestRoomTypeCorrect`, `RoomFollowsCommandsHolds` | `Rooms_proofs` | the bounds follow from the commands that run and have run (`TestCounts`); without a race, the object a command has in hand is the canonical one and the room is what the commands made it, plus what the one in progress has done (`CommandRel`, `Unraced`) |
| `AccessTypeCorrect`, `AccessIsAsConfiguredHolds` | `Backends_proofs` | attributes and defaults never change: the dictionary that the filter copies and updates is not the configuration's. What decorators make of a method is shown by induction over their stack (`DecoratedFacts`), what the filter finds by the least rule that matches; a command that shares its name with a regex one is left out, since the filter checks the other |
| `TransferTypeCorrect` | `Backends_proofs` | a chunk is at most what is left of the file |
| `RepliesTypeCorrect` | `Backends_proofs` | every action gives a thread the parts of one new job (`GivenParts`) or does away with a part (`PartDone`). `SplitFacts`: the pieces of a text are cut at multiples of the limit, none is longer, and together they are the text |
| `RepliesReachWhoAskedHolds` | `Backends_proofs` | assuming that `BOT_ADMINS_NOTIFICATIONS` lists nobody twice (who is listed twice is warned twice). `ToldSoFar`: for each job of which the backend failed to send no part, what was said to somebody and what is left in the hands of its thread make the text that is meant for them. One job is in the hands of one thread (`OneInHand`), so the parts of others only stand between its own |
| `BackendsTypeCorrect` | `Backends_proofs` | `BackendsAreEach`, as for the services |

What functions defined by recursion compute is shown without the library's induction
theorems, which take an operator as a parameter: `SeqLemmas!Recursion` says that a sequence
of partial results exists and `InductionTo` goes along it, both through the least
counterexample (`LeastExists`). `FlattenSeq` and the stack of decorators are treated so.

Every inductive invariant of these modules was checked by TLC on the instances of the runs
before it was proved.

Model-checked only: liveness, which is out of the prover's reach (`ExecutorsReturn`,
`DispatcherReturns`, `OperationsEnd`, `EndlessPollersKeepPolling`,
`StoppedPollersFallSilent`, `EveryStreamSettles`, `DeactivationsEnd`, `RoomsAreRejoined`).
`BlacklistedOnce` is the other way round: proved, and checked by no run.

## Findings

`PROJECT.json` lists them with their quotes. Five are shown by a run each: the undone stop,
automatic steps beside admin commands, the diamond taken for a cycle, the stream that never
settles, and the size of a DCC transfer. Others were met while modelling and are part of
what the models do; where one is the exception to a property, the property names it:

* flows: two flows of one graph for one user, the busy loop of a step without hints;
* plugins: a dependency that is deactivated beside an IRC boot, a blacklisted one that is
  activated at boot, `!plugin reload` activates inactive plugins, recalled regex commands
  end in a `KeyError`, a good configuration is reverted for a dependency's fault, the
  version checks do not cover dependencies;
* pollers: two chains after a stop and a start, a timer that `deactivate` passes over;
* web server: `self.server` of an earlier start, webhooks behind the first one of a plugin;
* repositories: an archive that unpacks elsewhere than the record says, plugins of another
  repository whose path begins with the same text, a failed plugin that blocks the
  uninstallation;
* access and replies: an admin command that the attributes of a regex command of the same
  name open, the reverse relay that reaches nobody, replies of the test backend that go to
  the bot, the heading of the text backend, commands with `allowargs` that no help lists;
* backends: the jitter beyond the maximum delay, a welcome thread that sets
  `ChatRoom.connected` for the next connection, the second `pop` at the end of a DCC
  transfer.

Some hazards are only modelled and caught by no property, because the code does not keep
what one would ask and nothing in the repository promises it: `PROJECT.json` says so in the
note of each (the execution that dies on a step that has moved, the recall of a removed
command, the plugin whose `deactivate` raises, sections of a store and methods on one room
that overlap, an early deactivation of the web server). Others are named exceptions of the
properties about them: two starters of flows for one user, a step without hints, a
deactivation in the middle of an IRC boot, a dependency that is blacklisted, webhooks of
which only the first is routed.

## What is not modelled

* `BOT_ASYNC = False`, where `_process_command` executes the command itself: no threads
  and none of the properties above.
* The text of messages: the parsing of prefixes and arguments, what templates and
  rendering (`rendering/`) make of a text. Pure formatting, with no state between messages.
* Renaming of commands that clash within one dictionary (`inject_commands_from`; plain and
  regex commands of one name are in `Access`); dynamic plugins.
* Two overlapping deactivations of one plugin, and a deactivation of a plugin during its own
  routing of webhooks: `PluginManager` has such overlaps, `Poller` and `WebServer` do not.
* Flow plugins: activated once at boot, and `remove_flows_from` removes nothing.
* In `PluginManager` the set `Plugins` is constant; plugins come and go in `Repositories`,
  which has no dependencies between plugins. The two are not composed.
* What a web request is turned into, `!webhook test`, the certificate: I/O.
* Identifiers and wire protocols of the backends, presence and mentions, consoles, the
  rooms of the text backend (a list of those asked for, latest first), the null backend.
* `utils.rate_limited`: its variable is read and written by several threads with no lock;
  its subject is the time between messages, which no model here has.
* Bootstrap, configuration, logs and the command line: they run once, in one thread.
* The other core plugins (backup, health, textcmds, utils, vcheck): they print, or call what
  is modelled; the poller of vcheck is one of `Poller`.

## Plan

Done: the flow executor, the dispatcher and its abstraction, the plugin manager; pollers,
storage, streams, web server, templates; connection, rooms, transfers, replies, access and
repositories; and theorems about the safety of all of them.

Left, in order of importance:

1. Abstract specifications, and refinements, for the services whose invariants now name
   what they promise: a store that a section changes at once, a stream that is delivered
   whole or not.
2. `PluginManager` composed with `Repositories`: dependencies across repositories, and the
   order in which an update reloads them.
3. The parsing of commands (`process_message`: the longest match, the alternative
   prefixes) as operators against a reference.
