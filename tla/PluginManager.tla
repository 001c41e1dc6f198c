--------------------------- MODULE PluginManager ---------------------------
(***************************************************************************)
(* The life cycle of the plugins of errbot: plugin_manager.py, activate()  *)
(* and deactivate() of botplugin.py, and the admin commands of             *)
(* core_plugins/plugins.py.                                                *)
(*                                                                         *)
(* The boot (and every reconnection) activates what is not active, a       *)
(* disconnection deactivates everything, admin commands activate,          *)
(* deactivate, configure, reload and blacklist one plugin.  Activation     *)
(* recurses into the dependencies; the frames of that recursion are the    *)
(* plugins in open, linked by their caller.  The configurations and the    *)
(* blacklist are in the bot's store and survive a crash of the process,    *)
(* which may happen between any two steps.                                 *)
(*                                                                         *)
(* Most backends dispatch the commands in the thread that boots.  The IRC  *)
(* backend boots in a thread of its own for every welcome (irc.py,         *)
(* on_welcome), beside the reactor that goes on dispatching commands and   *)
(* disconnections; op and the variables of the call are those of the       *)
(* thread that runs, aside holds those of the others.                      *)
(*                                                                         *)
(* The code of a plugin is outside: each of its methods may raise.         *)
(***************************************************************************)
EXTENDS Integers, Sequences, FiniteSets, SequencesExt

CONSTANTS
    Names, Plugins, \* plugins that are named, plugins that are installed
    Deps,           \* DependsOn of each plugin, in the order of its .plug file
    Silent,         \* plugins whose activate() may skip the inherited one
    Stubborn,       \* plugins whose deactivate() may raise
    Excluded,       \* core plugins that CORE_PLUGINS leaves out
    Incompatible,   \* plugins that ask for another version of errbot or python
    Configurable,   \* plugins with a configuration template
    Configs,        \* configurations an admin may give
    Valid,          \* pairs that check_configuration() and configure() accept
    Welcomes,       \* threads beside the first: {} for a backend but IRC
    MaxBlacklist,   \* bound on the length of the blacklist
    None

ASSUME PluginAssumption ==
    /\ Plugins \subseteq Names /\ Deps \in [Plugins -> Seq(Names)]
    /\ Silent \subseteq Plugins /\ Stubborn \subseteq Plugins
    /\ Excluded \subseteq Plugins /\ Incompatible \subseteq Plugins
    /\ Configurable \subseteq Plugins
    /\ Valid \subseteq Plugins \X (Configs \cup {None})
    /\ MaxBlacklist \in Nat /\ None \notin Names \cup Configs

VARIABLES
    active,     \* plugins with is_activated
    live,       \* plugin.config
    config,     \* the CONFIGS of the store
    blacklist,  \* the BL_PLUGINS of the store
    raced,      \* plugins last configured while another thread was booting
    aside,      \* the threads that wait for their turn to run
    op,         \* the operation in progress
    top,        \* the plugin being activated, the innermost of open
    phase,      \* where its activation is
    open,       \* plugins whose activation has begun and not returned
    frame,      \* for those, the next dependency and the calling plugin
    track,      \* dep_track
    error,      \* the exception that ended the activation
    lost,       \* plugins another thread deactivated since it began
    banned      \* plugins another thread blacklisted since it began

callVars == <<top, phase, open, frame, track, error, lost, banned>>
pluginVars == <<active, live, aside>>
storeVars == <<config, blacklist, raced>>
vars == <<pluginVars, storeVars, op, callVars>>

NoOp == [kind |-> "none", p |-> None, todo |-> {}]
Op(kind, p) == [kind |-> kind, p |-> p, todo |-> {}]
Boot == [kind |-> "boot", p |-> None, todo |-> Plugins]
Boots(o) == o.kind \in {"boot", "cycles"}
Booting == Boots(op)

\* The plugins that are loaded: a core plugin that is left out has its
\* information read, to order the others, and no object.
Loaded == Plugins \ Excluded

Dependencies(p) == {Deps[p][j] : j \in DOMAIN Deps[p]}

NoFrame == [i |-> 1, caller |-> None]

\* What one thread is doing.
Thread == [op |-> op, top |-> top, phase |-> phase, open |-> open, frame |-> frame,
           track |-> track, error |-> error, lost |-> lost, banned |-> banned]
Rest == [op |-> NoOp, top |-> None, phase |-> "idle", open |-> {},
         frame |-> [p \in Plugins |-> NoFrame], track |-> {}, error |-> "none",
         lost |-> {}, banned |-> {}]

\* The activations of the other threads go on without the plugins in S.
Lose(S) ==
    aside' = [w \in Welcomes |->
                IF aside[w].open = {} THEN aside[w] ELSE [aside[w] EXCEPT !.lost = @ \cup S]]

\* Plugins that cannot be ordered before what depends on them.
Cyclic == UNION {C \in SUBSET Plugins : \A p \in C : Dependencies(p) \cap C # {}}

-----------------------------------------------------------------------------
(* activate_plugin(name): _activate_plugin_dependencies, _activate_plugin. *)

\* activate_plugin(name).  For an incompatible plugin it raises (errbot) or
\* just returns (python); its dependencies are not asked.
Enter(p) ==
    \/ /\ p \notin Incompatible
       /\ top' = p /\ phase' = "deps" /\ open' = {p} /\ track' = {p}
       /\ frame' = [frame EXCEPT ![p] = NoFrame]
       /\ error' = "none" /\ lost' = {} /\ banned' = {}
    \/ /\ p \in Incompatible
       /\ phase' = "done" /\ error' \in {"none", "failed"}
       /\ UNCHANGED <<top, open, frame, track, lost, banned>>

\* An exception leaves every frame of the recursion.
Fail(e) ==
    /\ top' = None /\ phase' = "done" /\ open' = {} /\ error' = e
    /\ frame' = [p \in Plugins |-> NoFrame]
    /\ UNCHANGED <<track, lost, banned>>

\* The activation of top returns to the frame that asked for it.
Return ==
    LET caller == frame[top].caller
    IN  /\ top' = caller /\ open' = open \ {top}
        /\ phase' = IF caller = None THEN "done" ELSE "deps"
        /\ frame' = [p \in Plugins |->
                        IF p = top THEN NoFrame
                        ELSE IF p = caller THEN [frame[p] EXCEPT !.i = @ + 1]
                        ELSE frame[p]]
        /\ UNCHANGED <<track, error, lost, banned>>

AtDependency == phase = "deps" /\ frame[top].i <= Len(Deps[top])
Dep == Deps[top][frame[top].i]

\* Mutant: an active plugin of dep_track is not mistaken for a cycle, but
\* neither is one that is inactive.
DepInTrackIgnored ==
    /\ AtDependency /\ Dep \in track
    /\ frame' = [frame EXCEPT ![top].i = @ + 1]
    /\ UNCHANGED <<pluginVars, storeVars, op, top, phase, open, track, error, lost, banned>>

DepInTrack ==
    /\ AtDependency /\ Dep \in track
    /\ Fail("circular")
    /\ UNCHANGED <<pluginVars, storeVars, op>>

\* Mutant: the name goes into dep_track before it is looked up.
DepUnknownTracked ==
    /\ AtDependency /\ Dep \notin track /\ Dep \notin Loaded
    /\ top' = None /\ phase' = "done" /\ open' = {} /\ error' = "unknown"
    /\ frame' = [p \in Plugins |-> NoFrame] /\ track' = track \cup {Dep}
    /\ UNCHANGED <<pluginVars, storeVars, op, lost, banned>>

DepUnknown ==
    /\ AtDependency /\ Dep \notin track /\ Dep \notin Loaded
    /\ Fail("unknown")
    /\ UNCHANGED <<pluginVars, storeVars, op>>

DepActive ==
    /\ AtDependency /\ Dep \notin track /\ Dep \in active
    /\ frame' = [frame EXCEPT ![top].i = @ + 1]
    /\ UNCHANGED <<pluginVars, storeVars, op, top, phase, open, track, error, lost, banned>>

\* Mutant: the recursion starts with a dep_track of its own.
DepEnterAfresh ==
    /\ AtDependency /\ Dep \notin track /\ Dep \in Loaded \ active
    /\ top' = Dep /\ open' = open \cup {Dep} /\ track' = {Dep}
    /\ frame' = [frame EXCEPT ![Dep] = [i |-> 1, caller |-> top]]
    /\ UNCHANGED <<pluginVars, storeVars, op, phase, error, lost, banned>>

\* The recursion; nothing looks at the blacklist.
DepEnter ==
    /\ AtDependency /\ Dep \notin track /\ Dep \in Loaded \ active
    /\ top' = Dep /\ open' = open \cup {Dep} /\ track' = track \cup {Dep}
    /\ frame' = [frame EXCEPT ![Dep] = [i |-> 1, caller |-> top]]
    /\ UNCHANGED <<pluginVars, storeVars, op, phase, error, lost, banned>>

DepsDone ==
    /\ phase = "deps" /\ frame[top].i > Len(Deps[top]) /\ top \notin active
    /\ phase' = "configure"
    /\ UNCHANGED <<pluginVars, storeVars, op, top, open, frame, track, error, lost, banned>>

\* "Internal Error, invalid activated state": another thread activated it.
DepsDoneTwice ==
    /\ phase = "deps" /\ frame[top].i > Len(Deps[top]) /\ top \in active
    /\ Fail("failed")
    /\ UNCHANGED <<pluginVars, storeVars, op>>

\* check_configuration and configure with what the store has.
Configure ==
    /\ phase = "configure" /\ <<top, config[top]>> \in Valid
    /\ live' = [live EXCEPT ![top] = config[top]]
    /\ phase' = "activate"
    /\ UNCHANGED <<active, aside, storeVars, op, top, open, frame, track, error, lost, banned>>

\* Mutant: a dependency that cannot be configured does not stop what needs it.
ConfigureRaisesIgnored ==
    /\ phase = "configure" /\ <<top, config[top]>> \notin Valid
    /\ live' = [live EXCEPT ![top] = None]
    /\ Return
    /\ UNCHANGED <<active, aside, storeVars, op>>

ConfigureRaises ==
    /\ phase = "configure" /\ <<top, config[top]>> \notin Valid
    /\ live' = [live EXCEPT ![top] = None]
    /\ Fail("config")
    /\ UNCHANGED <<active, aside, storeVars, op>>

\* plugin.activate() reaches BotPluginBase.activate and returns ...
Activate ==
    /\ phase = "activate"
    /\ active' = active \cup {top}
    /\ phase' = "connect"
    /\ UNCHANGED <<live, aside, storeVars, op, top, open, frame, track, error, lost, banned>>

\* ... or returns without it (VersionChecker, Webserver, TextModeCmds) ...
ActivateSilently ==
    /\ phase = "activate" /\ top \in Silent
    /\ phase' = "connect"
    /\ UNCHANGED <<pluginVars, storeVars, op, top, open, frame, track, error, lost, banned>>

\* ... or raises before it or after it; then the plugin is deactivated again,
\* except when its deactivate() raises as well.
ActivateRaises ==
    /\ phase = "activate"
    /\ active' \in {active \ {top}} \cup {active \cup {p} : p \in Stubborn \cap {top}}
    /\ Lose(active \ active')
    /\ Fail("failed")
    /\ UNCHANGED <<live, storeVars, op>>

\* route(plugin) and plugin.callback_connect().
CallbackConnect ==
    /\ phase = "connect"
    /\ Return
    /\ UNCHANGED <<pluginVars, storeVars, op>>

CallbackConnectRaises ==
    /\ phase = "connect"
    /\ active' \in {active \ {top}} \cup {active : p \in Stubborn \cap {top}}
    /\ Lose(active \ active')
    /\ Fail("failed")
    /\ UNCHANGED <<live, storeVars, op>>

Activation ==
    \/ DepInTrack \/ DepUnknown \/ DepActive \/ DepEnter
    \/ DepsDone \/ DepsDoneTwice
    \/ Configure \/ ConfigureRaises
    \/ Activate \/ ActivateSilently \/ ActivateRaises
    \/ CallbackConnect \/ CallbackConnectRaises

Idle == phase = "idle"

\* The activation has returned or raised; its result is looked at.
Collect == phase' = "idle" /\ track' = {} /\ error' = "none" /\ lost' = {} /\ banned' = {}
             /\ UNCHANGED <<top, open, frame>>

-----------------------------------------------------------------------------
(* connect_callback: activate_non_started_plugins.                         *)

\* get_plugins_activation_order: dependencies first, cycles anywhere.
NextInOrder(p) ==
    p \in op.todo /\ (Dependencies(p) \cap op.todo = {} \/ p \in Cyclic)

\* Mutant: the blacklist is not consulted at boot.
SkippedActiveOnly(p) == p \in active \cup Excluded

Skipped(p) == p \in active \cup Excluded \/ Contains(blacklist, p)

BootSkip(p) ==
    /\ Booting /\ Idle /\ NextInOrder(p) /\ Skipped(p)
    /\ op' = [op EXCEPT !.todo = @ \ {p}]
    /\ UNCHANGED <<pluginVars, storeVars, callVars>>

BootActivate(p) ==
    /\ Booting /\ Idle /\ NextInOrder(p) /\ ~Skipped(p)
    /\ op' = [op EXCEPT !.todo = @ \ {p}]
    /\ Enter(p)
    /\ UNCHANGED <<pluginVars, storeVars>>

BootNext ==
    /\ Booting /\ phase = "done"
    /\ Collect
    /\ UNCHANGED <<pluginVars, storeVars, op>>

\* The members of a cycle that another plugin waits for are listed twice.
BootCycles ==
    /\ op.kind = "boot" /\ Idle /\ op.todo = {}
    /\ \E C \in SUBSET Cyclic : op' = [op EXCEPT !.kind = "cycles", !.todo = C]
    /\ UNCHANGED <<pluginVars, storeVars, callVars>>

BootEnd ==
    /\ op.kind = "cycles" /\ Idle /\ op.todo = {}
    /\ op' = NoOp
    /\ UNCHANGED <<pluginVars, storeVars, callVars>>

\* The thread that dispatches events is at rest: at most it boots elsewhere.
Dispatching == op = NoOp /\ \A w \in Welcomes : aside[w].op = NoOp \/ Boots(aside[w].op)

\* disconnect_callback: deactivate_all_plugins.  A deactivate() that raises
\* ends the loop.  The connection comes back and the bot boots again.
DisconnectBegin ==
    /\ Dispatching
    /\ op' = [kind |-> "disconnect", p |-> None, todo |-> active]
    /\ UNCHANGED <<pluginVars, storeVars, callVars>>

DisconnectNext(p) ==
    /\ op.kind = "disconnect" /\ p \in op.todo
    /\ active' = active \ {p} /\ Lose(active \cap {p})
    /\ op' = [op EXCEPT !.todo = @ \ {p}]
    /\ UNCHANGED <<live, storeVars, callVars>>

DisconnectEnd ==
    /\ op.kind = "disconnect"
    /\ op.todo = {} \/ op.todo \cap active \cap Stubborn # {}
    /\ op' = Boot
    /\ UNCHANGED <<pluginVars, storeVars, callVars>>

-----------------------------------------------------------------------------
(* The admin commands of core_plugins/plugins.py.                          *)

\* deactivate_plugin(p): nothing for an inactive plugin; it may raise, which
\* ends the command and, but for plugin_config, leaves everything as it was.
Deactivate(p) == active' = active \ {p} /\ Lose(active \cap {p})
DeactivateRaises(p) == p \in active \cap Stubborn /\ UNCHANGED <<active, aside>>

\* The command goes on to activate_plugin.
ThenActivate ==
    /\ phase' = "enter"
    /\ UNCHANGED <<top, open, frame, track, error, lost, banned>>

PluginActivate(p) ==
    /\ Dispatching /\ p \notin active
    /\ op' = Op("activate", p) /\ ThenActivate
    /\ UNCHANGED <<pluginVars, storeVars>>

PluginDeactivate(p) ==
    /\ Dispatching /\ p \in active
    /\ Deactivate(p)
    /\ UNCHANGED <<live, storeVars, op, callVars>>

\* plugin_reload: deactivate, load the class again, activate.  When the class
\* cannot be loaded the plugin stays deactivated, as in PluginDeactivate.
PluginReload(p) ==
    /\ Dispatching
    /\ Deactivate(p)
    /\ op' = Op("reload", p) /\ ThenActivate
    /\ UNCHANGED <<live, storeVars>>

\* "Plugin already activate": a thread that boots was faster.
EnterActive ==
    /\ phase = "enter" /\ op.p \in active
    /\ phase' = "done" /\ error' = "failed"
    /\ UNCHANGED <<pluginVars, storeVars, op, top, open, frame, track, lost, banned>>

EnterPlugin ==
    /\ phase = "enter" /\ op.p \notin active
    /\ Enter(op.p)
    /\ UNCHANGED <<pluginVars, storeVars, op>>

ActivateEnd ==
    /\ op.kind \in {"activate", "reload"} /\ phase = "done"
    /\ op' = NoOp /\ Collect
    /\ UNCHANGED <<pluginVars, storeVars>>

\* Mutant: a plugin that is active is not restarted with its configuration.
PluginConfigOnly(p, c) ==
    /\ Dispatching /\ p \in Configurable /\ ~Contains(blacklist, p)
    /\ config' = [config EXCEPT ![p] = c]
    /\ op' = IF p \in active THEN NoOp ELSE Op("config", p)
    /\ UNCHANGED <<pluginVars, blacklist, raced, callVars>>

\* plugin_config, not for a blacklisted plugin: the configuration is stored
\* before it is tried.
PluginConfig(p, c) ==
    /\ Dispatching /\ p \in Configurable /\ ~Contains(blacklist, p)
    /\ config' = [config EXCEPT ![p] = c]
    /\ raced' = IF \E w \in Welcomes : Boots(aside[w].op) THEN raced \cup {p} ELSE raced \ {p}
    /\ op' = Op("config", p)
    /\ UNCHANGED <<pluginVars, blacklist, callVars>>

ConfigDeactivate ==
    /\ op.kind = "config" /\ Idle
    /\ \/ Deactivate(op.p) /\ ThenActivate /\ op' = op
       \/ DeactivateRaises(op.p) /\ op' = NoOp /\ UNCHANGED callVars
    /\ UNCHANGED <<live, storeVars>>

\* PluginConfigurationException: "reverting the plugin to unconfigured".
ConfigEnd ==
    /\ op.kind = "config" /\ phase = "done"
    /\ config' = IF error = "config" THEN [config EXCEPT ![op.p] = None] ELSE config
    /\ op' = NoOp /\ Collect
    /\ UNCHANGED <<pluginVars, blacklist, raced>>

\* plugin_blacklist: deactivate ...
PluginBlacklist(p) ==
    /\ Dispatching /\ Len(blacklist) < MaxBlacklist
    /\ Deactivate(p)
    /\ op' = Op("blacklist", p)
    /\ UNCHANGED <<live, storeVars, callVars>>

\* ... then blacklist_plugin.
BlacklistEnd ==
    /\ op.kind = "blacklist"
    /\ blacklist' = IF Contains(blacklist, op.p) THEN blacklist ELSE Append(blacklist, op.p)
    /\ aside' = [w \in Welcomes |->
                   IF aside[w].open = {} THEN aside[w]
                   ELSE [aside[w] EXCEPT !.banned = @ \cup {op.p}]]
    /\ op' = NoOp
    /\ UNCHANGED <<active, live, config, raced, callVars>>

\* plugin_unblacklist: activate_plugin comes first, for an inactive plugin.
PluginUnblacklist(p) ==
    /\ Dispatching
    /\ op' = Op("unblacklist", p)
    /\ IF p \in active
         THEN phase' = "done" /\ UNCHANGED <<top, open, frame, track, error, lost, banned>>
         ELSE ThenActivate
    /\ UNCHANGED <<pluginVars, storeVars>>

UnblacklistEnd ==
    /\ op.kind = "unblacklist" /\ phase = "done"
    /\ IF error = "none" /\ Contains(blacklist, op.p)
         THEN \E i \in DOMAIN blacklist :
                blacklist[i] = op.p /\ blacklist' = RemoveAt(blacklist, i)
         ELSE blacklist' = blacklist
    /\ op' = NoOp /\ Collect
    /\ UNCHANGED <<pluginVars, config, raced>>

\* Another thread runs: one of the two boots, the other may be the one that
\* dispatches events.
Switch(w) ==
    /\ Booting \/ Boots(aside[w].op)
    /\ aside' = [aside EXCEPT ![w] = Thread]
    /\ op' = aside[w].op /\ top' = aside[w].top /\ phase' = aside[w].phase
    /\ open' = aside[w].open /\ frame' = aside[w].frame /\ track' = aside[w].track
    /\ error' = aside[w].error /\ lost' = aside[w].lost /\ banned' = aside[w].banned
    /\ UNCHANGED <<active, live, storeVars>>

Starts ==
    /\ op' = Boot /\ top' = None /\ phase' = "idle" /\ open' = {} /\ track' = {}
    /\ frame' = [p \in Plugins |-> NoFrame] /\ error' = "none"
    /\ lost' = {} /\ banned' = {} /\ aside' = [w \in Welcomes |-> Rest]

\* The process dies and is started again: what was stored is all that is left.
Crash ==
    /\ active' = {} /\ live' = [p \in Plugins |-> None] /\ raced' = {}
    /\ Starts
    /\ UNCHANGED <<config, blacklist>>

-----------------------------------------------------------------------------
Init ==
    /\ active = {} /\ live = [p \in Plugins |-> None]
    /\ config = [p \in Plugins |-> None] /\ blacklist = << >> /\ raced = {}
    /\ op = Boot /\ top = None /\ phase = "idle" /\ open = {} /\ track = {}
    /\ frame = [p \in Plugins |-> NoFrame] /\ error = "none"
    /\ lost = {} /\ banned = {} /\ aside = [w \in Welcomes |-> Rest]

AdminCommand ==
    \E p \in Loaded :
        \/ PluginActivate(p) \/ PluginDeactivate(p) \/ PluginReload(p)
        \/ PluginBlacklist(p) \/ PluginUnblacklist(p)
        \/ \E c \in Configs : PluginConfig(p, c)

Operation ==
    \/ Activation
    \/ \E p \in Plugins : BootSkip(p) \/ BootActivate(p) \/ DisconnectNext(p)
    \/ BootNext \/ BootCycles \/ BootEnd \/ DisconnectEnd
    \/ EnterActive \/ EnterPlugin \/ ActivateEnd
    \/ ConfigDeactivate \/ ConfigEnd \/ BlacklistEnd \/ UnblacklistEnd

Next ==
    \/ AdminCommand \/ Operation \/ DisconnectBegin \/ Crash
    \/ \E w \in Welcomes : Switch(w)

Spec == Init /\ [][Next]_vars

\* What has begun goes on, and the process stops crashing at some time; nobody
\* has to give a command.
FairSpec == Spec /\ WF_vars(Operation) /\ <>[][~Crash]_vars
-----------------------------------------------------------------------------
(* Properties.                                                             *)

\* The type of every variable of the plugin manager, in every thread.
OpType == [kind : {"none", "boot", "cycles", "disconnect", "activate", "reload",
                   "config", "blacklist", "unblacklist"},
           p : Loaded \cup {None}, todo : SUBSET Plugins]
ThreadType ==
    [op : OpType, top : Loaded \cup {None},
     phase : {"idle", "enter", "deps", "configure", "activate", "connect", "done"},
     open : SUBSET Loaded, frame : [Plugins -> [i : Nat, caller : Loaded \cup {None}]],
     track : SUBSET Loaded, error : {"none", "circular", "unknown", "config", "failed"},
     lost : SUBSET Loaded, banned : SUBSET Loaded]
TypeOK ==
    /\ active \subseteq Loaded /\ raced \subseteq Loaded
    /\ live \in [Plugins -> Configs \cup {None}]
    /\ config \in [Plugins -> Configs \cup {None}]
    /\ blacklist \in Seq(Loaded)
    /\ Thread \in ThreadType
    /\ aside \in [Welcomes -> ThreadType]

\* activate_plugin: "Activate a plugin with its dependencies."  At the moment a
\* plugin becomes active all its dependencies are, unless one of them skips
\* the inherited activate() or another thread deactivated it meanwhile.
ActivatedWithDependencies ==
    [][\A p \in active' \ active : Dependencies(p) \subseteq active \cup Silent \cup lost]_vars

\* tests/dependencies_test.py, test_direct_circular_dependency and
\* test_indirect_circular_dependency: plugins that wait for each other are
\* never active, whatever the admin does, in whatever order the threads run
\* and however the bot stops.
CyclicNeverActive ==
    \A C \in SUBSET Plugins :
        (\A p \in C : Dependencies(p) \cap (C \ Silent) # {}) => active \cap C = {}

\* "Plugin is blacklisted": the boot activates a blacklisted plugin at most
\* because another one depends on it, or because the command that blacklists
\* it came when its activation had begun in another thread.
BootSkipsBlacklisted ==
    [][\A p \in active' \ active :
         Booting /\ Contains(blacklist, p) => frame[p].caller # None \/ p \in banned]_vars

\* blacklist_plugin keeps a plugin once, so one unblacklist is enough.
BlacklistedOnce ==
    \A i, j \in DOMAIN blacklist : blacklist[i] = blacklist[j] => i = j

\* An active plugin runs with the configuration that is stored for it, except
\* while it is being configured, when its deactivate() raised, and when it was
\* last configured while another thread was booting.
ActiveHasStoredConfig ==
    \A p \in active \ (Stubborn \cup raced) :
        live[p] = config[p] \/ (op.kind = "config" /\ op.p = p)

\* Every operation ends when it is alone: the recursion into the dependencies
\* does not run around a cycle.
OperationsEnd == op # NoOp ~> op = NoOp

\* "Circular dependency in the set of plugins": the message names a set of
\* plugins that has a cycle.
CircularIsReal == error = "circular" => track \cap Cyclic # {}
=============================================================================
