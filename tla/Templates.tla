------------------------------ MODULE Templates ------------------------------
(* The template search path (templating.py) as the plugin manager's activation  *)
(* and deactivation of plugins keep it up to date. All of it runs under admin   *)
(* commands, one after the other.                                               *)
EXTENDS Naturals, FiniteSets

CONSTANTS
    Owners,    \* the plugins
    Dir(_),    \* the directory a plugin is loaded from; siblings share theirs
    Templated, \* the directories that hold a templates directory
    MaxAdds    \* bound on how often a directory can be in the path

ASSUME TemplatesAssumption ==
    Templated \subseteq {Dir(p) : p \in Owners} /\ MaxAdds \in Nat \ {0}

VARIABLES
    activeOwners,   \* the plugins whose is_activated is set
    templatePath,   \* template_path, without the system's: occurrences by directory
    pluginTemplates,\* plugin_templates: the plugins with a loader of their name
    env             \* the search path and the names the environment was made from

templateVars == <<activeOwners, templatePath, pluginTemplates, env>>

Dirs == {Dir(p) : p \in Owners}
OnPath(path) == {d \in Dirs : path[d] > 0}

TemplatesTypeOK ==
    /\ activeOwners \subseteq Owners
    /\ templatePath \in [Dirs -> 0..MaxAdds]
    /\ pluginTemplates \subseteq Owners
    /\ env \in [path : SUBSET Dirs, names : SUBSET Owners]

TemplatesInit ==
    /\ activeOwners = {} /\ templatePath = [d \in Dirs |-> 0]
    /\ pluginTemplates = {} /\ env = [path |-> {}, names |-> {}]

(* FileSystemLoader copies the list it is given; the dictionary is shared, but   *)
(* it is only consulted by an environment made while it was not empty.           *)
RecreateEnv == env' = [path |-> OnPath(templatePath'), names |-> pluginTemplates']

AddPluginTemplatesPath(p) ==
    IF Dir(p) \in Templated
    THEN /\ templatePath' = [templatePath EXCEPT ![Dir(p)] = @ + 1]
         /\ pluginTemplates' = pluginTemplates \cup {p}
         /\ RecreateEnv
    ELSE UNCHANGED <<templatePath, pluginTemplates, env>>

\* Mutant: every occurrence of the directory is removed.
RemoveEveryPath(p) ==
    LET d == Dir(p) IN
    /\ templatePath' = [templatePath EXCEPT ![d] = 0]
    /\ pluginTemplates' = pluginTemplates \ {p}
    /\ IF templatePath[d] > 0 \/ p \in pluginTemplates THEN RecreateEnv ELSE UNCHANGED env

(* One occurrence of the directory is removed, whoever added it.                 *)
RemovePluginTemplatesPath(p) ==
    LET d == Dir(p) IN
    /\ templatePath' = [templatePath EXCEPT ![d] = IF @ > 0 THEN @ - 1 ELSE 0]
    /\ pluginTemplates' = pluginTemplates \ {p}
    /\ IF templatePath[d] > 0 \/ p \in pluginTemplates THEN RecreateEnv ELSE UNCHANGED env

(* _activate_plugin: the path is added first.                                    *)
TemplatedActivation(p) ==
    /\ p \notin activeOwners
    /\ templatePath[Dir(p)] < MaxAdds
    /\ AddPluginTemplatesPath(p)
    /\ activeOwners' = activeOwners \cup {p}

(* activate() raises before it set is_activated. The deactivate_plugin of the    *)
(* handler finds the plugin inactive and leaves, with the path still added.      *)
ActivationRaises(p) ==
    /\ p \notin activeOwners
    /\ templatePath[Dir(p)] < MaxAdds
    /\ AddPluginTemplatesPath(p)
    /\ UNCHANGED activeOwners

(* The webhooks or callback_connect raise once activate() is through: this time  *)
(* deactivate_plugin does its work. The two recreations leave the second's.      *)
ConnectRaises(p) ==
    /\ p \notin activeOwners
    /\ templatePath[Dir(p)] < MaxAdds
    /\ pluginTemplates' = pluginTemplates \ {p}
    /\ UNCHANGED <<templatePath, activeOwners>>
    /\ IF Dir(p) \in Templated \/ p \in pluginTemplates THEN RecreateEnv ELSE UNCHANGED env

TemplatedDeactivation(p) ==
    /\ p \in activeOwners
    /\ RemovePluginTemplatesPath(p)
    /\ activeOwners' = activeOwners \ {p}

TemplatesNext ==
    \/ \E p \in Owners : TemplatedActivation(p)
    \/ \E p \in Owners : ActivationRaises(p)
    \/ \E p \in Owners : ConnectRaises(p)
    \/ \E p \in Owners : TemplatedDeactivation(p)

TemplatesSpec == TemplatesInit /\ [][TemplatesNext]_templateVars

-----------------------------------------------------------------------------
(* An active plugin finds its templates by path and under its name, whatever     *)
(* failed activations left behind and whichever siblings in its directory came   *)
(* and went: an occurrence it relies on is never the one a sibling removes.      *)
ActivePluginsFindTemplates ==
    \A p \in activeOwners : Dir(p) \in Templated => Dir(p) \in env.path /\ p \in env.names
=============================================================================
