-------------------------------- MODULE Access -------------------------------
(* Who may run a command: the decorators that tag methods as commands            *)
(* (errbot/__init__.py), the filter of the ACLs plugin (core_plugins/acls.py)    *)
(* with ACCESS_CONTROLS and ACCESS_CONTROLS_DEFAULT, the help that lists what    *)
(* the filter lets pass in a dry run (core_plugins/help.py), and the answer to   *)
(* an unknown command (core_plugins/cnf_filter.py).                              *)
(*                                                                               *)
(* A glob is the set of the texts it matches. A rule is a record with some of    *)
(* the fields allowargs, denyargs, allowusers, denyusers, allowrooms, denyrooms, *)
(* allowmuc, allowprivate.                                                       *)
EXTENDS Naturals, Sequences, SequencesExt

CONSTANTS
    Commands,      \* the methods that are commands
    Names,         \* the name each is injected under
    Decorations,   \* the decorators of each, from the bottom one up
    Senders, Rooms, Texts, \* who sends, in which rooms, with which arguments
    Admins,        \* BOT_ADMINS
    DefaultRule,   \* ACCESS_CONTROLS_DEFAULT
    Controls,      \* ACCESS_CONTROLS, in order: [matches |-> methods, rule |-> rule]
    Direct         \* a direct message, no room

NoArgs == "None"     \* what str(None) is: the arguments of a dry run

(* What a decorator is given, and what a rule holds: allowmuc and allowprivate   *)
(* are booleans. A user can type any text, the one of a dry run too. Methods that *)
(* clash are renamed (inject_commands_from), but plain commands and regex ones   *)
(* have dicts of their own: a name is that of at most one of each.               *)
Decorators ==
    [with : {"botcmd", "re_botcmd", "botmatch", "arg_botcmd"}, adminOnly : BOOLEAN,
     flowOnly : BOOLEAN, hidden : {"unset", "yes", "no"}, prefixed : BOOLEAN, argument : STRING]
IsRegex(c) == Decorations[c][1].with \in {"re_botcmd", "botmatch"}
Has(rule, field) == field \in DOMAIN rule
RuleIsValid(rule) ==
    \A field \in {"allowmuc", "allowprivate"} : Has(rule, field) => rule[field] \in BOOLEAN

ASSUME AccessAssumption ==
    /\ Admins \subseteq Senders /\ Direct \notin Rooms /\ NoArgs \in Texts
    /\ \A c \in Commands : Decorations[c] \in Seq(Decorators) /\ Decorations[c] # <<>>
    /\ \A c, d \in Commands : Names[c] = Names[d] /\ IsRegex(c) = IsRegex(d) => c = d
    /\ Len(Controls) \in Nat /\ DOMAIN Controls = 1..Len(Controls)
    /\ RuleIsValid(DefaultRule) /\ \A i \in DOMAIN Controls : RuleIsValid(Controls[i].rule)

VARIABLES
    attrs,       \* the _err_command attributes of each command
    defaults,    \* bot_config.ACCESS_CONTROLS_DEFAULT, a dict in memory
    hideAccess,  \* HIDE_RESTRICTED_ACCESS
    hideCommands, \* HIDE_RESTRICTED_COMMANDS
    suppress,    \* SUPPRESS_CMD_NOT_FOUND
    last,        \* the last message, whether it ran its command, and the replies of the filters
    listed       \* the answer to the last "!help"

accessVars == <<attrs, defaults, hideAccess, hideCommands, suppress, last, listed>>

Message == [frm : Senders, place : Rooms \cup {Direct}, args : Texts]

-----------------------------------------------------------------------------
(* _tag_botcmd: a function that is tagged already keeps its attributes.          *)
Tag(func, kind, given) ==
    IF func # <<>> THEN func
    ELSE <<[kind |-> kind, adminOnly |-> given.adminOnly, flowOnly |-> given.flowOnly,
            hidden |-> IF given.hidden = "unset" THEN given.flowOnly ELSE given.hidden = "yes",
            prefixed |-> IF kind = "re" THEN given.prefixed ELSE TRUE, arguments |-> <<>>]>>

Botcmd(func, given) == Tag(func, "plain", given)
ReBotcmd(func, given) == Tag(func, "re", given)
Botmatch(func, given) == Tag(func, "re", [given EXCEPT !.prefixed = FALSE])

(* arg_botcmd: the bottom one wraps the function and tags the wrapper, each adds *)
(* an argument to the parser of the wrapper.                                     *)
ArgBotcmd(func, given) ==
    LET wrapper == Tag(func, "arg", given)
    IN <<[wrapper[1] EXCEPT !.arguments = Append(@, given.argument)]>>

Decorate(func, given) ==
    CASE given.with = "botcmd" -> Botcmd(func, given)
      [] given.with = "re_botcmd" -> ReBotcmd(func, given)
      [] given.with = "botmatch" -> Botmatch(func, given)
      [] given.with = "arg_botcmd" -> ArgBotcmd(func, given)

Decorated(c) ==
    LET func[i \in 0..Len(Decorations[c])] ==
            IF i = 0 THEN <<>> ELSE Decorate(func[i - 1], Decorations[c][i])
    IN func[Len(Decorations[c])][1]

-----------------------------------------------------------------------------
AccessTypeOK ==
    /\ \A c \in Commands : /\ attrs[c].kind \in {"plain", "re", "arg"}
                           /\ {attrs[c].adminOnly, attrs[c].hidden} \subseteq BOOLEAN
    /\ hideAccess \in BOOLEAN /\ hideCommands \in BOOLEAN /\ suppress \in BOOLEAN
    /\ last # <<>> => last[1].msg \in Message /\ last[1].replies \in 0..1
    /\ listed # <<>> => listed[1].shown \subseteq Commands

AccessInit ==
    /\ attrs = [c \in Commands |-> Decorated(c)]
    /\ defaults = DefaultRule
    /\ hideAccess \in BOOLEAN /\ hideCommands \in BOOLEAN /\ suppress \in BOOLEAN
    /\ last = <<>> /\ listed = <<>>

IsGroup(m) == m.place # Direct

(* dict.update, on a copy of the dict.                                           *)
Updated(dict, with) ==
    [field \in DOMAIN dict \cup DOMAIN with |-> IF Has(with, field) THEN with[field] ELSE dict[field]]

(* A copy of the defaults, updated with the rule of the first pattern that       *)
(* matches the command.                                                          *)
Acl(c) ==
    LET first == SelectInSeq(Controls, LAMBDA control : c \in control.matches)
    IN IF first = 0 THEN defaults ELSE Updated(defaults, Controls[first].rule)

(* glob on an allow list and a deny list of the rule.                            *)
Outside(rule, allow, deny, text) ==
    \/ Has(rule, allow) /\ text \notin rule[allow]
    \/ Has(rule, deny) /\ text \in rule[deny]

(* The filter denies a command when one of its checks fails. An admin-only one   *)
(* needs allowmuc, explicitly, to run in a room.                                 *)
Denied(c, m, args) ==
    LET acl == Acl(c)
    IN \/ Outside(acl, "allowargs", "denyargs", args)
       \/ Outside(acl, "allowusers", "denyusers", m.frm)
       \/ IsGroup(m) /\ Has(acl, "allowmuc") /\ ~acl.allowmuc
       \/ IsGroup(m) /\ Outside(acl, "allowrooms", "denyrooms", m.place)
       \/ ~IsGroup(m) /\ Has(acl, "allowprivate") /\ ~acl.allowprivate
       \/ attrs[c].adminOnly /\ m.frm \notin Admins
       \/ attrs[c].adminOnly /\ IsGroup(m) /\ ~(Has(acl, "allowmuc") /\ acl.allowmuc)

(* all_commands: where a plain command and a regex one share a name, it holds    *)
(* the regex one. The filter checks that one, whichever of the two is to run.    *)
Checked(c) ==
    LET regexes == {r \in Commands : attrs[r].kind = "re" /\ Names[r] = Names[c]}
    IN IF regexes = {} THEN c ELSE CHOOSE r \in regexes : TRUE
Refused(c, m, args) == Denied(Checked(c), m, args)

\* Mutant: the rule is written into the defaults, which are not copied.
AskUncopied(m, c) ==
    /\ last' = <<[msg |-> m, cmd |-> c, ran |-> ~Refused(c, m, m.args),
                  replies |-> IF Refused(c, m, m.args) /\ ~hideAccess THEN 1 ELSE 0]>>
    /\ listed' = <<>>
    /\ defaults' = Acl(Checked(c))
    /\ UNCHANGED <<attrs, hideAccess, hideCommands, suppress>>

(* access_denied tells the sender, unless that is switched off.                  *)
Ask(m, c) ==
    /\ last' = <<[msg |-> m, cmd |-> c, ran |-> ~Refused(c, m, m.args),
                  replies |-> IF Refused(c, m, m.args) /\ ~hideAccess THEN 1 ELSE 0]>>
    /\ listed' = <<>>
    /\ UNCHANGED <<attrs, defaults, hideAccess, hideCommands, suppress>>

(* Nothing ran: cnf_filter answers with unknown_command, unless suppressed.      *)
AskUnknown(m) ==
    /\ last' = <<[msg |-> m, cmd |-> NoArgs, ran |-> FALSE, replies |-> IF suppress THEN 0 ELSE 1]>>
    /\ listed' = <<>>
    /\ UNCHANGED <<attrs, defaults, hideAccess, hideCommands, suppress>>

(* may_access_command is a dry run, with no arguments.                           *)
MayAccess(m, c) == ~Refused(c, m, NoArgs)

(* "!help": the commands that all_commands holds, that are not hidden and that,  *)
(* with HIDE_RESTRICTED_COMMANDS, the sender may access from there.              *)
Help(m) ==
    /\ listed' = <<[msg |-> m,
                    shown |-> {c \in Commands : /\ Checked(c) = c /\ ~attrs[c].hidden
                                                /\ hideCommands => MayAccess(m, c)}]>>
    /\ last' = <<>>
    /\ UNCHANGED <<attrs, defaults, hideAccess, hideCommands, suppress>>

AccessNext ==
    \/ \E m \in Message, c \in Commands : Ask(m, c)
    \/ \E m \in Message : AskUnknown(m)
    \/ \E m \in Message : Help(m)

AccessSpec == AccessInit /\ [][AccessNext]_accessVars

-----------------------------------------------------------------------------
(* What the configuration says of a command, whatever was asked before: the      *)
(* fields of the first rule that matches it, and those of the default rule.      *)
Configured(c, field) ==
    LET rules == {i \in DOMAIN Controls : c \in Controls[i].matches}
        rule == IF rules = {} THEN DefaultRule
                ELSE Controls[CHOOSE i \in rules : \A j \in rules : i <= j].rule
    IN IF Has(rule, field) THEN <<rule[field]>>
       ELSE IF Has(DefaultRule, field) THEN <<DefaultRule[field]>> ELSE <<>>

Says(c, field, value) == Configured(c, field) = <<value>>
AdminOnly(c) == Decorations[c][1].adminOnly

(* The text is in the allow list and not in the deny list configured for the     *)
(* command, where there is one.                                                  *)
Opens(c, allow, deny, text) ==
    /\ \A i \in DOMAIN Configured(c, allow) : text \in Configured(c, allow)[i]
    /\ \A i \in DOMAIN Configured(c, deny) : text \notin Configured(c, deny)[i]

(* A command that runs is one the configuration opens to its sender, arguments   *)
(* and place; an admin-only one, as its bottom decorator has it, runs for admins *)
(* only and in a room only where allowmuc says so. No decision depends on the    *)
(* ones before. A plain command whose name a regex one has too is excepted: the  *)
(* filter checks the other.                                                      *)
CommandsThatRunAreAllowed ==
    last # <<>> /\ last[1].ran /\ Checked(last[1].cmd) = last[1].cmd =>
        LET m == last[1].msg
            c == last[1].cmd
        IN /\ Opens(c, "allowargs", "denyargs", m.args)
           /\ Opens(c, "allowusers", "denyusers", m.frm)
           /\ IsGroup(m) => Opens(c, "allowrooms", "denyrooms", m.place)
           /\ ~Says(c, IF IsGroup(m) THEN "allowmuc" ELSE "allowprivate", FALSE)
           /\ AdminOnly(c) =>
                 m.frm \in Admins /\ (IsGroup(m) => Says(c, "allowmuc", TRUE))

(* With HIDE_RESTRICTED_COMMANDS the help lists a command, if it is the one that *)
(* its name stands for, exactly when it would run for the sender from there:     *)
(* never when no arguments make it run, always when some do and neither an allow *)
(* list nor a deny list of arguments stops the dry run.                          *)
HelpShowsWhatRuns ==
    listed # <<>> /\ hideCommands =>
        \A c \in Commands :
            LET m == listed[1].msg
                runs == \E text \in Texts : ~Refused(c, m, text)
            IN ~attrs[c].hidden /\ Checked(c) = c =>
                  /\ c \in listed[1].shown => runs
                  /\ runs /\ Opens(c, "allowargs", "denyargs", NoArgs) => c \in listed[1].shown

(* Whatever was asked before, what runs is what the configuration allows, and    *)
(* the help lists what runs.                                                     *)
AccessIsAsConfigured == CommandsThatRunAreAllowed /\ HelpShowsWhatRuns
=============================================================================
