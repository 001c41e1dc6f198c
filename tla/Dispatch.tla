------------------------------ MODULE Dispatch ------------------------------
(***************************************************************************)
(* The command dispatcher of errbot with BOT_ASYNC (errbot/core.py).       *)
(*                                                                         *)
(* The backend's thread turns messages into commands, asks the command     *)
(* filters, keeps the history of every user and hands the command to a     *)
(* thread pool.  An admin command first drains the pool and then keeps the *)
(* dispatcher waiting, because it may load and unload plugins, that is     *)
(* change the command registry.  When the backend loses its connection the *)
(* same thread deactivates the plugins, without draining anything.  The    *)
(* threads of the flow executor run commands on their own (FlowThreads).   *)
(***************************************************************************)
EXTENDS Integers, Sequences, FiniteSets, SequencesExt

CONSTANTS
    Users, Commands, Args,
    AdminOnly, Regex, Historize,   \* attributes set by the command decorators
    NFilters,                      \* number of command filters
    MaxHistory,                    \* maxlen of the history of a user
    Workers,                       \* BOT_ASYNC_POOLSIZE threads
    FlowThreads, AutoCommands,     \* the flow executor: threads, automatic steps
    MaxQueue,                      \* bound on the queue of the thread pool
    None

ASSUME DispatchAssumption ==
    /\ AdminOnly \subseteq Commands /\ Regex \subseteq Commands
    /\ Historize \subseteq Commands /\ AutoCommands \subseteq Commands \ Regex
    /\ NFilters \in Nat /\ MaxHistory \in Nat \ {0} /\ MaxQueue \in Nat
    /\ None \notin Commands \cup Users \cup Args

VARIABLES
    registry,   \* names in self.commands and self.re_commands
    history,    \* self.cmd_history
    disp,       \* what the backend's thread is doing
    queue,      \* tasks of self.thread_pool not taken yet
    worker,     \* the task each thread of the pool is executing
    flow        \* the command each flow thread is executing

vars == <<registry, history, disp, queue, worker, flow>>

Entries == Commands \X Args

\* A task: _execute_and_send for one command.  passed counts the filters that
\* accepted it, undisturbed holds until the backend disconnects.
Tasks == [cmd : Commands, match : BOOLEAN, passed : Nat, undisturbed : BOOLEAN]

NoTask == [cmd |-> None, match |-> FALSE, passed |-> 0, undisturbed |-> TRUE]
IdleWorker == [pc |-> "idle", task |-> NoTask]
Ready == [pc |-> "ready", user |-> None, cmd |-> None, arg |-> None,
          match |-> FALSE, passed |-> 0, left |-> {}]

Running(w) == worker[w].pc # "idle"

\* The tasks handed to the pool and not finished.
Outstanding == {queue[i] : i \in DOMAIN queue}
                 \cup {worker[w].task : w \in {v \in Workers : Running(v)}}

\* self.re_commands[cmd] if match else self.commands[cmd]
Found(cmd, match) == cmd \in registry /\ (match <=> cmd \in Regex)

-----------------------------------------------------------------------------
(* The backend's thread: process_message and _process_command.             *)

\* The text is a regular command.
ReceiveCommand(u, c, a) ==
    /\ disp.pc = "ready" /\ Len(queue) < MaxQueue
    /\ c \in registry \ Regex
    /\ disp' = [Ready EXCEPT !.pc = "filter", !.user = u, !.cmd = c, !.arg = a]
    /\ UNCHANGED <<registry, history, queue, worker, flow>>

\* "!!" and "!<n>": the entry of the history at that place, as it is.
Recall(u, i) ==
    /\ disp.pc = "ready" /\ Len(queue) < MaxQueue
    /\ i \in DOMAIN history[u]
    /\ disp' = [Ready EXCEPT !.pc = "filter", !.user = u,
                             !.cmd = history[u][i][1], !.arg = history[u][i][2]]
    /\ UNCHANGED <<registry, history, queue, worker, flow>>

\* No regular command: every regex command that matches is processed in turn.
ReceiveText(u, a) ==
    /\ disp.pc = "ready" /\ Len(queue) < MaxQueue
    /\ \E M \in SUBSET (registry \cap Regex) :
        /\ M # {}
        /\ disp' = [Ready EXCEPT !.pc = "next", !.user = u, !.arg = a, !.left = M]
    /\ UNCHANGED <<registry, history, queue, worker, flow>>

NextMatch ==
    /\ disp.pc = "next"
    /\ \E c \in disp.left :
         disp' = [disp EXCEPT !.pc = "filter", !.cmd = c, !.match = TRUE,
                              !.passed = 0, !.left = @ \ {c}]
    /\ UNCHANGED <<registry, history, queue, worker, flow>>

\* The dispatcher is done with this command.
Done == IF disp.left = {} THEN Ready ELSE [disp EXCEPT !.pc = "next"]

\* Mutant: one filter too many is asked.
FilterAcceptsOneMore ==
    /\ disp.pc = "filter" /\ disp.passed <= NFilters
    /\ disp' = [disp EXCEPT !.passed = @ + 1]
    /\ UNCHANGED <<registry, history, queue, worker, flow>>

\* _process_command_filters, one filter at a time.
FilterAccepts ==
    /\ disp.pc = "filter" /\ disp.passed < NFilters
    /\ disp' = [disp EXCEPT !.passed = @ + 1]
    /\ UNCHANGED <<registry, history, queue, worker, flow>>

\* The filter returns None for the message, or raises: blocked in both cases.
FilterBlocks ==
    /\ disp.pc = "filter" /\ disp.passed < NFilters
    /\ disp' = Done
    /\ UNCHANGED <<registry, history, queue, worker, flow>>

Entry == <<disp.cmd, disp.arg>>

\* user_cmd_history.remove((cmd, args)) for an entry that is in it.
WithoutEntry(h) ==
    IF \E i \in DOMAIN h : h[i] = Entry
    THEN RemoveAt(h, CHOOSE i \in DOMAIN h : h[i] = Entry)
    ELSE h

\* The deque forgets its oldest entry when it is full.
Push(h, x) == IF Len(h) < MaxHistory THEN Append(h, x) ELSE Append(Tail(h), x)

\* Mutant: a command that is repeated is not taken out of the history first.
AdmitTwice(h) == IF disp.cmd \in Historize THEN Push(h, Entry) ELSE h

Admit(h) == IF disp.cmd \in Historize THEN Push(WithoutEntry(h), Entry)
                                      ELSE WithoutEntry(h)

\* The command is found; an admin command waits until the pool is empty.
StartCommand ==
    /\ disp.pc = "filter" /\ disp.passed = NFilters
    /\ Found(disp.cmd, disp.match)
    /\ disp' = [disp EXCEPT !.pc = IF disp.cmd \in AdminOnly THEN "join" ELSE "submit"]
    /\ history' = [history EXCEPT ![disp.user] = Admit(@)]
    /\ UNCHANGED <<registry, queue, worker, flow>>

\* The command is gone: a recalled one that has been unloaded since, or one
\* that an admin command matching the same text has just unloaded; or it is a
\* recalled regex command, which is looked up without its match.  The KeyError
\* leaves process_message: some backends survive it, others leave serve_once.
StartUnknown ==
    /\ disp.pc = "filter" /\ disp.passed = NFilters
    /\ ~Found(disp.cmd, disp.match)
    /\ disp' \in {Ready, [Ready EXCEPT !.pc = "lost"]}
    /\ history' = [history EXCEPT ![disp.user] = WithoutEntry(@)]
    /\ UNCHANGED <<registry, queue, worker, flow>>

\* Mutants: the pool is joined when its queue is empty, busy or not; it is not
\* joined at all.
JoinQueueOnly ==
    /\ disp.pc = "join" /\ queue = << >>
    /\ disp' = [disp EXCEPT !.pc = "submit"]
    /\ UNCHANGED <<registry, history, queue, worker, flow>>

JoinNothing ==
    /\ disp.pc = "join"
    /\ disp' = [disp EXCEPT !.pc = "submit"]
    /\ UNCHANGED <<registry, history, queue, worker, flow>>

\* thread_pool.close(), join(), and a new pool.
JoinPool ==
    /\ disp.pc = "join"
    /\ queue = << >> /\ \A w \in Workers : ~Running(w)
    /\ disp' = [disp EXCEPT !.pc = "submit"]
    /\ UNCHANGED <<registry, history, queue, worker, flow>>

\* The arguments cannot be split: the user is told, nothing is executed.
ArgsError ==
    /\ disp.pc = "submit" /\ ~disp.match
    /\ disp' = Done
    /\ UNCHANGED <<registry, history, queue, worker, flow>>

\* Mutant: the dispatcher does not wait for the result of an admin command.
SubmitAndGo ==
    /\ disp.pc = "submit"
    /\ queue' = Append(queue, [cmd |-> disp.cmd, match |-> disp.match,
                               passed |-> disp.passed, undisturbed |-> TRUE])
    /\ disp' = Done
    /\ UNCHANGED <<registry, history, worker, flow>>

\* thread_pool.apply_async(self._execute_and_send, ...)
Submit ==
    /\ disp.pc = "submit"
    /\ queue' = Append(queue, [cmd |-> disp.cmd, match |-> disp.match,
                               passed |-> disp.passed, undisturbed |-> TRUE])
    /\ disp' = IF disp.cmd \in AdminOnly THEN [disp EXCEPT !.pc = "wait"] ELSE Done
    /\ UNCHANGED <<registry, history, worker, flow>>

\* result.wait() for an admin command.
WaitResult ==
    /\ disp.pc = "wait"
    /\ \A t \in Outstanding : t.cmd \notin AdminOnly
    /\ disp' = Done
    /\ UNCHANGED <<registry, history, queue, worker, flow>>

\* The connection is lost between two messages.
LoseConnection ==
    /\ disp.pc = "ready"
    /\ disp' = [Ready EXCEPT !.pc = "lost"]
    /\ UNCHANGED <<registry, history, queue, worker, flow>>

\* disconnect_callback: every plugin is deactivated, one command at a time.
Disturbed(t) == [t EXCEPT !.undisturbed = FALSE]

Disconnect ==
    /\ disp.pc = "lost"
    /\ disp' = [disp EXCEPT !.pc = "disconnecting"]
    /\ queue' = [i \in DOMAIN queue |-> Disturbed(queue[i])]
    /\ worker' = [w \in Workers |-> IF Running(w)
                                    THEN [worker[w] EXCEPT !.task = Disturbed(@)]
                                    ELSE worker[w]]
    /\ UNCHANGED <<registry, history, flow>>

Unregister(c) ==
    /\ disp.pc = "disconnecting" /\ c \in registry
    /\ registry' = registry \ {c}
    /\ UNCHANGED <<history, disp, queue, worker, flow>>

\* serve_once again; connect_callback activates the plugins that do start.
Reconnect ==
    /\ disp.pc = "disconnecting" /\ registry = {}
    /\ disp' = [disp EXCEPT !.pc = "connecting"]
    /\ UNCHANGED <<registry, history, queue, worker, flow>>

Register(c) ==
    /\ disp.pc = "connecting" /\ c \notin registry
    /\ registry' = registry \cup {c}
    /\ UNCHANGED <<history, disp, queue, worker, flow>>

Connected ==
    /\ disp.pc = "connecting"
    /\ disp' = Ready
    /\ UNCHANGED <<registry, history, queue, worker, flow>>

-----------------------------------------------------------------------------
(* The threads of the pool: _execute_and_send.                             *)

Take(w) ==
    /\ worker[w].pc = "idle" /\ queue # << >>
    /\ worker' = [worker EXCEPT ![w] = [pc |-> "lookup", task |-> Head(queue)]]
    /\ queue' = Tail(queue)
    /\ UNCHANGED <<registry, history, disp, flow>>

\* Mutant: a thread waits for its command to be registered again.
LookupWaits(w) ==
    /\ worker[w].pc = "lookup" /\ worker[w].task.cmd \in registry
    /\ worker' = [worker EXCEPT ![w].pc = "running"]
    /\ UNCHANGED <<registry, history, disp, queue, flow>>

\* method = commands[cmd], or KeyError and an error reply.
Lookup(w) ==
    /\ worker[w].pc = "lookup"
    /\ worker' = IF worker[w].task.cmd \in registry
                   THEN [worker EXCEPT ![w].pc = "running"]
                   ELSE [worker EXCEPT ![w] = IdleWorker]
    /\ UNCHANGED <<registry, history, disp, queue, flow>>

\* The command returns or raises.  An admin command may have loaded, unloaded
\* or updated plugins.
Finish(w) ==
    /\ worker[w].pc = "running"
    /\ worker' = [worker EXCEPT ![w] = IdleWorker]
    /\ registry' \in IF worker[w].task.cmd \in AdminOnly THEN SUBSET Commands
                                                        ELSE {registry}
    /\ UNCHANGED <<history, disp, queue, flow>>

\* FlowExecutor.execute runs the command of an automatic step in its thread:
\* no filter, no queue.
BeginAutostep(t, c) ==
    /\ flow[t] = None /\ c \in registry \cap AutoCommands
    /\ flow' = [flow EXCEPT ![t] = c]
    /\ UNCHANGED <<registry, history, disp, queue, worker>>

EndAutostep(t) ==
    /\ flow[t] # None
    /\ flow' = [flow EXCEPT ![t] = None]
    /\ registry' \in IF flow[t] \in AdminOnly THEN SUBSET Commands ELSE {registry}
    /\ UNCHANGED <<history, disp, queue, worker>>

-----------------------------------------------------------------------------
Init ==
    /\ registry = {}
    /\ history = [u \in Users |-> << >>]
    /\ disp = [Ready EXCEPT !.pc = "connecting"]
    /\ queue = << >>
    /\ worker = [w \in Workers |-> IdleWorker]
    /\ flow = [t \in FlowThreads |-> None]

Receive ==
    \/ \E u \in Users, c \in Commands, a \in Args : ReceiveCommand(u, c, a)
    \/ \E u \in Users, i \in 1..MaxHistory : Recall(u, i)
    \/ \E u \in Users, a \in Args : ReceiveText(u, a)

Process ==
    \/ NextMatch \/ FilterAccepts \/ FilterBlocks
    \/ StartCommand \/ StartUnknown \/ JoinPool
    \/ ArgsError \/ Submit \/ WaitResult

Connection ==
    \/ LoseConnection \/ Disconnect \/ Reconnect \/ Connected
    \/ \E c \in Commands : Unregister(c) \/ Register(c)

Execute(w) == Take(w) \/ Lookup(w) \/ Finish(w)

Autostep(t) == EndAutostep(t) \/ \E c \in Commands : BeginAutostep(t, c)

Next ==
    \/ Receive \/ Process \/ Connection
    \/ \E w \in Workers : Execute(w)
    \/ \E t \in FlowThreads : Autostep(t)

Spec == Init /\ [][Next]_vars

\* The dispatcher and the threads of the pool keep running, and commands
\* return; nobody has to send a message.
Fairness ==
    /\ WF_vars(Process) /\ \A w \in Workers : WF_vars(Execute(w))

FairSpec == Spec /\ Fairness
-----------------------------------------------------------------------------
(* Properties.                                                             *)

DispPc == {"ready", "next", "filter", "join", "submit", "wait", "lost",
           "disconnecting", "connecting"}

\* The type of every variable of the dispatcher.
TypeOK ==
    /\ registry \subseteq Commands
    /\ history \in [Users -> Seq(Entries)]
    /\ disp \in [pc : DispPc, user : Users \cup {None}, cmd : Commands \cup {None},
                 arg : Args \cup {None}, match : BOOLEAN, passed : 0..NFilters,
                 left : SUBSET Commands]
    /\ queue \in Seq(Tasks)
    /\ worker \in [Workers -> [pc : {"idle", "lookup", "running"},
                               task : Tasks \cup {NoTask}]]
    /\ flow \in [FlowThreads -> Commands \cup {None}]

\* "wait until the queue is completely depleted so we don't have strange
\* concurrency issues on load/unload/updates etc...": while an admin command
\* is in progress no other command is queued or executed.
AdminExclusive ==
    \A w \in Workers :
        Running(w) /\ worker[w].task.cmd \in AdminOnly =>
            /\ queue = << >>
            /\ \A v \in Workers \ {w} : ~Running(v)

\* The same comment, of every command the bot executes: no automatic step of a
\* flow is in progress either.
AdminAlone ==
    \A w \in Workers, t \in FlowThreads :
        Running(w) /\ worker[w].task.cmd \in AdminOnly => flow[t] = None

\* A command that was found when it was accepted is still registered when its
\* thread looks it up again, unless the bot got disconnected in between.
NoStaleLookup == \A t \in Outstanding : t.undisturbed => t.cmd \in registry

\* "Avoids duplicate history items": what !! and !<n> count stays distinct,
\* and the deque does not outgrow its maxlen.
HistoryDistinct ==
    \A u \in Users :
        /\ Len(history[u]) <= MaxHistory
        /\ \A i, j \in DOMAIN history[u] : history[u][i] = history[u][j] => i = j

\* The dispatcher always comes back from draining the pool and from waiting
\* for an admin command, so the bot does not stop answering.
DispatcherReturns ==
    disp.pc \in {"join", "wait"} ~> disp.pc \notin {"join", "wait"}

\* The dispatcher with its pool implements CommandExclusion.
Mode ==
    IF Outstanding = {} THEN "idle"
    ELSE IF \A t \in Outstanding : t.cmd \notin AdminOnly THEN "shared"
    ELSE IF AdminExclusive /\ Len(queue) <= 1
              /\ (queue # << >> => \A w \in Workers : ~Running(w))
         THEN "exclusive" ELSE "mixed"

Exclusion == INSTANCE CommandExclusion WITH mode <- Mode

ImplementsExclusion == Exclusion!Spec
=============================================================================
