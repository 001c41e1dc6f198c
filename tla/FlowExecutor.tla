---------------------------- MODULE FlowExecutor ----------------------------
(***************************************************************************)
(* The flow executor of errbot (errbot/flow.py and core_plugins/flows.py). *)
(*                                                                         *)
(* A flow is a conversation that walks a graph of commands.  Two kinds of  *)
(* threads work on the same Flow objects: the workers of the command pool, *)
(* which call trigger(), start_flow() and stop_flow() for the sender of a  *)
(* command, and the threads of the executor's own pool, which run          *)
(* execute().  in_flight is guarded by a lock; the current step of a flow  *)
(* and the time between a check and its consequence are not.               *)
(*                                                                         *)
(* Predicates are functions of the plugin over a dict that its commands    *)
(* change, so a predicate that was given by the plugin (AutoEdges) answers *)
(* anything each time it is asked; the default predicate answers False.    *)
(***************************************************************************)
EXTENDS Integers, Sequences, FiniteSets, SequencesExt

CONSTANTS
    Senders, Rooms, RoomOf,     \* who sends commands, and from which room
    Commands, Nodes, Roots, FLOW_END, Children, CommandOf,   \* the graphs
    AutoEdges,                  \* edges with a predicate of the plugin
    Hints, AutoTriggers, RoomFlows,
    Flows,                      \* the Flow objects that can be created
    Workers, Executors,         \* threads of the two pools
    MaxPending,                 \* bound on the queue of the executor's pool
    None

ASSUME FlowAssumption ==
    /\ RoomOf \in [Senders -> Rooms \cup {None}]
    /\ Senders \cap Rooms = {} /\ None \notin Senders \cup Rooms
    /\ Roots \subseteq Nodes /\ FLOW_END \in Nodes \ Roots
    /\ Children \in [Nodes -> Seq(Nodes)] /\ Children[FLOW_END] = << >>
    /\ CommandOf \in [Nodes -> Commands \cup {None}]
    /\ \A n \in Nodes : \A k \in DOMAIN Children[n] :
         Children[n][k] = FLOW_END \/ CommandOf[Children[n][k]] # None
    /\ None \notin Commands \cup Nodes \cup Flows
    /\ AutoEdges \subseteq Nodes \X Nodes
    /\ Hints \subseteq Nodes /\ Roots \cup {FLOW_END} \subseteq Hints
    /\ AutoTriggers \in [Roots -> SUBSET Commands] /\ RoomFlows \subseteq Roots
    /\ \A r \in Roots : \A c \in AutoTriggers[r] :
         \E k \in DOMAIN Children[r] : CommandOf[Children[r][k]] = c
    /\ MaxPending \in Nat

VARIABLES
    root, requestor, step,  \* the attributes of each Flow object
    in_flight,              \* FlowExecutor.in_flight
    pool,                   \* tasks of FlowExecutor._pool not taken yet
    worker,                 \* what each command worker is doing
    exec,                   \* what each executor thread is doing
    told,                   \* outcome of execute() since the last advance
    stopped,                \* flows that stop_flow() has returned
    held,                   \* those of them that were in hand at that time
    beside                  \* flows that were in hand when a flow was created

flowVars == <<root, requestor, step, beside>>
vars == <<root, requestor, step, in_flight, pool, worker, exec, told, stopped,
          held, beside>>

Created == {f \in Flows : root[f] # None}
IsChild(n, m) == \E k \in DOMAIN Children[n] : Children[n][k] = m

IdleWorker == [pc |-> "idle", sender |-> None, cmd |-> None, flow |-> None,
               next |-> None, pos |-> 0]
IdleExec == [pc |-> "idle", flow |-> None, at |-> None, todo |-> {}]

\* Mutant: any member of any room matches a flow bound to a room.
CheckIdentifierAnyRoom(f, s) == requestor[f] = s \/ requestor[f] \in Rooms

\* Flow.check_identifier
CheckIdentifier(f, s) ==
    \/ requestor[f] = s
    \/ requestor[f] \in Rooms /\ RoomOf[s] = requestor[f]

\* FlowExecutor.check_inflight_already_running
AlreadyRunning(s) == \E i \in DOMAIN in_flight : requestor[in_flight[i]] = s

\* The flow at position i of in_flight is one s may continue with command c.
Awaits(i, s, c) ==
    /\ CheckIdentifier(in_flight[i], s)
    /\ \E n \in Nodes : IsChild(step[in_flight[i]], n) /\ CommandOf[n] = c

\* The flows some worker has found or created and not enqueued yet.
InHand == {worker[w].flow : w \in {u \in Workers : worker[u].pc \in {"advance", "enqueue"}}}

\* Mutant: the new flow is not linked to its root.
CreateFlowRootless(f, r, who) ==
    /\ f \in Flows \ Created
    /\ requestor' = [requestor EXCEPT ![f] = who]
    /\ step' = [step EXCEPT ![f] = r]
    /\ UNCHANGED <<root, beside>>

\* Flow(root, identity, context): a new object, not registered anywhere yet.
CreateFlow(f, r, who) ==
    /\ f \in Flows \ Created
    /\ root' = [root EXCEPT ![f] = r]
    /\ requestor' = [requestor EXCEPT ![f] = who]
    /\ step' = [step EXCEPT ![f] = r]
    /\ beside' = [beside EXCEPT ![f] = InHand]

\* Mutant: the step is looked up by its command in the whole graph.
FirstChildAnywhere(n, c, m) == CommandOf[m] = c

\* The first child of node n that is linked to command c.
FirstChild(n, c, m) ==
    \E k \in DOMAIN Children[n] :
        /\ m = Children[n][k] /\ CommandOf[m] = c
        /\ \A j \in DOMAIN Children[n] : CommandOf[Children[n][j]] = c => k <= j

-----------------------------------------------------------------------------
(* The command workers: one command after another, for any sender.         *)

\* A command has been executed with success; trigger() is called for it.
CommandDone(w, s, c) ==
    /\ worker[w].pc = "idle"
    /\ worker' = [worker EXCEPT
                    ![w] = [IdleWorker EXCEPT !.pc = "check", !.sender = s, !.cmd = c]]
    /\ UNCHANGED <<flowVars, in_flight, pool, exec, told, stopped, held>>

\* trigger: check_inflight_flow_triggered finds the first flow that waits
\* for the command ...
TriggerInFlight(w) ==
    /\ worker[w].pc = "check"
    /\ \E i \in DOMAIN in_flight, m \in Nodes :
        /\ Awaits(i, worker[w].sender, worker[w].cmd)
        /\ \A j \in 1..(i - 1) : ~Awaits(j, worker[w].sender, worker[w].cmd)
        /\ FirstChild(step[in_flight[i]], worker[w].cmd, m)
        /\ worker' = [worker EXCEPT ![w].pc = "advance",
                                    ![w].flow = in_flight[i], ![w].next = m]
    /\ UNCHANGED <<flowVars, in_flight, pool, exec, told, stopped, held>>

\* ... or finds none.
TriggerNoInFlight(w) ==
    /\ worker[w].pc = "check"
    /\ \A i \in DOMAIN in_flight : ~Awaits(i, worker[w].sender, worker[w].cmd)
    /\ worker' = [worker EXCEPT ![w].pc = "check_new"]
    /\ UNCHANGED <<flowVars, in_flight, pool, exec, told, stopped, held>>

\* _check_if_new_flow_is_triggered: the roots are tried in the order the flow
\* plugins were loaded, which is arbitrary here.
TriggerNew(w) ==
    /\ worker[w].pc = "check_new"
    /\ \E r \in Roots, f \in Flows, m \in Nodes :
        /\ worker[w].cmd \in AutoTriggers[r] /\ ~AlreadyRunning(worker[w].sender)
        /\ FirstChild(r, worker[w].cmd, m)
        /\ CreateFlow(f, r, worker[w].sender)
        /\ worker' = [worker EXCEPT ![w].pc = "advance",
                                    ![w].flow = f, ![w].next = m]
    /\ UNCHANGED <<in_flight, pool, exec, told, stopped, held>>

TriggerNothing(w) ==
    /\ worker[w].pc = "check_new"
    /\ \/ AlreadyRunning(worker[w].sender)
       \/ \A r \in Roots : worker[w].cmd \notin AutoTriggers[r]
       \/ Created = Flows      \* bound: every Flow object of the model is used
    /\ worker' = [worker EXCEPT ![w] = IdleWorker]
    /\ UNCHANGED <<flowVars, in_flight, pool, exec, told, stopped, held>>

\* trigger: flow.advance(next_step, enforce_predicate=False), without the lock.
TriggerAdvance(w) ==
    /\ worker[w].pc = "advance"
    /\ step' = [step EXCEPT ![worker[w].flow] = worker[w].next]
    /\ told' = [told EXCEPT ![worker[w].flow] = "nothing"]
    /\ worker' = [worker EXCEPT ![w].pc = "enqueue"]
    /\ UNCHANGED <<root, requestor, beside, in_flight, pool, exec, stopped, held>>

\* Mutants: appended without the test; not submitted again when in flight.
EnqueueAlways(w) ==
    /\ worker[w].pc = "enqueue"
    /\ in_flight' = Append(in_flight, worker[w].flow)
    /\ worker' = [worker EXCEPT ![w].pc = "submit"]
    /\ UNCHANGED <<flowVars, pool, exec, told, stopped, held>>

EnqueueOnce(w) ==
    /\ worker[w].pc = "enqueue"
    /\ IF Contains(in_flight, worker[w].flow)
         THEN /\ worker' = [worker EXCEPT ![w] = IdleWorker]
              /\ in_flight' = in_flight
         ELSE /\ worker' = [worker EXCEPT ![w].pc = "submit"]
              /\ in_flight' = Append(in_flight, worker[w].flow)
    /\ UNCHANGED <<flowVars, pool, exec, told, stopped, held>>

\* _enqueue_flow, the part under the lock.
Enqueue(w) ==
    /\ worker[w].pc = "enqueue"
    /\ in_flight' = IF Contains(in_flight, worker[w].flow)
                      THEN in_flight
                      ELSE Append(in_flight, worker[w].flow)
    /\ worker' = [worker EXCEPT ![w].pc = "submit"]
    /\ UNCHANGED <<flowVars, pool, exec, told, stopped, held>>

\* _enqueue_flow: self._pool.apply_async(self.execute, (flow,)).
Submit(w) ==
    /\ worker[w].pc = "submit"
    /\ Len(pool) < MaxPending
    /\ pool' = Append(pool, worker[w].flow)
    /\ worker' = [worker EXCEPT ![w] = IdleWorker]
    /\ UNCHANGED <<flowVars, in_flight, exec, told, stopped, held>>

\* Mutant: start_flow does not look for a running flow.
StartFlowUnchecked(w, s, r, f) ==
    /\ worker[w].pc = "idle"
    /\ CreateFlow(f, r, s)
    /\ worker' = [worker EXCEPT
                    ![w] = [IdleWorker EXCEPT !.pc = "enqueue", !.flow = f]]
    /\ UNCHANGED <<in_flight, pool, exec, told, stopped, held>>

\* !flows start: start_flow.  The check holds the lock, what follows does not.
StartFlow(w, s, r, f) ==
    /\ worker[w].pc = "idle"
    /\ ~AlreadyRunning(s)
    /\ CreateFlow(f, r, IF r \in RoomFlows /\ RoomOf[s] # None THEN RoomOf[s] ELSE s)
    /\ worker' = [worker EXCEPT
                    ![w] = [IdleWorker EXCEPT !.pc = "enqueue", !.flow = f]]
    /\ UNCHANGED <<in_flight, pool, exec, told, stopped, held>>

\* Mutant: the oldest flow is removed instead of the one that was found.
StopFirstPopsHead(r, s) ==
    IF \E i \in DOMAIN in_flight :
         root[in_flight[i]] = r /\ CheckIdentifier(in_flight[i], s)
    THEN \E i \in DOMAIN in_flight :
           /\ root[in_flight[i]] = r /\ CheckIdentifier(in_flight[i], s)
           /\ in_flight' = Tail(in_flight)
           /\ stopped' = stopped \cup {in_flight[i]}
           /\ held' = held \cup ({in_flight[i]} \cap InHand)
    ELSE UNCHANGED <<in_flight, stopped, held>>

\* stop_flow(name, requestor), with the lock held.
StopFirst(r, s) ==
    LET Hit(i) == root[in_flight[i]] = r /\ CheckIdentifier(in_flight[i], s)
    IN  IF \E i \in DOMAIN in_flight : Hit(i)
        THEN \E i \in DOMAIN in_flight :
               /\ Hit(i) /\ \A j \in 1..(i - 1) : ~Hit(j)
               /\ in_flight' = RemoveAt(in_flight, i)
               /\ stopped' = stopped \cup {in_flight[i]}
               /\ held' = held \cup ({in_flight[i]} \cap InHand)
        ELSE UNCHANGED <<in_flight, stopped, held>>

\* !flows stop <name>, and !flows kill by an admin in the name of s.
StopFlow(w, s, r) ==
    /\ worker[w].pc = "idle"
    /\ StopFirst(r, s)
    /\ UNCHANGED <<flowVars, pool, worker, exec, told>>

\* !flows stop without a name iterates over the live list in_flight ...
StopAll(w, s) ==
    /\ worker[w].pc = "idle"
    /\ worker' = [worker EXCEPT
                    ![w] = [IdleWorker EXCEPT !.pc = "stop_all", !.sender = s, !.pos = 1]]
    /\ UNCHANGED <<flowVars, in_flight, pool, exec, told, stopped, held>>

\* ... so the position moves on whether or not an element is removed.  The list
\* is read without the lock ...
StopAllNext(w) ==
    /\ worker[w].pc = "stop_all"
    /\ worker[w].pos \in DOMAIN in_flight
    /\ LET f == in_flight[worker[w].pos]
       IN  worker' = [worker EXCEPT
             ![w].pos = @ + 1,
             ![w].pc = IF requestor[f] = worker[w].sender THEN "stop_one" ELSE @,
             ![w].flow = f]
    /\ UNCHANGED <<flowVars, in_flight, pool, exec, told, stopped, held>>

\* ... and stop_flow is called with the name of the flow that was read, by when
\* other threads may have moved the list.
StopAllOne(w) ==
    /\ worker[w].pc = "stop_one"
    /\ StopFirst(root[worker[w].flow], worker[w].sender)
    /\ worker' = [worker EXCEPT ![w].pc = "stop_all"]
    /\ UNCHANGED <<flowVars, pool, exec, told>>

StopAllDone(w) ==
    /\ worker[w].pc = "stop_all"
    /\ worker[w].pos \notin DOMAIN in_flight
    /\ worker' = [worker EXCEPT ![w] = IdleWorker]
    /\ UNCHANGED <<flowVars, in_flight, pool, exec, told, stopped, held>>

-----------------------------------------------------------------------------
(* The executor threads: execute(flow).                                    *)

Take(e) ==
    /\ exec[e].pc = "idle" /\ pool # << >>
    /\ exec' = [exec EXCEPT ![e] = [IdleExec EXCEPT !.pc = "auto", !.flow = Head(pool)]]
    /\ pool' = Tail(pool)
    /\ UNCHANGED <<flowVars, in_flight, worker, told, stopped, held>>

\* flow.next_autosteps(): the children whose predicate holds, as positions.
ReadAutosteps(e) ==
    /\ exec[e].pc = "auto"
    /\ LET n == step[exec[e].flow]
           auto == {k \in DOMAIN Children[n] : <<n, Children[n][k]>> \in AutoEdges}
       IN  \E t \in SUBSET auto :
             exec' = [exec EXCEPT ![e].pc = "steps", ![e].at = n, ![e].todo = t]
    /\ UNCHANGED <<flowVars, in_flight, pool, worker, told, stopped, held>>

\* flow.next_steps(), a second read of the current step: it decides how the
\* round goes on, and is what the hints are about when there is no autostep.
ReadSteps(e) ==
    /\ exec[e].pc = "steps"
    /\ LET n == step[exec[e].flow]
       IN  exec' = [exec EXCEPT
             ![e].pc = IF Children[n] = << >> THEN "remove"
                       ELSE IF exec[e].todo = {} THEN "hint" ELSE "run",
             ![e].at = IF exec[e].todo = {} THEN n ELSE @]
    /\ UNCHANGED <<flowVars, in_flight, pool, worker, told, stopped, held>>

\* Mutant: the loop is not left after the hints.
SendHintsForever(e) ==
    /\ exec[e].pc = "hint"
    /\ step[exec[e].flow] \in Hints
    /\ exec' = [exec EXCEPT ![e].pc = "auto"]
    /\ UNCHANGED <<flowVars, in_flight, pool, worker, told, stopped, held>>

\* The hints name the command of every next step; FLOW_END has none, and the
\* look-up of its command in all_commands kills the task.
SendHints(e) ==
    /\ exec[e].pc = "hint"
    /\ LET f == exec[e].flow
       IN  /\ step[f] \in Hints
           /\ told' = [told EXCEPT ![f] =
                         IF \E m \in Nodes : IsChild(exec[e].at, m) /\ CommandOf[m] = None
                         THEN "died"
                         ELSE IF exec[e].at = step[f] THEN "hinted" ELSE @]
    /\ exec' = [exec EXCEPT ![e] = IdleExec]
    /\ UNCHANGED <<flowVars, in_flight, pool, worker, stopped, held>>

\* Without hints and without autosteps the loop starts over.
Spin(e) ==
    /\ exec[e].pc = "hint"
    /\ step[exec[e].flow] \notin Hints
    /\ exec' = [exec EXCEPT ![e].pc = "auto", ![e].at = None]
    /\ UNCHANGED <<flowVars, in_flight, pool, worker, told, stopped, held>>

\* The next autostep of the round: FLOW_END ends the flow, any other step's
\* command is run in this thread, whatever its outcome.
FirstTodo(e, k) == k \in exec[e].todo /\ \A j \in exec[e].todo : k <= j

RunAutostep(e) ==
    /\ exec[e].pc = "run"
    /\ \E k \in exec[e].todo :
        /\ FirstTodo(e, k)
        /\ exec' = [exec EXCEPT ![e].pc =
                      IF Children[exec[e].at][k] = FLOW_END THEN "remove" ELSE "check"]
    /\ UNCHANGED <<flowVars, in_flight, pool, worker, told, stopped, held>>

\* flow.advance(autostep) finds the edge from the current step and asks its
\* predicate; ValueError and InvalidState kill the task.
CheckAutostep(e) ==
    /\ exec[e].pc = "check"
    /\ \E k \in exec[e].todo :
        /\ FirstTodo(e, k)
        /\ LET f == exec[e].flow
               edge == <<step[f], Children[exec[e].at][k]>>
           IN  \/ /\ IsChild(edge[1], edge[2]) /\ edge \in AutoEdges
                  /\ exec' = [exec EXCEPT ![e].pc = "set"]
                  /\ told' = told
               \/ /\ exec' = [exec EXCEPT ![e] = IdleExec]
                  /\ told' = [told EXCEPT ![f] = "died"]
    /\ UNCHANGED <<flowVars, in_flight, pool, worker, stopped, held>>

\* flow.advance: self._current_step = next_step.
AdvanceAutostep(e) ==
    /\ exec[e].pc = "set"
    /\ \E k \in exec[e].todo :
        /\ FirstTodo(e, k)
        /\ step' = [step EXCEPT ![exec[e].flow] = Children[exec[e].at][k]]
        /\ told' = [told EXCEPT ![exec[e].flow] = "nothing"]
        /\ exec' = [exec EXCEPT ![e].todo = @ \ {k},
                      ![e].pc = IF exec[e].todo = {k} THEN "auto" ELSE "run",
                      ![e].at = IF exec[e].todo = {k} THEN None ELSE @]
    /\ UNCHANGED <<root, requestor, beside, in_flight, pool, worker, stopped, held>>

\* self.in_flight.remove(flow), with the lock; a flow that is gone already
\* raises ValueError, which ends the task just the same.
RemoveFlow(e) ==
    /\ exec[e].pc = "remove"
    /\ IF Contains(in_flight, exec[e].flow)
         THEN \E i \in DOMAIN in_flight :
                /\ in_flight[i] = exec[e].flow
                /\ \A j \in 1..(i - 1) : in_flight[j] # exec[e].flow
                /\ in_flight' = RemoveAt(in_flight, i)
         ELSE in_flight' = in_flight
    /\ exec' = [exec EXCEPT ![e] = IdleExec]
    /\ UNCHANGED <<flowVars, pool, worker, told, stopped, held>>

-----------------------------------------------------------------------------
Init ==
    /\ root = [f \in Flows |-> None]
    /\ requestor = [f \in Flows |-> None]
    /\ step = [f \in Flows |-> None]
    /\ in_flight = << >>
    /\ pool = << >>
    /\ worker = [w \in Workers |-> IdleWorker]
    /\ exec = [e \in Executors |-> IdleExec]
    /\ told = [f \in Flows |-> "nothing"]
    /\ stopped = {} /\ held = {}
    /\ beside = [f \in Flows |-> {}]

WorkerCommand(w) ==
    \/ \E s \in Senders, c \in Commands : CommandDone(w, s, c)
    \/ \E s \in Senders, r \in Roots, f \in Flows : StartFlow(w, s, r, f)
    \/ \E s \in Senders, r \in Roots : StopFlow(w, s, r)
    \/ \E s \in Senders : StopAll(w, s)

WorkerStep(w) ==
    \/ TriggerInFlight(w) \/ TriggerNoInFlight(w)
    \/ TriggerNew(w) \/ TriggerNothing(w)
    \/ TriggerAdvance(w) \/ Enqueue(w) \/ Submit(w)
    \/ StopAllNext(w) \/ StopAllOne(w) \/ StopAllDone(w)

ExecStep(e) ==
    \/ Take(e) \/ ReadAutosteps(e) \/ ReadSteps(e)
    \/ SendHints(e) \/ Spin(e)
    \/ RunAutostep(e) \/ CheckAutostep(e) \/ AdvanceAutostep(e)
    \/ RemoveFlow(e)

Next ==
    \/ \E w \in Workers : WorkerCommand(w) \/ WorkerStep(w)
    \/ \E e \in Executors : ExecStep(e)

Spec == Init /\ [][Next]_vars

\* The threads of both pools keep running; nobody has to send a command.
Fairness ==
    /\ \A w \in Workers : WF_vars(WorkerStep(w))
    /\ \A e \in Executors : WF_vars(ExecStep(e))

FairSpec == Spec /\ Fairness
-----------------------------------------------------------------------------
(* Properties.                                                             *)

WorkerPc == {"idle", "check", "check_new", "advance", "enqueue", "submit",
             "stop_all", "stop_one"}
ExecPc == {"idle", "auto", "steps", "hint", "run", "check", "set", "remove"}

\* The type of every variable of the executor.
TypeOK ==
    /\ root \in [Flows -> Roots \cup {None}]
    /\ requestor \in [Flows -> Senders \cup Rooms \cup {None}]
    /\ step \in [Flows -> Nodes \cup {None}]
    /\ in_flight \in Seq(Created)
    /\ pool \in Seq(Created)
    /\ worker \in [Workers -> [pc : WorkerPc, sender : Senders \cup {None},
                               cmd : Commands \cup {None}, flow : Flows \cup {None},
                               next : Nodes \cup {None}, pos : Nat]]
    /\ exec \in [Executors -> [pc : ExecPc, flow : Flows \cup {None},
                               at : Nodes \cup {None}, todo : SUBSET Nat]]
    /\ told \in [Flows -> {"nothing", "hinted", "died"}]
    /\ stopped \subseteq Created /\ held \subseteq stopped
    /\ beside \in [Flows -> SUBSET Flows]

\* in_flight holds a flow once: remove() takes out one occurrence only, so a
\* second one would survive the end of the flow (_enqueue_flow tests and
\* appends under the lock).
InFlightOnce ==
    \A i, j \in DOMAIN in_flight : in_flight[i] = in_flight[j] => i = j

\* No thread has, or is about to get, the flow f.
Unattended(f) ==
    /\ \A i \in DOMAIN pool : pool[i] # f
    /\ \A e \in Executors : exec[e].pc # "idle" => exec[e].flow # f
    /\ \A w \in Workers : worker[w].pc \in {"advance", "enqueue", "submit"}
                             => worker[w].flow # f

ManualGraph == AutoEdges = {} /\ \A n \in Nodes : ~IsChild(n, FLOW_END)

\* No flow is forgotten: one that waits in in_flight with no thread at work on
\* it has had its user told how to continue from the step it is at now, or
\* execute() died on it, which needs an automatic step or a hinted FLOW_END.
WaitingFlowsAreTold ==
    \A i \in DOMAIN in_flight :
        Unattended(in_flight[i]) =>
            \/ told[in_flight[i]] = "hinted"
            \/ told[in_flight[i]] = "died" /\ ~ManualGraph

\* A conversation belongs to its requestor: a flow moves only by an executor
\* that found its predicate true, or by a command of the person (or of a
\* member of the room) that the flow is bound to.
OnlyRequestorAdvances ==
    [][\A f \in Flows : f \in Created /\ step'[f] # step[f] =>
         \/ \E e \in Executors : exec[e].pc = "set" /\ exec[e].flow = f
         \/ \E w \in Workers : /\ worker[w].pc = "advance" /\ worker[w].flow = f
                               /\ requestor[f] \in {worker[w].sender, RoomOf[worker[w].sender]}]_vars

\* A flow never leaves its graph: in every set of nodes that holds its root and
\* the children of its members, the current step is one of the members.
StaysInGraph ==
    \A f \in Created : \A S \in SUBSET Nodes :
        /\ root[f] \in S
        /\ \A n \in S : \A k \in DOMAIN Children[n] : Children[n][k] \in S
        => step[f] \in S

\* Two flows in flight never have the same person as requestor, unless the
\* commands that started or moved them overlapped: one of the two was still in
\* the hand of a command, not enqueued, when the other was created.
SecondFlowOverlapped ==
    \A i, j \in DOMAIN in_flight :
        /\ requestor[in_flight[i]] = requestor[in_flight[j]]
        /\ requestor[in_flight[i]] \in Senders
        => \/ i = j
           \/ in_flight[i] \in beside[in_flight[j]]
           \/ in_flight[j] \in beside[in_flight[i]]

\* Every execution of a flow ends: it suspends, ends or dies, and gives its
\* thread back to the pool of EXECUTOR_THREADS, when every step hints.
ExecutorsReturn ==
    \A e \in Executors : exec[e].pc # "idle" ~> exec[e].pc = "idle"

\* A flow that was stopped is in flight again only if a command had found or
\* created it before the stop and enqueued it after.
OnlyHeldFlowsReturn == \A f \in stopped \ held : ~Contains(in_flight, f)

\* stop_flow: "Stops a specific flow."  A flow that was stopped is not in flight
\* again, which the code does not keep.
StoppedStaysOut == \A f \in stopped : ~Contains(in_flight, f)
=============================================================================
