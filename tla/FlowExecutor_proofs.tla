------------------------ MODULE FlowExecutor_proofs ------------------------
(***************************************************************************)
(* Proofs about FlowExecutor, for every graph, every number of senders,    *)
(* flows and threads.                                                      *)
(***************************************************************************)
EXTENDS FlowExecutor, SeqLemmas

-----------------------------------------------------------------------------
(* Types.  Beyond TypeOK, the threads hold Flow objects that exist, so the  *)
(* lists of flows only hold such objects as well.                           *)

WorkerRec == [pc : WorkerPc, sender : Senders \cup {None}, cmd : Commands \cup {None},
              flow : Flows \cup {None}, next : Nodes \cup {None}, pos : Nat]
ExecRec == [pc : ExecPc, flow : Flows \cup {None}, at : Nodes \cup {None}, todo : SUBSET Nat]

Carries == {"advance", "enqueue", "submit"}

\* A worker record and an executor record that are sound when C is created.
SoundWorker(v, C) ==
    /\ v \in WorkerRec
    /\ v.pc \in {"check", "check_new", "advance", "stop_all", "stop_one"} => v.sender \in Senders
    /\ v.pc \in {"check", "check_new"} => v.cmd \in Commands
    /\ v.pc \in Carries \cup {"stop_one"} => v.flow \in C
    /\ v.pc = "advance" => v.next \in Nodes

SoundExec(x, C) ==
    /\ x \in ExecRec
    /\ x.pc # "idle" => x.flow \in C
    /\ x.pc \in {"steps", "hint", "run", "check", "set"}
         => x.at \in Nodes /\ x.todo \subseteq DOMAIN Children[x.at]
    /\ x.pc \in {"run", "check", "set"} => x.todo # {}

FlowsSound ==
    /\ root \in [Flows -> Roots \cup {None}]
    /\ requestor \in [Flows -> Senders \cup Rooms \cup {None}]
    /\ step \in [Flows -> Nodes \cup {None}]
    /\ beside \in [Flows -> SUBSET Flows]
    /\ \A f \in Created : requestor[f] \in Senders \cup Rooms /\ step[f] \in Nodes

ListsSound ==
    /\ in_flight \in Seq(Created)
    /\ pool \in Seq(Created)
    /\ told \in [Flows -> {"nothing", "hinted", "died"}]
    /\ stopped \subseteq Created /\ held \subseteq stopped

WorkersSound ==
    /\ worker \in [Workers -> WorkerRec]
    /\ \A w \in Workers : SoundWorker(worker[w], Created)

ExecsSound ==
    /\ exec \in [Executors -> ExecRec]
    /\ \A e \in Executors : SoundExec(exec[e], Created)

TypeInv == FlowsSound /\ ListsSound /\ WorkersSound /\ ExecsSound

LEMMA TypeInvTypeOK == TypeInv => TypeOK
  BY DEF TypeInv, TypeOK, FlowsSound, ListsSound, WorkersSound, ExecsSound,
     SoundWorker, SoundExec, WorkerRec, ExecRec

\* What an action that leaves the Flow objects alone preserves.
LEMMA SameFlows ==
    ASSUME TypeInv, UNCHANGED flowVars
    PROVE  FlowsSound' /\ Created' = Created
  BY DEF TypeInv, FlowsSound, Created, flowVars

\* What an action that leaves the lists, the workers or the executors alone
\* preserves while flows may be created.
LEMMA SameLists ==
    ASSUME TypeInv, Created \subseteq Created',
           UNCHANGED <<in_flight, pool, told, stopped, held>>
    PROVE  ListsSound'
  <1>1. in_flight \in Seq(Created') /\ pool \in Seq(Created')
    BY SeqMonotonic DEF TypeInv, ListsSound
  <1>2. QED
    BY <1>1 DEF TypeInv, ListsSound

LEMMA SameWorkers ==
    ASSUME TypeInv, Created \subseteq Created', UNCHANGED worker
    PROVE  WorkersSound'
  BY DEF TypeInv, WorkersSound, SoundWorker

LEMMA SameExecs ==
    ASSUME TypeInv, Created \subseteq Created', UNCHANGED exec
    PROVE  ExecsSound'
  BY DEF TypeInv, ExecsSound, SoundExec

\* One worker, or one executor, goes over to a sound record.
LEMMA OneWorker ==
    ASSUME TypeInv, Created \subseteq Created', NEW w \in Workers, NEW v,
           SoundWorker(v, Created'), worker' = [worker EXCEPT ![w] = v]
    PROVE  WorkersSound'
  BY DEF TypeInv, WorkersSound, SoundWorker

LEMMA OneExec ==
    ASSUME TypeInv, Created \subseteq Created', NEW e \in Executors, NEW x,
           SoundExec(x, Created'), exec' = [exec EXCEPT ![e] = x]
    PROVE  ExecsSound'
  BY DEF TypeInv, ExecsSound, SoundExec

\* The record of an idle thread is sound.
LEMMA IdleSound == \A C : SoundWorker(IdleWorker, C) /\ SoundExec(IdleExec, C)
  BY DEF SoundWorker, SoundExec, IdleWorker, IdleExec, WorkerRec, ExecRec, WorkerPc,
     ExecPc, Carries

\* The fields of a record that an action changes in part.
LEMMA WorkerTurns ==
    ASSUME NEW v \in WorkerRec, NEW pc \in WorkerPc
    PROVE  LET u == [v EXCEPT !.pc = pc]
           IN  /\ u \in WorkerRec /\ u.pc = pc
               /\ u.sender = v.sender /\ u.cmd = v.cmd /\ u.flow = v.flow /\ u.next = v.next
  BY DEF WorkerRec

\* What the type invariant says of one thread.
LEMMA ThreadSound ==
    ASSUME TypeInv
    PROVE  /\ \A w \in Workers : worker[w] \in WorkerRec /\ SoundWorker(worker[w], Created)
           /\ \A e \in Executors : exec[e] \in ExecRec /\ SoundExec(exec[e], Created)
  BY DEF TypeInv, WorkersSound, ExecsSound, SoundWorker, SoundExec

\* A new Flow object is sound, and the flows created before stay.
LEMMA CreateFlowSound ==
    ASSUME TypeInv, NEW f, NEW r \in Roots, NEW who \in Senders \cup Rooms,
           CreateFlow(f, r, who)
    PROVE  FlowsSound' /\ Created' = Created \cup {f} /\ f \in Flows
  <1>1. InHand \subseteq Flows
    BY ThreadSound DEF InHand, SoundWorker, Carries, Created
  <1>2. QED
    BY <1>1, FlowAssumption DEF TypeInv, FlowsSound, CreateFlow, Created

\* stop_flow only takes flows out.
LEMMA StopFirstSound ==
    ASSUME TypeInv, NEW r, NEW s, StopFirst(r, s)
    PROVE  in_flight' \in Seq(Created) /\ stopped' \subseteq Created /\ held' \subseteq stopped'
  <1>1. \A i \in DOMAIN in_flight : RemoveAt(in_flight, i) \in Seq(Created) /\ in_flight[i] \in Created
    BY RemoveAtElements, LenProperties, ElementOfSeq DEF TypeInv, ListsSound
  <1>2. QED
    BY <1>1 DEF StopFirst, TypeInv, ListsSound

\* Every action preserves the type invariant: the Flow objects, the lists, the
\* workers and the executors, each by the lemma for what the action does to it.
LEMMA TypeInvStep == TypeInv /\ [Next]_vars => TypeInv'
  <1> SUFFICES ASSUME TypeInv, [Next]_vars PROVE TypeInv'
    OBVIOUS
  <1>1. ASSUME NEW w \in Workers, NEW s \in Senders, NEW c \in Commands, CommandDone(w, s, c)
        PROVE  TypeInv'
    <2> DEFINE v == [IdleWorker EXCEPT !.pc = "check", !.sender = s, !.cmd = c]
    <2>1. FlowsSound' /\ Created' = Created /\ ListsSound' /\ ExecsSound'
      BY <1>1, SameFlows, SameLists, SameExecs DEF CommandDone
    <2>2. SoundWorker(v, Created) /\ worker' = [worker EXCEPT ![w] = v]
      BY <1>1 DEF CommandDone, IdleWorker, SoundWorker, WorkerRec, WorkerPc, Carries
    <2>3. QED
      BY <2>1, <2>2, OneWorker DEF TypeInv
  <1>2. ASSUME NEW w \in Workers, NEW s \in Senders, NEW r \in Roots, NEW f \in Flows,
               StartFlow(w, s, r, f)
        PROVE  TypeInv'
    <2> DEFINE who == IF r \in RoomFlows /\ RoomOf[s] # None THEN RoomOf[s] ELSE s
               v == [IdleWorker EXCEPT !.pc = "enqueue", !.flow = f]
    <2>1. who \in Senders \cup Rooms /\ CreateFlow(f, r, who)
      BY <1>2, FlowAssumption DEF StartFlow
    <2>2. FlowsSound' /\ Created \subseteq Created' /\ f \in Created'
      BY <2>1, CreateFlowSound
    <2>3. ListsSound' /\ ExecsSound'
      BY <1>2, <2>2, SameLists, SameExecs DEF StartFlow
    <2>4. SoundWorker(v, Created') /\ worker' = [worker EXCEPT ![w] = v]
      BY <1>2, <2>2 DEF StartFlow, IdleWorker, SoundWorker, WorkerRec, WorkerPc, Carries
    <2>5. QED
      BY <2>2, <2>3, <2>4, OneWorker DEF TypeInv
  <1>3. ASSUME NEW w \in Workers, NEW s \in Senders, NEW r \in Roots, StopFlow(w, s, r)
        PROVE  TypeInv'
    <2>1. FlowsSound' /\ Created' = Created /\ WorkersSound' /\ ExecsSound'
      BY <1>3, SameFlows, SameWorkers, SameExecs DEF StopFlow
    <2>2. ListsSound'
      BY <1>3, <2>1, StopFirstSound DEF StopFlow, TypeInv, ListsSound
    <2>3. QED
      BY <2>1, <2>2 DEF TypeInv
  <1>4. ASSUME NEW w \in Workers, NEW s \in Senders, StopAll(w, s)
        PROVE  TypeInv'
    <2> DEFINE v == [IdleWorker EXCEPT !.pc = "stop_all", !.sender = s, !.pos = 1]
    <2>1. FlowsSound' /\ Created' = Created /\ ListsSound' /\ ExecsSound'
      BY <1>4, SameFlows, SameLists, SameExecs DEF StopAll
    <2>2. SoundWorker(v, Created) /\ worker' = [worker EXCEPT ![w] = v]
      BY <1>4 DEF StopAll, IdleWorker, SoundWorker, WorkerRec, WorkerPc, Carries
    <2>3. QED
      BY <2>1, <2>2, OneWorker DEF TypeInv
  <1>5. ASSUME NEW w \in Workers, TriggerInFlight(w)
        PROVE  TypeInv'
    <2>1. PICK i \in DOMAIN in_flight, m \in Nodes :
            worker' = [worker EXCEPT ![w].pc = "advance", ![w].flow = in_flight[i], ![w].next = m]
      BY <1>5 DEF TriggerInFlight
    <2> DEFINE v == [worker[w] EXCEPT !.pc = "advance", !.flow = in_flight[i], !.next = m]
    <2>2. FlowsSound' /\ Created' = Created /\ ListsSound' /\ ExecsSound'
      BY <1>5, SameFlows, SameLists, SameExecs DEF TriggerInFlight
    <2>3. in_flight[i] \in Created /\ in_flight[i] \in Flows
      BY <2>1, LenProperties, ElementOfSeq DEF TypeInv, ListsSound, Created
    <2>4. SoundWorker(v, Created)
      <3>1. worker[w] \in WorkerRec /\ worker[w].sender \in Senders /\ m \in Nodes
        BY <1>5, ThreadSound DEF TriggerInFlight, SoundWorker
      <3>2. /\ v \in WorkerRec /\ v.pc = "advance" /\ v.flow = in_flight[i] /\ v.next = m
            /\ v.sender = worker[w].sender
        BY <2>3, <3>1 DEF WorkerRec, WorkerPc
      <3>3. QED
        BY <2>3, <3>1, <3>2 DEF SoundWorker, Carries
    <2>5. worker' = [worker EXCEPT ![w] = v]
      BY <2>1 DEF TypeInv, WorkersSound
    <2>6. QED
      BY <2>2, <2>4, <2>5, OneWorker DEF TypeInv
  <1>6. ASSUME NEW w \in Workers, TriggerNoInFlight(w)
        PROVE  TypeInv'
    <2> DEFINE v == [worker[w] EXCEPT !.pc = "check_new"]
    <2>1. FlowsSound' /\ Created' = Created /\ ListsSound' /\ ExecsSound'
      BY <1>6, SameFlows, SameLists, SameExecs DEF TriggerNoInFlight
    <2>2. SoundWorker(v, Created) /\ worker' = [worker EXCEPT ![w] = v]
      BY <1>6, ThreadSound, WorkerTurns
         DEF TriggerNoInFlight, SoundWorker, WorkerPc, Carries
    <2>3. QED
      BY <2>1, <2>2, OneWorker DEF TypeInv
  <1>7. ASSUME NEW w \in Workers, TriggerNew(w)
        PROVE  TypeInv'
    <2>1. PICK r \in Roots, f \in Flows, m \in Nodes :
            /\ CreateFlow(f, r, worker[w].sender)
            /\ worker' = [worker EXCEPT ![w].pc = "advance", ![w].flow = f, ![w].next = m]
      BY <1>7 DEF TriggerNew
    <2> DEFINE v == [worker[w] EXCEPT !.pc = "advance", !.flow = f, !.next = m]
    <2>2. SoundWorker(worker[w], Created) /\ worker[w].sender \in Senders
      BY <1>7 DEF TriggerNew, TypeInv, WorkersSound, SoundWorker
    <2>3. FlowsSound' /\ Created \subseteq Created' /\ f \in Created'
      BY <2>1, <2>2, CreateFlowSound
    <2>4. ListsSound' /\ ExecsSound'
      BY <1>7, <2>3, SameLists, SameExecs DEF TriggerNew
    <2>5. SoundWorker(v, Created') /\ worker' = [worker EXCEPT ![w] = v]
      <3>1. worker[w] \in WorkerRec /\ m \in Nodes /\ f \in Flows
        BY ThreadSound
      <3>2. /\ v \in WorkerRec /\ v.pc = "advance" /\ v.flow = f /\ v.next = m
            /\ v.sender = worker[w].sender
        BY <3>1 DEF WorkerRec, WorkerPc
      <3>3. QED
        BY <2>1, <2>2, <2>3, <3>1, <3>2 DEF SoundWorker, Carries
    <2>6. QED
      BY <2>3, <2>4, <2>5, OneWorker DEF TypeInv
  <1>8. ASSUME NEW w \in Workers, TriggerNothing(w)
        PROVE  TypeInv'
    <2>1. FlowsSound' /\ Created' = Created /\ ListsSound' /\ ExecsSound'
      BY <1>8, SameFlows, SameLists, SameExecs DEF TriggerNothing
    <2>2. worker' = [worker EXCEPT ![w] = IdleWorker]
      BY <1>8 DEF TriggerNothing
    <2>3. QED
      BY <2>1, <2>2, IdleSound, OneWorker DEF TypeInv
  <1>9. ASSUME NEW w \in Workers, TriggerAdvance(w)
        PROVE  TypeInv'
    <2> DEFINE v == [worker[w] EXCEPT !.pc = "enqueue"]
    <2>1. SoundWorker(v, Created) /\ worker' = [worker EXCEPT ![w] = v]
      BY <1>9, ThreadSound, WorkerTurns
         DEF TriggerAdvance, SoundWorker, WorkerPc, Carries
    <2>2. worker[w].flow \in Created /\ worker[w].next \in Nodes
      BY <1>9 DEF TriggerAdvance, TypeInv, WorkersSound, SoundWorker, Carries
    <2>3. FlowsSound' /\ Created' = Created
      BY <1>9, <2>2 DEF TriggerAdvance, TypeInv, FlowsSound, Created
    <2>4. ListsSound'
      BY <1>9, <2>3 DEF TriggerAdvance, TypeInv, ListsSound
    <2>5. ExecsSound'
      BY <1>9, <2>3, SameExecs DEF TriggerAdvance
    <2>6. QED
      BY <2>1, <2>3, <2>4, <2>5, OneWorker DEF TypeInv
  <1>10. ASSUME NEW w \in Workers, Enqueue(w)
         PROVE  TypeInv'
    <2> DEFINE v == [worker[w] EXCEPT !.pc = "submit"]
    <2>1. FlowsSound' /\ Created' = Created /\ ExecsSound'
      BY <1>10, SameFlows, SameExecs DEF Enqueue
    <2>2. worker[w].flow \in Created
      BY <1>10 DEF Enqueue, TypeInv, WorkersSound, SoundWorker, Carries
    <2>3. SoundWorker(v, Created) /\ worker' = [worker EXCEPT ![w] = v]
      BY <1>10, ThreadSound, WorkerTurns DEF Enqueue, SoundWorker, WorkerPc, Carries
    <2>4. Append(in_flight, worker[w].flow) \in Seq(Created)
      BY <2>2, AppendElements DEF TypeInv, ListsSound
    <2>5. ListsSound'
      BY <1>10, <2>1, <2>4 DEF Enqueue, TypeInv, ListsSound
    <2>6. QED
      BY <2>1, <2>3, <2>5, OneWorker DEF TypeInv
  <1>11. ASSUME NEW w \in Workers, Submit(w)
         PROVE  TypeInv'
    <2>1. FlowsSound' /\ Created' = Created /\ ExecsSound'
      BY <1>11, SameFlows, SameExecs DEF Submit
    <2>2. worker[w].flow \in Created
      BY <1>11 DEF Submit, TypeInv, WorkersSound, SoundWorker, Carries
    <2>3. Append(pool, worker[w].flow) \in Seq(Created)
      BY <2>2, AppendElements DEF TypeInv, ListsSound
    <2>4. ListsSound'
      BY <1>11, <2>1, <2>3 DEF Submit, TypeInv, ListsSound
    <2>5. worker' = [worker EXCEPT ![w] = IdleWorker]
      BY <1>11 DEF Submit
    <2>6. QED
      BY <2>1, <2>4, <2>5, IdleSound, OneWorker DEF TypeInv
  <1>12. ASSUME NEW w \in Workers, StopAllNext(w)
         PROVE  TypeInv'
    <2> DEFINE f == in_flight[worker[w].pos]
               pc == IF requestor[f] = worker[w].sender THEN "stop_one" ELSE "stop_all"
               v == [worker[w] EXCEPT !.pos = worker[w].pos + 1, !.pc = pc, !.flow = f]
    <2>1. FlowsSound' /\ Created' = Created /\ ListsSound' /\ ExecsSound'
      BY <1>12, SameFlows, SameLists, SameExecs DEF StopAllNext
    <2>2. f \in Created /\ f \in Flows
      BY <1>12, LenProperties, ElementOfSeq DEF StopAllNext, TypeInv, ListsSound, Created
    <2>3. worker[w] \in WorkerRec /\ worker[w].pc = "stop_all" /\ worker[w].sender \in Senders
      BY <1>12, ThreadSound DEF StopAllNext, SoundWorker
    <2>4. worker' = [worker EXCEPT ![w] = v]
      BY <1>12, <2>3 DEF StopAllNext
    <2>5. pc \in {"stop_all", "stop_one"}
      OBVIOUS
    <2>6. v \in WorkerRec /\ v.pc = pc /\ v.flow = f /\ v.sender = worker[w].sender
      <3> DEFINE pos == worker[w].pos + 1
      <3>1. pc \in WorkerPc /\ pos \in Nat
        BY <2>3, <2>5 DEF WorkerPc, WorkerRec
      <3> DEFINE u == [worker[w] EXCEPT !.pos = pos, !.pc = pc, !.flow = f]
      <3>2. v = u
        OBVIOUS
      <3> HIDE DEF pc, f, pos
      <3>3. u \in WorkerRec /\ u.pc = pc /\ u.flow = f /\ u.sender = worker[w].sender
        BY <2>2, <2>3, <3>1 DEF WorkerRec
      <3> HIDE DEF v, u
      <3>4. QED
        BY <3>2, <3>3
    <2>7. SoundWorker(v, Created)
      <3> HIDE DEF v, pc, f
      <3>1. QED
        BY <2>2, <2>3, <2>5, <2>6 DEF SoundWorker, Carries
    <2>8. QED
      BY <2>1, <2>4, <2>7, OneWorker DEF TypeInv
  <1>25. ASSUME NEW w \in Workers, StopAllOne(w)
         PROVE  TypeInv'
    <2> DEFINE v == [worker[w] EXCEPT !.pc = "stop_all"]
    <2>1. FlowsSound' /\ Created' = Created /\ ExecsSound'
      BY <1>25, SameFlows, SameExecs DEF StopAllOne
    <2>2. SoundWorker(v, Created) /\ worker' = [worker EXCEPT ![w] = v]
      BY <1>25, ThreadSound, WorkerTurns DEF StopAllOne, SoundWorker, WorkerPc, Carries
    <2>3. in_flight' \in Seq(Created) /\ stopped' \subseteq Created /\ held' \subseteq stopped'
      BY <1>25, StopFirstSound DEF StopAllOne
    <2>4. ListsSound'
      BY <1>25, <2>1, <2>3 DEF StopAllOne, TypeInv, ListsSound
    <2>5. QED
      BY <2>1, <2>2, <2>4, OneWorker DEF TypeInv
  <1>13. ASSUME NEW w \in Workers, StopAllDone(w)
         PROVE  TypeInv'
    <2>1. FlowsSound' /\ Created' = Created /\ ListsSound' /\ ExecsSound'
      BY <1>13, SameFlows, SameLists, SameExecs DEF StopAllDone
    <2>2. worker' = [worker EXCEPT ![w] = IdleWorker]
      BY <1>13 DEF StopAllDone
    <2>3. QED
      BY <2>1, <2>2, IdleSound, OneWorker DEF TypeInv
  <1>14. ASSUME NEW e \in Executors, Take(e)
         PROVE  TypeInv'
    <2> DEFINE x == [IdleExec EXCEPT !.pc = "auto", !.flow = Head(pool)]
    <2>1. FlowsSound' /\ Created' = Created /\ WorkersSound'
      BY <1>14, SameFlows, SameWorkers DEF Take
    <2>2. Head(pool) \in Created /\ Tail(pool) \in Seq(Created)
      BY <1>14, TailElements DEF Take, TypeInv, ListsSound
    <2>3. ListsSound'
      BY <1>14, <2>1, <2>2 DEF Take, TypeInv, ListsSound
    <2>4. SoundExec(x, Created) /\ exec' = [exec EXCEPT ![e] = x]
      BY <1>14, <2>2 DEF Take, IdleExec, SoundExec, ExecRec, ExecPc, Created
    <2>5. QED
      BY <2>1, <2>3, <2>4, OneExec DEF TypeInv
  <1>15. ASSUME NEW e \in Executors, ReadAutosteps(e)
         PROVE  TypeInv'
    <2>1. FlowsSound' /\ Created' = Created /\ ListsSound' /\ WorkersSound'
      BY <1>15, SameFlows, SameLists, SameWorkers DEF ReadAutosteps
    <2> DEFINE n == step[exec[e].flow]
    <2>2. SoundExec(exec[e], Created) /\ n \in Nodes /\ DOMAIN Children[n] \subseteq Nat
      BY <1>15, LenProperties, FlowAssumption DEF ReadAutosteps, TypeInv, FlowsSound, ExecsSound, SoundExec
    <2>3. PICK t \in SUBSET DOMAIN Children[n] :
            exec' = [exec EXCEPT ![e].pc = "steps", ![e].at = n, ![e].todo = t]
      BY <1>15 DEF ReadAutosteps
    <2> DEFINE x == [exec[e] EXCEPT !.pc = "steps", !.at = n, !.todo = t]
    <2>4. SoundExec(x, Created)
      BY <1>15, <2>2, <2>3 DEF ReadAutosteps, SoundExec, ExecRec, ExecPc
    <2>5. exec' = [exec EXCEPT ![e] = x]
      BY <2>3
    <2>6. QED
      BY <2>1, <2>4, <2>5, OneExec DEF TypeInv
  <1>16. ASSUME NEW e \in Executors, ReadSteps(e)
         PROVE  TypeInv'
    <2> DEFINE n == step[exec[e].flow]
               x == [exec[e] EXCEPT
                       !.pc = IF Children[n] = << >> THEN "remove"
                              ELSE IF exec[e].todo = {} THEN "hint" ELSE "run",
                       !.at = IF exec[e].todo = {} THEN n ELSE @]
    <2>1. FlowsSound' /\ Created' = Created /\ ListsSound' /\ WorkersSound'
      BY <1>16, SameFlows, SameLists, SameWorkers DEF ReadSteps
    <2>2. SoundExec(exec[e], Created) /\ n \in Nodes
      BY <1>16 DEF ReadSteps, TypeInv, FlowsSound, ExecsSound, SoundExec
    <2>3. SoundExec(x, Created)
      BY <1>16, <2>2 DEF ReadSteps, SoundExec, ExecRec, ExecPc
    <2>4. exec' = [exec EXCEPT ![e] = x]
      BY <1>16 DEF ReadSteps
    <2>5. QED
      BY <2>1, <2>3, <2>4, OneExec DEF TypeInv
  <1>17. ASSUME NEW e \in Executors, SendHints(e)
         PROVE  TypeInv'
    <2>1. FlowsSound' /\ Created' = Created /\ WorkersSound'
      BY <1>17, SameFlows, SameWorkers DEF SendHints
    <2>2. ListsSound'
      BY <1>17, <2>1 DEF SendHints, TypeInv, ListsSound
    <2>3. exec' = [exec EXCEPT ![e] = IdleExec]
      BY <1>17 DEF SendHints
    <2>4. QED
      BY <2>1, <2>2, <2>3, IdleSound, OneExec DEF TypeInv
  <1>18. ASSUME NEW e \in Executors, Spin(e)
         PROVE  TypeInv'
    <2> DEFINE x == [exec[e] EXCEPT !.pc = "auto", !.at = None]
    <2>1. FlowsSound' /\ Created' = Created /\ ListsSound' /\ WorkersSound'
      BY <1>18, SameFlows, SameLists, SameWorkers DEF Spin
    <2>2. SoundExec(x, Created)
      <3>1. SoundExec(exec[e], Created) /\ exec[e].pc = "hint"
        BY <1>18, ThreadSound DEF Spin
      <3>2. x \in ExecRec /\ x.pc = "auto" /\ x.flow = exec[e].flow
        BY <3>1 DEF SoundExec, ExecRec, ExecPc
      <3>3. QED
        BY <3>1, <3>2 DEF SoundExec
    <2>3. exec' = [exec EXCEPT ![e] = x]
      BY <1>18 DEF Spin
    <2>4. QED
      BY <2>1, <2>2, <2>3, OneExec DEF TypeInv
  <1>19. ASSUME NEW e \in Executors, RunAutostep(e)
         PROVE  TypeInv'
    <2>1. FlowsSound' /\ Created' = Created /\ ListsSound' /\ WorkersSound'
      BY <1>19, SameFlows, SameLists, SameWorkers DEF RunAutostep
    <2>2. PICK pc \in {"remove", "check"} : exec' = [exec EXCEPT ![e].pc = pc]
      BY <1>19 DEF RunAutostep
    <2> DEFINE x == [exec[e] EXCEPT !.pc = pc]
    <2>3. SoundExec(x, Created) /\ exec' = [exec EXCEPT ![e] = x]
      <3>1. SoundExec(exec[e], Created) /\ exec[e] \in ExecRec /\ exec[e].pc = "run"
        BY <1>19, ThreadSound DEF RunAutostep
      <3>2. /\ x \in ExecRec /\ x.pc = pc /\ x.flow = exec[e].flow
            /\ x.at = exec[e].at /\ x.todo = exec[e].todo
        BY <2>2, <3>1 DEF ExecRec, ExecPc
      <3>3. SoundExec(x, Created)
        BY <2>2, <3>1, <3>2 DEF SoundExec
      <3>4. QED
        BY <2>2, <3>3
    <2>4. QED
      BY <2>1, <2>3, OneExec DEF TypeInv
  <1>20. ASSUME NEW e \in Executors, CheckAutostep(e)
         PROVE  TypeInv'
    <2> DEFINE x == [exec[e] EXCEPT !.pc = "set"]
    <2>1. FlowsSound' /\ Created' = Created /\ WorkersSound'
      BY <1>20, SameFlows, SameWorkers DEF CheckAutostep
    <2>2. ListsSound'
      BY <1>20, <2>1 DEF CheckAutostep, TypeInv, ListsSound
    <2>3. SoundExec(x, Created)
      <3>1. SoundExec(exec[e], Created) /\ exec[e] \in ExecRec /\ exec[e].pc = "check"
        BY <1>20, ThreadSound DEF CheckAutostep
      <3>2. /\ x \in ExecRec /\ x.pc = "set" /\ x.flow = exec[e].flow
            /\ x.at = exec[e].at /\ x.todo = exec[e].todo
        BY <3>1 DEF ExecRec, ExecPc
      <3>3. QED
        BY <3>1, <3>2 DEF SoundExec
    <2>4. exec' = [exec EXCEPT ![e] = x] \/ exec' = [exec EXCEPT ![e] = IdleExec]
      BY <1>20 DEF CheckAutostep
    <2>5. QED
      BY <2>1, <2>2, <2>3, <2>4, IdleSound, OneExec DEF TypeInv
  <1>21. ASSUME NEW e \in Executors, AdvanceAutostep(e)
         PROVE  TypeInv'
    <2>1. PICK k \in exec[e].todo :
            /\ step' = [step EXCEPT ![exec[e].flow] = Children[exec[e].at][k]]
            /\ exec' = [exec EXCEPT ![e].todo = @ \ {k},
                          ![e].pc = IF exec[e].todo = {k} THEN "auto" ELSE "run",
                          ![e].at = IF exec[e].todo = {k} THEN None ELSE @]
      BY <1>21 DEF AdvanceAutostep
    <2> DEFINE x == [exec[e] EXCEPT !.todo = @ \ {k},
                       !.pc = IF exec[e].todo = {k} THEN "auto" ELSE "run",
                       !.at = IF exec[e].todo = {k} THEN None ELSE @]
    <2>2. /\ SoundExec(exec[e], Created) /\ exec[e].flow \in Created
          /\ exec[e].at \in Nodes /\ k \in DOMAIN Children[exec[e].at]
      BY <1>21 DEF AdvanceAutostep, TypeInv, ExecsSound, SoundExec
    <2>3. Children[exec[e].at][k] \in Nodes
      BY <2>2, LenProperties, ElementOfSeq, FlowAssumption
    <2>4. FlowsSound' /\ Created' = Created
      BY <1>21, <2>1, <2>2, <2>3 DEF AdvanceAutostep, TypeInv, FlowsSound, Created
    <2>5. ListsSound' /\ WorkersSound'
      BY <1>21, <2>4, SameWorkers DEF AdvanceAutostep, TypeInv, ListsSound
    <2>6. SoundExec(x, Created)
      <3>1. exec[e] \in ExecRec /\ exec[e].todo \ {k} \in SUBSET Nat
        BY ThreadSound DEF ExecRec
      <3> DEFINE last == exec[e].todo = {k}
                 pc == IF last THEN "auto" ELSE "run"
                 at == IF last THEN None ELSE exec[e].at
      <3>2. pc \in ExecPc /\ at \in Nodes \cup {None}
        BY <2>2 DEF ExecPc
      <3> DEFINE t == exec[e].todo \ {k}
                 y == [exec[e] EXCEPT !.todo = t, !.pc = pc, !.at = at]
      <3>3. y \in ExecRec /\ y.pc = pc /\ y.flow = exec[e].flow /\ y.at = at /\ y.todo = t
        <4> HIDE DEF pc, at, t
        <4>1. t \in SUBSET Nat
          BY <3>1 DEF t
        <4>2. QED
          BY <3>1, <3>2, <4>1 DEF ExecRec
      <3>4. x = y
        OBVIOUS
      <3>5. exec[e].todo \subseteq DOMAIN Children[exec[e].at]
        BY <1>21, <2>2 DEF AdvanceAutostep, SoundExec
      <3>6. QED
        <4> HIDE DEF x, y
        <4>1. CASE last
          BY <2>2, <3>3, <3>4, <4>1 DEF SoundExec
        <4>2. CASE ~last
          BY <2>1, <2>2, <3>3, <3>4, <3>5, <4>2 DEF SoundExec
        <4>3. QED
          BY <4>1, <4>2
    <2>7. exec' = [exec EXCEPT ![e] = x]
      BY <2>1
    <2>8. QED
      BY <2>4, <2>5, <2>6, <2>7, OneExec DEF TypeInv
  <1>22. ASSUME NEW e \in Executors, RemoveFlow(e)
         PROVE  TypeInv'
    <2>1. FlowsSound' /\ Created' = Created /\ WorkersSound'
      BY <1>22, SameFlows, SameWorkers DEF RemoveFlow
    <2>2. in_flight' \in Seq(Created)
      BY <1>22, RemoveAtElements DEF RemoveFlow, TypeInv, ListsSound
    <2>3. ListsSound'
      BY <1>22, <2>1, <2>2 DEF RemoveFlow, TypeInv, ListsSound
    <2>4. exec' = [exec EXCEPT ![e] = IdleExec]
      BY <1>22 DEF RemoveFlow
    <2>5. QED
      BY <2>1, <2>3, <2>4, IdleSound, OneExec DEF TypeInv
  <1>23. CASE UNCHANGED vars
    BY <1>23, SameFlows, SameLists, SameWorkers, SameExecs DEF vars, flowVars, TypeInv
  <1>24. QED
    BY <1>1, <1>2, <1>3, <1>4, <1>5, <1>6, <1>7, <1>8, <1>9, <1>10, <1>11, <1>12, <1>13,
       <1>14, <1>15, <1>16, <1>17, <1>18, <1>19, <1>20, <1>21, <1>22, <1>23, <1>25
       DEF Next, WorkerCommand, WorkerStep, ExecStep

LEMMA TypeInvInit == Init => TypeInv
  <1> SUFFICES ASSUME Init PROVE TypeInv
    OBVIOUS
  <1>1. Created = {}
    BY DEF Init, Created
  <1>2. FlowsSound /\ ListsSound
    BY <1>1 DEF Init, FlowsSound, ListsSound
  <1>3. IdleWorker \in WorkerRec /\ IdleExec \in ExecRec
    BY IdleSound DEF SoundWorker, SoundExec
  <1>4. WorkersSound /\ ExecsSound
    BY <1>3, IdleSound DEF Init, WorkersSound, ExecsSound
  <1>5. QED
    BY <1>2, <1>4 DEF TypeInv

\* The executor is type correct: no list of flows ever holds a flow that was
\* not created, and no thread works on one.
THEOREM TypeCorrect == Spec => []TypeOK
  BY TypeInvInit, TypeInvStep, TypeInvTypeOK, PTL DEF Spec

-----------------------------------------------------------------------------
(* in_flight holds a flow once.  Only Enqueue adds to it, and it tests      *)
(* membership in the same step; the other actions take one position out.    *)

Once == Distinct(in_flight)

LEMMA StopFirstOnce ==
    ASSUME TypeInv, Distinct(in_flight), NEW r, NEW s, StopFirst(r, s)
    PROVE  Distinct(in_flight')
  <1>1. \A i \in DOMAIN in_flight : Distinct(RemoveAt(in_flight, i))
    BY RemoveAtDistinct DEF TypeInv, ListsSound
  <1>2. QED
    BY <1>1 DEF StopFirst

LEMMA InFlightOnceStep == TypeInv /\ Once /\ [Next]_vars => Once'
  <1> SUFFICES ASSUME TypeInv, Distinct(in_flight), [Next]_vars PROVE Distinct(in_flight')
    BY DEF Once
  <1>1. CASE UNCHANGED in_flight
    BY <1>1
  <1>2. ASSUME NEW w \in Workers, Enqueue(w)
        PROVE  Distinct(in_flight')
    <2>1. worker[w].flow \in Created
      BY <1>2, ThreadSound DEF Enqueue, SoundWorker, Carries
    <2>2. CASE Contains(in_flight, worker[w].flow)
      BY <1>2, <2>2 DEF Enqueue
    <2>3. CASE ~Contains(in_flight, worker[w].flow)
      BY <1>2, <2>1, <2>3, AppendDistinct DEF Enqueue, TypeInv, ListsSound
    <2>4. QED
      BY <2>2, <2>3
  <1>3. ASSUME NEW w \in Workers, NEW s \in Senders, NEW r \in Roots, StopFlow(w, s, r)
        PROVE  Distinct(in_flight')
    BY <1>3, StopFirstOnce DEF StopFlow
  <1>4. ASSUME NEW w \in Workers, StopAllOne(w)
        PROVE  Distinct(in_flight')
    BY <1>4, StopFirstOnce DEF StopAllOne
  <1>5. ASSUME NEW e \in Executors, RemoveFlow(e)
        PROVE  Distinct(in_flight')
    BY <1>5, RemoveAtDistinct DEF RemoveFlow, TypeInv, ListsSound
  <1>6. QED
    <2>1. ASSUME NEW w \in Workers, WorkerCommand(w)
          PROVE  Distinct(in_flight')
      BY <2>1, <1>1, <1>3 DEF WorkerCommand, CommandDone, StartFlow, StopAll
    <2>2. ASSUME NEW w \in Workers, WorkerStep(w)
          PROVE  Distinct(in_flight')
      BY <2>2, <1>1, <1>2, <1>4 DEF WorkerStep, TriggerInFlight, TriggerNoInFlight, TriggerNew,
         TriggerNothing, TriggerAdvance, Submit, StopAllNext, StopAllDone
    <2>3. ASSUME NEW e \in Executors, ExecStep(e)
          PROVE  Distinct(in_flight')
      BY <2>3, <1>1, <1>5 DEF ExecStep, Take, ReadAutosteps, ReadSteps, SendHints, Spin,
         RunAutostep, CheckAutostep, AdvanceAutostep
    <2>4. QED
      BY <2>1, <2>2, <2>3, <1>1 DEF Next, vars

\* However the two pools interleave, in_flight never holds a flow twice.
THEOREM InFlightOnceHolds == Spec => []InFlightOnce
  <1>1. Init => Once
    BY DEF Init, Once, Distinct
  <1>2. Once => InFlightOnce
    BY DEF Once, Distinct, InFlightOnce
  <1>3. QED
    BY <1>1, <1>2, TypeInvInit, TypeInvStep, InFlightOnceStep, PTL DEF Spec

-----------------------------------------------------------------------------
(* A worker that is about to advance a flow was entitled to do so when it   *)
(* looked, and requestors do not change, so it still is.                    *)

Entitled(s, f) == requestor[f] \in {s, RoomOf[s]}

AdvanceEntitled ==
    \A w \in Workers :
        worker[w].pc = "advance" => Entitled(worker[w].sender, worker[w].flow)

\* What a flow is created with: the new flow, and those there were already.
Born(f) == <<root[f], requestor[f], beside[f]>>

\* The root and the requestor of a flow are set once, when it is created.
LEMMA BornFixed ==
    ASSUME TypeInv, [Next]_vars
    PROVE  \A f \in Created : Born(f)' = Born(f)
  <1>1. CASE UNCHANGED <<root, requestor, beside>>
    BY <1>1 DEF Born
  <1>2. ASSUME NEW f \in Flows, NEW r \in Roots, NEW who, CreateFlow(f, r, who)
        PROVE  \A g \in Created : Born(g)' = Born(g)
    BY <1>2 DEF CreateFlow, TypeInv, FlowsSound, Created, Born
  <1>3. ASSUME NEW w \in Workers, WorkerCommand(w)
        PROVE  \A f \in Created : Born(f)' = Born(f)
    <2>1. ASSUME NEW s \in Senders, NEW r \in Roots, NEW f \in Flows, StartFlow(w, s, r, f)
          PROVE  \A g \in Created : Born(g)' = Born(g)
      BY <1>2, <2>1 DEF StartFlow
    <2>2. QED
      BY <1>1, <1>3, <2>1 DEF WorkerCommand, CommandDone, StopFlow, StopAll, flowVars
  <1>4. ASSUME NEW w \in Workers, WorkerStep(w)
        PROVE  \A f \in Created : Born(f)' = Born(f)
    <2>1. CASE TriggerNew(w)
      BY <1>2, <2>1 DEF TriggerNew
    <2>2. CASE ~TriggerNew(w)
      BY <1>1, <1>4, <2>2 DEF WorkerStep, TriggerInFlight, TriggerNoInFlight,
         TriggerNothing, TriggerAdvance, Enqueue, Submit, StopAllNext, StopAllOne,
         StopAllDone, flowVars
    <2>3. QED
      BY <2>1, <2>2
  <1>5. ASSUME NEW e \in Executors, ExecStep(e)
        PROVE  UNCHANGED <<root, requestor, beside>>
    BY <1>5 DEF ExecStep, Take, ReadAutosteps, ReadSteps, SendHints, Spin, RunAutostep,
       CheckAutostep, AdvanceAutostep, RemoveFlow, flowVars
  <1>6. QED
    BY <1>1, <1>3, <1>4, <1>5 DEF Next, vars

LEMMA RequestorFixed ==
    ASSUME TypeInv, [Next]_vars
    PROVE  \A f \in Created : requestor'[f] = requestor[f]
  BY BornFixed DEF Born

LEMMA AdvanceEntitledStep ==
    TypeInv /\ AdvanceEntitled /\ [Next]_vars => AdvanceEntitled'
  <1> SUFFICES ASSUME TypeInv, AdvanceEntitled, [Next]_vars,
                      NEW u \in Workers, worker'[u].pc = "advance"
               PROVE  Entitled(worker[u].sender, worker[u].flow)'
    BY DEF AdvanceEntitled
  <1>1. CASE worker'[u] = worker[u]
    <2>1. worker[u].flow \in Created /\ Entitled(worker[u].sender, worker[u].flow)
      BY <1>1, ThreadSound DEF AdvanceEntitled, SoundWorker, Carries
    <2>2. requestor'[worker[u].flow] = requestor[worker[u].flow]
      BY <2>1, RequestorFixed
    <2>3. QED
      BY <1>1, <2>1, <2>2 DEF Entitled
  <1>2. CASE TriggerInFlight(u)
    <2>1. PICK i \in DOMAIN in_flight, m \in Nodes :
            /\ Awaits(i, worker[u].sender, worker[u].cmd)
            /\ worker' = [worker EXCEPT ![u].pc = "advance", ![u].flow = in_flight[i], ![u].next = m]
      BY <1>2 DEF TriggerInFlight
    <2>2. worker'[u].flow = in_flight[i] /\ worker'[u].sender = worker[u].sender
      BY <2>1, ThreadSound DEF TypeInv, WorkersSound, WorkerRec
    <2>3. Entitled(worker[u].sender, in_flight[i])
      BY <2>1 DEF Awaits, CheckIdentifier, Entitled
    <2>4. requestor' = requestor
      BY <1>2 DEF TriggerInFlight, flowVars
    <2>5. QED
      BY <2>2, <2>3, <2>4 DEF Entitled
  <1>3. CASE TriggerNew(u)
    <2>1. PICK r \in Roots, f \in Flows, m \in Nodes :
            /\ CreateFlow(f, r, worker[u].sender)
            /\ worker' = [worker EXCEPT ![u].pc = "advance", ![u].flow = f, ![u].next = m]
      BY <1>3 DEF TriggerNew
    <2>2. worker'[u].flow = f /\ worker'[u].sender = worker[u].sender
      BY <2>1, ThreadSound DEF TypeInv, WorkersSound, WorkerRec
    <2>3. requestor'[f] = worker[u].sender
      BY <2>1 DEF CreateFlow, TypeInv, FlowsSound
    <2>4. QED
      BY <2>2, <2>3 DEF Entitled
  <1>4. QED
    <2>1. ASSUME NEW w \in Workers, WorkerCommand(w)
          PROVE  worker'[u] = worker[u]
      BY <2>1 DEF WorkerCommand, CommandDone, StartFlow, StopFlow, StopAll, IdleWorker,
         TypeInv, WorkersSound
    <2>2. ASSUME NEW w \in Workers, WorkerStep(w), ~TriggerInFlight(u), ~TriggerNew(u)
          PROVE  worker'[u] = worker[u]
      <3>1. CASE w # u
        BY <2>2, <3>1 DEF WorkerStep, TriggerInFlight, TriggerNoInFlight, TriggerNew,
           TriggerNothing, TriggerAdvance, Enqueue, Submit, StopAllNext, StopAllOne, StopAllDone,
           TypeInv, WorkersSound
      <3>2. CASE w = u
        <4>1. worker'[u].pc # "advance"
          BY <2>2, <3>2, ThreadSound DEF WorkerStep, TriggerNoInFlight,
             TriggerNothing, TriggerAdvance, Enqueue, Submit, StopAllNext, StopAllOne, StopAllDone,
             IdleWorker, TypeInv, WorkersSound, WorkerRec
        <4>2. QED
          BY <4>1
      <3>3. QED
        BY <3>1, <3>2
    <2>3. ASSUME NEW e \in Executors, ExecStep(e)
          PROVE  worker' = worker
      BY <2>3 DEF ExecStep, Take, ReadAutosteps, ReadSteps, SendHints, Spin, RunAutostep,
         CheckAutostep, AdvanceAutostep, RemoveFlow
    <2>4. QED
      BY <1>1, <1>2, <1>3, <2>1, <2>2, <2>3 DEF Next, vars

\* The conversation of a person (or a room) is moved on by its own predicates
\* and by the commands of that person (or of members of that room) only.
THEOREM OnlyRequestorAdvancesHolds == Spec => OnlyRequestorAdvances
  <1> DEFINE Moved(f) ==
        f \in Created /\ step'[f] # step[f] =>
          \/ \E e \in Executors : exec[e].pc = "set" /\ exec[e].flow = f
          \/ \E w \in Workers : /\ worker[w].pc = "advance" /\ worker[w].flow = f
                                /\ requestor[f] \in {worker[w].sender, RoomOf[worker[w].sender]}
  <1>1. ASSUME TypeInv, AdvanceEntitled, [Next]_vars, NEW f \in Flows
        PROVE  Moved(f)
    <2> SUFFICES ASSUME f \in Created, step'[f] # step[f] PROVE Moved(f)
      OBVIOUS
    <2>1. ASSUME NEW g \in Flows, NEW r \in Roots, NEW who, CreateFlow(g, r, who)
          PROVE  FALSE
      BY <2>1 DEF CreateFlow, TypeInv, FlowsSound, Created
    <2>2. ASSUME NEW w \in Workers, WorkerCommand(w)
          PROVE  FALSE
      BY <2>1, <2>2 DEF WorkerCommand, CommandDone, StartFlow, StopFlow, StopAll, flowVars
    <2>3. ASSUME NEW w \in Workers, WorkerStep(w)
          PROVE  Moved(f)
      <3>1. CASE TriggerAdvance(w)
        <4>1. worker[w].pc = "advance" /\ worker[w].flow = f
          BY <1>1, <3>1 DEF TriggerAdvance, TypeInv, FlowsSound
        <4>2. QED
          BY <1>1, <4>1 DEF AdvanceEntitled, Entitled
      <3>2. CASE TriggerNew(w)
        BY <2>1, <3>2 DEF TriggerNew
      <3>3. CASE ~TriggerAdvance(w) /\ ~TriggerNew(w)
        BY <2>3, <3>3 DEF WorkerStep, TriggerInFlight, TriggerNoInFlight,
           TriggerNothing, Enqueue, Submit, StopAllNext, StopAllOne, StopAllDone, flowVars
      <3>4. QED
        BY <3>1, <3>2, <3>3
    <2>4. ASSUME NEW e \in Executors, ExecStep(e)
          PROVE  Moved(f)
      <3>1. CASE AdvanceAutostep(e)
        BY <1>1, <3>1 DEF AdvanceAutostep, TypeInv, FlowsSound
      <3>2. CASE ~AdvanceAutostep(e)
        BY <2>4, <3>2 DEF ExecStep, Take, ReadAutosteps, ReadSteps, SendHints, Spin,
           RunAutostep, CheckAutostep, RemoveFlow, flowVars
      <3>3. QED
        BY <3>1, <3>2
    <2>5. QED
      BY <1>1, <2>2, <2>3, <2>4 DEF Next, vars
  <1>2. ASSUME TypeInv, AdvanceEntitled, [Next]_vars
        PROVE  [\A f \in Flows : Moved(f)]_vars
    BY <1>1, <1>2
  <1>3. Init => AdvanceEntitled
    BY DEF Init, IdleWorker, AdvanceEntitled
  <1>4. QED
    BY <1>2, <1>3, TypeInvInit, TypeInvStep, AdvanceEntitledStep, PTL
       DEF Spec, OnlyRequestorAdvances

-----------------------------------------------------------------------------
(* Two flows of one person.  A flow is live when it is in flight, or when a  *)
(* worker has found or created it and is going to enqueue it; a flow that is *)
(* not live never is again, since only what is in flight can be found.       *)

Hand == {"advance", "enqueue"}
Flying(f) == Contains(in_flight, f)
Live == {f \in Flows : Flying(f) \/ f \in InHand}

Paired ==
    \A f, g \in Live :
        /\ requestor[f] = requestor[g]
        /\ requestor[f] \in Senders
        => f = g \/ f \in beside[g] \/ g \in beside[f]

StoppedDead == (stopped \ held) \cap Live = {}

\* What a step may do to the flows that are live: a worker that has no flow in
\* hand stops one, or else some are no more, or one is added.
StopsOne(w) ==
    /\ InHand' \subseteq InHand
    /\ \E r, s : StopFirst(r, s)
AddsLive(f) ==
    /\ f \in Flows \ Created /\ Live' \subseteq Live \cup {f} /\ UNCHANGED <<stopped, held>>
    /\ beside'[f] = InHand
    /\ requestor'[f] \in Senders => \A g : Flying(g) => requestor[g] # requestor'[f]

LEMMA FlyingPosition ==
    ASSUME TypeInv, NEW f
    PROVE  Flying(f) <=> \E i \in DOMAIN in_flight : in_flight[i] = f
  BY LenProperties DEF TypeInv, ListsSound, Flying, Contains

LEMMA InHandWorker ==
    ASSUME NEW f
    PROVE  f \in InHand <=> \E w \in Workers : worker[w].pc \in Hand /\ worker[w].flow = f
  BY DEF InHand, Hand

LEMMA LiveCreated == TypeInv => Live \subseteq Created
  <1> SUFFICES ASSUME TypeInv, NEW f \in Live PROVE f \in Created
    OBVIOUS
  <1>1. CASE Flying(f)
    <2>1. PICK i \in DOMAIN in_flight : in_flight[i] = f
      BY <1>1, FlyingPosition
    <2>2. QED
      BY <2>1, ElementOfSeq, LenProperties DEF TypeInv, ListsSound
  <1>2. CASE f \in InHand
    BY <1>2, InHandWorker, ThreadSound DEF Hand, Carries, SoundWorker
  <1>3. QED
    BY <1>1, <1>2 DEF Live

\* Taking one position out of in_flight lets nothing fly that did not.
LEMMA RemovedFlying ==
    ASSUME TypeInv, NEW i \in DOMAIN in_flight, in_flight' = RemoveAt(in_flight, i),
           NEW f, Flying(f)'
    PROVE  Flying(f)
  <1>1. in_flight' \in Seq(Created)
    BY RemoveAtElements DEF TypeInv, ListsSound
  <1>2. PICK j \in DOMAIN in_flight' : in_flight'[j] = f
    BY <1>1, LenProperties DEF Flying, Contains
  <1>3. \E k \in DOMAIN in_flight : in_flight[k] = f
    BY <1>2, RemoveAtSelects DEF TypeInv, ListsSound
  <1>4. QED
    BY <1>3, FlyingPosition

LEMMA ExecutorLive ==
    ASSUME TypeInv, NEW e \in Executors, ExecStep(e)
    PROVE  Live' \subseteq Live /\ UNCHANGED <<stopped, held>>
  <1>1. UNCHANGED <<worker, stopped, held>>
    BY DEF ExecStep, Take, ReadAutosteps, ReadSteps, SendHints, Spin, RunAutostep,
       CheckAutostep, AdvanceAutostep, RemoveFlow, flowVars
  <1>2. ASSUME NEW f, Flying(f)'
        PROVE  Flying(f)
    <2>1. CASE in_flight' = in_flight
      BY <1>2, <2>1 DEF Flying
    <2>2. CASE \E i \in DOMAIN in_flight : in_flight' = RemoveAt(in_flight, i)
      BY <1>2, <2>2, RemovedFlying
    <2>3. QED
      BY <2>1, <2>2 DEF ExecStep, Take, ReadAutosteps, ReadSteps, SendHints, Spin, RunAutostep,
         CheckAutostep, AdvanceAutostep, RemoveFlow, flowVars
  <1>3. InHand' = InHand
    BY <1>1 DEF InHand
  <1>4. QED
    BY <1>1, <1>2, <1>3 DEF Live

\* stop_flow: no more flows are in flight, and the one it stops is out of them;
\* it is remembered as held when it is in hand.
LEMMA StopFirstFlying ==
    ASSUME TypeInv, Once, NEW r, NEW s, StopFirst(r, s)
    PROVE  /\ \A f : Flying(f)' => Flying(f)
           /\ \A f \in stopped' \ held' :
                f \in stopped \ held \/ (~Flying(f)' /\ f \notin InHand)
  <1>1. CASE UNCHANGED <<in_flight, stopped, held>>
    BY <1>1 DEF Flying
  <1>2. CASE \E i \in DOMAIN in_flight :
               /\ in_flight' = RemoveAt(in_flight, i)
               /\ stopped' = stopped \cup {in_flight[i]}
               /\ held' = held \cup ({in_flight[i]} \cap InHand)
    <2>1. PICK i \in DOMAIN in_flight :
            /\ in_flight' = RemoveAt(in_flight, i)
            /\ stopped' = stopped \cup {in_flight[i]}
            /\ held' = held \cup ({in_flight[i]} \cap InHand)
      BY <1>2
    <2>2. /\ in_flight' \in Seq(Created)
          /\ \A j \in DOMAIN in_flight' : in_flight'[j] # in_flight[i]
      BY <2>1, RemoveAtElements, RemoveAtDistinct DEF TypeInv, ListsSound, Once
    <2>3. \A f : f = in_flight[i] => ~Flying(f)'
      BY <2>2, LenProperties DEF Flying, Contains
    <2>4. \A f : Flying(f)' => Flying(f)
      BY <2>1, RemovedFlying
    <2>5. QED
      BY <2>1, <2>3, <2>4
  <1>3. QED
    BY <1>1, <1>2 DEF StopFirst

\* Appending a flow that is live leaves the live flows what they were.
LEMMA AppendedFlying ==
    ASSUME TypeInv, NEW f \in Created, in_flight' = Append(in_flight, f), NEW g, Flying(g)'
    PROVE  Flying(g) \/ g = f
  <1>1. /\ in_flight' \in Seq(Created) /\ DOMAIN in_flight' = 1..(Len(in_flight) + 1)
        /\ DOMAIN in_flight = 1..Len(in_flight) /\ Len(in_flight) \in Nat
        /\ \A i \in DOMAIN in_flight : in_flight'[i] = in_flight[i]
        /\ in_flight'[Len(in_flight) + 1] = f
    BY AppendElements, LenProperties DEF TypeInv, ListsSound
  <1>2. PICK i \in DOMAIN in_flight' : in_flight'[i] = g
    BY <1>1, LenProperties DEF Flying, Contains
  <1>3. i \in DOMAIN in_flight \/ i = Len(in_flight) + 1
    BY <1>1
  <1>4. QED
    BY <1>1, <1>2, <1>3, FlyingPosition

\* The new flow: the check of its requestor saw what is in flight, and the
\* flows in hand are remembered with it.
LEMMA NewLive ==
    ASSUME TypeInv, NEW w \in Workers, \A u \in Workers \ {w} : worker'[u] = worker[u],
           NEW f, worker'[w].flow = f, UNCHANGED <<in_flight, stopped, held>>,
           NEW r \in Roots, NEW who \in Senders \cup Rooms, NEW s \in Senders,
           CreateFlow(f, r, who), ~AlreadyRunning(s), who = s \/ who \in Rooms
    PROVE  AddsLive(f)
  <1>1. f \in Flows /\ f \notin Created /\ requestor'[f] = who /\ beside'[f] = InHand
    BY DEF CreateFlow, TypeInv, FlowsSound
  <1>2. \A g : g \in InHand' => g \in InHand \/ g = f
    BY DEF InHand
  <1>3. ASSUME NEW g, Flying(g), who \in Senders
        PROVE  requestor[g] # who
    <2>1. who = s
      BY <1>3, FlowAssumption
    <2>2. QED
      BY <1>3, <2>1, FlyingPosition DEF AlreadyRunning
  <1>4. Live' \subseteq Live \cup {f}
    BY <1>2 DEF Live, Flying
  <1>5. QED
    BY <1>1, <1>3, <1>4 DEF AddsLive

LEMMA WorkerLive ==
    ASSUME TypeInv, Once, NEW w \in Workers, WorkerCommand(w) \/ WorkerStep(w)
    PROVE  \/ Live' \subseteq Live /\ (UNCHANGED <<stopped, held>> \/ StopsOne(w))
           \/ \E f : AddsLive(f)
  <1> DEFINE Fewer == Live' \subseteq Live /\ (UNCHANGED <<stopped, held>> \/ StopsOne(w))
  <1>1. /\ worker \in [Workers -> WorkerRec] /\ worker[w] \in WorkerRec
        /\ SoundWorker(worker[w], Created)
    BY ThreadSound DEF TypeInv, WorkersSound
  <1>2. \A u \in Workers \ {w} : worker'[u] = worker[u]
    BY <1>1 DEF WorkerCommand, CommandDone, StartFlow, StopFlow, StopAll, WorkerStep,
       TriggerInFlight, TriggerNoInFlight, TriggerNew, TriggerNothing, TriggerAdvance,
       Enqueue, Submit, StopAllNext, StopAllOne, StopAllDone
  <1>3. \A f : f \in InHand' => f \in InHand \/ (worker'[w].pc \in Hand /\ worker'[w].flow = f)
    BY <1>2 DEF InHand, Hand
  <1>4. ASSUME UNCHANGED <<in_flight, stopped, held>>, worker'[w].pc \in Hand => worker'[w].flow \in Live
        PROVE  Fewer
    BY <1>3, <1>4 DEF Live, Flying
  <1>5. ASSUME NEW r, NEW s, StopFirst(r, s), worker[w].pc \notin Hand, worker'[w].pc \notin Hand
        PROVE  Fewer
    BY <1>3, <1>5, StopFirstFlying DEF Live, StopsOne
  <1>6. ASSUME NEW s \in Senders, NEW r \in Roots, NEW f \in Flows, StartFlow(w, s, r, f)
        PROVE  AddsLive(f)
    <2>1. worker'[w].flow = f /\ UNCHANGED <<in_flight, stopped, held>> /\ ~AlreadyRunning(s)
      BY <1>1, <1>6 DEF StartFlow, IdleWorker
    <2>2. PICK who \in Senders \cup Rooms : CreateFlow(f, r, who) /\ (who = s \/ who \in Rooms)
      <3>1. CASE r \in RoomFlows /\ RoomOf[s] # None
        BY <1>6, <3>1, FlowAssumption DEF StartFlow
      <3>2. CASE ~(r \in RoomFlows /\ RoomOf[s] # None)
        BY <1>6, <3>2 DEF StartFlow
      <3>3. QED
        BY <3>1, <3>2
    <2>3. QED
      BY <1>2, <2>1, <2>2, NewLive
  <1>7. ASSUME NEW s \in Senders, NEW r \in Roots, StopFlow(w, s, r)
        PROVE  Fewer
    <2>1. worker[w].pc \notin Hand /\ worker'[w].pc \notin Hand
      BY <1>7 DEF StopFlow, Hand
    <2>2. QED
      BY <1>5, <1>7, <2>1 DEF StopFlow
  <1>8. CASE \/ \E s \in Senders, c \in Commands : CommandDone(w, s, c)
             \/ \E s \in Senders : StopAll(w, s)
    <2>1. worker'[w].pc \in {"check", "stop_all"} /\ UNCHANGED <<in_flight, stopped, held>>
      BY <1>1, <1>8 DEF CommandDone, StopAll, IdleWorker
    <2>2. QED
      BY <1>4, <2>1 DEF Hand
  <1>9. CASE TriggerInFlight(w)
    <2>1. PICK i \in DOMAIN in_flight, m \in Nodes :
            worker' = [worker EXCEPT ![w].pc = "advance", ![w].flow = in_flight[i], ![w].next = m]
      BY <1>9 DEF TriggerInFlight
    <2>2. worker'[w].flow = in_flight[i]
      BY <1>1, <2>1 DEF WorkerRec
    <2>3. in_flight[i] \in Created
      BY ElementOfSeq, LenProperties DEF TypeInv, ListsSound
    <2>4. in_flight[i] \in Live
      BY <2>3, FlyingPosition DEF Live, Created
    <2>5. QED
      BY <1>4, <1>9, <2>2, <2>4 DEF TriggerInFlight
  <1>10. CASE TriggerNew(w)
    <2>1. PICK r \in Roots, f \in Flows, m \in Nodes :
            /\ ~AlreadyRunning(worker[w].sender)
            /\ CreateFlow(f, r, worker[w].sender)
            /\ worker' = [worker EXCEPT ![w].pc = "advance", ![w].flow = f, ![w].next = m]
      BY <1>10 DEF TriggerNew
    <2>2. worker[w].pc = "check_new" /\ worker'[w].flow = f /\ UNCHANGED <<in_flight, stopped, held>>
      BY <1>1, <1>10, <2>1 DEF TriggerNew, WorkerRec
    <2>3. worker[w].sender \in Senders
      BY <1>1, <2>2 DEF SoundWorker
    <2>4. AddsLive(f)
      BY <1>2, <2>1, <2>2, <2>3, NewLive
    <2>5. QED
      BY <2>4
  <1>11. CASE TriggerNoInFlight(w) \/ TriggerNothing(w) \/ Submit(w) \/ StopAllDone(w)
    <2>1. worker'[w].pc \in {"check_new", "idle"}
      BY <1>1, <1>11 DEF TriggerNoInFlight, TriggerNothing, Submit, StopAllDone, IdleWorker, WorkerRec
    <2>2. UNCHANGED <<in_flight, stopped, held>>
      BY <1>11 DEF TriggerNoInFlight, TriggerNothing, Submit, StopAllDone
    <2>3. QED
      BY <1>4, <2>1, <2>2 DEF Hand
  <1>12. CASE StopAllNext(w)
    <2>1. worker'[w].pc \in {"stop_all", "stop_one"} /\ UNCHANGED <<in_flight, stopped, held>>
      BY <1>1, <1>12 DEF StopAllNext, WorkerRec
    <2>2. QED
      BY <1>4, <2>1 DEF Hand
  <1>13. CASE TriggerAdvance(w)
    <2>1. worker[w].pc \in Hand /\ worker[w].flow \in Created /\ worker'[w].flow = worker[w].flow
      BY <1>1, <1>13 DEF TriggerAdvance, Hand, WorkerRec, SoundWorker, Carries
    <2>2. worker[w].flow \in Live
      BY <2>1, InHandWorker DEF Live, Created
    <2>3. QED
      BY <1>4, <1>13, <2>1, <2>2 DEF TriggerAdvance
  <1>14. CASE Enqueue(w)
    <2> DEFINE f == worker[w].flow
    <2>1. /\ worker[w].pc \in Hand /\ worker'[w].pc = "submit" /\ f \in Created
          /\ UNCHANGED <<stopped, held>>
      BY <1>1, <1>14 DEF Enqueue, Hand, WorkerRec, SoundWorker, Carries
    <2>2. f \in Live
      BY <2>1, InHandWorker DEF Live, Created
    <2>3. \A g : Flying(g)' => Flying(g) \/ g = f
      <3>1. CASE in_flight' = in_flight
        BY <3>1 DEF Flying
      <3>2. CASE in_flight' = Append(in_flight, f)
        BY <2>1, <3>2, AppendedFlying
      <3>3. QED
        BY <1>14, <3>1, <3>2 DEF Enqueue
    <2> HIDE DEF f
    <2>4. QED
      BY <1>3, <2>1, <2>2, <2>3 DEF Live, Hand
  <1>15. CASE StopAllOne(w)
    <2>1. worker[w].pc \notin Hand /\ worker'[w].pc \notin Hand
      BY <1>1, <1>15 DEF StopAllOne, WorkerRec, Hand
    <2>2. QED
      BY <1>5, <1>15, <2>1 DEF StopAllOne
  <1>16. QED
    BY <1>6, <1>7, <1>8, <1>9, <1>10, <1>11, <1>12, <1>13, <1>14, <1>15
       DEF WorkerCommand, WorkerStep

LEMMA PairedStep == TypeInv /\ Once /\ Paired /\ [Next]_vars => Paired'
  <1> SUFFICES ASSUME TypeInv, Once, Paired, [Next]_vars PROVE Paired'
    OBVIOUS
  <1>1. \A f \in Live : requestor'[f] = requestor[f] /\ beside'[f] = beside[f]
    BY LiveCreated, BornFixed DEF Born
  <1>2. CASE Live' \subseteq Live
    BY <1>1, <1>2 DEF Paired
  <1>3. ASSUME NEW f, AddsLive(f)
        PROVE  Paired'
    <2>1. ASSUME NEW g \in Live, requestor[g] = requestor'[f], requestor'[f] \in Senders
          PROVE  g \in beside'[f]
      BY <1>3, <2>1 DEF AddsLive, Live
    <2>2. Live' \subseteq Live \cup {f}
      BY <1>3 DEF AddsLive
    <2>3. QED
      BY <1>1, <2>1, <2>2 DEF Paired
  <1>4. CASE UNCHANGED vars
    BY <1>2, <1>4 DEF vars, flowVars, Live, Flying, InHand
  <1>5. QED
    BY <1>2, <1>3, <1>4, WorkerLive, ExecutorLive DEF Next

\* "User X is already running a flow.": for any number of command workers and
\* executors, two flows in flight of one person are the outcome of commands
\* that overlapped, the one not enqueued yet when the other was created.
THEOREM SecondFlowOverlappedHolds == Spec => []SecondFlowOverlapped
  <1>1. TypeInv /\ Once /\ Paired => SecondFlowOverlapped
    <2> SUFFICES ASSUME TypeInv, Once, Paired,
                        NEW i \in DOMAIN in_flight, NEW j \in DOMAIN in_flight,
                        requestor[in_flight[i]] = requestor[in_flight[j]],
                        requestor[in_flight[i]] \in Senders,
                        i # j
                 PROVE  \/ in_flight[i] \in beside[in_flight[j]]
                        \/ in_flight[j] \in beside[in_flight[i]]
      BY DEF SecondFlowOverlapped
    <2>1. in_flight[i] \in Created /\ in_flight[j] \in Created
      BY ElementOfSeq, LenProperties DEF TypeInv, ListsSound
    <2>2. in_flight[i] \in Live /\ in_flight[j] \in Live
      BY <2>1, FlyingPosition DEF Live, Created
    <2>3. in_flight[i] # in_flight[j]
      BY DEF Once, Distinct
    <2>4. QED
      BY <2>2, <2>3 DEF Paired
  <1>2. Init => Once /\ Paired
    <2>1. Init => Live = {}
      BY DEF Init, IdleWorker, Live, Flying, InHand, Contains
    <2>2. QED
      BY <2>1 DEF Init, Once, Distinct, Paired
  <1>3. QED
    BY <1>1, <1>2, TypeInvInit, TypeInvStep, InFlightOnceStep, PairedStep, PTL DEF Spec

LEMMA StoppedDeadStep == TypeInv /\ Once /\ StoppedDead /\ [Next]_vars => StoppedDead'
  <1> SUFFICES ASSUME TypeInv, Once, StoppedDead, [Next]_vars PROVE StoppedDead'
    OBVIOUS
  <1>1. CASE Live' \subseteq Live /\ UNCHANGED <<stopped, held>>
    BY <1>1 DEF StoppedDead
  <1>2. ASSUME NEW w, Live' \subseteq Live, StopsOne(w)
        PROVE  StoppedDead'
    <2>1. \A f \in stopped' \ held' :
            f \in stopped \ held \/ (~Flying(f)' /\ f \notin InHand)
      BY <1>2, StopFirstFlying DEF StopsOne
    <2>2. ASSUME NEW f \in stopped' \ held'
          PROVE  f \notin Live'
      <3>1. CASE f \in stopped \ held
        BY <1>2, <3>1 DEF StoppedDead
      <3>2. CASE ~Flying(f)' /\ f \notin InHand
        BY <1>2, <3>2 DEF Live, StopsOne
      <3>3. QED
        BY <2>1, <3>1, <3>2
    <2>3. QED
      BY <2>2 DEF StoppedDead
  <1>3. ASSUME NEW f, AddsLive(f)
        PROVE  StoppedDead'
    BY <1>3 DEF StoppedDead, AddsLive, TypeInv, ListsSound
  <1>4. CASE UNCHANGED vars
    BY <1>1, <1>4 DEF vars, flowVars, Live, Flying, InHand
  <1>5. QED
    BY <1>1, <1>2, <1>3, <1>4, WorkerLive, ExecutorLive DEF Next

\* For any number of command workers: a flow that stop_flow has returned is in
\* flight again only if it was in the hand of another command at that time, as
\* it is in the race of flow_stop_race.
THEOREM OnlyHeldFlowsReturnHolds == Spec => []OnlyHeldFlowsReturn
  <1>1. TypeInv /\ StoppedDead => OnlyHeldFlowsReturn
    BY DEF StoppedDead, OnlyHeldFlowsReturn, Live, Flying, TypeInv, ListsSound, Created
  <1>2. Init => Once /\ StoppedDead
    BY DEF Init, Once, Distinct, StoppedDead
  <1>3. QED
    BY <1>1, <1>2, TypeInvInit, TypeInvStep, InFlightOnceStep, StoppedDeadStep, PTL DEF Spec

-----------------------------------------------------------------------------
(* A flow stays in its graph.  Reach(r) is the least set of nodes that holds *)
(* r and the children of its members; the current step, the step a worker is *)
(* about to advance to and the step an executor works from are all in the    *)
(* set of the flow's root, however old the reads are that they come from.    *)

Closed(r, S) ==
    /\ r \in S
    /\ \A n \in S : \A k \in DOMAIN Children[n] : Children[n][k] \in S
Reach(r) == {n \in Nodes : \A S \in SUBSET Nodes : Closed(r, S) => n \in S}

LEMMA ReachRoot == \A r \in Roots : r \in Reach(r)
  BY FlowAssumption DEF Reach, Closed

LEMMA ReachChild ==
    ASSUME NEW r, NEW n \in Reach(r), NEW k \in DOMAIN Children[n]
    PROVE  Children[n][k] \in Reach(r)
  <1>1. n \in Nodes /\ Children[n] \in Seq(Nodes)
    BY FlowAssumption DEF Reach
  <1>2. Children[n][k] \in Nodes
    BY <1>1, LenProperties, ElementOfSeq
  <1>3. QED
    BY <1>2 DEF Reach, Closed

StepIn == \A f \in Created : root[f] \in Roots /\ step[f] \in Reach(root[f])
NextIn ==
    \A w \in Workers :
        worker[w].pc = "advance" => worker[w].next \in Reach(root[worker[w].flow])
AtIn ==
    \A e \in Executors :
        exec[e].pc \in {"steps", "hint", "run", "check", "set"}
          => exec[e].at \in Reach(root[exec[e].flow])
GraphInv == StepIn /\ NextIn /\ AtIn

LEMMA RootFixed ==
    ASSUME TypeInv, [Next]_vars
    PROVE  \A f \in Created : f \in Created' /\ root'[f] = root[f]
  <1>1. \A f \in Created : root'[f] = root[f] /\ f \in Flows /\ root[f] # None
    BY BornFixed DEF Born, Created
  <1>2. QED
    BY <1>1 DEF Created

\* The new flow starts at its root, which is where its graph starts.
LEMMA CreateFlowStepIn ==
    ASSUME TypeInv, StepIn, NEW f \in Flows, NEW r \in Roots, NEW who, CreateFlow(f, r, who)
    PROVE  StepIn' /\ root'[f] = r
  BY ReachRoot DEF TypeInv, FlowsSound, StepIn, CreateFlow, Created

LEMMA WorkerInGraph ==
    ASSUME TypeInv, GraphInv, NEW w \in Workers, WorkerCommand(w) \/ WorkerStep(w)
    PROVE  StepIn' /\ NextIn' /\ exec' = exec
  <1>1. /\ worker \in [Workers -> WorkerRec] /\ worker[w] \in WorkerRec
        /\ SoundWorker(worker[w], Created)
    BY ThreadSound DEF TypeInv, WorkersSound
  <1>2. [Next]_vars
    BY DEF Next
  <1>3. /\ \A u \in Workers \ {w} : worker'[u] = worker[u]
        /\ exec' = exec
    BY <1>1 DEF WorkerCommand, CommandDone, StartFlow, StopFlow, StopAll, WorkerStep,
       TriggerInFlight, TriggerNoInFlight, TriggerNew, TriggerNothing, TriggerAdvance,
       Enqueue, Submit, StopAllNext, StopAllOne, StopAllDone
  <1>4. \A u \in Workers : worker[u].pc = "advance" =>
          /\ worker[u].next \in Reach(root[worker[u].flow])
          /\ root'[worker[u].flow] = root[worker[u].flow]
    BY <1>2, ThreadSound, RootFixed DEF GraphInv, NextIn, SoundWorker, Carries
  <1>5. ASSUME \/ worker'[w].pc # "advance" \/ worker'[w] = worker[w]
               \/ worker'[w].next \in Reach(root'[worker'[w].flow])
        PROVE  NextIn'
    BY <1>3, <1>4, <1>5 DEF NextIn
  <1>6. ASSUME UNCHANGED <<root, step>>
        PROVE  StepIn'
    BY <1>6 DEF GraphInv, StepIn, Created
  <1>7. CASE TriggerInFlight(w)
    <2>1. PICK i \in DOMAIN in_flight, m \in Nodes :
            /\ FirstChild(step[in_flight[i]], worker[w].cmd, m)
            /\ worker' = [worker EXCEPT ![w].pc = "advance", ![w].flow = in_flight[i], ![w].next = m]
      BY <1>7 DEF TriggerInFlight
    <2>2. worker'[w].flow = in_flight[i] /\ worker'[w].next = m
      BY <1>1, <2>1 DEF WorkerRec
    <2>3. in_flight[i] \in Created
      BY ElementOfSeq, LenProperties DEF TypeInv, ListsSound
    <2>4. step[in_flight[i]] \in Reach(root[in_flight[i]])
      BY <2>3 DEF GraphInv, StepIn
    <2>5. PICK k \in DOMAIN Children[step[in_flight[i]]] : m = Children[step[in_flight[i]]][k]
      BY <2>1 DEF FirstChild
    <2>6. m \in Reach(root[in_flight[i]])
      BY <2>4, <2>5, ReachChild
    <2>7. UNCHANGED <<root, step>>
      BY <1>7 DEF TriggerInFlight, flowVars
    <2>8. QED
      BY <1>3, <1>5, <1>6, <2>2, <2>6, <2>7
  <1>8. CASE TriggerNew(w)
    <2>1. PICK r \in Roots, f \in Flows, m \in Nodes :
            /\ FirstChild(r, worker[w].cmd, m)
            /\ CreateFlow(f, r, worker[w].sender)
            /\ worker' = [worker EXCEPT ![w].pc = "advance", ![w].flow = f, ![w].next = m]
      BY <1>8 DEF TriggerNew
    <2>2. worker'[w].flow = f /\ worker'[w].next = m
      BY <1>1, <2>1 DEF WorkerRec
    <2>3. StepIn' /\ root'[f] = r
      BY <2>1, CreateFlowStepIn DEF GraphInv
    <2>4. PICK k \in DOMAIN Children[r] : m = Children[r][k]
      BY <2>1 DEF FirstChild
    <2>5. m \in Reach(r)
      BY <2>4, ReachRoot, ReachChild
    <2>6. QED
      BY <1>3, <1>5, <2>2, <2>3, <2>5
  <1>9. CASE TriggerAdvance(w)
    <2>1. /\ worker[w].pc = "advance" /\ worker[w].flow \in Created
          /\ root' = root /\ step' = [step EXCEPT ![worker[w].flow] = worker[w].next]
      BY <1>1, <1>9 DEF TriggerAdvance, SoundWorker, Carries
    <2>2. StepIn'
      BY <1>4, <2>1 DEF GraphInv, StepIn, Created, TypeInv, FlowsSound
    <2>3. worker'[w].pc # "advance"
      BY <1>1, <1>9 DEF TriggerAdvance, WorkerRec
    <2>4. QED
      BY <1>3, <1>5, <2>2, <2>3
  <1>10. ASSUME NEW s \in Senders, NEW r \in Roots, NEW f \in Flows, StartFlow(w, s, r, f)
         PROVE  StepIn' /\ NextIn'
    <2>1. worker'[w].pc # "advance"
      BY <1>1, <1>10 DEF StartFlow, IdleWorker
    <2>2. StepIn'
      BY <1>10, CreateFlowStepIn DEF StartFlow, GraphInv
    <2>3. QED
      BY <1>5, <2>1, <2>2
  <1>11. CASE \/ \E s \in Senders, c \in Commands : CommandDone(w, s, c)
              \/ \E s \in Senders, r \in Roots : StopFlow(w, s, r)
              \/ \E s \in Senders : StopAll(w, s)
    <2>1. /\ worker'[w].pc # "advance" \/ worker'[w] = worker[w]
          /\ UNCHANGED <<root, step>>
      BY <1>1, <1>11 DEF CommandDone, StopFlow, StopAll, IdleWorker, flowVars
    <2>2. QED
      BY <1>3, <1>5, <1>6, <2>1
  <1>12. CASE \/ TriggerNoInFlight(w) \/ TriggerNothing(w) \/ Enqueue(w) \/ Submit(w)
              \/ StopAllNext(w) \/ StopAllOne(w) \/ StopAllDone(w)
    <2>1. worker'[w].pc # "advance" /\ UNCHANGED <<root, step>>
      BY <1>1, <1>12 DEF TriggerNoInFlight, TriggerNothing, Enqueue, Submit, StopAllNext,
         StopAllOne, StopAllDone, IdleWorker, WorkerRec, flowVars
    <2>2. QED
      BY <1>3, <1>5, <1>6, <2>1
  <1>13. QED
    BY <1>3, <1>7, <1>8, <1>9, <1>10, <1>11, <1>12 DEF WorkerCommand, WorkerStep

\* The reads of an executor may be old: what it works from was in the graph when
\* it was read, and the graph does not change.
LEMMA ExecutorInGraph ==
    ASSUME TypeInv, GraphInv, NEW e \in Executors, ExecStep(e)
    PROVE  StepIn' /\ AtIn' /\ worker' = worker /\ root' = root
  <1> DEFINE Works == {"steps", "hint", "run", "check", "set"}
  <1>1. /\ exec \in [Executors -> ExecRec] /\ exec[e] \in ExecRec
        /\ SoundExec(exec[e], Created)
    BY ThreadSound DEF TypeInv, ExecsSound
  <1>2. /\ \A d \in Executors \ {e} : exec'[d] = exec[d]
        /\ UNCHANGED <<root, worker>>
    BY <1>1 DEF ExecStep, Take, ReadAutosteps, ReadSteps, SendHints, Spin, RunAutostep,
       CheckAutostep, AdvanceAutostep, RemoveFlow, flowVars
  <1>3. ASSUME exec'[e].pc \in Works => exec'[e].at \in Reach(root[exec'[e].flow])
        PROVE  AtIn'
    BY <1>2, <1>3 DEF GraphInv, AtIn
  <1>4. ASSUME step' = step
        PROVE  StepIn'
    BY <1>2, <1>4 DEF GraphInv, StepIn, Created
  <1>5. exec[e].pc # "idle" => step[exec[e].flow] \in Reach(root[exec[e].flow])
    BY <1>1 DEF SoundExec, GraphInv, StepIn
  <1>6. exec[e].pc \in Works => exec[e].at \in Reach(root[exec[e].flow])
    BY DEF GraphInv, AtIn
  <1>7. CASE ReadAutosteps(e)
    <2>1. PICK t : exec' = [exec EXCEPT ![e].pc = "steps", ![e].at = step[exec[e].flow], ![e].todo = t]
      BY <1>7 DEF ReadAutosteps
    <2>2. exec'[e].at = step[exec[e].flow] /\ exec'[e].flow = exec[e].flow /\ exec[e].pc # "idle"
      BY <1>1, <1>7, <2>1 DEF ExecRec, ReadAutosteps
    <2>3. step' = step
      BY <1>7 DEF ReadAutosteps, flowVars
    <2>4. QED
      BY <1>2, <1>3, <1>4, <1>5, <2>2, <2>3
  <1>8. CASE ReadSteps(e)
    <2> DEFINE n == step[exec[e].flow]
    <2>1. PICK pc : exec' = [exec EXCEPT ![e].pc = pc,
                               ![e].at = IF exec[e].todo = {} THEN n ELSE @]
      BY <1>8 DEF ReadSteps
    <2>2. /\ exec'[e].at = n \/ exec'[e].at = exec[e].at
          /\ exec'[e].flow = exec[e].flow
      <3>1. exec[e].at = exec[e].at
        OBVIOUS
      <3> HIDE DEF n
      <3>2. QED
        BY <1>1, <2>1 DEF ExecRec
    <2>3. exec[e].pc = "steps" /\ step' = step
      BY <1>8 DEF ReadSteps, flowVars
    <2>4. exec'[e].at \in Reach(root[exec'[e].flow])
      BY <1>5, <1>6, <2>2, <2>3
    <2>5. QED
      BY <1>2, <1>3, <1>4, <2>3, <2>4
  <1>9. CASE Take(e) \/ SendHints(e) \/ Spin(e) \/ RemoveFlow(e)
    <2>1. step' = step
      BY <1>9 DEF Take, SendHints, Spin, RemoveFlow, flowVars
    <2>2. exec'[e].pc \in {"idle", "auto"}
      <3>1. Take(e) => exec'[e].pc = "auto"
        BY <1>1 DEF Take, IdleExec
      <3>2. Spin(e) => exec'[e].pc = "auto"
        BY <1>1 DEF Spin, ExecRec
      <3>3. SendHints(e) \/ RemoveFlow(e) => exec'[e].pc = "idle"
        BY <1>1 DEF SendHints, RemoveFlow, IdleExec
      <3>4. QED
        BY <1>9, <3>1, <3>2, <3>3
    <2>3. QED
      BY <1>2, <1>3, <1>4, <2>1, <2>2
  <1>10. CASE RunAutostep(e) \/ CheckAutostep(e)
    <2>1. exec[e].pc \in Works /\ step' = step
      BY <1>10 DEF RunAutostep, CheckAutostep, flowVars
    <2>2. (\E pc : exec' = [exec EXCEPT ![e].pc = pc]) \/ exec' = [exec EXCEPT ![e] = IdleExec]
      BY <1>10 DEF RunAutostep, CheckAutostep
    <2>3. ASSUME NEW pc, exec' = [exec EXCEPT ![e].pc = pc]
          PROVE  exec'[e].at = exec[e].at /\ exec'[e].flow = exec[e].flow
      BY <1>1, <2>3 DEF ExecRec
    <2>4. exec' = [exec EXCEPT ![e] = IdleExec] => exec'[e].pc = "idle"
      BY <1>1 DEF IdleExec
    <2>5. QED
      BY <1>2, <1>3, <1>4, <1>6, <2>1, <2>2, <2>3, <2>4
  <1>11. CASE AdvanceAutostep(e)
    <2>1. PICK k \in exec[e].todo :
            /\ step' = [step EXCEPT ![exec[e].flow] = Children[exec[e].at][k]]
            /\ exec' = [exec EXCEPT ![e].todo = @ \ {k},
                          ![e].pc = IF exec[e].todo = {k} THEN "auto" ELSE "run",
                          ![e].at = IF exec[e].todo = {k} THEN None ELSE @]
      BY <1>11 DEF AdvanceAutostep
    <2>2. exec[e].pc = "set" /\ exec[e].flow \in Created /\ k \in DOMAIN Children[exec[e].at]
      BY <1>1, <1>11 DEF AdvanceAutostep, SoundExec
    <2>3. Children[exec[e].at][k] \in Reach(root[exec[e].flow])
      BY <1>6, <2>2, ReachChild
    <2>4. StepIn'
      BY <1>2, <2>1, <2>2, <2>3 DEF GraphInv, StepIn, Created, TypeInv, FlowsSound
    <2>5. /\ exec'[e].pc = "auto" \/ exec'[e].at = exec[e].at
          /\ exec'[e].flow = exec[e].flow
      <3>1. CASE exec[e].todo = {k}
        BY <1>1, <2>1, <3>1 DEF ExecRec
      <3>2. CASE exec[e].todo # {k}
        BY <1>1, <2>1, <3>2 DEF ExecRec
      <3>3. QED
        BY <3>1, <3>2
    <2>6. QED
      BY <1>2, <1>3, <1>6, <2>2, <2>4, <2>5
  <1>12. QED
    BY <1>7, <1>8, <1>9, <1>10, <1>11 DEF ExecStep

LEMMA GraphInvStep == TypeInv /\ GraphInv /\ [Next]_vars => GraphInv'
  <1> SUFFICES ASSUME TypeInv, GraphInv, [Next]_vars PROVE GraphInv'
    OBVIOUS
  <1>1. ASSUME exec' = exec
        PROVE  AtIn'
    BY <1>1, RootFixed, ThreadSound DEF GraphInv, AtIn, SoundExec
  <1>2. ASSUME worker' = worker, root' = root
        PROVE  NextIn'
    BY <1>2 DEF GraphInv, NextIn
  <1>3. CASE UNCHANGED vars
    BY <1>1, <1>2, <1>3 DEF vars, GraphInv, StepIn, Created
  <1>4. QED
    BY <1>1, <1>2, <1>3, WorkerInGraph, ExecutorInGraph DEF Next, GraphInv

\* However triggers and executors interleave, and however many autosteps a round
\* has, the current step of a flow can be reached from the flow's root.
THEOREM StaysInGraphHolds == Spec => []StaysInGraph
  <1>1. Init => GraphInv
    BY DEF Init, GraphInv, StepIn, NextIn, AtIn, Created, IdleWorker, IdleExec
  <1>2. GraphInv => StaysInGraph
    BY DEF GraphInv, StepIn, Reach, Closed, StaysInGraph
  <1>3. QED
    BY <1>1, <1>2, TypeInvInit, TypeInvStep, GraphInvStep, PTL DEF Spec
=============================================================================
