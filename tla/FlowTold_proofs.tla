-------------------------- MODULE FlowTold_proofs --------------------------
(***************************************************************************)
(* No flow is forgotten: the proof that WaitingFlowsAreTold holds of       *)
(* FlowExecutor.                                                           *)
(*                                                                         *)
(* The invariant has to look at flows that threads work on as well.  Such  *)
(* a flow is attended by somebody who is yet to look at the current step:  *)
(* a worker that will submit it, the task that waits in the pool, or an    *)
(* executor whose view of the step is not outdated.                        *)
(***************************************************************************)
EXTENDS FlowExecutor_proofs

Carried(f) == \E w \in Workers : worker[w].pc \in Carries /\ worker[w].flow = f
Queued(f) == \E i \in DOMAIN pool : pool[i] = f

\* Executor e is at work on f, and not about to hint at a step f has left.
Fresh(e, f) ==
    /\ exec[e].flow = f
    /\ \/ exec[e].pc \in {"auto", "steps", "run", "check", "set", "remove"}
       \/ exec[e].pc = "hint" /\ exec[e].at = step[f]

Attended(f) == Queued(f) \/ Carried(f) \/ \E e \in Executors : Fresh(e, f)
Settled(f) == told[f] = "hinted" \/ (told[f] = "died" /\ ~ManualGraph)
Kept(f) == Attended(f) \/ Settled(f)

InFlight(f) == \E i \in DOMAIN in_flight : in_flight[i] = f

NotForgotten == \A f \in Flows : InFlight(f) => Kept(f)

\* An executor only has automatic steps to do in a graph that has some.
AutoNeeded == \A e \in Executors : exec[e].todo # {} => AutoEdges # {}

-----------------------------------------------------------------------------
LEMMA InFlightCreated == TypeInv => \A f : InFlight(f) => f \in Created /\ f \in Flows
  BY LenProperties, ElementOfSeq DEF TypeInv, ListsSound, InFlight, Created

\* A worker that carries no flow, or goes on to carry the same flow, and an
\* executor that turns to a record that attends to what it attended to, leave
\* every flow kept.
LEMMA WorkerKeeps ==
    ASSUME TypeInv, NEW w \in Workers, NEW v, worker' = [worker EXCEPT ![w] = v],
           worker[w].pc \in Carries => v.pc \in Carries /\ v.flow = worker[w].flow,
           UNCHANGED <<pool, exec, told>>,
           NEW f, step'[f] = step[f], Kept(f)
    PROVE  Kept(f)'
  <1>1. \A u \in Workers : worker'[u] = IF u = w THEN v ELSE worker[u]
    BY DEF TypeInv, WorkersSound
  <1>2. Carried(f) => Carried(f)'
    BY <1>1 DEF Carried
  <1>3. (Queued(f) => Queued(f)') /\ (Settled(f) => Settled(f)')
    BY DEF Queued, Settled
  <1>4. \A e \in Executors : Fresh(e, f) => Fresh(e, f)'
    BY DEF Fresh
  <1>5. QED
    BY <1>2, <1>3, <1>4 DEF Kept, Attended

LEMMA ExecKeeps ==
    ASSUME TypeInv, NEW e \in Executors, NEW x, exec' = [exec EXCEPT ![e] = x],
           UNCHANGED <<pool, worker>>,
           NEW f, step'[f] = step[f], told'[f] = told[f], Kept(f),
           Fresh(e, f) => Fresh(e, f)'
    PROVE  Kept(f)'
  <1>1. \A d \in Executors : Fresh(d, f) => Fresh(d, f)'
    BY DEF Fresh, TypeInv, ExecsSound
  <1>2. (Queued(f) => Queued(f)') /\ (Carried(f) => Carried(f)') /\ (Settled(f) => Settled(f)')
    BY DEF Queued, Carried, Settled
  <1>3. QED
    BY <1>1, <1>2 DEF Kept, Attended

\* stop_flow puts nothing in flight.
LEMMA StopFirstTakesOut ==
    ASSUME TypeInv, NEW r, NEW s, StopFirst(r, s), NEW f, InFlight(f)'
    PROVE  InFlight(f)
  <1>1. \A k \in DOMAIN in_flight : \A i \in DOMAIN RemoveAt(in_flight, k) :
          \E j \in DOMAIN in_flight : RemoveAt(in_flight, k)[i] = in_flight[j]
    BY RemoveAtSelects DEF TypeInv, ListsSound
  <1>2. QED
    BY <1>1 DEF StopFirst, InFlight

\* The automatic steps of a round are edges with a predicate of the plugin.
LEMMA AutoNeededStep == TypeInv /\ AutoNeeded /\ [Next]_vars => AutoNeeded'
  <1> SUFFICES ASSUME TypeInv, AutoNeeded, [Next]_vars,
                      NEW d \in Executors, exec'[d].todo # {}
               PROVE  AutoEdges # {}
    BY DEF AutoNeeded
  <1>1. CASE exec'[d].todo \subseteq exec[d].todo
    BY <1>1 DEF AutoNeeded
  <1>2. CASE ReadAutosteps(d)
    <2>1. PICK t : /\ t \subseteq {k \in DOMAIN Children[step[exec[d].flow]] :
                           <<step[exec[d].flow], Children[step[exec[d].flow]][k]>> \in AutoEdges}
                   /\ exec' = [exec EXCEPT ![d].pc = "steps", ![d].at = step[exec[d].flow], ![d].todo = t]
      BY <1>2 DEF ReadAutosteps
    <2>2. exec'[d].todo = t
      BY <2>1, ThreadSound DEF TypeInv, ExecsSound, ExecRec
    <2>3. QED
      BY <2>1, <2>2
  <1>3. QED
    <2>1. ASSUME NEW e \in Executors, ExecStep(e), ~ReadAutosteps(d)
          PROVE  exec'[d].todo \subseteq exec[d].todo
      <3>1. CASE e # d
        BY <2>1, <3>1 DEF ExecStep, Take, ReadAutosteps, ReadSteps, SendHints, Spin,
           RunAutostep, CheckAutostep, AdvanceAutostep, RemoveFlow, TypeInv, ExecsSound
      <3>2. CASE e = d
        <4>1. exec[d] \in ExecRec /\ DOMAIN exec = Executors
          BY ThreadSound DEF TypeInv, ExecsSound
        <4>2. CASE AdvanceAutostep(d)
          <5>1. PICK k \in exec[d].todo :
                  exec' = [exec EXCEPT ![d].todo = @ \ {k},
                             ![d].pc = IF exec[d].todo = {k} THEN "auto" ELSE "run",
                             ![d].at = IF exec[d].todo = {k} THEN None ELSE @]
            BY <4>2 DEF AdvanceAutostep
          <5>2. QED
            BY <4>1, <5>1 DEF ExecRec
        <4>3. CASE ReadSteps(d)
          BY <4>1, <4>3 DEF ReadSteps, ExecRec
        <4>4. CASE Spin(d)
          BY <4>1, <4>4 DEF Spin, ExecRec
        <4>5. ASSUME NEW pc, exec' = [exec EXCEPT ![d].pc = pc]
              PROVE  exec'[d].todo = exec[d].todo
          BY <4>1, <4>5 DEF ExecRec
        <4>6. ASSUME exec' = [exec EXCEPT ![d] = IdleExec]
              PROVE  exec'[d].todo = {}
          BY <4>1, <4>6 DEF IdleExec
        <4>7. CASE CheckAutostep(d) \/ RunAutostep(d)
          BY <4>5, <4>6, <4>7 DEF CheckAutostep, RunAutostep
        <4>8. CASE SendHints(d) \/ RemoveFlow(d)
          BY <4>6, <4>8 DEF SendHints, RemoveFlow
        <4>9. CASE Take(d)
          <5>1. exec'[d] = [IdleExec EXCEPT !.pc = "auto", !.flow = Head(pool)]
            BY <4>1, <4>9 DEF Take
          <5>2. QED
            BY <5>1 DEF IdleExec
        <4>10. QED
          BY <2>1, <3>2, <4>2, <4>3, <4>4, <4>7, <4>8, <4>9 DEF ExecStep
      <3>3. QED
        BY <3>1, <3>2
    <2>2. ASSUME NEW w \in Workers, WorkerCommand(w)
          PROVE  exec' = exec
      BY <2>2 DEF WorkerCommand, CommandDone, StartFlow, StopFlow, StopAll
    <2>3. ASSUME NEW w \in Workers, WorkerStep(w)
          PROVE  exec' = exec
      BY <2>3 DEF WorkerStep, TriggerInFlight, TriggerNoInFlight, TriggerNew,
         TriggerNothing, TriggerAdvance, Enqueue, Submit, StopAllNext, StopAllOne, StopAllDone
    <2>4. QED
      BY <1>1, <1>2, <2>1, <2>2, <2>3 DEF Next, vars

\* A step by which a flow that is not in flight yet gets there, or its current
\* step changes, is one by a thread that then attends to it; a thread lets go
\* of a flow only when the user was told, or when it takes the flow out.
LEMMA NotForgottenWorker ==
    ASSUME TypeInv, NotForgotten, NEW w \in Workers, WorkerCommand(w) \/ WorkerStep(w)
    PROVE  NotForgotten'
  <1> SUFFICES ASSUME NEW f \in Flows, InFlight(f)' PROVE Kept(f)'
    BY DEF NotForgotten
  <1> DEFINE Was == InFlight(f) /\ Kept(f) /\ f \in Created
  <1>0. InFlight(f) => Was
    BY InFlightCreated DEF NotForgotten
  <1>1. CASE \E s \in Senders, c \in Commands : CommandDone(w, s, c)
    <2>1. PICK s \in Senders, c \in Commands : CommandDone(w, s, c)
      BY <1>1
    <2>2. Was
      BY <1>0, <2>1 DEF CommandDone, InFlight
    <2>3. QED
      BY <2>1, <2>2, WorkerKeeps DEF CommandDone, flowVars, Carries
  <1>2. CASE \E s \in Senders, r \in Roots, g \in Flows : StartFlow(w, s, r, g)
    <2>1. PICK s \in Senders, r \in Roots, g \in Flows : StartFlow(w, s, r, g)
      BY <1>2
    <2>2. Was
      BY <1>0, <2>1 DEF StartFlow, InFlight
    <2>3. step'[f] = step[f]
      BY <2>1, <2>2 DEF StartFlow, CreateFlow, TypeInv, FlowsSound
    <2>4. QED
      BY <2>1, <2>2, <2>3, WorkerKeeps DEF StartFlow, Carries
  <1>3. CASE \E s \in Senders, r \in Roots : StopFlow(w, s, r)
    <2>1. PICK s \in Senders, r \in Roots : StopFlow(w, s, r)
      BY <1>3
    <2>2. Was
      BY <1>0, <2>1, StopFirstTakesOut DEF StopFlow
    <2>3. QED
      BY <2>1, <2>2 DEF StopFlow, flowVars, Kept, Attended, Queued, Carried, Fresh, Settled
  <1>4. CASE \E s \in Senders : StopAll(w, s)
    <2>1. PICK s \in Senders : StopAll(w, s)
      BY <1>4
    <2>2. Was
      BY <1>0, <2>1 DEF StopAll, InFlight
    <2>3. QED
      BY <2>1, <2>2, WorkerKeeps DEF StopAll, flowVars, Carries
  <1>5. CASE TriggerInFlight(w)
    <2>1. Was
      BY <1>0, <1>5 DEF TriggerInFlight, InFlight
    <2>2. PICK i \in DOMAIN in_flight, m \in Nodes :
            worker' = [worker EXCEPT ![w].pc = "advance", ![w].flow = in_flight[i], ![w].next = m]
      BY <1>5 DEF TriggerInFlight
    <2> DEFINE v == [worker[w] EXCEPT !.pc = "advance", !.flow = in_flight[i], !.next = m]
    <2>3. worker' = [worker EXCEPT ![w] = v]
      BY <2>2
    <2>4. QED
      BY <1>5, <2>1, <2>3, WorkerKeeps DEF TriggerInFlight, flowVars, Carries
  <1>6. CASE TriggerNoInFlight(w)
    <2>1. Was
      BY <1>0, <1>6 DEF TriggerNoInFlight, InFlight
    <2> DEFINE v == [worker[w] EXCEPT !.pc = "check_new"]
    <2>2. worker' = [worker EXCEPT ![w] = v]
      BY <1>6 DEF TriggerNoInFlight
    <2>3. QED
      BY <1>6, <2>1, <2>2, WorkerKeeps DEF TriggerNoInFlight, flowVars, Carries
  <1>7. CASE TriggerNew(w)
    <2>1. Was
      BY <1>0, <1>7 DEF TriggerNew, InFlight
    <2>2. PICK r \in Roots, g \in Flows, m \in Nodes :
            /\ CreateFlow(g, r, worker[w].sender)
            /\ worker' = [worker EXCEPT ![w].pc = "advance", ![w].flow = g, ![w].next = m]
      BY <1>7 DEF TriggerNew
    <2>3. step'[f] = step[f]
      BY <2>1, <2>2 DEF CreateFlow, TypeInv, FlowsSound
    <2> DEFINE v == [worker[w] EXCEPT !.pc = "advance", !.flow = g, !.next = m]
    <2>4. worker' = [worker EXCEPT ![w] = v]
      BY <2>2
    <2>5. QED
      BY <1>7, <2>1, <2>3, <2>4, WorkerKeeps DEF TriggerNew, Carries
  <1>8. CASE TriggerNothing(w)
    <2>1. Was
      BY <1>0, <1>8 DEF TriggerNothing, InFlight
    <2>2. QED
      BY <1>8, <2>1, WorkerKeeps DEF TriggerNothing, flowVars, Carries
  <1>9. CASE TriggerAdvance(w)
    <2>1. Was
      BY <1>0, <1>9 DEF TriggerAdvance, InFlight
    <2>2. worker'[w].pc = "enqueue" /\ worker'[w].flow = worker[w].flow
      BY <1>9, ThreadSound DEF TriggerAdvance, TypeInv, WorkersSound, WorkerRec
    <2>3. CASE worker[w].flow = f
      BY <2>2, <2>3 DEF Kept, Attended, Carried, Carries
    <2>4. CASE worker[w].flow # f
      <3>1. step'[f] = step[f] /\ told'[f] = told[f]
        BY <1>9, <2>4 DEF TriggerAdvance, TypeInv, FlowsSound, ListsSound
      <3>2. Queued(f) => Queued(f)'
        BY <1>9 DEF TriggerAdvance, Queued
      <3>3. Carried(f) => Carried(f)'
        BY <1>9, <2>4 DEF TriggerAdvance, Carried, TypeInv, WorkersSound
      <3>4. \A e \in Executors : Fresh(e, f) => Fresh(e, f)'
        BY <1>9, <3>1 DEF TriggerAdvance, Fresh
      <3>5. Settled(f) => Settled(f)'
        BY <3>1 DEF Settled
      <3>6. QED
        BY <2>1, <3>2, <3>3, <3>4, <3>5 DEF Kept, Attended
    <2>5. QED
      BY <2>3, <2>4
  <1>10. CASE Enqueue(w)
    <2> DEFINE v == [worker[w] EXCEPT !.pc = "submit"]
    <2>1. /\ worker' = [worker EXCEPT ![w] = v]
          /\ v.pc = "submit" /\ v.flow = worker[w].flow
      BY <1>10, ThreadSound DEF Enqueue, WorkerRec
    <2>2. CASE worker[w].flow = f
      BY <2>1, <2>2 DEF Kept, Attended, Carried, Carries, TypeInv, WorkersSound
    <2>3. CASE worker[w].flow # f
      <3>1. InFlight(f)
        BY <1>10, <2>3, ThreadSound, AppendElements, LenProperties
           DEF Enqueue, InFlight, TypeInv, ListsSound, SoundWorker, Carries
      <3>2. QED
        BY <1>0, <1>10, <2>1, <3>1, WorkerKeeps DEF Enqueue, flowVars, Carries
    <2>4. QED
      BY <2>2, <2>3
  <1>11. CASE Submit(w)
    <2>1. Was
      BY <1>0, <1>11 DEF Submit, InFlight
    <2>2. worker[w].flow \in Created /\ pool \in Seq(Created)
      BY <1>11, ThreadSound DEF Submit, SoundWorker, Carries, TypeInv, ListsSound
    <2>3. /\ Queued(f) => Queued(f)'
          /\ worker[w].flow = f => Queued(f)'
      BY <1>11, <2>2, AppendElements, LenProperties DEF Submit, Queued
    <2>4. worker[w].flow # f /\ Carried(f) => Carried(f)'
      BY <1>11 DEF Submit, Carried, TypeInv, WorkersSound
    <2>5. \A e \in Executors : Fresh(e, f) => Fresh(e, f)'
      BY <1>11 DEF Submit, Fresh, flowVars
    <2>6. Settled(f) => Settled(f)'
      BY <1>11 DEF Submit, Settled
    <2>7. QED
      BY <2>1, <2>3, <2>4, <2>5, <2>6 DEF Kept, Attended
  <1>12. CASE StopAllNext(w)
    <2>1. Was
      BY <1>0, <1>12 DEF StopAllNext, InFlight
    <2>2. PICK v : worker' = [worker EXCEPT ![w] = v]
      BY <1>12 DEF StopAllNext
    <2>3. worker[w].pc \notin Carries
      BY <1>12 DEF StopAllNext, Carries
    <2>4. QED
      BY <1>12, <2>1, <2>2, <2>3, WorkerKeeps DEF StopAllNext, flowVars
  <1>15. CASE StopAllOne(w)
    <2> DEFINE v == [worker[w] EXCEPT !.pc = "stop_all"]
    <2>1. Was
      BY <1>0, <1>15, StopFirstTakesOut DEF StopAllOne
    <2>2. worker' = [worker EXCEPT ![w] = v]
      BY <1>15 DEF StopAllOne
    <2>3. QED
      BY <1>15, <2>1, <2>2, WorkerKeeps DEF StopAllOne, flowVars, Carries
  <1>13. CASE StopAllDone(w)
    <2>1. Was
      BY <1>0, <1>13 DEF StopAllDone, InFlight
    <2>2. QED
      BY <1>13, <2>1, WorkerKeeps DEF StopAllDone, flowVars, Carries
  <1>14. QED
    BY <1>1, <1>2, <1>3, <1>4, <1>5, <1>6, <1>7, <1>8, <1>9, <1>10, <1>11, <1>12, <1>13, <1>15
       DEF WorkerCommand, WorkerStep

\* RemoveFlow takes the flow out for good: it was in flight once.
LEMMA RemoveFlowTakesOut ==
    ASSUME TypeInv, Once, NEW e \in Executors, RemoveFlow(e), NEW f, InFlight(f)'
    PROVE  InFlight(f) /\ f # exec[e].flow
  <1>1. CASE Contains(in_flight, exec[e].flow)
    <2>1. PICK i \in DOMAIN in_flight :
            in_flight[i] = exec[e].flow /\ in_flight' = RemoveAt(in_flight, i)
      BY <1>1 DEF RemoveFlow
    <2>2. \A j \in DOMAIN RemoveAt(in_flight, i) :
            /\ RemoveAt(in_flight, i)[j] # in_flight[i]
            /\ \E k \in DOMAIN in_flight : RemoveAt(in_flight, i)[j] = in_flight[k]
      BY RemoveAtDistinct DEF Once, TypeInv, ListsSound
    <2>3. QED
      BY <2>1, <2>2 DEF InFlight
  <1>2. CASE ~Contains(in_flight, exec[e].flow)
    <2>1. in_flight' = in_flight
      BY <1>2 DEF RemoveFlow
    <2>2. QED
      BY <1>2, <2>1, LenProperties DEF InFlight, Contains, TypeInv, ListsSound
  <1>3. QED
    BY <1>1, <1>2

LEMMA NotForgottenExec ==
    ASSUME TypeInv, Once, AutoNeeded, NotForgotten, NEW e \in Executors, ExecStep(e)
    PROVE  NotForgotten'
  <1> SUFFICES ASSUME NEW f \in Flows, InFlight(f)' PROVE Kept(f)'
    BY DEF NotForgotten
  <1>0. InFlight(f) => Kept(f)
    BY DEF NotForgotten
  <1>1. exec[e] \in ExecRec /\ DOMAIN exec = Executors /\ SoundExec(exec[e], Created)
    BY ThreadSound DEF TypeInv, ExecsSound
  <1>2. CASE Take(e)
    <2>1. /\ Kept(f) /\ pool \in Seq(Created) /\ pool # << >>
      BY <1>0, <1>2 DEF Take, InFlight, TypeInv, ListsSound
    <2> DEFINE x == [IdleExec EXCEPT !.pc = "auto", !.flow = Head(pool)]
    <2>2. exec' = [exec EXCEPT ![e] = x] /\ x.pc = "auto" /\ x.flow = Head(pool)
      BY <1>2 DEF Take, IdleExec
    <2>3. Head(pool) = f => Fresh(e, f)'
      BY <1>1, <2>2 DEF Fresh
    <2>4. Queued(f) => Queued(f)' \/ Head(pool) = f
      <3>1. ASSUME NEW i \in DOMAIN pool, i # 1
            PROVE  i - 1 \in DOMAIN Tail(pool) /\ Tail(pool)[i - 1] = pool[i]
        BY <2>1, <3>1, TailElements, LenProperties
      <3>2. Head(pool) = pool[1]
        BY <2>1, TailElements
      <3>3. pool' = Tail(pool)
        BY <1>2 DEF Take
      <3>4. QED
        BY <3>1, <3>2, <3>3 DEF Queued
    <2>5. Carried(f) => Carried(f)'
      BY <1>2 DEF Take, Carried
    <2>6. \A d \in Executors : Fresh(d, f) => Fresh(d, f)'
      BY <1>1, <1>2, <2>2 DEF Take, Fresh, flowVars
    <2>7. Settled(f) => Settled(f)'
      BY <1>2 DEF Take, Settled
    <2>8. QED
      BY <2>1, <2>3, <2>4, <2>5, <2>6, <2>7 DEF Kept, Attended
  <1>3. CASE ReadAutosteps(e)
    <2>1. PICK t : exec' = [exec EXCEPT ![e].pc = "steps", ![e].at = step[exec[e].flow], ![e].todo = t]
      BY <1>3 DEF ReadAutosteps
    <2> DEFINE x == [exec[e] EXCEPT !.pc = "steps", !.at = step[exec[e].flow], !.todo = t]
    <2>2. exec' = [exec EXCEPT ![e] = x] /\ x.pc = "steps" /\ x.flow = exec[e].flow
      BY <1>1, <2>1 DEF ExecRec
    <2>3. Fresh(e, f) => Fresh(e, f)'
      BY <1>1, <2>2 DEF Fresh
    <2>4. Kept(f)
      BY <1>0, <1>3 DEF ReadAutosteps, InFlight
    <2>5. QED
      BY <1>3, <2>2, <2>3, <2>4, ExecKeeps DEF ReadAutosteps, flowVars
  <1>4. CASE ReadSteps(e)
    <2> DEFINE n == step[exec[e].flow]
               x == [exec[e] EXCEPT
                       !.pc = IF Children[n] = << >> THEN "remove"
                              ELSE IF exec[e].todo = {} THEN "hint" ELSE "run",
                       !.at = IF exec[e].todo = {} THEN n ELSE @]
    <2>1. /\ exec' = [exec EXCEPT ![e] = x] /\ x.flow = exec[e].flow
          /\ x.pc \in {"remove", "run"} \/ (x.pc = "hint" /\ x.at = n)
      BY <1>1, <1>4 DEF ReadSteps, ExecRec
    <2>2. Fresh(e, f) => Fresh(e, f)'
      BY <1>1, <1>4, <2>1 DEF ReadSteps, flowVars, Fresh
    <2>3. Kept(f)
      BY <1>0, <1>4 DEF ReadSteps, InFlight
    <2>4. QED
      BY <1>4, <2>1, <2>2, <2>3, ExecKeeps DEF ReadSteps, flowVars
  <1>5. CASE SendHints(e)
    <2>1. Kept(f)
      BY <1>0, <1>5 DEF SendHints, InFlight
    <2>2. exec' = [exec EXCEPT ![e] = IdleExec]
      BY <1>5 DEF SendHints
    <2>3. CASE exec[e].flow # f
      <3>1. told'[f] = told[f] /\ ~Fresh(e, f)
        BY <1>5, <2>3 DEF SendHints, TypeInv, ListsSound, Fresh
      <3>2. QED
        BY <1>5, <2>1, <2>2, <3>1, ExecKeeps DEF SendHints, flowVars
    <2>4. CASE exec[e].flow = f /\ \E m \in Nodes : IsChild(exec[e].at, m) /\ CommandOf[m] = None
      <3>1. told'[f] = "died"
        BY <1>5, <2>4 DEF SendHints, TypeInv, ListsSound
      <3>2. IsChild(exec[e].at, FLOW_END) /\ exec[e].at \in Nodes
        BY <1>1, <1>5, <2>4, FlowAssumption DEF SendHints, SoundExec, IsChild
      <3>3. QED
        BY <3>1, <3>2 DEF ManualGraph, Kept, Settled
    <2>5. CASE /\ exec[e].flow = f /\ exec[e].at = step[f]
               /\ ~\E m \in Nodes : IsChild(exec[e].at, m) /\ CommandOf[m] = None
      <3>1. told'[f] = "hinted"
        BY <1>5, <2>5 DEF SendHints, TypeInv, ListsSound
      <3>2. QED
        BY <3>1 DEF Kept, Settled
    <2>6. CASE /\ exec[e].flow = f /\ exec[e].at # step[f]
               /\ ~\E m \in Nodes : IsChild(exec[e].at, m) /\ CommandOf[m] = None
      <3>1. told'[f] = told[f] /\ ~Fresh(e, f)
        BY <1>5, <2>6 DEF SendHints, TypeInv, ListsSound, Fresh
      <3>2. QED
        BY <1>5, <2>1, <2>2, <3>1, ExecKeeps DEF SendHints, flowVars
    <2>7. QED
      BY <2>3, <2>4, <2>5, <2>6
  <1>6. CASE Spin(e)
    <2> DEFINE x == [exec[e] EXCEPT !.pc = "auto", !.at = None]
    <2>1. exec' = [exec EXCEPT ![e] = x] /\ x.pc = "auto" /\ x.flow = exec[e].flow
      BY <1>1, <1>6 DEF Spin, ExecRec
    <2>2. Fresh(e, f) => Fresh(e, f)'
      BY <1>1, <2>1 DEF Fresh
    <2>3. Kept(f)
      BY <1>0, <1>6 DEF Spin, InFlight
    <2>4. QED
      BY <1>6, <2>1, <2>2, <2>3, ExecKeeps DEF Spin, flowVars
  <1>7. CASE RunAutostep(e)
    <2>1. PICK pc \in {"remove", "check"} : exec' = [exec EXCEPT ![e].pc = pc]
      BY <1>7 DEF RunAutostep
    <2> DEFINE x == [exec[e] EXCEPT !.pc = pc]
    <2>2. exec' = [exec EXCEPT ![e] = x] /\ x.pc = pc /\ x.flow = exec[e].flow
      BY <1>1, <2>1 DEF ExecRec
    <2>3. Fresh(e, f) => Fresh(e, f)'
      BY <1>1, <2>1, <2>2 DEF Fresh
    <2>4. Kept(f)
      BY <1>0, <1>7 DEF RunAutostep, InFlight
    <2>5. QED
      BY <1>7, <2>2, <2>3, <2>4, ExecKeeps DEF RunAutostep, flowVars
  <1>8. CASE CheckAutostep(e)
    <2>1. Kept(f)
      BY <1>0, <1>8 DEF CheckAutostep, InFlight
    <2>2. CASE exec' = [exec EXCEPT ![e].pc = "set"] /\ told' = told
      <3> DEFINE x == [exec[e] EXCEPT !.pc = "set"]
      <3>1. exec' = [exec EXCEPT ![e] = x] /\ x.pc = "set" /\ x.flow = exec[e].flow
        BY <1>1, <2>2 DEF ExecRec
      <3>2. Fresh(e, f) => Fresh(e, f)'
        BY <1>1, <3>1 DEF Fresh
      <3>3. QED
        BY <1>8, <2>1, <2>2, <3>1, <3>2, ExecKeeps DEF CheckAutostep, flowVars
    <2>3. CASE exec' = [exec EXCEPT ![e] = IdleExec] /\ told' = [told EXCEPT ![exec[e].flow] = "died"]
      <3>1. ~ManualGraph
        BY <1>1, <1>8 DEF CheckAutostep, SoundExec, AutoNeeded, ManualGraph
      <3>2. CASE exec[e].flow = f
        BY <2>3, <3>1, <3>2 DEF Kept, Settled, TypeInv, ListsSound
      <3>3. CASE exec[e].flow # f
        <4>1. told'[f] = told[f] /\ ~Fresh(e, f)
          BY <2>3, <3>3 DEF TypeInv, ListsSound, Fresh
        <4>2. QED
          BY <1>8, <2>1, <2>3, <4>1, ExecKeeps DEF CheckAutostep, flowVars
      <3>4. QED
        BY <3>2, <3>3
    <2>4. QED
      BY <1>8, <2>2, <2>3 DEF CheckAutostep
  <1>9. CASE AdvanceAutostep(e)
    <2>1. PICK k \in exec[e].todo :
            exec' = [exec EXCEPT ![e].todo = @ \ {k},
                       ![e].pc = IF exec[e].todo = {k} THEN "auto" ELSE "run",
                       ![e].at = IF exec[e].todo = {k} THEN None ELSE @]
      BY <1>9 DEF AdvanceAutostep
    <2> DEFINE x == [exec[e] EXCEPT !.todo = @ \ {k},
                       !.pc = IF exec[e].todo = {k} THEN "auto" ELSE "run",
                       !.at = IF exec[e].todo = {k} THEN None ELSE @]
    <2>2. exec' = [exec EXCEPT ![e] = x] /\ x.pc \in {"auto", "run"} /\ x.flow = exec[e].flow
      BY <1>1, <2>1 DEF ExecRec
    <2>3. CASE exec[e].flow = f
      BY <1>1, <2>2, <2>3 DEF Kept, Attended, Fresh
    <2>4. CASE exec[e].flow # f
      <3>1. step'[f] = step[f] /\ told'[f] = told[f] /\ ~Fresh(e, f)
        BY <1>9, <2>4 DEF AdvanceAutostep, TypeInv, FlowsSound, ListsSound, Fresh
      <3>2. Kept(f)
        BY <1>0, <1>9 DEF AdvanceAutostep, InFlight
      <3>3. QED
        BY <1>9, <2>2, <3>1, <3>2, ExecKeeps DEF AdvanceAutostep
    <2>5. QED
      BY <2>3, <2>4
  <1>10. CASE RemoveFlow(e)
    <2>1. InFlight(f) /\ f # exec[e].flow
      BY <1>10, RemoveFlowTakesOut
    <2>2. QED
      BY <1>0, <1>10, <2>1, ExecKeeps DEF RemoveFlow, flowVars, Fresh
  <1>11. QED
    BY <1>2, <1>3, <1>4, <1>5, <1>6, <1>7, <1>8, <1>9, <1>10 DEF ExecStep

\* No flow is forgotten, whatever the two pools do: one that waits with no
\* thread at work on it has had its user told how to go on from where it is,
\* and in a graph of manual steps execute() never dies on it.
THEOREM WaitingFlowsAreToldHolds == Spec => []WaitingFlowsAreTold
  <1>1. Init => AutoNeeded /\ NotForgotten
    BY DEF Init, IdleExec, AutoNeeded, NotForgotten, InFlight
  <1>2. TypeInv /\ Once /\ AutoNeeded /\ NotForgotten /\ [Next]_vars => NotForgotten'
    <2> SUFFICES ASSUME TypeInv, Once, AutoNeeded, NotForgotten, [Next]_vars
                 PROVE  NotForgotten'
      OBVIOUS
    <2>1. CASE UNCHANGED vars
      BY <2>1 DEF vars, NotForgotten, InFlight, Kept, Attended, Queued, Carried, Fresh, Settled
    <2>2. QED
      BY <2>1, NotForgottenWorker, NotForgottenExec DEF Next
  <1>3. TypeInv /\ NotForgotten => WaitingFlowsAreTold
    <2> SUFFICES ASSUME TypeInv, NotForgotten, NEW i \in DOMAIN in_flight,
                        Unattended(in_flight[i])
                 PROVE  Settled(in_flight[i])
      BY DEF WaitingFlowsAreTold, Settled
    <2>1. Kept(in_flight[i])
      BY InFlightCreated DEF NotForgotten, InFlight
    <2>2. ~Attended(in_flight[i])
      BY DEF Unattended, Attended, Queued, Carried, Carries, Fresh
    <2>3. QED
      BY <2>1, <2>2 DEF Kept
  <1>4. Init => Once
    BY DEF Init, Once, Distinct
  <1>5. QED
    BY <1>1, <1>2, <1>3, <1>4, TypeInvInit, TypeInvStep, InFlightOnceStep, AutoNeededStep,
       PTL DEF Spec
=============================================================================
