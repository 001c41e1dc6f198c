------------------------ MODULE PluginManager_proofs ------------------------
(***************************************************************************)
(* Proofs about PluginManager, for any plugins with any dependencies and   *)
(* any number of threads.  What holds of a thread is stated of the         *)
(* variables of the call, given as parameters, so that it is said once for *)
(* the thread that runs and for those set aside.                           *)
(***************************************************************************)
EXTENDS PluginManager, SeqLemmas

\* An activation is in progress, and has not returned.
InCall(ph) == ph \in {"deps", "configure", "activate", "connect"}
Working == InCall(phase)

\* Types, in two parts: the call of the thread that runs, and everything else.
CallOK ==
    /\ top \in Loaded \cup {None}
    /\ phase \in {"idle", "enter", "deps", "configure", "activate", "connect", "done"}
    /\ open \subseteq Loaded /\ track \subseteq Loaded
    /\ frame \in [Plugins -> [i : Nat, caller : Loaded \cup {None}]]
    /\ error \in {"none", "circular", "unknown", "config", "failed"}
    /\ lost \subseteq Loaded /\ banned \subseteq Loaded

StoreOK ==
    /\ active \subseteq Loaded /\ raced \subseteq Loaded
    /\ live \in [Plugins -> Configs \cup {None}]
    /\ config \in [Plugins -> Configs \cup {None}]
    /\ blacklist \in Seq(Loaded)
    /\ op \in OpType

Commands == {"activate", "reload", "config", "unblacklist"}

\* Nothing is being activated while a thread is at rest or deactivates, and
\* only a command is about to enter its plugin.
PhaseOK(o, ph) ==
    /\ o.kind \in {"none", "disconnect", "blacklist"} => ph = "idle"
    /\ o.kind \in Commands \cup {"blacklist"} => o.p \in Loaded
    /\ ph = "enter" => o.kind \in Commands
PhaseInv == PhaseOK(op, phase)

\* The plugins in open are linked by their callers into a stack with top at its
\* end, and dep_track knows them all.
Linked(tp, opn, fr, tr, er) ==
    /\ tp \in opn /\ er = "none" /\ opn \subseteq tr
    /\ \A p \in opn : fr[p].caller \in (opn \ {tp}) \cup {None}
    /\ \A p, q \in opn : fr[p].caller = fr[q].caller => p = q
Stack == Linked(top, open, frame, track, error)

\* The same of a thread that is set aside.
ThreadOK(t) ==
    /\ PhaseOK(t.op, t.phase)
    /\ InCall(t.phase) => Linked(t.top, t.open, t.frame, t.track, t.error)
AsideInv == aside \in [Welcomes -> ThreadType] /\ \A w \in Welcomes : ThreadOK(aside[w])

TypeInv == CallOK /\ StoreOK /\ PhaseInv /\ (Working => Stack)

LEMMA LoadedPlugins == Loaded \subseteq Plugins /\ None \notin Loaded
  BY PluginAssumption DEF Loaded

LEMMA TypeInvTypeOK == TypeInv /\ AsideInv => TypeOK
  BY DEF TypeInv, CallOK, StoreOK, AsideInv, TypeOK, Thread, ThreadType

-----------------------------------------------------------------------------
(* The steps of an activation, and what becomes of its stack.               *)

\* Every operation that enters a plugin is at rest before.  An incompatible
\* plugin is done at once.
LEMMA EnterTyped ==
    ASSUME TypeInv, phase \in {"idle", "enter"}, NEW p \in Loaded, Enter(p)
    PROVE  CallOK' /\ (Working => Stack)' /\ phase' \in {"deps", "done"}
  <1>0. p \in Plugins
    BY LoadedPlugins
  <1>1. CallOK' /\ phase' \in {"deps", "done"}
    BY <1>0 DEF TypeInv, CallOK, Enter, NoFrame
  <1>2. CASE p \notin Incompatible
    <2>1. top' = p /\ open' = {p} /\ track' = {p} /\ error' = "none" /\ frame'[p].caller = None
      BY <1>0, <1>2 DEF TypeInv, CallOK, Enter, NoFrame
    <2>2. QED
      BY <1>1, <2>1 DEF Stack, Linked
  <1>3. CASE p \in Incompatible
    BY <1>1, <1>3 DEF Enter, Working, InCall
  <1>4. QED
    BY <1>2, <1>3

LEMMA FailTyped ==
    ASSUME TypeInv, NEW e \in {"circular", "unknown", "config", "failed"}, Fail(e)
    PROVE  CallOK' /\ ~Working' /\ phase' = "done"
  BY DEF TypeInv, CallOK, Fail, NoFrame, Working, InCall

\* The frame of one plugin goes on to the next dependency.
LEMMA NextDependency ==
    ASSUME NEW r \in [i : Nat, caller : Loaded \cup {None}]
    PROVE  /\ [r EXCEPT !.i = @ + 1] \in [i : Nat, caller : Loaded \cup {None}]
           /\ [r EXCEPT !.i = @ + 1].i = r.i + 1
           /\ [r EXCEPT !.i = @ + 1].caller = r.caller
  OBVIOUS

\* What a return leaves in the frames: the caller goes on to its next
\* dependency, the other plugins stay where they are.
LEMMA ReturnFrames ==
    ASSUME TypeInv, Working, Return
    PROVE  /\ CallOK'
           /\ \A p \in open \ {top} :
                /\ frame'[p].caller = frame[p].caller
                /\ frame'[p].i = IF p = frame[top].caller THEN frame[p].i + 1 ELSE frame[p].i
  <1> DEFINE caller == frame[top].caller
             Returned == [p \in Plugins |->
                            IF p = top THEN NoFrame
                            ELSE IF p = caller THEN [frame[p] EXCEPT !.i = @ + 1]
                            ELSE frame[p]]
  <1>1. frame' = Returned
    BY DEF Return
  <1>2. top \in Loaded /\ top \in Plugins /\ caller \in Loaded \cup {None} /\ open \subseteq Plugins
    BY LoadedPlugins DEF TypeInv, CallOK, Stack, Linked
  <1>3. \A p \in Plugins : frame[p] \in [i : Nat, caller : Loaded \cup {None}]
    BY DEF TypeInv, CallOK
  <1>4. Returned \in [Plugins -> [i : Nat, caller : Loaded \cup {None}]]
    BY <1>3, NextDependency DEF NoFrame
  <1>5. CallOK'
    BY <1>1, <1>2, <1>4 DEF TypeInv, CallOK, Return
  <1>6. \A p \in open \ {top} :
           /\ frame'[p].caller = frame[p].caller
           /\ frame'[p].i = IF p = caller THEN frame[p].i + 1 ELSE frame[p].i
    BY <1>1, <1>2, <1>3, NextDependency
  <1>7. QED
    BY <1>5, <1>6

\* After a return the caller is the top of the stack.
LEMMA ReturnTyped ==
    ASSUME TypeInv, Working, Return
    PROVE  CallOK' /\ (Working => Stack)' /\ phase' \in {"deps", "done"}
  <1>1. CallOK'
    BY ReturnFrames
  <1>2. CASE frame[top].caller = None
    BY <1>1, <1>2 DEF Return, Working, InCall
  <1>3. CASE frame[top].caller # None
    <2>1. frame[top].caller \in open \ {top}
      BY <1>3 DEF TypeInv, Stack, Linked
    <2>2. top' = frame[top].caller /\ open' = open \ {top} /\ error' = error /\ track' = track
      BY DEF Return
    <2>3. \A p \in open' : frame'[p].caller = frame[p].caller
      BY <2>2, ReturnFrames
    <2>4. \A p \in open' : frame[p].caller # top'
      BY <2>2 DEF TypeInv, Stack, Linked
    <2>5. Stack'
      BY <2>1, <2>2, <2>3, <2>4 DEF TypeInv, Stack, Linked
    <2>6. QED
      BY <1>1, <1>3, <2>5 DEF Return
  <1>4. QED
    BY <1>2, <1>3

\* Looking at a dependency that is active moves the frame of top on.
LEMMA DepActiveFrames ==
    ASSUME TypeInv, DepActive
    PROVE  /\ CallOK' /\ Stack' /\ phase' = "deps" /\ Working
           /\ \A p \in open :
                /\ frame'[p].caller = frame[p].caller
                /\ frame'[p].i = IF p = top THEN frame[p].i + 1 ELSE frame[p].i
  <1>1. Working /\ top \in Loaded /\ top \in Plugins /\ open \subseteq Plugins
    BY LoadedPlugins DEF TypeInv, CallOK, DepActive, AtDependency, Working, InCall, Stack, Linked
  <1>2. frame' = [frame EXCEPT ![top] = [frame[top] EXCEPT !.i = @ + 1]]
    BY DEF DepActive
  <1>3. \A p \in Plugins : frame[p] \in [i : Nat, caller : Loaded \cup {None}]
    BY DEF TypeInv, CallOK
  <1>4. /\ frame' \in [Plugins -> [i : Nat, caller : Loaded \cup {None}]]
        /\ \A p \in Plugins :
             /\ frame'[p].caller = frame[p].caller
             /\ frame'[p].i = IF p = top THEN frame[p].i + 1 ELSE frame[p].i
    <2> DEFINE r == [frame[top] EXCEPT !.i = @ + 1]
    <2>1. /\ r \in [i : Nat, caller : Loaded \cup {None}]
          /\ r.i = frame[top].i + 1 /\ r.caller = frame[top].caller
      BY <1>1, <1>3, NextDependency
    <2> HIDE DEF r
    <2>2. frame' = [frame EXCEPT ![top] = r]
      BY <1>2 DEF r
    <2>3. frame \in [Plugins -> [i : Nat, caller : Loaded \cup {None}]]
      BY DEF TypeInv, CallOK
    <2>4. QED
      BY <1>1, <2>1, <2>2, <2>3
  <1>5. CallOK' /\ Stack'
    BY <1>1, <1>4 DEF TypeInv, CallOK, Stack, Linked, DepActive
  <1>6. QED
    BY <1>1, <1>4, <1>5 DEF DepActive, AtDependency

\* Entering a dependency puts it on the stack, with top as its caller.
LEMMA DepEnterFrames ==
    ASSUME TypeInv, DepEnter
    PROVE  /\ CallOK' /\ Stack' /\ phase' = "deps" /\ Working /\ Dep \notin open
           /\ frame'[Dep].i = 1 /\ frame'[Dep].caller = top
           /\ \A p \in open : frame'[p] = frame[p]
  <1>1. /\ Working /\ top \in Loaded /\ top \in Plugins /\ open \subseteq Plugins
        /\ Dep \in Loaded /\ Dep \in Plugins /\ Dep \notin open
    BY LoadedPlugins DEF TypeInv, CallOK, DepEnter, AtDependency, Working, InCall, Stack, Linked
  <1> DEFINE d == Dep
  <1>2. frame' = [frame EXCEPT ![d] = [i |-> 1, caller |-> top]] /\ top' = d /\ open' = open \cup {d}
        /\ track' = track \cup {d} /\ error' = error /\ phase' = phase /\ UNCHANGED <<lost, banned>>
    BY DEF DepEnter
  <1>3. d \in Loaded /\ d \in Plugins /\ d \notin open
    BY <1>1
  <1> HIDE DEF d
  <1>4. /\ frame' \in [Plugins -> [i : Nat, caller : Loaded \cup {None}]]
        /\ frame'[d] = [i |-> 1, caller |-> top] /\ \A p \in open : frame'[p] = frame[p]
    BY <1>1, <1>2, <1>3 DEF TypeInv, CallOK
  <1>5. CallOK'
    BY <1>1, <1>2, <1>3, <1>4 DEF TypeInv, CallOK
  <1>6. Stack'
    <2>1. Stack
      BY <1>1 DEF TypeInv
    <2>2. None \notin Plugins
      BY PluginAssumption
    <2>3. \A p \in open' : frame'[p].caller \in (open' \ {top'}) \cup {None}
      BY <2>1, <1>2, <1>3, <1>4 DEF Stack, Linked
    <2>4. \A p, q \in open' : frame'[p].caller = frame'[q].caller => p = q
      <3>1. \A p \in open : frame'[p].caller = frame[p].caller /\ frame[p].caller # top
        BY <1>1, <1>4, <2>1, <2>2 DEF Stack, Linked
      <3>2. frame'[d].caller = top
        BY <1>4
      <3>3. QED
        BY <1>2, <2>1, <3>1, <3>2 DEF Stack, Linked
    <2>5. QED
      BY <1>2, <2>1, <2>3, <2>4 DEF Stack, Linked
  <1>7. QED
    BY <1>1, <1>2, <1>4, <1>5, <1>6 DEF d, DepEnter, AtDependency

-----------------------------------------------------------------------------
(* Every step keeps the types and the stack of the thread that runs.        *)

\* Taking a plugin from the plugins that are left keeps an operation.
LEMMA TodoTyped ==
    ASSUME op \in OpType, NEW p, op' = [op EXCEPT !.todo = @ \ {p}]
    PROVE  op' \in OpType /\ op'.kind = op.kind /\ op'.p = op.p
  BY DEF OpType

LEMMA NewOpTyped ==
    /\ NoOp \in OpType /\ Boot \in OpType /\ NoOp.kind = "none" /\ Boot.kind = "boot"
    /\ \A p \in Loaded, k \in {"activate", "reload", "config", "blacklist", "unblacklist"} :
         Op(k, p) \in OpType /\ Op(k, p).kind = k /\ Op(k, p).p = p
  BY DEF NoOp, Boot, Op, OpType

LEMMA ActivationStep == TypeInv /\ Activation => TypeInv'
  <1> SUFFICES ASSUME TypeInv, Activation PROVE TypeInv'
    OBVIOUS
  <1>1. Working /\ top \in Loaded /\ top \in Plugins
    BY LoadedPlugins
       DEF Activation, DepInTrack, DepUnknown, DepActive, DepEnter, DepsDone, DepsDoneTwice,
           Configure, ConfigureRaises, Activate, ActivateSilently, ActivateRaises, CallbackConnect,
           CallbackConnectRaises, AtDependency, Working, InCall, TypeInv, CallOK, Stack, Linked
  <1>2. op' = op /\ config' = config /\ blacklist' = blacklist /\ raced' = raced
    BY DEF Activation, DepInTrack, DepUnknown, DepActive, DepEnter, DepsDone, DepsDoneTwice,
           Configure, ConfigureRaises, Activate, ActivateSilently, ActivateRaises, CallbackConnect,
           CallbackConnectRaises, storeVars
  <1>3. live' \in [Plugins -> Configs \cup {None}] /\ active' \subseteq Loaded
    BY <1>1 DEF Activation, DepInTrack, DepUnknown, DepActive, DepEnter, DepsDone, DepsDoneTwice,
           Configure, ConfigureRaises, Activate, ActivateSilently, ActivateRaises, CallbackConnect,
           CallbackConnectRaises, TypeInv, StoreOK, pluginVars
  <1>4. StoreOK' /\ op.kind \notin {"none", "disconnect", "blacklist"}
    BY <1>1, <1>2, <1>3 DEF TypeInv, StoreOK, PhaseInv, PhaseOK, Working, InCall
  <1>5. CallOK' /\ (Working => Stack)' /\ phase' # "enter"
    <2>1. CASE \/ DepInTrack \/ DepUnknown \/ DepsDoneTwice
               \/ ConfigureRaises \/ ActivateRaises \/ CallbackConnectRaises
      <3>1. \E e \in {"circular", "unknown", "config", "failed"} : Fail(e)
        BY <2>1 DEF DepInTrack, DepUnknown, DepsDoneTwice, ConfigureRaises, ActivateRaises,
                    CallbackConnectRaises
      <3>2. QED
        BY <3>1, FailTyped
    <2>2. CASE DepActive
      BY <2>2, DepActiveFrames
    <2>3. CASE DepEnter
      BY <2>3, DepEnterFrames
    <2>4. CASE DepsDone \/ Configure \/ Activate \/ ActivateSilently
      <3>1. /\ UNCHANGED <<top, open, frame, track, error, lost, banned>>
            /\ phase' \in {"configure", "activate", "connect"}
        BY <2>4 DEF DepsDone, Configure, Activate, ActivateSilently
      <3>2. QED
        BY <1>1, <3>1 DEF TypeInv, CallOK, Stack, Linked
    <2>5. CASE CallbackConnect
      BY <1>1, <2>5, ReturnTyped DEF CallbackConnect
    <2>6. QED
      BY <2>1, <2>2, <2>3, <2>4, <2>5 DEF Activation
  <1>6. PhaseInv'
    BY <1>2, <1>4, <1>5 DEF TypeInv, PhaseInv, PhaseOK
  <1>7. QED
    BY <1>4, <1>5, <1>6 DEF TypeInv

\* The operations of the boot and of a disconnection.
LEMMA ConnectionStep ==
    ASSUME TypeInv,
           \/ \E p \in Plugins : BootSkip(p) \/ BootActivate(p) \/ DisconnectNext(p)
           \/ BootNext \/ BootCycles \/ BootEnd \/ DisconnectBegin \/ DisconnectEnd \/ Crash
    PROVE  TypeInv'
  <1> USE DEF TypeInv, StoreOK, PhaseInv, PhaseOK, pluginVars, storeVars, Commands
  <1>1. ASSUME NEW p \in Plugins, BootSkip(p) PROVE TypeInv'
    <2>1. op' \in OpType /\ op'.kind = op.kind /\ op'.p = op.p
      BY <1>1, TodoTyped DEF BootSkip
    <2>2. QED
      BY <1>1, <2>1 DEF BootSkip, callVars, CallOK, Working, Stack
  <1>2. ASSUME NEW p \in Plugins, BootActivate(p) PROVE TypeInv'
    <2>1. op' \in OpType /\ op'.kind = op.kind /\ op'.p = op.p
      BY <1>2, TodoTyped DEF BootActivate
    <2>2. CallOK' /\ (Working => Stack)' /\ phase' \in {"deps", "done"}
      <3>1. p \in Loaded /\ phase = "idle" /\ Enter(p)
        BY <1>2 DEF BootActivate, Skipped, Loaded, Idle
      <3>2. QED
        BY <3>1, EnterTyped
    <2>3. QED
      BY <1>2, <2>1, <2>2 DEF BootActivate, Booting, Boots
  <1>3. ASSUME NEW p \in Plugins, DisconnectNext(p) PROVE TypeInv'
    <2>1. op' \in OpType /\ op'.kind = op.kind /\ op'.p = op.p
      BY <1>3, TodoTyped DEF DisconnectNext
    <2>2. QED
      BY <1>3, <2>1 DEF DisconnectNext, callVars, CallOK, Working, Stack
  <1>4. CASE BootNext
    BY <1>4 DEF BootNext, Collect, Booting, Boots, CallOK, Working, InCall
  <1>5. CASE BootCycles
    <2>1. PICK C \in SUBSET Cyclic : op' = [op EXCEPT !.kind = "cycles", !.todo = C]
      BY <1>5 DEF BootCycles
    <2>2. C \in SUBSET Plugins
      BY <2>1 DEF Cyclic
    <2>3. op' \in OpType /\ op'.kind = "cycles"
      BY <2>1, <2>2 DEF OpType
    <2>4. QED
      BY <1>5, <2>3 DEF BootCycles, Idle, callVars, CallOK, Working, InCall
  <1>6. CASE BootEnd
    BY <1>6, NewOpTyped DEF BootEnd, Idle, callVars, CallOK, Working, InCall
  <1>7. CASE DisconnectBegin
    <2>1. op' \in OpType /\ op'.kind = "disconnect" /\ op.kind = "none"
      BY <1>7, LoadedPlugins, NewOpTyped DEF DisconnectBegin, Dispatching, OpType
    <2>2. QED
      BY <1>7, <2>1 DEF DisconnectBegin, callVars, CallOK, Working, InCall
  <1>8. CASE DisconnectEnd
    BY <1>8, NewOpTyped DEF DisconnectEnd, callVars, CallOK, Working, InCall
  <1>9. CASE Crash
    BY <1>9, NewOpTyped DEF Crash, Starts, CallOK, Working, InCall, NoFrame
  <1>10. QED
    BY <1>1, <1>2, <1>3, <1>4, <1>5, <1>6, <1>7, <1>8, <1>9

\* The admin commands.
LEMMA AdminStep ==
    ASSUME TypeInv,
           \/ AdminCommand \/ EnterActive \/ EnterPlugin \/ ActivateEnd
           \/ ConfigDeactivate \/ ConfigEnd \/ BlacklistEnd \/ UnblacklistEnd
    PROVE  TypeInv'
  <1> USE DEF TypeInv, StoreOK, PhaseInv, PhaseOK, pluginVars, storeVars, Commands
  <1>0. Dispatching => op.kind = "none" /\ phase = "idle"
    BY NewOpTyped DEF Dispatching
  <1>1. ASSUME NEW p \in Loaded, PluginActivate(p) \/ PluginReload(p) \/ PluginUnblacklist(p)
        PROVE  TypeInv'
    <2>1. op' \in OpType /\ op'.kind \in Commands /\ op'.p = p
      BY <1>1, NewOpTyped DEF PluginActivate, PluginReload, PluginUnblacklist
    <2>2. /\ phase' \in {"enter", "done"} /\ active' \subseteq active
          /\ UNCHANGED <<live, storeVars, top, open, frame, track, error, lost, banned>>
      BY <1>1 DEF PluginActivate, PluginReload, PluginUnblacklist, ThenActivate, Deactivate
    <2>3. QED
      BY <2>1, <2>2 DEF CallOK, Working, InCall
  <1>2. ASSUME NEW p \in Loaded, PluginDeactivate(p) PROVE TypeInv'
    BY <1>2 DEF PluginDeactivate, Deactivate, callVars, CallOK, Working, Stack
  <1>3. ASSUME NEW p \in Loaded, PluginBlacklist(p) PROVE TypeInv'
    <2>1. op' \in OpType /\ op'.kind = "blacklist" /\ op'.p = p /\ phase = "idle"
      BY <1>0, <1>3, NewOpTyped DEF PluginBlacklist
    <2>2. QED
      BY <1>3, <2>1 DEF PluginBlacklist, Deactivate, callVars, CallOK, Working, InCall
  <1>4. ASSUME NEW p \in Loaded, NEW c \in Configs, PluginConfig(p, c) PROVE TypeInv'
    <2>1. phase = "idle" /\ op' \in OpType /\ op'.kind = "config" /\ op'.p = p
      BY <1>0, <1>4, NewOpTyped DEF PluginConfig
    <2>2. raced' \subseteq Loaded /\ config' \in [Plugins -> Configs \cup {None}]
      BY <1>4 DEF PluginConfig
    <2>3. QED
      BY <1>4, <2>1, <2>2 DEF PluginConfig, callVars, CallOK, Working, InCall
  <1>5. CASE EnterActive
    BY <1>5 DEF EnterActive, CallOK, Working, InCall
  <1>6. CASE EnterPlugin
    <2>1. op.kind \in Commands /\ op.p \in Loaded /\ phase = "enter" /\ Enter(op.p)
      BY <1>6 DEF EnterPlugin
    <2>2. CallOK' /\ (Working => Stack)' /\ phase' \in {"deps", "done"}
      BY <2>1, EnterTyped
    <2>3. QED
      BY <1>6, <2>1, <2>2 DEF EnterPlugin
  <1>7. CASE ActivateEnd
    BY <1>7, NewOpTyped DEF ActivateEnd, Collect, CallOK, Working, InCall
  <1>8. CASE ConfigDeactivate
    <2>1. op.p \in Loaded /\ phase = "idle" /\ op.kind = "config"
      BY <1>8 DEF ConfigDeactivate, Idle
    <2>2. CASE Deactivate(op.p) /\ ThenActivate /\ op' = op
      BY <1>8, <2>1, <2>2
         DEF ConfigDeactivate, Deactivate, ThenActivate, CallOK, Working, InCall
    <2>3. CASE DeactivateRaises(op.p) /\ op' = NoOp /\ UNCHANGED callVars
      BY <1>8, <2>1, <2>3, NewOpTyped
         DEF ConfigDeactivate, DeactivateRaises, callVars, CallOK, Working, InCall
    <2>4. QED
      BY <1>8, <2>2, <2>3 DEF ConfigDeactivate
  <1>9. CASE ConfigEnd
    BY <1>9, NewOpTyped DEF ConfigEnd, Collect, CallOK, Working, InCall
  <1>10. CASE BlacklistEnd
    <2>1. blacklist' \in Seq(Loaded)
      BY <1>10, AppendElements DEF BlacklistEnd
    <2>2. QED
      BY <1>10, <2>1, NewOpTyped DEF BlacklistEnd, callVars, CallOK, Working, InCall
  <1>11. CASE UnblacklistEnd
    <2>1. blacklist' \in Seq(Loaded)
      BY <1>11, RemoveAtElements DEF UnblacklistEnd
    <2>2. QED
      BY <1>11, <2>1, NewOpTyped DEF UnblacklistEnd, Collect, CallOK, Working, InCall
  <1>12. QED
    BY <1>1, <1>2, <1>3, <1>4, <1>5, <1>6, <1>7, <1>8, <1>9, <1>10, <1>11 DEF AdminCommand

-----------------------------------------------------------------------------
(* The threads that are set aside: they lose plugins or see one blacklisted, *)
(* all at once, or one of them runs instead of the other.                    *)

\* What a step of another thread leaves of one that is set aside.
Kept(t, u) ==
    /\ u.op = t.op /\ u.top = t.top /\ u.phase = t.phase /\ u.open = t.open
    /\ u.frame = t.frame /\ u.track = t.track /\ u.error = t.error
    /\ t.lost \subseteq u.lost /\ u.lost \subseteq t.lost \cup (active \ active')
    /\ t.open # {} => active \ active' \subseteq u.lost
    /\ t.banned \subseteq u.banned /\ u.banned \subseteq Loaded

Stays == /\ aside' \in [Welcomes -> ThreadType]
         /\ \A w \in Welcomes : Kept(aside[w], aside'[w])

LEMMA BannedThread ==
    ASSUME NEW t \in ThreadType, NEW p \in Loaded
    PROVE  /\ [t EXCEPT !.banned = @ \cup {p}] \in ThreadType
           /\ [t EXCEPT !.banned = @ \cup {p}].banned = t.banned \cup {p}
           /\ \A u : u = [t EXCEPT !.banned = @ \cup {p}] =>
                /\ u.op = t.op /\ u.top = t.top /\ u.phase = t.phase /\ u.open = t.open
                /\ u.frame = t.frame /\ u.track = t.track /\ u.error = t.error
                /\ u.lost = t.lost
  BY DEF ThreadType

LEMMA LoseStays ==
    ASSUME AsideInv, active \subseteq Loaded, NEW S, S = active \ active', Lose(S)
    PROVE  Stays
  <1>1. ASSUME NEW w \in Welcomes
        PROVE  aside'[w] \in ThreadType /\ Kept(aside[w], aside'[w])
    <2>1. aside[w] \in ThreadType /\ aside[w].banned \subseteq Loaded
      BY DEF AsideInv, ThreadType
    <2>2. CASE aside[w].open = {}
      <3>1. aside'[w] = aside[w]
        BY <2>2 DEF Lose
      <3>2. QED
        BY <2>1, <2>2, <3>1 DEF Kept
    <2>3. CASE aside[w].open # {}
      <3>1. aside'[w] = [aside[w] EXCEPT !.lost = @ \cup S]
        BY <2>3 DEF Lose
      <3>2. S \in SUBSET Loaded
        OBVIOUS
      <3>3. /\ aside'[w] \in ThreadType /\ aside'[w].lost = aside[w].lost \cup S
            /\ aside'[w].op = aside[w].op /\ aside'[w].top = aside[w].top
            /\ aside'[w].phase = aside[w].phase /\ aside'[w].open = aside[w].open
            /\ aside'[w].frame = aside[w].frame /\ aside'[w].track = aside[w].track
            /\ aside'[w].error = aside[w].error /\ aside'[w].banned = aside[w].banned
        BY <2>1, <3>1, <3>2 DEF ThreadType
      <3>4. QED
        BY <2>1, <3>3 DEF Kept
    <2>4. QED
      BY <2>2, <2>3
  <1>2. aside' = [w \in Welcomes |-> aside'[w]]
    BY DEF Lose
  <1>3. QED
    BY <1>1, <1>2 DEF Stays

LEMMA UnchangedStays ==
    ASSUME AsideInv, active \subseteq active', aside' = aside
    PROVE  Stays
  BY DEF AsideInv, Stays, Kept, ThreadType

LEMMA BlacklistStays ==
    ASSUME TypeInv, AsideInv, BlacklistEnd
    PROVE  Stays /\ \A w \in Welcomes : aside[w].open # {} => op.p \in aside'[w].banned
  <1>0. op.p \in Loaded /\ active' = active
    BY DEF BlacklistEnd, TypeInv, PhaseInv, PhaseOK
  <1>1. ASSUME NEW w \in Welcomes
        PROVE  /\ aside'[w] \in ThreadType /\ Kept(aside[w], aside'[w])
               /\ aside[w].open # {} => op.p \in aside'[w].banned
    <2>1. aside[w] \in ThreadType /\ aside[w].banned \subseteq Loaded
      BY DEF AsideInv, ThreadType
    <2>2. CASE aside[w].open = {}
      <3>1. aside'[w] = aside[w]
        BY <2>2 DEF BlacklistEnd
      <3>2. QED
        BY <2>1, <2>2, <3>1 DEF Kept
    <2>3. CASE aside[w].open # {}
      <3>1. aside'[w] = [aside[w] EXCEPT !.banned = @ \cup {op.p}]
        BY <2>3 DEF BlacklistEnd
      <3>2. /\ aside'[w] \in ThreadType /\ aside'[w].banned = aside[w].banned \cup {op.p}
            /\ aside'[w].op = aside[w].op /\ aside'[w].top = aside[w].top
            /\ aside'[w].phase = aside[w].phase /\ aside'[w].open = aside[w].open
            /\ aside'[w].frame = aside[w].frame /\ aside'[w].track = aside[w].track
            /\ aside'[w].error = aside[w].error /\ aside'[w].lost = aside[w].lost
        BY <1>0, <2>1, <3>1, BannedThread
      <3>3. QED
        BY <1>0, <2>1, <3>2 DEF Kept
    <2>4. QED
      BY <2>2, <2>3
  <1>2. aside' = [w \in Welcomes |-> aside'[w]]
    BY DEF BlacklistEnd
  <1>3. QED
    BY <1>1, <1>2 DEF Stays

Switches == \E w \in Welcomes : Switch(w)

\* Every step but a crash and a switch leaves the threads that are set aside.
LEMMA OthersStay ==
    ASSUME TypeInv, AsideInv, [Next]_vars, ~Crash, ~Switches
    PROVE  Stays
  <1>0. active \subseteq Loaded
    BY DEF TypeInv, StoreOK
  <1>1. CASE UNCHANGED vars
    BY <1>1, UnchangedStays DEF vars, pluginVars
  <1>2. CASE ActivateRaises \/ CallbackConnectRaises
    <2>1. Lose(active \ active')
      BY <1>2 DEF ActivateRaises, CallbackConnectRaises
    <2>2. QED
      BY <1>0, <2>1, LoseStays
  <1>3. CASE Activation /\ ~ActivateRaises /\ ~CallbackConnectRaises
    <2>1. aside' = aside /\ active \subseteq active'
      BY <1>3 DEF Activation, DepInTrack, DepUnknown, DepActive, DepEnter, DepsDone, DepsDoneTwice,
           Configure, ConfigureRaises, Activate, ActivateSilently, CallbackConnect, pluginVars
    <2>2. QED
      BY <2>1, UnchangedStays
  <1>4. ASSUME NEW p, Deactivate(p) PROVE Stays
    <2>1. active \cap {p} = active \ active' /\ Lose(active \cap {p})
      BY <1>4 DEF Deactivate
    <2>2. QED
      BY <1>0, <2>1, LoseStays
  <1>5. ASSUME NEW p \in Plugins, DisconnectNext(p) PROVE Stays
    BY <1>4, <1>5 DEF DisconnectNext, Deactivate
  <1>6. CASE BlacklistEnd
    BY <1>6, BlacklistStays
  <1>7. CASE \/ \E p \in Plugins : BootSkip(p) \/ BootActivate(p)
             \/ BootNext \/ BootCycles \/ BootEnd \/ DisconnectBegin \/ DisconnectEnd
             \/ EnterActive \/ EnterPlugin \/ ActivateEnd \/ ConfigEnd \/ UnblacklistEnd
             \/ \E p \in Loaded : \/ PluginActivate(p) \/ PluginUnblacklist(p)
                                  \/ \E c \in Configs : PluginConfig(p, c)
    <2>1. aside' = aside /\ active' = active
      BY <1>7 DEF BootSkip, BootActivate, BootNext, BootCycles, BootEnd, DisconnectBegin,
           DisconnectEnd, EnterActive, EnterPlugin, ActivateEnd, ConfigEnd, UnblacklistEnd,
           PluginActivate, PluginUnblacklist, PluginConfig, pluginVars
    <2>2. QED
      BY <2>1, UnchangedStays
  <1>8. CASE \E p \in Loaded : PluginDeactivate(p) \/ PluginReload(p) \/ PluginBlacklist(p)
    BY <1>4, <1>8 DEF PluginDeactivate, PluginReload, PluginBlacklist
  <1>9. CASE ConfigDeactivate
    <2>1. CASE DeactivateRaises(op.p)
      BY <2>1, UnchangedStays DEF DeactivateRaises
    <2>2. QED
      BY <1>4, <1>9, <2>1 DEF ConfigDeactivate
  <1>10. QED
    BY <1>1, <1>2, <1>3, <1>5, <1>6, <1>7, <1>8, <1>9
       DEF Next, AdminCommand, Operation, Switches

LEMMA SwitchThreads ==
    ASSUME TypeInv, AsideInv, NEW w \in Welcomes, Switch(w)
    PROVE  /\ aside' \in [Welcomes -> ThreadType] /\ aside'[w] = Thread
           /\ \A v \in Welcomes \ {w} : aside'[v] = aside[v]
           /\ CallOK' /\ op' \in OpType
  <1>1. Thread \in ThreadType /\ aside[w] \in ThreadType
    BY DEF TypeInv, CallOK, StoreOK, Thread, ThreadType, AsideInv
  <1>2. CallOK' /\ op' \in OpType
    BY <1>1 DEF Switch, CallOK, ThreadType
  <1> DEFINE t == Thread
  <1>3. aside' = [aside EXCEPT ![w] = t] /\ t \in ThreadType
    BY <1>1 DEF Switch
  <1> HIDE DEF t
  <1>4. /\ aside' \in [Welcomes -> ThreadType] /\ aside'[w] = t
        /\ \A v \in Welcomes \ {w} : aside'[v] = aside[v]
    BY <1>3 DEF AsideInv
  <1>5. QED
    BY <1>2, <1>4 DEF t

LEMMA SwitchStep ==
    ASSUME TypeInv, AsideInv, NEW w \in Welcomes, Switch(w)
    PROVE  TypeInv' /\ AsideInv'
  <1>1. UNCHANGED <<active, live, config, blacklist, raced>>
    BY DEF Switch, storeVars
  <1>2. ThreadOK(aside[w])
    BY DEF AsideInv
  <1>3. TypeInv'
    BY <1>1, <1>2, SwitchThreads
       DEF Switch, ThreadOK, TypeInv, StoreOK, PhaseInv, Working, Stack
  <1>4. ThreadOK(Thread)
    BY DEF TypeInv, PhaseInv, Working, Stack, ThreadOK, Thread
  <1>5. AsideInv'
    <2>1. \A v \in Welcomes : ThreadOK(aside'[v])
      BY <1>4, SwitchThreads DEF AsideInv
    <2>2. QED
      BY <2>1, SwitchThreads DEF AsideInv, ThreadOK
  <1>6. QED
    BY <1>3, <1>5

LEMMA RestOK == Rest \in ThreadType /\ ThreadOK(Rest)
  BY NewOpTyped DEF ThreadOK, PhaseOK, InCall, Rest, ThreadType, NoFrame, Commands

LEMMA TypeStep == TypeInv /\ AsideInv /\ [Next]_vars => TypeInv' /\ AsideInv'
  <1> SUFFICES ASSUME TypeInv, AsideInv, [Next]_vars PROVE TypeInv' /\ AsideInv'
    OBVIOUS
  <1>1. CASE Switches
    BY <1>1, SwitchStep DEF Switches
  <1>2. ASSUME ~Switches PROVE TypeInv'
    <2>1. TypeInv /\ Activation => TypeInv'
      BY ActivationStep
    <2>2. TypeInv /\ UNCHANGED vars => TypeInv'
      BY DEF vars, pluginVars, storeVars, callVars, TypeInv, CallOK, StoreOK, PhaseInv, Working,
             Stack
    <2>3. QED
      BY <1>2, <2>1, <2>2, ConnectionStep, AdminStep DEF Next, Operation, Switches
  <1>3. CASE Crash
    <2>1. TypeInv' /\ aside' = [w \in Welcomes |-> Rest]
      BY <1>3, ConnectionStep DEF Crash, Starts
    <2>2. QED
      BY <2>1, RestOK DEF AsideInv, ThreadOK
  <1>4. CASE ~Crash /\ ~Switches
    <2>1. Stays
      BY <1>4, OthersStay
    <2>2. \A w \in Welcomes : ThreadOK(aside'[w])
      BY <2>1 DEF Stays, Kept, AsideInv, ThreadOK
    <2>3. QED
      BY <1>2, <1>4, <2>1, <2>2 DEF Stays, AsideInv, ThreadOK
  <1>5. QED
    BY <1>1, <1>2, <1>3, <1>4

\* Every variable of the plugin manager keeps its type, and the plugins whose
\* activation is in progress form a stack in every thread.
THEOREM TypeCorrect == Spec => [](TypeOK /\ TypeInv /\ AsideInv)
  <1>1. Init => TypeInv /\ AsideInv
    BY NewOpTyped
       DEF Init, TypeInv, CallOK, StoreOK, PhaseInv, PhaseOK, Working, InCall, NoFrame,
           AsideInv, ThreadOK, Rest, ThreadType, Commands
  <1>2. QED
    BY <1>1, TypeStep, TypeInvTypeOK, PTL DEF Spec

-----------------------------------------------------------------------------
(* After which steps an activation is in progress: it has begun, one of its  *)
(* own steps went on, or a thread that was set aside runs.                   *)

Begins(p) ==
    /\ phase' = "deps" /\ top' = p /\ open' = {p} /\ frame'[p] = NoFrame
    /\ lost' = {} /\ banned' = {} /\ p \notin active
    /\ UNCHANGED <<active, live, storeVars>>
    /\ op'.kind = op.kind /\ op'.p = op.p
    /\ op.kind = "config" => op.p = p
    /\ Booting => ~Contains(blacklist, p)

GoesOn ==
    /\ Working /\ UNCHANGED <<storeVars, op, lost, banned>>
    /\ \/ DepActive \/ DepEnter \/ DepsDone \/ Configure
       \/ Activate \/ ActivateSilently \/ CallbackConnect

LEMMA EnterBegins ==
    ASSUME TypeInv, phase \in {"idle", "enter"}, NEW p \in Loaded, Enter(p), Working'
    PROVE  /\ phase' = "deps" /\ top' = p /\ open' = {p} /\ frame'[p] = NoFrame
           /\ lost' = {} /\ banned' = {}
  BY LoadedPlugins DEF TypeInv, CallOK, Enter, Working, InCall

LEMMA WorkingSteps ==
    ASSUME TypeInv, [Next]_vars, Working'
    PROVE  UNCHANGED vars \/ Switches \/ (\E p \in Loaded : Begins(p)) \/ GoesOn
  <1>1. CASE Activation
    <2>1. Working /\ UNCHANGED <<storeVars, op>>
      BY <1>1 DEF Activation, DepInTrack, DepUnknown, DepActive, DepEnter, DepsDone,
             DepsDoneTwice, Configure, ConfigureRaises, Activate, ActivateSilently, ActivateRaises,
             CallbackConnect, CallbackConnectRaises, AtDependency, Working, InCall
    <2>2. CASE \/ DepInTrack \/ DepUnknown \/ DepsDoneTwice
               \/ ConfigureRaises \/ ActivateRaises \/ CallbackConnectRaises
      <3>1. \E e : Fail(e)
        BY <2>2 DEF DepInTrack, DepUnknown, DepsDoneTwice, ConfigureRaises, ActivateRaises,
                    CallbackConnectRaises
      <3>2. QED
        BY <3>1 DEF Fail, Working, InCall
    <2>3. CASE \/ DepActive \/ DepEnter \/ DepsDone \/ Configure
               \/ Activate \/ ActivateSilently \/ CallbackConnect
      <3>1. lost' = lost /\ banned' = banned
        BY <2>3 DEF DepActive, DepEnter, DepsDone, Configure, Activate, ActivateSilently,
                    CallbackConnect, Return
      <3>2. QED
        BY <2>1, <2>3, <3>1 DEF GoesOn
    <2>4. QED
      BY <1>1, <2>2, <2>3 DEF Activation
  <1>2. CASE \E p \in Plugins : BootActivate(p)
    <2>1. PICK p \in Plugins : BootActivate(p)
      BY <1>2
    <2>2. p \in Loaded /\ p \notin active /\ ~Contains(blacklist, p)
      BY <2>1 DEF BootActivate, Skipped, Loaded
    <2>3. /\ phase' = "deps" /\ top' = p /\ open' = {p} /\ frame'[p] = NoFrame
          /\ lost' = {} /\ banned' = {}
      BY <2>1, <2>2, EnterBegins DEF BootActivate, Idle
    <2>4. op'.kind = op.kind /\ op'.p = op.p
      BY <2>1, TodoTyped DEF BootActivate, TypeInv, StoreOK
    <2>5. op.kind # "config"
      BY <2>1 DEF BootActivate, Booting, Boots
    <2>6. QED
      BY <2>1, <2>2, <2>3, <2>4, <2>5 DEF BootActivate, Begins, pluginVars
  <1>3. CASE EnterPlugin
    <2>1. op.p \in Loaded /\ phase = "enter" /\ op.kind \in Commands /\ op.p \notin active
      BY <1>3 DEF EnterPlugin, TypeInv, PhaseInv, PhaseOK
    <2>2. /\ phase' = "deps" /\ top' = op.p /\ open' = {op.p} /\ frame'[op.p] = NoFrame
          /\ lost' = {} /\ banned' = {}
      BY <1>3, <2>1, EnterBegins DEF EnterPlugin
    <2>3. QED
      BY <1>3, <2>1, <2>2 DEF EnterPlugin, Begins, pluginVars, Booting, Boots, Commands
  <1>4. CASE \/ BootNext \/ EnterActive \/ ActivateEnd \/ ConfigEnd \/ UnblacklistEnd \/ Crash
             \/ ConfigDeactivate
             \/ \E p \in Loaded : PluginActivate(p) \/ PluginReload(p) \/ PluginUnblacklist(p)
    BY <1>4
       DEF BootNext, EnterActive, ActivateEnd, ConfigEnd, UnblacklistEnd, Crash, Starts, Collect,
           ConfigDeactivate, ThenActivate, Idle, callVars, PluginActivate, PluginReload,
           PluginUnblacklist, Working, InCall
  <1>5. CASE \/ \E p \in Plugins : BootSkip(p) \/ DisconnectNext(p)
             \/ \E p \in Loaded : \/ PluginDeactivate(p) \/ PluginBlacklist(p)
                                  \/ \E c \in Configs : PluginConfig(p, c)
             \/ BootCycles \/ BootEnd \/ DisconnectBegin \/ DisconnectEnd \/ BlacklistEnd
    BY <1>5, NewOpTyped
       DEF BootSkip, DisconnectNext, PluginDeactivate, PluginBlacklist, PluginConfig, BootCycles,
           BootEnd, DisconnectBegin, DisconnectEnd, BlacklistEnd, Dispatching, Idle, callVars,
           Working, InCall, TypeInv, PhaseInv, PhaseOK
  <1>6. QED
    BY <1>1, <1>2, <1>3, <1>4, <1>5 DEF Next, AdminCommand, Operation, Switches

-----------------------------------------------------------------------------
(* Dependencies: those that a frame has passed are active, silent or lost to *)
(* another thread, and the caller of a plugin waits for it.                  *)

Passed(p, fr, l) ==
    \A j \in DOMAIN Deps[p] : j < fr[p].i => Deps[p][j] \in active \cup Silent \cup l

AwaitedBy(p, c, fr) == fr[c].i \in DOMAIN Deps[c] /\ Deps[c][fr[c].i] = p

OrderedIn(tp, ph, opn, fr, l) ==
    /\ \A p \in opn : fr[p].i >= 1 /\ Passed(p, fr, l)
    /\ \A p \in opn : fr[p].caller # None => AwaitedBy(p, fr[p].caller, fr)
    /\ ph # "deps" => \A j \in DOMAIN Deps[tp] : j < fr[tp].i
    /\ ph = "connect" => tp \in active \cup Silent \cup l
Ordered == OrderedIn(top, phase, open, frame, lost)

ThreadOrdered(t) == InCall(t.phase) => OrderedIn(t.top, t.phase, t.open, t.frame, t.lost)

DepsInv ==
    /\ TypeInv /\ AsideInv /\ (Working => Ordered)
    /\ \A w \in Welcomes : ThreadOrdered(aside[w])

\* What is lost to a thread that is set aside is no longer active.
LEMMA OrderedMonotone ==
    ASSUME NEW t, NEW u, ThreadOrdered(t), InCall(t.phase) => active \cup t.lost \subseteq active' \cup u.lost,
           u.top = t.top, u.phase = t.phase, u.open = t.open, u.frame = t.frame
    PROVE  ThreadOrdered(u)'
  <1> SUFFICES ASSUME InCall(t.phase)
               PROVE  OrderedIn(u.top, u.phase, u.open, u.frame, u.lost)'
    BY DEF ThreadOrdered
  <1>1. OrderedIn(t.top, t.phase, t.open, t.frame, t.lost)
    BY DEF ThreadOrdered
  <1>2. \A p, fr : Passed(p, fr, t.lost) => Passed(p, fr, u.lost)'
    BY DEF Passed
  <1>3. QED
    BY <1>1, <1>2 DEF OrderedIn, AwaitedBy

LEMMA AsideOrdered ==
    ASSUME DepsInv, Stays, NEW w \in Welcomes
    PROVE  ThreadOrdered(aside[w])'
  <1>1. PICK t : t = aside[w]
    OBVIOUS
  <1>2. PICK u : u = aside'[w]
    OBVIOUS
  <1>3. Kept(t, u) /\ ThreadOrdered(t) /\ ThreadOK(t)
    BY <1>1, <1>2 DEF Stays, DepsInv, AsideInv
  <1>4. /\ u.top = t.top /\ u.phase = t.phase /\ u.open = t.open /\ u.frame = t.frame
        /\ InCall(t.phase) => active \cup t.lost \subseteq active' \cup u.lost
    BY <1>3 DEF Kept, ThreadOK, Linked
  <1>5. ThreadOrdered(u)'
    BY <1>3, <1>4, OrderedMonotone
  <1>6. QED
    BY <1>2, <1>5 DEF ThreadOrdered, OrderedIn, Passed, AwaitedBy

LEMMA OrderedStep ==
    ASSUME DepsInv, [Next]_vars, ~Switches, Working'
    PROVE  Ordered'
  <1>1. TypeInv /\ TypeInv'
    BY TypeStep DEF DepsInv
  <1>2. CASE UNCHANGED vars
    BY <1>2 DEF vars, pluginVars, callVars, DepsInv, Working, InCall, Ordered, OrderedIn, Passed, AwaitedBy
  <1>3. ASSUME NEW p \in Loaded, Begins(p) PROVE Ordered'
    <2>1. \A j \in DOMAIN Deps[p] : j \in Nat /\ j >= 1
      BY LoadedPlugins, PluginAssumption, LenProperties
    <2>2. QED
      BY <1>3, <2>1 DEF Begins, NoFrame, Ordered, OrderedIn, Passed, AwaitedBy
  <1>4. CASE GoesOn
    <2>0. lost' = lost
      BY <1>4 DEF GoesOn
    <2>1. Working /\ Ordered /\ Stack /\ Stack' /\ open \subseteq Plugins /\ top \in Plugins
      BY <1>1, <1>4, LoadedPlugins DEF GoesOn, DepsInv, TypeInv, CallOK, Stack, Linked
    <2>2. \A p \in open : frame[p].i \in Nat
      BY <1>1, <2>1 DEF TypeInv, CallOK
    <2>3. \A p \in Plugins : DOMAIN Deps[p] = 1..Len(Deps[p]) /\ Len(Deps[p]) \in Nat
      BY PluginAssumption, LenProperties
    <2>4. CASE DepActive
      <3>1. /\ phase' = "deps" /\ open' = open /\ active' = active
            /\ \A p \in open :
                 /\ frame'[p].caller = frame[p].caller
                 /\ frame'[p].i = IF p = top THEN frame[p].i + 1 ELSE frame[p].i
        BY <1>1, <2>4, DepActiveFrames DEF DepActive, pluginVars
      <3>2. Deps[top][frame[top].i] \in active
        BY <2>4 DEF DepActive, Dep
      <3>3. \A p \in open : frame'[p].i >= 1 /\ Passed(p, frame, lost)'
        BY <2>0, <2>1, <2>2, <2>3, <3>1, <3>2 DEF Ordered, OrderedIn, Passed
      <3>4. \A p \in open : frame[p].caller # None => AwaitedBy(p, frame[p].caller, frame)'
        <4>1. \A p \in open : frame[p].caller # None =>
                 frame[p].caller \in open \ {top} /\ AwaitedBy(p, frame[p].caller, frame)
          BY <2>1 DEF Stack, Linked, Ordered, OrderedIn
        <4>2. QED
          BY <3>1, <4>1 DEF AwaitedBy
      <3>5. QED
        BY <3>1, <3>3, <3>4 DEF Ordered, OrderedIn
    <2>5. CASE DepEnter
      <3> DEFINE d == Dep
      <3>1. /\ phase' = "deps" /\ open' = open \cup {d} /\ active' = active /\ d \notin open
            /\ frame'[d].i = 1 /\ frame'[d].caller = top /\ d \in Plugins
            /\ \A p \in open : frame'[p] = frame[p]
        BY <1>1, <2>5, DepEnterFrames, LoadedPlugins DEF DepEnter, pluginVars
      <3>2. frame[top].i \in DOMAIN Deps[top] /\ Deps[top][frame[top].i] = d
        <4>1. frame[top].i \in Nat /\ frame[top].i >= 1 /\ frame[top].i <= Len(Deps[top])
          BY <2>0, <2>1, <2>2, <2>5 DEF DepEnter, AtDependency, Ordered, OrderedIn, Stack, Linked
        <4>2. QED
          BY <2>0, <2>1, <2>3, <4>1 DEF Dep
      <3> HIDE DEF d
      <3>3. \A p \in open' : frame'[p].i >= 1 /\ Passed(p, frame, lost)'
        BY <2>0, <2>1, <2>3, <3>1 DEF Ordered, OrderedIn, Passed
      <3>4. (\A p \in open : frame[p].caller # None => AwaitedBy(p, frame[p].caller, frame))'
        <4>1. \A p \in open : frame[p].caller # None =>
                 frame[p].caller \in open /\ AwaitedBy(p, frame[p].caller, frame)
          BY <2>1 DEF Stack, Linked, Ordered, OrderedIn
        <4>2. top \in open
          BY <2>1 DEF Stack, Linked
        <4>3. QED
          BY <3>1, <3>2, <4>1, <4>2 DEF AwaitedBy
      <3>5. QED
        BY <3>1, <3>3, <3>4 DEF Ordered, OrderedIn
    <2>6. CASE DepsDone \/ Configure \/ Activate \/ ActivateSilently
      <3>1. /\ open' = open /\ top' = top /\ frame' = frame /\ active \subseteq active'
            /\ phase' # "deps"
        BY <2>6 DEF pluginVars, DepsDone, Configure, Activate, ActivateSilently
      <3>2. \A j \in DOMAIN Deps[top] : j < frame[top].i
        <4>1. frame[top].i \in Nat
          BY <2>0, <2>1, <2>2 DEF Stack, Linked
        <4>2. QED
          BY <2>0, <2>1, <2>3, <2>6, <4>1 DEF DepsDone, Configure, Activate, ActivateSilently, Ordered, OrderedIn
      <3>3. phase' = "connect" => top \in active' \cup Silent
        BY <2>6 DEF DepsDone, Configure, Activate, ActivateSilently
      <3>4. \A p \in open : frame[p].i >= 1 /\ Passed(p, frame, lost)'
        BY <2>0, <2>1, <3>1 DEF Ordered, OrderedIn, Passed
      <3>5. QED
        BY <2>0, <2>1, <3>1, <3>2, <3>3, <3>4 DEF Ordered, OrderedIn, AwaitedBy
    <2>7. CASE CallbackConnect
      <3> DEFINE c == frame[top].caller
      <3>1. /\ phase = "connect" /\ Return /\ active' = active
            /\ open' = open \ {top} /\ top' = c /\ phase' \in {"deps", "done"}
        BY <2>7 DEF CallbackConnect, Return, pluginVars
      <3>2. \A p \in open \ {top} :
              /\ frame'[p].caller = frame[p].caller
              /\ frame'[p].i = IF p = c THEN frame[p].i + 1 ELSE frame[p].i
        BY <1>1, <2>1, <3>1, ReturnFrames
      <3>3. c \in open \ {top} /\ c # None /\ phase' = "deps"
        <4>1. c # None /\ phase' = "deps"
          BY <2>7 DEF CallbackConnect, Return, Working, InCall
        <4>2. QED
          BY <2>0, <2>1, <4>1 DEF Stack, Linked
      <3>4. AwaitedBy(top, c, frame) /\ top \in active \cup Silent \cup lost
        BY <2>0, <2>1, <3>1, <3>3 DEF Ordered, OrderedIn, Stack, Linked
      <3> HIDE DEF c
      <3>5. \A p \in open \ {top} : frame'[p].i >= 1 /\ Passed(p, frame, lost)'
        BY <2>0, <2>1, <2>2, <2>3, <3>1, <3>2, <3>3, <3>4 DEF Ordered, OrderedIn, Passed, AwaitedBy
      <3>6. \A p \in open \ {top} : frame[p].caller # None => AwaitedBy(p, frame[p].caller, frame)'
        <4>1. \A p \in open \ {top} : frame[p].caller # None =>
                 /\ frame[p].caller \in open \ {top} /\ frame[p].caller # c
                 /\ AwaitedBy(p, frame[p].caller, frame)
          BY <2>1 DEF Stack, Linked, Ordered, OrderedIn, c
        <4>2. QED
          BY <3>2, <4>1 DEF AwaitedBy
      <3>7. QED
        BY <3>1, <3>2, <3>3, <3>5, <3>6 DEF Ordered, OrderedIn
    <2>8. QED
      BY <1>4, <2>4, <2>5, <2>6, <2>7 DEF GoesOn
  <1>5. QED
    BY <1>1, <1>2, <1>3, <1>4, WorkingSteps

LEMMA DepsStep == DepsInv /\ [Next]_vars => DepsInv'
  <1> SUFFICES ASSUME DepsInv, [Next]_vars PROVE DepsInv'
    OBVIOUS
  <1>1. TypeInv' /\ AsideInv' /\ TypeInv /\ AsideInv
    BY TypeStep DEF DepsInv
  <1>2. CASE Switches
    <2>1. PICK w \in Welcomes : Switch(w)
      BY <1>2 DEF Switches
    <2>2. active' = active
      BY <2>1 DEF Switch
    <2>3. ThreadOrdered(aside[w]) /\ ThreadOrdered(Thread)
      BY DEF DepsInv, Ordered, Working, ThreadOrdered, Thread
    <2>4. (Working => Ordered)'
      BY <2>1, <2>2, <2>3 DEF Switch, ThreadOrdered, Working, Ordered, OrderedIn, Passed, AwaitedBy
    <2>5. \A t : ThreadOrdered(t) => ThreadOrdered(t)'
      BY <2>2, OrderedMonotone
    <2>6. \A v \in Welcomes : ThreadOrdered(aside[v])'
      <3>1. \A v \in Welcomes : aside'[v] = Thread \/ aside'[v] = aside[v]
        BY <1>1, <2>1, SwitchThreads
      <3>2. SUFFICES ASSUME NEW v \in Welcomes PROVE ThreadOrdered(aside[v])'
        OBVIOUS
      <3>3. PICK t : t = aside'[v] /\ ThreadOrdered(t)
        BY <2>3, <3>1 DEF DepsInv
      <3>4. ThreadOrdered(t)'
        BY <2>5, <3>3
      <3>5. QED
        BY <3>3, <3>4 DEF ThreadOrdered, OrderedIn, Passed, AwaitedBy
    <2>7. QED
      BY <1>1, <2>4, <2>6 DEF DepsInv
  <1>3. CASE ~Switches
    <2>1. (Working => Ordered)'
      BY <1>3, OrderedStep
    <2>2. CASE Crash
      <3>1. aside' = [w \in Welcomes |-> Rest] /\ Rest.phase = "idle"
        BY <2>2 DEF Crash, Starts, Rest
      <3>2. QED
        BY <1>1, <2>1, <3>1 DEF DepsInv, ThreadOrdered, InCall
    <2>3. CASE ~Crash
      <3>1. Stays
        BY <1>1, <1>3, <2>3, OthersStay
      <3>2. QED
        BY <1>1, <2>1, <3>1, AsideOrdered DEF DepsInv
    <2>4. QED
      BY <2>2, <2>3
  <1>4. QED
    BY <1>2, <1>3

\* The only plugin that becomes active is the one whose activate() runs, and
\* its dependencies are behind it.
LEMMA NewlyActive ==
    ASSUME DepsInv, [Next]_vars, NEW p \in active', p \notin active
    PROVE  /\ p = top /\ phase = "activate" /\ (Activate \/ ActivateRaises)
           /\ Dependencies(p) \subseteq active \cup Silent \cup lost
  <1>1. Activate \/ ActivateRaises
    BY DEF Next, AdminCommand, Operation, Activation, DepInTrack, DepUnknown, DepActive, DepEnter,
           DepsDone, DepsDoneTwice, Configure, ConfigureRaises, ActivateSilently, CallbackConnect,
           CallbackConnectRaises, BootSkip, BootActivate, DisconnectNext, BootNext, BootCycles,
           BootEnd, DisconnectBegin, DisconnectEnd, PluginActivate, PluginDeactivate, PluginReload,
           EnterActive, EnterPlugin, PluginBlacklist, BlacklistEnd, PluginUnblacklist, PluginConfig,
           ActivateEnd, ConfigDeactivate, ConfigEnd, UnblacklistEnd, Switch, Crash, Deactivate,
           DeactivateRaises, vars, pluginVars
  <1>2. p = top /\ phase = "activate"
    BY <1>1 DEF Activate, ActivateRaises
  <1>3. top \in open /\ Ordered
    BY <1>2 DEF DepsInv, TypeInv, Working, InCall, Stack, Linked
  <1>4. \A j \in DOMAIN Deps[p] : Deps[p][j] \in active \cup Silent \cup lost
    BY <1>2, <1>3 DEF Ordered, OrderedIn, Passed
  <1>5. QED
    BY <1>1, <1>2, <1>4 DEF Dependencies

LEMMA DepsInvariant == Spec => []DepsInv
  <1>1. Init => DepsInv
    <2>1. Rest.phase = "idle"
      BY DEF Rest
    <2>2. Init => TypeInv /\ AsideInv
      BY RestOK, NewOpTyped
         DEF Init, TypeInv, CallOK, StoreOK, PhaseInv, PhaseOK, Working, InCall, NoFrame,
             AsideInv, Commands
    <2>3. QED
      BY <2>1, <2>2 DEF Init, DepsInv, Working, InCall, ThreadOrdered
  <1>2. QED
    BY <1>1, DepsStep, PTL DEF Spec

\* _activate_plugin_dependencies: a plugin becomes active only when all its
\* dependencies are, but for the silent ones and those that another thread has
\* deactivated since; what the thread itself has passed stays active.
THEOREM ActivatedWithDependenciesHolds == Spec => ActivatedWithDependencies
  <1>1. DepsInv /\ [Next]_vars =>
           [\A p \in active' \ active : Dependencies(p) \subseteq active \cup Silent \cup lost]_vars
    BY NewlyActive
  <1>2. QED
    BY <1>1, DepsInvariant, PTL DEF Spec, ActivatedWithDependencies

\* Only a plugin that was active is lost to another thread, so that one that
\* never is active cannot have been passed.
Waiting(C) == \A p \in C : Dependencies(p) \cap (C \ Silent) # {}

NeverIn(C) ==
    active \cap C = {} /\ lost \cap C = {} /\ \A w \in Welcomes : aside[w].lost \cap C = {}

CyclicInv == \A C \in SUBSET Plugins : Waiting(C) => NeverIn(C)

LEMMA LostSteps ==
    ASSUME TypeInv, AsideInv, [Next]_vars, ~Switches
    PROVE  lost' \subseteq lost
  BY DEF Next, AdminCommand, Operation, Activation, DepInTrack, DepUnknown, DepActive, DepEnter,
         DepsDone, DepsDoneTwice, Configure, ConfigureRaises, Activate, ActivateSilently,
         ActivateRaises, CallbackConnect, CallbackConnectRaises, Fail, Return, Enter, Collect,
         BootSkip, BootActivate, DisconnectNext, BootNext, BootCycles, BootEnd, DisconnectBegin,
         DisconnectEnd, PluginActivate, PluginDeactivate, PluginReload, ThenActivate, EnterActive,
         EnterPlugin, PluginBlacklist, BlacklistEnd, PluginUnblacklist, PluginConfig, ActivateEnd,
         ConfigDeactivate, ConfigEnd, UnblacklistEnd, Crash, Starts, Switches, vars, callVars

LEMMA CyclicStep == DepsInv /\ CyclicInv /\ [Next]_vars => CyclicInv'
  <1> SUFFICES ASSUME DepsInv, CyclicInv, [Next]_vars, NEW C \in SUBSET Plugins, Waiting(C)
               PROVE  NeverIn(C)'
    BY DEF CyclicInv, Waiting, Dependencies
  <1>1. NeverIn(C) /\ TypeInv /\ AsideInv
    BY DEF CyclicInv, DepsInv
  <1>2. active' \cap C = {}
    <2> SUFFICES ASSUME NEW p \in active', p \in C PROVE FALSE
      OBVIOUS
    <2>1. Dependencies(p) \subseteq active \cup Silent \cup lost
      BY <1>1, NewlyActive DEF NeverIn
    <2>2. QED
      BY <1>1, <2>1 DEF NeverIn, Waiting
  <1>3. CASE Switches
    <2>1. PICK w \in Welcomes : Switch(w)
      BY <1>3 DEF Switches
    <2>2. lost' = aside[w].lost /\ Thread.lost = lost
      BY <2>1 DEF Switch, Thread
    <2>3. \A v \in Welcomes : aside'[v] = Thread \/ aside'[v] = aside[v]
      BY <1>1, <2>1, SwitchThreads
    <2>4. QED
      BY <1>1, <1>2, <2>2, <2>3 DEF NeverIn
  <1>4. CASE ~Switches
    <2>1. lost' \cap C = {}
      BY <1>1, <1>4, LostSteps DEF NeverIn
    <2>2. CASE Crash
      <3>1. aside' = [w \in Welcomes |-> Rest] /\ Rest.lost = {}
        BY <2>2 DEF Crash, Starts, Rest
      <3>2. QED
        BY <1>2, <2>1, <3>1 DEF NeverIn
    <2>3. CASE ~Crash
      <3>1. Stays
        BY <1>1, <1>4, <2>3, OthersStay
      <3>2. \A w \in Welcomes : aside'[w].lost \subseteq aside[w].lost \cup active
        BY <3>1 DEF Stays, Kept
      <3>3. QED
        BY <1>1, <1>2, <2>1, <3>2 DEF NeverIn
    <2>4. QED
      BY <2>2, <2>3
  <1>5. QED
    BY <1>3, <1>4

\* Plugins that wait for each other, directly or around a ring, never become
\* active in any thread: the first of them would have needed an active one.
THEOREM CyclicNeverActiveHolds == Spec => []CyclicNeverActive
  <1>1. Init => CyclicInv
    <2>1. Rest.lost = {}
      BY DEF Rest
    <2>2. QED
      BY <2>1 DEF Init, CyclicInv, NeverIn
  <1>2. CyclicInv => CyclicNeverActive
    BY DEF CyclicInv, NeverIn, Waiting, CyclicNeverActive
  <1>3. QED
    BY <1>1, <1>2, CyclicStep, DepsInvariant, PTL DEF Spec

-----------------------------------------------------------------------------
(* The blacklist.                                                           *)

LEMMA BlacklistSteps ==
    ASSUME [Next]_vars
    PROVE  BlacklistEnd \/ UnblacklistEnd \/ blacklist' = blacklist
  BY DEF Next, AdminCommand, Operation, Activation, DepInTrack, DepUnknown, DepActive, DepEnter,
         DepsDone, DepsDoneTwice, Configure, ConfigureRaises, Activate, ActivateSilently,
         ActivateRaises, CallbackConnect, CallbackConnectRaises, BootSkip, BootActivate,
         DisconnectNext, BootNext, BootCycles, BootEnd, DisconnectBegin, DisconnectEnd,
         PluginActivate, PluginDeactivate, PluginReload, EnterActive, EnterPlugin, PluginBlacklist,
         PluginUnblacklist, PluginConfig, ActivateEnd, ConfigDeactivate, ConfigEnd, Switch, Crash,
         vars, storeVars

\* blacklist_plugin and unblacklist_plugin keep every plugin at most once in
\* the blacklist of the store.
THEOREM BlacklistedOnceHolds == Spec => []BlacklistedOnce
  <1>1. Init => Distinct(blacklist)
    BY DEF Init, Distinct
  <1>2. TypeInv /\ Distinct(blacklist) /\ [Next]_vars => Distinct(blacklist)'
    <2> SUFFICES ASSUME TypeInv, Distinct(blacklist), [Next]_vars
                 PROVE  Distinct(blacklist)'
      OBVIOUS
    <2>1. blacklist \in Seq(Loaded)
      BY DEF TypeInv, StoreOK
    <2>2. CASE BlacklistEnd
      <3>1. op.p \in Loaded
        BY <2>2 DEF BlacklistEnd, TypeInv, PhaseInv, PhaseOK
      <3>2. QED
        BY <2>1, <2>2, <3>1, AppendDistinct DEF BlacklistEnd
    <2>3. CASE UnblacklistEnd
      BY <2>1, <2>3, RemoveAtDistinct DEF UnblacklistEnd
    <2>4. CASE blacklist' = blacklist
      BY <2>4
    <2>5. QED
      BY <2>2, <2>3, <2>4, BlacklistSteps
  <1>3. Distinct(blacklist) => BlacklistedOnce
    BY DEF Distinct, BlacklistedOnce
  <1>4. QED
    BY <1>1, <1>2, <1>3, TypeCorrect, PTL DEF Spec

\* While the bot boots, the plugin at the bottom of the stack is one that the
\* boot has chosen, and that was not blacklisted then.
ChosenIn(o, ph, opn, fr, bn) ==
    InCall(ph) /\ Boots(o) =>
        \A p \in opn : fr[p].caller = None => ~Contains(blacklist, p) \/ p \in bn
Chosen == ChosenIn(op, phase, open, frame, banned)
ThreadChosen(t) == ChosenIn(t.op, t.phase, t.open, t.frame, t.banned)
BootInv == Chosen /\ \A w \in Welcomes : ThreadChosen(aside[w])

\* What a step adds to the blacklist is banned in the threads set aside.
LEMMA BlacklistGrows ==
    ASSUME TypeInv, AsideInv, [Next]_vars, NEW w \in Welcomes, aside[w].open # {},
           NEW p, Contains(blacklist', p), ~Contains(blacklist, p)
    PROVE  BlacklistEnd /\ p \in aside'[w].banned
  <1>1. blacklist \in Seq(Loaded)
    BY DEF TypeInv, StoreOK
  <1>2. CASE UnblacklistEnd
    <2>1. blacklist' # blacklist
      OBVIOUS
    <2>2. PICK i \in DOMAIN blacklist : blacklist' = RemoveAt(blacklist, i)
      BY <1>2, <2>1 DEF UnblacklistEnd
    <2>3. \A k \in DOMAIN blacklist' : \E j \in DOMAIN blacklist : blacklist'[k] = blacklist[j]
      BY <1>1, <2>2, RemoveAtSelects
    <2>4. QED
      BY <2>3 DEF Contains
  <1>3. CASE BlacklistEnd
    <2>1. op.p \in Loaded /\ op.p \in aside'[w].banned
      BY <1>3, BlacklistStays DEF TypeInv, PhaseInv, PhaseOK, BlacklistEnd
    <2>2. p = op.p
      <3>1. blacklist' = Append(blacklist, op.p)
        BY <1>3 DEF BlacklistEnd
      <3>2. QED
        BY <1>1, <2>1, <3>1, AppendElements, LenProperties DEF Contains
    <2>3. QED
      BY <1>3, <2>1, <2>2
  <1>4. QED
    BY <1>2, <1>3, BlacklistSteps

LEMMA ChosenStep ==
    ASSUME TypeInv, Chosen, [Next]_vars, ~Switches
    PROVE  Chosen'
  <1> SUFFICES ASSUME Working', Boots(op'), NEW p \in open', frame'[p].caller = None
               PROVE  ~Contains(blacklist', p) \/ p \in banned'
    BY DEF Chosen, ChosenIn, Working
  <1>1. CASE UNCHANGED vars
    BY <1>1 DEF vars, storeVars, callVars, Chosen, ChosenIn, Working
  <1>2. ASSUME NEW q \in Loaded, Begins(q) PROVE ~Contains(blacklist', p)
    BY <1>2 DEF Begins, Booting, Boots, storeVars
  <1>3. CASE GoesOn
    <2>1. /\ Working /\ Boots(op) /\ blacklist' = blacklist /\ banned' = banned
          /\ top \in open /\ open \subseteq Loaded
      BY <1>3 DEF GoesOn, storeVars, TypeInv, CallOK, Stack, Linked
    <2>2. p \in open /\ frame[p].caller = None
      <3>1. CASE DepActive
        BY <3>1, DepActiveFrames DEF DepActive
      <3>2. CASE DepEnter
        <4>1. Dep \notin open /\ frame'[Dep].caller = top /\ \A q \in open : frame'[q] = frame[q]
          BY <3>2, DepEnterFrames
        <4>2. open' = open \cup {Dep} /\ top # None
          BY <2>1, <3>2, LoadedPlugins DEF DepEnter
        <4>3. QED
          BY <4>1, <4>2
      <3>3. CASE DepsDone \/ Configure \/ Activate \/ ActivateSilently
        BY <3>3 DEF DepsDone, Configure, Activate, ActivateSilently
      <3>4. CASE CallbackConnect
        <4>1. open' = open \ {top} /\ Return
          BY <3>4 DEF CallbackConnect, Return
        <4>2. QED
          BY <2>1, <4>1, ReturnFrames
      <3>5. QED
        BY <1>3, <3>1, <3>2, <3>3, <3>4 DEF GoesOn
    <2>3. QED
      BY <2>1, <2>2 DEF Chosen, ChosenIn, Working
  <1>4. QED
    BY <1>1, <1>2, <1>3, WorkingSteps

LEMMA AsideChosen ==
    ASSUME TypeInv, AsideInv, [Next]_vars, Stays, NEW w \in Welcomes, ThreadChosen(aside[w])
    PROVE  ThreadChosen(aside[w])'
  <1>1. PICK t : t = aside[w]
    OBVIOUS
  <1>2. PICK u : u = aside'[w]
    OBVIOUS
  <1>3. Kept(t, u) /\ ThreadChosen(t) /\ ThreadOK(t)
    BY <1>1, <1>2 DEF Stays, AsideInv
  <1>4. ChosenIn(u.op, u.phase, u.open, u.frame, u.banned)'
    <2> SUFFICES ASSUME InCall(u.phase), Boots(u.op), NEW p \in u.open, u.frame[p].caller = None
                 PROVE  ~Contains(blacklist', p) \/ p \in u.banned
      BY DEF ChosenIn
    <2>1. /\ u.op = t.op /\ u.phase = t.phase /\ u.open = t.open /\ u.frame = t.frame
          /\ t.banned \subseteq u.banned
      BY <1>3 DEF Kept
    <2>2. ~Contains(blacklist, p) \/ p \in t.banned
      BY <1>3, <2>1 DEF ThreadChosen, ChosenIn
    <2>3. ~Contains(blacklist, p) /\ Contains(blacklist', p) => p \in u.banned
      BY <1>1, <1>2, <2>1, BlacklistGrows
    <2>4. QED
      BY <2>1, <2>2, <2>3
  <1>5. QED
    BY <1>2, <1>4 DEF ThreadChosen, ChosenIn

LEMMA BootStep == TypeInv /\ AsideInv /\ BootInv /\ [Next]_vars => BootInv'
  <1> SUFFICES ASSUME TypeInv, AsideInv, BootInv, [Next]_vars PROVE BootInv'
    OBVIOUS
  <1>1. CASE Switches
    <2>1. PICK w \in Welcomes : Switch(w)
      BY <1>1 DEF Switches
    <2>2. blacklist' = blacklist
      BY <2>1 DEF Switch, storeVars
    <2>3. ThreadChosen(aside[w]) /\ ThreadChosen(Thread)
      BY DEF BootInv, Chosen, ChosenIn, ThreadChosen, Thread
    <2>4. Chosen'
      BY <2>1, <2>2, <2>3 DEF Switch, Chosen, ThreadChosen, ChosenIn
    <2>5. \A v \in Welcomes : ThreadChosen(aside[v])'
      <3>1. \A v \in Welcomes : aside'[v] = Thread \/ aside'[v] = aside[v]
        BY <2>1, SwitchThreads
      <3>2. SUFFICES ASSUME NEW v \in Welcomes PROVE ThreadChosen(aside[v])'
        OBVIOUS
      <3>3. PICK t : t = aside'[v] /\ ThreadChosen(t)
        BY <2>3, <3>1 DEF BootInv
      <3>4. QED
        BY <2>2, <3>3 DEF ThreadChosen, ChosenIn
    <2>6. QED
      BY <2>4, <2>5 DEF BootInv
  <1>2. CASE ~Switches
    <2>1. Chosen'
      BY <1>2, ChosenStep DEF BootInv
    <2>2. CASE Crash
      <3>1. aside' = [w \in Welcomes |-> Rest] /\ Rest.phase = "idle"
        BY <2>2 DEF Crash, Starts, Rest
      <3>2. QED
        BY <2>1, <3>1 DEF BootInv, ThreadChosen, ChosenIn, InCall
    <2>3. CASE ~Crash
      <3>1. Stays
        BY <1>2, <2>3, OthersStay
      <3>2. QED
        BY <2>1, <3>1, AsideChosen DEF BootInv
    <2>4. QED
      BY <2>2, <2>3
  <1>3. QED
    BY <1>1, <1>2

\* activate_non_started_plugins: whatever the other threads do, a boot activates
\* a blacklisted plugin only for another plugin that depends on it, or when it
\* was blacklisted while its activation was in progress.
THEOREM BootSkipsBlacklistedHolds == Spec => BootSkipsBlacklisted
  <1>1. Init => BootInv
    <2>1. Rest.phase = "idle"
      BY DEF Rest
    <2>2. QED
      BY <2>1 DEF Init, BootInv, Chosen, ThreadChosen, ChosenIn, InCall
  <1>2. DepsInv /\ BootInv /\ [Next]_vars =>
           [\A p \in active' \ active :
              Booting /\ Contains(blacklist, p) =>
                  frame[p].caller # None \/ p \in banned]_vars
    <2> SUFFICES ASSUME DepsInv, BootInv, [Next]_vars, NEW p \in active', p \notin active,
                        Booting, Contains(blacklist, p)
                 PROVE  frame[p].caller # None \/ p \in banned
      OBVIOUS
    <2>1. p = top /\ phase = "activate"
      BY NewlyActive
    <2>2. p \in open
      BY <2>1 DEF DepsInv, TypeInv, Working, InCall, Stack, Linked
    <2>3. QED
      BY <2>1, <2>2 DEF BootInv, Chosen, ChosenIn, InCall, Booting
  <1>3. DepsInv => TypeInv /\ AsideInv
    BY DEF DepsInv
  <1>4. QED
    BY <1>1, <1>2, <1>3, BootStep, DepsInvariant, PTL DEF Spec, BootSkipsBlacklisted

-----------------------------------------------------------------------------
(* Configurations.                                                          *)

\* A plugin runs with the configuration of the store, which it has accepted.
Good(p) == live[p] = config[p] /\ <<p, config[p]>> \in Valid

Configuring(p) == op.kind = "config" /\ op.p = p
Stored == \A p \in active \ (Stubborn \cup raced) : Configuring(p) \/ Good(p)

\* A thread activates a plugin with what the store has.
SetIn(ph, tp) == ph \in {"activate", "connect"} /\ tp \notin raced => Good(tp)
Ready == SetIn(phase, top)
ThreadReady(t) == SetIn(t.phase, t.top)

\* A plugin_config that no other thread disturbs.
Alone == op.kind = "config" /\ op.p \notin raced
Apart ==
    /\ Alone => \A w \in Welcomes : aside[w].op.kind = "none"
    /\ \A w \in Welcomes : aside[w].op.kind = "config" => aside[w].op.p \in raced

\* A plugin that such a command is about to activate, with its dependencies, is
\* inactive until its turn comes ...
Trying ==
    /\ phase = "enter" => op.p \notin active
    /\ Working => /\ \A p \in open : p \in active => p = top /\ phase = "connect"
                  /\ op.p \in open /\ frame[op.p].caller = None

\* ... and the configuration it takes back is not one in use.
Tried == phase = "done" /\ op.p \in active \ Stubborn => error # "config" /\ Good(op.p)

ConfigInv ==
    /\ Stored /\ Ready /\ Apart /\ (Alone => Trying /\ Tried)
    /\ \A w \in Welcomes : ThreadReady(aside[w])

\* What a step of the thread that runs does to the operation and to the stored
\* configurations.
Undisturbed == ~Crash /\ ~Switches

LEMMA OpSteps ==
    ASSUME TypeInv, [Next]_vars, Undisturbed, op'.kind = "config"
    PROVE  \/ op' = op /\ op.kind = "config" /\ raced' = raced
           \/ \E p \in Loaded, c \in Configs : PluginConfig(p, c) /\ op'.p = p /\ phase = "idle"
  <1>1. CASE UNCHANGED vars
    BY <1>1 DEF vars, storeVars
  <1>2. CASE Activation
    BY <1>2 DEF Activation, DepInTrack, DepUnknown, DepActive, DepEnter, DepsDone, DepsDoneTwice,
           Configure, ConfigureRaises, Activate, ActivateSilently, ActivateRaises, CallbackConnect,
           CallbackConnectRaises, storeVars
  <1>3. CASE \/ \E p \in Plugins : BootSkip(p) \/ BootActivate(p) \/ DisconnectNext(p)
             \/ BootNext \/ BootCycles \/ BootEnd \/ DisconnectBegin \/ DisconnectEnd
    <2>1. op \in OpType /\ Boot.kind # "config" /\ NoOp.kind # "config"
      BY NewOpTyped DEF TypeInv, StoreOK
    <2>2. CASE \E p \in Plugins : BootSkip(p) \/ BootActivate(p) \/ DisconnectNext(p)
      <3>1. PICK p \in Plugins : BootSkip(p) \/ BootActivate(p) \/ DisconnectNext(p)
        BY <2>2
      <3>2. op'.kind = op.kind /\ op.kind # "config"
        BY <2>1, <3>1, TodoTyped DEF BootSkip, BootActivate, DisconnectNext, Booting, Boots
      <3>3. QED
        BY <3>2
    <2>3. CASE BootNext \/ BootEnd \/ DisconnectBegin \/ DisconnectEnd
      BY <2>1, <2>3 DEF BootNext, BootEnd, DisconnectBegin, DisconnectEnd, Booting, Boots
    <2>4. CASE BootCycles
      BY <2>1, <2>4 DEF BootCycles, OpType
    <2>5. QED
      BY <1>3, <2>2, <2>3, <2>4
  <1>4. CASE EnterActive \/ EnterPlugin \/ ConfigDeactivate
    BY <1>4, NewOpTyped DEF EnterActive, EnterPlugin, ConfigDeactivate, storeVars
  <1>5. CASE ActivateEnd \/ ConfigEnd \/ BlacklistEnd \/ UnblacklistEnd
    BY <1>5, NewOpTyped DEF ActivateEnd, ConfigEnd, BlacklistEnd, UnblacklistEnd
  <1>6. ASSUME NEW p \in Loaded,
               \/ PluginActivate(p) \/ PluginDeactivate(p) \/ PluginReload(p)
               \/ PluginBlacklist(p) \/ PluginUnblacklist(p)
        PROVE  FALSE
    BY <1>6, NewOpTyped
       DEF PluginActivate, PluginDeactivate, PluginReload, PluginBlacklist, PluginUnblacklist,
           Dispatching
  <1>7. ASSUME NEW p \in Loaded, NEW c \in Configs, PluginConfig(p, c)
        PROVE  op'.p = p /\ phase = "idle"
    BY <1>7, NewOpTyped DEF PluginConfig, Dispatching, TypeInv, PhaseInv, PhaseOK
  <1>8. QED
    BY <1>1, <1>2, <1>3, <1>4, <1>5, <1>6, <1>7
       DEF Next, AdminCommand, Operation, Undisturbed, Switches

LEMMA ConfigEnds ==
    ASSUME TypeInv, [Next]_vars, Undisturbed, op.kind = "config"
    PROVE  op' = op \/ ConfigEnd \/ DeactivateRaises(op.p)
  BY NewOpTyped
     DEF Next, AdminCommand, Operation, Activation, DepInTrack, DepUnknown, DepActive, DepEnter,
         DepsDone, DepsDoneTwice, Configure, ConfigureRaises, Activate, ActivateSilently,
         ActivateRaises, CallbackConnect, CallbackConnectRaises, BootSkip, BootActivate,
         DisconnectNext, BootNext, BootCycles, BootEnd, DisconnectBegin, DisconnectEnd,
         PluginActivate, PluginDeactivate, PluginReload, EnterActive, EnterPlugin, PluginBlacklist,
         BlacklistEnd, PluginUnblacklist, PluginConfig, ActivateEnd, ConfigDeactivate,
         UnblacklistEnd, Undisturbed, Switches, Dispatching, Booting, Boots, vars

\* Whether a plugin was configured beside a boot changes only as it is
\* configured, and what it has accepted stays until it is configured again.
LEMMA RacedSteps ==
    ASSUME [Next]_vars, ~Crash, NEW p, \A c \in Configs : ~PluginConfig(p, c)
    PROVE  p \in raced' <=> p \in raced
  BY DEF Next, AdminCommand, Operation, Activation, DepInTrack, DepUnknown, DepActive, DepEnter,
         DepsDone, DepsDoneTwice, Configure, ConfigureRaises, Activate, ActivateSilently,
         ActivateRaises, CallbackConnect, CallbackConnectRaises, BootSkip, BootActivate,
         DisconnectNext, BootNext, BootCycles, BootEnd, DisconnectBegin, DisconnectEnd,
         PluginActivate, PluginDeactivate, PluginReload, EnterActive, EnterPlugin, PluginBlacklist,
         BlacklistEnd, PluginUnblacklist, PluginConfig, ActivateEnd, ConfigDeactivate, ConfigEnd,
         UnblacklistEnd, Switch, vars, storeVars

TakenBack(p) == ConfigEnd /\ error = "config" /\ op.p = p

LEMMA ConfigSteps ==
    ASSUME [Next]_vars, ~Crash
    PROVE  /\ live' = live \/ Configure \/ ConfigureRaises
           /\ \/ config' = config
              \/ \E q \in Loaded, c \in Configs : PluginConfig(q, c)
              \/ TakenBack(op.p)
  BY DEF Next, AdminCommand, Operation, Activation, DepInTrack, DepUnknown, DepActive, DepEnter,
         DepsDone, DepsDoneTwice, Configure, ConfigureRaises, Activate, ActivateSilently,
         ActivateRaises, CallbackConnect, CallbackConnectRaises, BootSkip, BootActivate,
         DisconnectNext, BootNext, BootCycles, BootEnd, DisconnectBegin, DisconnectEnd,
         PluginActivate, PluginDeactivate, PluginReload, EnterActive, EnterPlugin, PluginBlacklist,
         BlacklistEnd, PluginUnblacklist, PluginConfig, ActivateEnd, ConfigDeactivate, ConfigEnd,
         UnblacklistEnd, Switch, TakenBack, vars, pluginVars, storeVars

LEMMA GoodKept ==
    ASSUME TypeInv, [Next]_vars, ~Crash, NEW p \in Loaded, Good(p), ~TakenBack(p),
           \A c \in Configs : ~PluginConfig(p, c)
    PROVE  Good(p)'
  <1>0. p \in Plugins /\ live \in [Plugins -> Configs \cup {None}]
        /\ config \in [Plugins -> Configs \cup {None}]
    BY LoadedPlugins DEF TypeInv, StoreOK
  <1>1. config'[p] = config[p]
    <2>1. CASE \E q \in Loaded, c \in Configs : PluginConfig(q, c)
      <3>1. PICK q \in Loaded, c \in Configs : PluginConfig(q, c)
        BY <2>1
      <3>2. QED
        BY <1>0, <3>1 DEF PluginConfig
    <2>2. CASE TakenBack(op.p)
      <3>1. p # op.p /\ config' = [config EXCEPT ![op.p] = None]
        BY <2>2 DEF TakenBack, ConfigEnd
      <3>2. QED
        BY <1>0, <3>1
    <2>3. QED
      BY <2>1, <2>2, ConfigSteps
  <1>2. live'[p] = live[p]
    <2>1. CASE Configure
      <3>1. live' = [live EXCEPT ![top] = config[top]]
        BY <2>1 DEF Configure
      <3>2. QED
        BY <1>0, <3>1 DEF Good
    <2>2. CASE ConfigureRaises
      <3>1. live' = [live EXCEPT ![top] = None] /\ p # top
        BY <2>2 DEF ConfigureRaises, Good
      <3>2. QED
        BY <1>0, <3>1
    <2>3. QED
      BY <2>1, <2>2, ConfigSteps
  <1>3. QED
    BY <1>1, <1>2 DEF Good

LEMMA ReadyStep ==
    ASSUME TypeInv, Ready, [Next]_vars, Undisturbed
    PROVE  Ready'
  <1> SUFFICES ASSUME phase' \in {"activate", "connect"}, top' \notin raced' PROVE Good(top)'
    BY DEF Ready, SetIn
  <1>0. Working'
    BY DEF Working, InCall
  <1>1. CASE UNCHANGED vars
    BY <1>1 DEF vars, pluginVars, storeVars, callVars, Ready, SetIn, Good
  <1>2. ASSUME NEW p \in Loaded, Begins(p) PROVE FALSE
    BY <1>2 DEF Begins
  <1>3. CASE GoesOn
    <2>1. raced' = raced /\ config' = config /\ top \in Plugins
      BY <1>3, LoadedPlugins DEF GoesOn, storeVars, TypeInv, CallOK, Stack, Linked
    <2>2. CASE Configure
      <3>1. top' = top /\ live' = [live EXCEPT ![top] = config[top]] /\ <<top, config[top]>> \in Valid
        BY <2>2 DEF Configure
      <3>2. QED
        BY <2>1, <3>1 DEF Good, TypeInv, StoreOK
    <2>3. CASE Activate \/ ActivateSilently
      BY <2>1, <2>3 DEF Activate, ActivateSilently, pluginVars, Ready, SetIn, Good
    <2>4. CASE DepActive \/ DepEnter \/ DepsDone \/ CallbackConnect
      BY <2>4 DEF DepActive, DepEnter, DepsDone, CallbackConnect, Return, AtDependency
    <2>5. QED
      BY <1>3, <2>2, <2>3, <2>4 DEF GoesOn
  <1>4. QED
    BY <1>0, <1>1, <1>2, <1>3, WorkingSteps DEF Undisturbed

LEMMA AsideReady ==
    ASSUME TypeInv, AsideInv, Apart, [Next]_vars, Undisturbed, Stays,
           NEW w \in Welcomes, ThreadReady(aside[w])
    PROVE  ThreadReady(aside[w])'
  <1>1. PICK t : t = aside[w]
    OBVIOUS
  <1>2. PICK u : u = aside'[w]
    OBVIOUS
  <1>3. Kept(t, u) /\ ThreadReady(t) /\ ThreadOK(t)
    BY <1>1, <1>2 DEF Stays, AsideInv
  <1>4. u.phase = t.phase /\ u.top = t.top
    BY <1>3 DEF Kept
  <1>5. ASSUME u.phase \in {"activate", "connect"}, u.top \notin raced' PROVE Good(u.top)'
    <2>1. t.op.kind # "none" /\ t.top \in Loaded
      <3>1. InCall(t.phase) /\ t.phase # "idle"
        BY <1>4, <1>5 DEF InCall
      <3>2. t.open \subseteq Loaded
        BY <1>1 DEF AsideInv, ThreadType
      <3>3. QED
        BY <1>3, <3>1, <3>2 DEF ThreadOK, PhaseOK, Linked
    <2>2. \A c \in Configs : ~PluginConfig(t.top, c)
      <3> SUFFICES ASSUME NEW c \in Configs, PluginConfig(t.top, c) PROVE FALSE
        OBVIOUS
      <3>1. Boots(aside[w].op)
        BY <1>1, <2>1, NewOpTyped DEF PluginConfig, Dispatching
      <3>2. t.top \in raced'
        BY <3>1 DEF PluginConfig
      <3>3. QED
        BY <1>4, <1>5, <3>2
    <2>3. t.top \notin raced
      BY <1>4, <1>5, <2>2, RacedSteps DEF Undisturbed
    <2>4. Good(t.top)
      BY <1>3, <1>4, <1>5, <2>3 DEF ThreadReady, SetIn
    <2>5. ~TakenBack(t.top)
      BY <1>1, <2>1, <2>3 DEF TakenBack, ConfigEnd, Apart, Alone
    <2>6. PICK q \in Loaded : q = t.top
      BY <2>1
    <2>7. Good(q)'
      BY <2>2, <2>4, <2>5, <2>6, GoodKept DEF Undisturbed
    <2>8. QED
      BY <1>4, <2>6, <2>7
  <1>6. QED
    BY <1>2, <1>5 DEF ThreadReady, SetIn, Good

LEMMA StoredStep ==
    ASSUME DepsInv, ConfigInv, [Next]_vars, Undisturbed
    PROVE  Stored'
  <1>0. TypeInv /\ Stored /\ Ready /\ (Alone => Trying /\ Tried)
    BY DEF DepsInv, ConfigInv
  <1> SUFFICES ASSUME NEW p \in active', p \notin Stubborn, p \notin raced'
               PROVE  Configuring(p)' \/ Good(p)'
    BY DEF Stored
  <1>1. CASE p \notin active
    <2>1. p = top /\ phase = "activate" /\ (Activate \/ ActivateRaises)
      BY <1>1, NewlyActive
    <2>2. Activate
      BY <1>1, <2>1 DEF ActivateRaises
    <2>3. UNCHANGED <<live, config, raced>>
      BY <2>2 DEF Activate, storeVars
    <2>4. QED
      BY <1>0, <2>1, <2>3 DEF Ready, SetIn, Good
  <1>2. CASE p \in active /\ \E c \in Configs : PluginConfig(p, c)
    BY <1>2, NewOpTyped DEF PluginConfig, Configuring, Op
  <1>3. CASE p \in active /\ \A c \in Configs : ~PluginConfig(p, c)
    <2>1. p \notin raced /\ p \in Loaded
      BY <1>0, <1>3, RacedSteps DEF Undisturbed, TypeInv, StoreOK
    <2>2. CASE Good(p)
      <3>1. CASE TakenBack(p)
        BY <1>0, <1>3, <2>1, <3>1 DEF TakenBack, ConfigEnd, Alone, Tried
      <3>2. QED
        BY <1>0, <1>3, <2>1, <2>2, <3>1, GoodKept DEF Undisturbed
    <2>3. CASE Configuring(p) /\ ~Good(p)
      <3>1. ~DeactivateRaises(op.p)
        BY <2>3 DEF Configuring, DeactivateRaises
      <3>2. CASE ConfigEnd
        BY <1>0, <1>3, <2>1, <2>3, <3>2 DEF ConfigEnd, Configuring, Alone, Tried
      <3>3. CASE op' = op
        BY <2>3, <3>3 DEF Configuring
      <3>4. QED
        BY <1>0, <2>3, <3>1, <3>2, <3>3, ConfigEnds DEF Configuring
    <2>4. QED
      BY <1>0, <1>3, <2>1, <2>2, <2>3 DEF Stored
  <1>4. QED
    BY <1>1, <1>2, <1>3

LEMMA ApartStep ==
    ASSUME TypeInv, AsideInv, Apart, [Next]_vars, Undisturbed, Stays
    PROVE  Apart'
  <1>0. \A w \in Welcomes : aside'[w].op = aside[w].op
    BY DEF Stays, Kept
  <1>1. ASSUME NEW p \in Loaded, NEW c \in Configs, PluginConfig(p, c)
        PROVE  /\ \A w \in Welcomes : aside[w].op = NoOp \/ Boots(aside[w].op)
               /\ p \in raced' \/ \A w \in Welcomes : ~Boots(aside[w].op)
    BY <1>1 DEF PluginConfig, Dispatching
  <1>2. ASSUME Alone' PROVE \A w \in Welcomes : aside[w].op.kind = "none"
    <2>1. op'.kind = "config" /\ op'.p \notin raced'
      BY <1>2 DEF Alone
    <2>2. CASE op' = op /\ raced' = raced
      BY <2>1, <2>2 DEF Apart, Alone
    <2>3. CASE \E p \in Loaded, c \in Configs : PluginConfig(p, c) /\ op'.p = p
      BY <1>1, <2>1, <2>3, NewOpTyped
    <2>4. QED
      BY <2>1, <2>2, <2>3, OpSteps
  <1>3. ASSUME NEW w \in Welcomes, aside[w].op.kind = "config" PROVE aside[w].op.p \in raced'
    <2>1. \A p \in Loaded, c \in Configs : ~PluginConfig(p, c)
      BY <1>1, <1>3, NewOpTyped DEF Boots
    <2>2. aside[w].op.p \in raced /\ aside[w].op.p \in Loaded
      BY <1>3 DEF Apart, AsideInv, ThreadOK, PhaseOK, Commands
    <2>3. QED
      BY <2>1, <2>2, RacedSteps DEF Undisturbed
  <1>4. QED
    BY <1>0, <1>2, <1>3 DEF Apart

LEMMA TryingStep ==
    ASSUME TypeInv, ConfigInv, [Next]_vars, Undisturbed, Alone'
    PROVE  Trying'
  <1>0. op'.kind = "config"
    BY DEF Alone
  <1>1. CASE \E p \in Loaded, c \in Configs : PluginConfig(p, c) /\ phase = "idle"
    BY <1>1 DEF PluginConfig, callVars, Trying, Working, InCall
  <1>2. CASE op' = op /\ op.kind = "config" /\ raced' = raced
    <2>0. Alone /\ Trying
      BY <1>2 DEF Alone, ConfigInv
    <2>1. phase' = "enter" => op'.p \notin active'
      <3>1. CASE UNCHANGED vars
        BY <2>0, <3>1 DEF vars, pluginVars, callVars, Trying
      <3>2. CASE ConfigDeactivate
        BY <1>2, <3>2, NewOpTyped DEF ConfigDeactivate, Deactivate
      <3>3. CASE Activation
        BY <3>3 DEF Activation, DepInTrack, DepUnknown, DepActive, DepEnter,
             DepsDone, DepsDoneTwice, Configure, ConfigureRaises, Activate, ActivateSilently,
             ActivateRaises, CallbackConnect, CallbackConnectRaises, AtDependency, Fail, Return
      <3>4. QED
        BY <1>2, <3>1, <3>2, <3>3
           DEF Next, AdminCommand, Operation, BootSkip, BootActivate,
               DisconnectNext, BootNext, BootCycles, BootEnd, DisconnectBegin, DisconnectEnd,
               PluginActivate, PluginDeactivate, PluginReload, EnterActive, EnterPlugin, Enter,
               PluginBlacklist, BlacklistEnd, PluginUnblacklist, PluginConfig, ActivateEnd,
               ConfigEnd, UnblacklistEnd, Collect, NoOp, Undisturbed, Switches, Dispatching, Booting, Boots
    <2>2. ASSUME Working'
          PROVE  /\ \A p \in open' : p \in active' => p = top' /\ phase' = "connect"
                 /\ op'.p \in open' /\ frame'[op'.p].caller = None
      <3>1. CASE UNCHANGED vars
        BY <2>0, <2>2, <3>1 DEF vars, pluginVars, callVars, Working, Trying
      <3>2. ASSUME NEW p \in Loaded, Begins(p)
            PROVE  /\ \A q \in open' : q \notin active'
                   /\ op'.p \in open' /\ frame'[op'.p].caller = None
        BY <1>2, <3>2 DEF Begins, NoFrame
      <3>3. CASE GoesOn
        <4>1. Working /\ Trying /\ Stack /\ open \subseteq Loaded
          BY <2>0, <3>3 DEF GoesOn, TypeInv, CallOK
        <4>2. CASE DepActive
          <5>1. /\ phase = "deps" /\ phase' = "deps" /\ open' = open /\ active' = active
                /\ \A p \in open : frame'[p].caller = frame[p].caller
            BY <4>2, DepActiveFrames DEF DepActive, AtDependency, pluginVars
          <5>2. QED
            BY <1>2, <4>1, <5>1 DEF Trying
        <4>3. CASE DepEnter
          <5>1. /\ phase = "deps" /\ phase' = "deps" /\ active' = active
                /\ \E d : open' = open \cup {d} /\ d \notin active
                /\ \A p \in open : frame'[p] = frame[p]
            BY <4>3, DepEnterFrames DEF DepEnter, AtDependency, pluginVars
          <5>2. QED
            BY <1>2, <4>1, <5>1 DEF Trying
        <4>4. CASE DepsDone \/ Configure
          BY <1>2, <4>1, <4>4 DEF DepsDone, Configure, pluginVars, Trying
        <4>5. CASE Activate \/ ActivateSilently
          <5>1. /\ phase = "activate" /\ phase' = "connect" /\ active' \subseteq active \cup {top}
                /\ UNCHANGED <<top, open, frame>>
            BY <4>5 DEF Activate, ActivateSilently, pluginVars
          <5>2. QED
            BY <1>2, <4>1, <5>1 DEF Trying
        <4>6. CASE CallbackConnect
          <5>1. /\ phase = "connect" /\ phase' = "deps" /\ Return /\ open' = open \ {top}
                /\ top' = frame[top].caller /\ frame[top].caller # None /\ active' = active
            BY <2>2, <4>6 DEF CallbackConnect, Return, Working, InCall, pluginVars
          <5>2. \A p \in open' : frame'[p].caller = frame[p].caller
            BY <4>1, <5>1, ReturnFrames
          <5>3. op.p \in open' /\ frame'[op.p].caller = None
            BY <4>1, <5>1, <5>2 DEF Trying
          <5>4. \A p \in open' : p \notin active'
            BY <4>1, <5>1 DEF Trying
          <5>5. QED
            BY <1>2, <5>3, <5>4
        <4>7. QED
          BY <3>3, <4>2, <4>3, <4>4, <4>5, <4>6 DEF GoesOn
      <3>4. QED
        BY <2>2, <3>1, <3>2, <3>3, WorkingSteps DEF Undisturbed
    <2>3. QED
      BY <2>1, <2>2 DEF Trying
  <1>3. QED
    BY <1>0, <1>1, <1>2, OpSteps

LEMMA TriedStep ==
    ASSUME TypeInv, ConfigInv, [Next]_vars, Undisturbed, Alone'
    PROVE  Tried'
  <1> SUFFICES ASSUME phase' = "done", op'.p \in active', op'.p \notin Stubborn
               PROVE  error' # "config" /\ Good(op.p)'
    BY DEF Tried
  <1>0. op' = op /\ op.kind = "config" /\ raced' = raced
    BY OpSteps DEF Alone, PluginConfig, callVars
  <1>1. Alone /\ Trying /\ Tried /\ Ready
    BY <1>0 DEF Alone, ConfigInv
  <1>2. CASE UNCHANGED vars
    BY <1>1, <1>2 DEF vars, pluginVars, storeVars, callVars, Tried, Good
  <1>3. CASE \/ DepInTrack \/ DepUnknown \/ DepsDoneTwice
             \/ ConfigureRaises \/ ActivateRaises \/ CallbackConnectRaises
    <2>1. Working
      BY <1>3 DEF DepInTrack, DepUnknown, DepsDoneTwice, ConfigureRaises, ActivateRaises,
                  CallbackConnectRaises, AtDependency, Working, InCall
    <2>2. op.p \notin active'
      <3>1. CASE DepInTrack \/ DepUnknown \/ DepsDoneTwice \/ ConfigureRaises \/ ActivateRaises
        <4>1. phase \in {"deps", "configure", "activate"} /\ active' \subseteq active \cup Stubborn
          BY <3>1 DEF DepInTrack, DepUnknown, DepsDoneTwice, ConfigureRaises, ActivateRaises,
                      AtDependency, pluginVars
        <4>2. QED
          BY <1>0, <1>1, <2>1, <4>1 DEF Trying
      <3>2. CASE CallbackConnectRaises
        <4>1. active' = active \ {top} \/ (top \in Stubborn /\ active' = active)
          BY <3>2 DEF CallbackConnectRaises
        <4>2. QED
          BY <1>0, <1>1, <2>1, <4>1 DEF Trying
      <3>3. QED
        BY <1>3, <3>1, <3>2
    <2>3. QED
      BY <1>0, <2>2
  <1>4. CASE CallbackConnect
    <2>1. /\ phase = "connect" /\ Working /\ UNCHANGED <<live, config, error>>
          /\ frame[top].caller = None
      BY <1>4 DEF CallbackConnect, Return, Working, InCall, pluginVars, storeVars
    <2>2. op.p = top /\ error = "none"
      BY <1>1, <2>1 DEF TypeInv, Stack, Linked, Trying
    <2>3. QED
      BY <1>0, <1>1, <2>1, <2>2 DEF Ready, SetIn, Good, Alone
  <1>5. CASE ConfigDeactivate
    BY <1>0, <1>5, NewOpTyped DEF ConfigDeactivate, Deactivate
  <1>6. CASE EnterActive \/ EnterPlugin
    <2>1. phase = "enter" /\ active' = active
      BY <1>6 DEF EnterActive, EnterPlugin, pluginVars
    <2>2. QED
      BY <1>0, <1>1, <2>1 DEF Trying
  <1>7. CASE \/ DepActive \/ DepEnter \/ DepsDone \/ Configure \/ Activate \/ ActivateSilently
    BY <1>7 DEF DepActive, DepEnter, DepsDone, Configure, Activate, ActivateSilently, AtDependency
  <1>8. QED
    BY <1>0, <1>2, <1>3, <1>4, <1>5, <1>6, <1>7, NewOpTyped
       DEF Next, AdminCommand, Operation, Activation, BootSkip, BootActivate, DisconnectNext,
           BootNext, BootCycles, BootEnd, DisconnectBegin, DisconnectEnd, PluginActivate,
           PluginDeactivate, PluginReload, PluginBlacklist, BlacklistEnd, PluginUnblacklist,
           PluginConfig, ActivateEnd, ConfigEnd, UnblacklistEnd, Undisturbed, Switches, Dispatching,
           Booting, Boots

LEMMA ConfigStep == DepsInv /\ ConfigInv /\ [Next]_vars => ConfigInv'
  <1> SUFFICES ASSUME DepsInv, ConfigInv, [Next]_vars PROVE ConfigInv'
    OBVIOUS
  <1>0. TypeInv /\ AsideInv
    BY DEF DepsInv
  <1>1. CASE Switches
    <2>1. PICK w \in Welcomes : Switch(w)
      BY <1>1 DEF Switches
    <2>2. UNCHANGED <<active, live, config, raced>>
      BY <2>1 DEF Switch, storeVars
    <2>3. ~Alone
      BY <2>1 DEF Switch, Booting, Boots, Alone, ConfigInv, Apart
    <2>4. aside[w].op.kind = "config" => aside[w].op.p \in raced
      BY DEF ConfigInv, Apart
    <2>5. \A v \in Welcomes : aside'[v] = Thread \/ aside'[v] = aside[v]
      BY <1>0, <2>1, SwitchThreads
    <2>6. Stored'
      BY <2>2, <2>3 DEF ConfigInv, Stored, Alone, Configuring, Good
    <2>7. ThreadReady(aside[w]) /\ ThreadReady(Thread)
      BY DEF ConfigInv, Ready, ThreadReady, SetIn, Thread
    <2>8. Ready'
      BY <2>1, <2>2, <2>7 DEF Switch, ThreadReady, Ready, SetIn, Good
    <2>9. Apart' /\ ~Alone'
      <3>1. op' = aside[w].op /\ Thread.op = op
        BY <2>1 DEF Switch, Thread
      <3>2. QED
        BY <2>2, <2>3, <2>4, <2>5, <3>1 DEF ConfigInv, Apart, Alone
    <2>10. \A v \in Welcomes : ThreadReady(aside[v])'
      <3>1. SUFFICES ASSUME NEW v \in Welcomes PROVE ThreadReady(aside[v])'
        OBVIOUS
      <3>2. PICK t : t = aside'[v] /\ ThreadReady(t)
        BY <2>5, <2>7 DEF ConfigInv
      <3>3. QED
        BY <2>2, <3>2 DEF ThreadReady, SetIn, Good
    <2>11. QED
      BY <2>6, <2>8, <2>9, <2>10 DEF ConfigInv
  <1>2. CASE Crash
    <2>1. /\ active' = {} /\ op' = Boot /\ phase' = "idle" /\ aside' = [w \in Welcomes |-> Rest]
          /\ Rest.phase = "idle" /\ Rest.op = NoOp
      BY <1>2 DEF Crash, Starts, Rest
    <2>2. QED
      BY <2>1, NewOpTyped DEF ConfigInv, Stored, Ready, ThreadReady, SetIn, Apart, Alone
  <1>3. CASE Undisturbed
    <2>1. Stays
      BY <1>0, <1>3, OthersStay DEF Undisturbed
    <2>2. Stored' /\ Ready'
      BY <1>0, <1>3, StoredStep, ReadyStep DEF ConfigInv
    <2>3. Apart'
      BY <1>0, <1>3, <2>1, ApartStep DEF ConfigInv
    <2>4. (Alone => Trying /\ Tried)'
      BY <1>0, <1>3, TryingStep, TriedStep
    <2>5. \A w \in Welcomes : ThreadReady(aside[w])'
      BY <1>0, <1>3, <2>1, AsideReady DEF ConfigInv
    <2>6. QED
      BY <2>2, <2>3, <2>4, <2>5 DEF ConfigInv
  <1>4. QED
    BY <1>1, <1>2, <1>3 DEF Undisturbed

\* _activate_plugin and plugin_config: an active plugin runs with the
\* configuration that the store has for it, also after plugin_config has taken
\* a refused configuration back, and whatever another thread boots, unless it
\* was given that configuration during the boot.
THEOREM ActiveHasStoredConfigHolds == Spec => []ActiveHasStoredConfig
  <1>1. Init => ConfigInv
    <2>1. Rest.phase = "idle" /\ Rest.op = NoOp
      BY DEF Rest
    <2>2. QED
      BY <2>1, NewOpTyped DEF Init, ConfigInv, Stored, Ready, ThreadReady, SetIn, Apart, Alone
  <1>2. ConfigInv => ActiveHasStoredConfig
    BY DEF ConfigInv, Stored, Configuring, Good, ActiveHasStoredConfig
  <1>3. QED
    BY <1>1, <1>2, ConfigStep, DepsInvariant, PTL DEF Spec
=============================================================================
