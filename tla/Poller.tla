------------------------------- MODULE Poller -------------------------------
(* The pollers of one plugin (botplugin.py): start_poller, stop_poller, the     *)
(* chain of timers each start sets going, and the clean-up of deactivate.       *)
(*                                                                              *)
(* A timer fires on a thread of its own. The commands of the plugin, on the     *)
(* threads of the pool, and its polled methods go on while the plugin is        *)
(* deactivated and after that, and nothing keeps them from starting or stopping *)
(* a poller then: no method here looks at is_activated.                         *)
EXTENDS Naturals, Sequences, FiniteSets, SequencesExt

CONSTANTS
    Polled,   \* the (method, args, kwargs) that may be polled
    Times,    \* the times argument each is polled with; 0 stands for None, no limit
    MaxChains \* bound: the chains of timers there may be at once

ASSUME PollerAssumption == Times \in [Polled -> Nat] /\ MaxChains \in Nat \ {0}

VARIABLES
    pollers,   \* current_pollers: how many times each entry is in the list
    timers,    \* current_timers, without those that were cancelled
    chain,     \* each chain: where its thread is, what it polls, the times left
    sweep,     \* deactivate's loop: 0, or the index of the next timer to cancel
    cut        \* registered pollers whose last timer the loop has cancelled

pollerVars == <<pollers, timers, chain, sweep, cut>>

Chains == 1..MaxChains
Endless(m) == Times[m] = 0
Where == {"armed", "fired", "checks", "calling"}
NoChain == [at |-> "dead"]
Cancelled == [at |-> "cancelled"]
Ended == {NoChain, Cancelled}
ChainAlive(c) == chain[c] \notin Ended
LiveChains(m) == {c \in Chains : ChainAlive(c) /\ chain[c].of = m}

PollerTypeOK ==
    /\ pollers \in [Polled -> 0..MaxChains]
    /\ timers \in Seq(Chains) /\ IsInjective(timers)
    /\ chain \in [Chains -> Ended \cup [at : Where, of : Polled, left : Nat]]
    /\ sweep \in 0..MaxChains + 1
    /\ cut \subseteq Polled

PollerInit ==
    /\ pollers = [m \in Polled |-> 0]
    /\ timers = <<>>
    /\ chain = [c \in Chains |-> NoChain]
    /\ sweep = 0 /\ cut = {}

\* Mutant: None is taken for no times left.
ProgramNextPollCounted(c, m, left) ==
    IF left = 0
    THEN /\ chain' = [chain EXCEPT ![c] = NoChain]
         /\ UNCHANGED timers
    ELSE /\ chain' = [chain EXCEPT ![c] = [at |-> "armed", of |-> m, left |-> left]]
         /\ timers' = Append(timers, c)

(* program_next_poll: nothing when the times are used up, else another timer.    *)
ProgramNextPoll(c, m, left) ==
    IF ~Endless(m) /\ left = 0
    THEN /\ chain' = [chain EXCEPT ![c] = NoChain]
         /\ UNCHANGED timers
    ELSE /\ chain' = [chain EXCEPT ![c] = [at |-> "armed", of |-> m, left |-> left]]
         /\ timers' = Append(timers, c)

(* start_poller, from activate(), a command or a polled method. A chain the loop *)
(* of deactivate has cancelled is free again when that is over, which bounds the *)
(* pollers that are started meanwhile.                                           *)
StartPoller(m) ==
    /\ pollers[m] < MaxChains
    /\ \E c \in Chains :
        /\ chain[c] = NoChain /\ \A d \in 1..(c - 1) : chain[d] # NoChain
        /\ ProgramNextPoll(c, m, Times[m])
    /\ pollers' = [pollers EXCEPT ![m] = @ + 1]
    /\ cut' = cut \ {m}
    /\ UNCHANGED sweep

(* stop_poller, also from inside the polled method: one entry less, and the      *)
(* timer stays armed. Without an entry list.remove raises.                       *)
StopPoller(m) ==
    /\ pollers[m] > 0
    /\ pollers' = [pollers EXCEPT ![m] = @ - 1]
    /\ UNCHANGED <<timers, chain, sweep, cut>>

(* A timer's interval is over; from now on cancel() changes nothing.             *)
TimerFires(c) ==
    /\ ChainAlive(c) /\ chain[c].at = "armed"
    /\ chain' = [chain EXCEPT ![c].at = "fired"]
    /\ UNCHANGED <<pollers, timers, sweep, cut>>

\* Mutant: a timer that fired stays in current_timers.
PollerStartsKept(c) ==
    /\ ChainAlive(c) /\ chain[c].at = "fired"
    /\ chain' = [chain EXCEPT ![c].at = "checks"]
    /\ UNCHANGED <<pollers, timers, sweep, cut>>

(* poller() takes the timer it runs on out of current_timers ...                 *)
PollerStarts(c) ==
    /\ ChainAlive(c) /\ chain[c].at = "fired"
    /\ chain' = [chain EXCEPT ![c].at = "checks"]
    /\ timers' = RemoveFirst(timers, c)
    /\ UNCHANGED <<pollers, sweep, cut>>

\* Mutant: a timer calls its method whether the poller was stopped or not.
PollerCallsAnyway(c) ==
    /\ ChainAlive(c) /\ chain[c].at = "checks"
    /\ chain' = [chain EXCEPT ![c].at = "calling"]
    /\ UNCHANGED <<pollers, timers, sweep, cut>>

(* ... and the chain ends here when its entry is gone.                           *)
PollerChecks(c) ==
    /\ ChainAlive(c) /\ chain[c].at = "checks"
    /\ IF pollers[chain[c].of] > 0
       THEN chain' = [chain EXCEPT ![c].at = "calling"]
       ELSE chain' = [chain EXCEPT ![c] = NoChain]
    /\ UNCHANGED <<pollers, timers, sweep, cut>>

(* The method returns or raises, which is logged; then the next timer, without   *)
(* another look at current_pollers.                                              *)
PollerReturns(c) ==
    /\ ChainAlive(c) /\ chain[c].at = "calling"
    /\ LET k == chain[c]
       IN ProgramNextPoll(c, k.of, IF Endless(k.of) THEN 0 ELSE k.left - 1)
    /\ UNCHANGED <<pollers, sweep, cut>>

(* deactivate, of an active plugin or after an activation that failed. With no   *)
(* entry left in current_pollers nothing is cleaned up, not even the timers that *)
(* are still armed.                                                              *)
PluginDown ==
    /\ sweep = 0 /\ \E m \in Polled : pollers[m] > 0
    /\ pollers' = [m \in Polled |-> 0]
    /\ sweep' = 1 /\ cut' = {}
    /\ UNCHANGED <<timers, chain>>

(* One turn of the loop over current_timers. The list may grow under it when a   *)
(* poller is started, or shrink when a timer that fired is taken out, and then   *)
(* the next timer is passed over. A cancelled timer stays in the list, where     *)
(* nothing looks at it any more: the model takes it out and stays at its place.  *)
(* To cancel one that has fired changes nothing.                                 *)
CancelNext ==
    /\ sweep > 0 /\ sweep <= Len(timers)
    /\ LET c == timers[sweep]
       IN IF chain[c].at = "armed"
          THEN /\ chain' = [chain EXCEPT ![c] = Cancelled]
               /\ timers' = RemoveAt(timers, sweep)
               /\ cut' = cut \cup {m \in Polled : pollers[m] > 0 /\ LiveChains(m) = {c}}
               /\ UNCHANGED sweep
          ELSE /\ sweep' = sweep + 1
               /\ UNCHANGED <<chain, timers, cut>>
    /\ UNCHANGED pollers

SweepEnds ==
    /\ sweep > Len(timers)
    /\ sweep' = 0
    /\ chain' = [c \in Chains |-> IF chain[c] = Cancelled THEN NoChain ELSE chain[c]]
    /\ UNCHANGED <<pollers, timers, cut>>

PollerNext ==
    \/ \E m \in Polled : StartPoller(m)
    \/ \E m \in Polled : StopPoller(m)
    \/ \E c \in Chains : TimerFires(c)
    \/ \E c \in Chains : PollerStarts(c)
    \/ \E c \in Chains : PollerChecks(c)
    \/ \E c \in Chains : PollerReturns(c)
    \/ PluginDown
    \/ CancelNext
    \/ SweepEnds

(* Timers fire, threads run and a polled method comes back.                      *)
PollerFairness ==
    /\ \A c \in Chains :
         /\ WF_pollerVars(TimerFires(c)) /\ WF_pollerVars(PollerStarts(c))
         /\ WF_pollerVars(PollerChecks(c)) /\ WF_pollerVars(PollerReturns(c))
    /\ WF_pollerVars(CancelNext) /\ WF_pollerVars(SweepEnds)

PollerSpec == PollerInit /\ [][PollerNext]_pollerVars /\ PollerFairness

-----------------------------------------------------------------------------
(* As long as an endless poller is registered it is called again and again:      *)
(* neither the timers that stops left over nor those a deactivation passed over   *)
(* can cost it its own. Only one that is started while a deactivation goes        *)
(* through the timers may be registered with no timer left.                       *)
EndlessPollersKeepPolling ==
    \A m \in {n \in Polled : Endless(n)} :
        (pollers[m] > 0) ~>
            \/ pollers[m] = 0 \/ m \in cut
            \/ \E c \in LiveChains(m) : chain[c].at = "calling"

(* Once an entry is gone, through stop_poller or a deactivation, and as long as   *)
(* nobody starts it again, its chains come to an end.                            *)
StoppedPollersFallSilent ==
    \A m \in Polled : (pollers[m] = 0) ~> (pollers[m] > 0 \/ LiveChains(m) = {})
=============================================================================
