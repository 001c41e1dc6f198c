-------------------------- MODULE Services_proofs ---------------------------
(***************************************************************************)
(* Proofs about the services of the bot: the pollers and the storage of a  *)
(* plugin, streams, the web server and templates. The services share no state,*)
(* so each has an inductive invariant of its own.                          *)
(***************************************************************************)
EXTENDS MCServices, Integers, SeqLemmas

-----------------------------------------------------------------------------
(* Pollers. Only timers that are armed or have just fired are in the list, so *)
(* a chain that goes on does not list its timer twice, and a limited one has  *)
(* times left.                                                                *)

PollChain == [at : Where, of : Polled, left : Nat]

PollerTypes ==
    /\ pollers \in [Polled -> 0..MaxChains]
    /\ timers \in Seq(Chains) /\ Distinct(timers)
    /\ chain \in [Chains -> Ended \cup PollChain]
    /\ sweep \in 0..MaxChains + 1
    /\ cut \subseteq Polled

ListedAreIdle ==
    \A i \in DOMAIN timers : ChainAlive(timers[i]) /\ chain[timers[i]].at \in {"armed", "fired"}
TimesAreLeft ==
    \A c \in Chains : ChainAlive(c) /\ ~Endless(chain[c].of) => chain[c].left # 0

PollerInv == PollerTypes /\ ListedAreIdle /\ TimesAreLeft

LEMMA PollerInvTypeOK == PollerInv => PollerTypeOK
  BY DEF PollerInv, PollerTypes, PollerTypeOK, PollChain, Distinct, IsInjective

LEMMA PollerInitInv == PollerInit => PollerInv
  <1> SUFFICES ASSUME PollerInit PROVE PollerInv
    OBVIOUS
  <1>1. MaxChains \in Nat /\ 0 \in 0..MaxChains /\ 0 \in 0..MaxChains + 1
    BY PollerAssumption
  <1>2. PollerTypes
    <2>1. /\ sweep \in 0..MaxChains + 1 /\ cut \subseteq Polled
          /\ pollers \in [Polled -> 0..MaxChains]
      BY <1>1 DEF PollerInit
    <2>2. timers \in Seq(Chains) /\ Distinct(timers)
      BY DEF PollerInit, Distinct
    <2>3. chain \in [Chains -> Ended \cup PollChain]
      BY DEF PollerInit, Ended
    <2>4. QED
      BY <2>1, <2>2, <2>3 DEF PollerTypes
  <1>3. ListedAreIdle /\ TimesAreLeft
    BY DEF PollerInit, ListedAreIdle, TimesAreLeft, ChainAlive, Ended
  <1>4. QED
    BY <1>2, <1>3 DEF PollerInv

\* The states a chain may be in are told apart by where its thread is.
LEMMA PollChains ==
    /\ NoChain \notin PollChain /\ Cancelled \notin PollChain
    /\ \A a \in Where, m \in Polled, l \in Nat :
         LET k == [at |-> a, of |-> m, left |-> l]
         IN k \in PollChain /\ k.at = a /\ k.of = m /\ k.left = l
  BY DEF PollChain, NoChain, Cancelled

LEMMA AliveChain ==
    ASSUME PollerInv, NEW c \in Chains
    PROVE  /\ ChainAlive(c) <=> chain[c] \in PollChain
           /\ ChainAlive(c) \/ chain[c] \in Ended
  BY PollChains DEF PollerInv, PollerTypes, ChainAlive, Ended

LEMMA ListedTimers ==
    ASSUME PollerInv
    PROVE  /\ timers \in Seq(Chains) /\ Distinct(timers)
           /\ \A i \in DOMAIN timers :
                 timers[i] \in Chains /\ chain[timers[i]].at \in {"armed", "fired"}
           /\ \A c \in Chains : ~ChainAlive(c) \/ chain[c].at \notin {"armed", "fired"} =>
                 ~Contains(timers, c) /\ \A i \in DOMAIN timers : timers[i] # c
  BY ElementOfSeq, LenProperties DEF PollerInv, PollerTypes, ListedAreIdle, Contains

\* One chain goes on to another place, and its timer is not put on the list.
LEMMA ChainGoesOn ==
    ASSUME PollerInv, NEW c \in Chains, NEW k \in Ended \cup PollChain,
           chain' = [chain EXCEPT ![c] = k], cut' = cut, sweep' = sweep,
           timers' \in Seq(Chains), Distinct(timers'), pollers' \in [Polled -> 0..MaxChains],
           k \in PollChain => k.of = chain[c].of /\ k.left = chain[c].left /\ ChainAlive(c),
           \A i \in DOMAIN timers' :
              /\ timers'[i] = c => k \in PollChain /\ k.at = "fired"
              /\ \E j \in DOMAIN timers : timers'[i] = timers[j]
    PROVE  PollerInv'
  <1>1. PollerTypes'
    BY DEF PollerInv, PollerTypes
  <1>2. \A d \in Chains : chain'[d] = IF d = c THEN k ELSE chain[d]
    BY DEF PollerInv, PollerTypes
  <1>3. ListedAreIdle'
    <2> SUFFICES ASSUME NEW i \in DOMAIN timers'
                 PROVE  chain'[timers'[i]] \notin Ended /\ chain'[timers'[i]].at \in {"armed", "fired"}
      BY DEF ListedAreIdle, ChainAlive
    <2>1. PICK j \in DOMAIN timers : timers'[i] = timers[j]
      OBVIOUS
    <2>2. timers[j] \in Chains /\ ChainAlive(timers[j]) /\ chain[timers[j]].at \in {"armed", "fired"}
      BY ListedTimers DEF PollerInv, ListedAreIdle
    <2>3. CASE timers[j] = c
      BY <1>2, <2>1, <2>2, <2>3, PollChains DEF Ended
    <2>4. CASE timers[j] # c
      BY <1>2, <2>1, <2>2, <2>4 DEF ChainAlive
    <2>5. QED
      BY <2>3, <2>4
  <1>4. TimesAreLeft'
    <2>1. ASSUME NEW d \in Chains, chain'[d] \notin Ended, ~Endless(chain'[d].of)
          PROVE  chain'[d].left # 0
      BY <1>2, <2>1 DEF PollerInv, TimesAreLeft, ChainAlive
    <2>2. QED
      BY <2>1 DEF TimesAreLeft, ChainAlive, Endless
  <1>5. QED
    BY <1>1, <1>3, <1>4 DEF PollerInv

\* Arming a chain with times left whose timer is not listed, or ending it,
\* keeps the list in order.
LEMMA ProgramNextPollInv ==
    ASSUME PollerInv, NEW c \in Chains, NEW m \in Polled, NEW left \in Nat,
           \A i \in DOMAIN timers : timers[i] # c, ~Contains(timers, c),
           ProgramNextPoll(c, m, left),
           pollers' \in [Polled -> 0..MaxChains], sweep' = sweep, cut' \subseteq Polled
    PROVE  PollerInv'
  <1> DEFINE armed == [at |-> "armed", of |-> m, left |-> left]
  <1>0. /\ armed \in PollChain /\ armed \notin Ended /\ armed.at = "armed"
        /\ armed.of = m /\ armed.left = left
    BY PollChains DEF Where, Ended
  <1>1. CASE ~Endless(m) /\ left = 0
    <2>1. chain' = [chain EXCEPT ![c] = NoChain] /\ timers' = timers
      BY <1>1 DEF ProgramNextPoll
    <2>2. \A d \in Chains : chain'[d] = IF d = c THEN NoChain ELSE chain[d]
      BY <2>1 DEF PollerInv, PollerTypes
    <2>3. PollerTypes'
      BY <2>1 DEF PollerInv, PollerTypes, Ended
    <2>4. ListedAreIdle'
      BY <2>1, <2>2, ListedTimers DEF PollerInv, ListedAreIdle, ChainAlive
    <2>5. TimesAreLeft'
      BY <2>2 DEF PollerInv, TimesAreLeft, ChainAlive, Ended
    <2>6. QED
      BY <2>3, <2>4, <2>5 DEF PollerInv
  <1>2. CASE Endless(m) \/ left # 0
    <2>1. chain' = [chain EXCEPT ![c] = armed] /\ timers' = Append(timers, c)
      BY <1>2 DEF ProgramNextPoll
    <2> HIDE DEF armed
    <2>2. \A d \in Chains : chain'[d] = IF d = c THEN armed ELSE chain[d]
      BY <2>1 DEF PollerInv, PollerTypes
    <2>3. timers' \in Seq(Chains) /\ Distinct(timers')
      BY <2>1, AppendElements, AppendDistinct, ListedTimers
    <2>4. PollerTypes'
      <3>1. chain' \in [Chains -> Ended \cup PollChain]
        BY <2>1, <1>0 DEF PollerInv, PollerTypes
      <3>2. QED
        BY <2>3, <3>1 DEF PollerInv, PollerTypes
    <2>5. ListedAreIdle'
      <3>1. SUFFICES ASSUME NEW i \in DOMAIN timers'
                     PROVE  chain'[timers'[i]] \notin Ended /\ chain'[timers'[i]].at \in {"armed", "fired"}
        BY DEF ListedAreIdle, ChainAlive
      <3>2. timers'[i] = c \/ \E j \in DOMAIN timers : timers'[i] = timers[j]
        <4>1. /\ DOMAIN timers' = 1..(Len(timers) + 1) /\ Len(timers) \in Nat
              /\ DOMAIN timers = 1..Len(timers)
              /\ \A j \in DOMAIN timers : timers'[j] = timers[j]
              /\ timers'[Len(timers) + 1] = c
          BY <2>1, AppendElements, LenProperties, ListedTimers
        <4>2. i \in DOMAIN timers \/ i = Len(timers) + 1
          BY <4>1
        <4>3. QED
          BY <4>1, <4>2
      <3>3. CASE timers'[i] = c
        BY <3>3, <2>2, <1>0
      <3>4. ASSUME NEW j \in DOMAIN timers, timers'[i] = timers[j], timers'[i] # c
            PROVE  chain'[timers'[i]] \notin Ended /\ chain'[timers'[i]].at \in {"armed", "fired"}
        <4>1. timers[j] \in Chains
          BY ListedTimers
        <4>2. chain'[timers'[i]] = chain[timers[j]]
          BY <4>1, <3>4, <2>2
        <4>3. QED
          BY <4>2 DEF PollerInv, ListedAreIdle, ChainAlive
      <3>5. QED
        BY <3>2, <3>3, <3>4
    <2>6. TimesAreLeft'
      <3>1. ASSUME NEW d \in Chains, chain'[d] \notin Ended, ~Endless(chain'[d].of)
            PROVE  chain'[d].left # 0
        <4>1. CASE d = c
          BY <4>1, <3>1, <2>2, <1>0, <1>2
        <4>2. CASE d # c
          BY <4>2, <3>1, <2>2 DEF PollerInv, TimesAreLeft, ChainAlive
        <4>3. QED
          BY <4>1, <4>2
      <3>2. QED
        BY <3>1 DEF TimesAreLeft, ChainAlive, Endless
    <2>7. QED
      BY <2>4, <2>5, <2>6 DEF PollerInv
  <1>3. QED
    BY <1>1, <1>2

LEMMA StartPollerInv ==
    ASSUME PollerInv, NEW m \in Polled, StartPoller(m)
    PROVE  PollerInv'
  <1>1. PICK c \in Chains : chain[c] = NoChain /\ ProgramNextPoll(c, m, Times[m])
    BY DEF StartPoller
  <1>2. /\ pollers[m] < MaxChains /\ pollers' = [pollers EXCEPT ![m] = @ + 1]
        /\ cut' = cut \ {m} /\ sweep' = sweep
    BY DEF StartPoller
  <1>3. Times[m] \in Nat
    BY PollerAssumption
  <1>4. ~Contains(timers, c) /\ \A i \in DOMAIN timers : timers[i] # c
    <2>1. ~ChainAlive(c)
      BY <1>1 DEF ChainAlive, Ended
    <2>2. QED
      BY <2>1, ListedTimers
  <1>5. pollers' \in [Polled -> 0..MaxChains]
    <2>1. pollers \in [Polled -> 0..MaxChains] /\ MaxChains \in Nat
      BY PollerAssumption DEF PollerInv, PollerTypes
    <2>2. pollers[m] + 1 \in 0..MaxChains
      BY <2>1, <1>2
    <2>3. QED
      BY <2>1, <2>2, <1>2
  <1>6. cut' \subseteq Polled
    BY <1>2 DEF PollerInv, PollerTypes
  <1>7. QED
    BY <1>1, <1>2, <1>3, <1>4, <1>5, <1>6, ProgramNextPollInv

\* A timer fires, its thread takes it off the list and looks at the pollers.
LEMMA ThreadStepsInv ==
    ASSUME PollerInv, NEW c \in Chains, TimerFires(c) \/ PollerStarts(c) \/ PollerChecks(c)
    PROVE  PollerInv'
  <1>1. /\ chain[c] \in PollChain /\ ChainAlive(c) /\ UNCHANGED <<pollers, sweep, cut>>
        /\ pollers \in [Polled -> 0..MaxChains]
    BY AliveChain DEF TimerFires, PollerStarts, PollerChecks, PollerInv, PollerTypes
  <1>2. ASSUME NEW a \in {"fired", "checks", "calling"}
        PROVE  /\ [chain[c] EXCEPT !.at = a] \in PollChain
               /\ [chain[c] EXCEPT !.at = a].of = chain[c].of
               /\ [chain[c] EXCEPT !.at = a].left = chain[c].left
               /\ [chain[c] EXCEPT !.at = a].at = a
    BY <1>1 DEF PollChain, Where
  <1>3. CASE TimerFires(c)
    <2> DEFINE k == [chain[c] EXCEPT !.at = "fired"]
    <2>1. /\ k \in PollChain /\ k.of = chain[c].of /\ k.left = chain[c].left /\ k.at = "fired"
          /\ chain' = [chain EXCEPT ![c] = k] /\ timers' = timers
      BY <1>2, <1>3 DEF TimerFires
    <2> HIDE DEF k
    <2>2. QED
      BY <1>1, <2>1, ListedTimers, ChainGoesOn
  <1>4. CASE PollerStarts(c)
    <2> DEFINE k == [chain[c] EXCEPT !.at = "checks"]
    <2>1. /\ k \in PollChain /\ k.of = chain[c].of /\ k.left = chain[c].left
          /\ chain' = [chain EXCEPT ![c] = k] /\ timers' = RemoveFirst(timers, c)
      BY <1>2, <1>4 DEF PollerStarts
    <2> HIDE DEF k
    <2>2. timers \in Seq(Chains) /\ Distinct(timers)
      BY ListedTimers
    <2>3. /\ timers' \in Seq(Chains) /\ Distinct(timers')
          /\ \A i \in DOMAIN timers' :
                timers'[i] # c /\ \E j \in DOMAIN timers : timers'[i] = timers[j]
      BY <2>1, <2>2, RemoveFirstDistinct
    <2>4. QED
      BY <1>1, <2>1, <2>3, ChainGoesOn
  <1>5. CASE PollerChecks(c)
    <2> DEFINE called == [chain[c] EXCEPT !.at = "calling"]
    <2>1. called \in PollChain /\ called.of = chain[c].of /\ called.left = chain[c].left
      BY <1>2
    <2>2. chain' \in {[chain EXCEPT ![c] = called], [chain EXCEPT ![c] = NoChain]}
      BY <1>5 DEF PollerChecks
    <2> HIDE DEF called
    <2>3. PICK k \in {called, NoChain} : chain' = [chain EXCEPT ![c] = k]
      BY <2>2
    <2>4. k \in Ended \cup PollChain /\ (k \in PollChain => k = called)
      BY <2>1, <2>3, PollChains DEF Ended
    <2>5. timers' = timers /\ \A i \in DOMAIN timers : timers[i] # c
      BY <1>1, <1>5, ListedTimers DEF PollerChecks
    <2>6. QED
      BY <1>1, <2>1, <2>3, <2>4, <2>5, ListedTimers, ChainGoesOn
  <1>6. QED
    BY <1>3, <1>4, <1>5

LEMMA PollerReturnsInv ==
    ASSUME PollerInv, NEW c \in Chains, PollerReturns(c)
    PROVE  PollerInv'
  <1> DEFINE left == IF Endless(chain[c].of) THEN 0 ELSE chain[c].left - 1
  <1>1. /\ ChainAlive(c) /\ chain[c].at = "calling"
        /\ ProgramNextPoll(c, chain[c].of, left)
        /\ UNCHANGED <<pollers, sweep, cut>>
    BY DEF PollerReturns
  <1>2. chain[c].of \in Polled /\ chain[c].left \in Nat
    <2>1. chain[c] \in PollChain
      BY <1>1, AliveChain
    <2>2. QED
      BY <2>1 DEF PollChain
  <1>3. left \in Nat
    <2>1. ~Endless(chain[c].of) => chain[c].left # 0
      BY <1>1 DEF PollerInv, TimesAreLeft
    <2>2. QED
      BY <2>1, <1>2
  <1>4. ~Contains(timers, c) /\ \A i \in DOMAIN timers : timers[i] # c
    BY <1>1, ListedTimers
  <1>5. pollers' \in [Polled -> 0..MaxChains] /\ cut' \subseteq Polled
    BY <1>1 DEF PollerInv, PollerTypes
  <1> HIDE DEF left
  <1>6. QED
    BY <1>1, <1>2, <1>3, <1>4, <1>5, ProgramNextPollInv

LEMMA CancelNextInv ==
    ASSUME PollerInv, CancelNext
    PROVE  PollerInv'
  <1> DEFINE c == timers[sweep]
  <1>1. /\ sweep \in DOMAIN timers /\ sweep \in Nat /\ sweep <= Len(timers)
        /\ timers \in Seq(Chains) /\ Distinct(timers) /\ c \in Chains /\ pollers' = pollers
    <2>1. sweep \in Nat /\ sweep > 0 /\ sweep <= Len(timers) /\ pollers' = pollers
      BY PollerAssumption DEF CancelNext, PollerInv, PollerTypes
    <2>2. timers \in Seq(Chains) /\ Distinct(timers)
      BY ListedTimers
    <2>3. sweep \in DOMAIN timers
      BY <2>1, <2>2, LenProperties
    <2>4. QED
      BY <2>1, <2>2, <2>3, ListedTimers
  <1>2. CASE chain[c].at = "armed"
    <2>1. /\ chain' = [chain EXCEPT ![c] = Cancelled] /\ timers' = RemoveAt(timers, sweep)
          /\ cut' \subseteq Polled /\ sweep' = sweep
      BY <1>2 DEF CancelNext, PollerInv, PollerTypes
    <2> HIDE DEF c
    <2>2. \A d \in Chains : chain'[d] = IF d = c THEN Cancelled ELSE chain[d]
      BY <2>1 DEF PollerInv, PollerTypes
    <2>3. /\ timers' \in Seq(Chains) /\ Distinct(timers')
          /\ \A i \in DOMAIN timers' : \E j \in DOMAIN timers : j # sweep /\ timers'[i] = timers[j]
      <3>1. timers' \in Seq(Chains)
        BY <1>1, <2>1, RemoveAtElements
      <3>2. Distinct(timers')
        BY <1>1, <2>1, RemoveAtDistinct
      <3>3. \A i \in DOMAIN timers' : \E j \in DOMAIN timers : j # sweep /\ timers'[i] = timers[j]
        <4>1. /\ Len(timers') = Len(timers) - 1
              /\ \A i \in DOMAIN timers' :
                   timers'[i] = IF i < sweep THEN timers[i] ELSE timers[i + 1]
          BY <1>1, <2>1, RemoveAtElements
        <4>2. DOMAIN timers' = 1..(Len(timers) - 1) /\ DOMAIN timers = 1..Len(timers)
              /\ Len(timers) \in Nat
          BY <1>1, <3>1, <4>1, LenProperties
        <4>3. QED
          BY <1>1, <4>1, <4>2
      <3>4. QED
        BY <3>1, <3>2, <3>3
    <2>4. PollerTypes'
      BY <1>1, <2>1, <2>3 DEF PollerInv, PollerTypes, Ended
    <2>5. ListedAreIdle'
      <3> SUFFICES ASSUME NEW i \in DOMAIN timers'
                   PROVE  chain'[timers'[i]] \notin Ended /\ chain'[timers'[i]].at \in {"armed", "fired"}
        BY DEF ListedAreIdle, ChainAlive
      <3>1. PICK j \in DOMAIN timers : j # sweep /\ timers'[i] = timers[j]
        BY <2>3
      <3>2. timers[j] # c /\ timers[j] \in Chains
        BY <1>1, <3>1, ListedTimers DEF Distinct, c
      <3>3. QED
        BY <2>2, <3>1, <3>2 DEF PollerInv, ListedAreIdle, ChainAlive
    <2>6. TimesAreLeft'
      BY <2>2 DEF PollerInv, TimesAreLeft, ChainAlive, Ended
    <2>7. QED
      BY <2>4, <2>5, <2>6 DEF PollerInv
  <1>3. CASE chain[c].at # "armed"
    <2>1. sweep' = sweep + 1 /\ UNCHANGED <<chain, timers, cut>>
      BY <1>3 DEF CancelNext
    <2>2. sweep' \in 0..MaxChains + 1
      <3>1. timers \in Seq(1..MaxChains) /\ MaxChains \in Nat
        BY <1>1, PollerAssumption DEF Chains
      <3>2. Len(timers) <= MaxChains /\ Len(timers) \in Nat
        BY <1>1, <3>1, DistinctLength, LenProperties
      <3>3. QED
        BY <1>1, <2>1, <3>1, <3>2
    <2>3. QED
      BY <1>1, <2>1, <2>2 DEF PollerInv, PollerTypes, ListedAreIdle, TimesAreLeft, ChainAlive
  <1>4. QED
    BY <1>2, <1>3

LEMMA SweepEndsInv ==
    ASSUME PollerInv, SweepEnds
    PROVE  PollerInv'
  <1>1. /\ sweep' = 0 /\ UNCHANGED <<pollers, timers, cut>>
        /\ chain' = [c \in Chains |-> IF chain[c] = Cancelled THEN NoChain ELSE chain[c]]
    BY DEF SweepEnds
  <1>2. \A c \in Chains : chain'[c] = chain[c] \/ (~ChainAlive(c) /\ chain'[c] = NoChain)
    BY <1>1 DEF ChainAlive, Ended
  <1>3. PollerTypes'
    BY <1>1, PollerAssumption DEF PollerInv, PollerTypes, Ended
  <1>4. ListedAreIdle'
    BY <1>1, <1>2, ListedTimers DEF PollerInv, ListedAreIdle, ChainAlive
  <1>5. TimesAreLeft'
    BY <1>2 DEF PollerInv, TimesAreLeft, ChainAlive, Ended
  <1>6. QED
    BY <1>3, <1>4, <1>5 DEF PollerInv

LEMMA EntryStepsInv ==
    ASSUME PollerInv, PluginDown \/ (\E m \in Polled : StopPoller(m)) \/ UNCHANGED pollerVars
    PROVE  PollerInv'
  <1>1. UNCHANGED <<timers, chain>> /\ cut' \subseteq Polled
    BY DEF PluginDown, StopPoller, pollerVars, PollerInv, PollerTypes
  <1>2. MaxChains \in Nat \ {0}
    BY PollerAssumption
  <1>3. sweep' \in 0..MaxChains + 1
    <2>1. sweep' = 1 \/ sweep' = sweep
      BY DEF PluginDown, StopPoller, pollerVars
    <2>2. 1 \in 0..MaxChains + 1 /\ sweep \in 0..MaxChains + 1
      BY <1>2 DEF PollerInv, PollerTypes
    <2>3. QED
      BY <2>1, <2>2
  <1>4. pollers' \in [Polled -> 0..MaxChains]
    <2>1. CASE PluginDown
      BY <1>2, <2>1 DEF PluginDown
    <2>2. ASSUME NEW m \in Polled, StopPoller(m)
          PROVE  pollers' \in [Polled -> 0..MaxChains]
      <3>1. pollers \in [Polled -> 0..MaxChains] /\ pollers[m] > 0
            /\ pollers' = [pollers EXCEPT ![m] = @ - 1]
        BY <2>2 DEF StopPoller, PollerInv, PollerTypes
      <3>2. pollers[m] - 1 \in 0..MaxChains
        BY <3>1, <1>2
      <3>3. QED
        BY <3>1, <3>2
    <2>3. CASE UNCHANGED pollerVars
      BY <2>3 DEF pollerVars, PollerInv, PollerTypes
    <2>4. QED
      BY <2>1, <2>2, <2>3
  <1>5. QED
    BY <1>1, <1>3, <1>4 DEF PollerInv, PollerTypes, ListedAreIdle, TimesAreLeft, ChainAlive

\* Every step of the pollers keeps the invariant.
LEMMA PollerStepInv == PollerInv /\ [PollerNext]_pollerVars => PollerInv'
  BY EntryStepsInv, StartPollerInv, ThreadStepsInv, PollerReturnsInv, CancelNextInv,
     SweepEndsInv DEF PollerNext

\* A chain that goes on is listed once, and it has not yet looked at the pollers
\* as long as it is listed.
THEOREM PollerInvariant == PollerSpec => []PollerInv
  BY PollerInitInv, PollerStepInv, PTL DEF PollerSpec

\* The lists of pollers and timers keep their types, whoever starts a poller
\* while a deactivation goes through them: no timer is listed twice, and the
\* loop over the timers never gets beyond the list by more than one.
THEOREM PollerTypeCorrect == PollerSpec => []PollerTypeOK
  BY PollerInvariant, PollerInvTypeOK, PTL

-----------------------------------------------------------------------------
(* The storage of a plugin. A section that is inside has every change that is *)
(* to be kept in the object it works on, so storing that object loses none;   *)
(* and what a shelf holds is only of sections that came to their end.         *)

Pickled == [Keys -> Values \cup {Absent}]
Referred == [Keys -> Sections \cup {Absent}]
Section == [at : {"new", "in", "done", "failed", "lost"}, key : Keys, ref : Sections]
IsDone(s) == section[s].at = "done"
DoneOn(k) == {s \in Sections : IsDone(s) /\ Key(s) = k}

StorageTypes ==
    /\ kind \in {"memory", "shelf"} /\ isOpen \in BOOLEAN /\ legacy \in BOOLEAN
    /\ heap \in [Sections -> Values]
    /\ section \in [Sections -> Section]
    /\ overlapped \subseteq Sections /\ reopens \in 0..MaxReopens
    /\ kind = "memory" => store \in Referred /\ saved \in Referred \cup {NoFile} /\ ~legacy
    /\ kind = "shelf" => store \in Pickled /\ saved \in Pickled \cup {NoFile}

ShelfInv ==
    /\ isOpen => saved = store
    /\ \A s \in Sections : /\ section[s].ref = s
                           /\ section[s].at = "new" => heap[s] = {}
                           /\ In(s) => heap[s] \subseteq DoneOn(Key(s))
    /\ \A k \in Keys : Kept(k) \subseteq DoneOn(k)

(* Two sections that are inside on one key overlapped.                        *)
BothOverlapped ==
    \A s, t \in Sections : s # t /\ In(s) /\ In(t) /\ Key(s) = Key(t) => s \in overlapped

(* A section that is inside, or comes inside next, knows of every one to keep. *)
InsideKnows ==
    \A s, t \in Sections :
        In(t) /\ IsDone(s) /\ Key(s) = Key(t) /\ s \notin overlapped => s \in heap[section[t].ref]
DoneIsKept ==
    \A s \in Sections : IsDone(s) /\ s \notin overlapped => s \in Kept(Key(s))

StorageInv ==
    StorageTypes /\ (kind = "shelf" => ShelfInv) /\ BothOverlapped /\ InsideKnows /\ DoneIsKept

LEMMA ContentsKinds ==
    /\ Pickled \subseteq Contents /\ Referred \subseteq Contents
    /\ Nothing \in Pickled /\ Nothing \in Referred /\ Old \in Pickled
    /\ NoFile \notin Pickled /\ NoFile \notin Referred
    /\ Absent \notin Values /\ Absent \notin Sections
  BY StorageAssumption DEF Pickled, Referred, Contents, Nothing, Old, Values

LEMMA StorageInvTypeOK == StorageInv => StorageTypeOK
  BY ContentsKinds DEF StorageInv, StorageTypes, StorageTypeOK, Section

\* What a key holds: what the object in memory holds, or the pickled value.
LEMMA KeptOpen ==
    ASSUME isOpen, NEW k \in Keys
    PROVE  Kept(k) = IF store[k] = Absent THEN {} ELSE IF kind = "memory" THEN heap[store[k]] ELSE store[k]
  BY DEF Kept

LEMMA StorageInitInv == StorageInit => StorageInv
  <1> SUFFICES ASSUME StorageInit PROVE StorageInv
    OBVIOUS
  <1>1. PICK key \in [Sections -> Keys] :
          section = [s \in Sections |-> [at |-> "new", key |-> key[s], ref |-> s]]
    BY DEF StorageInit
  <1>2. /\ section \in [Sections -> Section]
        /\ \A s \in Sections : section[s].at = "new" /\ section[s].ref = s
    BY <1>1 DEF Section
  <1>3. /\ kind = "memory" => store \in Referred /\ saved = NoFile /\ ~legacy
        /\ kind = "shelf" => store \in Pickled /\ saved \in {NoFile, Old}
    BY ContentsKinds DEF StorageInit
  <1>4. StorageTypes
    <2>1. reopens \in 0..MaxReopens /\ heap \in [Sections -> Values] /\ legacy \in BOOLEAN
      <3>1. reopens \in 0..MaxReopens
        BY StorageAssumption DEF StorageInit
      <3>2. heap \in [Sections -> Values]
        BY DEF StorageInit, Values
      <3>3. legacy \in BOOLEAN
        BY DEF StorageInit
      <3>4. QED
        BY <3>1, <3>2, <3>3
    <2>2. QED
      BY <1>2, <1>3, <2>1, ContentsKinds DEF StorageInit, StorageTypes
  <1>5. ASSUME NEW k \in Keys, kind = "shelf" PROVE Kept(k) = {}
    BY <1>3, <1>5 DEF StorageInit, Kept, Nothing, Old
  <1>6. kind = "shelf" => ShelfInv
    BY <1>2, <1>5 DEF ShelfInv, StorageInit, In
  <1>7. BothOverlapped /\ InsideKnows /\ DoneIsKept
    <2>1. \A s \in Sections : ~In(s) /\ ~IsDone(s)
      BY <1>2 DEF In, IsDone
    <2>2. QED
      BY <2>1 DEF BothOverlapped, InsideKnows, DoneIsKept
  <1>8. QED
    BY <1>4, <1>6, <1>7 DEF StorageInv

-----------------------------------------------------------------------------
(* The store is opened and closed: what it holds stays the same.              *)

LEMMA OpenStorageInv == StorageInv /\ OpenStorage => StorageInv'
  <1> SUFFICES ASSUME StorageInv, OpenStorage PROVE StorageInv'
    OBVIOUS
  <1>1. /\ ~isOpen /\ isOpen' = TRUE
        /\ store' = IF saved # NoFile THEN saved ELSE IF legacy THEN Old ELSE Nothing
        /\ saved' = IF kind = "shelf" THEN store' ELSE saved
        /\ legacy' = (legacy /\ saved # NoFile)
        /\ UNCHANGED <<kind, heap, section, overlapped, reopens>>
    BY DEF OpenStorage
  <1>2. StorageTypes
    BY DEF StorageInv
  <1>3. StorageTypes'
    BY <1>1, <1>2, ContentsKinds DEF StorageTypes
  <1>4. ASSUME NEW k \in Keys PROVE Kept(k)' = Kept(k)
    <2>1. CASE saved # NoFile
      BY <1>1, <2>1 DEF Kept
    <2>2. CASE saved = NoFile /\ ~legacy
      BY <1>1, <2>2 DEF Kept
    <2>3. CASE saved = NoFile /\ legacy
      <3>1. kind # "memory" /\ store' = Old
        BY <1>1, <1>2, <2>3 DEF StorageTypes
      <3>2. Kept(k) = {}
        BY <1>1, <2>3 DEF Kept, Nothing
      <3>3. Kept(k)' = {}
        BY <1>1, <3>1 DEF Kept, Old
      <3>4. QED
        BY <3>2, <3>3
    <2>4. QED
      BY <1>2, <2>1, <2>2, <2>3 DEF StorageTypes
  <1>5. kind' = "shelf" => ShelfInv'
    BY <1>1, <1>4 DEF StorageInv, ShelfInv, In, Key, DoneOn, IsDone
  <1>6. BothOverlapped' /\ InsideKnows'
    BY <1>1 DEF StorageInv, BothOverlapped, InsideKnows, In, Key, IsDone
  <1>7. DoneIsKept'
    <2>1. \A s \in Sections : Key(s) \in Keys
      BY <1>2 DEF StorageTypes, Section, Key
    <2>2. QED
      BY <1>1, <1>4, <2>1 DEF StorageInv, DoneIsKept, Key, IsDone
  <1>8. QED
    BY <1>3, <1>5, <1>6, <1>7 DEF StorageInv

LEMMA CloseStorageInv == StorageInv /\ CloseStorage => StorageInv'
  <1> SUFFICES ASSUME StorageInv, CloseStorage PROVE StorageInv'
    OBVIOUS
  <1>1. /\ isOpen /\ isOpen' = FALSE /\ saved' = store /\ store' = Nothing
        /\ reopens < MaxReopens /\ reopens' = reopens + 1
        /\ UNCHANGED <<kind, heap, legacy, section, overlapped>>
    BY DEF CloseStorage
  <1>2. StorageTypes
    BY DEF StorageInv
  <1>3. StorageTypes'
    <2>1. reopens' \in 0..MaxReopens
      BY <1>1, <1>2, StorageAssumption DEF StorageTypes
    <2>2. QED
      BY <1>1, <1>2, <2>1, ContentsKinds DEF StorageTypes
  <1>4. saved' # NoFile
    BY <1>1, <1>2, ContentsKinds DEF StorageTypes
  <1>5. ASSUME NEW k \in Keys PROVE Kept(k)' = Kept(k)
    BY <1>1, <1>4 DEF Kept
  <1>6. kind' = "shelf" => ShelfInv'
    BY <1>1, <1>5 DEF StorageInv, ShelfInv, In, Key, DoneOn, IsDone
  <1>7. BothOverlapped' /\ InsideKnows'
    BY <1>1 DEF StorageInv, BothOverlapped, InsideKnows, In, Key, IsDone
  <1>8. DoneIsKept'
    <2>1. \A s \in Sections : Key(s) \in Keys
      BY <1>2 DEF StorageTypes, Section, Key
    <2>2. QED
      BY <1>1, <1>5, <2>1 DEF StorageInv, DoneIsKept, Key, IsDone
  <1>9. QED
    BY <1>3, <1>6, <1>7, <1>8 DEF StorageInv

LEMMA ProcessDiesInv == StorageInv /\ ProcessDies => StorageInv'
  <1> SUFFICES ASSUME StorageInv, ProcessDies PROVE StorageInv'
    OBVIOUS
  <1>1. /\ isOpen' = FALSE /\ store' = Nothing
        /\ saved' = IF kind = "shelf" THEN saved ELSE NoFile
        /\ reopens < MaxReopens /\ reopens' = reopens + 1
        /\ section' = [s \in Sections |-> [section[s] EXCEPT !.at =
                       IF @ = "in" \/ (@ = "done" /\ kind = "memory") THEN "lost" ELSE @]]
        /\ UNCHANGED <<kind, heap, legacy, overlapped>>
    BY DEF ProcessDies
  <1>2. StorageTypes
    BY DEF StorageInv
  <1>3. /\ section' \in [Sections -> Section]
        /\ \A s \in Sections :
             /\ section'[s].key = section[s].key /\ section'[s].ref = section[s].ref
             /\ section'[s].at = IF In(s) \/ (IsDone(s) /\ kind = "memory") THEN "lost" ELSE section[s].at
    <2>1. ASSUME NEW s \in Sections
          PROVE  /\ section'[s] \in Section
                 /\ section'[s].key = section[s].key /\ section'[s].ref = section[s].ref
                 /\ section'[s].at = IF In(s) \/ (IsDone(s) /\ kind = "memory") THEN "lost" ELSE section[s].at
      <3>1. PICK at : at = IF section[s].at = "in" \/ (section[s].at = "done" /\ kind = "memory")
                           THEN "lost" ELSE section[s].at
        OBVIOUS
      <3>2. section[s] \in Section
        BY <1>2 DEF StorageTypes
      <3>3. section'[s] = [section[s] EXCEPT !.at = at]
        BY <1>1, <3>1
      <3>4. section'[s] = [at |-> at, key |-> section[s].key, ref |-> section[s].ref]
        BY <3>2, <3>3 DEF Section
      <3>5. at \in {"new", "in", "done", "failed", "lost"}
        BY <3>1, <3>2 DEF Section
      <3>6. QED
        BY <3>1, <3>2, <3>4, <3>5 DEF Section, In, IsDone
    <2>2. QED
      BY <1>1, <2>1
  <1>4. StorageTypes'
    <2>1. reopens' \in 0..MaxReopens
      BY <1>1, <1>2, StorageAssumption DEF StorageTypes
    <2>2. QED
      BY <1>1, <1>2, <1>3, <2>1, ContentsKinds DEF StorageTypes
  <1>5. \A s \in Sections : ~In(s)'
    BY <1>3 DEF In
  <1>6. BothOverlapped' /\ InsideKnows'
    BY <1>5 DEF BothOverlapped, InsideKnows
  <1>7. CASE kind = "memory"
    <2>1. \A s \in Sections : ~IsDone(s)'
      BY <1>3, <1>7 DEF IsDone
    <2>2. DoneIsKept'
      BY <2>1 DEF DoneIsKept
    <2>3. QED
      BY <1>1, <1>4, <1>6, <1>7, <2>2 DEF StorageInv
  <1>8. CASE kind = "shelf"
    <2>1. \A s \in Sections : (IsDone(s)' <=> IsDone(s)) /\ Key(s)' = Key(s) /\ Key(s) \in Keys
      BY <1>2, <1>3, <1>8 DEF IsDone, In, Key, StorageTypes, Section
    <2>2. ASSUME NEW k \in Keys PROVE Kept(k)' = Kept(k)
      <3>1. ShelfInv /\ saved' = saved /\ (isOpen => saved = store)
        BY <1>1, <1>8 DEF StorageInv, ShelfInv
      <3>2. isOpen => saved # NoFile
        BY <1>2, <1>8, <3>1, ContentsKinds DEF StorageTypes
      <3>3. QED
        BY <1>1, <1>8, <3>1, <3>2 DEF Kept
    <2>3. \A k \in Keys : DoneOn(k)' = DoneOn(k)
      BY <2>1 DEF DoneOn
    <2>4. ShelfInv'
      <3>1. \A s \in Sections : section'[s].ref = s /\ (section'[s].at = "new" => heap'[s] = {})
        BY <1>1, <1>3, <1>8 DEF StorageInv, ShelfInv
      <3>2. \A k \in Keys : Kept(k)' \subseteq DoneOn(k)'
        BY <1>8, <2>2, <2>3 DEF StorageInv, ShelfInv
      <3>3. QED
        BY <1>1, <1>5, <3>1, <3>2 DEF ShelfInv
    <2>5. DoneIsKept'
      BY <1>1, <2>1, <2>2 DEF StorageInv, DoneIsKept
    <2>6. QED
      BY <1>1, <1>4, <1>6, <2>4, <2>5 DEF StorageInv
  <1>9. QED
    BY <1>2, <1>7, <1>8 DEF StorageTypes

-----------------------------------------------------------------------------
(* A section comes inside, and comes to its end.                              *)

LEMMA EnterInv == ASSUME NEW s \in Sections PROVE StorageInv /\ Enter(s) => StorageInv'
  <1> SUFFICES ASSUME StorageInv, Enter(s) PROVE StorageInv'
    OBVIOUS
  <1>0. PICK k \in Keys : k = Key(s)
    BY DEF StorageInv, StorageTypes, Section, Key
  <1>1. PICK ref, rivals :
          /\ section[s].at = "new" /\ isOpen
          /\ rivals = {t \in Sections \ {s} : In(t) /\ Key(t) = k}
          /\ ref = IF kind = "memory" /\ store[k] # Absent THEN store[k] ELSE s
          /\ section' = [section EXCEPT ![s].at = "in", ![s].ref = ref]
          /\ heap' = IF kind = "shelf" /\ store[k] # Absent THEN [heap EXCEPT ![s] = store[k]] ELSE heap
          /\ overlapped' = IF rivals = {} THEN overlapped ELSE overlapped \cup rivals \cup {s}
          /\ UNCHANGED <<kind, isOpen, store, saved, legacy, reopens>>
    BY <1>0 DEF Enter
  <1>2. StorageTypes
    BY DEF StorageInv
  <1>3. ref \in Sections
    BY <1>1, <1>2 DEF StorageTypes, Referred
  <1>4. section' \in [Sections -> Section]
    <2>1. [section[s] EXCEPT !.at = "in"] \in Section
      BY <1>2 DEF StorageTypes, Section
    <2>2. PICK mid \in [Sections -> Section] : mid = [section EXCEPT ![s].at = "in"]
      BY <1>2, <2>1 DEF StorageTypes
    <2>3. section' = [mid EXCEPT ![s].ref = ref]
      BY <1>1, <2>2
    <2>4. [mid[s] EXCEPT !.ref = ref] \in Section
      BY <1>3 DEF Section
    <2>5. QED
      BY <2>3, <2>4
  <1>5. /\ section'[s].at = "in" /\ section'[s].ref = ref /\ section'[s].key = section[s].key
        /\ \A t \in Sections : t # s => section'[t] = section[t]
    BY <1>1, <1>2 DEF StorageTypes, Section
  <1>6. \A t \in Sections : Key(t)' = Key(t) /\ Key(t) \in Keys
    BY <1>2, <1>5 DEF Key, StorageTypes, Section
  <1>7. \A t \in Sections : IsDone(t)' <=> IsDone(t)
    BY <1>1, <1>5 DEF IsDone
  <1>8. \A t \in Sections : In(t)' <=> (In(t) \/ t = s)
    BY <1>5 DEF In
  <1>9. heap' \in [Sections -> Values] /\ \A t \in Sections : t # s => heap'[t] = heap[t]
    BY <1>1, <1>2 DEF StorageTypes, Pickled
  <1>10. overlapped \subseteq overlapped' /\ overlapped' \subseteq Sections
    BY <1>1, <1>2 DEF StorageTypes
  <1>11. StorageTypes'
    BY <1>1, <1>2, <1>4, <1>9, <1>10 DEF StorageTypes
  <1>12. \A q \in Keys : Kept(q)' = Kept(q)
    <2>1. kind = "memory" => heap' = heap
      BY <1>1
    <2>2. QED
      BY <1>1, <2>1 DEF Kept
  <1>13. Kept(k) = IF store[k] = Absent THEN {} ELSE IF kind = "memory" THEN heap[store[k]] ELSE store[k]
    BY <1>1, KeptOpen
  <1>14. BothOverlapped'
    <2>1. ASSUME NEW t \in Sections, NEW u \in Sections, t # u, In(t)', In(u)', Key(t)' = Key(u)'
          PROVE  t \in overlapped'
      <3>1. CASE t # s /\ u # s
        BY <1>6, <1>8, <1>10, <2>1, <3>1 DEF StorageInv, BothOverlapped
      <3>2. CASE t = s
        <4>1. u \in rivals
          BY <1>0, <1>1, <1>6, <1>8, <2>1, <3>2
        <4>2. QED
          BY <1>1, <3>2, <4>1
      <3>3. CASE u = s
        <4>1. t \in rivals
          BY <1>0, <1>1, <1>6, <1>8, <2>1, <3>3
        <4>2. QED
          BY <1>1, <4>1
      <3>4. QED
        BY <3>1, <3>2, <3>3
    <2>2. QED
      BY <2>1 DEF BothOverlapped
  <1>15. DoneIsKept'
    BY <1>6, <1>7, <1>10, <1>12 DEF StorageInv, DoneIsKept
  <1>16. InsideKnows'
    <2>1. ASSUME NEW u \in Sections, NEW t \in Sections, In(t)', IsDone(u)', Key(u)' = Key(t)', u \notin overlapped'
          PROVE  u \in heap'[section'[t].ref]
      <3>1. IsDone(u) /\ Key(u) = Key(t) /\ u \notin overlapped
        BY <1>6, <1>7, <1>10, <2>1
      <3>2. CASE t # s
        <4>1. u \in heap[section[t].ref] /\ section'[t].ref = section[t].ref
          BY <1>5, <1>8, <2>1, <3>1, <3>2 DEF StorageInv, InsideKnows
        <4>2. kind = "shelf" => section[t].ref # s
          BY <3>2 DEF StorageInv, ShelfInv
        <4>3. section[t].ref \in Sections
          BY <1>2 DEF StorageTypes, Section
        <4>4. heap'[section[t].ref] = heap[section[t].ref]
          BY <1>1, <1>9, <4>2, <4>3
        <4>5. QED
          BY <4>1, <4>4
      <3>3. CASE t = s
        <4>1. u \in Kept(k)
          BY <1>0, <3>1, <3>3 DEF StorageInv, DoneIsKept
        <4>2. store[k] # Absent
          BY <1>13, <4>1
        <4>3. CASE kind = "memory"
          BY <1>1, <1>5, <1>13, <3>3, <4>1, <4>2, <4>3
        <4>4. CASE kind = "shelf"
          <5>1. ref = s /\ heap'[s] = store[k]
            BY <1>1, <1>2, <4>2, <4>4 DEF StorageTypes
          <5>2. QED
            BY <1>5, <1>13, <3>3, <4>1, <4>2, <4>4, <5>1
        <4>5. QED
          BY <1>2, <4>3, <4>4 DEF StorageTypes
      <3>4. QED
        BY <3>2, <3>3
    <2>2. QED
      BY <2>1 DEF InsideKnows
  <1>17. ASSUME kind = "shelf" PROVE ShelfInv'
    <2>1. ShelfInv
      BY <1>17 DEF StorageInv
    <2>2. ref = s /\ \A t \in Sections : section'[t].ref = t
      BY <1>1, <1>5, <1>17, <2>1 DEF ShelfInv
    <2>3. \A q \in Keys : DoneOn(q)' = DoneOn(q)
      BY <1>6, <1>7 DEF DoneOn
    <2>4. heap'[s] \subseteq DoneOn(k)
      <3>1. CASE store[k] = Absent
        BY <1>1, <2>1, <3>1 DEF ShelfInv
      <3>2. CASE store[k] # Absent
        <4>1. heap'[s] = Kept(k)
          BY <1>1, <1>2, <1>13, <1>17, <3>2 DEF StorageTypes
        <4>2. QED
          BY <2>1, <4>1 DEF ShelfInv
      <3>3. QED
        BY <3>1, <3>2
    <2>5. ASSUME NEW t \in Sections
          PROVE  /\ section'[t].at = "new" => heap'[t] = {}
                 /\ In(t)' => heap'[t] \subseteq DoneOn(Key(t))'
      <3>1. CASE t = s
        BY <1>0, <1>5, <1>6, <2>3, <2>4, <3>1
      <3>2. CASE t # s
        <4>1. DoneOn(Key(t))' = DoneOn(Key(t))
          BY <1>6, <1>7 DEF DoneOn
        <4>2. QED
          BY <1>5, <1>8, <1>9, <2>1, <3>2, <4>1 DEF ShelfInv
      <3>3. QED
        BY <3>1, <3>2
    <2>6. \A q \in Keys : Kept(q)' \subseteq DoneOn(q)'
      BY <1>12, <2>1, <2>3 DEF ShelfInv
    <2>7. isOpen' => saved' = store'
      BY <1>1, <2>1 DEF ShelfInv
    <2>8. QED
      BY <2>2, <2>5, <2>6, <2>7 DEF ShelfInv
  <1>18. QED
    BY <1>1, <1>11, <1>14, <1>15, <1>16, <1>17 DEF StorageInv

\* A section comes to its end: its change is in the object, which is stored, or
\* the section fails.
LEMMA EndInv ==
    ASSUME StorageInv, NEW s \in Sections, In(s), NEW ref \in Sections, ref = section[s].ref,
           NEW at \in {"done", "failed"},
           section' = [section EXCEPT ![s].at = at],
           heap' = [heap EXCEPT ![ref] = @ \cup {s}],
           UNCHANGED <<kind, isOpen, legacy, overlapped, reopens>>,
           \/ /\ at = "done" /\ isOpen
              /\ store' = [store EXCEPT ![Key(s)] = IF kind = "memory" THEN ref ELSE heap'[ref]]
              /\ saved' = IF kind = "shelf" THEN store' ELSE saved
           \/ at = "failed" /\ UNCHANGED <<store, saved>>
    PROVE  StorageInv'
  <1>1. StorageTypes
    BY DEF StorageInv
  <1>2. PICK k \in Keys : k = Key(s)
    BY <1>1 DEF StorageTypes, Section, Key
  <1>3. section' \in [Sections -> Section]
    <2>1. [section[s] EXCEPT !.at = at] \in Section
      BY <1>1 DEF StorageTypes, Section
    <2>2. QED
      BY <1>1, <2>1 DEF StorageTypes
  <1>4. /\ section'[s].at = at /\ section'[s].ref = ref /\ section'[s].key = section[s].key
        /\ \A t \in Sections : t # s => section'[t] = section[t]
    BY <1>1 DEF StorageTypes, Section
  <1>5. \A t \in Sections : /\ Key(t)' = Key(t) /\ Key(t) \in Keys
                            /\ section'[t].ref = section[t].ref /\ section[t].ref \in Sections
    BY <1>1, <1>4 DEF Key, StorageTypes, Section
  <1>6. \A t \in Sections : In(t)' <=> (In(t) /\ t # s)
    BY <1>4 DEF In
  <1>7. \A t \in Sections : IsDone(t)' <=> (IsDone(t) \/ (t = s /\ at = "done"))
    BY <1>4 DEF IsDone, In
  <1>8. /\ heap' \in [Sections -> Values] /\ heap'[ref] = heap[ref] \cup {s}
        /\ \A t \in Sections : t # ref => heap'[t] = heap[t]
    BY <1>1 DEF StorageTypes, Values
  <1>9. \A t \in Sections : heap[t] \subseteq heap'[t]
    BY <1>8
  <1>10. StorageTypes'
    <2>1. kind = "memory" => store' \in Referred /\ saved' \in Referred \cup {NoFile} /\ ~legacy
      BY <1>1, ContentsKinds DEF StorageTypes, Referred
    <2>2. kind = "shelf" => store' \in Pickled /\ saved' \in Pickled \cup {NoFile}
      <3>1. heap'[ref] \in Values
        BY <1>8
      <3>2. kind = "shelf" => store' \in Pickled
        BY <1>1, <3>1 DEF StorageTypes, Pickled
      <3>3. QED
        BY <1>1, <3>2 DEF StorageTypes
    <2>3. QED
      BY <1>1, <1>3, <1>8, <2>1, <2>2 DEF StorageTypes
  <1>11. at = "done" => Kept(k)' = heap[ref] \cup {s}
    <2>1. SUFFICES ASSUME at = "done" PROVE Kept(k)' = heap[ref] \cup {s}
      OBVIOUS
    <2>2. isOpen' /\ store'[k] = IF kind = "memory" THEN ref ELSE heap'[ref]
      BY <1>1, <1>2, <2>1 DEF StorageTypes, Pickled, Referred
    <2>3. store'[k] # Absent
      BY <1>8, <2>2, ContentsKinds
    <2>4. QED
      BY <1>8, <2>2, <2>3 DEF Kept
  <1>12. ASSUME NEW q \in Keys, q # k \/ at = "failed"
         PROVE  Kept(q) \subseteq Kept(q)' /\ (kind = "shelf" => Kept(q)' = Kept(q))
    <2>1. CASE at = "failed"
      <3>1. UNCHANGED <<store, saved, isOpen, kind>>
        BY <2>1
      <3>2. kind = "memory" => store[q] \in Sections \cup {Absent}
        BY <1>1 DEF StorageTypes, Referred
      <3>3. kind = "memory" /\ saved # NoFile => saved[q] \in Sections \cup {Absent}
        BY <1>1 DEF StorageTypes, Referred
      <3>4. QED
        BY <1>9, <3>1, <3>2, <3>3 DEF Kept, Nothing
    <2>2. CASE at = "done"
      <3>1. isOpen /\ isOpen' /\ kind' = kind /\ store'[q] = store[q]
        BY <1>1, <1>2, <1>12, <2>2 DEF StorageTypes, Pickled, Referred
      <3>2. kind = "memory" => store[q] \in Sections \cup {Absent}
        BY <1>1 DEF StorageTypes, Referred
      <3>3. QED
        BY <1>9, <3>1, <3>2 DEF Kept
    <2>3. QED
      BY <2>1, <2>2
  <1>13. BothOverlapped'
    BY <1>5, <1>6 DEF StorageInv, BothOverlapped
  <1>14. InsideKnows'
    <2>1. ASSUME NEW u \in Sections, NEW t \in Sections, In(t)', IsDone(u)', Key(u)' = Key(t)',
                 u \notin overlapped
          PROVE  u \in heap'[section'[t].ref]
      <3>1. In(t) /\ t # s /\ Key(u) = Key(t)
        BY <1>5, <1>6, <2>1
      <3>2. u # s
        BY <2>1, <3>1 DEF StorageInv, BothOverlapped
      <3>3. u \in heap[section[t].ref]
        BY <1>7, <2>1, <3>1, <3>2 DEF StorageInv, InsideKnows
      <3>4. QED
        BY <1>5, <1>9, <3>3
    <2>2. QED
      BY <2>1 DEF InsideKnows
  <1>15. DoneIsKept'
    <2>1. ASSUME NEW u \in Sections, IsDone(u)', u \notin overlapped
          PROVE  u \in Kept(Key(u))'
      <3>1. CASE u = s
        <4>1. at = "done"
          BY <1>7, <2>1, <3>1 DEF In, IsDone
        <4>2. Key(u)' = k
          BY <1>2, <1>5, <3>1
        <4>3. QED
          BY <1>11, <3>1, <4>1, <4>2 DEF Kept
      <3>2. CASE u # s
        <4>1. IsDone(u) /\ u \in Kept(Key(u)) /\ Key(u) \in Keys /\ Key(u)' = Key(u)
          BY <1>5, <1>7, <2>1, <3>2 DEF StorageInv, DoneIsKept
        <4>2. CASE Key(u) # k \/ at = "failed"
          BY <1>12, <4>1, <4>2 DEF Kept
        <4>3. CASE Key(u) = k /\ at = "done"
          <5>1. u \in heap[ref]
            BY <1>2, <2>1, <4>1, <4>3 DEF StorageInv, InsideKnows
          <5>2. QED
            BY <1>11, <4>1, <4>3, <5>1 DEF Kept
        <4>4. QED
          BY <4>2, <4>3
      <3>3. QED
        BY <3>1, <3>2
    <2>2. QED
      BY <2>1 DEF DoneIsKept
  <1>16. ASSUME kind = "shelf" PROVE ShelfInv'
    <2>1. ShelfInv /\ ref = s
      BY <1>16 DEF StorageInv, ShelfInv
    <2>2. \A q \in Keys : DoneOn(q) \subseteq DoneOn(q)'
      BY <1>5, <1>7 DEF DoneOn
    <2>3. at = "done" => s \in DoneOn(k)'
      BY <1>2, <1>5, <1>7 DEF DoneOn
    <2>4. ASSUME NEW t \in Sections
          PROVE  /\ section'[t].ref = t
                 /\ section'[t].at = "new" => heap'[t] = {}
                 /\ In(t)' => heap'[t] \subseteq DoneOn(Key(t))'
      <3>1. CASE t = s
        BY <1>4, <1>6, <2>1, <3>1
      <3>2. CASE t # s
        <4>1. section'[t] = section[t] /\ heap'[t] = heap[t] /\ (In(t)' <=> In(t)) /\ Key(t) \in Keys
          BY <1>4, <1>5, <1>6, <1>8, <2>1, <3>2
        <4>2. DoneOn(Key(t)) \subseteq DoneOn(Key(t))'
          BY <1>5, <1>7 DEF DoneOn
        <4>3. QED
          BY <2>1, <4>1, <4>2 DEF ShelfInv
      <3>3. QED
        BY <3>1, <3>2
    <2>5. ASSUME NEW q \in Keys PROVE Kept(q)' \subseteq DoneOn(q)'
      <3>1. CASE q # k \/ at = "failed"
        BY <1>12, <1>16, <2>1, <2>2, <3>1 DEF ShelfInv
      <3>2. CASE q = k /\ at = "done"
        <4>1. Kept(q)' = heap[s] \cup {s}
          BY <1>11, <2>1, <3>2
        <4>2. heap[s] \subseteq DoneOn(k)
          BY <1>2, <2>1 DEF ShelfInv
        <4>3. QED
          BY <2>2, <2>3, <3>2, <4>1, <4>2
      <3>3. QED
        BY <3>1, <3>2
    <2>6. isOpen' => saved' = store'
      BY <1>16, <2>1 DEF ShelfInv
    <2>7. QED
      BY <2>4, <2>5, <2>6 DEF ShelfInv
  <1>17. QED
    BY <1>10, <1>13, <1>14, <1>15, <1>16 DEF StorageInv

LEMMA LeaveInv == ASSUME NEW s \in Sections PROVE StorageInv /\ Leave(s) => StorageInv'
  <1> SUFFICES ASSUME StorageInv, Leave(s) PROVE StorageInv'
    OBVIOUS
  <1>1. PICK ref \in Sections : ref = section[s].ref
    BY DEF StorageInv, StorageTypes, Section
  <1>2. PICK at \in {"done", "failed"} : at = IF isOpen THEN "done" ELSE "failed"
    OBVIOUS
  <1>3. /\ In(s)
        /\ heap' = [heap EXCEPT ![ref] = @ \cup {s}]
        /\ section' = [section EXCEPT ![s].at = at]
        /\ store' = IF isOpen
                    THEN [store EXCEPT ![Key(s)] = IF kind = "memory" THEN ref ELSE heap'[ref]]
                    ELSE store
        /\ saved' = IF kind = "shelf" /\ isOpen THEN store' ELSE saved
        /\ UNCHANGED <<kind, isOpen, legacy, overlapped, reopens>>
    BY <1>1, <1>2 DEF Leave
  <1>4. \/ /\ at = "done" /\ isOpen
           /\ store' = [store EXCEPT ![Key(s)] = IF kind = "memory" THEN ref ELSE heap'[ref]]
           /\ saved' = IF kind = "shelf" THEN store' ELSE saved
        \/ at = "failed" /\ UNCHANGED <<store, saved>>
    BY <1>2, <1>3
  <1>5. QED
    BY <1>1, <1>2, <1>3, <1>4, EndInv

LEMMA RaiseInv == ASSUME NEW s \in Sections PROVE StorageInv /\ Raise(s) => StorageInv'
  <1> SUFFICES ASSUME StorageInv, Raise(s) PROVE StorageInv'
    OBVIOUS
  <1>1. PICK ref \in Sections : ref = section[s].ref
    BY DEF StorageInv, StorageTypes, Section
  <1>2. PICK at \in {"done", "failed"} : at = "failed"
    OBVIOUS
  <1>3. /\ In(s)
        /\ heap' = [heap EXCEPT ![ref] = @ \cup {s}]
        /\ section' = [section EXCEPT ![s].at = at]
        /\ UNCHANGED <<kind, isOpen, store, saved, legacy, overlapped, reopens>>
    BY <1>1, <1>2 DEF Raise
  <1>4. QED
    BY <1>1, <1>2, <1>3, EndInv

LEMMA StorageStutterInv == StorageInv /\ UNCHANGED storageVars => StorageInv'
  BY DEF storageVars, StorageInv, StorageTypes, ShelfInv, BothOverlapped, InsideKnows,
         DoneIsKept, Kept, DoneOn, IsDone, In, Key

THEOREM StorageInvariant == StorageSpec => []StorageInv
  <1>1. StorageInv /\ [StorageNext]_storageVars => StorageInv'
    BY OpenStorageInv, CloseStorageInv, EnterInv, LeaveInv, RaiseInv, ProcessDiesInv,
       StorageStutterInv DEF StorageNext
  <1>2. QED
    BY StorageInitInv, <1>1, PTL DEF StorageSpec

(* The state of the storage keeps its types.                                  *)
THEOREM StorageTypeCorrect == StorageSpec => []StorageTypeOK
  BY StorageInvariant, StorageInvTypeOK, PTL

(* A change whose section never ran beside another on its key is kept, for    *)
(* any number of sections, keys, deactivations and crashes, and a shelf holds *)
(* nothing of a section that failed.                                          *)
THEOREM MutableSectionsAreAtomicHolds == StorageSpec => []MutableSectionsAreAtomic
  <1>1. ASSUME StorageInv PROVE MutableSectionsAreAtomic
    <2>1. ASSUME NEW s \in Sections, section[s].at = "failed", kind = "shelf"
          PROVE  s \notin Kept(Key(s))
      <3>1. Key(s) \in Keys
        BY <1>1 DEF StorageInv, StorageTypes, Section, Key
      <3>2. QED
        BY <1>1, <2>1, <3>1 DEF StorageInv, ShelfInv, DoneOn, IsDone
    <2>2. QED
      BY <1>1, <2>1 DEF StorageInv, DoneIsKept, IsDone, MutableSectionsAreAtomic
  <1>2. QED
    BY StorageInvariant, <1>1, PTL

-----------------------------------------------------------------------------
(* Streams. Every chunk is accounted for: what a client has read, what waits *)
(* in its pipe, what the transfer has in hand for it and what is still to be *)
(* read make up the stream, until the client is through or the transfer dies.*)

InHand(c) == IF transfer.at \in {"dispatch", "write"} /\ transfer.to <= c THEN 1 ELSE 0
Chunks(c) == received[c] + piped[c] + unread + InHand(c)

\* A client cannot get more than the stream holds.
NoneTwice == \A c \in Clients : Chunks(c) <= NChunks

\* One that is still reading has lost nothing.
NoneLost == transfer.at # "dead" => \A c \in Clients : reader[c] = "callback" => Chunks(c) = NChunks

\* Pipes are closed at the end of the stream or when it was closed, by a transfer that lives.
EndedLast ==
    /\ ended # {} => transfer.at \in {"close", "join", "done"}
    /\ transfer.at \in {"close", "join", "done"} => unread = 0 \/ source = "closed"

\* The status of a stream follows from what the client did with it so far.
StatusFollows ==
    \A c \in Clients :
        /\ reader[c] = "callback" => status[c] \in {"pending", "in progress"}
        /\ status[c] = "in progress" => kindOf[c] \in {"keeps", "samples", "crashes"}
        /\ status[c] = "success" => /\ reader[c] # "callback" /\ kindOf[c] \in {"keeps", "samples"}
                                    /\ kindOf[c] = "keeps" =>
                                          c \in ended /\ received[c] + unread = NChunks

TeeTypes ==
    /\ TeeTypeOK
    /\ transfer.at = "write" => transfer.to \in Clients

TeeInv == TeeTypes /\ NoneTwice /\ NoneLost /\ EndedLast /\ StatusFollows

LEMMA TeeOn ==
    ASSUME NEW step, NEW c
    PROVE  On(step, c).at = step /\ On(step, c).to = c
  BY DEF On

LEMMA TeeTypesOn ==
    ASSUME NEW step \in Working \cup {"idle", "done", "dead"}, NEW c \in 1..NClients + 1
    PROVE  On(step, c) \in [at : Working \cup {"idle", "done", "dead"}, to : 1..NClients + 1]
  BY DEF On

LEMMA InHandType == \A c : InHand(c) \in 0..1
  BY DEF InHand

LEMMA TeeNumbers ==
    TeeTypes => unread \in 0..NChunks
                /\ \A c \in Clients : received[c] \in 0..NChunks /\ piped[c] \in 0..Room
  BY DEF TeeTypes, TeeTypeOK

LEMMA TeeNumbersNext ==
    TeeTypes' => \A c \in Clients : received'[c] \in 0..NChunks /\ piped'[c] \in 0..Room
  BY DEF TeeTypes, TeeTypeOK

LEMMA TeeInitInv == TeeInit => TeeInv
  <1> SUFFICES ASSUME TeeInit PROVE TeeInv
    OBVIOUS
  <1>1. transfer.at = "idle" /\ transfer.to = 1
    BY DEF TeeInit
  <1>2. TeeTypes
    <2>1. 1 \in 1..NClients + 1 /\ 0 \in 0..Room /\ 0 \in 0..NChunks /\ NChunks \in 0..NChunks
      BY TeeAssumption
    <2>2. QED
      BY <1>1, <2>1 DEF TeeInit, TeeTypes, TeeTypeOK, Working, Statuses
  <1>3. \A c \in Clients : Chunks(c) = NChunks
    BY <1>1, TeeAssumption DEF TeeInit, Chunks, InHand
  <1>4. QED
    BY <1>1, <1>2, <1>3, TeeAssumption
       DEF TeeInit, TeeInv, NoneTwice, NoneLost, EndedLast, StatusFollows

-----------------------------------------------------------------------------
(* The steps of the transfer thread leave the clients alone.                 *)

LEMMA TransferStep ==
    ASSUME TeeInv, TeeTypes', UNCHANGED <<kindOf, teeClients>>, transfer.at # "dead",
           ended \subseteq ended', ended # {} => unread' = unread,
           \A c \in Clients : Chunks(c)' <= Chunks(c),
           transfer'.at # "dead" =>
               \A c \in Clients : reader[c] = "callback" => Chunks(c)' = Chunks(c),
           EndedLast'
    PROVE  TeeInv'
  <1>1. UNCHANGED <<kindOf, reader, received, status>>
    BY DEF teeClients
  <1>2. \A c \in Clients : Chunks(c) \in Int /\ Chunks(c)' \in Int
    BY DEF TeeInv, TeeTypes, TeeTypeOK, Chunks, InHand
  <1>3. NoneTwice'
    BY <1>2, TeeAssumption DEF TeeInv, NoneTwice
  <1>4. NoneLost'
    BY <1>1 DEF TeeInv, NoneLost
  <1>5. StatusFollows'
    <2>1. \A c \in Clients : c \in ended => c \in ended' /\ unread' = unread
      OBVIOUS
    <2>2. QED
      BY <1>1, <2>1 DEF TeeInv, StatusFollows
  <1>6. QED
    BY <1>3, <1>4, <1>5 DEF TeeInv

(* A failing source only matters to what the transfer does next.             *)
LEMMA SourceFailsInv == TeeInv /\ SourceFails => TeeInv'
  <1> SUFFICES ASSUME TeeInv, SourceFails PROVE TeeInv'
    OBVIOUS
  <1>1. /\ source = "open" /\ source' \in {"closed", "broken"}
        /\ UNCHANGED <<kindOf, transfer, unread, piped, ended, reader, received, status>>
    BY DEF SourceFails, teeClients
  <1>2. TeeTypes'
    BY <1>1 DEF TeeInv, TeeTypes, TeeTypeOK
  <1>3. \A c \in Clients : Chunks(c)' = Chunks(c)
    BY <1>1 DEF Chunks, InHand
  <1>4. NoneTwice' /\ NoneLost'
    BY <1>1, <1>3 DEF TeeInv, NoneTwice, NoneLost
  <1>5. EndedLast' /\ StatusFollows'
    BY <1>1 DEF TeeInv, EndedLast, StatusFollows
  <1>6. QED
    BY <1>2, <1>4, <1>5 DEF TeeInv

LEMMA StartInv == TeeInv /\ StartTransfer => TeeInv'
  <1> SUFFICES ASSUME TeeInv, StartTransfer PROVE TeeInv'
    OBVIOUS
  <1>1. transfer.at = "idle" /\ transfer'.at = "check" /\ transfer'.to = 1
    BY TeeOn DEF StartTransfer
  <1>2. UNCHANGED <<source, kindOf, unread, piped, ended, teeClients, received>>
    BY DEF StartTransfer, teeClients
  <1>3. TeeTypes'
    <2>1. transfer' \in [at : Working \cup {"idle", "done", "dead"}, to : 1..NClients + 1]
      BY TeeTypesOn, TeeAssumption DEF StartTransfer, Working
    <2>2. QED
      BY <1>1, <2>1 DEF StartTransfer, TeeInv, TeeTypes, TeeTypeOK, teeClients
  <1>4. \A c \in Clients : Chunks(c)' = Chunks(c)
    BY <1>1, <1>2 DEF Chunks, InHand
  <1>5. EndedLast'
    BY <1>1, <1>2 DEF TeeInv, EndedLast
  <1>6. \A c \in Clients : Chunks(c) \in Int
    BY DEF TeeInv, TeeTypes, TeeTypeOK, Chunks, InHand
  <1>7. QED
    BY <1>1, <1>2, <1>3, <1>4, <1>5, <1>6, TransferStep

LEMMA CheckClosedInv == TeeInv /\ CheckClosed => TeeInv'
  <1> SUFFICES ASSUME TeeInv, CheckClosed PROVE TeeInv'
    OBVIOUS
  <1>1. /\ transfer.at = "check"
        /\ UNCHANGED <<source, kindOf, unread, piped, ended, teeClients, received>>
        /\ transfer' = On(IF source = "closed" THEN "close" ELSE "read", 1)
    BY DEF CheckClosed, teeClients
  <1>2. \A c \in Clients : Chunks(c) \in Int
    BY DEF TeeInv, TeeTypes, TeeTypeOK, Chunks, InHand
  <1>3. /\ transfer'.at \in {"close", "read"} /\ transfer'.to = 1
        /\ transfer'.at = "close" => source = "closed"
    BY <1>1, TeeOn
  <1>4. TeeTypes'
    <2>1. transfer' \in [at : Working \cup {"idle", "done", "dead"}, to : 1..NClients + 1]
      BY <1>1, TeeTypesOn, TeeAssumption DEF Working
    <2>2. QED
      BY <1>1, <1>3, <2>1 DEF TeeInv, TeeTypes, TeeTypeOK, teeClients
  <1>5. \A c \in Clients : Chunks(c)' = Chunks(c)
    BY <1>1, <1>3 DEF Chunks, InHand
  <1>6. EndedLast'
    BY <1>1, <1>3 DEF TeeInv, EndedLast
  <1>7. QED
    BY <1>1, <1>2, <1>4, <1>5, <1>6, TransferStep

LEMMA ReadChunkInv == TeeInv /\ ReadChunk => TeeInv'
  <1> SUFFICES ASSUME TeeInv, ReadChunk PROVE TeeInv'
    OBVIOUS
  <1>1. /\ transfer.at = "read" /\ unread \in 0..NChunks
        /\ UNCHANGED <<source, kindOf, piped, ended, teeClients, received>>
    BY DEF ReadChunk, TeeInv, TeeTypes, TeeTypeOK, teeClients
  <1>2. \A c \in Clients : Chunks(c) \in Int
    BY DEF TeeInv, TeeTypes, TeeTypeOK, Chunks, InHand
  <1>3. ended = {}
    BY <1>1 DEF TeeInv, EndedLast
  <1>4. CASE source # "open" \/ unread = 0
    <2>1. /\ unread' = unread /\ transfer' \in {On("close", 1), On("dead", 1)}
          /\ transfer' = On("close", 1) => unread = 0
      BY <1>1, <1>4, TeeAssumption DEF ReadChunk, On
    <2>2. /\ transfer'.at \in {"close", "dead"} /\ transfer'.to = 1
          /\ transfer'.at = "close" => unread = 0
      BY <2>1, TeeOn
    <2>3. TeeTypes'
      <3>1. transfer' \in [at : Working \cup {"idle", "done", "dead"}, to : 1..NClients + 1]
        BY <2>1, TeeTypesOn, TeeAssumption DEF Working
      <3>2. QED
        BY <1>1, <2>1, <2>2, <3>1 DEF TeeInv, TeeTypes, TeeTypeOK, teeClients
    <2>4. \A c \in Clients : Chunks(c)' = Chunks(c)
      BY <1>1, <2>1, <2>2 DEF Chunks, InHand
    <2>5. EndedLast'
      BY <1>1, <1>3, <2>1, <2>2 DEF EndedLast
    <2>6. QED
      BY <1>1, <1>2, <1>3, <2>2, <2>3, <2>4, <2>5, TransferStep
  <1>5. CASE source = "open" /\ unread # 0
    <2>1. unread > 0
      BY <1>1, <1>5, TeeAssumption
    <2>2. unread' = unread - 1 /\ transfer' = On("dispatch", 1)
      BY <1>5, <2>1 DEF ReadChunk
    <2>3. transfer'.at = "dispatch" /\ transfer'.to = 1
      BY <2>2, TeeOn
    <2>4. TeeTypes'
      <3>1. transfer' \in [at : Working \cup {"idle", "done", "dead"}, to : 1..NClients + 1]
        BY <2>2, TeeTypesOn, TeeAssumption DEF Working
      <3>2. unread' \in 0..NChunks
        BY <1>1, <2>1, <2>2, TeeAssumption
      <3>3. QED
        BY <1>1, <2>3, <3>1, <3>2 DEF TeeInv, TeeTypes, TeeTypeOK, teeClients
    <2>5. \A c \in Clients : Chunks(c)' = Chunks(c)
      <3>1. \A c \in Clients : InHand(c) = 0 /\ InHand(c)' = 1
        BY <1>1, <2>3, TeeAssumption DEF InHand, Clients
      <3>2. QED
        BY <1>1, <2>2, <3>1 DEF Chunks, TeeInv, TeeTypes, TeeTypeOK
    <2>6. EndedLast'
      BY <1>1, <1>3, <2>3 DEF EndedLast
    <2>7. QED
      BY <1>1, <1>2, <1>3, <2>3, <2>4, <2>5, <2>6, TransferStep
  <1>6. QED
    BY <1>4, <1>5

LEMMA FetchPipeInv == TeeInv /\ FetchPipe => TeeInv'
  <1> SUFFICES ASSUME TeeInv, FetchPipe PROVE TeeInv'
    OBVIOUS
  <1>1. /\ transfer.at = "dispatch" /\ transfer.to \in 1..NClients + 1
        /\ UNCHANGED <<source, kindOf, unread, piped, ended, teeClients, received, reader>>
    BY DEF FetchPipe, TeeInv, TeeTypes, TeeTypeOK, teeClients
  <1>2. \A c \in Clients : Chunks(c) \in Int
    BY DEF TeeInv, TeeTypes, TeeTypeOK, Chunks, InHand
  <1>3. ended = {}
    BY <1>1 DEF TeeInv, EndedLast
  <1>4. ASSUME transfer' \in [at : {"check", "dispatch", "write"}, to : 1..NClients + 1],
               transfer'.at = "write" => transfer'.to \in Clients,
               \A c \in Clients : Chunks(c)' <= Chunks(c),
               \A c \in Clients : reader[c] = "callback" => Chunks(c)' = Chunks(c)
        PROVE  TeeInv'
    <2>1. TeeTypes'
      BY <1>1, <1>4 DEF TeeInv, TeeTypes, TeeTypeOK, teeClients, Working
    <2>2. EndedLast'
      BY <1>1, <1>3, <1>4 DEF EndedLast
    <2>3. QED
      BY <1>1, <1>4, <2>1, <2>2, TransferStep
  <1>5. CASE transfer.to > NClients
    <2>1. transfer' = On("check", 1)
      BY <1>5 DEF FetchPipe
    <2>2. transfer'.at = "check" /\ transfer' \in [at : {"check", "dispatch", "write"}, to : 1..NClients + 1]
      BY <2>1, TeeAssumption DEF On
    <2>3. \A c \in Clients : InHand(c) = 0 /\ InHand(c)' = 0
      BY <1>1, <1>5, <2>2, TeeAssumption DEF InHand, Clients
    <2>4. \A c \in Clients : Chunks(c)' = Chunks(c)
      BY <1>1, <2>3 DEF Chunks
    <2>5. QED
      BY <1>2, <1>4, <2>2, <2>4
  <1>6. CASE ~(transfer.to > NClients) /\ Open(transfer.to)
    <2>1. transfer' = [transfer EXCEPT !.at = "write"]
      BY <1>6 DEF FetchPipe
    <2>2. /\ transfer'.at = "write" /\ transfer'.to = transfer.to
          /\ transfer' \in [at : {"check", "dispatch", "write"}, to : 1..NClients + 1]
      BY <1>1, <2>1 DEF TeeInv, TeeTypes, TeeTypeOK
    <2>3. transfer.to \in Clients
      BY <1>1, <1>6, TeeAssumption DEF Clients
    <2>4. \A c \in Clients : Chunks(c)' = Chunks(c)
      BY <1>1, <2>2 DEF Chunks, InHand
    <2>5. QED
      BY <1>2, <1>4, <2>2, <2>3, <2>4
  <1>7. CASE ~(transfer.to > NClients) /\ ~Open(transfer.to)
    <2>1. transfer' = [transfer EXCEPT !.to = @ + 1]
      BY <1>7 DEF FetchPipe
    <2>2. /\ transfer'.at = "dispatch" /\ transfer'.to = transfer.to + 1
          /\ transfer' \in [at : {"check", "dispatch", "write"}, to : 1..NClients + 1]
      BY <1>1, <1>7, <2>1, TeeAssumption DEF TeeInv, TeeTypes, TeeTypeOK
    <2>3. \A c \in Clients : /\ InHand(c) \in 0..1 /\ InHand(c)' \in 0..1
                             /\ InHand(c)' <= InHand(c)
                             /\ c # transfer.to => InHand(c)' = InHand(c)
      BY <1>1, <2>2, TeeAssumption DEF InHand, Clients
    <2>4. reader[transfer.to] # "callback"
      BY <1>7 DEF Open
    <2>5. \A c \in Clients : /\ Chunks(c)' <= Chunks(c)
                             /\ reader[c] = "callback" => Chunks(c)' = Chunks(c)
      <3> SUFFICES ASSUME NEW c \in Clients
                   PROVE  /\ Chunks(c)' <= Chunks(c)
                          /\ reader[c] = "callback" => Chunks(c)' = Chunks(c)
        OBVIOUS
      <3>1. received[c] \in Int /\ piped[c] \in Int /\ unread \in Int
        BY DEF TeeInv, TeeTypes, TeeTypeOK
      <3>2. QED
        BY <1>1, <2>3, <2>4, <3>1 DEF Chunks
    <2>6. QED
      BY <1>4, <2>2, <2>5
  <1>8. QED
    BY <1>5, <1>6, <1>7

LEMMA WriteChunkInv == TeeInv /\ WriteChunk => TeeInv'
  <1> SUFFICES ASSUME TeeInv, WriteChunk PROVE TeeInv'
    OBVIOUS
  <1> DEFINE w == transfer.to
  <1>1. /\ transfer.at = "write" /\ w \in Clients /\ w \in 1..NClients
        /\ UNCHANGED <<source, kindOf, unread, ended, teeClients, received, reader>>
    BY DEF WriteChunk, TeeInv, TeeTypes, teeClients, Clients
  <1>2. ended = {}
    BY <1>1 DEF TeeInv, EndedLast
  <1>3. \A c \in Clients : received[c] \in Int /\ piped[c] \in 0..Room /\ unread \in Int
    BY DEF TeeInv, TeeTypes, TeeTypeOK
  <1>4. transfer' \in {On("dispatch", w + 1), On("dead", 1)}
    BY DEF WriteChunk
  <1>5. transfer' \in [at : {"dispatch", "dead"}, to : 1..NClients + 1]
    BY <1>1, <1>4, TeeAssumption DEF On
  <1>6. /\ transfer'.at = "dispatch" => transfer'.to = w + 1
        /\ transfer'.at \in {"dispatch", "dead"}
    BY <1>4, TeeOn
  <1>7. EndedLast'
    BY <1>1, <1>2, <1>6 DEF EndedLast
  <1>8. \A c \in Clients : /\ InHand(c) \in 0..1 /\ InHand(c)' \in 0..1
                           /\ InHand(c)' <= InHand(c)
                           /\ c = w => InHand(c) = 1 /\ InHand(c)' = 0
                           /\ c # w /\ transfer'.at # "dead" => InHand(c)' = InHand(c)
    BY <1>1, <1>6, TeeAssumption DEF InHand, Clients
  <1>9. CASE reader[w] = "finished"
    <2>1. piped' = piped
      BY <1>9 DEF WriteChunk
    <2>2. TeeTypes'
      BY <1>1, <1>5, <2>1 DEF TeeInv, TeeTypes, TeeTypeOK, teeClients, Working
    <2>3. \A c \in Clients : /\ Chunks(c)' <= Chunks(c)
                             /\ transfer'.at # "dead" /\ c # w => Chunks(c)' = Chunks(c)
      BY <1>1, <1>3, <1>8, <2>1 DEF Chunks
    <2>4. QED
      BY <1>1, <1>7, <1>9, <2>2, <2>3, TransferStep
  <1>10. CASE ~(reader[w] = "finished")
    <2>1. /\ piped[w] < Room /\ piped' = [piped EXCEPT ![w] = @ + 1]
          /\ transfer' = On("dispatch", w + 1)
      BY <1>10 DEF WriteChunk
    <2>2. transfer'.at = "dispatch"
      BY <2>1, TeeOn
    <2>3. piped \in [Clients -> 0..Room]
      BY DEF TeeInv, TeeTypes, TeeTypeOK
    <2>4. piped' \in [Clients -> 0..Room]
      <3>1. piped[w] + 1 \in 0..Room
        BY <1>1, <2>1, <2>3, TeeAssumption
      <3>2. QED
        BY <1>1, <2>1, <2>3, <3>1
    <2>5. TeeTypes'
      BY <1>1, <1>5, <2>2, <2>4 DEF TeeInv, TeeTypes, TeeTypeOK, teeClients, Working
    <2>6. \A c \in Clients : Chunks(c)' = Chunks(c)
      <3> SUFFICES ASSUME NEW c \in Clients PROVE Chunks(c)' = Chunks(c)
        OBVIOUS
      <3>1. CASE c = w
        <4>1. piped'[c] = piped[c] + 1
          BY <1>1, <2>1, <2>3, <3>1
        <4>2. QED
          BY <1>1, <1>3, <1>8, <3>1, <4>1 DEF Chunks
      <3>2. CASE c # w
        <4>1. piped'[c] = piped[c]
          BY <2>1, <2>3, <3>2
        <4>2. QED
          BY <1>1, <1>3, <1>8, <2>2, <3>2, <4>1 DEF Chunks
      <3>3. QED
        BY <3>1, <3>2
    <2>7. \A c \in Clients : Chunks(c) \in Int
      BY <1>3, <1>8 DEF Chunks
    <2>8. QED
      BY <1>1, <1>7, <2>5, <2>6, <2>7, TransferStep
  <1>11. QED
    BY <1>9, <1>10

LEMMA ClosePipeInv == TeeInv /\ ClosePipe => TeeInv'
  <1> SUFFICES ASSUME TeeInv, ClosePipe PROVE TeeInv'
    OBVIOUS
  <1> DEFINE w == transfer.to
  <1>1. /\ transfer.at = "close" /\ w \in 1..NClients + 1 /\ (unread = 0 \/ source = "closed")
        /\ UNCHANGED <<source, kindOf, unread, piped, teeClients, received>>
    BY DEF ClosePipe, TeeInv, TeeTypes, TeeTypeOK, EndedLast, teeClients
  <1>2. \A c \in Clients : Chunks(c) \in Int
    BY DEF TeeInv, TeeTypes, TeeTypeOK, Chunks, InHand
  <1>3. /\ transfer' \in [at : {"close", "join"}, to : 1..NClients + 1] /\ ended' \subseteq Clients
        /\ ended \subseteq ended'
    <2>1. ended \subseteq Clients
      BY DEF TeeInv, TeeTypes, TeeTypeOK
    <2>2. CASE w > NClients
      BY <2>1, <2>2, TeeAssumption DEF ClosePipe, On
    <2>3. CASE ~(w > NClients)
      <3>1. w \in Clients /\ w + 1 \in 1..NClients + 1
        BY <1>1, <2>3, TeeAssumption DEF Clients
      <3>2. transfer' = On("close", w + 1) /\ (ended' = ended \cup {w} \/ ended' = ended)
        BY <2>3 DEF ClosePipe
      <3>3. QED
        BY <2>1, <3>1, <3>2 DEF On
    <2>4. QED
      BY <2>2, <2>3
  <1>4. TeeTypes'
    BY <1>1, <1>3 DEF TeeInv, TeeTypes, TeeTypeOK, teeClients, Working
  <1>5. \A c \in Clients : Chunks(c)' = Chunks(c)
    BY <1>1, <1>3 DEF Chunks, InHand
  <1>6. EndedLast'
    BY <1>1, <1>3 DEF EndedLast
  <1>7. QED
    BY <1>1, <1>2, <1>3, <1>4, <1>5, <1>6, TransferStep

LEMMA JoinInv == TeeInv /\ Join => TeeInv'
  <1> SUFFICES ASSUME TeeInv, Join PROVE TeeInv'
    OBVIOUS
  <1>1. /\ transfer.at = "join" /\ (unread = 0 \/ source = "closed")
        /\ UNCHANGED <<source, kindOf, unread, piped, ended, teeClients, received>>
    BY DEF Join, TeeInv, EndedLast, teeClients
  <1>2. \A c \in Clients : Chunks(c) \in Int
    BY DEF TeeInv, TeeTypes, TeeTypeOK, Chunks, InHand
  <1>3. transfer' \in [at : {"done"}, to : 1..NClients + 1]
    BY TeeAssumption DEF Join, On
  <1>4. TeeTypes'
    BY <1>1, <1>3 DEF TeeInv, TeeTypes, TeeTypeOK, teeClients, Working
  <1>5. \A c \in Clients : Chunks(c)' = Chunks(c)
    BY <1>1, <1>3 DEF Chunks, InHand
  <1>6. EndedLast'
    BY <1>1, <1>3 DEF EndedLast
  <1>7. QED
    BY <1>1, <1>2, <1>4, <1>5, <1>6, TransferStep

-----------------------------------------------------------------------------
(* The steps of a client's thread leave the transfer and the others alone.   *)

LEMMA ClientStep ==
    ASSUME TeeInv, TeeTypes', NEW c \in Clients, UNCHANGED <<source, kindOf, transfer, unread, ended>>,
           \A d \in Clients \ {c} :
               /\ reader'[d] = reader[d] /\ status'[d] = status[d]
               /\ received'[d] = received[d],
           \A d \in Clients : Chunks(d)' = Chunks(d),
           reader'[c] = "callback" => reader[c] = "callback",
           reader'[c] = "callback" => status'[c] \in {"pending", "in progress"},
           status'[c] = "in progress" => kindOf[c] \in {"keeps", "samples", "crashes"},
           status'[c] = "success" =>
               /\ reader'[c] # "callback" /\ kindOf[c] \in {"keeps", "samples"}
               /\ kindOf[c] = "keeps" => c \in ended /\ received'[c] + unread = NChunks
    PROVE  TeeInv'
  <1>1. NoneTwice' /\ NoneLost'
    <2>1. \A d \in Clients : reader'[d] = "callback" => reader[d] = "callback"
      OBVIOUS
    <2>2. NoneTwice'
      BY DEF TeeInv, NoneTwice
    <2>3. NoneLost'
      BY <2>1 DEF TeeInv, NoneLost
    <2>4. QED
      BY <2>2, <2>3
  <1>2. EndedLast'
    BY DEF TeeInv, EndedLast
  <1>3. StatusFollows'
    BY DEF TeeInv, StatusFollows
  <1>4. QED
    BY <1>1, <1>2, <1>3 DEF TeeInv

LEMMA AcceptInv == ASSUME NEW c \in Clients PROVE TeeInv /\ Accept(c) => TeeInv'
  <1> SUFFICES ASSUME TeeInv, Accept(c) PROVE TeeInv'
    OBVIOUS
  <1>1. /\ reader[c] = "callback" /\ kindOf[c] \in {"keeps", "samples", "crashes"}
        /\ status' = [status EXCEPT ![c] = "in progress"]
        /\ UNCHANGED <<source, kindOf, transfer, unread, piped, ended, reader, received>>
    BY DEF Accept
  <1>2. status \in [Clients -> Statuses]
    BY DEF TeeInv, TeeTypes, TeeTypeOK
  <1>3. TeeTypes'
    BY <1>1, <1>2 DEF TeeInv, TeeTypes, TeeTypeOK, Statuses
  <1>4. \A d \in Clients : Chunks(d)' = Chunks(d)
    BY <1>1 DEF Chunks, InHand
  <1>5. status'[c] = "in progress" /\ \A d \in Clients \ {c} : status'[d] = status[d]
    BY <1>1, <1>2
  <1>6. QED
    BY <1>1, <1>3, <1>4, <1>5, ClientStep

LEMMA ClientReadsInv == ASSUME NEW c \in Clients PROVE TeeInv /\ ClientReads(c) => TeeInv'
  <1> SUFFICES ASSUME TeeInv, ClientReads(c) PROVE TeeInv'
    OBVIOUS
  <1>1. /\ reader[c] = "callback" /\ status[c] = "in progress" /\ piped[c] > 0
        /\ piped' = [piped EXCEPT ![c] = @ - 1]
        /\ received' = [received EXCEPT ![c] = @ + 1]
        /\ UNCHANGED <<source, kindOf, transfer, unread, ended, reader, status>>
    BY DEF ClientReads
  <1>2. /\ received \in [Clients -> 0..NChunks] /\ piped \in [Clients -> 0..Room]
        /\ unread \in 0..NChunks
    BY DEF TeeInv, TeeTypes, TeeTypeOK
  <1>3. /\ received'[c] = received[c] + 1 /\ piped'[c] = piped[c] - 1
        /\ \A d \in Clients \ {c} : received'[d] = received[d] /\ piped'[d] = piped[d]
    BY <1>1, <1>2
  <1>4. received[c] + piped[c] + unread + InHand(c) <= NChunks /\ InHand(c) \in 0..1
    BY DEF TeeInv, NoneTwice, Chunks, InHand
  <1>5. received[c] + 1 \in 0..NChunks /\ piped[c] - 1 \in 0..Room
    <2>1. received[c] \in Nat /\ piped[c] \in 0..Room /\ unread \in Nat
      BY <1>2
    <2>2. piped[c] > 0
      BY <1>1
    <2>3. received[c] + 1 <= NChunks
      BY <1>4, <2>1, <2>2, TeeAssumption
    <2>4. QED
      BY <2>1, <2>2, <2>3, TeeAssumption
  <1>6. TeeTypes'
    BY <1>1, <1>2, <1>5 DEF TeeInv, TeeTypes, TeeTypeOK
  <1>7. \A d \in Clients : Chunks(d)' = Chunks(d)
    <2> SUFFICES ASSUME NEW d \in Clients PROVE Chunks(d)' = Chunks(d)
      OBVIOUS
    <2>1. received[d] \in Nat /\ piped[d] \in Nat /\ unread \in Nat /\ InHand(d) \in Nat
      BY TeeNumbers, InHandType DEF TeeInv
    <2>2. InHand(d)' = InHand(d) /\ unread' = unread
      BY <1>1 DEF InHand
    <2>3. CASE d = c
      BY <1>3, <2>1, <2>2, <2>3 DEF Chunks
    <2>4. CASE d # c
      BY <1>3, <2>1, <2>2, <2>4 DEF Chunks
    <2>5. QED
      BY <2>3, <2>4
  <1>8. kindOf[c] \in {"keeps", "samples", "crashes"}
    BY <1>1 DEF TeeInv, StatusFollows
  <1>9. QED
    BY <1>1, <1>3, <1>6, <1>7, <1>8, ClientStep

(* The callback of a client that reads to the end returns once the pipe is    *)
(* closed and empty: nothing is unread nor in hand then.                      *)
LEMMA CallbackEndsInv == ASSUME NEW c \in Clients PROVE TeeInv /\ CallbackEnds(c) => TeeInv'
  <1> SUFFICES ASSUME TeeInv, CallbackEnds(c) PROVE TeeInv'
    OBVIOUS
  <1>1. /\ reader[c] = "callback"
        /\ status' = [status EXCEPT ![c] =
               IF kindOf[c] = "crashes" THEN "error"
               ELSE IF @ = "pending" THEN "rejected" ELSE "success"]
        /\ reader' = [reader EXCEPT ![c] = "returned"]
        /\ UNCHANGED <<source, kindOf, transfer, unread, piped, ended, received>>
    BY DEF CallbackEnds
  <1>2. /\ status \in [Clients -> Statuses] /\ kindOf \in [Clients -> Kinds]
        /\ reader \in [Clients -> {"callback", "returned", "vanished", "finished"}]
    BY DEF TeeInv, TeeTypes, TeeTypeOK
  <1>3. /\ reader'[c] = "returned"
        /\ status'[c] = IF kindOf[c] = "crashes" THEN "error"
                        ELSE IF status[c] = "pending" THEN "rejected" ELSE "success"
        /\ \A d \in Clients \ {c} : reader'[d] = reader[d] /\ status'[d] = status[d]
    BY <1>1, <1>2
  <1>4. status'[c] \in Statuses
    BY <1>3 DEF Statuses
  <1>5. TeeTypes'
    BY <1>1, <1>2, <1>4 DEF TeeInv, TeeTypes, TeeTypeOK
  <1>6. ASSUME status'[c] = "success"
        PROVE  /\ kindOf[c] \in {"keeps", "samples"}
               /\ kindOf[c] = "keeps" => c \in ended /\ received[c] + unread = NChunks
    <2>1. kindOf[c] # "crashes" /\ status[c] = "in progress"
      <3>1. status[c] \in {"pending", "in progress"}
        BY <1>1 DEF TeeInv, StatusFollows
      <3>2. kindOf[c] # "crashes" /\ status[c] # "pending"
        BY <1>3, <1>6
      <3>3. QED
        BY <3>1, <3>2
    <2>2. kindOf[c] \in {"keeps", "samples"}
      BY <2>1 DEF TeeInv, StatusFollows
    <2>3. ASSUME kindOf[c] = "keeps" PROVE c \in ended /\ received[c] + unread = NChunks
      <3>1. piped[c] = 0 /\ c \in ended
        BY <2>3 DEF CallbackEnds, AtEOF
      <3>2. transfer.at \in {"close", "join", "done"}
        BY <3>1 DEF TeeInv, EndedLast
      <3>3. InHand(c) = 0
        BY <3>2 DEF InHand
      <3>4. received[c] + piped[c] + unread + InHand(c) = NChunks
        BY <1>1, <3>2 DEF TeeInv, NoneLost, Chunks
      <3>5. received[c] \in Int /\ unread \in Int
        BY DEF TeeInv, TeeTypes, TeeTypeOK
      <3>6. QED
        BY <3>1, <3>3, <3>4, <3>5
    <2>4. QED
      BY <2>2, <2>3
  <1>7. status'[c] # "in progress"
    BY <1>3
  <1>8. \A d \in Clients : Chunks(d)' = Chunks(d)
    BY <1>1 DEF Chunks, InHand
  <1>9. QED
    BY <1>1, <1>3, <1>5, <1>6, <1>7, <1>8, ClientStep

LEMMA CleanUpInv == ASSUME NEW c \in Clients PROVE TeeInv /\ (Vanish(c) \/ CloseEnds(c)) => TeeInv'
  <1> SUFFICES ASSUME TeeInv, Vanish(c) \/ CloseEnds(c) PROVE TeeInv'
    OBVIOUS
  <1>1. /\ reader' = [reader EXCEPT ![c] = "vanished"] \/ reader' = [reader EXCEPT ![c] = "finished"]
        /\ reader[c] # "callback"
        /\ UNCHANGED <<source, kindOf, transfer, unread, piped, ended, received, status>>
    BY DEF Vanish, CloseEnds
  <1>2. reader \in [Clients -> {"callback", "returned", "vanished", "finished"}]
    BY DEF TeeInv, TeeTypes, TeeTypeOK
  <1>3. TeeTypes'
    BY <1>1, <1>2 DEF TeeInv, TeeTypes, TeeTypeOK
  <1>4. reader'[c] # "callback" /\ \A d \in Clients \ {c} : reader'[d] = reader[d]
    BY <1>1, <1>2
  <1>5. \A d \in Clients : Chunks(d)' = Chunks(d)
    BY <1>1 DEF Chunks, InHand
  <1>6. QED
    BY <1>1, <1>3, <1>4, <1>5, ClientStep DEF TeeInv, StatusFollows

LEMMA TeeStutterInv == TeeInv /\ UNCHANGED teeVars => TeeInv'
  BY DEF teeVars, TeeInv, TeeTypes, TeeTypeOK, NoneTwice, NoneLost, EndedLast, StatusFollows,
         Chunks, InHand

THEOREM TeeInvariant == TeeSpec => []TeeInv
  <1>1. TeeInv /\ [TeeNext]_teeVars => TeeInv'
    BY StartInv, SourceFailsInv, CheckClosedInv, ReadChunkInv, FetchPipeInv, WriteChunkInv, ClosePipeInv, JoinInv, AcceptInv,
       ClientReadsInv, CallbackEndsInv, CleanUpInv, TeeStutterInv DEF TeeNext
  <1>2. QED
    BY TeeInitInv, <1>1, PTL DEF TeeSpec

(* The state of a transfer keeps its types: no pipe holds more than its room  *)
(* and no client gets more chunks than the stream has.                        *)
THEOREM TeeTypeCorrect == TeeSpec => []TeeTypeOK
  <1>1. TeeInv => TeeTypeOK
    BY DEF TeeInv, TeeTypes
  <1>2. QED
    BY TeeInvariant, <1>1, PTL

(* A stream marked as a success by a client that reads to the end holds every  *)
(* chunk the transfer read, the whole stream unless the incoming one was closed *)
(* early, whatever the other clients do; it is never one of a client that       *)
(* crashed or rejected it.                                                     *)
THEOREM SuccessIsWholeHolds == TeeSpec => []SuccessIsWhole
  <1>1. TeeInv => SuccessIsWhole
    <2> SUFFICES ASSUME TeeInv, NEW c \in Clients, status[c] = "success"
                 PROVE  /\ kindOf[c] \in {"keeps", "samples"}
                        /\ kindOf[c] = "keeps" =>
                              /\ received[c] + unread = NChunks
                              /\ unread > 0 => source = "closed"
      BY DEF SuccessIsWhole
    <2>1. kindOf[c] \in {"keeps", "samples"}
      BY DEF TeeInv, StatusFollows
    <2>2. ASSUME kindOf[c] = "keeps"
          PROVE  received[c] + unread = NChunks /\ (unread > 0 => source = "closed")
      <3>1. c \in ended /\ received[c] + unread = NChunks
        BY <2>2 DEF TeeInv, StatusFollows
      <3>2. unread = 0 \/ source = "closed"
        BY <3>1 DEF TeeInv, EndedLast
      <3>3. QED
        BY <3>1, <3>2
    <2>3. QED
      BY <2>1, <2>2
  <1>2. QED
    BY TeeInvariant, <1>1, PTL

-----------------------------------------------------------------------------
(* The server of the web server plugin. The server a deactivation waits for   *)
(* and the one it keeps are of starts that were made.                         *)

WebServerTypes ==
    /\ configured \in BOOLEAN /\ webUp \in BOOLEAN
    /\ starts \in 0..MaxStarts /\ server \in 0..starts
    /\ thread \in {"none", "starting", "created", "serving", "ended"}
    /\ asked \subseteq 1..MaxStarts
    /\ stopping \in [at : {"no", "wait", "join"}, of : 0..MaxStarts]

LEMMA ServerTypes == WebServerTypes /\ ServerNext => WebServerTypes'
  <1> SUFFICES ASSUME WebServerTypes, ServerNext PROVE WebServerTypes'
    OBVIOUS
  <1>1. starts \in Nat /\ server \in Nat /\ MaxStarts \in Nat /\ server <= starts /\ starts <= MaxStarts
    BY WebAssumption DEF WebServerTypes
  <1>2. CASE ConfigureWeb
    BY <1>2 DEF ConfigureWeb, WebServerTypes
  <1>3. CASE ActivateWeb
    <2>1. starts' \in 0..MaxStarts /\ server' \in 0..starts'
      BY <1>1, <1>3 DEF ActivateWeb
    <2>2. QED
      BY <1>3, <2>1 DEF ActivateWeb, WebServerTypes
  <1>4. CASE MakeServer
    <2>1. starts' \in 0..MaxStarts /\ server' \in 0..starts'
      BY <1>1, <1>4 DEF MakeServer
    <2>2. QED
      BY <1>4, <2>1 DEF MakeServer, WebServerTypes
  <1>5. CASE Serve \/ StopServing
    BY <1>5 DEF Serve, StopServing, WebServerTypes
  <1>6. CASE DeactivateWeb
    <2>1. server # 0 => server \in 1..MaxStarts /\ server \in 0..MaxStarts
      BY <1>1
    <2>2. asked' \subseteq 1..MaxStarts
      BY <1>6, <2>1 DEF DeactivateWeb, WebServerTypes
    <2>3. stopping' \in [at : {"no", "wait", "join"}, of : 0..MaxStarts]
      <3>1. stopping' = stopping \/ (server # 0 /\ stopping' = [at |-> "wait", of |-> server])
        BY <1>6 DEF DeactivateWeb
      <3>2. QED
        BY <2>1, <3>1 DEF WebServerTypes
    <2>4. webUp' \in BOOLEAN /\ UNCHANGED <<configured, starts, thread, server>>
      BY <1>6 DEF DeactivateWeb, WebServerTypes
    <2>5. QED
      BY <2>2, <2>3, <2>4 DEF WebServerTypes
  <1>7. CASE ShutdownReturns
    <2>1. [stopping EXCEPT !.at = "join"] \in [at : {"no", "wait", "join"}, of : 0..MaxStarts]
      BY DEF WebServerTypes
    <2>2. QED
      BY <1>7, <2>1 DEF ShutdownReturns, WebServerTypes
  <1>8. CASE JoinThread
    <2>1. NotStopping \in [at : {"no", "wait", "join"}, of : 0..MaxStarts]
      BY <1>1 DEF NotStopping
    <2>2. QED
      BY <1>8, <2>1 DEF JoinThread, WebServerTypes
  <1>9. QED
    BY <1>2, <1>3, <1>4, <1>5, <1>6, <1>7, <1>8 DEF ServerNext

-----------------------------------------------------------------------------
(* The webhooks. A URI is only ever mapped to an endpoint of a plugin that    *)
(* uses both, so what a plugin shares with no other is its own: its endpoints *)
(* have its views, its first webhook is mapped and answered by the object in  *)
(* use from its first step of route() on, and either all of its webhooks are  *)
(* mapped or those before the one route() is at.                              *)

RoutesTypes ==
    /\ version \in [Hookers -> Versions] /\ hooked \subseteq Hookers
    /\ routing \in [Hookers -> Nat] /\ \A p \in hooked : routing[p] = 0
    /\ rules \in [URIs -> {NoEndpoint} \cup Endpoints]
    /\ view \in [Endpoints -> {NoView} \cup Views]
    /\ served \in BOOLEAN /\ partly \subseteq Hookers

RulesKnown ==
    \A u \in URIs : rules[u] # NoEndpoint =>
        /\ view[rules[u]] # NoView
        /\ \E r \in Hookers : u \in OwnURIs(r) /\ rules[u] \in OwnEndpoints(r)

OwnViews(p) == \A e \in OwnEndpoints(p) : view[e] = NoView \/ view[e].of = p

FirstURI(p) == URI(p, version[p], 1)
FirstView(p) == [of |-> p, version |-> version[p], hook |-> 1]
FirstBegins(p) ==
    /\ p \in hooked \/ routing[p] > 1 =>
          rules[FirstURI(p)] # NoEndpoint /\ view[rules[FirstURI(p)]] = FirstView(p)
    /\ routing[p] > 1 => \A u \in URIs : rules[u] = rules[FirstURI(p)] => u = FirstURI(p)

SoFar(p, i) == i < routing[p]
AllOrSoFar(p) ==
    Keeps(p) /\ p \notin partly =>
        \/ \A i \in HookNumbers(p, 1) : Answered(p, 1, i)
        \/ \A i \in HookNumbers(p, 1) : Answered(p, 1, i) <=> SoFar(p, i)

OwnRoutes(p) == OwnViews(p) /\ FirstBegins(p) /\ AllOrSoFar(p)
RoutesInv == RoutesTypes /\ RulesKnown /\ \A p \in Hookers : ~Shares(p) => OwnRoutes(p)
WebInv == WebServerTypes /\ RoutesInv

\* There is a first webhook, and URIs and endpoints are those of the plugin.
LEMMA HooksAreThere ==
    ASSUME NEW p \in Hookers, NEW v \in Versions
    PROVE  /\ 1 \in HookNumbers(p, v) /\ HookNumbers(p, v) \subseteq Nat \ {0}
           /\ HookNumbers(p, v) = 1..Len(Webhooks(p, v)) /\ Len(Webhooks(p, v)) \in Nat
           /\ \A i \in HookNumbers(p, v) :
                 URI(p, v, i) \in OwnURIs(p) /\ EndpointOf(p, v, i) \in OwnEndpoints(p)
  <1>1. HookNumbers(p, v) = 1..Len(Webhooks(p, v)) /\ Len(Webhooks(p, v)) \in Nat \ {0}
    BY WebAssumption DEF HookNumbers, Versions
  <1>2. ASSUME NEW i \in HookNumbers(p, v)
        PROVE  URI(p, v, i) \in OwnURIs(p) /\ EndpointOf(p, v, i) \in OwnEndpoints(p)
    <2>1. Webhooks(p, v)[i] \in Methods(p)
      BY <1>2 DEF Methods
    <2>2. QED
      BY <2>1 DEF URI, EndpointOf, OwnURIs, OwnEndpoints
  <1>3. QED
    BY <1>1, <1>2

LEMMA OwnIsThere ==
    ASSUME NEW p \in Hookers
    PROVE  OwnURIs(p) \subseteq URIs /\ OwnEndpoints(p) \subseteq Endpoints
  BY DEF URIs, Endpoints

LEMMA NamesAreApart == NoEndpoint \notin Endpoints /\ NoView \notin Views
  <1>1. \A hook : Endpoint(hook) # <<>>
    BY DEF Endpoint
  <1>2. NoEndpoint \notin Endpoints
    BY <1>1 DEF NoEndpoint, Endpoints, OwnEndpoints
  <1>3. NoView \notin Views
    BY WebAssumption DEF NoView, Views, Versions
  <1>4. QED
    BY <1>2, <1>3

LEMMA SharesNone ==
    ASSUME NEW p \in Hookers, NEW q \in Hookers, p # q, ~Shares(p)
    PROVE  OwnURIs(p) \cap OwnURIs(q) = {} /\ OwnEndpoints(p) \cap OwnEndpoints(q) = {}
  BY DEF Shares

LEMMA OwnURIsDiffer ==
    ASSUME NEW p \in Hookers, NEW v \in Versions, ~Shares(p),
           NEW i \in HookNumbers(p, v), NEW j \in HookNumbers(p, v), i # j
    PROVE  URI(p, v, i) # URI(p, v, j)
  BY DEF Shares

\* With Keeps(p) the webhooks of the code in use are those of the first version.
LEMMA KeptWebhooks ==
    ASSUME NEW p \in Hookers, NEW v \in Versions, Keeps(p)
    PROVE  HookNumbers(p, v) = HookNumbers(p, 1) /\ \A i : URI(p, v, i) = URI(p, 1, i)
  BY DEF Keeps, HookNumbers, URI

LEMMA OneIsAVersion == 1 \in Versions
  BY WebAssumption DEF Versions

\* Where route() is: a webhook of the plugin, which is not activated yet.
LEMMA RoutingTypes ==
    ASSUME RoutesTypes, NEW p \in Hookers, Routing(p)
    PROVE  /\ version[p] \in Versions /\ routing[p] \in HookNumbers(p, version[p])
           /\ routing[p] \in Nat \ {0} /\ p \notin hooked
           /\ Current(p) \in OwnURIs(p) /\ Current(p) \in URIs
           /\ EndpointOf(p, version[p], routing[p]) \in OwnEndpoints(p)
           /\ EndpointOf(p, version[p], routing[p]) \in Endpoints
           /\ Answer(p) \in Views /\ Answer(p).of = p
  <1>1. version[p] \in Versions
    BY DEF RoutesTypes
  <1>2. routing[p] \in HookNumbers(p, version[p])
    BY DEF Routing
  <1>3. routing[p] \in Nat \ {0}
    BY <1>1, <1>2, HooksAreThere
  <1>4. p \notin hooked
    BY <1>3 DEF RoutesTypes
  <1>5. Current(p) \in OwnURIs(p) /\ EndpointOf(p, version[p], routing[p]) \in OwnEndpoints(p)
    BY <1>1, <1>2, HooksAreThere DEF Current
  <1>6. Answer(p) \in Views /\ Answer(p).of = p
    BY <1>1, <1>3 DEF Answer, Views
  <1>7. QED
    BY <1>1, <1>2, <1>3, <1>4, <1>5, <1>6, OwnIsThere

\* The rule of a plugin that shares nothing is one of its endpoints.
LEMMA OwnRule ==
    ASSUME RoutesTypes, RulesKnown, NEW p \in Hookers, ~Shares(p), NEW u \in OwnURIs(p),
           rules[u] # NoEndpoint
    PROVE  rules[u] \in OwnEndpoints(p) /\ view[rules[u]] # NoView
  <1>1. u \in URIs
    BY OwnIsThere
  <1>2. PICK r \in Hookers : u \in OwnURIs(r) /\ rules[u] \in OwnEndpoints(r)
    BY <1>1 DEF RulesKnown
  <1>3. r = p
    BY <1>2, SharesNone
  <1>4. QED
    BY <1>1, <1>2, <1>3 DEF RulesKnown

\* The rule of one plugin is no endpoint of another that shares nothing.
LEMMA OthersRule ==
    ASSUME RoutesTypes, RulesKnown, NEW p \in Hookers, ~Shares(p), NEW q \in Hookers, q # p,
           NEW u \in OwnURIs(q), rules[u] # NoEndpoint
    PROVE  rules[u] \notin OwnEndpoints(p)
  <1>1. u \in URIs
    BY OwnIsThere
  <1>2. PICK r \in Hookers : u \in OwnURIs(r) /\ rules[u] \in OwnEndpoints(r)
    BY <1>1 DEF RulesKnown
  <1>3. r # p
    BY <1>2, SharesNone
  <1>4. QED
    BY <1>2, <1>3, SharesNone

\* What a step of another plugin leaves of a plugin that shares nothing.
LEMMA OwnRoutesKept ==
    ASSUME RoutesTypes, RulesKnown, NEW p \in Hookers, ~Shares(p), OwnRoutes(p),
           version'[p] = version[p], routing'[p] = routing[p],
           p \in hooked' => p \in hooked, p \in partly => p \in partly',
           \A u \in OwnURIs(p) : rules'[u] = rules[u],
           \A e \in OwnEndpoints(p) : view'[e] = view[e],
           \A u \in URIs : rules'[u] = rules[u] \/ rules'[u] \notin OwnEndpoints(p)
    PROVE  OwnRoutes(p)'
  <1>1. version[p] \in Versions /\ 1 \in Versions
    BY OneIsAVersion DEF RoutesTypes
  <1>2. \A v \in Versions : \A i \in HookNumbers(p, v) : URI(p, v, i) \in OwnURIs(p)
    BY HooksAreThere
  <1>3. OwnViews(p)'
    BY DEF OwnRoutes, OwnViews
  <1>4. FirstBegins(p)'
    <2>1. FirstURI(p) \in OwnURIs(p) /\ FirstURI(p)' = FirstURI(p) /\ FirstView(p)' = FirstView(p)
      BY <1>1, HooksAreThere DEF FirstURI, FirstView
    <2> SUFFICES ASSUME p \in hooked \/ routing[p] > 1
                 PROVE  /\ rules'[FirstURI(p)] # NoEndpoint
                        /\ view'[rules'[FirstURI(p)]] = FirstView(p)
                        /\ routing[p] > 1 =>
                              \A u \in URIs : rules'[u] = rules'[FirstURI(p)] => u = FirstURI(p)
      BY <2>1 DEF FirstBegins
    <2>2. /\ rules[FirstURI(p)] # NoEndpoint /\ view[rules[FirstURI(p)]] = FirstView(p)
          /\ routing[p] > 1 => \A u \in URIs : rules[u] = rules[FirstURI(p)] => u = FirstURI(p)
      BY DEF OwnRoutes, FirstBegins
    <2>3. rules'[FirstURI(p)] = rules[FirstURI(p)] /\ rules[FirstURI(p)] \in OwnEndpoints(p)
      BY <2>1, <2>2, OwnRule
    <2>4. QED
      BY <2>2, <2>3
  <1>5. AllOrSoFar(p)'
    <2>1. ASSUME NEW i \in HookNumbers(p, 1)
          PROVE  (Answered(p, 1, i)' <=> Answered(p, 1, i)) /\ (SoFar(p, i)' <=> SoFar(p, i))
      BY <1>1, <1>2 DEF Answered, SoFar
    <2>2. QED
      BY <2>1 DEF OwnRoutes, AllOrSoFar
  <1>6. QED
    BY <1>3, <1>4, <1>5 DEF OwnRoutes

\* Steps that leave the rules and views alone.
LEMMA RulesKnownKept == RulesKnown /\ UNCHANGED <<rules, view>> => RulesKnown'
  BY DEF RulesKnown

LEMMA AloneKeepsOthers ==
    ASSUME RoutesInv, NEW p \in Hookers, UNCHANGED <<rules, view>>,
           \A q \in Hookers \ {p} : version'[q] = version[q] /\ routing'[q] = routing[q],
           hooked' \subseteq hooked \cup {p}, partly \subseteq partly'
    PROVE  \A q \in Hookers \ {p} : ~Shares(q) => OwnRoutes(q)'
  <1> SUFFICES ASSUME NEW q \in Hookers, q # p, ~Shares(q) PROVE OwnRoutes(q)'
    OBVIOUS
  <1>1. OwnRoutes(q) /\ RoutesTypes /\ RulesKnown
    BY DEF RoutesInv
  <1>2. version'[q] = version[q] /\ routing'[q] = routing[q]
    OBVIOUS
  <1>3. (q \in hooked' => q \in hooked) /\ (q \in partly => q \in partly')
    OBVIOUS
  <1>4. QED
    BY <1>1, <1>2, <1>3, OwnRoutesKept

LEMMA ActivateHooksInv == ASSUME NEW p \in Hookers PROVE RoutesInv /\ ActivateHooks(p) => RoutesInv'
  <1> SUFFICES ASSUME RoutesInv, ActivateHooks(p) PROVE RoutesInv'
    OBVIOUS
  <1>1. /\ p \notin hooked /\ routing[p] = 0 /\ routing' = [routing EXCEPT ![p] = 1]
        /\ UNCHANGED <<version, hooked, rules, view, served, partly>>
    BY DEF ActivateHooks
  <1>2. routing \in [Hookers -> Nat]
    BY DEF RoutesInv, RoutesTypes
  <1>3. routing'[p] = 1 /\ \A q \in Hookers \ {p} : routing'[q] = routing[q]
    BY <1>1, <1>2
  <1>4. RoutesTypes'
    BY <1>1, <1>2, <1>3 DEF RoutesInv, RoutesTypes
  <1>5. RulesKnown'
    BY <1>1, RulesKnownKept DEF RoutesInv
  <1>6. \A q \in Hookers \ {p} : ~Shares(q) => OwnRoutes(q)'
    BY <1>1, <1>3, AloneKeepsOthers
  <1>7. ASSUME ~Shares(p) PROVE OwnRoutes(p)'
    <2>1. OwnRoutes(p)
      BY <1>7 DEF RoutesInv
    <2>2. FirstBegins(p)' /\ OwnViews(p)'
      BY <1>1, <1>3, <2>1 DEF FirstBegins, OwnViews, OwnRoutes
    <2>3. ASSUME NEW i \in HookNumbers(p, 1)
          PROVE  /\ Answered(p, 1, i)' <=> Answered(p, 1, i)
                 /\ SoFar(p, i)' <=> SoFar(p, i)
      <3>1. i \in Nat \ {0}
        BY OneIsAVersion, HooksAreThere
      <3>2. QED
        BY <1>1, <1>3, <3>1 DEF SoFar, Answered
    <2>4. AllOrSoFar(p)'
      BY <1>1, <2>1, <2>3 DEF OwnRoutes, AllOrSoFar
    <2>5. QED
      BY <2>2, <2>4 DEF OwnRoutes
  <1>8. QED
    BY <1>4, <1>5, <1>6, <1>7 DEF RoutesInv

LEMMA RouteReturnsInv == ASSUME NEW p \in Hookers PROVE RoutesInv /\ RouteReturns(p) => RoutesInv'
  <1> SUFFICES ASSUME RoutesInv, RouteReturns(p) PROVE RoutesInv'
    OBVIOUS
  <1>1. /\ routing[p] > 0 /\ ~Routing(p)
        /\ routing' = [routing EXCEPT ![p] = 0] /\ hooked' = hooked \cup {p}
        /\ UNCHANGED <<version, rules, view, served, partly>>
    BY DEF RouteReturns, RouteEnds
  <1>2. routing \in [Hookers -> Nat] /\ version[p] \in Versions
    BY DEF RoutesInv, RoutesTypes
  <1>3. routing'[p] = 0 /\ \A q \in Hookers \ {p} : routing'[q] = routing[q]
    BY <1>1, <1>2
  <1>4. RoutesTypes'
    BY <1>1, <1>2, <1>3 DEF RoutesInv, RoutesTypes
  <1>5. RulesKnown'
    BY <1>1, RulesKnownKept DEF RoutesInv
  <1>6. \A q \in Hookers \ {p} : ~Shares(q) => OwnRoutes(q)'
    BY <1>1, <1>3, AloneKeepsOthers
  <1>7. \A i \in HookNumbers(p, version[p]) : i < routing[p]
    <2>1. PICK n \in Nat : HookNumbers(p, version[p]) = 1..n
      BY <1>2, HooksAreThere
    <2>2. routing[p] \notin 1..n /\ routing[p] \in Nat
      BY <1>1, <1>2, <2>1 DEF Routing
    <2>3. QED
      BY <1>1, <2>1, <2>2
  <1>8. routing[p] > 1
    BY <1>2, <1>7, HooksAreThere
  <1>9. ASSUME ~Shares(p) PROVE OwnRoutes(p)'
    <2>1. OwnRoutes(p)
      BY <1>9 DEF RoutesInv
    <2>2. FirstBegins(p)' /\ OwnViews(p)'
      BY <1>1, <1>3, <1>8, <2>1 DEF FirstBegins, OwnViews, OwnRoutes, FirstURI, FirstView
    <2>3. ASSUME Keeps(p), p \notin partly, NEW i \in HookNumbers(p, 1) PROVE Answered(p, 1, i)
      <3>1. SoFar(p, i)
        BY <1>2, <1>7, <2>3, KeptWebhooks DEF SoFar
      <3>2. QED
        BY <2>1, <2>3, <3>1 DEF OwnRoutes, AllOrSoFar
    <2>4. AllOrSoFar(p)'
      BY <1>1, <2>3 DEF AllOrSoFar, Answered
    <2>5. QED
      BY <2>2, <2>4 DEF OwnRoutes
  <1>10. QED
    BY <1>4, <1>5, <1>6, <1>9 DEF RoutesInv

LEMMA DownInv ==
    ASSUME NEW p \in Hookers
    PROVE  RoutesInv /\ (DeactivateHooks(p) \/ ReloadHooks(p)) => RoutesInv'
  <1> SUFFICES ASSUME RoutesInv, DeactivateHooks(p) \/ ReloadHooks(p) PROVE RoutesInv'
    OBVIOUS
  <1>1. /\ UNCHANGED <<routing, rules, view, served, partly>>
        /\ \/ hooked' = hooked \ {p} /\ version' = version
           \/ /\ hooked' = hooked /\ p \notin hooked /\ version[p] < MaxVersions
              /\ version' = [version EXCEPT ![p] = @ + 1]
    BY DEF DeactivateHooks, ReloadHooks
  <1>2. /\ version \in [Hookers -> 1..MaxVersions] /\ MaxVersions \in Nat
        /\ routing[p] = 0
    BY WebAssumption DEF RoutesInv, RoutesTypes, Versions, DeactivateHooks, ReloadHooks
  <1>3. version' \in [Hookers -> Versions] /\ \A q \in Hookers \ {p} : version'[q] = version[q]
    <2>1. CASE version' = version
      BY <1>2, <2>1 DEF Versions
    <2>2. CASE version[p] < MaxVersions /\ version' = [version EXCEPT ![p] = @ + 1]
      <3>1. version[p] + 1 \in 1..MaxVersions
        BY <1>2, <2>2
      <3>2. QED
        BY <1>2, <2>2, <3>1 DEF Versions
    <2>3. QED
      BY <1>1, <2>1, <2>2
  <1>4. RoutesTypes'
    BY <1>1, <1>3 DEF RoutesInv, RoutesTypes
  <1>5. RulesKnown'
    BY <1>1, RulesKnownKept DEF RoutesInv
  <1>6. \A q \in Hookers \ {p} : ~Shares(q) => OwnRoutes(q)'
    BY <1>1, <1>3, AloneKeepsOthers
  <1>7. ASSUME ~Shares(p) PROVE OwnRoutes(p)'
    <2>1. OwnRoutes(p)
      BY <1>7 DEF RoutesInv
    <2>2. FirstBegins(p)'
      BY <1>1, <1>2 DEF FirstBegins
    <2>3. OwnViews(p)' /\ AllOrSoFar(p)'
      BY <1>1, <2>1 DEF OwnRoutes, OwnViews, AllOrSoFar, Answered, SoFar
    <2>4. QED
      BY <2>2, <2>3 DEF OwnRoutes
  <1>8. QED
    BY <1>4, <1>5, <1>6, <1>7 DEF RoutesInv

LEMMA FirstRequestInv == RoutesInv /\ FirstRequest => RoutesInv'
  BY DEF FirstRequest, RoutesInv, RoutesTypes, RulesKnown, OwnRoutes, OwnViews, FirstBegins, FirstURI,
         FirstView, AllOrSoFar, Answered, SoFar

\* A rule that exists gets a view of the plugin, which is activated now.
LEMMA ChangeRuleInv == ASSUME NEW p \in Hookers PROVE RoutesInv /\ ChangeRule(p) => RoutesInv'
  <1> SUFFICES ASSUME RoutesInv, ChangeRule(p) PROVE RoutesInv'
    OBVIOUS
  <1> DEFINE e == rules[Current(p)]
  <1>1. /\ Routing(p) /\ e # NoEndpoint /\ view' = [view EXCEPT ![e] = Answer(p)]
        /\ routing' = [routing EXCEPT ![p] = 0] /\ hooked' = hooked \cup {p}
        /\ UNCHANGED <<version, rules, served, partly>>
    BY DEF ChangeRule, RouteEnds
  <1>2. RoutesTypes /\ RulesKnown
    BY DEF RoutesInv
  <1>3. /\ version[p] \in Versions /\ routing[p] \in HookNumbers(p, version[p])
        /\ routing[p] \in Nat \ {0}
        /\ Current(p) \in OwnURIs(p) /\ Current(p) \in URIs
        /\ Answer(p) \in Views /\ Answer(p).of = p
    BY <1>1, <1>2, RoutingTypes
  <1>4. e \in Endpoints /\ view \in [Endpoints -> {NoView} \cup Views] /\ routing \in [Hookers -> Nat]
    BY <1>1, <1>2, <1>3 DEF RoutesTypes
  <1>5. /\ view'[e] = Answer(p) /\ \A f \in Endpoints \ {e} : view'[f] = view[f]
        /\ view' \in [Endpoints -> {NoView} \cup Views]
    BY <1>1, <1>3, <1>4
  <1>6. routing'[p] = 0 /\ \A q \in Hookers \ {p} : routing'[q] = routing[q]
    BY <1>1, <1>4
  <1>7. RoutesTypes'
    BY <1>1, <1>2, <1>4, <1>5, <1>6 DEF RoutesTypes
  <1>8. Answer(p) # NoView
    BY <1>3, NamesAreApart
  <1>9. RulesKnown'
    <2> SUFFICES ASSUME NEW u \in URIs, rules[u] # NoEndpoint
                 PROVE  /\ view'[rules[u]] # NoView
                        /\ \E r \in Hookers : u \in OwnURIs(r) /\ rules[u] \in OwnEndpoints(r)
      BY <1>1 DEF RulesKnown
    <2>1. rules[u] \in Endpoints
      BY <1>2 DEF RoutesTypes
    <2>2. QED
      BY <1>2, <1>5, <1>8, <2>1 DEF RulesKnown
  <1> HIDE DEF e
  <1>10. ASSUME NEW q \in Hookers, q # p, ~Shares(q) PROVE OwnRoutes(q)'
    <2>1. OwnRoutes(q)
      BY <1>10 DEF RoutesInv
    <2>2. e \notin OwnEndpoints(q)
      BY <1>1, <1>2, <1>3, <1>10, OthersRule DEF e
    <2>3. \A f \in OwnEndpoints(q) : view'[f] = view[f]
      BY <1>5, <2>2, OwnIsThere
    <2>4. /\ version'[q] = version[q] /\ routing'[q] = routing[q] /\ (q \in hooked' => q \in hooked)
          /\ (q \in partly => q \in partly') /\ \A u \in URIs : rules'[u] = rules[u]
      BY <1>1, <1>6, <1>10
    <2>5. \A u \in OwnURIs(q) : rules'[u] = rules[u]
      BY <1>1
    <2>6. QED
      BY <1>2, <1>10, <2>1, <2>3, <2>4, <2>5, OwnRoutesKept
  <1>11. ASSUME ~Shares(p) PROVE OwnRoutes(p)'
    <2>1. OwnRoutes(p)
      BY <1>11 DEF RoutesInv
    <2>2. OwnViews(p)'
      BY <1>3, <1>5, <2>1, OwnIsThere DEF OwnRoutes, OwnViews
    <2>3. /\ 1 \in HookNumbers(p, version[p]) /\ FirstURI(p) \in OwnURIs(p) /\ FirstURI(p) \in URIs
          /\ FirstURI(p)' = FirstURI(p) /\ FirstView(p)' = FirstView(p)
      BY <1>1, <1>3, HooksAreThere, OwnIsThere DEF FirstURI, FirstView
    <2>4. rules[FirstURI(p)] # NoEndpoint /\ view'[rules[FirstURI(p)]] = FirstView(p)
      <3>1. CASE routing[p] = 1
        <4>1. Current(p) = FirstURI(p) /\ Answer(p) = FirstView(p)
          BY <3>1 DEF Current, FirstURI, Answer, FirstView
        <4>2. QED
          BY <1>1, <1>5, <4>1 DEF e
      <3>2. CASE routing[p] # 1
        <4>1. routing[p] > 1
          BY <1>3, <3>2
        <4>2. /\ rules[FirstURI(p)] # NoEndpoint /\ view[rules[FirstURI(p)]] = FirstView(p)
              /\ \A u \in URIs : rules[u] = rules[FirstURI(p)] => u = FirstURI(p)
          BY <2>1, <4>1 DEF OwnRoutes, FirstBegins
        <4>3. Current(p) # FirstURI(p)
          BY <1>3, <1>11, <2>3, <3>2, OwnURIsDiffer DEF Current, FirstURI
        <4>4. rules[FirstURI(p)] # e /\ rules[FirstURI(p)] \in Endpoints
          BY <1>2, <1>3, <2>3, <4>2, <4>3 DEF e, RoutesTypes
        <4>5. QED
          BY <1>5, <4>2, <4>4
      <3>3. QED
        BY <3>1, <3>2
    <2>5. FirstBegins(p)'
      BY <1>1, <1>6, <2>3, <2>4 DEF FirstBegins
    <2>6. ASSUME Keeps(p), p \notin partly PROVE \A i \in HookNumbers(p, 1) : Answered(p, 1, i)
      <3>1. routing[p] \in HookNumbers(p, 1) /\ Answered(p, 1, routing[p])
        BY <1>1, <1>3, <2>6, KeptWebhooks DEF Answered, Current, e
      <3>2. ~SoFar(p, routing[p])
        BY <1>3 DEF SoFar
      <3>3. QED
        BY <2>1, <2>6, <3>1, <3>2 DEF OwnRoutes, AllOrSoFar
    <2>7. AllOrSoFar(p)'
      BY <1>1, <2>6 DEF AllOrSoFar, Answered
    <2>8. QED
      BY <2>2, <2>5, <2>7 DEF OwnRoutes
  <1>12. QED
    BY <1>7, <1>9, <1>10, <1>11 DEF RoutesInv

\* A new rule of the plugin for its endpoint.
LEMMA AddRuleInv == ASSUME NEW p \in Hookers PROVE RoutesInv /\ AddRule(p) => RoutesInv'
  <1> SUFFICES ASSUME RoutesInv, AddRule(p) PROVE RoutesInv'
    OBVIOUS
  <1> DEFINE e == EndpointOf(p, version[p], routing[p])
             c == Current(p)
             k == routing[p]
  <1>1. /\ Routing(p) /\ rules[c] = NoEndpoint /\ view[e] = NoView
        /\ rules' = [rules EXCEPT ![c] = e] /\ view' = [view EXCEPT ![e] = Answer(p)]
        /\ routing' = [routing EXCEPT ![p] = @ + 1]
        /\ UNCHANGED <<version, hooked, served, partly>>
    BY DEF AddRule
  <1>2. RoutesTypes /\ RulesKnown
    BY DEF RoutesInv
  <1>3. /\ version[p] \in Versions /\ k \in HookNumbers(p, version[p])
        /\ k \in Nat \ {0} /\ p \notin hooked
        /\ c \in OwnURIs(p) /\ c \in URIs
        /\ e \in OwnEndpoints(p) /\ e \in Endpoints
        /\ Answer(p) \in Views /\ Answer(p).of = p
    BY <1>1, <1>2, RoutingTypes
  <1>4. c = URI(p, version[p], k) /\ Answer(p) = [of |-> p, version |-> version[p], hook |-> k]
    BY DEF Current, Answer
  <1> HIDE DEF e, c
  <1>5. /\ view \in [Endpoints -> {NoView} \cup Views] /\ routing \in [Hookers -> Nat]
        /\ rules \in [URIs -> {NoEndpoint} \cup Endpoints]
    BY <1>2 DEF RoutesTypes
  <1>6. /\ view'[e] = Answer(p) /\ \A f \in Endpoints \ {e} : view'[f] = view[f]
        /\ view' \in [Endpoints -> {NoView} \cup Views]
    BY <1>1, <1>3, <1>5
  <1>7. /\ rules'[c] = e /\ \A u \in URIs \ {c} : rules'[u] = rules[u]
        /\ rules' \in [URIs -> {NoEndpoint} \cup Endpoints]
    BY <1>1, <1>3, <1>5
  <1>8. /\ routing'[p] = routing[p] + 1 /\ \A q \in Hookers \ {p} : routing'[q] = routing[q]
        /\ routing' \in [Hookers -> Nat]
    BY <1>1, <1>5
  <1>9. RoutesTypes'
    BY <1>1, <1>2, <1>3, <1>6, <1>7, <1>8 DEF RoutesTypes
  <1>10. Answer(p) # NoView /\ e # NoEndpoint
    BY <1>3, NamesAreApart
  <1>11. RulesKnown'
    <2> SUFFICES ASSUME NEW u \in URIs, rules'[u] # NoEndpoint
                 PROVE  /\ view'[rules'[u]] # NoView
                        /\ \E r \in Hookers : u \in OwnURIs(r) /\ rules'[u] \in OwnEndpoints(r)
      BY DEF RulesKnown
    <2>1. CASE u = c
      BY <1>3, <1>6, <1>7, <1>10, <2>1
    <2>2. CASE u # c
      <3>1. rules'[u] = rules[u] /\ rules[u] \in Endpoints
        BY <1>5, <1>7, <2>2
      <3>2. QED
        BY <1>2, <1>6, <1>10, <3>1 DEF RulesKnown
    <2>3. QED
      BY <2>1, <2>2
  <1>12. ASSUME NEW q \in Hookers, q # p, ~Shares(q) PROVE OwnRoutes(q)'
    <2>1. OwnRoutes(q)
      BY <1>12 DEF RoutesInv
    <2>2. c \notin OwnURIs(q) /\ e \notin OwnEndpoints(q)
      BY <1>3, <1>12, SharesNone
    <2>3. \A f \in OwnEndpoints(q) : view'[f] = view[f]
      BY <1>6, <2>2, OwnIsThere
    <2>4. \A u \in OwnURIs(q) : rules'[u] = rules[u]
      BY <1>7, <2>2, OwnIsThere
    <2>5. \A u \in URIs : rules'[u] = rules[u] \/ rules'[u] \notin OwnEndpoints(q)
      BY <1>7, <2>2
    <2>6. /\ version'[q] = version[q] /\ routing'[q] = routing[q] /\ (q \in hooked' => q \in hooked)
          /\ (q \in partly => q \in partly')
      BY <1>1, <1>8, <1>12
    <2>7. QED
      BY <1>2, <1>12, <2>1, <2>3, <2>4, <2>5, <2>6, OwnRoutesKept
  <1>13. ASSUME ~Shares(p) PROVE OwnRoutes(p)'
    <2>1. OwnRoutes(p)
      BY <1>13 DEF RoutesInv
    <2>2. OwnViews(p)'
      BY <1>3, <1>6, <2>1, OwnIsThere DEF OwnRoutes, OwnViews
    <2>3. /\ 1 \in HookNumbers(p, version[p]) /\ FirstURI(p) \in OwnURIs(p) /\ FirstURI(p) \in URIs
          /\ FirstURI(p)' = FirstURI(p) /\ FirstView(p)' = FirstView(p)
      BY <1>1, <1>3, HooksAreThere, OwnIsThere DEF FirstURI, FirstView
    <2>4. \A u \in URIs : rules[u] # e
      BY <1>1, <1>2, <1>10 DEF RulesKnown
    <2>5. /\ rules'[FirstURI(p)] # NoEndpoint /\ view'[rules'[FirstURI(p)]] = FirstView(p)
          /\ \A u \in URIs : rules'[u] = rules'[FirstURI(p)] => u = FirstURI(p)
      <3>1. CASE k = 1
        <4>1. c = FirstURI(p) /\ Answer(p) = FirstView(p)
          BY <1>4, <3>1 DEF FirstURI, FirstView
        <4>2. QED
          BY <1>6, <1>7, <1>10, <2>4, <4>1
      <3>2. CASE k # 1
        <4>1. k > 1
          BY <1>3, <3>2
        <4>2. /\ rules[FirstURI(p)] # NoEndpoint /\ view[rules[FirstURI(p)]] = FirstView(p)
              /\ \A u \in URIs : rules[u] = rules[FirstURI(p)] => u = FirstURI(p)
          BY <2>1, <4>1 DEF OwnRoutes, FirstBegins
        <4>3. /\ c # FirstURI(p) /\ rules'[FirstURI(p)] = rules[FirstURI(p)]
              /\ rules[FirstURI(p)] # e /\ rules[FirstURI(p)] \in Endpoints
          BY <1>1, <1>5, <1>7, <2>3, <2>4, <4>2
        <4>4. view'[rules[FirstURI(p)]] = FirstView(p)
          BY <1>6, <4>2, <4>3
        <4>5. QED
          BY <1>7, <4>2, <4>3, <4>4
      <3>3. QED
        BY <3>1, <3>2
    <2>6. FirstBegins(p)'
      BY <2>3, <2>5 DEF FirstBegins
    <2>7. AllOrSoFar(p)'
      <3> SUFFICES ASSUME Keeps(p), p \notin partly
                   PROVE  \/ \A i \in HookNumbers(p, 1) : Answered(p, 1, i)'
                          \/ \A i \in HookNumbers(p, 1) : Answered(p, 1, i)' <=> SoFar(p, i)'
        BY <1>1 DEF AllOrSoFar
      <3>1. HookNumbers(p, version[p]) = HookNumbers(p, 1) /\ c = URI(p, 1, k)
        BY <1>3, <1>4, KeptWebhooks
      <3>2. ASSUME NEW i \in HookNumbers(p, 1)
            PROVE  /\ i \in Nat /\ URI(p, 1, i) \in URIs
                   /\ Answered(p, 1, i) => Answered(p, 1, i)'
                   /\ i # k => (Answered(p, 1, i)' <=> Answered(p, 1, i))
                   /\ i = k => Answered(p, 1, i)'
        <4>1. i \in Nat /\ URI(p, 1, i) \in URIs
          BY OneIsAVersion, HooksAreThere, OwnIsThere
        <4>2. i # k => URI(p, 1, i) # c
          BY <1>3, <1>13, <3>1, OneIsAVersion, OwnURIsDiffer
        <4>3. QED
          BY <1>1, <1>7, <1>10, <3>1, <4>1, <4>2 DEF Answered
      <3>3. CASE \A i \in HookNumbers(p, 1) : Answered(p, 1, i)
        BY <3>2, <3>3
      <3>4. CASE \A i \in HookNumbers(p, 1) : Answered(p, 1, i) <=> SoFar(p, i)
        <4>1. ASSUME NEW i \in HookNumbers(p, 1) PROVE Answered(p, 1, i)' <=> SoFar(p, i)'
          <5>1. SoFar(p, i)' <=> i < k + 1
            BY <1>8 DEF SoFar
          <5>2. SoFar(p, i) <=> i < k
            BY DEF SoFar
          <5>3. i \in Nat
            BY <3>2
          <5>4. CASE i = k
            BY <1>3, <3>2, <5>1, <5>3, <5>4
          <5>5. CASE i # k
            <6>1. i < k + 1 <=> i < k
              BY <1>3, <5>3, <5>5
            <6>2. QED
              BY <3>2, <3>4, <5>1, <5>2, <5>5, <6>1
          <5>6. QED
            BY <5>4, <5>5
        <4>2. QED
          BY <4>1
      <3>5. QED
        BY <2>1, <3>3, <3>4 DEF OwnRoutes, AllOrSoFar
    <2>8. QED
      BY <2>2, <2>6, <2>7 DEF OwnRoutes
  <1>14. QED
    BY <1>9, <1>11, <1>12, <1>13 DEF RoutesInv

\* A rule that is refused, or left without the view it was made for.
LEMMA AddRuleRaisesInv ==
    ASSUME NEW p \in Hookers PROVE RoutesInv /\ AddRuleRaises(p) => RoutesInv'
  <1> SUFFICES ASSUME RoutesInv, AddRuleRaises(p) PROVE RoutesInv'
    OBVIOUS
  <1> DEFINE e == EndpointOf(p, version[p], routing[p])
             c == Current(p)
  <1>1. /\ Routing(p) /\ rules[c] = NoEndpoint /\ (served \/ view[e] # NoView)
        /\ rules' = IF served THEN rules ELSE [rules EXCEPT ![c] = e]
        /\ partly' = IF served /\ routing[p] = 1 THEN partly ELSE partly \cup {p}
        /\ routing' = [routing EXCEPT ![p] = 0]
        /\ UNCHANGED <<version, hooked, view, served>>
    BY DEF AddRuleRaises
  <1>2. RoutesTypes /\ RulesKnown
    BY DEF RoutesInv
  <1>3. /\ routing[p] \in Nat \ {0} /\ p \notin hooked
        /\ c \in OwnURIs(p) /\ c \in URIs /\ e \in OwnEndpoints(p) /\ e \in Endpoints
    BY <1>1, <1>2, RoutingTypes
  <1> HIDE DEF e, c
  <1>4. routing \in [Hookers -> Nat] /\ rules \in [URIs -> {NoEndpoint} \cup Endpoints]
    BY <1>2 DEF RoutesTypes
  <1>5. routing'[p] = 0 /\ \A q \in Hookers \ {p} : routing'[q] = routing[q]
    BY <1>1, <1>4
  <1>6. /\ \A u \in URIs \ {c} : rules'[u] = rules[u]
        /\ rules'[c] = rules[c] \/ (rules'[c] = e /\ view[e] # NoView)
        /\ rules' \in [URIs -> {NoEndpoint} \cup Endpoints]
    BY <1>1, <1>3, <1>4
  <1>7. routing' \in [Hookers -> Nat] /\ partly' \subseteq Hookers /\ partly \subseteq partly'
    BY <1>1, <1>2, <1>4 DEF RoutesTypes
  <1>8. RoutesTypes'
    BY <1>1, <1>2, <1>3, <1>5, <1>6, <1>7 DEF RoutesTypes
  <1>9. RulesKnown'
    <2> SUFFICES ASSUME NEW u \in URIs, rules'[u] # NoEndpoint
                 PROVE  /\ view[rules'[u]] # NoView
                        /\ \E r \in Hookers : u \in OwnURIs(r) /\ rules'[u] \in OwnEndpoints(r)
      BY <1>1 DEF RulesKnown
    <2>1. CASE u = c /\ rules'[c] # rules[c]
      BY <1>3, <1>6, <2>1
    <2>2. CASE rules'[u] = rules[u]
      BY <1>2, <2>2 DEF RulesKnown
    <2>3. QED
      BY <1>6, <2>1, <2>2
  <1>10. ASSUME NEW q \in Hookers, q # p, ~Shares(q) PROVE OwnRoutes(q)'
    <2>1. OwnRoutes(q)
      BY <1>10 DEF RoutesInv
    <2>2. c \notin OwnURIs(q) /\ e \notin OwnEndpoints(q)
      BY <1>3, <1>10, SharesNone
    <2>3. \A f \in OwnEndpoints(q) : view'[f] = view[f]
      BY <1>1
    <2>4. \A u \in OwnURIs(q) : rules'[u] = rules[u]
      BY <1>6, <2>2, OwnIsThere
    <2>5. \A u \in URIs : rules'[u] = rules[u] \/ rules'[u] \notin OwnEndpoints(q)
      BY <1>6, <2>2
    <2>6. /\ version'[q] = version[q] /\ routing'[q] = routing[q] /\ (q \in hooked' => q \in hooked)
          /\ (q \in partly => q \in partly')
      BY <1>1, <1>5, <1>7, <1>10
    <2>7. QED
      BY <1>2, <1>10, <2>1, <2>3, <2>4, <2>5, <2>6, OwnRoutesKept
  <1>11. ASSUME ~Shares(p) PROVE OwnRoutes(p)'
    <2>1. OwnRoutes(p)
      BY <1>11 DEF RoutesInv
    <2>2. OwnViews(p)' /\ FirstBegins(p)'
      BY <1>1, <1>3, <1>5, <2>1 DEF OwnRoutes, OwnViews, FirstBegins
    <2>3. CASE p \in partly'
      BY <2>2, <2>3 DEF OwnRoutes, AllOrSoFar
    <2>4. CASE p \notin partly'
      <3>1. rules' = rules /\ routing[p] = 1 /\ p \notin partly
        BY <1>1, <2>4
      <3>2. ASSUME NEW i \in HookNumbers(p, 1)
            PROVE  (Answered(p, 1, i)' <=> Answered(p, 1, i)) /\ (SoFar(p, i)' <=> SoFar(p, i))
        <4>1. i \in Nat \ {0}
          BY OneIsAVersion, HooksAreThere
        <4>2. QED
          BY <1>5, <3>1, <4>1 DEF Answered, SoFar
      <3>3. QED
        BY <2>1, <2>2, <3>1, <3>2 DEF OwnRoutes, AllOrSoFar
    <2>5. QED
      BY <2>3, <2>4
  <1>12. QED
    BY <1>8, <1>9, <1>10, <1>11 DEF RoutesInv

LEMMA RoutesNextInv == RoutesInv /\ RoutesNext => RoutesInv'
  BY ActivateHooksInv, ChangeRuleInv, AddRuleInv, AddRuleRaisesInv, RouteReturnsInv, DownInv,
     FirstRequestInv DEF RoutesNext

-----------------------------------------------------------------------------
LEMMA WebInitInv == WebInit => WebInv
  <1> SUFFICES ASSUME WebInit PROVE WebInv
    OBVIOUS
  <1>1. WebServerTypes
    <2>1. starts \in 0..MaxStarts /\ server \in 0..starts
      BY WebAssumption DEF WebInit
    <2>2. NotStopping \in [at : {"no", "wait", "join"}, of : 0..MaxStarts]
      BY WebAssumption DEF NotStopping
    <2>3. QED
      BY <2>1, <2>2 DEF WebInit, WebServerTypes
  <1>2. RoutesTypes
    <2>1. 1 \in Versions
      BY OneIsAVersion
    <2>2. QED
      BY <2>1 DEF WebInit, RoutesTypes
  <1>3. RulesKnown
    BY DEF WebInit, RulesKnown
  <1>4. ASSUME NEW p \in Hookers PROVE OwnRoutes(p)
    <2>1. OwnViews(p)
      BY OwnIsThere DEF WebInit, OwnViews
    <2>2. FirstBegins(p)
      BY DEF WebInit, FirstBegins
    <2>3. ASSUME NEW i \in HookNumbers(p, 1) PROVE ~Answered(p, 1, i) /\ ~SoFar(p, i)
      <3>1. URI(p, 1, i) \in URIs /\ i \in Nat
        BY OneIsAVersion, HooksAreThere, OwnIsThere
      <3>2. QED
        BY <3>1 DEF WebInit, Answered, SoFar
    <2>4. QED
      BY <2>1, <2>2, <2>3 DEF OwnRoutes, AllOrSoFar
  <1>5. QED
    BY <1>1, <1>2, <1>3, <1>4 DEF WebInv, RoutesInv

LEMMA RoutesStutterInv ==
    RoutesInv /\ UNCHANGED <<version, hooked, routing, rules, view, served, partly>> => RoutesInv'
  BY DEF RoutesInv, RoutesTypes, RulesKnown, OwnRoutes, OwnViews, FirstBegins, FirstURI,
         FirstView, AllOrSoFar, Answered, SoFar

THEOREM WebInvariant == WebSpec => []WebInv
  <1>1. ASSUME WebInv, [ServerNext \/ RoutesNext]_webVars PROVE WebInv'
    <2>1. CASE ServerNext
      <3>1. UNCHANGED <<version, hooked, routing, rules, view, served, partly>>
        BY <2>1 DEF ServerNext, ConfigureWeb, ActivateWeb, MakeServer, Serve, StopServing,
                    DeactivateWeb, ShutdownReturns, JoinThread, routeVars
      <3>2. RoutesInv'
        BY <1>1, <3>1, RoutesStutterInv DEF WebInv
      <3>3. QED
        BY <1>1, <2>1, <3>2, ServerTypes DEF WebInv
    <2>2. CASE RoutesNext
      <3>1. UNCHANGED <<configured, webUp, starts, thread, server, asked, stopping>>
        BY <2>2 DEF RoutesNext, ActivateHooks, ChangeRule, AddRule, AddRuleRaises, RouteReturns,
                    DeactivateHooks, ReloadHooks, FirstRequest, serverVars
      <3>2. QED
        BY <1>1, <2>2, <3>1, RoutesNextInv DEF WebInv, WebServerTypes
    <2>3. CASE UNCHANGED webVars
      BY <1>1, <2>3, RoutesStutterInv DEF webVars, WebInv, WebServerTypes
    <2>4. QED
      BY <1>1, <2>1, <2>2, <2>3
  <1>2. QED
    BY WebInitInv, <1>1, PTL DEF WebSpec

(* The state of the web server plugin and of its routes keeps its types.      *)
THEOREM WebTypeCorrect == WebSpec => []WebTypeOK
  <1>1. WebInv => WebTypeOK
    BY DEF WebInv, WebServerTypes, RoutesInv, RoutesTypes, WebTypeOK
  <1>2. QED
    BY WebInvariant, <1>1, PTL

(* The first webhook of an active plugin that shares no URI and no endpoint   *)
(* is answered by the object in use, after any number of activations, failed  *)
(* ones among them, deactivations and reloads, none of its webhooks by        *)
(* another plugin, and all are mapped while the code keeps them and no        *)
(* activation failed half way.                                                *)
THEOREM WebhooksAnswerHolds == WebSpec => []WebhooksAnswer
  <1>1. ASSUME WebInv PROVE WebhooksAnswer
    <2> SUFFICES ASSUME NEW p \in hooked, ~Shares(p)
                 PROVE  /\ Answered(p, version[p], 1)
                        /\ AnsweredBy(p, version[p], 1) = [of |-> p, version |-> version[p], hook |-> 1]
                        /\ \A i \in HookNumbers(p, version[p]) :
                              Answered(p, version[p], i) => AnsweredBy(p, version[p], i).of = p
                        /\ Keeps(p) /\ p \notin partly =>
                              \A i \in HookNumbers(p, version[p]) : Answered(p, version[p], i)
      BY DEF WebhooksAnswer
    <2>1. p \in Hookers /\ RoutesTypes /\ RulesKnown /\ version[p] \in Versions /\ routing[p] = 0
      BY <1>1 DEF WebInv, RoutesInv, RoutesTypes
    <2>2. OwnRoutes(p)
      BY <1>1, <2>1 DEF WebInv, RoutesInv
    <2>3. /\ Answered(p, version[p], 1)
          /\ AnsweredBy(p, version[p], 1) = [of |-> p, version |-> version[p], hook |-> 1]
      BY <2>2 DEF OwnRoutes, FirstBegins, Answered, AnsweredBy, FirstURI, FirstView
    <2>4. ASSUME NEW i \in HookNumbers(p, version[p]), Answered(p, version[p], i)
          PROVE  AnsweredBy(p, version[p], i).of = p
      <3>1. URI(p, version[p], i) \in OwnURIs(p)
        BY <2>1, HooksAreThere
      <3>2. /\ rules[URI(p, version[p], i)] \in OwnEndpoints(p)
            /\ view[rules[URI(p, version[p], i)]] # NoView
        BY <2>1, <2>4, <3>1, OwnRule DEF Answered
      <3>3. QED
        BY <2>2, <3>2 DEF OwnRoutes, OwnViews, AnsweredBy
    <2>5. ASSUME Keeps(p), p \notin partly, NEW i \in HookNumbers(p, version[p])
          PROVE  Answered(p, version[p], i)
      <3>1. /\ HookNumbers(p, version[p]) = HookNumbers(p, 1)
            /\ URI(p, version[p], 1) = URI(p, 1, 1) /\ URI(p, version[p], i) = URI(p, 1, i)
        BY <2>1, <2>5, KeptWebhooks
      <3>2. 1 \in HookNumbers(p, 1) /\ Answered(p, 1, 1)
        BY <2>1, <2>3, <3>1, HooksAreThere DEF Answered
      <3>3. ~SoFar(p, 1)
        BY <2>1 DEF SoFar
      <3>4. Answered(p, 1, i)
        BY <2>2, <2>5, <3>1, <3>2, <3>3 DEF OwnRoutes, AllOrSoFar
      <3>5. QED
        BY <3>1, <3>4 DEF Answered
    <2>6. QED
      BY <2>3, <2>4, <2>5
  <1>2. QED
    BY WebInvariant, <1>1, PTL

-----------------------------------------------------------------------------
(* Templates. A directory is on the path at least once for each of its       *)
(* active plugins: what a failed activation leaves behind only adds to that, *)
(* and a deactivation takes one occurrence and one plugin away.              *)

Loaded(d) == {p \in activeOwners : Dir(p) = d}

EnoughOnPath == \A d \in Templated : Cardinality(Loaded(d)) <= templatePath[d]
EnvIsCurrent == env = [path |-> OnPath(templatePath), names |-> pluginTemplates]
NamedWhileActive == \A p \in activeOwners : Dir(p) \in Templated => p \in pluginTemplates

TemplatesInv ==
    /\ TemplatesTypeOK /\ IsFiniteSet(activeOwners)
    /\ EnoughOnPath /\ EnvIsCurrent /\ NamedWhileActive

LEMMA LoadedFinite ==
    ASSUME IsFiniteSet(activeOwners), NEW d
    PROVE  IsFiniteSet(Loaded(d)) /\ Cardinality(Loaded(d)) \in Nat
  <1>1. Loaded(d) \in SUBSET activeOwners
    BY DEF Loaded
  <1>2. QED
    BY <1>1, FS_Subset, FS_CardinalityType

LEMMA TemplatesInitInv == TemplatesInit => TemplatesInv
  <1> SUFFICES ASSUME TemplatesInit PROVE TemplatesInv
    OBVIOUS
  <1>1. /\ activeOwners = {} /\ templatePath = [d \in Dirs |-> 0] /\ pluginTemplates = {}
        /\ env = [path |-> {}, names |-> {}]
    BY DEF TemplatesInit
  <1>2. TemplatesTypeOK
    BY <1>1, TemplatesAssumption DEF TemplatesTypeOK
  <1>3. IsFiniteSet(activeOwners)
    BY <1>1, FS_EmptySet
  <1>4. EnoughOnPath
    <2>1. \A d : Loaded(d) = {}
      BY <1>1 DEF Loaded
    <2>2. \A d \in Templated : templatePath[d] = 0
      BY <1>1, TemplatesAssumption DEF Dirs
    <2>3. QED
      BY <2>1, <2>2, FS_EmptySet DEF EnoughOnPath
  <1>5. EnvIsCurrent
    <2>1. OnPath(templatePath) = {}
      BY <1>1 DEF OnPath
    <2>2. QED
      BY <1>1, <2>1 DEF EnvIsCurrent
  <1>6. NamedWhileActive
    BY <1>1 DEF NamedWhileActive
  <1>7. QED
    BY <1>2, <1>3, <1>4, <1>5, <1>6 DEF TemplatesInv

-----------------------------------------------------------------------------
(* What the two functions of templating.py do to the path, the names and the *)
(* environment.                                                              *)

LEMMA OnPathDirs == \A path : OnPath(path) \subseteq Dirs
  BY DEF OnPath

LEMMA RecreatedIsCurrent ==
    ASSUME RecreateEnv, pluginTemplates' \subseteq Owners
    PROVE  EnvIsCurrent' /\ env' \in [path : SUBSET Dirs, names : SUBSET Owners]
  BY OnPathDirs DEF RecreateEnv, EnvIsCurrent, OnPath

LEMMA AddedPath ==
    ASSUME TemplatesInv, NEW p \in Owners, templatePath[Dir(p)] < MaxAdds, AddPluginTemplatesPath(p)
    PROVE  /\ templatePath' \in [Dirs -> 0..MaxAdds] /\ pluginTemplates' \subseteq Owners
           /\ env' \in [path : SUBSET Dirs, names : SUBSET Owners] /\ EnvIsCurrent'
           /\ pluginTemplates \subseteq pluginTemplates'
           /\ Dir(p) \in Templated => /\ p \in pluginTemplates'
                                      /\ templatePath'[Dir(p)] = templatePath[Dir(p)] + 1
           /\ \A d \in Dirs \ {Dir(p)} : templatePath'[d] = templatePath[d]
           /\ \A d \in Dirs : templatePath[d] <= templatePath'[d]
  <1>1. /\ templatePath \in [Dirs -> 0..MaxAdds] /\ Dir(p) \in Dirs
        /\ pluginTemplates \subseteq Owners
        /\ env \in [path : SUBSET Dirs, names : SUBSET Owners]
    BY DEF TemplatesInv, TemplatesTypeOK, Dirs
  <1>2. CASE Dir(p) \in Templated
    <2>1. /\ templatePath' = [templatePath EXCEPT ![Dir(p)] = @ + 1]
          /\ pluginTemplates' = pluginTemplates \cup {p} /\ RecreateEnv
      BY <1>2 DEF AddPluginTemplatesPath
    <2>2. templatePath[Dir(p)] + 1 \in 0..MaxAdds
      BY <1>1, TemplatesAssumption
    <2>3. templatePath' \in [Dirs -> 0..MaxAdds]
      BY <1>1, <2>1, <2>2
    <2>4. /\ templatePath'[Dir(p)] = templatePath[Dir(p)] + 1
          /\ \A d \in Dirs \ {Dir(p)} : templatePath'[d] = templatePath[d]
      BY <1>1, <2>1
    <2>5. \A d \in Dirs : templatePath[d] <= templatePath'[d]
      <3>1. \A d \in Dirs : templatePath[d] \in Nat
        BY <1>1
      <3>2. QED
        BY <3>1, <2>4
    <2>6. QED
      BY <1>1, <2>1, <2>3, <2>4, <2>5, RecreatedIsCurrent
  <1>3. CASE Dir(p) \notin Templated
    <2>1. UNCHANGED <<templatePath, pluginTemplates, env>>
      BY <1>3 DEF AddPluginTemplatesPath
    <2>2. \A d \in Dirs : templatePath[d] \in Nat
      BY <1>1
    <2>3. EnvIsCurrent'
      BY <2>1 DEF TemplatesInv, EnvIsCurrent, OnPath
    <2>4. QED
      BY <1>1, <1>3, <2>1, <2>2, <2>3
  <1>4. QED
    BY <1>2, <1>3

LEMMA RemovedPath ==
    ASSUME TemplatesInv, NEW p \in Owners, RemovePluginTemplatesPath(p)
    PROVE  /\ templatePath' \in [Dirs -> 0..MaxAdds] /\ pluginTemplates' \subseteq Owners
           /\ env' \in [path : SUBSET Dirs, names : SUBSET Owners] /\ EnvIsCurrent'
           /\ pluginTemplates' = pluginTemplates \ {p}
           /\ templatePath[Dir(p)] <= templatePath'[Dir(p)] + 1
           /\ \A d \in Dirs \ {Dir(p)} : templatePath'[d] = templatePath[d]
  <1>1. /\ templatePath \in [Dirs -> 0..MaxAdds] /\ Dir(p) \in Dirs
        /\ pluginTemplates \subseteq Owners
        /\ env \in [path : SUBSET Dirs, names : SUBSET Owners]
    BY DEF TemplatesInv, TemplatesTypeOK, Dirs
  <1> DEFINE less == IF templatePath[Dir(p)] > 0 THEN templatePath[Dir(p)] - 1 ELSE 0
  <1>2. /\ templatePath' = [templatePath EXCEPT ![Dir(p)] = less]
        /\ pluginTemplates' = pluginTemplates \ {p}
    BY DEF RemovePluginTemplatesPath
  <1>3. templatePath[Dir(p)] \in 0..MaxAdds /\ MaxAdds \in Nat
    BY <1>1, TemplatesAssumption
  <1>4. less \in 0..MaxAdds /\ templatePath[Dir(p)] <= less + 1
    BY <1>3
  <1>5. less = templatePath[Dir(p)] <=> ~(templatePath[Dir(p)] > 0)
    BY <1>3
  <1> HIDE DEF less
  <1>6. templatePath' \in [Dirs -> 0..MaxAdds]
    BY <1>1, <1>2, <1>4
  <1>7. templatePath'[Dir(p)] = less /\ \A d \in Dirs \ {Dir(p)} : templatePath'[d] = templatePath[d]
    BY <1>1, <1>2
  <1>8. EnvIsCurrent' /\ env' \in [path : SUBSET Dirs, names : SUBSET Owners]
    <2>1. CASE templatePath[Dir(p)] > 0 \/ p \in pluginTemplates
      <3>1. RecreateEnv
        BY <2>1 DEF RemovePluginTemplatesPath
      <3>2. QED
        BY <1>1, <1>2, <3>1, RecreatedIsCurrent
    <2>2. CASE ~(templatePath[Dir(p)] > 0 \/ p \in pluginTemplates)
      <3>1. env' = env /\ pluginTemplates' = pluginTemplates
        BY <1>2, <2>2 DEF RemovePluginTemplatesPath
      <3>2. templatePath' = templatePath
        BY <1>1, <1>2, <1>5, <2>2
      <3>3. QED
        BY <1>1, <3>1, <3>2 DEF TemplatesInv, EnvIsCurrent, OnPath
    <2>3. QED
      BY <2>1, <2>2
  <1>9. QED
    BY <1>1, <1>2, <1>4, <1>6, <1>7, <1>8

-----------------------------------------------------------------------------
LEMMA ActivationInv ==
    ASSUME NEW p \in Owners PROVE TemplatesInv /\ TemplatedActivation(p) => TemplatesInv'
  <1> SUFFICES ASSUME TemplatesInv, TemplatedActivation(p) PROVE TemplatesInv'
    OBVIOUS
  <1>1. /\ p \notin activeOwners /\ activeOwners' = activeOwners \cup {p}
        /\ templatePath[Dir(p)] < MaxAdds /\ AddPluginTemplatesPath(p)
    BY DEF TemplatedActivation
  <1>2. IsFiniteSet(activeOwners) /\ IsFiniteSet(activeOwners')
    BY <1>1, FS_AddElement DEF TemplatesInv
  <1>3. EnoughOnPath'
    <2> SUFFICES ASSUME NEW d \in Templated PROVE Cardinality(Loaded(d)') <= templatePath'[d]
      BY DEF EnoughOnPath
    <2>1. d \in Dirs /\ templatePath[d] \in Nat
      BY TemplatesAssumption DEF Dirs, TemplatesInv, TemplatesTypeOK
    <2>2. Cardinality(Loaded(d)) <= templatePath[d] /\ Cardinality(Loaded(d)) \in Nat
      BY <1>2, LoadedFinite DEF TemplatesInv, EnoughOnPath
    <2>3. CASE d = Dir(p)
      <3>1. Loaded(d)' = Loaded(d) \cup {p} /\ p \notin Loaded(d)
        BY <1>1, <2>3 DEF Loaded
      <3>2. Cardinality(Loaded(d)') = Cardinality(Loaded(d)) + 1
        BY <1>2, <3>1, LoadedFinite, FS_AddElement
      <3>3. templatePath'[d] = templatePath[d] + 1
        BY <1>1, <2>3, AddedPath
      <3>4. QED
        BY <2>1, <2>2, <3>2, <3>3
    <2>4. CASE d # Dir(p)
      <3>1. Loaded(d)' = Loaded(d)
        BY <1>1, <2>4 DEF Loaded
      <3>2. templatePath'[d] = templatePath[d]
        BY <1>1, <2>1, <2>4, AddedPath
      <3>3. QED
        BY <2>2, <3>1, <3>2
    <2>5. QED
      BY <2>3, <2>4
  <1>4. NamedWhileActive'
    BY <1>1, AddedPath DEF TemplatesInv, NamedWhileActive
  <1>5. TemplatesTypeOK' /\ EnvIsCurrent'
    BY <1>1, AddedPath DEF TemplatesInv, TemplatesTypeOK
  <1>6. QED
    BY <1>2, <1>3, <1>4, <1>5 DEF TemplatesInv

LEMMA ActivationRaisesInv ==
    ASSUME NEW p \in Owners PROVE TemplatesInv /\ ActivationRaises(p) => TemplatesInv'
  <1> SUFFICES ASSUME TemplatesInv, ActivationRaises(p) PROVE TemplatesInv'
    OBVIOUS
  <1>1. /\ activeOwners' = activeOwners
        /\ templatePath[Dir(p)] < MaxAdds /\ AddPluginTemplatesPath(p)
    BY DEF ActivationRaises
  <1>2. EnoughOnPath'
    <2> SUFFICES ASSUME NEW d \in Templated PROVE Cardinality(Loaded(d)') <= templatePath'[d]
      BY DEF EnoughOnPath
    <2>1. d \in Dirs /\ templatePath[d] \in Nat
      BY TemplatesAssumption DEF Dirs, TemplatesInv, TemplatesTypeOK
    <2>2. Cardinality(Loaded(d)) <= templatePath[d] /\ Cardinality(Loaded(d)) \in Nat
      BY LoadedFinite DEF TemplatesInv, EnoughOnPath
    <2>3. templatePath[d] <= templatePath'[d] /\ templatePath'[d] \in Nat
      BY <1>1, <2>1, AddedPath
    <2>4. Loaded(d)' = Loaded(d)
      BY <1>1 DEF Loaded
    <2>5. QED
      BY <2>1, <2>2, <2>3, <2>4
  <1>3. NamedWhileActive'
    BY <1>1, AddedPath DEF TemplatesInv, NamedWhileActive
  <1>4. TemplatesTypeOK' /\ EnvIsCurrent'
    BY <1>1, AddedPath DEF TemplatesInv, TemplatesTypeOK
  <1>5. QED
    BY <1>1, <1>2, <1>3, <1>4 DEF TemplatesInv

LEMMA ConnectRaisesInv ==
    ASSUME NEW p \in Owners PROVE TemplatesInv /\ ConnectRaises(p) => TemplatesInv'
  <1> SUFFICES ASSUME TemplatesInv, ConnectRaises(p) PROVE TemplatesInv'
    OBVIOUS
  <1>1. /\ p \notin activeOwners /\ UNCHANGED <<templatePath, activeOwners>>
        /\ pluginTemplates' = pluginTemplates \ {p}
    BY DEF ConnectRaises
  <1>2. EnvIsCurrent' /\ env' \in [path : SUBSET Dirs, names : SUBSET Owners]
    <2>1. CASE Dir(p) \in Templated \/ p \in pluginTemplates
      <3>1. RecreateEnv
        BY <2>1 DEF ConnectRaises
      <3>2. QED
        BY <1>1, <3>1, RecreatedIsCurrent DEF TemplatesInv, TemplatesTypeOK
    <2>2. CASE ~(Dir(p) \in Templated \/ p \in pluginTemplates)
      <3>1. env' = env /\ pluginTemplates' = pluginTemplates
        BY <1>1, <2>2 DEF ConnectRaises
      <3>2. QED
        BY <1>1, <3>1 DEF TemplatesInv, TemplatesTypeOK, EnvIsCurrent, OnPath
    <2>3. QED
      BY <2>1, <2>2
  <1>3. EnoughOnPath'
    BY <1>1 DEF TemplatesInv, EnoughOnPath, Loaded
  <1>4. NamedWhileActive' /\ TemplatesTypeOK'
    BY <1>1, <1>2 DEF TemplatesInv, NamedWhileActive, TemplatesTypeOK
  <1>5. QED
    BY <1>1, <1>2, <1>3, <1>4 DEF TemplatesInv

LEMMA DeactivationInv ==
    ASSUME NEW p \in Owners PROVE TemplatesInv /\ TemplatedDeactivation(p) => TemplatesInv'
  <1> SUFFICES ASSUME TemplatesInv, TemplatedDeactivation(p) PROVE TemplatesInv'
    OBVIOUS
  <1>1. /\ p \in activeOwners /\ activeOwners' = activeOwners \ {p} /\ RemovePluginTemplatesPath(p)
    BY DEF TemplatedDeactivation
  <1>2. IsFiniteSet(activeOwners) /\ IsFiniteSet(activeOwners')
    BY <1>1, FS_RemoveElement DEF TemplatesInv
  <1>3. EnoughOnPath'
    <2> SUFFICES ASSUME NEW d \in Templated PROVE Cardinality(Loaded(d)') <= templatePath'[d]
      BY DEF EnoughOnPath
    <2>1. d \in Dirs /\ templatePath[d] \in Nat /\ templatePath'[d] \in Nat
      <3>1. d \in Dirs
        BY TemplatesAssumption DEF Dirs
      <3>2. templatePath \in [Dirs -> 0..MaxAdds] /\ templatePath' \in [Dirs -> 0..MaxAdds]
        BY <1>1, RemovedPath DEF TemplatesInv, TemplatesTypeOK
      <3>3. QED
        BY <3>1, <3>2
    <2>2. Cardinality(Loaded(d)) <= templatePath[d] /\ Cardinality(Loaded(d)) \in Nat
      BY <1>2, LoadedFinite DEF TemplatesInv, EnoughOnPath
    <2>3. CASE d = Dir(p)
      <3>1. Loaded(d)' = Loaded(d) \ {p} /\ p \in Loaded(d)
        BY <1>1, <2>3 DEF Loaded
      <3>2. Cardinality(Loaded(d)') = Cardinality(Loaded(d)) - 1
        BY <1>2, <3>1, LoadedFinite, FS_RemoveElement
      <3>3. templatePath[d] <= templatePath'[d] + 1
        BY <1>1, <2>3, RemovedPath
      <3>4. QED
        BY <2>1, <2>2, <3>2, <3>3
    <2>4. CASE d # Dir(p)
      <3>1. Loaded(d)' = Loaded(d)
        BY <1>1, <2>4 DEF Loaded
      <3>2. templatePath'[d] = templatePath[d]
        BY <1>1, <2>1, <2>4, RemovedPath
      <3>3. QED
        BY <2>2, <3>1, <3>2
    <2>5. QED
      BY <2>3, <2>4
  <1>4. NamedWhileActive'
    BY <1>1, RemovedPath DEF TemplatesInv, NamedWhileActive
  <1>5. TemplatesTypeOK' /\ EnvIsCurrent'
    BY <1>1, RemovedPath DEF TemplatesInv, TemplatesTypeOK
  <1>6. QED
    BY <1>2, <1>3, <1>4, <1>5 DEF TemplatesInv

LEMMA TemplatesStutterInv == TemplatesInv /\ UNCHANGED templateVars => TemplatesInv'
  BY DEF templateVars, TemplatesInv, TemplatesTypeOK, EnoughOnPath, Loaded, EnvIsCurrent, OnPath,
         NamedWhileActive

THEOREM TemplatesInvariant == TemplatesSpec => []TemplatesInv
  <1>1. TemplatesInv /\ [TemplatesNext]_templateVars => TemplatesInv'
    BY ActivationInv, ActivationRaisesInv, ConnectRaisesInv, DeactivationInv, TemplatesStutterInv
       DEF TemplatesNext
  <1>2. QED
    BY TemplatesInitInv, <1>1, PTL DEF TemplatesSpec

(* Every plugin that is active finds its templates, by path and by name.      *)
LEMMA EnoughFinds == TemplatesInv => ActivePluginsFindTemplates
  <1> SUFFICES ASSUME TemplatesInv, NEW p \in activeOwners, Dir(p) \in Templated
               PROVE  Dir(p) \in env.path /\ p \in env.names
    BY DEF ActivePluginsFindTemplates
  <1>1. p \in Owners /\ Dir(p) \in Dirs /\ templatePath[Dir(p)] \in Nat
    BY DEF TemplatesInv, TemplatesTypeOK, Dirs
  <1>2. IsFiniteSet(Loaded(Dir(p))) /\ p \in Loaded(Dir(p))
    BY LoadedFinite DEF TemplatesInv, Loaded
  <1>3. Cardinality(Loaded(Dir(p))) # 0 /\ Cardinality(Loaded(Dir(p))) \in Nat
    BY <1>2, FS_EmptySet, FS_CardinalityType
  <1>4. templatePath[Dir(p)] > 0
    BY <1>1, <1>3 DEF TemplatesInv, EnoughOnPath
  <1>5. QED
    BY <1>1, <1>4 DEF TemplatesInv, EnvIsCurrent, OnPath, NamedWhileActive

THEOREM ActivePluginsFindTemplatesHolds == TemplatesSpec => []ActivePluginsFindTemplates
  BY TemplatesInvariant, EnoughFinds, PTL

\* The template path and the environment keep their types: no directory is on
\* the path more often than it may be.
THEOREM TemplatesTypeCorrect == TemplatesSpec => []TemplatesTypeOK
  <1>1. TemplatesInv => TemplatesTypeOK
    BY DEF TemplatesInv
  <1>2. QED
    BY <1>1, TemplatesInvariant, PTL

-----------------------------------------------------------------------------
(* The services together, as the runs have them: whichever service moves, the *)
(* others see a stutter.                                                      *)

\* A behaviour of the services is a behaviour of each of them.
LEMMA ServicesAreEach ==
    ServicesSpec => PollerSpec /\ StorageSpec /\ TeeSpec /\ WebSpec /\ TemplatesSpec
  <1>1. ServicesInit => PollerInit /\ StorageInit /\ TeeInit /\ WebInit /\ TemplatesInit
    BY DEF ServicesInit
  <1>2. [ServicesNext]_servicesVars => [PollerNext]_pollerVars
    BY DEF ServicesNext, servicesVars
  <1>3. [ServicesNext]_servicesVars => [StorageNext]_storageVars
    BY DEF ServicesNext, servicesVars
  <1>4. [ServicesNext]_servicesVars => [TeeNext]_teeVars
    BY DEF ServicesNext, servicesVars
  <1>5. [ServicesNext]_servicesVars => [ServerNext \/ RoutesNext]_webVars
    BY DEF ServicesNext, servicesVars
  <1>6. [ServicesNext]_servicesVars => [TemplatesNext]_templateVars
    BY DEF ServicesNext, servicesVars
  <1>7. QED
    BY <1>1, <1>2, <1>3, <1>4, <1>5, <1>6, PTL
       DEF ServicesSpec, PollerSpec, StorageSpec, TeeSpec, WebSpec, TemplatesSpec

\* All the services keep their types.
THEOREM ServicesTypeCorrect == ServicesSpec => []ServicesTypeOK
  BY ServicesAreEach, PollerTypeCorrect, StorageTypeCorrect, TeeTypeCorrect, WebTypeCorrect,
     TemplatesTypeCorrect, PTL DEF ServicesTypeOK
=============================================================================
