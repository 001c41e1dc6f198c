-------------------------- MODULE Backends_proofs ---------------------------
(***************************************************************************)
(* Proofs about the connection of a backend, the repositories of plugins,  *)
(* the access to commands, file transfers and what the bot says, for every *)
(* number of updates, crashes and senders, every set of repositories, every*)
(* configuration of rules and every text; then about the components of     *)
(* MCBackends together.                                                    *)
(***************************************************************************)
EXTENDS MCBackends, Integers, Rooms_proofs

-----------------------------------------------------------------------------
LEMMA MaxOfTwo == ASSUME NEW a \in Nat, NEW b \in Nat PROVE Max({a, b}) = IF a >= b THEN a ELSE b
  BY DEF Max

LEMMA MinOfTwo == ASSUME NEW a \in Nat, NEW b \in Nat PROVE Min({a, b}) = IF a <= b THEN a ELSE b
  BY DEF Min

-----------------------------------------------------------------------------
(* The offset that is stored is the one point everything refers to: what is  *)
(* handled lies before it, what is still to come is consecutive from it on,  *)
(* and the server has forgotten nothing beyond it.                           *)

FirstHandled(o) == IF o = 0 THEN 1 ELSE o
ConnServing == phase \in {"polling", "handling"}

ConnTyped ==
    /\ backend \in {"telegram", "text", "test"} /\ phase \in Phases
    /\ leaving \in BOOLEAN /\ active \in BOOLEAN /\ storageOpen \in BOOLEAN
    /\ delay \in 1..(MaxDelay + Jitter)
    /\ arrived \in 0..NUpdates
    /\ confirmed \in 0..(NUpdates + 1) /\ offset \in 0..(NUpdates + 1)
    /\ stored \in 0..(NUpdates + 1)
    /\ batch \in Seq(Updates) /\ handled \in Seq(Updates)
    /\ lost \subseteq Updates /\ crashes \in 0..MaxCrashes

OffsetStored ==
    /\ Remote /\ ConnServing => offset = stored
    /\ phase = "handling" => Remote /\ offset >= 2
    /\ confirmed <= stored

BatchFollows ==
    batch # <<>> => /\ Remote /\ ConnServing
                    /\ \A i \in 1..Len(batch) : batch[i] = FirstHandled(offset) + i - 1

HandledBefore ==
    /\ Remote => \A i \in 1..Len(handled) : handled[i] < stored
    /\ phase = "handling" => \A i \in 1..Len(handled) : handled[i] < offset - 1
    /\ ~Remote => \A i \in 1..Len(handled) : handled[i] = i

HandledInOrder == \A i, j \in 1..Len(handled) : i < j => handled[i] < handled[j]

Accounted(u) ==
    \/ \E i \in 1..Len(handled) : handled[i] = u
    \/ u \in lost
    \/ phase = "handling" /\ u = offset - 1

NoneSkipped == Remote => \A u \in 1..(stored - 1) : Accounted(u)

ConnInv == ConnTyped /\ OffsetStored /\ BatchFollows /\ HandledBefore /\ HandledInOrder /\ NoneSkipped

LEMMA ConnInvTypeOK == ConnInv => ConnectionTypeOK
  BY DEF ConnInv, ConnTyped, ConnectionTypeOK

LEMMA ConnInvOnce == ConnInv => UpdatesAreHandledOnce
  <1> SUFFICES ASSUME ConnInv PROVE UpdatesAreHandledOnce
    OBVIOUS
  <1>1. DOMAIN handled = 1..Len(handled)
    BY DEF ConnInv, ConnTyped
  <1>2. QED
    BY <1>1 DEF ConnInv, HandledInOrder, NoneSkipped, Accounted, UpdatesAreHandledOnce

LEMMA ConnInitInv == ConnectionInit => ConnInv
  <1> SUFFICES ASSUME ConnectionInit PROVE ConnInv
    OBVIOUS
  <1>1. batch = <<>> /\ handled = <<>> /\ phase = "connecting" /\ offset = 0 /\ stored = 0 /\ confirmed = 0
    BY DEF ConnectionInit
  <1>2. ConnTyped
    <2>1. 1 \in 1..(MaxDelay + Jitter) /\ 0 \in 0..NUpdates /\ 0 \in 0..(NUpdates + 1) /\ 0 \in 0..MaxCrashes
      BY ConnectionAssumption
    <2> <<>> \in Seq(Updates)
      OBVIOUS
    <2>2. QED
      BY <2>1 DEF ConnectionInit, ConnTyped, Phases
  <1>3. OffsetStored /\ BatchFollows
    BY <1>1 DEF OffsetStored, BatchFollows, ConnServing
  <1>4. HandledBefore /\ HandledInOrder
    BY <1>1 DEF HandledBefore, HandledInOrder
  <1>5. NoneSkipped
    BY <1>1 DEF NoneSkipped
  <1>6. QED
    BY <1>2, <1>3, <1>4, <1>5 DEF ConnInv

-----------------------------------------------------------------------------
(* The steps that leave what is stored and handled alone, and no longer      *)
(* serve or go on serving with the same offset.                              *)

Untouched == UNCHANGED <<backend, confirmed, stored, handled, lost>>

LEMMA QuietStep ==
    ASSUME ConnInv, ConnTyped', Untouched, phase # "handling", phase' # "handling",
           phase' = "polling" => offset' = stored,
           batch' = <<>> \/ (UNCHANGED <<batch, offset>> /\ phase' = phase)
    PROVE  ConnInv'
  <1>1. OffsetStored'
    BY DEF ConnInv, OffsetStored, Untouched, ConnServing, Remote
  <1>2. BatchFollows'
    BY DEF ConnInv, BatchFollows, Untouched, ConnServing, Remote
  <1>3. HandledBefore' /\ HandledInOrder'
    BY DEF ConnInv, HandledBefore, HandledInOrder, Untouched, Remote
  <1>4. NoneSkipped'
    BY DEF ConnInv, NoneSkipped, Accounted, Untouched, Remote
  <1>5. QED
    BY <1>1, <1>2, <1>3, <1>4 DEF ConnInv

LEMMA SameStep ==
    ASSUME ConnInv, ConnTyped', Untouched, UNCHANGED <<phase, batch, offset>>
    PROVE  ConnInv'
  <1>1. OffsetStored' /\ BatchFollows'
    BY DEF ConnInv, OffsetStored, BatchFollows, Untouched, ConnServing, Remote
  <1>2. HandledBefore' /\ HandledInOrder'
    BY DEF ConnInv, HandledBefore, HandledInOrder, Untouched, Remote
  <1>3. NoneSkipped'
    BY DEF ConnInv, NoneSkipped, Accounted, Untouched, Remote
  <1>4. QED
    BY <1>1, <1>2, <1>3 DEF ConnInv

LEMMA ArriveInv == ConnInv /\ Arrive => ConnInv'
  <1> SUFFICES ASSUME ConnInv, Arrive PROVE ConnInv'
    OBVIOUS
  <1>1. ConnTyped'
    BY ConnectionAssumption DEF ConnInv, ConnTyped, Arrive, storeVars, Updates, Phases
  <1>2. QED
    BY <1>1, SameStep DEF Arrive, storeVars, Untouched

LEMMA ConnectInv == ConnInv /\ (Connect \/ ConnectCallback) => ConnInv'
  <1> SUFFICES ASSUME ConnInv, Connect \/ ConnectCallback PROVE ConnInv'
    OBVIOUS
  <1>1. ConnTyped'
    <2>1. delay' \in 1..(MaxDelay + Jitter) /\ offset' \in 0..(NUpdates + 1) /\ active' \in BOOLEAN
      <3>1. delay \in 1..(MaxDelay + Jitter) /\ 1 \in 1..(MaxDelay + Jitter)
        BY ConnectionAssumption DEF ConnInv, ConnTyped
      <3>2. delay' \in {1, delay} /\ offset' \in {offset, stored} /\ active' \in {TRUE, active}
        BY DEF Connect, ConnectCallback, storeVars, Remote
      <3>3. QED
        BY <3>1, <3>2 DEF ConnInv, ConnTyped
    <2>2. QED
      <3>1. phase' \in Phases
        BY DEF Connect, ConnectCallback, Phases
      <3>2. UNCHANGED <<backend, leaving, arrived, confirmed, stored, batch, handled, lost,
                       storageOpen, crashes>>
        BY DEF Connect, ConnectCallback, storeVars
      <3>3. QED
        BY <2>1, <3>1, <3>2 DEF ConnInv, ConnTyped
  <1>2. Untouched /\ phase # "handling" /\ phase' # "handling" /\ (phase' = "polling" => offset' = stored)
    BY DEF Untouched, Connect, ConnectCallback, storeVars
  <1>3. batch = <<>> /\ batch' = <<>>
    BY DEF ConnInv, BatchFollows, ConnServing, Connect, ConnectCallback, storeVars
  <1>4. QED
    BY <1>1, <1>2, <1>3, QuietStep

LEMMA LeaveInv ==
    ConnInv /\ (StreamFails \/ DisconnectCallback \/ Shutdown) => ConnInv'
  <1> SUFFICES ASSUME ConnInv, StreamFails \/ DisconnectCallback \/ Shutdown PROVE ConnInv'
    OBVIOUS
  <1>1. ConnTyped'
    <2>1. batch' \in Seq(Updates)
      <3>1. batch' \in {<<>>, batch}
        BY DEF StreamFails, DisconnectCallback, Shutdown, storeVars
      <3>2. <<>> \in Seq(Updates)
        OBVIOUS
      <3>3. QED
        BY <3>1, <3>2 DEF ConnInv, ConnTyped
    <2>2. phase' \in Phases
      <3>1. phase' \in {"closing", "shutting", "waiting", "stopped"}
        BY Zenon DEF StreamFails, DisconnectCallback, Shutdown
      <3>2. QED
        BY <3>1 DEF Phases
    <2>3. active' \in {FALSE, active} /\ storageOpen' \in {FALSE, storageOpen}
      BY DEF StreamFails, DisconnectCallback, Shutdown
    <2>4. UNCHANGED <<backend, leaving, delay, arrived, confirmed, offset, stored, handled, lost,
                      crashes>>
      BY DEF StreamFails, DisconnectCallback, Shutdown, storeVars
    <2>5. active' \in BOOLEAN /\ storageOpen' \in BOOLEAN
      BY <2>3 DEF ConnInv, ConnTyped
    <2>6. QED
      BY <2>1, <2>2, <2>4, <2>5 DEF ConnInv, ConnTyped
  <1>2. Untouched /\ phase # "handling" /\ phase' \notin {"handling", "polling"}
    BY DEF Untouched, StreamFails, DisconnectCallback, Shutdown, storeVars
  <1>3. batch' = <<>>
    BY DEF ConnInv, BatchFollows, ConnServing, StreamFails, DisconnectCallback, Shutdown, storeVars
  <1>4. QED
    BY <1>1, <1>2, <1>3, QuietStep

(* The delay after an attempt that failed: it never falls below what it was  *)
(* before, unless that was at the maximum already.                           *)
LEMMA NextDelay ==
    ASSUME ConnInv, DelayReconnect
    PROVE  /\ delay' \in 1..(MaxDelay + Jitter)
           /\ delay' >= delay \/ delay >= MaxDelay
  <1>1. /\ delay \in Nat \ {0} /\ MaxDelay \in Nat \ {0} /\ Jitter \in Nat
    BY ConnectionAssumption DEF ConnInv, ConnTyped
  <1>2. (7 * delay) \div 4 \in Nat /\ (7 * delay) \div 4 >= delay
    BY <1>1
  <1>3. PICK jitter \in 0..Jitter : delay' = Min({(7 * delay) \div 4, MaxDelay}) + jitter
    BY DEF DelayReconnect
  <1> DEFINE grown == (7 * delay) \div 4
  <1>4. Min({grown, MaxDelay}) = IF grown <= MaxDelay THEN grown ELSE MaxDelay
    <2> HIDE DEF grown
    <2>1. grown \in Nat
      BY <1>2 DEF grown
    <2>2. QED
      BY <1>1, <2>1, MinOfTwo
  <1>5. grown \in Nat /\ grown >= delay
    BY <1>2
  <1>6. delay' = Min({grown, MaxDelay}) + jitter
    BY <1>3
  <1> HIDE DEF grown
  <1>7. QED
    BY <1>1, <1>4, <1>5, <1>6

LEMMA DelayInv == ConnInv /\ DelayReconnect => ConnInv'
  <1> SUFFICES ASSUME ConnInv, DelayReconnect PROVE ConnInv'
    OBVIOUS
  <1>1. /\ phase = "waiting" /\ phase' = "connecting"
        /\ UNCHANGED <<backend, leaving, arrived, storeVars, active, storageOpen, crashes>>
    BY DEF DelayReconnect
  <1>2. ConnTyped'
    BY <1>1, NextDelay DEF ConnInv, ConnTyped, storeVars, Phases, Updates
  <1>3. Untouched /\ batch' = <<>>
    BY <1>1 DEF ConnInv, BatchFollows, ConnServing, storeVars, Untouched
  <1>4. QED
    BY <1>1, <1>2, <1>3, QuietStep

-----------------------------------------------------------------------------
(* Fetching, taking and handling an update.                                  *)

LEMMA GetUpdatesInv == ConnInv /\ GetUpdates => ConnInv'
  <1> SUFFICES ASSUME ConnInv, GetUpdates PROVE ConnInv'
    OBVIOUS
  <1>1. /\ Remote /\ phase = "polling" /\ batch' # <<>> /\ batch = <<>>
        /\ UNCHANGED <<backend, phase, leaving, delay, arrived, offset, stored, handled, lost,
                       active, storageOpen, crashes>>
    BY DEF GetUpdates
  <1>2. /\ confirmed \in Nat /\ offset \in Nat /\ NUpdates \in Nat /\ offset <= NUpdates + 1
        /\ arrived \in 0..NUpdates
    BY ConnectionAssumption DEF ConnInv, ConnTyped
  <1>3. confirmed <= offset /\ offset = stored
    BY <1>1 DEF ConnInv, OffsetStored, ConnServing
  <1>4. confirmed' = offset
    <2>1. confirmed' = Max({confirmed, offset})
      BY DEF GetUpdates
    <2>2. QED
      BY <1>2, <1>3, <2>1, MaxOfTwo
  <1>5. Max({confirmed', 1}) = FirstHandled(offset)
    BY <1>2, <1>4, MaxOfTwo DEF FirstHandled
  <1>6. PICK n \in 0..arrived :
          batch' = [i \in 1..(IF n < confirmed' THEN 0 ELSE n - Max({confirmed', 1}) + 1) |->
                       i + Max({confirmed', 1}) - 1]
    BY DEF GetUpdates
  <1> DEFINE m == IF n < offset THEN 0 ELSE n - FirstHandled(offset) + 1
  <1>7. batch' = [i \in 1..m |-> i + FirstHandled(offset) - 1]
    BY <1>4, <1>5, <1>6
  <1>8. /\ m \in Nat /\ FirstHandled(offset) \in Nat
        /\ \A i \in 1..m : i + FirstHandled(offset) - 1 \in Updates
    BY <1>2 DEF FirstHandled, Updates
  <1> HIDE DEF m
  <1>9. batch' \in Seq(Updates) /\ Len(batch') = m
    BY <1>7, <1>8
  <1>10. ConnTyped'
    <2>1. confirmed' \in 0..(NUpdates + 1)
      BY <1>2, <1>4
    <2>2. QED
      BY <1>1, <1>9, <2>1 DEF ConnInv, ConnTyped
  <1>11. OffsetStored'
    BY <1>1, <1>2, <1>3, <1>4 DEF OffsetStored
  <1>12. BatchFollows'
    BY <1>1, <1>7, <1>8, <1>9 DEF BatchFollows, Remote, ConnServing, FirstHandled
  <1>13. HandledBefore' /\ HandledInOrder' /\ NoneSkipped'
    BY <1>1 DEF ConnInv, HandledBefore, HandledInOrder, NoneSkipped, Accounted, Remote
  <1>14. QED
    BY <1>10, <1>11, <1>12, <1>13 DEF ConnInv

LEMMA TakeUpdateInv == ConnInv /\ TakeUpdate => ConnInv'
  <1> SUFFICES ASSUME ConnInv, TakeUpdate PROVE ConnInv'
    OBVIOUS
  <1>1. /\ Remote /\ phase = "polling" /\ batch # <<>> /\ phase' = "handling"
        /\ offset' = Head(batch) + 1 /\ stored' = offset' /\ batch' = Tail(batch)
        /\ UNCHANGED <<backend, leaving, delay, arrived, confirmed, handled, lost, active,
                       storageOpen, crashes>>
    BY DEF TakeUpdate
  <1>2. /\ confirmed \in Nat /\ offset \in Nat /\ NUpdates \in Nat /\ stored = offset /\ confirmed <= stored
        /\ batch \in Seq(Updates) /\ handled \in Seq(Updates)
    BY <1>1, ConnectionAssumption DEF ConnInv, ConnTyped, OffsetStored, ConnServing
  <1>3. \A i \in 1..Len(batch) : batch[i] = FirstHandled(offset) + i - 1
    BY <1>1 DEF ConnInv, BatchFollows
  <1>4. FirstHandled(offset) \in Nat /\ FirstHandled(offset) >= 1 /\ offset <= FirstHandled(offset)
    BY <1>2 DEF FirstHandled
  <1>5. Len(batch) \in Nat \ {0} /\ Head(batch) = batch[1] /\ Head(batch) \in Updates
    BY <1>1, <1>2
  <1>6. Head(batch) = FirstHandled(offset)
    BY <1>3, <1>4, <1>5
  <1>7. FirstHandled(offset) \in 1..NUpdates /\ offset' = FirstHandled(offset) + 1 /\ FirstHandled(offset') = offset'
    BY <1>1, <1>4, <1>5, <1>6 DEF Updates, FirstHandled
  <1>8. /\ batch' \in Seq(Updates) /\ Len(batch') = Len(batch) - 1
        /\ \A i \in 1..Len(batch') : batch'[i] = batch[i + 1]
    BY <1>1, <1>2, <1>5
  <1>9. ConnTyped'
    <2>1. offset' \in 0..(NUpdates + 1) /\ stored' \in 0..(NUpdates + 1)
      BY <1>1, <1>2, <1>7
    <2>2. QED
      BY <1>1, <1>8, <2>1 DEF ConnInv, ConnTyped, Phases
  <1>10. OffsetStored'
    BY <1>1, <1>2, <1>4, <1>7 DEF OffsetStored, Remote
  <1>11. BatchFollows'
    <2>1. \A i \in 1..Len(batch') : batch'[i] = FirstHandled(offset') + i - 1
      <3>1. TAKE i \in 1..Len(batch')
      <3>2. i + 1 \in 1..Len(batch)
        BY <1>5, <1>8
      <3>3. batch'[i] = FirstHandled(offset) + (i + 1) - 1
        BY <1>3, <1>8, <3>2
      <3>4. QED
        BY <1>4, <1>5, <1>7, <1>8, <3>3
    <2>2. QED
      BY <1>1, <2>1 DEF BatchFollows, Remote, ConnServing
  <1>12. HandledBefore'
    <2>1. \A i \in 1..Len(handled) : handled[i] \in Nat /\ handled[i] < offset
      BY <1>1, <1>2 DEF ConnInv, HandledBefore, Updates
    <2>2. \A i \in 1..Len(handled) : handled[i] < stored' /\ handled[i] < offset' - 1
      BY <1>1, <1>2, <1>4, <1>7, <2>1
    <2>3. QED
      BY <1>1, <2>2 DEF HandledBefore, Remote
  <1>13. HandledInOrder'
    BY <1>1 DEF ConnInv, HandledInOrder
  <1>14. NoneSkipped'
    <2>1. SUFFICES ASSUME NEW u \in 1..(stored' - 1) PROVE Accounted(u)'
      BY DEF NoneSkipped
    <2>2. CASE u = offset' - 1
      BY <1>1, <2>2 DEF Accounted
    <2>3. CASE u # offset' - 1
      <3>1. u \in 1..(stored - 1)
        BY <1>1, <1>2, <1>7, <2>3 DEF FirstHandled
      <3>2. Accounted(u)
        BY <1>1, <3>1 DEF ConnInv, NoneSkipped
      <3>3. QED
        BY <1>1, <3>2 DEF Accounted
    <2>4. QED
      BY <2>2, <2>3
  <1>15. QED
    BY <1>9, <1>10, <1>11, <1>12, <1>13, <1>14 DEF ConnInv

(* What is appended is greater than what was handled before.                 *)
LEMMA AppendOrder ==
    ASSUME ConnInv, NEW u \in Updates, handled' = Append(handled, u),
           \A i \in 1..Len(handled) : handled[i] < u
    PROVE  /\ handled' \in Seq(Updates) /\ Len(handled') = Len(handled) + 1
           /\ handled'[Len(handled) + 1] = u
           /\ \A i \in 1..Len(handled) : handled'[i] = handled[i]
           /\ HandledInOrder'
  <1>1. handled \in Seq(Updates)
    BY DEF ConnInv, ConnTyped
  <1>2. /\ handled' \in Seq(Updates) /\ Len(handled') = Len(handled) + 1
        /\ handled'[Len(handled) + 1] = u
        /\ \A i \in 1..Len(handled) : handled'[i] = handled[i]
    BY <1>1
  <1>3. HandledInOrder'
    <2>1. SUFFICES ASSUME NEW i \in 1..Len(handled'), NEW j \in 1..Len(handled'), i < j
                   PROVE  handled'[i] < handled'[j]
      BY DEF HandledInOrder
    <2>2. i \in 1..Len(handled) /\ (j \in 1..Len(handled) \/ j = Len(handled) + 1)
      BY <1>1, <1>2, <2>1
    <2>3. QED
      BY <1>2, <2>1, <2>2 DEF ConnInv, HandledInOrder
  <1>4. QED
    BY <1>2, <1>3

LEMMA HandleUpdateInv == ConnInv /\ HandleUpdate => ConnInv'
  <1> SUFFICES ASSUME ConnInv, HandleUpdate PROVE ConnInv'
    OBVIOUS
  <1>1. /\ phase = "handling" /\ phase' = "polling" /\ handled' = Append(handled, offset - 1)
        /\ UNCHANGED <<backend, leaving, delay, arrived, confirmed, offset, stored, batch, lost,
                       active, storageOpen, crashes>>
    BY DEF HandleUpdate
  <1>2. /\ Remote /\ offset >= 2 /\ offset = stored /\ offset \in 0..(NUpdates + 1) /\ NUpdates \in Nat
        /\ confirmed <= stored
    BY <1>1, ConnectionAssumption DEF ConnInv, ConnTyped, OffsetStored, ConnServing
  <1>3. offset - 1 \in Updates
    BY <1>2 DEF Updates
  <1>4. \A i \in 1..Len(handled) : handled[i] < offset - 1
    BY <1>1 DEF ConnInv, HandledBefore
  <1>5. /\ handled' \in Seq(Updates) /\ Len(handled') = Len(handled) + 1
        /\ handled'[Len(handled) + 1] = offset - 1
        /\ \A i \in 1..Len(handled) : handled'[i] = handled[i]
        /\ HandledInOrder'
    BY <1>1, <1>3, <1>4, AppendOrder
  <1>6. Len(handled) \in Nat /\ handled \in Seq(Updates)
    BY DEF ConnInv, ConnTyped
  <1>7. ConnTyped'
    BY <1>1, <1>5 DEF ConnInv, ConnTyped, Phases
  <1>8. OffsetStored' /\ BatchFollows'
    BY <1>1, <1>2 DEF ConnInv, OffsetStored, BatchFollows, Remote, ConnServing
  <1>9. HandledBefore'
    <2>1. \A i \in 1..Len(handled') : i \in 1..Len(handled) \/ i = Len(handled) + 1
      BY <1>5, <1>6
    <2>2. \A i \in 1..Len(handled) : handled[i] < stored
      BY <1>2 DEF ConnInv, HandledBefore
    <2>3. \A i \in 1..Len(handled') : handled'[i] < stored
      BY <1>2, <1>5, <2>1, <2>2
    <2>4. QED
      BY <1>1, <1>2, <2>3 DEF HandledBefore, Remote
  <1>10. NoneSkipped'
    <2>1. SUFFICES ASSUME NEW u \in 1..(stored' - 1) PROVE Accounted(u)'
      BY DEF NoneSkipped
    <2>2. Accounted(u)
      BY <1>1, <1>2, <2>1 DEF ConnInv, NoneSkipped
    <2>3. CASE u = offset - 1
      <3>1. Len(handled) + 1 \in 1..Len(handled')
        BY <1>5, <1>6
      <3>2. QED
        BY <1>5, <2>3, <3>1 DEF Accounted
    <2>4. CASE u \in lost
      BY <1>1, <2>4 DEF Accounted
    <2>5. CASE \E i \in 1..Len(handled) : handled[i] = u
      BY <1>5, <1>6, <2>5 DEF Accounted
    <2>6. QED
      BY <2>2, <2>3, <2>4, <2>5 DEF Accounted
  <1>11. QED
    BY <1>5, <1>7, <1>8, <1>9, <1>10 DEF ConnInv

LEMMA LocalEntryInv == ConnInv /\ (ConsoleEntry \/ QueueEntry) => ConnInv'
  <1> SUFFICES ASSUME ConnInv, ConsoleEntry \/ QueueEntry PROVE ConnInv'
    OBVIOUS
  <1>1. /\ ~Remote /\ phase = "polling" /\ phase' \in {"polling", "closing"} /\ Len(handled) < arrived
        /\ UNCHANGED <<backend, delay, arrived, confirmed, offset, stored, batch, lost, active,
                       storageOpen, crashes>>
        /\ leaving' \in {leaving, TRUE}
    BY DEF ConsoleEntry, QueueEntry, Remote
  <1>2. handled' = Append(handled, Len(handled) + 1) \/ handled' = handled
    BY DEF ConsoleEntry, QueueEntry
  <1>3. batch = <<>>
    BY <1>1 DEF ConnInv, BatchFollows
  <1>4. Len(handled) \in Nat /\ handled \in Seq(Updates) /\ \A i \in 1..Len(handled) : handled[i] = i
    BY <1>1 DEF ConnInv, ConnTyped, HandledBefore
  <1>5. /\ handled' \in Seq(Updates) /\ HandledInOrder'
        /\ \A i \in 1..Len(handled') : handled'[i] = i
    <2>1. CASE handled' = handled
      BY <1>4, <2>1 DEF ConnInv, HandledInOrder
    <2>2. CASE handled' = Append(handled, Len(handled) + 1)
      <3>1. arrived \in 0..NUpdates /\ NUpdates \in Nat
        BY ConnectionAssumption DEF ConnInv, ConnTyped
      <3>2. Len(handled) + 1 \in Updates
        BY <1>1, <1>4, <3>1 DEF Updates
      <3>3. \A i \in 1..Len(handled) : handled[i] < Len(handled) + 1
        BY <1>4
      <3>4. QED
        BY <1>4, <2>2, <3>2, <3>3, AppendOrder
    <2>3. QED
      BY <1>2, <2>1, <2>2
  <1>6. ConnTyped'
    BY <1>1, <1>5 DEF ConnInv, ConnTyped, Phases
  <1>7. OffsetStored' /\ BatchFollows' /\ HandledBefore' /\ NoneSkipped'
    BY <1>1, <1>3, <1>5 DEF ConnInv, OffsetStored, BatchFollows, HandledBefore, NoneSkipped, Remote
  <1>8. QED
    BY <1>5, <1>6, <1>7 DEF ConnInv

-----------------------------------------------------------------------------
(* An interrupt, or the end of the process, in the middle of anything.       *)

LEMMA BrokenOff ==
    ASSUME ConnInv, ConnTyped', UNCHANGED <<backend, stored, confirmed, handled>>,
           batch' = <<>>, phase' \notin {"polling", "handling"},
           lost' = IF phase = "handling" THEN lost \cup {offset - 1} ELSE lost
    PROVE  ConnInv'
  <1>1. OffsetStored' /\ BatchFollows'
    BY DEF ConnInv, OffsetStored, BatchFollows, ConnServing
  <1>2. HandledBefore' /\ HandledInOrder'
    BY DEF ConnInv, HandledBefore, HandledInOrder, Remote
  <1>3. NoneSkipped'
    BY DEF ConnInv, NoneSkipped, Accounted, Remote
  <1>4. QED
    BY <1>1, <1>2, <1>3 DEF ConnInv

LEMMA LostIsAnUpdate ==
    ASSUME ConnInv
    PROVE  (IF phase = "handling" THEN lost \cup {offset - 1} ELSE lost) \subseteq Updates
  BY ConnectionAssumption DEF ConnInv, ConnTyped, OffsetStored, Updates

LEMMA InterruptInv == ConnInv /\ Interrupt => ConnInv'
  <1> SUFFICES ASSUME ConnInv, Interrupt PROVE ConnInv'
    OBVIOUS
  <1>1. /\ leaving' = TRUE /\ batch' = <<>> /\ phase' \in {"closing", "shutting", "stopped"}
        /\ lost' = IF phase = "handling" THEN lost \cup {offset - 1} ELSE lost
        /\ UNCHANGED <<backend, delay, arrived, confirmed, offset, stored, handled, storageOpen,
                       crashes>>
    BY DEF Interrupt
  <1>2. active' \in BOOLEAN
    BY DEF Interrupt, ConnInv, ConnTyped
  <1>3. ConnTyped'
    BY <1>1, <1>2, LostIsAnUpdate DEF ConnInv, ConnTyped, Phases
  <1>4. QED
    BY <1>1, <1>3, BrokenOff

LEMMA ConnCrashInv == ConnInv /\ ProcessCrash => ConnInv'
  <1> SUFFICES ASSUME ConnInv, ProcessCrash PROVE ConnInv'
    OBVIOUS
  <1>1. /\ crashes < MaxCrashes /\ crashes' = crashes + 1
        /\ phase' = "connecting" /\ leaving' = FALSE /\ delay' = 1
        /\ offset' = 0 /\ batch' = <<>> /\ active' = FALSE /\ storageOpen' = TRUE
        /\ lost' = IF phase = "handling" THEN lost \cup {offset - 1} ELSE lost
        /\ UNCHANGED <<backend, arrived, confirmed, stored, handled>>
    BY DEF ProcessCrash
  <1>2. /\ crashes' \in 0..MaxCrashes /\ 1 \in 1..(MaxDelay + Jitter) /\ 0 \in 0..(NUpdates + 1)
    BY <1>1, ConnectionAssumption DEF ConnInv, ConnTyped
  <1>3. lost' \subseteq Updates
    BY <1>1, LostIsAnUpdate
  <1>4. batch' \in Seq(Updates)
    BY <1>1
  <1>5. ConnTyped'
    BY <1>1, <1>2, <1>3, <1>4 DEF ConnInv, ConnTyped, Phases
  <1>6. QED
    BY <1>1, <1>5, BrokenOff

LEMMA ConnStutterInv == ConnInv /\ UNCHANGED connVars => ConnInv'
  <1> SUFFICES ASSUME ConnInv, UNCHANGED connVars PROVE ConnInv'
    OBVIOUS
  <1>1. ConnTyped'
    BY DEF ConnInv, ConnTyped, connVars
  <1>2. QED
    BY <1>1, SameStep DEF connVars, Untouched

LEMMA ConnNextInv == ConnInv /\ [ConnectionNext]_connVars => ConnInv'
  BY ArriveInv, ConnectInv, LeaveInv, DelayInv, GetUpdatesInv, TakeUpdateInv, HandleUpdateInv,
     LocalEntryInv, InterruptInv, ConnCrashInv, ConnStutterInv DEF ConnectionNext

(* The invariant that makes the rest inductive.                              *)
THEOREM ConnectionInvariant == ConnectionSpec => []ConnInv
  <1>1. ConnInv /\ [ConnectionNext]_connVars => ConnInv'
    BY ConnNextInv
  <1>2. QED
    BY ConnInitInv, <1>1, PTL DEF ConnectionSpec

-----------------------------------------------------------------------------
(* The state of the backend keeps its types: the delay stays within the      *)
(* maximum and the jitter, and the offset never passes the updates there are. *)
THEOREM ConnectionTypeCorrect == ConnectionSpec => []ConnectionTypeOK
  BY ConnectionInvariant, ConnInvTypeOK, PTL

(* Telegram updates are handled at most once and in order, and none that the  *)
(* stored offset went past is forgotten unless an interrupt or a crash took   *)
(* it: serve_once stores the offset before the update is handled.             *)
THEOREM UpdatesAreHandledOnceHolds == ConnectionSpec => []UpdatesAreHandledOnce
  BY ConnectionInvariant, ConnInvOnce, PTL

(* No step lowers the delay of _delay_reconnect but a connection, a restart   *)
(* of the process, or an attempt after the maximum was reached.               *)
LEMMA DelayStep ==
    ConnInv /\ [ConnectionNext]_connVars =>
      [delay' < delay => phase' = "connected" \/ delay >= MaxDelay \/ crashes' > crashes]_connVars
  <1> SUFFICES ASSUME ConnInv, [ConnectionNext]_connVars, delay' < delay
               PROVE  phase' = "connected" \/ delay >= MaxDelay \/ crashes' > crashes
    OBVIOUS
  <1>1. delay \in Int /\ MaxDelay \in Int /\ crashes \in Int
    BY ConnectionAssumption DEF ConnInv, ConnTyped
  <1>2. ~(UNCHANGED delay)
    BY <1>1
  <1>3. Connect \/ DelayReconnect \/ ProcessCrash
    BY <1>2 DEF ConnectionNext, connVars, Arrive, ConnectCallback, GetUpdates, StreamFails, TakeUpdate,
       HandleUpdate, ConsoleEntry, QueueEntry, Interrupt, DisconnectCallback, Shutdown
  <1>4. CASE Connect
    BY <1>2, <1>4 DEF Connect
  <1>5. CASE DelayReconnect
    BY <1>1, <1>5, NextDelay
  <1>6. CASE ProcessCrash
    BY <1>1, <1>6 DEF ProcessCrash
  <1>7. QED
    BY <1>3, <1>4, <1>5, <1>6

(* _delay_reconnect only lets the delay fall when it was at its maximum, which *)
(* the jitter is added to after the cap.                                       *)
THEOREM BackOffGrowsHolds == ConnectionSpec => BackOffGrows
  <1>1. ConnInv /\ [ConnectionNext]_connVars =>
          [delay' < delay => phase' = "connected" \/ delay >= MaxDelay \/ crashes' > crashes]_connVars
    BY DelayStep
  <1>2. QED
    BY ConnectionInvariant, <1>1, PTL DEF ConnectionSpec, BackOffGrows

-----------------------------------------------------------------------------
(* What a command that uninstalls has taken out of memory stays out until    *)
(* the record goes: without it, removing the record could leave a plugin of  *)
(* the repository known.                                                     *)

ForgottenFirst == admin.step = "delete" => admin.repo \notin infos
RepoInv == RepoTypeOK /\ KnownIsRecorded /\ ForgottenFirst /\ OrphansComeFromCutInstalls

LEMMA RepoInitInv == RepoInit => RepoInv
  <1> SUFFICES ASSUME RepoInit PROVE RepoInv
    OBVIOUS
  <1>1. RepoTypeOK
    <2>1. 0 \in 0..MaxReleases /\ 0 \in 0..MaxRepoCrashes
      BY ReposAssumption
    <2>2. QED
      BY <2>1 DEF RepoInit, RepoTypeOK
  <1>2. KnownIsRecorded /\ ForgottenFirst /\ OrphansComeFromCutInstalls
    BY DEF RepoInit, KnownIsRecorded, ForgottenFirst, OrphansComeFromCutInstalls, Idle, Code
  <1>3. QED
    BY <1>1, <1>2 DEF RepoInv

-----------------------------------------------------------------------------
(* The command in progress.                                                  *)

LEMMA AdminSteps ==
    ASSUME NEW s \in RepoSteps, NEW r \in Repos
    PROVE  /\ AtStep(s, r).step = s /\ AtStep(s, r).repo = r
           /\ AtStep(s, r) \in [step : RepoSteps, repo : Repos]
  BY DEF AtStep

LEMMA AdminRepo ==
    ASSUME RepoTypeOK, admin.step \in RepoSteps
    PROVE  admin.repo \in Repos /\ admin = AtStep(admin.step, admin.repo)
  <1>1. admin # Idle /\ admin # Down
    BY DEF Idle, Down, RepoSteps
  <1>2. admin \in [step : RepoSteps, repo : Repos]
    BY <1>1 DEF RepoTypeOK
  <1>3. QED
    BY <1>2 DEF AtStep

LEMMA NotRecording ==
    ASSUME OrphansComeFromCutInstalls, admin.step # "record",
           NEW r \in Repos, files[r] \in Code, r \notin recorded
    PROVE  r \in aborted
  BY DEF OrphansComeFromCutInstalls, AtStep

(* A step that adds code only where it is recorded or its download cut short,  *)
(* drops no record, and takes nothing out of what was cut short, adds no       *)
(* orphan.                                                                     *)
LEMMA OrphansKept ==
    ASSUME RepoInv, admin.step # "record", recorded \subseteq recorded', aborted \subseteq aborted',
           \A r \in Repos : files'[r] \in Code =>
              files[r] \in Code \/ r \in recorded' \/ r \in aborted'
    PROVE  OrphansComeFromCutInstalls'
  <1> SUFFICES ASSUME NEW r \in Repos, files'[r] \in Code, r \notin recorded', r \notin aborted'
               PROVE  FALSE
    BY DEF OrphansComeFromCutInstalls, Code
  <1>1. files[r] \in Code /\ r \notin recorded /\ r \notin aborted
    OBVIOUS
  <1>2. QED
    BY <1>1, NotRecording DEF RepoInv

(* What a failed download does to the files.                                   *)
LEMMA FailedDownload ==
    ASSUME RepoInv, NEW r \in Repos, DownloadFails(r)
    PROVE  /\ files' \in [Repos -> Code \cup {"none", "partial"}]
           /\ astray' \subseteq Misnamed /\ aborted' \subseteq Repos /\ aborted \subseteq aborted'
           /\ \A q \in Repos : files'[q] \in Code => files[q] \in Code \/ q \in aborted'
  <1>1. /\ files \in [Repos -> Code \cup {"none", "partial"}] /\ upstream[r] \in Code
        /\ astray \subseteq Misnamed /\ aborted \subseteq Repos
    BY DEF RepoInv, RepoTypeOK
  <1>2. CASE r \in Misnamed
    BY <1>1, <1>2 DEF DownloadFails
  <1>3. CASE r \notin Misnamed
    <2>1. PICK left \in Halfway(r) :
             /\ files' = [files EXCEPT ![r] = left]
             /\ aborted' = IF left = files[r] THEN aborted ELSE aborted \cup {r}
             /\ astray' = astray
      BY <1>3 DEF DownloadFails
    <2>2. left \in Code \cup {"none", "partial"}
      BY <1>1 DEF Halfway, Code
    <2>3. files' \in [Repos -> Code \cup {"none", "partial"}]
      BY <1>1, <2>1, <2>2
    <2>4. \A q \in Repos : q # r => files'[q] = files[q]
      BY <1>1, <2>1
    <2>5. left = files[r] \/ r \in aborted'
      BY <2>1
    <2>6. QED
      BY <1>1, <2>1, <2>3, <2>4, <2>5
  <1>4. QED
    BY <1>2, <1>3

LEMMA RepoStutterInv == RepoInv /\ UNCHANGED repoVars => RepoInv'
  BY DEF RepoInv, RepoTypeOK, KnownIsRecorded, ForgottenFirst, OrphansComeFromCutInstalls, repoVars

LEMMA ReleaseInv == RepoInv /\ (\E r \in Repos : Release(r)) => RepoInv'
  <1> SUFFICES ASSUME RepoInv, NEW r \in Repos, Release(r) PROVE RepoInv'
    OBVIOUS
  <1>1. UNCHANGED <<onDisk, memory, admin, repoCrashes>>
    BY DEF Release
  <1>2. UNCHANGED <<files, astray, aborted, indexed, recorded, infos, loaded, running, admin, repoCrashes>>
    BY <1>1 DEF onDisk, memory
  <1>3. upstream' \in [Repos -> Code] /\ releases' \in 0..MaxReleases
    <2>1. upstream' = [upstream EXCEPT ![r] = IF upstream[r] = "good" THEN "bad" ELSE "good"]
          /\ releases' = releases + 1 /\ releases < MaxReleases
      BY DEF Release
    <2>2. upstream \in [Repos -> Code] /\ releases \in 0..MaxReleases
      BY DEF RepoInv, RepoTypeOK
    <2>3. QED
      BY <2>1, <2>2, ReposAssumption DEF Code
  <1>4. RepoTypeOK'
    BY <1>2, <1>3 DEF RepoInv, RepoTypeOK
  <1>5. QED
    BY <1>2, <1>4 DEF RepoInv, KnownIsRecorded, ForgottenFirst, OrphansComeFromCutInstalls

-----------------------------------------------------------------------------
(* !repos install.                                                           *)

LEMMA InstallStartInv == RepoInv /\ (\E r \in Repos : InstallStart(r)) => RepoInv'
  <1> SUFFICES ASSUME RepoInv, NEW r \in Repos, InstallStart(r) PROVE RepoInv'
    OBVIOUS
  <1>1. /\ admin = Idle /\ indexed' \in {indexed, TRUE} /\ admin' \in {AtStep("clone", r), Idle}
        /\ UNCHANGED <<upstream, releases, files, astray, aborted, recorded, infos, loaded, running, repoCrashes>>
    BY DEF InstallStart, IndexUpdate, published, memory
  <1>2. RepoTypeOK'
    <2>1. admin' \in {Idle, Down} \cup [step : RepoSteps, repo : Repos]
      BY <1>1, AdminSteps DEF RepoSteps
    <2>2. indexed' \in BOOLEAN
      BY <1>1 DEF RepoInv, RepoTypeOK
    <2>3. QED
      BY <1>1, <2>1, <2>2 DEF RepoInv, RepoTypeOK
  <1>3. admin.step # "record" /\ admin'.step # "delete"
    BY <1>1 DEF Idle, AtStep
  <1>4. OrphansComeFromCutInstalls'
    BY <1>1, <1>3, OrphansKept
  <1>5. KnownIsRecorded' /\ ForgottenFirst'
    BY <1>1, <1>3 DEF RepoInv, KnownIsRecorded, ForgottenFirst
  <1>6. QED
    BY <1>2, <1>4, <1>5 DEF RepoInv

LEMMA FetchInv == RepoInv /\ Fetch => RepoInv'
  <1> SUFFICES ASSUME RepoInv, Fetch PROVE RepoInv'
    OBVIOUS
  <1>1. PICK r \in Repos :
          /\ r = admin.repo /\ admin.step = "clone"
          /\ \/ DownloadSucceeds(r) /\ admin' = AtStep("record", r)
             \/ DownloadFails(r) /\ admin' = Idle
          /\ UNCHANGED <<upstream, releases, indexed, recorded, infos, loaded, running, repoCrashes>>
    <2>1. admin.step = "clone"
      BY DEF Fetch
    <2>2. admin.repo \in Repos
      BY <2>1, AdminRepo DEF RepoInv, RepoSteps
    <2>3. QED
      BY <2>2 DEF Fetch, published, memory
  <1>2. /\ files \in [Repos -> Code \cup {"none", "partial"}] /\ upstream[r] \in Code
        /\ astray \subseteq Misnamed /\ aborted \subseteq Repos
    BY DEF RepoInv, RepoTypeOK
  <1>3. KnownIsRecorded'
    BY <1>1 DEF RepoInv, KnownIsRecorded
  <1>4. CASE DownloadSucceeds(r) /\ admin' = AtStep("record", r)
    <2>1. \/ files' = files /\ aborted' = aborted
          \/ files' = [files EXCEPT ![r] = upstream[r]] /\ aborted' = aborted \ {r}
      BY <1>4 DEF DownloadSucceeds
    <2>2. astray' = astray \/ (astray' = astray \cup {r} /\ r \in Misnamed)
      BY <1>4 DEF DownloadSucceeds
    <2>3. files' \in [Repos -> Code \cup {"none", "partial"}] /\ aborted' \subseteq Repos
      BY <1>2, <2>1
    <2>4. admin' \in [step : RepoSteps, repo : Repos] /\ admin'.step = "record"
      BY <1>4, AdminSteps DEF RepoSteps
    <2>5. RepoTypeOK'
      BY <1>1, <1>2, <2>2, <2>3, <2>4 DEF RepoInv, RepoTypeOK
    <2>6. ForgottenFirst'
      BY <2>4 DEF ForgottenFirst
    <2>7. OrphansComeFromCutInstalls'
      <3> SUFFICES ASSUME NEW q \in Repos, files'[q] \in Code, q \notin recorded', q # r
                   PROVE  q \in aborted'
        BY <1>4 DEF OrphansComeFromCutInstalls
      <3>1. files[q] \in Code /\ q \notin recorded
        BY <1>1, <1>2, <2>1
      <3>2. q \in aborted
        BY <1>1, <3>1, NotRecording DEF RepoInv
      <3>3. QED
        BY <2>1, <3>2
    <2>8. QED
      BY <1>3, <2>5, <2>6, <2>7 DEF RepoInv
  <1>5. CASE DownloadFails(r) /\ admin' = Idle
    <2>1. /\ files' \in [Repos -> Code \cup {"none", "partial"}]
          /\ astray' \subseteq Misnamed /\ aborted' \subseteq Repos /\ aborted \subseteq aborted'
          /\ \A q \in Repos : files'[q] \in Code => files[q] \in Code \/ q \in aborted'
      BY <1>5, FailedDownload
    <2>2. RepoTypeOK'
      BY <1>1, <1>5, <2>1 DEF RepoInv, RepoTypeOK
    <2>3. ForgottenFirst'
      BY <1>5 DEF ForgottenFirst, Idle
    <2>4. OrphansComeFromCutInstalls'
      BY <1>1, <2>1, OrphansKept
    <2>5. QED
      BY <1>3, <2>2, <2>3, <2>4 DEF RepoInv
  <1>6. QED
    BY <1>1, <1>4, <1>5

LEMMA RecordInv == RepoInv /\ Record => RepoInv'
  <1> SUFFICES ASSUME RepoInv, Record PROVE RepoInv'
    OBVIOUS
  <1>1. /\ admin.step = "record" /\ recorded' = recorded \cup {admin.repo}
        /\ admin' = AtStep("load", admin.repo)
        /\ UNCHANGED <<upstream, releases, files, astray, aborted, indexed, infos, loaded, running, repoCrashes>>
    BY DEF Record, published, memory
  <1>2. admin.repo \in Repos /\ admin = AtStep("record", admin.repo)
    BY <1>1, AdminRepo DEF RepoInv, RepoSteps
  <1>3. admin' \in [step : RepoSteps, repo : Repos] /\ admin'.step = "load"
    BY <1>1, <1>2, AdminSteps DEF RepoSteps
  <1>4. RepoTypeOK'
    BY <1>1, <1>2, <1>3 DEF RepoInv, RepoTypeOK
  <1>5. KnownIsRecorded' /\ ForgottenFirst'
    BY <1>1, <1>3 DEF RepoInv, KnownIsRecorded, ForgottenFirst
  <1>6. OrphansComeFromCutInstalls'
    <2> SUFFICES ASSUME NEW q \in Repos, files'[q] \in Code, q \notin recorded' PROVE q \in aborted'
      BY DEF OrphansComeFromCutInstalls
    <2>1. files[q] \in Code /\ q \notin recorded /\ q # admin.repo
      BY <1>1 DEF Code
    <2>2. admin # AtStep("record", q)
      BY <2>1 DEF AtStep
    <2>3. QED
      BY <1>1, <2>1, <2>2 DEF RepoInv, OrphansComeFromCutInstalls
  <1>7. QED
    BY <1>4, <1>5, <1>6 DEF RepoInv

(* Loading the places keeps what is known within what is recorded.           *)
LEMMA LoadKeeps ==
    ASSUME RepoInv, UpdatePluginPlaces
    PROVE  loaded' \subseteq infos' /\ infos' \subseteq recorded /\ loaded \subseteq loaded'
  BY DEF RepoInv, RepoTypeOK, KnownIsRecorded, UpdatePluginPlaces, LoadInto, Places, Fresh

LEMMA InstallLoadInv == RepoInv /\ InstallLoad => RepoInv'
  <1> SUFFICES ASSUME RepoInv, InstallLoad PROVE RepoInv'
    OBVIOUS
  <1>1. /\ admin.step = "load" /\ UpdatePluginPlaces
        /\ files' \in {files, [files EXCEPT ![admin.repo] = "none"]}
        /\ admin' \in {Idle, AtStep("activate", admin.repo)}
        /\ UNCHANGED <<upstream, releases, astray, aborted, indexed, recorded, running, repoCrashes>>
    BY DEF InstallLoad, published
  <1>2. admin.repo \in Repos
    BY <1>1, AdminRepo DEF RepoInv, RepoSteps
  <1>3. files \in [Repos -> Code \cup {"none", "partial"}] /\ recorded \subseteq Repos /\ running \subseteq loaded
    BY DEF RepoInv, RepoTypeOK
  <1>4. /\ files' \in [Repos -> Code \cup {"none", "partial"}]
        /\ \A q \in Repos : files'[q] \in Code => files[q] \in Code
    BY <1>1, <1>2, <1>3 DEF Code
  <1>5. admin' \in {Idle, Down} \cup [step : RepoSteps, repo : Repos] /\ admin'.step # "delete"
    BY <1>1, <1>2, AdminSteps DEF RepoSteps, Idle
  <1>6. RepoTypeOK'
    <2>1. loaded' \subseteq infos' /\ infos' \subseteq Repos /\ running' \subseteq loaded'
      BY <1>1, <1>3, LoadKeeps
    <2>2. QED
      BY <1>1, <1>4, <1>5, <2>1 DEF RepoInv, RepoTypeOK
  <1>7. KnownIsRecorded' /\ ForgottenFirst'
    BY <1>1, <1>5, LoadKeeps DEF KnownIsRecorded, ForgottenFirst
  <1>8. OrphansComeFromCutInstalls'
    BY <1>1, <1>4, OrphansKept
  <1>9. QED
    BY <1>6, <1>7, <1>8 DEF RepoInv

LEMMA InstallActivateInv == RepoInv /\ InstallActivate => RepoInv'
  <1> SUFFICES ASSUME RepoInv, InstallActivate PROVE RepoInv'
    OBVIOUS
  <1>1. /\ admin.step = "activate" /\ running' = loaded /\ admin' = Idle
        /\ UNCHANGED <<upstream, releases, files, astray, aborted, indexed, recorded, infos, loaded, repoCrashes>>
    BY DEF InstallActivate, published, onDisk
  <1>2. RepoTypeOK'
    BY <1>1 DEF RepoInv, RepoTypeOK
  <1>3. KnownIsRecorded' /\ ForgottenFirst'
    BY <1>1 DEF RepoInv, KnownIsRecorded, ForgottenFirst, Idle
  <1>4. OrphansComeFromCutInstalls'
    BY <1>1, OrphansKept
  <1>5. QED
    BY <1>2, <1>3, <1>4 DEF RepoInv

-----------------------------------------------------------------------------
(* !repos uninstall and !repos update.                                       *)

LEMMA UninstallStartInv == RepoInv /\ (\E r \in Repos : UninstallStart(r)) => RepoInv'
  <1> SUFFICES ASSUME RepoInv, NEW r \in Repos, UninstallStart(r) PROVE RepoInv'
    OBVIOUS
  <1>1. /\ admin = Idle /\ admin' = AtStep("forget", r)
        /\ UNCHANGED <<upstream, releases, files, astray, aborted, indexed, recorded, infos, loaded, running, repoCrashes>>
    BY DEF UninstallStart, published, onDisk, memory
  <1>2. admin' \in [step : RepoSteps, repo : Repos] /\ admin'.step = "forget" /\ admin.step # "record"
    BY <1>1, AdminSteps DEF RepoSteps, Idle
  <1>3. RepoTypeOK'
    BY <1>1, <1>2 DEF RepoInv, RepoTypeOK
  <1>4. KnownIsRecorded' /\ ForgottenFirst'
    BY <1>1, <1>2 DEF RepoInv, KnownIsRecorded, ForgottenFirst
  <1>5. OrphansComeFromCutInstalls'
    BY <1>1, <1>2, OrphansKept
  <1>6. QED
    BY <1>3, <1>4, <1>5 DEF RepoInv

LEMMA ForgetInv == RepoInv /\ ForgetPlugins => RepoInv'
  <1> SUFFICES ASSUME RepoInv, ForgetPlugins PROVE RepoInv'
    OBVIOUS
  <1> DEFINE r == admin.repo
  <1>1. /\ admin.step = "forget"
        /\ UNCHANGED <<upstream, releases, files, astray, aborted, indexed, recorded, repoCrashes>>
    BY DEF ForgetPlugins, published, onDisk
  <1>2. PICK gone \in SUBSET (Matching(r) \cap loaded) :
          /\ Matching(r) \ loaded = {} => gone = Matching(r)
          /\ infos' = infos \ gone /\ loaded' = loaded \ gone /\ running' = running \ gone
          /\ admin' = IF Matching(r) \ loaded = {} THEN AtStep("delete", r) ELSE Idle
    BY DEF ForgetPlugins
  <1>3. r \in Repos
    BY <1>1, AdminRepo DEF RepoInv, RepoSteps
  <1> HIDE DEF r
  <1>4. admin' = Idle \/ (admin' = AtStep("delete", r) /\ gone = Matching(r))
    BY <1>2
  <1>5. admin' \in {Idle, Down} \cup [step : RepoSteps, repo : Repos]
    BY <1>3, <1>4, AdminSteps DEF RepoSteps
  <1>6. RepoTypeOK'
    <2>1. loaded' \subseteq infos' /\ infos' \subseteq Repos /\ running' \subseteq loaded'
      BY <1>2 DEF RepoInv, RepoTypeOK
    <2>2. QED
      BY <1>1, <1>5, <2>1 DEF RepoInv, RepoTypeOK
  <1>7. KnownIsRecorded'
    BY <1>1, <1>2 DEF RepoInv, KnownIsRecorded
  <1>8. ForgottenFirst'
    <2>1. CASE admin' = Idle
      BY <2>1 DEF ForgottenFirst, Idle
    <2>2. CASE admin' = AtStep("delete", r) /\ gone = Matching(r)
      <3>1. admin'.repo = r
        BY <2>2 DEF AtStep
      <3>2. Begins(r, r)
        BY <1>3, ReposAssumption
      <3>3. r \notin infos'
        BY <1>2, <2>2, <3>2 DEF Matching
      <3>4. QED
        BY <3>1, <3>3 DEF ForgottenFirst
    <2>3. QED
      BY <1>4, <2>1, <2>2
  <1>9. OrphansComeFromCutInstalls'
    BY <1>1, OrphansKept
  <1>10. QED
    BY <1>6, <1>7, <1>8, <1>9 DEF RepoInv

LEMMA DeleteInv == RepoInv /\ DeleteRepo => RepoInv'
  <1> SUFFICES ASSUME RepoInv, DeleteRepo PROVE RepoInv'
    OBVIOUS
  <1> DEFINE r == admin.repo
  <1>1. /\ admin.step = "delete" /\ admin' = Idle
        /\ files' = [files EXCEPT ![r] = "none"] /\ recorded' = recorded \ {r}
        /\ aborted' = aborted \ {r}
        /\ UNCHANGED <<upstream, releases, astray, indexed, infos, loaded, running, repoCrashes>>
    BY DEF DeleteRepo, published, memory
  <1>2. r \in Repos /\ r \notin infos
    BY <1>1, AdminRepo DEF RepoInv, RepoSteps, ForgottenFirst
  <1> HIDE DEF r
  <1>3. files \in [Repos -> Code \cup {"none", "partial"}]
    BY DEF RepoInv, RepoTypeOK
  <1>4. files' \in [Repos -> Code \cup {"none", "partial"}]
    BY <1>1, <1>2, <1>3
  <1>5. RepoTypeOK'
    BY <1>1, <1>4 DEF RepoInv, RepoTypeOK
  <1>6. KnownIsRecorded' /\ ForgottenFirst'
    BY <1>1, <1>2 DEF RepoInv, KnownIsRecorded, ForgottenFirst, Idle
  <1>7. OrphansComeFromCutInstalls'
    <2> SUFFICES ASSUME NEW q \in Repos, files'[q] \in Code, q \notin recorded' PROVE q \in aborted'
      BY DEF OrphansComeFromCutInstalls
    <2>1. q # r
      BY <1>1, <1>2, <1>3 DEF Code
    <2>2. files[q] \in Code /\ q \notin recorded
      BY <1>1, <1>3, <2>1
    <2>3. q \in aborted
      BY <1>1, <2>2, NotRecording DEF RepoInv
    <2>4. QED
      BY <1>1, <2>1, <2>3
  <1>8. QED
    BY <1>5, <1>6, <1>7 DEF RepoInv

LEMMA UpdateInv == RepoInv /\ (\E r \in Repos : UpdateRepo(r)) => RepoInv'
  <1> SUFFICES ASSUME RepoInv, NEW r \in Repos, UpdateRepo(r) PROVE RepoInv'
    OBVIOUS
  <1>1. /\ admin = Idle /\ r \in recorded
        /\ UNCHANGED <<upstream, releases, astray, aborted, indexed, recorded, infos, loaded, admin, repoCrashes>>
    BY DEF UpdateRepo, published
  <1>2. PICK p \in Pulls(r) :
          /\ files' = [files EXCEPT ![r] = p.code]
          /\ running' = IF p.pulled /\ p.code = "bad" THEN running \ {r} ELSE running
    BY DEF UpdateRepo
  <1>3. files \in [Repos -> Code \cup {"none", "partial"}] /\ upstream \in [Repos -> Code]
    BY DEF RepoInv, RepoTypeOK
  <1>4. p.code \in {files[r], upstream[r]}
    BY DEF Pulls
  <1>5. p.code \in Code \cup {"none", "partial"}
    BY <1>3, <1>4
  <1>6. files' \in [Repos -> Code \cup {"none", "partial"}]
    BY <1>2, <1>3, <1>5
  <1>7. running' \subseteq running
    BY <1>2
  <1>8. RepoTypeOK'
    BY <1>1, <1>6, <1>7 DEF RepoInv, RepoTypeOK
  <1>9. KnownIsRecorded' /\ ForgottenFirst'
    BY <1>1 DEF RepoInv, KnownIsRecorded, ForgottenFirst
  <1>10. OrphansComeFromCutInstalls'
    <2>1. \A q \in Repos : files'[q] \in Code => files[q] \in Code \/ q \in recorded'
      BY <1>1, <1>2, <1>3
    <2>2. QED
      BY <1>1, <2>1, OrphansKept DEF Idle
  <1>11. QED
    BY <1>8, <1>9, <1>10 DEF RepoInv

-----------------------------------------------------------------------------
(* A crash, and the restart.                                                 *)

LEMMA RepoCrashInv == RepoInv /\ RepoCrash => RepoInv'
  <1> SUFFICES ASSUME RepoInv, RepoCrash PROVE RepoInv'
    OBVIOUS
  <1>1. /\ repoCrashes < MaxRepoCrashes /\ repoCrashes' = repoCrashes + 1
        /\ infos' = {} /\ loaded' = {} /\ running' = {} /\ admin' = Down
        /\ UNCHANGED <<upstream, releases, indexed, recorded>>
    BY DEF RepoCrash, published
  <1>2. repoCrashes' \in 0..MaxRepoCrashes
    BY <1>1, ReposAssumption DEF RepoInv, RepoTypeOK
  <1>3. KnownIsRecorded' /\ ForgottenFirst'
    BY <1>1 DEF KnownIsRecorded, ForgottenFirst, Down
  <1>4. CASE admin.step = "clone"
    <2>1. admin.repo \in Repos /\ DownloadFails(admin.repo)
      BY <1>4, AdminRepo DEF RepoCrash, RepoInv, RepoSteps
    <2>2. PICK r \in Repos : DownloadFails(r)
      BY <2>1
    <2>3. /\ files' \in [Repos -> Code \cup {"none", "partial"}]
          /\ astray' \subseteq Misnamed /\ aborted' \subseteq Repos /\ aborted \subseteq aborted'
          /\ \A q \in Repos : files'[q] \in Code => files[q] \in Code \/ q \in aborted'
      BY <2>2, FailedDownload
    <2>4. RepoTypeOK'
      BY <1>1, <1>2, <2>3 DEF RepoInv, RepoTypeOK
    <2>5. OrphansComeFromCutInstalls'
      BY <1>1, <1>4, <2>3, OrphansKept
    <2>6. QED
      BY <1>3, <2>4, <2>5 DEF RepoInv
  <1>5. CASE admin.step # "clone"
    <2>1. /\ aborted' = IF admin.step = "record" THEN aborted \cup {admin.repo} ELSE aborted
          /\ files' = files /\ astray' = astray
      BY <1>5 DEF RepoCrash
    <2>2. admin.step = "record" => admin.repo \in Repos /\ admin = AtStep("record", admin.repo)
      BY AdminRepo DEF RepoInv, RepoSteps
    <2>3. RepoTypeOK'
      BY <1>1, <1>2, <2>1, <2>2 DEF RepoInv, RepoTypeOK
    <2>4. OrphansComeFromCutInstalls'
      <3> SUFFICES ASSUME NEW q \in Repos, files'[q] \in Code, q \notin recorded'
                   PROVE  q \in aborted'
        BY DEF OrphansComeFromCutInstalls
      <3>1. files[q] \in Code /\ q \notin recorded
        BY <1>1, <2>1
      <3>2. admin = AtStep("record", q) \/ q \in aborted
        BY <3>1 DEF RepoInv, OrphansComeFromCutInstalls
      <3>3. CASE admin = AtStep("record", q)
        <4>1. admin.step = "record" /\ admin.repo = q
          BY <3>3 DEF AtStep
        <4>2. QED
          BY <4>1, <2>1
      <3>4. CASE q \in aborted
        BY <3>4, <2>1
      <3>5. QED
        BY <3>2, <3>3, <3>4
    <2>5. QED
      BY <1>3, <2>3, <2>4 DEF RepoInv
  <1>6. QED
    BY <1>4, <1>5

LEMMA RestartInv == RepoInv /\ RepoRestart => RepoInv'
  <1> SUFFICES ASSUME RepoInv, RepoRestart PROVE RepoInv'
    OBVIOUS
  <1>1. /\ admin = Down /\ admin' = Idle /\ running' = loaded' /\ UpdatePluginPlaces
        /\ UNCHANGED <<upstream, releases, files, astray, aborted, indexed, recorded, repoCrashes>>
    BY DEF RepoRestart, published, onDisk
  <1>2. RepoTypeOK'
    <2>1. loaded' \subseteq infos' /\ infos' \subseteq Repos /\ running' \subseteq loaded'
      BY <1>1, LoadKeeps DEF RepoInv, RepoTypeOK
    <2>2. QED
      BY <1>1, <2>1 DEF RepoInv, RepoTypeOK
  <1>3. KnownIsRecorded' /\ ForgottenFirst'
    BY <1>1, LoadKeeps DEF KnownIsRecorded, ForgottenFirst, Idle
  <1>4. OrphansComeFromCutInstalls'
    BY <1>1, OrphansKept DEF Down
  <1>5. QED
    BY <1>2, <1>3, <1>4 DEF RepoInv

LEMMA RepoNextInv == RepoInv /\ [RepoNext]_repoVars => RepoInv'
  BY ReleaseInv, InstallStartInv, FetchInv, RecordInv, InstallLoadInv, InstallActivateInv,
     UninstallStartInv, ForgetInv, DeleteInv, UpdateInv, RepoCrashInv, RestartInv, RepoStutterInv
     DEF RepoNext

(* The invariant that makes the rest inductive.                              *)
THEOREM RepoInvariant == RepoSpec => []RepoInv
  <1>1. RepoInv /\ [RepoNext]_repoVars => RepoInv'
    BY RepoNextInv
  <1>2. QED
    BY RepoInitInv, <1>1, PTL DEF RepoSpec

-----------------------------------------------------------------------------
(* The state of the repository manager and of the plugins keeps its types: a  *)
(* plugin runs only when it is loaded, and is loaded only when it is known.   *)
THEOREM RepoTypeCorrect == RepoSpec => []RepoTypeOK
  <1>1. RepoInv => RepoTypeOK
    BY DEF RepoInv
  <1>2. QED
    BY RepoInvariant, <1>1, PTL

(* What is known to the plugin manager is recorded by the repository manager, *)
(* and only a download that failed or a crash leaves code that no record       *)
(* names: !repos uninstall takes the plugins out of memory before it removes   *)
(* the record, and !repos install writes the record before it loads.           *)
THEOREM RepositoriesAreRecordedHolds == RepoSpec => []RepositoriesAreRecorded
  <1>1. RepoInv => RepositoriesAreRecorded
    BY DEF RepoInv, RepositoriesAreRecorded
  <1>2. QED
    BY RepoInvariant, <1>1, PTL

-----------------------------------------------------------------------------
\* What a command carries once it is decorated.
Attributes ==
    [kind : {"plain", "re", "arg"}, adminOnly : BOOLEAN, flowOnly : BOOLEAN, hidden : BOOLEAN,
     prefixed : BOOLEAN, arguments : Seq(STRING)]
Funcs(c) == {<<>>} \cup {<<a>> : a \in {b \in Attributes : b.adminOnly = AdminOnly(c)}}

\* A decorator tags what is not tagged, and keeps the attributes of what is.
LEMMA DecorateFacts ==
    ASSUME NEW deco \in Decorators
    PROVE  /\ \E a \in Attributes : Decorate(<<>>, deco) = <<a>> /\ a.adminOnly = deco.adminOnly
           /\ \A a \in Attributes : \E b \in Attributes :
                 Decorate(<<a>>, deco) = <<b>> /\ b.adminOnly = a.adminOnly
  <1> USE DEF Decorators
  <1>1. ASSUME NEW kind \in {"plain", "re", "arg"}, NEW like \in Decorators,
               like.adminOnly = deco.adminOnly
        PROVE  \E a \in Attributes : /\ Tag(<<>>, kind, like) = <<a>>
                                     /\ a.adminOnly = deco.adminOnly
    <2> DEFINE a == [kind |-> kind, adminOnly |-> like.adminOnly, flowOnly |-> like.flowOnly,
                     hidden |-> IF like.hidden = "unset" THEN like.flowOnly
                                ELSE like.hidden = "yes",
                     prefixed |-> IF kind = "re" THEN like.prefixed ELSE TRUE,
                     arguments |-> <<>>]
    <2>1. a \in Attributes
      <3>1. (IF like.hidden = "unset" THEN like.flowOnly ELSE like.hidden = "yes") \in BOOLEAN
        OBVIOUS
      <3>2. (IF kind = "re" THEN like.prefixed ELSE TRUE) \in BOOLEAN
        BY <1>1
      <3>3. <<>> \in Seq(STRING)
        OBVIOUS
      <3>4. QED
        BY <1>1, <3>1, <3>2, <3>3 DEF Attributes
    <2>2. Tag(<<>>, kind, like) = <<a>> /\ a.adminOnly = deco.adminOnly
      BY <1>1 DEF Tag
    <2>3. QED
      BY <2>1, <2>2
  <1>2. \A a \in Attributes : \A kind, like : Tag(<<a>>, kind, like) = <<a>>
    BY DEF Tag
  <1>3. ASSUME NEW a \in Attributes
        PROVE  \E b \in Attributes : /\ <<[a EXCEPT !.arguments = Append(@, deco.argument)]>> = <<b>>
                                     /\ b.adminOnly = a.adminOnly
    <2>1. Append(a.arguments, deco.argument) \in Seq(STRING)
      <3>1. a.arguments \in Seq(STRING)
        BY DEF Attributes
      <3>2. QED
        BY <3>1, AppendElements
    <2>2. [a EXCEPT !.arguments = Append(@, deco.argument)] \in Attributes
      BY <2>1 DEF Attributes
    <2>3. [a EXCEPT !.arguments = Append(@, deco.argument)].adminOnly = a.adminOnly
      BY DEF Attributes
    <2>4. QED
      BY <2>2, <2>3
  <1>4. [deco EXCEPT !.prefixed = FALSE] \in Decorators
        /\ [deco EXCEPT !.prefixed = FALSE].adminOnly = deco.adminOnly
    OBVIOUS
  <1>5. ASSUME NEW func, \E a \in Attributes : Tag(func, "arg", deco) = <<a>>
        PROVE  \E a, b \in Attributes : /\ Tag(func, "arg", deco) = <<a>>
                                        /\ ArgBotcmd(func, deco) = <<b>>
                                        /\ b.adminOnly = a.adminOnly
    <2>1. PICK a \in Attributes : Tag(func, "arg", deco) = <<a>>
      BY <1>5
    <2>2. ArgBotcmd(func, deco) = <<[a EXCEPT !.arguments = Append(@, deco.argument)]>>
      <3> DEFINE wrapper == Tag(func, "arg", deco)
      <3>1. ArgBotcmd(func, deco)
            = <<[wrapper[1] EXCEPT !.arguments = Append(@, deco.argument)]>>
        BY Zenon DEF ArgBotcmd
      <3>2. wrapper[1] = a
        BY <2>1
      <3>3. QED
        BY <3>1, <3>2, Zenon
    <2>3. QED
      BY <2>1, <2>2, <1>3
  <1>6. ASSUME NEW func
        PROVE  \/ Decorate(func, deco) = Tag(func, "plain", deco)
               \/ Decorate(func, deco) = Tag(func, "re", deco)
               \/ Decorate(func, deco) = Tag(func, "re", [deco EXCEPT !.prefixed = FALSE])
               \/ Decorate(func, deco) = ArgBotcmd(func, deco)
    <2>1. CASE deco.with = "botcmd"
      BY <2>1 DEF Decorate, Botcmd
    <2>2. CASE deco.with = "re_botcmd"
      BY <2>2 DEF Decorate, ReBotcmd
    <2>3. CASE deco.with = "botmatch"
      <3>1. Decorate(func, deco) = Botmatch(func, deco)
        BY <2>3 DEF Decorate
      <3>2. QED
        BY <3>1 DEF Botmatch
    <2>4. CASE deco.with = "arg_botcmd"
      BY <2>4 DEF Decorate
    <2>5. QED
      BY <2>1, <2>2, <2>3, <2>4
  <1>7. \E a \in Attributes : Decorate(<<>>, deco) = <<a>> /\ a.adminOnly = deco.adminOnly
    <2>1. CASE Decorate(<<>>, deco) = ArgBotcmd(<<>>, deco)
      <3>1. PICK c \in Attributes : Tag(<<>>, "arg", deco) = <<c>> /\ c.adminOnly = deco.adminOnly
        BY <1>1
      <3>2. PICK a \in Attributes, b \in Attributes :
                /\ Tag(<<>>, "arg", deco) = <<a>> /\ ArgBotcmd(<<>>, deco) = <<b>>
                /\ b.adminOnly = a.adminOnly
        BY <1>5, <3>1
      <3>3. a = c
        BY <3>1, <3>2
      <3>4. QED
        BY <2>1, <3>1, <3>2, <3>3
    <2>2. CASE ~(Decorate(<<>>, deco) = ArgBotcmd(<<>>, deco))
      <3> USE <1>1, <1>4, <2>2
      <3>1. CASE Decorate(<<>>, deco) = Tag(<<>>, "plain", deco)
        BY <3>1
      <3>2. CASE Decorate(<<>>, deco) = Tag(<<>>, "re", deco)
        BY <3>2
      <3>3. CASE Decorate(<<>>, deco) = Tag(<<>>, "re", [deco EXCEPT !.prefixed = FALSE])
        BY <3>3
      <3>4. QED
        BY <1>6, <3>1, <3>2, <3>3
    <2>3. QED
      BY <2>1, <2>2
  <1>8. ASSUME NEW a \in Attributes
        PROVE  \E b \in Attributes : Decorate(<<a>>, deco) = <<b>> /\ b.adminOnly = a.adminOnly
    <2>1. CASE Decorate(<<a>>, deco) = ArgBotcmd(<<a>>, deco)
      <3>1. ArgBotcmd(<<a>>, deco) = <<[a EXCEPT !.arguments = Append(@, deco.argument)]>>
        BY <1>2 DEF ArgBotcmd
      <3>2. QED
        BY <2>1, <3>1, <1>3
    <2>2. CASE ~(Decorate(<<a>>, deco) = ArgBotcmd(<<a>>, deco))
      <3>1. Decorate(<<a>>, deco) = <<a>>
        BY <2>2, <1>6, <1>2
      <3>2. QED
        BY <3>1
    <2>3. QED
      BY <2>1, <2>2
  <1>9. QED
    BY <1>7, <1>8


\* The attributes of a command, whatever decorators are stacked on it: they are
\* well formed, and admin_only is what the bottom one says.
LEMMA DecoratedFacts ==
    ASSUME NEW c \in Commands
    PROVE  Decorated(c) \in Attributes /\ Decorated(c).adminOnly = AdminOnly(c)
  <1> DEFINE deco == Decorations[c]
             n == Len(deco)
             Tagged == {<<a>> : a \in {b \in Attributes : b.adminOnly = AdminOnly(c)}}
             D == Tagged \cup {<<>>}
             OneMore(i) == [func \in D |-> IF func = <<>> /\ i # 1 THEN <<>>
                                           ELSE Decorate(func, deco[i])]
             step == [i \in 1..n |-> OneMore(i)]
  <1>0. \A tagged \in Tagged : tagged # <<>>
    <2>1. TAKE tagged \in Tagged
    <2>2. PICK a \in Attributes : tagged = <<a>>
      OBVIOUS
    <2>3. QED
      BY <2>2
  <1>1. n \in Nat /\ n # 0 /\ deco # <<>> /\ \A i \in 1..n : deco[i] \in Decorators
    <2>1. deco \in Seq(Decorators) /\ deco # <<>>
      BY AccessAssumption
    <2>2. QED
      BY <2>1, EmptySeq, ElementOfSeq, LenProperties
  <1>2. AdminOnly(c) = deco[1].adminOnly
    BY DEF AdminOnly
  <1>3. ASSUME NEW i \in 1..n, NEW func \in Tagged
        PROVE  Decorate(func, deco[i]) \in Tagged
    <2>1. PICK a \in Attributes : func = <<a>> /\ a.adminOnly = AdminOnly(c)
      OBVIOUS
    <2>2. PICK b \in Attributes : /\ Decorate(<<a>>, deco[i]) = <<b>>
                                  /\ b.adminOnly = a.adminOnly
      BY <1>1, DecorateFacts
    <2>3. QED
      BY <2>1, <2>2
  <1>4. Decorate(<<>>, deco[1]) \in Tagged
    <2>1. deco[1] \in Decorators
      BY <1>1
    <2>2. PICK a \in Attributes : Decorate(<<>>, deco[1]) = <<a>> /\ a.adminOnly = deco[1].adminOnly
      BY <2>1, DecorateFacts
    <2>3. QED
      BY <2>2, <1>2
  <1>5. step \in [1..n -> [D -> D]]
    <2>1. ASSUME NEW i \in 1..n, NEW func \in D
          PROVE  (IF func = <<>> /\ i # 1 THEN <<>> ELSE Decorate(func, deco[i])) \in D
      <3>1. CASE func \in Tagged
        <4>1. func # <<>>
          BY <3>1, <1>0
        <4>2. Decorate(func, deco[i]) \in Tagged
          BY <3>1, <1>3
        <4>3. QED
          BY <4>1, <4>2
      <3>2. CASE func = <<>>
        BY <3>2, <1>4
      <3>3. QED
        BY <3>1, <3>2
    <2> HIDE DEF D, Tagged, n, deco
    <2>2. QED
      BY <2>1
  <1>6. PICK f : /\ f \in [0..n -> D] /\ f[0] = <<>>
                 /\ \A i \in 1..n : f[i] = step[i][f[i - 1]]
    <2>1. <<>> \in D
      OBVIOUS
    <2>2. n \in Nat
      BY <1>1
    <2>3. step \in Steps(n, D)
      BY <1>5 DEF Steps
    <2> HIDE DEF step, D, n
    <2>4. \E f : IsRecursion(f, n, D, <<>>, step)
      BY <2>1, <2>2, <2>3, Recursion
    <2>5. QED
      BY <2>4 DEF IsRecursion
  <1>7. \A i \in 1..n : f[i] \in Tagged
    <2> DEFINE P == {i \in Nat : i = 0 \/ i > n \/ f[i] \in Tagged}
    <2>1. ASSUME NEW i \in 0..(n - 1), i \in P
          PROVE  i + 1 \in P
      <3>1. i + 1 \in 1..n /\ i \in 0..n /\ (i + 1) - 1 = i
        BY <1>1
      <3>2. f[i + 1] = step[i + 1][f[i]]
        <4> HIDE DEF step
        <4>1. f[i + 1] = step[i + 1][f[(i + 1) - 1]]
          BY <1>6, <3>1
        <4>2. QED
          BY <4>1, <3>1
      <3>3. f[i] \in D
        BY <1>6, <3>1
      <3>4. step[i + 1][f[i]] = IF f[i] = <<>> /\ i + 1 # 1 THEN <<>>
                                ELSE Decorate(f[i], deco[i + 1])
        <4> HIDE DEF D, Tagged
        <4>1. QED
          BY <3>1, <3>3
      <3>5. CASE i = 0
        <4>1. f[0] = <<>>
          <5> HIDE DEF step, D
          <5>1. QED
            BY <1>6, <1>1
        <4>2. f[1] = Decorate(<<>>, deco[1])
          BY <3>5, <3>2, <3>4, <4>1
        <4>3. QED
          BY <3>5, <4>2, <1>4
      <3>6. CASE i # 0
        <4>1. f[i] \in Tagged
          BY <3>6, <3>1, <2>1
        <4>2. f[i] # <<>>
          BY <4>1, <1>0
        <4>3. f[i + 1] = Decorate(f[i], deco[i + 1])
          BY <3>2, <3>4, <4>2
        <4>4. f[i + 1] \in Tagged
          <5> HIDE DEF Tagged, n, P
          <5>1. QED
            BY <4>1, <4>3, <3>1, <1>3
        <4>5. QED
          BY <4>4, <3>1
      <3>7. QED
        BY <3>5, <3>6
    <2>2. 0 \in P /\ P \in SUBSET Nat
      OBVIOUS
    <2>3. \A i \in 0..n : i \in P
      <3> HIDE DEF P
      <3>1. QED
        BY <2>1, <2>2, <1>1, InductionTo
    <2>4. QED
      BY <2>3, <1>1
  <1>8. f = [i \in 0..n |-> IF i = 0 THEN <<>> ELSE Decorate(f[i - 1], deco[i])]
    <2>1. ASSUME NEW i \in 1..n
          PROVE  f[i] = Decorate(f[i - 1], deco[i])
      <3>1. i - 1 \in 0..n /\ i \in 0..n /\ i # 0
        BY <1>1
      <3>2. f[i] = step[i][f[i - 1]] /\ f[i - 1] \in D
        <4> HIDE DEF step
        <4>1. QED
          BY <3>1, <1>6
      <3>3. step[i][f[i - 1]] = IF f[i - 1] = <<>> /\ i # 1 THEN <<>>
                                ELSE Decorate(f[i - 1], deco[i])
        <4> HIDE DEF D, Tagged
        <4>1. QED
          BY <3>2
      <3>4. i # 1 => f[i - 1] # <<>>
        <4>1. SUFFICES ASSUME i # 1 PROVE f[i - 1] # <<>>
          OBVIOUS
        <4>2. i - 1 \in 1..n
          BY <4>1, <1>1
        <4>3. f[i - 1] \in Tagged
          BY <4>2, <1>7
        <4>4. QED
          BY <4>3, <1>0
      <3>5. QED
        BY <3>2, <3>3, <3>4
    <2>2. f[0] = <<>> /\ f = [i \in 0..n |-> f[i]]  
      <3> HIDE DEF step, D
      <3>1. QED
        BY <1>6, <1>1
    <2>3. QED
      <3> HIDE DEF n, deco, Tagged
      <3>1. \A i \in 0..n : f[i] = IF i = 0 THEN <<>> ELSE Decorate(f[i - 1], deco[i])
        <4> TAKE i \in 0..n
        <4>1. CASE i = 0
          BY <4>1, <2>2
        <4>2. CASE i # 0
          <5>1. i \in 1..n
            BY <4>2, <1>1
          <5>2. QED
            BY <4>2, <5>1, <2>1
        <4>3. QED
          BY <4>1, <4>2
      <3>2. QED
        BY <3>1, <2>2
  <1> DEFINE func == CHOOSE g : g = [i \in 0..n |-> IF i = 0 THEN <<>>
                                                    ELSE Decorate(g[i - 1], deco[i])]
  <1>9. func = [i \in 0..n |-> IF i = 0 THEN <<>> ELSE Decorate(func[i - 1], deco[i])]
    <2> HIDE DEF n, deco
    <2>1. QED
      BY <1>8
  <1>10. \A i \in 0..n : func[i] = f[i]
    <2> DEFINE P == {i \in Nat : i > n \/ func[i] = f[i]}
    <2>0. \A i \in 0..n :
             /\ func[i] = IF i = 0 THEN <<>> ELSE Decorate(func[i - 1], deco[i])
             /\ f[i] = IF i = 0 THEN <<>> ELSE Decorate(f[i - 1], deco[i])
      <3> HIDE DEF func
      <3>1. QED
        BY <1>8, <1>9
    <2> HIDE DEF func
    <2>1. ASSUME NEW i \in 0..(n - 1), i \in P
          PROVE  i + 1 \in P
      <3>1. i + 1 \in 0..n /\ i \in 0..n /\ (i + 1) - 1 = i /\ i + 1 # 0 /\ i <= n /\ ~(i > n)
        BY <1>1
      <3>2. func[i] = f[i]
        BY <2>1, <3>1
      <3>3. func[i + 1] = Decorate(func[i], deco[i + 1]) /\ f[i + 1] = Decorate(f[i], deco[i + 1])
        <4> HIDE DEF P
        <4>1. /\ func[i + 1] = Decorate(func[(i + 1) - 1], deco[i + 1])
              /\ f[i + 1] = Decorate(f[(i + 1) - 1], deco[i + 1])
          BY <2>0, <3>1
        <4>2. QED
          BY <4>1, <3>1
      <3>4. QED
        BY <3>1, <3>2, <3>3
    <2>2. 0 \in P /\ P \in SUBSET Nat
      <3>1. 0 \in 0..n
        BY <1>1
      <3>2. func[0] = f[0]
        BY <3>1, <2>0
      <3>3. QED
        BY <3>2
    <2>3. \A i \in 0..n : i \in P
      <3> HIDE DEF P
      <3>1. QED
        BY <2>1, <2>2, <1>1, InductionTo
    <2>4. QED
      BY <2>3, <1>1
  <1>11. Decorated(c) = func[n][1]
    BY Zenon DEF Decorated
  <1>12. n \in 1..n /\ n \in 0..n
    BY <1>1
  <1>13. func[n] \in Tagged
    <2> HIDE DEF func, Tagged
    <2>1. QED
      BY <1>7, <1>10, <1>12
  <1>14. QED
    <2> HIDE DEF func, n, deco
    <2>1. PICK a \in Attributes : func[n] = <<a>> /\ a.adminOnly = AdminOnly(c)
      BY <1>13
    <2>2. QED
      BY <2>1, <1>11

-----------------------------------------------------------------------------
\* With the defaults untouched, the rule that the filter puts together for a
\* command has the fields that the configuration gives it, and no other.
LEMMA AclIsConfigured ==
    ASSUME NEW c, NEW field, defaults = DefaultRule
    PROVE  Configured(c, field) = IF Has(Acl(c), field) THEN <<Acl(c)[field]>> ELSE <<>>
  <1> DEFINE I == {i \in 1..Len(Controls) : c \in Controls[i].matches}
             rules == {i \in DOMAIN Controls : c \in Controls[i].matches}
             first == CHOOSE i \in rules : \A j \in rules : i <= j
             rule == IF rules = {} THEN DefaultRule ELSE Controls[first].rule
  <1>1. I = rules
    BY AccessAssumption
  <1>2. Configured(c, field)
        = IF Has(rule, field) THEN <<rule[field]>>
          ELSE IF Has(DefaultRule, field) THEN <<DefaultRule[field]>> ELSE <<>>
    BY DEF Configured
  <1>3. CASE rules = {}
    <2>1. Acl(c) = DefaultRule
      BY <1>1, <1>3 DEF Acl, SelectInSeq
    <2>2. rule = DefaultRule
      BY <1>3
    <2> HIDE DEF rule
    <2>3. QED
      BY <1>2, <2>1, <2>2
  <1>4. CASE rules # {}
    <2>1. first \in rules
      <3>1. \E i \in rules : \A j \in rules : i <= j
        <4>1. rules \subseteq Nat
          BY <1>1
        <4> HIDE DEF rules
        <4>2. QED
          BY <4>1, <1>4, LeastExists
      <3> HIDE DEF rules
      <3>2. QED
        BY <3>1
    <2>2. first # 0
      <3>1. first \in I
        BY <1>1, <2>1
      <3> HIDE DEF first
      <3>2. QED
        BY <3>1
    <2>3. Min(rules) = first
      BY DEF Min
    <2>4. Acl(c) = Updated(DefaultRule, Controls[first].rule)
      <3> DEFINE s == IF I # {} THEN Min(I) ELSE 0
      <3>1. Acl(c) = IF s = 0 THEN defaults ELSE Updated(defaults, Controls[s].rule)
        BY Zenon DEF Acl, SelectInSeq
      <3>2. s = first
        BY <1>1, <1>4, <2>3
      <3> HIDE DEF first, s
      <3>3. QED
        BY <3>1, <3>2, <2>2
    <2>5. rule = Controls[first].rule
      BY <1>4
    <2> HIDE DEF rule, first
    <2>6. Acl(c) = [f \in DOMAIN DefaultRule \cup DOMAIN rule |->
                        IF Has(rule, f) THEN rule[f] ELSE DefaultRule[f]]
      BY <2>4, <2>5 DEF Updated
    <2>7. Has(Acl(c), field) <=> Has(rule, field) \/ Has(DefaultRule, field)
      BY <2>6 DEF Has
    <2>8. Has(Acl(c), field) =>
            Acl(c)[field] = IF Has(rule, field) THEN rule[field] ELSE DefaultRule[field]
      BY <2>6 DEF Has
    <2>9. QED
      BY <1>2, <2>7, <2>8
  <1>5. QED
    BY <1>3, <1>4

\* The rule of a command is as valid as what it is put together from.
LEMMA AclIsValid ==
    ASSUME NEW c, defaults = DefaultRule
    PROVE  \A field \in {"allowmuc", "allowprivate"} :
              Has(Acl(c), field) => Acl(c)[field] \in BOOLEAN
  <1> TAKE field \in {"allowmuc", "allowprivate"}
  <1> DEFINE rules == {i \in DOMAIN Controls : c \in Controls[i].matches}
             first == CHOOSE i \in rules : \A j \in rules : i <= j
             rule == IF rules = {} THEN DefaultRule ELSE Controls[first].rule
  <1>1. RuleIsValid(rule) /\ RuleIsValid(DefaultRule)
    <2>1. CASE rules = {}
      BY <2>1, AccessAssumption
    <2>2. CASE rules # {}
      <3>1. first \in rules
        <4>1. \E i \in rules : \A j \in rules : i <= j
          <5>1. rules \subseteq Nat
            BY AccessAssumption
          <5> HIDE DEF rules
          <5>2. QED
            BY <5>1, <2>2, LeastExists
        <4> HIDE DEF rules
        <4>2. QED
          BY <4>1
      <3>2. first \in DOMAIN Controls
        BY <3>1
      <3> HIDE DEF first
      <3>3. rule = Controls[first].rule
        BY <2>2
      <3> HIDE DEF rule
      <3>4. QED
        BY <3>2, <3>3, AccessAssumption
    <2>3. QED
      BY <2>1, <2>2
  <1>2. Configured(c, field)
        = IF Has(rule, field) THEN <<rule[field]>>
          ELSE IF Has(DefaultRule, field) THEN <<DefaultRule[field]>> ELSE <<>>
    BY DEF Configured
  <1>3. Configured(c, field) = IF Has(Acl(c), field) THEN <<Acl(c)[field]>> ELSE <<>>
    BY AclIsConfigured
  <1> HIDE DEF rule
  <1>4. QED
    BY <1>1, <1>2, <1>3 DEF RuleIsValid

-----------------------------------------------------------------------------
\* The attributes and the defaults are what the configuration makes them; the
\* last answer is the filter's verdict on its message, and the last list holds
\* the commands that pass the dry run.
AccessInv ==
    /\ attrs = [c \in Commands |-> Decorated(c)]
    /\ defaults = DefaultRule
    /\ hideAccess \in BOOLEAN /\ hideCommands \in BOOLEAN /\ suppress \in BOOLEAN
    /\ last # <<>> =>
          \E m \in Message, c \in Commands \cup {NoArgs}, ran \in BOOLEAN, replies \in 0..1 :
             /\ last = <<[msg |-> m, cmd |-> c, ran |-> ran, replies |-> replies]>>
             /\ ran => c \in Commands /\ ~Refused(c, m, m.args)
    /\ listed # <<>> =>
          \E m \in Message :
             listed = <<[msg |-> m,
                         shown |-> {c \in Commands : /\ Checked(c) = c /\ ~attrs[c].hidden
                                                     /\ hideCommands => MayAccess(m, c)}]>>

\* What is refused depends on nothing that a message changes.
LEMMA RefusedStays ==
    ASSUME UNCHANGED <<attrs, defaults>>, NEW c, NEW m, NEW args
    PROVE  /\ Refused(c, m, args)' <=> Refused(c, m, args)
           /\ Checked(c)' = Checked(c)
  <1>1. Checked(c)' = Checked(c)
    BY DEF Checked
  <1>2. PICK k : k = Checked(c)
    OBVIOUS
  <1>3. Acl(k)' = Acl(k)
    BY DEF Acl, SelectInSeq
  <1>4. Denied(k, m, args)' <=> Denied(k, m, args)
    BY <1>3 DEF Denied
  <1>5. Refused(c, m, args) <=> Denied(k, m, args)
    BY <1>2, Zenon DEF Refused
  <1>6. Refused(c, m, args)' <=> Denied(k, m, args)'
    BY <1>1, <1>2, Zenon DEF Refused
  <1>7. QED
    BY <1>1, <1>4, <1>5, <1>6

\* No handler of a message writes to the attributes or the defaults, and each
\* leaves an answer that is the filter's.
THEOREM AccessInvariant == AccessSpec => []AccessInv
  <1>1. AccessInit => AccessInv
    BY DEF AccessInit, AccessInv
  <1>2. ASSUME AccessInv, [AccessNext]_accessVars
        PROVE  AccessInv'
    <2>0. UNCHANGED <<attrs, defaults, hideAccess, hideCommands, suppress>>
      BY <1>2 DEF AccessNext, accessVars, Ask, AskUnknown, Help
    <2>1. \A m, c, args : Refused(c, m, args)' <=> Refused(c, m, args)
      BY <2>0, RefusedStays
    <2>8. \A c : Checked(c)' = Checked(c)
      BY <2>0, RefusedStays
    <2>2. /\ attrs' = [c \in Commands |-> Decorated(c)] /\ defaults' = DefaultRule
          /\ hideAccess' \in BOOLEAN /\ hideCommands' \in BOOLEAN /\ suppress' \in BOOLEAN
      BY <1>2, <2>0 DEF AccessInv
    <2>3. CASE last' = last /\ listed' = listed
      <3>1. \A m, c : MayAccess(m, c)' <=> MayAccess(m, c)
        BY <2>1 DEF MayAccess
      <3>2. QED
        BY <1>2, <2>0, <2>1, <2>8, <2>2, <2>3, <3>1, Zenon DEF AccessInv
    <2>4. ASSUME NEW m \in Message, NEW c \in Commands, Ask(m, c)
          PROVE  AccessInv'
      <3> DEFINE ran == ~Refused(c, m, m.args)
                 replies == IF Refused(c, m, m.args) /\ ~hideAccess THEN 1 ELSE 0
      <3>1. last' = <<[msg |-> m, cmd |-> c, ran |-> ran, replies |-> replies]>> /\ listed' = <<>>
        BY <2>4 DEF Ask
      <3>2. ran \in BOOLEAN /\ replies \in 0..1
        OBVIOUS
      <3>3. ran => c \in Commands /\ ~Refused(c, m, m.args)'
        BY <2>1
      <3>4. PICK verdict \in BOOLEAN, answers \in 0..1 :
               /\ last' = <<[msg |-> m, cmd |-> c, ran |-> verdict, replies |-> answers]>>
               /\ verdict => c \in Commands /\ ~Refused(c, m, m.args)'
        BY <3>1, <3>2, <3>3, Zenon
      <3>5. QED
        BY <2>2, <3>1, <3>4, Zenon DEF AccessInv
    <2>5. ASSUME NEW m \in Message, AskUnknown(m)
          PROVE  AccessInv'
      <3> DEFINE replies == IF suppress THEN 0 ELSE 1
      <3>1. /\ last' = <<[msg |-> m, cmd |-> NoArgs, ran |-> FALSE, replies |-> replies]>>
            /\ listed' = <<>>
        BY <2>5 DEF AskUnknown
      <3>2. replies \in 0..1
        OBVIOUS
      <3>3. PICK answers \in 0..1 :
               last' = <<[msg |-> m, cmd |-> NoArgs, ran |-> FALSE, replies |-> answers]>>
        BY <3>1, <3>2, Zenon
      <3>4. QED
        BY <2>2, <3>1, <3>3, Zenon DEF AccessInv
    <2>6. ASSUME NEW m \in Message, Help(m)
          PROVE  AccessInv'
      <3> DEFINE Shown == {c \in Commands : /\ Checked(c) = c /\ ~attrs[c].hidden
                                           /\ (hideCommands => MayAccess(m, c))}
      <3>1. listed' = <<[msg |-> m, shown |-> Shown]>> /\ last' = <<>>
        BY <2>6 DEF Help
      <3>2. Shown = Shown'
        <4>1. \A c : MayAccess(m, c)' <=> MayAccess(m, c)
          BY <2>1 DEF MayAccess
        <4>2. QED
          BY <2>0, <2>8, <4>1
      <3>3. listed' = <<[msg |-> m, shown |-> Shown']>>
        BY <3>1, <3>2
      <3>4. QED
        BY <2>2, <3>1, <3>3 DEF AccessInv
    <2>7. QED
      BY <1>2, <2>3, <2>4, <2>5, <2>6 DEF AccessNext, accessVars
  <1>3. QED
    BY <1>1, <1>2, PTL DEF AccessSpec

\* The variables of the filter keep their types.
THEOREM AccessTypeCorrect == AccessSpec => []AccessTypeOK
  <1>1. AccessInv => AccessTypeOK
    <2> SUFFICES ASSUME AccessInv PROVE AccessTypeOK
      OBVIOUS
    <2>1. ASSUME NEW c \in Commands
          PROVE  /\ attrs[c].kind \in {"plain", "re", "arg"}
                 /\ {attrs[c].adminOnly, attrs[c].hidden} \subseteq BOOLEAN
      <3>1. attrs[c] \in Attributes
        BY DecoratedFacts DEF AccessInv
      <3>2. QED
        BY <3>1 DEF Attributes
    <2>2. last # <<>> => last[1].msg \in Message /\ last[1].replies \in 0..1
      <3>1. SUFFICES ASSUME last # <<>>
                     PROVE  last[1].msg \in Message /\ last[1].replies \in 0..1
        OBVIOUS
      <3>2. PICK m \in Message, c \in Commands \cup {NoArgs}, ran \in BOOLEAN, replies \in 0..1 :
               last = <<[msg |-> m, cmd |-> c, ran |-> ran, replies |-> replies]>>
        BY <3>1, Zenon DEF AccessInv
      <3>3. QED
        BY <3>2
    <2>3. listed # <<>> => listed[1].shown \subseteq Commands
      <3>1. SUFFICES ASSUME listed # <<>> PROVE listed[1].shown \subseteq Commands
        OBVIOUS
      <3>2. PICK m \in Message :
               listed = <<[msg |-> m,
                           shown |-> {c \in Commands : /\ Checked(c) = c /\ ~attrs[c].hidden
                                                       /\ hideCommands => MayAccess(m, c)}]>>
        BY <3>1, Zenon DEF AccessInv
      <3>3. QED
        BY <3>2
    <2>4. QED
      BY <2>1, <2>2, <2>3 DEF AccessInv, AccessTypeOK
  <1>2. QED
    BY <1>1, AccessInvariant, PTL

\* A text that the filter lets pass is one that the configuration opens to it.
LEMMA OutsideIsNotOpen ==
    ASSUME NEW c, NEW allow, NEW deny, NEW text, defaults = DefaultRule
    PROVE  Opens(c, allow, deny, text) <=> ~Outside(Acl(c), allow, deny, text)
  <1> DEFINE acl == Acl(c)
  <1>1. /\ Configured(c, allow) = IF Has(acl, allow) THEN <<acl[allow]>> ELSE <<>>
        /\ Configured(c, deny) = IF Has(acl, deny) THEN <<acl[deny]>> ELSE <<>>
    BY AclIsConfigured
  <1> HIDE DEF acl
  <1>2. ASSUME NEW held, NEW deco, NEW set, deco = IF held THEN <<set>> ELSE <<>>,
               held \in BOOLEAN
        PROVE  /\ (\A i \in DOMAIN deco : text \in deco[i]) <=> (held => text \in set)
               /\ (\A i \in DOMAIN deco : text \notin deco[i]) <=> (held => text \notin set)
    <2>1. CASE held
      <3>1. DOMAIN deco = {1} /\ deco[1] = set
        BY <1>2, <2>1
      <3>2. QED
        BY <2>1, <3>1
    <2>2. CASE ~held
      <3>1. DOMAIN deco = {}
        BY <1>2, <2>2
      <3>2. QED
        BY <2>2, <3>1
    <2>3. QED
      BY <2>1, <2>2
  <1>3. Has(acl, allow) \in BOOLEAN /\ Has(acl, deny) \in BOOLEAN
    BY DEF Has
  <1>4. (\A i \in DOMAIN Configured(c, allow) : text \in Configured(c, allow)[i])
        <=> (Has(acl, allow) => text \in acl[allow])
    BY <1>1, <1>2, <1>3
  <1>5. (\A i \in DOMAIN Configured(c, deny) : text \notin Configured(c, deny)[i])
        <=> (Has(acl, deny) => text \notin acl[deny])
    BY <1>1, <1>2, <1>3
  <1>6. QED
    BY <1>4, <1>5 DEF Opens, Outside, acl

\* Whatever was asked before, a command that runs is one that the configuration
\* opens to its sender, arguments and place, and "!help" lists what runs.
THEOREM AccessIsAsConfiguredHolds == AccessSpec => []AccessIsAsConfigured
  <1>0. (\A value : <<>> # <<value>>) /\ <<TRUE>> # <<FALSE>>
    <2>1. \A value : <<>> # <<value>>
      OBVIOUS
    <2>2. \A one, other : <<one>> = <<other>> => one = other
      OBVIOUS
    <2>3. <<TRUE>> # <<FALSE>>
      BY <2>2, Zenon
    <2>4. QED
      BY <2>1, <2>3
  <1>1. ASSUME AccessInv
        PROVE  CommandsThatRunAreAllowed
    <2>1. SUFFICES ASSUME last # <<>>, last[1].ran, Checked(last[1].cmd) = last[1].cmd
                   PROVE  CommandsThatRunAreAllowed
      BY DEF CommandsThatRunAreAllowed
    <2>2. PICK m \in Message, c \in Commands \cup {NoArgs}, ran \in BOOLEAN, replies \in 0..1 :
             /\ last = <<[msg |-> m, cmd |-> c, ran |-> ran, replies |-> replies]>>
             /\ ran => c \in Commands /\ ~Refused(c, m, m.args)
      BY <1>1, <2>1, Zenon DEF AccessInv
    <2>3. last[1].msg = m /\ last[1].cmd = c /\ last[1].ran = ran
      BY <2>2
    <2>4. c \in Commands /\ ~Denied(c, m, m.args) /\ defaults = DefaultRule
      BY <1>1, <2>1, <2>2, <2>3 DEF AccessInv, Refused
    <2>5. /\ Opens(c, "allowargs", "denyargs", m.args)
          /\ Opens(c, "allowusers", "denyusers", m.frm)
          /\ IsGroup(m) => Opens(c, "allowrooms", "denyrooms", m.place)
      BY <2>4, OutsideIsNotOpen DEF Denied
    <2>6. \A field : Configured(c, field) = IF Has(Acl(c), field) THEN <<Acl(c)[field]>> ELSE <<>>
      BY <2>4, AclIsConfigured
    <2>7. ~Says(c, IF IsGroup(m) THEN "allowmuc" ELSE "allowprivate", FALSE)
      <3>1. CASE IsGroup(m)
        <4>1. Has(Acl(c), "allowmuc") => Acl(c)["allowmuc"]
          BY <2>4, <3>1 DEF Denied
        <4>2. Has(Acl(c), "allowmuc") => Acl(c)["allowmuc"] = TRUE
          BY <2>4, <4>1, AclIsValid
        <4>3. CASE Has(Acl(c), "allowmuc")
          <5>1. Configured(c, "allowmuc") = <<TRUE>>
            BY <4>2, <4>3, <2>6
          <5>2. ~Says(c, "allowmuc", FALSE)
            BY <5>1, <1>0, Zenon DEF Says
          <5>3. QED
            BY <5>2, <3>1
        <4>4. CASE ~Has(Acl(c), "allowmuc")
          <5>1. Configured(c, "allowmuc") = <<>>
            BY <4>4, <2>6
          <5>2. ~Says(c, "allowmuc", FALSE)
            BY <5>1, <1>0, Zenon DEF Says
          <5>3. QED
            BY <5>2, <3>1
        <4>5. QED
          BY <4>3, <4>4
      <3>2. CASE ~IsGroup(m)
        <4>1. Has(Acl(c), "allowprivate") => Acl(c)["allowprivate"]
          BY <2>4, <3>2 DEF Denied
        <4>2. Has(Acl(c), "allowprivate") => Acl(c)["allowprivate"] = TRUE
          BY <2>4, <4>1, AclIsValid
        <4>3. CASE Has(Acl(c), "allowprivate")
          <5>1. Configured(c, "allowprivate") = <<TRUE>>
            BY <4>2, <4>3, <2>6
          <5>2. ~Says(c, "allowprivate", FALSE)
            BY <5>1, <1>0, Zenon DEF Says
          <5>3. QED
            BY <5>2, <3>2
        <4>4. CASE ~Has(Acl(c), "allowprivate")
          <5>1. Configured(c, "allowprivate") = <<>>
            BY <4>4, <2>6
          <5>2. ~Says(c, "allowprivate", FALSE)
            BY <5>1, <1>0, Zenon DEF Says
          <5>3. QED
            BY <5>2, <3>2
        <4>5. QED
          BY <4>3, <4>4
      <3>3. QED
        BY <3>1, <3>2
    <2>8. AdminOnly(c) => m.frm \in Admins /\ (IsGroup(m) => Says(c, "allowmuc", TRUE))
      <3>1. attrs[c].adminOnly = AdminOnly(c)
        BY <1>1, <2>4, DecoratedFacts DEF AccessInv
      <3>2. SUFFICES ASSUME AdminOnly(c)
                     PROVE  m.frm \in Admins /\ (IsGroup(m) => Says(c, "allowmuc", TRUE))
        OBVIOUS
      <3>3. m.frm \in Admins /\ (IsGroup(m) => Has(Acl(c), "allowmuc") /\ Acl(c)["allowmuc"])
        BY <2>4, <3>1, <3>2 DEF Denied
      <3>4. Has(Acl(c), "allowmuc") => Acl(c)["allowmuc"] \in BOOLEAN
        BY <2>4, AclIsValid
      <3>5. IsGroup(m) => Says(c, "allowmuc", TRUE)
        <4>1. SUFFICES ASSUME IsGroup(m) PROVE Says(c, "allowmuc", TRUE)
          OBVIOUS
        <4>2. Has(Acl(c), "allowmuc") /\ Acl(c)["allowmuc"] = TRUE
          BY <4>1, <3>3, <3>4
        <4>3. Configured(c, "allowmuc") = <<Acl(c)["allowmuc"]>>
          BY <4>2, <2>6
        <4>4. QED
          BY <4>2, <4>3 DEF Says
      <3>6. QED
        BY <3>3, <3>5
    <2>9. QED
      BY <2>3, <2>5, <2>7, <2>8 DEF CommandsThatRunAreAllowed
  <1>2. ASSUME AccessInv
        PROVE  HelpShowsWhatRuns
    <2>1. SUFFICES ASSUME listed # <<>>, hideCommands PROVE HelpShowsWhatRuns
      BY DEF HelpShowsWhatRuns
    <2>2. PICK m \in Message :
             listed = <<[msg |-> m,
                         shown |-> {c \in Commands : /\ Checked(c) = c /\ ~attrs[c].hidden
                                                     /\ hideCommands => MayAccess(m, c)}]>>
      BY <1>2, <2>1, Zenon DEF AccessInv
    <2>3. /\ listed[1].msg = m
          /\ \A c \in Commands :
                c \in listed[1].shown
                <=> Checked(c) = c /\ ~attrs[c].hidden /\ ~Refused(c, m, NoArgs)
      BY <2>1, <2>2 DEF MayAccess
    <2>4. ASSUME NEW c \in Commands, ~attrs[c].hidden, Checked(c) = c
          PROVE  /\ c \in listed[1].shown => \E text \in Texts : ~Refused(c, m, text)
                 /\ /\ \E text \in Texts : ~Refused(c, m, text)
                    /\ Opens(c, "allowargs", "denyargs", NoArgs)
                    => c \in listed[1].shown
      <3>1. NoArgs \in Texts
        BY AccessAssumption
      <3>2. ASSUME NEW text \in Texts, ~Refused(c, m, text), Opens(c, "allowargs", "denyargs", NoArgs)
            PROVE  ~Refused(c, m, NoArgs)
        <4>1. ~Outside(Acl(c), "allowargs", "denyargs", NoArgs)
          BY <3>2, <1>2, OutsideIsNotOpen DEF AccessInv
        <4>2. QED
          BY <2>4, <3>2, <4>1 DEF Refused, Denied
      <3>3. QED
        BY <2>3, <2>4, <3>1, <3>2
    <2>5. QED
      BY <2>3, <2>4 DEF HelpShowsWhatRuns
  <1>3. AccessInv => AccessIsAsConfigured
    BY <1>1, <1>2 DEF AccessIsAsConfigured
  <1>4. QED
    BY <1>3, AccessInvariant, PTL

-----------------------------------------------------------------------------
(* Files sent over DCC.                                                       *)

\* Nothing beyond the end of a file is sent, and acknowledgements are of what
\* was sent.
DccInv ==
    /\ dcc \in [Transfers -> {"new", "listening", "connected", "closed"}]
    /\ registered \subseteq Transfers
    /\ size \in [Transfers -> 1..MaxSize]
    /\ sent \in [Transfers -> 0..MaxSize] /\ transfered \in [Transfers -> 0..Chunk]
    /\ streamIs \in [Transfers -> {"pending", "in progress"}]
    /\ acks \in [Transfers -> Seq(1..MaxSize)]
    /\ dccReactor \in {"alive", "dead"}
    /\ \A t \in Transfers : sent[t] <= size[t]

LEMMA DccInitInv == DccInit => DccInv
  BY TransferAssumption DEF DccInit, DccInv

\* A chunk is at most what is left of the file.
LEMMA SendChunkInv ==
    ASSUME DccInv, NEW t \in Transfers, NEW queue \in Seq(1..MaxSize), SendChunk(t, queue)
    PROVE  /\ sent' \in [Transfers -> 0..MaxSize] /\ transfered' \in [Transfers -> 0..Chunk]
           /\ acks' \in [Transfers -> Seq(1..MaxSize)]
           /\ \A u \in Transfers : sent'[u] <= size[u]
  <1> DEFINE left == size[t] - sent[t]
             data == IF left < Chunk THEN left ELSE Chunk
  <1>1. /\ sent' = [sent EXCEPT ![t] = @ + data]
        /\ transfered' = [transfered EXCEPT ![t] = data]
        /\ acks' = [acks EXCEPT ![t] = IF data = 0 THEN queue ELSE Append(queue, sent'[t])]
    BY DEF SendChunk
  <1>2. /\ size[t] \in 1..MaxSize /\ sent[t] \in 0..MaxSize /\ sent[t] <= size[t]
        /\ Chunk \in Nat \ {0} /\ MaxSize \in Nat
    BY TransferAssumption DEF DccInv
  <1>3. data \in 0..Chunk /\ sent[t] + data \in 0..MaxSize /\ sent[t] + data <= size[t]
        /\ (data # 0 => sent[t] + data \in 1..MaxSize)
    BY <1>2
  <1> HIDE DEF data
  <1>4. sent'[t] = sent[t] + data
    BY <1>1 DEF DccInv
  <1>5. (IF data = 0 THEN queue ELSE Append(queue, sent'[t])) \in Seq(1..MaxSize)
    BY <1>3, <1>4, AppendElements
  <1>6. QED
    BY <1>1, <1>3, <1>4, <1>5 DEF DccInv

LEMMA DccNextInv == ASSUME DccInv, [DccNext]_dccVars PROVE DccInv'
  <1>1. ASSUME NEW t \in Transfers, RequestTransfer(t) PROVE DccInv'
    BY <1>1 DEF RequestTransfer, DccInv
  <1>2. ASSUME NEW t \in Transfers, OnDccConnect(t) PROVE DccInv'
    <2>0. SendChunk(t, <<>>)
      BY <1>2, Zenon DEF OnDccConnect
    <2>1. <<>> \in Seq(1..MaxSize)
      BY EmptySeq
    <2>2. /\ sent' \in [Transfers -> 0..MaxSize] /\ transfered' \in [Transfers -> 0..Chunk]
          /\ acks' \in [Transfers -> Seq(1..MaxSize)]
          /\ \A u \in Transfers : sent'[u] <= size[u]
      BY <2>0, <2>1, SendChunkInv
    <2>3. QED
      BY <1>2, <2>2 DEF OnDccConnect, DccInv
  <1>3. ASSUME NEW t \in Transfers, OnDccDisconnect(t) PROVE DccInv'
    <2>1. <<>> \in Seq(1..MaxSize)
      OBVIOUS
    <2>2. QED
      BY <1>3, <2>1 DEF OnDccDisconnect, DccInv
  <1>4. ASSUME NEW t \in Transfers, OnDccMsg(t) PROVE DccInv'
    <2>1. /\ <<>> \in Seq(1..MaxSize) /\ acks[t] \in Seq(1..MaxSize)
          /\ acks[t] # <<>> /\ Tail(acks[t]) \in Seq(1..MaxSize)
      <3>1. acks[t] \in Seq(1..MaxSize) /\ acks[t] # <<>>
        BY <1>4 DEF OnDccMsg, DccInv
      <3>2. Tail(acks[t]) \in Seq(1..MaxSize)
        BY <3>1, TailElements
      <3>3. QED
        BY <3>1, <3>2, EmptySeq
    <2>2. UNCHANGED <<size, streamIs>>
      BY <1>4 DEF OnDccMsg
    <2>3. CASE Head(acks[t]) = size[t]
      <3>1. /\ dcc' = [dcc EXCEPT ![t] = "closed"]
            /\ registered' = registered \ {t} /\ dccReactor' = "dead"
            /\ acks' = [acks EXCEPT ![t] = <<>>]
            /\ UNCHANGED <<sent, transfered>>
        BY <1>4, <2>3 DEF OnDccMsg
      <3>2. QED
        BY <2>1, <2>2, <3>1 DEF DccInv
    <2>4. CASE Head(acks[t]) # size[t] /\ Head(acks[t]) = transfered[t]
      <3>1. SendChunk(t, Tail(acks[t])) /\ UNCHANGED <<dcc, registered, dccReactor>>
        BY <1>4, <2>4 DEF OnDccMsg
      <3>2. /\ sent' \in [Transfers -> 0..MaxSize] /\ transfered' \in [Transfers -> 0..Chunk]
            /\ acks' \in [Transfers -> Seq(1..MaxSize)]
            /\ \A u \in Transfers : sent'[u] <= size[u]
        BY <2>1, <3>1, SendChunkInv
      <3>3. QED
        BY <2>2, <3>1, <3>2 DEF DccInv
    <2>5. CASE Head(acks[t]) # size[t] /\ Head(acks[t]) # transfered[t]
      <3>1. /\ acks' = [acks EXCEPT ![t] = Tail(@)]
            /\ UNCHANGED <<dcc, registered, dccReactor, sent, transfered>>
        BY <1>4, <2>5 DEF OnDccMsg
      <3>2. QED
        BY <2>1, <2>2, <3>1 DEF DccInv
    <2>6. QED
      BY <2>3, <2>4, <2>5
  <1>5. CASE UNCHANGED dccVars
    BY <1>5 DEF dccVars, DccInv
  <1>6. QED
    BY <1>1, <1>2, <1>3, <1>4, <1>5 DEF DccNext

\* Transfers keep their types, for any transfers, sizes and chunks.
THEOREM TransferTypeCorrect == DccSpec => []DccTypeOK
  <1>1. DccInv => DccTypeOK
    <2>1. SUFFICES ASSUME DccInv PROVE DccTypeOK
      OBVIOUS
    <2>2. \A t \in Transfers : \A i \in DOMAIN acks[t] : acks[t][i] \in 1..MaxSize
      <3> TAKE t \in Transfers
      <3>1. acks[t] \in Seq(1..MaxSize)
        BY <2>1 DEF DccInv
      <3>2. QED
        BY <3>1, LenProperties, ElementOfSeq
    <2>3. QED
      BY <2>1, <2>2 DEF DccInv, DccTypeOK
  <1>2. QED
    BY DccInitInv, DccNextInv, <1>1, PTL DEF DccSpec

-----------------------------------------------------------------------------
(* What the bot says and to whom.                                             *)

Anyone == {Asker, "room", "bot"} \cup ToSet(Notified) \cup RelayedTo
Units == ToSet(Words) \cup {"nick", "newline"}
Ids == [kind : {"person", "occupant", "room"}, who : Anyone]
Parts == [job : Nat, to : Ids, body : Seq(Units)]
Jobs == [kind : {"reply", "send", "card", "relay", "reverse", "warn"}, to : SUBSET Anyone]

ReplTyped ==
    /\ chat \in Backends /\ prefixed \in BOOLEAN
    /\ jobs \in Seq(Jobs) /\ Len(jobs) <= MaxJobs /\ cut \subseteq 1..Len(jobs)
    /\ todo \in [Speakers -> Seq(Parts)] /\ sentParts \in Seq(Parts)

\* A part belongs to a job, fits, and is for somebody the job is for.
InOrder(p) ==
    /\ p.job \in 1..Len(jobs) /\ Len(p.body) <= MessageSizeLimit
    /\ chat # "test" => p.to.who \in jobs[p.job].to
PartsInOrder ==
    /\ \A i \in 1..Len(sentParts) : InOrder(sentParts[i])
    /\ \A s \in Speakers : \A i \in 1..Len(todo[s]) : InOrder(todo[s][i])

\* A job is in the hands of one thread, and a thread has one job in hand.
InHand(s, j) == \E i \in 1..Len(todo[s]) : todo[s][i].job = j
OneInHand == \A s, t \in Speakers : \A j, k : InHand(s, j) /\ InHand(t, k) => (s = t <=> j = k)

\* What is to be read by somebody a job is for.
MeantText(job, who, text) ==
    /\ \/ Unreached(job, who) \/ text = Words
       \/ who = "room" /\ text \in {<<"nick">> \o Words, <<"nick", "newline">> \o Words}
    /\ prefixed /\ who = "room" /\ job = [kind |-> "reply", to |-> {"room"}]
          => Head(text) = "nick"

\* What was said so far and what is left to say make the text.
ToldSoFar ==
    chat # "test" =>
      \A j \in 1..Len(jobs) : j \notin cut => \A who \in jobs[j].to :
         /\ \A s \in Speakers : InHand(s, j) =>
               MeantText(jobs[j], who, SentTo(j, who) \o Said(todo[s], j, who))
         /\ (\A s \in Speakers : ~InHand(s, j)) => MeantText(jobs[j], who, SentTo(j, who))

RepliesInv == ReplTyped /\ PartsInOrder /\ OneInHand


-----------------------------------------------------------------------------
(* What sequences of parts say.                                               *)

Bodies(parts, j, who) == [i \in DOMAIN parts |-> Heard(parts[i], j, who)]

LEMMA HeardType ==
    ASSUME NEW p \in Parts, NEW j, NEW who
    PROVE  Heard(p, j, who) \in Seq(Units)
  <1>1. p.body \in Seq(Units) /\ <<>> \in Seq(Units)
    BY EmptySeq DEF Parts
  <1>2. QED
    BY <1>1 DEF Heard

LEMMA BodiesType ==
    ASSUME NEW parts \in Seq(Parts), NEW j, NEW who
    PROVE  /\ Bodies(parts, j, who) \in Seq(Seq(Units))
           /\ Len(Bodies(parts, j, who)) = Len(parts)
           /\ \A i \in 1..Len(parts) : Bodies(parts, j, who)[i] = Heard(parts[i], j, who)
  <1>1. DOMAIN parts = 1..Len(parts) /\ Len(parts) \in Nat
    BY LenProperties
  <1>2. \A i \in 1..Len(parts) : Heard(parts[i], j, who) \in Seq(Units)
    <2> TAKE i \in 1..Len(parts)
    <2>1. parts[i] \in Parts
      BY ElementOfSeq
    <2>2. QED
      BY <2>1, HeardType
  <1>3. Bodies(parts, j, who) = [i \in 1..Len(parts) |-> Heard(parts[i], j, who)]
    BY <1>1 DEF Bodies
  <1>4. QED
    BY <1>1, <1>2, <1>3

LEMMA SaidType ==
    ASSUME NEW parts \in Seq(Parts), NEW j, NEW who
    PROVE  Said(parts, j, who) \in Seq(Units)
  BY BodiesType, FlattenType DEF Said, Bodies

\* What two sequences of parts say is what the one says, then the other.
LEMMA SaidConcat ==
    ASSUME NEW p \in Seq(Parts), NEW q \in Seq(Parts), NEW j, NEW who
    PROVE  Said(p \o q, j, who) = Said(p, j, who) \o Said(q, j, who)
  <1> DEFINE b == Bodies(p, j, who)
             c == Bodies(q, j, who)
             d == Bodies(p \o q, j, who)
  <1>1. /\ b \in Seq(Seq(Units)) /\ Len(b) = Len(p)
        /\ \A i \in 1..Len(p) : b[i] = Heard(p[i], j, who)
    BY BodiesType
  <1>2. /\ c \in Seq(Seq(Units)) /\ Len(c) = Len(q)
        /\ \A i \in 1..Len(q) : c[i] = Heard(q[i], j, who)
    BY BodiesType
  <1>3. /\ p \o q \in Seq(Parts) /\ Len(p \o q) = Len(p) + Len(q)
        /\ \A i \in 1..(Len(p) + Len(q)) : (p \o q)[i] = IF i <= Len(p) THEN p[i] ELSE q[i - Len(p)]
        /\ Len(p) \in Nat /\ Len(q) \in Nat
    BY ConcatProperties, LenProperties
  <1>4. /\ d \in Seq(Seq(Units)) /\ Len(d) = Len(p) + Len(q)
        /\ \A i \in 1..(Len(p) + Len(q)) : d[i] = Heard((p \o q)[i], j, who)
    <2>1. /\ d \in Seq(Seq(Units)) /\ Len(d) = Len(p \o q)
          /\ \A i \in 1..Len(p \o q) : d[i] = Heard((p \o q)[i], j, who)
      <3>1. ASSUME NEW pq \in Seq(Parts)
            PROVE  /\ Bodies(pq, j, who) \in Seq(Seq(Units))
                   /\ Len(Bodies(pq, j, who)) = Len(pq)
                   /\ \A i \in 1..Len(pq) : Bodies(pq, j, who)[i] = Heard(pq[i], j, who)
        BY BodiesType
      <3>2. QED
        BY <1>3, <3>1, Zenon
    <2> HIDE DEF d
    <2>2. QED
      BY <2>1, <1>3
  <1> HIDE DEF b, c, d
  <1>5. /\ b \o c \in Seq(Seq(Units)) /\ Len(b \o c) = Len(p) + Len(q)
        /\ \A i \in 1..(Len(p) + Len(q)) : (b \o c)[i] = IF i <= Len(p) THEN b[i] ELSE c[i - Len(p)]
    <2>1. /\ b \o c \in Seq(Seq(Units)) /\ Len(b \o c) = Len(b) + Len(c)
          /\ \A i \in 1..(Len(b) + Len(c)) : (b \o c)[i] = IF i <= Len(b) THEN b[i] ELSE c[i - Len(b)]
      <3>1. ASSUME NEW x \in Seq(Seq(Units)), NEW y \in Seq(Seq(Units))
            PROVE  /\ x \o y \in Seq(Seq(Units)) /\ Len(x \o y) = Len(x) + Len(y)
                   /\ \A i \in 1..(Len(x) + Len(y)) :
                         (x \o y)[i] = IF i <= Len(x) THEN x[i] ELSE y[i - Len(x)]
        BY ConcatProperties
      <3>2. QED
        BY <1>1, <1>2, <3>1, Zenon
    <2>2. QED
      BY <2>1, <1>1, <1>2
  <1>6. \A i \in 1..(Len(p) + Len(q)) : d[i] = (b \o c)[i]
    <2> TAKE i \in 1..(Len(p) + Len(q))
    <2>1. CASE i <= Len(p)
      <3>1. i \in 1..Len(p)
        BY <2>1, <1>3
      <3>2. (p \o q)[i] = p[i] /\ (b \o c)[i] = b[i]
        BY <2>1, <1>3, <1>5
      <3>3. QED
        BY <3>1, <3>2, <1>1, <1>4
    <2>2. CASE ~(i <= Len(p))
      <3>1. i - Len(p) \in 1..Len(q)
        BY <2>2, <1>3
      <3>2. (p \o q)[i] = q[i - Len(p)] /\ (b \o c)[i] = c[i - Len(p)]
        BY <2>2, <1>3, <1>5
      <3>3. QED
        BY <3>1, <3>2, <1>2, <1>4
    <2>3. QED
      BY <2>1, <2>2
  <1>7. d = b \o c
    BY <1>4, <1>5, <1>6, SeqEqual
  <1>8. FlattenSeq(b \o c) = FlattenSeq(b) \o FlattenSeq(c)
    BY <1>1, <1>2, FlattenConcat
  <1>9. QED
    BY <1>7, <1>8 DEF b, c, d, Said, Bodies

\* One part says its text.
LEMMA SaidOne ==
    ASSUME NEW p \in Parts, NEW j, NEW who
    PROVE  Said(<<p>>, j, who) = Heard(p, j, who)
  <1> DEFINE b == Bodies(<<p>>, j, who)
             f == [i \in 0..1 |-> IF i = 0 THEN <<>> ELSE Heard(p, j, who)]
  <1>1. <<p>> \in Seq(Parts) /\ Len(<<p>>) = 1
    OBVIOUS
  <1>2. b \in Seq(Seq(Units)) /\ Len(b) = 1 /\ b[1] = Heard(p, j, who)
    <2>1. ASSUME NEW x \in Seq(Parts)
          PROVE  /\ Bodies(x, j, who) \in Seq(Seq(Units))
                 /\ Len(Bodies(x, j, who)) = Len(x)
                 /\ \A i \in 1..Len(x) : Bodies(x, j, who)[i] = Heard(x[i], j, who)
      BY BodiesType
    <2>2. /\ b \in Seq(Seq(Units)) /\ Len(b) = Len(<<p>>)
          /\ \A i \in 1..Len(<<p>>) : b[i] = Heard(<<p>>[i], j, who)
      BY <1>1, <2>1, Zenon
    <2> HIDE DEF b
    <2>3. QED
      BY <1>1, <2>2
  <1>3. Heard(p, j, who) \in Seq(Units) /\ <<>> \in Seq(Units)
    BY HeardType, EmptySeq
  <1>4. <<>> \o Heard(p, j, who) = Heard(p, j, who)
    BY <1>3, ConcatEmptySeq
  <1> HIDE DEF b
  <1>5. IsConcat(f, b, Units)
    <2>1. f \in [0..1 -> Seq(Units)] /\ f[0] = <<>> /\ f[1] = Heard(p, j, who)
      BY <1>3
    <2> HIDE DEF f
    <2>2. \A i \in 1..1 : f[i] = f[i - 1] \o b[i]
      <3> TAKE i \in 1..1
      <3>1. i = 1 /\ i - 1 = 0
        OBVIOUS
      <3>2. QED
        BY <3>1, <2>1, <1>2, <1>4
    <2>3. QED
      BY <2>1, <2>2, <1>2 DEF IsConcat
  <1>6. FlattenSeq(b) = f[1]
    <2> HIDE DEF f
    <2>1. FlattenSeq(b) = f[Len(b)]
      BY <1>2, <1>5, FlattenIsConcat
    <2>2. QED
      BY <2>1, <1>2
  <1>7. QED
    BY <1>6 DEF b, Said, Bodies

\* A part that was just sent is said last.
LEMMA SaidAppend ==
    ASSUME NEW parts \in Seq(Parts), NEW p \in Parts, NEW j, NEW who
    PROVE  Said(Append(parts, p), j, who) = Said(parts, j, who) \o Heard(p, j, who)
  <1>1. Append(parts, p) = parts \o <<p>> /\ <<p>> \in Seq(Parts)
    BY AppendIsConcat
  <1>2. Said(parts \o <<p>>, j, who) = Said(parts, j, who) \o Said(<<p>>, j, who)
    <2>1. ASSUME NEW q \in Seq(Parts)
          PROVE  Said(parts \o q, j, who) = Said(parts, j, who) \o Said(q, j, who)
      BY SaidConcat
    <2>2. QED
      BY <1>1, <2>1, Zenon
  <1>3. QED
    BY <1>1, <1>2, SaidOne

\* The next part is said first.
LEMMA SaidHead ==
    ASSUME NEW parts \in Seq(Parts), parts # <<>>, NEW j, NEW who
    PROVE  Said(parts, j, who) = Heard(Head(parts), j, who) \o Said(Tail(parts), j, who)
  <1>1. /\ Head(parts) \in Parts /\ Tail(parts) \in Seq(Parts)
        /\ <<Head(parts)>> \in Seq(Parts)
    <2>1. Head(parts) \in Parts /\ Tail(parts) \in Seq(Parts)
      BY HeadTailProperties
    <2>2. QED
      BY <2>1
  <1>2. parts = <<Head(parts)>> \o Tail(parts)
    OBVIOUS
  <1>3. /\ Said(<<Head(parts)>> \o Tail(parts), j, who)
           = Said(<<Head(parts)>>, j, who) \o Said(Tail(parts), j, who)
    <2>1. ASSUME NEW p \in Seq(Parts), NEW q \in Seq(Parts)
          PROVE  Said(p \o q, j, who) = Said(p, j, who) \o Said(q, j, who)
      BY SaidConcat
    <2>2. QED
      BY <1>1, <2>1, Zenon
  <1>4. Said(<<Head(parts)>>, j, who) = Heard(Head(parts), j, who)
    BY <1>1, SaidOne
  <1>5. QED
    BY <1>2, <1>3, <1>4, Zenon

\* Parts of other jobs, or for others, say nothing.
LEMMA SaidNothing ==
    ASSUME NEW parts \in Seq(Parts), NEW j, NEW who,
           \A i \in 1..Len(parts) : ~(parts[i].job = j /\ parts[i].to.who = who)
    PROVE  Said(parts, j, who) = <<>>
  <1> DEFINE b == Bodies(parts, j, who)
  <1>1. b \in Seq(Seq(Units)) /\ Len(b) = Len(parts)
        /\ \A i \in 1..Len(parts) : b[i] = Heard(parts[i], j, who)
    BY BodiesType
  <1>2. \A i \in 1..Len(parts) : Heard(parts[i], j, who) = <<>>
    BY DEF Heard
  <1> HIDE DEF b
  <1>3. FlattenSeq(b) = <<>>
    BY <1>1, <1>2, FlattenNothing
  <1>4. QED
    BY <1>3 DEF b, Said, Bodies

-----------------------------------------------------------------------------
(* What is split into parts.                                                  *)

LEMMA LimitType == MessageSizeLimit \in Nat \ {0}
  BY RepliesAssumption DEF MessageSizeLimit

\* The parts of a text are pieces of it up to the limit, one after the other,
\* that end with it; each piece is cut where the next begins.
Cuts(body, n, k) == [i \in 0..k |-> IF i * n < Len(body) THEN i * n ELSE Len(body)]
IsSplit(body, n, k, c) ==
    /\ k \in Nat \ {0} /\ c \in [0..k -> 0..Len(body)] /\ c[0] = 0 /\ c[k] = Len(body)
    /\ \A i \in 1..k : /\ c[i - 1] <= c[i] /\ c[i] - c[i - 1] <= n
                       /\ SplitStringAfter(body, n)[i] = SubSeq(body, c[i - 1] + 1, c[i])
    /\ DOMAIN SplitStringAfter(body, n) = 1..k

\* Rounding up.
LEMMA Ceiling ==
    ASSUME NEW l \in Nat \ {0}, NEW n \in Nat \ {0}
    PROVE  LET k == (l + n - 1) \div n IN k \in Nat \ {0} /\ k * n >= l /\ (k - 1) * n < l
  <1> DEFINE k == (l + n - 1) \div n
  <1>1. l + n - 1 \in Nat
    OBVIOUS
  <1>2. k \in Nat /\ k * n <= l + n - 1 /\ l + n - 1 < k * n + n
    <2>1. \A a \in Nat : a \div n \in Nat /\ (a \div n) * n <= a /\ a < (a \div n) * n + n
      OBVIOUS
    <2>2. QED
      BY <1>1, <2>1
  <1> HIDE DEF k
  <1>3. (k - 1) * n = k * n - n
    BY <1>2
  <1>4. k * n >= l /\ (k - 1) * n < l
    BY <1>2, <1>3
  <1>5. k # 0
    <2>1. SUFFICES ASSUME k = 0 PROVE FALSE
      OBVIOUS
    <2>2. k * n = 0
      BY <2>1
    <2>3. QED
      BY <2>2, <1>4
  <1>6. QED
    BY <1>2, <1>4, <1>5 DEF k

LEMMA SplitFacts ==
    ASSUME NEW body \in Seq(Units), NEW n \in Nat \ {0}
    PROVE  \E k, c : IsSplit(body, n, k, c)
  <1> DEFINE l == Len(body)
             k == IF body = <<>> THEN 1 ELSE (l + n - 1) \div n
             c == Cuts(body, n, k)
  <1>1. l \in Nat /\ (body = <<>> <=> l = 0)
    BY LenProperties, EmptySeq
  <1>2. k \in Nat \ {0} /\ k * n >= l /\ (k # 1 => (k - 1) * n < l)
    <2>1. CASE body = <<>>
      BY <2>1, <1>1
    <2>2. CASE body # <<>>
      <3>1. l \in Nat \ {0}
        BY <2>2, <1>1
      <3>2. /\ (l + n - 1) \div n \in Nat \ {0} /\ ((l + n - 1) \div n) * n >= l
            /\ ((l + n - 1) \div n - 1) * n < l
        <4> HIDE DEF l
        <4>1. QED
          BY <3>1, Ceiling
      <3>3. k = (l + n - 1) \div n
        BY <2>2
      <3> HIDE DEF k, l
      <3>4. QED
        BY <3>2, <3>3
    <2>3. QED
      BY <2>1, <2>2
  <1>3. DOMAIN SplitStringAfter(body, n) = 1..k
    BY DEF SplitStringAfter
  <1>4. \A i \in 1..k : SplitStringAfter(body, n)[i]
                        = SubSeq(body, (i - 1) * n + 1, IF i * n < l THEN i * n ELSE l)
    BY DEF SplitStringAfter
  <1>5. \A i \in 0..k : c[i] = IF i * n < l THEN i * n ELSE l
    BY DEF Cuts
  <1>6. DOMAIN c = 0..k /\ c = [i \in 0..k |-> c[i]]
    BY DEF Cuts
  <1> HIDE DEF k, l, c
  <1>7. c \in [0..k -> 0..l]
    <2>1. ASSUME NEW i \in 0..k PROVE c[i] \in 0..l
      <3>1. i * n \in Nat
        BY <1>2
      <3>2. QED
        BY <3>1, <1>1, <1>5
    <2>2. QED
      BY <2>1, <1>6
  <1>8. c[0] = 0 /\ c[k] = l
    <2>1. 0 * n = 0 /\ 0 \in 0..k /\ k \in 0..k /\ ~(k * n < l)
      BY <1>1, <1>2
    <2>2. QED
      BY <2>1, <1>1, <1>5
  <1>9. \A i \in 0..(k - 1) : c[i] = i * n
    <2> TAKE i \in 0..(k - 1)
    <2>1. CASE i = 0
      BY <2>1, <1>8
    <2>2. CASE i # 0
      <3>1. i <= k - 1 /\ i \in Nat /\ k - 1 \in Nat /\ k # 1 /\ i \in 0..k
        BY <2>2, <1>2
      <3>2. i * n <= (k - 1) * n /\ i * n \in Nat
        BY <3>1
      <3>3. i * n < l
        BY <3>1, <3>2, <1>1, <1>2
      <3>4. QED
        BY <3>1, <3>3, <1>5
    <2>3. QED
      BY <2>1, <2>2
  <1>10. ASSUME NEW i \in 1..k
         PROVE  /\ c[i - 1] <= c[i] /\ c[i] - c[i - 1] <= n
                /\ SplitStringAfter(body, n)[i] = SubSeq(body, c[i - 1] + 1, c[i])
    <2>1. i - 1 \in 0..(k - 1) /\ i \in 0..k /\ i - 1 \in 0..k
      BY <1>2
    <2>2. c[i - 1] = (i - 1) * n /\ c[i] = IF i * n < l THEN i * n ELSE l
      BY <2>1, <1>5, <1>9
    <2>3. c[i] \in 0..l /\ c[i - 1] \in 0..l
      BY <2>1, <1>7
    <2>4. i * n = (i - 1) * n + n /\ (i - 1) * n \in Nat
      BY <1>2
    <2>5. QED
      BY <2>2, <2>3, <2>4, <1>1, <1>4
  <1>11. IsSplit(body, n, k, c)
    BY <1>2, <1>3, <1>7, <1>8, <1>10 DEF IsSplit, l
  <1>12. QED
    BY <1>11

\* The parts of a text are for whom it is, fit the limit, and say it.
LEMMA PartsOfFacts ==
    ASSUME NEW job \in Nat, NEW id \in Ids, NEW body \in Seq(Units)
    PROVE  /\ PartsOf(job, id, body) \in Seq(Parts)
           /\ \A i \in 1..Len(PartsOf(job, id, body)) :
                 /\ PartsOf(job, id, body)[i].job = job /\ PartsOf(job, id, body)[i].to = id
                 /\ Len(PartsOf(job, id, body)[i].body) <= MessageSizeLimit
           /\ Said(PartsOf(job, id, body), job, id.who) = body
  <1> DEFINE n == MessageSizeLimit
             l == Len(body)
             split == SplitStringAfter(body, n)
             parts == PartsOf(job, id, body)
  <1>1. n \in Nat \ {0} /\ l \in Nat
    BY LimitType, LenProperties
  <1>2. PICK k, c : IsSplit(body, n, k, c)
    <2> HIDE DEF n
    <2>1. QED
      BY <1>1, SplitFacts
  <1>3. /\ k \in Nat \ {0} /\ c \in [0..k -> 0..l] /\ c[0] = 0 /\ c[k] = l
        /\ \A i \in 1..k : /\ c[i - 1] <= c[i] /\ c[i] - c[i - 1] <= n
                           /\ split[i] = SubSeq(body, c[i - 1] + 1, c[i])
        /\ DOMAIN split = 1..k
    BY <1>2 DEF IsSplit
  <1>4. parts = [i \in 1..k |-> [job |-> job, to |-> id, body |-> split[i]]]
    <2>1. parts = [i \in DOMAIN split |-> [job |-> job, to |-> id, body |-> split[i]]]
      BY DEF PartsOf
    <2> HIDE DEF parts, split
    <2>2. QED
      BY <1>3, <2>1
  <1> HIDE DEF n, l, split, parts
  <1>5. \A i \in 1..k : split[i] \in Seq(Units) /\ Len(split[i]) <= n
    <2> TAKE i \in 1..k
    <2>1. i - 1 \in 0..k /\ i \in 0..k
      BY <1>3
    <2>2. c[i - 1] \in 0..l /\ c[i] \in 0..l /\ c[i - 1] <= c[i] /\ c[i] - c[i - 1] <= n
      BY <2>1, <1>3
    <2>3. \A x \in (c[i - 1] + 1)..c[i] : body[x] \in Units
      BY <2>2, <1>1, ElementOfSeq DEF l
    <2>4. /\ SubSeq(body, c[i - 1] + 1, c[i]) \in Seq(Units)
          /\ Len(SubSeq(body, c[i - 1] + 1, c[i]))
             = IF c[i - 1] + 1 <= c[i] THEN c[i] - (c[i - 1] + 1) + 1 ELSE 0
      <3>1. c[i - 1] + 1 \in Int /\ c[i] \in Int
        BY <2>2
      <3>2. PICK m \in Int, r \in Int : m = c[i - 1] + 1 /\ r = c[i]
        BY <3>1
      <3>3. \A x \in m..r : body[x] \in Units
        BY <2>3, <3>2
      <3>4. /\ SubSeq(body, m, r) \in Seq(Units)
            /\ Len(SubSeq(body, m, r)) = IF m <= r THEN r - m + 1 ELSE 0
        BY <3>3, SubSeqProperties
      <3>5. QED
        BY <3>2, <3>4, Zenon
    <2>5. (IF c[i - 1] + 1 <= c[i] THEN c[i] - (c[i - 1] + 1) + 1 ELSE 0) <= n
      BY <2>2, <1>1
    <2>6. split[i] = SubSeq(body, c[i - 1] + 1, c[i])
      BY <1>3, Zenon
    <2>7. QED
      BY <2>4, <2>5, <2>6, Zenon
  <1>6. parts \in Seq(Parts) /\ Len(parts) = k
    <2>1. \A i \in 1..k : [job |-> job, to |-> id, body |-> split[i]] \in Parts
      BY <1>5 DEF Parts
    <2>2. QED
      BY <2>1, <1>3, <1>4
  <1>7. \A i \in 1..k : /\ parts[i].job = job /\ parts[i].to = id
                        /\ parts[i].body = split[i] /\ Len(parts[i].body) <= n
    BY <1>4, <1>5
  <1>8. Said(parts, job, id.who) = body
    <2> DEFINE b == Bodies(parts, job, id.who)
               f == [i \in 0..k |-> SubSeq(body, 1, c[i])]
    <2>1. b \in Seq(Seq(Units)) /\ Len(b) = k /\ \A i \in 1..k : b[i] = split[i]
      <3>1. /\ b \in Seq(Seq(Units)) /\ Len(b) = k
            /\ \A i \in 1..k : b[i] = Heard(parts[i], job, id.who)
        BY <1>6, BodiesType
      <3> HIDE DEF b
      <3>2. \A i \in 1..k : Heard(parts[i], job, id.who) = split[i]
        BY <1>7 DEF Heard
      <3>3. QED
        BY <3>1, <3>2
    <2>2. \A i \in 0..k : f[i] \in Seq(Units)
      <3> TAKE i \in 0..k
      <3>1. c[i] \in 0..l
        BY <1>3
      <3>2. \A x \in 1..c[i] : body[x] \in Units
        BY <3>1, <1>1, ElementOfSeq DEF l
      <3>3. \A r \in Int : (\A x \in 1..r : body[x] \in Units) => SubSeq(body, 1, r) \in Seq(Units)
        <4> TAKE r \in Int
        <4>1. QED
          BY SubSeqProperties
      <3>4. QED
        BY <3>1, <3>2, <3>3
    <2>3. f[0] = <<>>
      <3>1. f[0] = SubSeq(body, 1, 0)
        BY <1>3
      <3>2. PICK m \in Int, r \in Int : m = 1 /\ r = 0
        OBVIOUS
      <3>3. r < m
        BY <3>2
      <3>4. SubSeq(body, m, r) = <<>>
        BY <3>3, SubSeqEmpty
      <3> HIDE DEF f
      <3>5. QED
        BY <3>1, <3>2, <3>4, Zenon
    <2>4. f[k] = body
      <3>1. f[k] = SubSeq(body, 1, l)
        BY <1>3
      <3>2. QED
        BY <3>1, SubSeqFull DEF l
    <2>5. ASSUME NEW i \in 1..k
          PROVE  f[i] = f[i - 1] \o b[i]
      <3>1. i - 1 \in 0..k /\ i \in 0..k
        BY <1>3
      <3>2. c[i - 1] \in 0..l /\ c[i] \in 0..l /\ c[i - 1] <= c[i]
        BY <3>1, <1>3
      <3>3. SubSeq(body, 1, c[i - 1]) \o SubSeq(body, c[i - 1] + 1, c[i]) = SubSeq(body, 1, c[i])
        <4>1. \A m \in 1..(l + 1) : \A h \in (m - 1)..l : \A r \in h..l :
                 SubSeq(body, m, h) \o SubSeq(body, h + 1, r) = SubSeq(body, m, r)
          <5> TAKE m \in 1..(l + 1)
          <5> TAKE h \in (m - 1)..l
          <5> TAKE r \in h..l
          <5>1. QED
            BY ConcatAdjacentSubSeq DEF l
        <4>2. 1 \in 1..(l + 1) /\ c[i - 1] \in (1 - 1)..l /\ c[i] \in c[i - 1]..l
          BY <3>2, <1>1
        <4>3. QED
          BY <4>1, <4>2
      <3>4. f[i] = SubSeq(body, 1, c[i]) /\ f[i - 1] = SubSeq(body, 1, c[i - 1])
        BY <3>1
      <3>5. b[i] = SubSeq(body, c[i - 1] + 1, c[i])
        <4> HIDE DEF b
        <4>1. QED
          BY <2>1, <1>3
      <3> HIDE DEF b, f
      <3>6. QED
        BY <3>3, <3>4, <3>5
    <2>6. f \in [0..k -> Seq(Units)]
      BY <2>2
    <2>7. FlattenSeq(b) = f[k]
      <3> HIDE DEF b, f
      <3>1. IsConcat(f, b, Units)
        BY <2>1, <2>3, <2>5, <2>6 DEF IsConcat
      <3>2. FlattenSeq(b) = f[Len(b)]
        BY <2>1, <3>1, FlattenIsConcat
      <3>3. QED
        BY <2>1, <3>2
    <2>8. QED
      <3> HIDE DEF f
      <3>1. QED
        BY <2>4, <2>7 DEF Said, Bodies
  <1>9. QED
    BY <1>6, <1>7, <1>8 DEF parts, n

-----------------------------------------------------------------------------
(* The steps.                                                                 *)

\* What is added when a thread is given the parts of a new job.
GivenParts(s, kind, to, parts) ==
    /\ NewJob(s, kind, to) /\ todo' = [todo EXCEPT ![s] = parts]
    /\ cut' = cut
    /\ kind \in {"reply", "send", "card", "relay", "reverse", "warn"} /\ to \subseteq Anyone
    /\ parts \in Seq(Parts)
    /\ \A i \in 1..Len(parts) : /\ parts[i].job = Len(jobs) + 1
                                /\ Len(parts[i].body) <= MessageSizeLimit
                                /\ chat # "test" => parts[i].to.who \in to
    /\ chat # "test" /\ IsInjective(Notified) =>
          \A who \in to : MeantText([kind |-> kind, to |-> to], who,
                                    Said(parts, Len(jobs) + 1, who))

LEMMA JobsGrow ==
    ASSUME RepliesInv, NEW s \in Speakers, NEW kind, NEW to, NEW parts,
           GivenParts(s, kind, to, parts)
    PROVE  /\ jobs' \in Seq(Jobs) /\ Len(jobs) \in Nat /\ Len(jobs') = Len(jobs) + 1
           /\ jobs'[Len(jobs) + 1] = [kind |-> kind, to |-> to]
           /\ \A j \in 1..Len(jobs) : jobs'[j] = jobs[j]
           /\ Len(jobs') <= MaxJobs
  <1> DEFINE job == [kind |-> kind, to |-> to]
  <1>1. job \in Jobs /\ jobs \in Seq(Jobs) /\ jobs' = Append(jobs, job)
    BY DEF RepliesInv, ReplTyped, GivenParts, NewJob, Jobs
  <1>2. Len(jobs) \in Nat /\ Len(jobs) < MaxJobs /\ MaxJobs \in Nat
    BY <1>1, LenProperties, RepliesAssumption DEF GivenParts, NewJob
  <1> HIDE DEF job
  <1>3. /\ jobs' \in Seq(Jobs) /\ Len(jobs') = Len(jobs) + 1
        /\ \A j \in 1..Len(jobs) : jobs'[j] = jobs[j]
        /\ jobs'[Len(jobs) + 1] = job
    BY <1>1, AppendProperties
  <1>4. QED
    BY <1>2, <1>3 DEF job

LEMMA GivenInv ==
    ASSUME RepliesInv, NEW s \in Speakers, NEW kind, NEW to, NEW parts,
           GivenParts(s, kind, to, parts)
    PROVE  RepliesInv'
  <1> DEFINE n == Len(jobs) + 1
  <1>1. /\ jobs' \in Seq(Jobs) /\ Len(jobs) \in Nat /\ Len(jobs') = n
        /\ jobs'[n] = [kind |-> kind, to |-> to]
        /\ \A j \in 1..Len(jobs) : jobs'[j] = jobs[j]
        /\ Len(jobs') <= MaxJobs
    BY JobsGrow
  <1>2. /\ parts \in Seq(Parts) /\ todo' = [todo EXCEPT ![s] = parts]
        /\ UNCHANGED <<chat, prefixed, sentParts>>
        /\ cut' \subseteq cut \cup {n} /\ todo[s] = <<>>
    BY DEF GivenParts, NewJob
  <1>3. ReplTyped'
    <2>1. /\ chat \in Backends /\ prefixed \in BOOLEAN /\ sentParts \in Seq(Parts)
          /\ todo \in [Speakers -> Seq(Parts)] /\ cut \subseteq 1..Len(jobs)
      BY DEF RepliesInv, ReplTyped
    <2>2. cut' \subseteq 1..n
      <3>1. 1..Len(jobs) \subseteq 1..n /\ n \in 1..n
        BY <1>1
      <3> HIDE DEF n
      <3>2. QED
        BY <2>1, <3>1, <1>2
    <2>3. todo' \in [Speakers -> Seq(Parts)]
      BY <2>1, <1>2
    <2> HIDE DEF n
    <2>4. QED
      BY <2>1, <2>2, <2>3, <1>1, <1>2 DEF ReplTyped
  <1>4. todo'[s] = parts /\ \A t \in Speakers : t # s => todo'[t] = todo[t]
    BY <1>2 DEF RepliesInv, ReplTyped
  <1>6. PartsInOrder'
    <2>1. \A i \in 1..Len(sentParts) : InOrder(sentParts[i])'
      BY <1>1, <1>2 DEF RepliesInv, PartsInOrder, InOrder
    <2>2. ASSUME NEW t \in Speakers, NEW i \in 1..Len(todo'[t])
          PROVE  /\ todo'[t][i].job \in 1..Len(jobs')
                 /\ Len(todo'[t][i].body) <= MessageSizeLimit
                 /\ chat' # "test" => todo'[t][i].to.who \in jobs'[todo'[t][i].job].to
      <3>1. CASE t = s
        <4>1. /\ parts[i].job = n /\ Len(parts[i].body) <= MessageSizeLimit
              /\ chat # "test" => parts[i].to.who \in to
          BY <3>1, <1>4, <2>2 DEF GivenParts
        <4>2. n \in 1..Len(jobs') /\ jobs'[n].to = to
          BY <1>1
        <4>3. QED
          BY <3>1, <4>1, <4>2, <1>2, <1>4
      <3>2. CASE t # s
        <4>1. InOrder(todo[t][i]) /\ todo'[t] = todo[t]
          BY <3>2, <1>4, <2>2 DEF RepliesInv, PartsInOrder
        <4>2. QED
          BY <4>1, <1>1, <1>2 DEF InOrder
      <3>3. QED
        BY <3>1, <3>2
    <2>3. MessageSizeLimit' = MessageSizeLimit
      BY DEF MessageSizeLimit
    <2>4. QED
      BY <2>1, <2>2, <2>3, <1>2 DEF PartsInOrder, InOrder
  <1>7. OneInHand'
    <2>1. \A t \in Speakers : \A j : InHand(t, j)' <=> IF t = s THEN \E i \in 1..Len(parts) : parts[i].job = j
                                                   ELSE InHand(t, j)
      BY <1>4 DEF InHand
    <2>2. \A t \in Speakers : \A j : InHand(t, j) => j \in 1..Len(jobs)
      BY DEF InHand, RepliesInv, PartsInOrder, InOrder
    <2>3. \A j : (\E i \in 1..Len(parts) : parts[i].job = j) => j = n
      BY DEF GivenParts
    <2>4. n \notin 1..Len(jobs)
      BY <1>1
    <2>5. \A t, u \in Speakers : \A j, k : InHand(t, j)' /\ InHand(u, k)' => (t = u <=> j = k)
      <3> HIDE DEF n
      <3> TAKE t, u \in Speakers
      <3> TAKE j, k
      <3> HAVE InHand(t, j)' /\ InHand(u, k)'
      <3>1. CASE t = s
        <4>1. j = n
          BY <3>1, <2>1, <2>3
        <4>2. CASE u = s
          BY <3>1, <4>1, <4>2, <2>1, <2>3
        <4>3. CASE u # s
          BY <3>1, <4>1, <4>3, <2>1, <2>2, <2>4
        <4>4. QED
          BY <4>2, <4>3
      <3>2. CASE t # s
        <4>1. InHand(t, j)
          BY <3>2, <2>1
        <4>2. CASE u = s
          BY <3>2, <4>1, <4>2, <2>1, <2>2, <2>3, <2>4
        <4>3. CASE u # s
          BY <4>1, <4>3, <2>1 DEF RepliesInv, OneInHand
        <4>4. QED
          BY <4>2, <4>3
      <3>3. QED
        BY <3>1, <3>2
    <2>6. QED
      BY <2>5 DEF OneInHand
  <1>8. QED
    BY <1>3, <1>6, <1>7 DEF RepliesInv

LEMMA GivenTold ==
    ASSUME RepliesInv, ToldSoFar, IsInjective(Notified),
           NEW s \in Speakers, NEW kind, NEW to, NEW parts, GivenParts(s, kind, to, parts)
    PROVE  ToldSoFar'
  <1> DEFINE n == Len(jobs) + 1
  <1>1. /\ jobs' \in Seq(Jobs) /\ Len(jobs) \in Nat /\ Len(jobs') = n
        /\ jobs'[n] = [kind |-> kind, to |-> to]
        /\ \A j \in 1..Len(jobs) : jobs'[j] = jobs[j]
    BY JobsGrow
  <1>2. /\ parts \in Seq(Parts) /\ todo' = [todo EXCEPT ![s] = parts]
        /\ chat' = chat /\ prefixed' = prefixed /\ sentParts' = sentParts
        /\ cut' = cut /\ todo[s] = <<>>
        /\ \A i \in 1..Len(parts) : parts[i].job = n
    BY DEF GivenParts, NewJob
  <1>3. todo'[s] = parts /\ \A t \in Speakers : t # s => todo'[t] = todo[t]
    BY <1>2 DEF RepliesInv, ReplTyped
  <1>4. sentParts \in Seq(Parts) /\ \A i \in 1..Len(sentParts) : sentParts[i].job \in 1..Len(jobs)
    BY DEF RepliesInv, ReplTyped, PartsInOrder, InOrder
  <1>5. n \notin 1..Len(jobs) /\ \A j \in 1..n : j # n => j \in 1..Len(jobs)
    BY <1>1
  <1>6. \A t \in Speakers : \A k : t # s /\ InHand(t, k)' => k # n
    <2>1. \A t \in Speakers : \A k : InHand(t, k) => k \in 1..Len(jobs)
      BY DEF InHand, RepliesInv, PartsInOrder, InOrder
    <2>2. \A t \in Speakers : \A k : t # s => (InHand(t, k)' <=> InHand(t, k))
      BY <1>3 DEF InHand
    <2> HIDE DEF n
    <2>3. QED
      BY <2>1, <2>2, <1>5
  <1> HIDE DEF n
  <1>7. SUFFICES ASSUME chat # "test", NEW j \in 1..n, j \notin cut', NEW who \in jobs'[j].to
        PROVE  /\ \A t \in Speakers : InHand(t, j)' =>
                     MeantText(jobs'[j], who, Said(sentParts, j, who) \o Said(todo'[t], j, who))
               /\ (\A t \in Speakers : ~InHand(t, j)') =>
                     MeantText(jobs'[j], who, Said(sentParts, j, who))
    <2>1. \A job, who, text : MeantText(job, who, text)' <=> MeantText(job, who, text)
      BY <1>2 DEF MeantText, Unreached, BuildIdentifierRaises
    <2>2. \A j, who : SentTo(j, who)' = Said(sentParts, j, who)
      BY <1>2 DEF SentTo
    <2>3. \A j, who : \A t \in Speakers : Said(todo[t], j, who)' = Said(todo'[t], j, who)
      OBVIOUS
    <2>4. QED
      BY <1>1, <1>2, <1>7, <2>1, <2>2, <2>3 DEF ToldSoFar
  <1>8. CASE j = n
    <2>1. cut' = cut
      BY <1>2, <1>7, <1>8
    <2>2. MeantText(jobs'[j], who, Said(parts, n, who))
      BY <2>1, <1>1, <1>7, <1>8 DEF GivenParts, n
    <2>3. Said(sentParts, n, who) = <<>>
      BY <1>4, <1>5, SaidNothing
    <2>4. <<>> \o Said(parts, n, who) = Said(parts, n, who)
      <3>1. Said(parts, n, who) \in Seq(Units)
        BY <1>2, SaidType
      <3>2. QED
        BY <3>1, ConcatEmptySeq
    <2>5. ASSUME NEW t \in Speakers, InHand(t, j)'
          PROVE  MeantText(jobs'[j], who, Said(sentParts, j, who) \o Said(todo'[t], j, who))
      <3>1. t = s
        BY <1>6, <1>8, <2>5
      <3>2. Said(sentParts, j, who) \o Said(todo'[t], j, who) = Said(parts, n, who)
        BY <3>1, <2>3, <2>4, <1>3, <1>8
      <3>3. QED
        BY <2>2, <3>2
    <2>6. ASSUME \A t \in Speakers : ~InHand(t, j)'
          PROVE  MeantText(jobs'[j], who, Said(sentParts, j, who))
      <3>1. \A i \in 1..Len(parts) : parts[i].job # n
        BY <2>6, <1>3, <1>8 DEF InHand
      <3>2. Said(parts, n, who) = <<>>
        BY <3>1, <1>2, SaidNothing
      <3>3. QED
        BY <3>2, <2>2, <2>3, <1>8
    <2>7. QED
      BY <2>5, <2>6
  <1>9. CASE j # n
    <2>1. j \in 1..Len(jobs) /\ j \notin cut /\ jobs'[j] = jobs[j]
      BY <1>1, <1>2, <1>5, <1>7, <1>9
    <2>2. /\ \A t \in Speakers : InHand(t, j) =>
                MeantText(jobs[j], who, SentTo(j, who) \o Said(todo[t], j, who))
          /\ (\A t \in Speakers : ~InHand(t, j)) => MeantText(jobs[j], who, SentTo(j, who))
      BY <2>1, <1>7 DEF ToldSoFar
    <2>3. ~InHand(s, j) /\ ~InHand(s, j)'
      <3>1. ~InHand(s, j)
        BY <1>2 DEF InHand
      <3>2. ~InHand(s, j)'
        BY <1>2, <1>3, <1>9 DEF InHand
      <3>3. QED
        BY <3>1, <3>2
    <2>4. \A t \in Speakers : t # s => (InHand(t, j)' <=> InHand(t, j))
      BY <1>3 DEF InHand
    <2>5. ASSUME NEW t \in Speakers, InHand(t, j)'
          PROVE  MeantText(jobs'[j], who, Said(sentParts, j, who) \o Said(todo'[t], j, who))
      <3>1. t # s
        BY <2>3, <2>5
      <3>2. InHand(t, j) /\ todo'[t] = todo[t]
        BY <2>4, <2>5, <3>1, <1>3
      <3>3. QED
        BY <2>1, <2>2, <3>2 DEF SentTo
    <2>6. ASSUME \A t \in Speakers : ~InHand(t, j)'
          PROVE  MeantText(jobs'[j], who, Said(sentParts, j, who))
      <3>1. \A t \in Speakers : ~InHand(t, j)
        BY <2>3, <2>4, <2>6
      <3>2. QED
        BY <2>1, <2>2, <3>1 DEF SentTo
    <2>7. QED
      BY <2>5, <2>6
  <1>10. QED
    BY <1>8, <1>9

\* A thread is done with its next part, which went out or did not.
PartDone(s, rest) ==
    /\ NextPart(s) /\ todo' = [todo EXCEPT ![s] = rest]
    /\ \/ /\ rest = Tail(todo[s]) /\ sentParts' = Append(sentParts, Head(todo[s]))
          /\ cut' = cut
       \/ /\ rest \in {Tail(todo[s]), <<>>} /\ sentParts' = sentParts
          /\ cut' = cut \cup {Head(todo[s]).job}

\* What is then left is some of what was there, and all of it of the same job.
LEMMA PartDoneFacts ==
    ASSUME RepliesInv, NEW s \in Speakers, NEW rest, PartDone(s, rest)
    PROVE  /\ todo[s] \in Seq(Parts) /\ todo[s] # <<>> /\ rest \in Seq(Parts)
           /\ Head(todo[s]) \in Parts /\ InOrder(Head(todo[s])) /\ InHand(s, Head(todo[s]).job)
           /\ \A i \in 1..Len(rest) : \E k \in 1..Len(todo[s]) : rest[i] = todo[s][k]
           /\ todo'[s] = rest /\ \A t \in Speakers : t # s => todo'[t] = todo[t]
           /\ \A j : InHand(s, j) => j = Head(todo[s]).job
           /\ \A j : InHand(s, j)' => j = Head(todo[s]).job
           /\ \A t \in Speakers : \A j : t # s => (InHand(t, j)' <=> InHand(t, j)) 
           /\ \A t \in Speakers : \A j : t # s /\ InHand(t, j) => j # Head(todo[s]).job
  <1>1. todo[s] \in Seq(Parts) /\ todo[s] # <<>> /\ todo \in [Speakers -> Seq(Parts)]
    BY DEF RepliesInv, ReplTyped, PartDone, NextPart
  <1>2. /\ Tail(todo[s]) \in Seq(Parts) /\ Head(todo[s]) \in Parts
        /\ Len(todo[s]) \in Nat /\ 1 \in 1..Len(todo[s]) /\ Head(todo[s]) = todo[s][1]
        /\ Len(Tail(todo[s])) = Len(todo[s]) - 1
        /\ \A i \in 1..Len(Tail(todo[s])) : Tail(todo[s])[i] = todo[s][i + 1]
    <2>1. Tail(todo[s]) \in Seq(Parts) /\ Head(todo[s]) \in Parts /\ Len(todo[s]) \in Nat
          /\ 1 \in DOMAIN todo[s] /\ Head(todo[s]) = todo[s][1] /\ DOMAIN todo[s] = 1..Len(todo[s])
      BY <1>1, TailElements, LenProperties
    <2>2. /\ Len(Tail(todo[s])) = Len(todo[s]) - 1
          /\ \A i \in 1..Len(Tail(todo[s])) : Tail(todo[s])[i] = todo[s][i + 1]
      BY <1>1, HeadTailProperties
    <2>3. QED
      BY <2>1, <2>2
  <1>3. rest = Tail(todo[s]) \/ rest = <<>>
    BY DEF PartDone
  <1>4. /\ rest \in Seq(Parts)
        /\ \A i \in 1..Len(rest) : \E k \in 1..Len(todo[s]) : rest[i] = todo[s][k]
    <2>1. CASE rest = Tail(todo[s])
      <3>1. \A i \in 1..Len(rest) : i + 1 \in 1..Len(todo[s]) /\ rest[i] = todo[s][i + 1]
        BY <2>1, <1>2
      <3>2. QED
        BY <2>1, <3>1, <1>2
    <2>2. CASE rest = <<>>
      BY <2>2
    <2>3. QED
      BY <1>3, <2>1, <2>2
  <1>5. InOrder(Head(todo[s])) /\ InHand(s, Head(todo[s]).job)
    BY <1>2 DEF RepliesInv, PartsInOrder, InHand
  <1>6. todo'[s] = rest /\ \A t \in Speakers : t # s => todo'[t] = todo[t]
    BY <1>1 DEF PartDone
  <1>7. \A j : InHand(s, j) => j = Head(todo[s]).job
    BY <1>5 DEF RepliesInv, OneInHand
  <1>8. \A j : InHand(s, j)' => InHand(s, j)
    BY <1>4, <1>6 DEF InHand
  <1>9. \A t \in Speakers : \A j : t # s => (InHand(t, j)' <=> InHand(t, j))
    BY <1>6 DEF InHand
  <1>10. \A t \in Speakers : \A j : t # s /\ InHand(t, j) => j # Head(todo[s]).job
    BY <1>5 DEF RepliesInv, OneInHand
  <1>11. QED
    BY <1>1, <1>2, <1>4, <1>5, <1>6, <1>7, <1>8, <1>9, <1>10

LEMMA PartDoneInv ==
    ASSUME RepliesInv, NEW s \in Speakers, NEW rest, PartDone(s, rest)
    PROVE  RepliesInv'
  <1> DEFINE p == Head(todo[s])
  <1>1. /\ rest \in Seq(Parts) /\ p \in Parts /\ InOrder(p)
        /\ \A i \in 1..Len(rest) : \E k \in 1..Len(todo[s]) : rest[i] = todo[s][k]
        /\ todo'[s] = rest /\ \A t \in Speakers : t # s => todo'[t] = todo[t]
    BY PartDoneFacts
  <1>2. /\ \A j : InHand(s, j)' => j = p.job
        /\ \A t \in Speakers : \A j : t # s => (InHand(t, j)' <=> InHand(t, j))
        /\ \A t \in Speakers : \A j : t # s /\ InHand(t, j) => j # p.job
    BY PartDoneFacts
  <1> HIDE DEF p
  <1>3. /\ todo' = [todo EXCEPT ![s] = rest] /\ UNCHANGED <<chat, prefixed, jobs>>
        /\ sentParts' = sentParts \/ sentParts' = Append(sentParts, p)
        /\ cut' = cut \/ cut' = cut \cup {p.job}
    BY DEF PartDone, NextPart, p
  <1>4. /\ sentParts' \in Seq(Parts)
        /\ \A i \in 1..Len(sentParts') : sentParts'[i] = p \/ \E k \in 1..Len(sentParts) : sentParts'[i] = sentParts[k]
    <2>0. sentParts \in Seq(Parts)
      BY DEF RepliesInv, ReplTyped
    <2>1. CASE sentParts' = sentParts
      BY <2>0, <2>1
    <2>2. CASE sentParts' = Append(sentParts, p)
      <3>1. /\ Append(sentParts, p) \in Seq(Parts) /\ Len(Append(sentParts, p)) = Len(sentParts) + 1
            /\ \A i \in 1..Len(sentParts) : Append(sentParts, p)[i] = sentParts[i]
            /\ Append(sentParts, p)[Len(sentParts) + 1] = p /\ Len(sentParts) \in Nat
        BY <2>0, <1>1, AppendProperties, LenProperties
      <3>2. QED
        BY <2>2, <3>1
    <2>3. QED
      BY <1>3, <2>1, <2>2
  <1>5. ReplTyped'
    <2>1. /\ chat \in Backends /\ prefixed \in BOOLEAN /\ jobs \in Seq(Jobs) /\ Len(jobs) <= MaxJobs
          /\ todo \in [Speakers -> Seq(Parts)] /\ cut \subseteq 1..Len(jobs)
      BY DEF RepliesInv, ReplTyped
    <2>2. cut' \subseteq 1..Len(jobs)
      BY <2>1, <1>1, <1>3 DEF InOrder
    <2>3. todo' \in [Speakers -> Seq(Parts)]
      BY <2>1, <1>1, <1>3
    <2>4. QED
      BY <2>1, <2>2, <2>3, <1>3, <1>4 DEF ReplTyped
  <1>6. PartsInOrder'
    <2>1. \A q : InOrder(q)' <=> InOrder(q)
      BY <1>3 DEF InOrder, MessageSizeLimit
    <2>2. \A i \in 1..Len(sentParts') : InOrder(sentParts'[i])
      BY <1>1, <1>4 DEF RepliesInv, PartsInOrder
    <2>3. ASSUME NEW t \in Speakers, NEW i \in 1..Len(todo'[t])
          PROVE  InOrder(todo'[t][i])
      <3>1. CASE t = s
        BY <3>1, <2>3, <1>1 DEF RepliesInv, PartsInOrder
      <3>2. CASE t # s
        BY <3>2, <2>3, <1>1 DEF RepliesInv, PartsInOrder
      <3>3. QED
        BY <3>1, <3>2
    <2>4. QED
      BY <2>1, <2>2, <2>3 DEF PartsInOrder
  <1>7. OneInHand'
    <2>1. \A t, u \in Speakers : \A j, k : InHand(t, j)' /\ InHand(u, k)' => (t = u <=> j = k)
      BY <1>2 DEF RepliesInv, OneInHand
    <2>2. QED
      BY <2>1 DEF OneInHand
  <1>8. QED
    BY <1>5, <1>6, <1>7 DEF RepliesInv

LEMMA PartDoneTold ==
    ASSUME RepliesInv, ToldSoFar, NEW s \in Speakers, NEW rest, PartDone(s, rest)
    PROVE  ToldSoFar'
  <1> DEFINE p == Head(todo[s])
  <1>1. /\ todo[s] \in Seq(Parts) /\ todo[s] # <<>> /\ rest \in Seq(Parts)
        /\ p \in Parts /\ InHand(s, p.job)
        /\ todo'[s] = rest /\ \A t \in Speakers : t # s => todo'[t] = todo[t]
    BY PartDoneFacts
  <1>2. /\ \A j : InHand(s, j) => j = p.job
        /\ \A j : InHand(s, j)' => j = p.job
        /\ \A t \in Speakers : \A j : t # s => (InHand(t, j)' <=> InHand(t, j))
        /\ \A t \in Speakers : \A j : t # s /\ InHand(t, j) => j # p.job
    BY PartDoneFacts
  <1>3. \A j, who : Said(todo[s], j, who) = Heard(p, j, who) \o Said(Tail(todo[s]), j, who)
    BY <1>1, SaidHead
  <1>4. sentParts \in Seq(Parts) /\ Tail(todo[s]) \in Seq(Parts)
    BY <1>1, HeadTailProperties DEF RepliesInv, ReplTyped
  <1>5. \A j, who : SentTo(j, who) \in Seq(Units) /\ Said(Tail(todo[s]), j, who) \in Seq(Units)
                    /\ Heard(p, j, who) \in Seq(Units)
    BY <1>1, <1>4, SaidType, HeardType DEF SentTo
  <1> HIDE DEF p
  <1>6. /\ chat' = chat /\ prefixed' = prefixed /\ jobs' = jobs
        /\ \/ /\ rest = Tail(todo[s]) /\ sentParts' = Append(sentParts, p) /\ cut' = cut
           \/ /\ sentParts' = sentParts /\ cut' = cut \cup {p.job}
    BY DEF PartDone, NextPart, p
  <1>7. SUFFICES ASSUME chat # "test", NEW j \in 1..Len(jobs), j \notin cut', NEW who \in jobs[j].to
        PROVE  /\ \A t \in Speakers : InHand(t, j)' =>
                     MeantText(jobs[j], who, Said(sentParts', j, who) \o Said(todo'[t], j, who))
               /\ (\A t \in Speakers : ~InHand(t, j)') =>
                     MeantText(jobs[j], who, Said(sentParts', j, who))
    <2>1. \A job, who, text : MeantText(job, who, text)' <=> MeantText(job, who, text)
      BY <1>6 DEF MeantText, Unreached, BuildIdentifierRaises
    <2>2. \A j, who : SentTo(j, who)' = Said(sentParts', j, who)
      BY DEF SentTo
    <2>3. \A j, who : \A t \in Speakers : Said(todo[t], j, who)' = Said(todo'[t], j, who)
      OBVIOUS
    <2>4. QED
      BY <1>6, <1>7, <2>1, <2>2, <2>3 DEF ToldSoFar
  <1>8. j \notin cut
    BY <1>6, <1>7
  <1>9. /\ \A t \in Speakers : InHand(t, j) =>
              MeantText(jobs[j], who, SentTo(j, who) \o Said(todo[t], j, who))
        /\ (\A t \in Speakers : ~InHand(t, j)) => MeantText(jobs[j], who, SentTo(j, who))
    BY <1>7, <1>8 DEF ToldSoFar
  <1>10. CASE j # p.job
    <2>1. Said(sentParts', j, who) = SentTo(j, who)
      <3>1. CASE sentParts' = sentParts
        BY <3>1 DEF SentTo
      <3>2. CASE sentParts' = Append(sentParts, p)
        <4>1. Said(Append(sentParts, p), j, who) = Said(sentParts, j, who) \o Heard(p, j, who)
          <5>1. ASSUME NEW q \in Seq(Parts), NEW x \in Parts
                PROVE  Said(Append(q, x), j, who) = Said(q, j, who) \o Heard(x, j, who)
            BY SaidAppend
          <5>2. QED
            BY <1>1, <1>4, <5>1, Zenon
        <4>2. Heard(p, j, who) = <<>>
          BY <1>10 DEF Heard
        <4>3. SentTo(j, who) \o <<>> = SentTo(j, who)
          BY <1>5, ConcatEmptySeq
        <4>4. QED
          BY <3>2, <4>1, <4>2, <4>3 DEF SentTo
      <3>3. QED
        BY <1>6, <3>1, <3>2
    <2>2. ~InHand(s, j) /\ ~InHand(s, j)'
      BY <1>2, <1>10
    <2>3. \A t \in Speakers : InHand(t, j)' => InHand(t, j) /\ todo'[t] = todo[t]
      BY <1>1, <1>2, <2>2
    <2>4. \A t \in Speakers : InHand(t, j) => InHand(t, j)'
      BY <1>2, <2>2
    <2>5. QED
      BY <1>9, <2>1, <2>3, <2>4
  <1>11. CASE j = p.job
    <2>1. rest = Tail(todo[s]) /\ sentParts' = Append(sentParts, p)
      BY <1>6, <1>7, <1>11
    <2>2. MeantText(jobs[j], who, SentTo(j, who) \o Said(todo[s], j, who))
      BY <1>1, <1>9, <1>11
    <2>3. Said(sentParts', j, who) = SentTo(j, who) \o Heard(p, j, who)
      <3>1. ASSUME NEW q \in Seq(Parts), NEW x \in Parts
            PROVE  Said(Append(q, x), j, who) = Said(q, j, who) \o Heard(x, j, who)
        BY SaidAppend
      <3>2. Said(Append(sentParts, p), j, who) = Said(sentParts, j, who) \o Heard(p, j, who)
        BY <1>1, <1>4, <3>1, Zenon
      <3>3. QED
        BY <2>1, <3>2 DEF SentTo
    <2>4. Said(sentParts', j, who) \o Said(rest, j, who) = SentTo(j, who) \o Said(todo[s], j, who)
      <3>1. \A a, b, c \in Seq(Units) : (a \o b) \o c = a \o (b \o c)
        <4> TAKE a, b, c \in Seq(Units)
        <4>1. QED
          BY ConcatAssociative
      <3>2. (SentTo(j, who) \o Heard(p, j, who)) \o Said(Tail(todo[s]), j, who)
            = SentTo(j, who) \o (Heard(p, j, who) \o Said(Tail(todo[s]), j, who))
        <4>1. /\ SentTo(j, who) \in Seq(Units) /\ Heard(p, j, who) \in Seq(Units)
              /\ Said(Tail(todo[s]), j, who) \in Seq(Units)
          BY <1>5
        <4>2. QED
          BY <3>1, <4>1, Zenon
      <3>3. QED
        BY <2>1, <2>3, <3>2, <1>3, Zenon
    <2>5. ASSUME NEW t \in Speakers, InHand(t, j)'
          PROVE  MeantText(jobs[j], who, Said(sentParts', j, who) \o Said(todo'[t], j, who))
      <3>1. t = s
        BY <1>2, <1>11, <2>5
      <3>2. QED
        BY <3>1, <2>2, <2>4, <1>1
    <2>6. ASSUME \A t \in Speakers : ~InHand(t, j)'
          PROVE  MeantText(jobs[j], who, Said(sentParts', j, who))
      <3>1. \A i \in 1..Len(rest) : rest[i].job # j
        BY <2>6, <1>1 DEF InHand
      <3>2. Said(rest, j, who) = <<>>
        BY <3>1, <1>1, SaidNothing
      <3>3. Said(sentParts', j, who) \in Seq(Units)
        <4>1. Append(sentParts, p) \in Seq(Parts)
          BY <1>1, <1>4, AppendProperties
        <4>2. Said(Append(sentParts, p), j, who) \in Seq(Units)
          <5>1. ASSUME NEW q \in Seq(Parts) PROVE Said(q, j, who) \in Seq(Units)
            BY SaidType
          <5>2. QED
            BY <4>1, <5>1, Zenon
        <4>3. QED
          BY <2>1, <4>2
      <3>4. Said(sentParts', j, who) \o <<>> = Said(sentParts', j, who)
        BY <3>3, ConcatEmptySeq
      <3>5. QED
        BY <3>2, <3>4, <2>2, <2>4
    <2>7. QED
      BY <2>5, <2>6
  <1>12. QED
    BY <1>10, <1>11

-----------------------------------------------------------------------------
(* What is said.                                                              *)

LEMMA WordsType == Words \in Seq(Units)
  <1>1. Words \in Seq(ToSet(Words)) /\ ToSet(Words) \subseteq Units
    BY RepliesAssumption DEF Units
  <1>2. QED
    BY <1>1, SeqMonotonic

\* The nick stands before the words, and the words are all there.
LEMMA PrefixFacts ==
    /\ PrefixGroupchatReply(Words) \in Seq(Units)
    /\ PrefixGroupchatReply(Words) \in {<<"nick">> \o Words, <<"nick", "newline">> \o Words}
    /\ Head(PrefixGroupchatReply(Words)) = "nick"
  <1>1. /\ Words \in Seq(Units) /\ <<"nick">> \in Seq(Units) /\ <<"newline">> \in Seq(Units)
        /\ <<"nick", "newline">> \in Seq(Units)
    BY WordsType DEF Units
  <1>2. <<"nick">> \o (<<"newline">> \o Words) = <<"nick", "newline">> \o Words
    BY <1>1
  <1>3. \/ PrefixGroupchatReply(Words) = <<"nick">> \o Words
        \/ PrefixGroupchatReply(Words) = <<"nick">> \o (<<"newline">> \o Words)
    BY DEF PrefixGroupchatReply, HeadingApart
  <1>4. <<"nick">> \o Words \in Seq(Units) /\ <<"nick", "newline">> \o Words \in Seq(Units)
    BY <1>1
  <1>5. Head(<<"nick">> \o Words) = "nick" /\ Head(<<"nick", "newline">> \o Words) = "nick"
    BY <1>1
  <1>6. QED
    BY <1>2, <1>3, <1>4, <1>5

\* Whom a reply goes to.
LEMMA BuildReplyFacts ==
    ASSUME ReplTyped, NEW m \in Incoming, NEW private \in BOOLEAN
    PROVE  /\ BuildReply(m, private) \in Ids /\ Meant(m, private) \in Anyone
           /\ chat # "test" => BuildReply(m, private).who = Meant(m, private)
           /\ chat # "test" => (IsRoomId(BuildReply(m, private)) <=> Meant(m, private) = "room")
  <1>1. chat \in {"irc", "telegram", "text", "test", "xmpp"}
    BY RepliesAssumption DEF ReplTyped
  <1>2. \/ m = [frm |-> Person(Asker), to |-> TheBot]
        \/ m = [frm |-> Occupant(Asker), to |-> TheRoom]
    BY DEF Incoming
  <1>3. Asker # "room"
    BY RepliesAssumption
  <1> USE DEF Meant, Person, Occupant, TheRoom, TheBot, InGroup, IsRoomId, Ids, Anyone
  <1>4. CASE chat = "irc"
    BY <1>2, <1>3, <1>4 DEF BuildReply, IrcReplyTo
  <1>5. CASE chat = "telegram"
    BY <1>2, <1>3, <1>5 DEF BuildReply, TelegramReplyTo
  <1>6. CASE chat = "text"
    BY <1>2, <1>3, <1>6 DEF BuildReply, TextReplyTo
  <1>7. CASE chat = "xmpp"
    BY <1>2, <1>3, <1>7 DEF BuildReply, XmppReplyTo
  <1>8. CASE chat = "test"
    BY <1>2, <1>3, <1>8 DEF BuildReply, TestReplyTo
  <1>9. QED
    BY <1>1, <1>4, <1>5, <1>6, <1>7, <1>8

\* A text for one is given to the thread that says it.
LEMMA TextIsGiven ==
    ASSUME RepliesInv, NEW s \in Speakers, NEW id \in Ids, NEW body \in Seq(Units),
           NEW kind \in {"reply", "send", "card", "relay", "warn"}, NEW to,
           NewJob(s, kind, to), todo' = [todo EXCEPT ![s] = PartsOf(Len(jobs'), id, body)],
           cut' = cut, to \subseteq Anyone, chat # "test" => to = {id.who},
           chat # "test" => MeantText([kind |-> kind, to |-> to], id.who, body)
    PROVE  GivenParts(s, kind, to, PartsOf(Len(jobs) + 1, id, body))
  <1>1. Len(jobs) + 1 \in Nat /\ Len(jobs') = Len(jobs) + 1
    <2>1. jobs \in Seq(Jobs) /\ [kind |-> kind, to |-> to] \in Jobs
          /\ jobs' = Append(jobs, [kind |-> kind, to |-> to])
      BY DEF RepliesInv, ReplTyped, NewJob, Jobs
    <2>2. QED
      BY <2>1, AppendProperties, LenProperties
  <1>2. \A n \in Nat :
           /\ PartsOf(n, id, body) \in Seq(Parts)
           /\ \A i \in 1..Len(PartsOf(n, id, body)) :
                 /\ PartsOf(n, id, body)[i].job = n /\ PartsOf(n, id, body)[i].to = id
                 /\ Len(PartsOf(n, id, body)[i].body) <= MessageSizeLimit
           /\ Said(PartsOf(n, id, body), n, id.who) = body
    <2> TAKE n \in Nat
    <2>1. PartsOf(n, id, body) \in Seq(Parts)
      BY PartsOfFacts
    <2>2. \A i \in 1..Len(PartsOf(n, id, body)) :
             /\ PartsOf(n, id, body)[i].job = n /\ PartsOf(n, id, body)[i].to = id
             /\ Len(PartsOf(n, id, body)[i].body) <= MessageSizeLimit
      BY PartsOfFacts
    <2>3. Said(PartsOf(n, id, body), n, id.who) = body
      BY PartsOfFacts
    <2>4. QED
      BY <2>1, <2>2, <2>3
  <1>3. PICK n \in Nat : n = Len(jobs) + 1
    BY <1>1
  <1> DEFINE parts == PartsOf(n, id, body)
  <1>4. /\ parts \in Seq(Parts)
        /\ \A i \in 1..Len(parts) : /\ parts[i].job = n /\ parts[i].to = id
                                    /\ Len(parts[i].body) <= MessageSizeLimit
        /\ Said(parts, n, id.who) = body
    BY <1>2
  <1>5. todo' = [todo EXCEPT ![s] = parts]
    BY <1>1, <1>3
  <1> HIDE DEF parts
  <1>6. GivenParts(s, kind, to, parts)
    BY <1>3, <1>4, <1>5 DEF GivenParts
  <1>7. QED
    BY <1>3, <1>6 DEF parts

Warnings(n) == {p \in Parts : /\ p.job = n /\ p.to.who \in ToSet(Notified)
                              /\ Len(p.body) <= MessageSizeLimit}

\* The parts of a text for one admin.
LEMMA OneWarning ==
    ASSUME NEW n \in Nat, NEW x \in ToSet(Notified)
    PROVE  /\ PartsOf(n, Person(x), Words) \in Seq(Warnings(n))
           /\ PartsOf(n, Person(x), Words) \in Seq(Parts)
           /\ \A who : Said(PartsOf(n, Person(x), Words), n, who)
                          = IF who = x THEN Words ELSE <<>>
  <1> DEFINE parts == PartsOf(n, Person(x), Words)
  <1>1. Person(x) \in Ids /\ Person(x).who = x
    BY DEF Person, Ids, Anyone
  <1>2. Words \in Seq(Units)
    BY WordsType
  <1>3. parts \in Seq(Parts)
    BY <1>1, <1>2, PartsOfFacts
  <1>4. \A i \in 1..Len(parts) : /\ parts[i].job = n /\ parts[i].to = Person(x)
                                 /\ Len(parts[i].body) <= MessageSizeLimit
    BY <1>1, <1>2, PartsOfFacts
  <1>5. Said(parts, n, x) = Words
    <2>1. Said(parts, n, Person(x).who) = Words
      BY <1>1, <1>2, PartsOfFacts
    <2> HIDE DEF parts
    <2>2. QED
      BY <1>1, <2>1
  <1> HIDE DEF parts
  <1>6. parts \in Seq(Warnings(n))
    <2>1. \A i \in 1..Len(parts) : parts[i] \in Parts
      BY <1>3, ElementOfSeq
    <2>2. \A i \in 1..Len(parts) : parts[i] \in Warnings(n)
      BY <2>1, <1>4, <1>1 DEF Warnings
    <2>3. Len(parts) \in Nat /\ parts = [i \in 1..Len(parts) |-> parts[i]]
      BY <1>3, LenProperties
    <2>4. QED
      BY <2>2, <2>3
  <1>7. \A who : who # x => Said(parts, n, who) = <<>>
    <2> TAKE who
    <2>1. HAVE who # x
    <2>2. \A i \in 1..Len(parts) : ~(parts[i].job = n /\ parts[i].to.who = who)
      BY <2>1, <1>1, <1>4
    <2>3. QED
      BY <2>2, <1>3, SaidNothing
  <1>8. QED
    BY <1>3, <1>5, <1>6, <1>7 DEF parts

\* The parts for several admins, nobody of whom is named twice.
LEMMA WarningsFacts ==
    ASSUME NEW n \in Nat, NEW w \in Seq(ToSet(Notified)), NEW ss,
           ss = [i \in DOMAIN w |-> PartsOf(n, Person(w[i]), Words)]
    PROVE  /\ FlattenSeq(ss) \in Seq(Warnings(n))
           /\ IsInjective(w) => \A k \in 1..Len(w) : Said(FlattenSeq(ss), n, w[k]) = Words
  <1> DEFINE m == Len(w)
  <1>1. DOMAIN w = 1..m /\ m \in Nat /\ \A i \in 1..m : w[i] \in ToSet(Notified)
    BY LenProperties, ElementOfSeq
  <1>2. \A i \in 1..m :
           /\ ss[i] \in Seq(Warnings(n)) /\ ss[i] \in Seq(Parts)
           /\ \A who : Said(ss[i], n, who) = IF who = w[i] THEN Words ELSE <<>>
    <2> TAKE i \in 1..m
    <2>1. ss[i] = PartsOf(n, Person(w[i]), Words) /\ w[i] \in ToSet(Notified)
      BY <1>1
    <2>2. PICK x \in ToSet(Notified) : x = w[i]
      BY <2>1
    <2>3. /\ PartsOf(n, Person(x), Words) \in Seq(Warnings(n))
          /\ PartsOf(n, Person(x), Words) \in Seq(Parts)
          /\ \A who : Said(PartsOf(n, Person(x), Words), n, who)
                         = IF who = x THEN Words ELSE <<>>
      BY OneWarning
    <2>4. ss[i] = PartsOf(n, Person(x), Words)
      BY <2>1, <2>2, Zenon
    <2>5. QED
      BY <2>2, <2>3, <2>4, Zenon
  <1>3. ss = [i \in 1..m |-> ss[i]]
    BY <1>1
  <1>4. ss \in Seq(Seq(Warnings(n))) /\ ss \in Seq(Seq(Parts)) /\ Len(ss) = m
    <2>1. \A i \in 1..m : ss[i] \in Seq(Warnings(n)) /\ ss[i] \in Seq(Parts)
      BY <1>2
    <2>2. QED
      BY <1>1, <1>3, <2>1
  <1>5. FlattenSeq(ss) \in Seq(Warnings(n))
    BY <1>4, FlattenType
  <1>6. ASSUME IsInjective(w), NEW k \in 1..m
        PROVE  Said(FlattenSeq(ss), n, w[k]) = Words
    <2> DEFINE who == w[k]
    <2>1. PICK f : IsConcat(f, ss, Parts)
      BY <1>4, ConcatExists
    <2>2. /\ FlattenSeq(ss) = f[m] /\ f[0] = <<>>
          /\ \A i \in 0..m : f[i] \in Seq(Parts)
          /\ \A i \in 1..m : f[i] = f[i - 1] \o ss[i]
      <3>1. FlattenSeq(ss) = f[Len(ss)]
        BY <1>4, <2>1, FlattenIsConcat
      <3>2. QED
        BY <3>1, <2>1, <1>4 DEF IsConcat
    <2>3. \A i \in 1..m : w[i] = who <=> i = k
      BY <1>1, <1>6 DEF IsInjective
    <2> HIDE DEF who
    <2> DEFINE P == {i \in 0..m : Said(f[i], n, who) = IF k <= i THEN Words ELSE <<>>}
    <2>4. 0 \in P
      <3>1. Said(<<>>, n, who) = <<>>
        <4>1. \A q \in Seq(Parts) : Len(q) = 0 => Said(q, n, who) = <<>>
          <5> TAKE q \in Seq(Parts)
          <5>1. HAVE Len(q) = 0
          <5>2. \A i \in 1..Len(q) : ~(q[i].job = n /\ q[i].to.who = who)
            BY <5>1
          <5>3. QED
            BY <5>2, SaidNothing
        <4>2. <<>> \in Seq(Parts) /\ Len(<<>>) = 0
          BY EmptySeq
        <4>3. QED
          BY <4>1, <4>2, Zenon
      <3>2. QED
        BY <3>1, <2>2, <1>1
    <2>5. ASSUME NEW i \in 0..(m - 1), i \in P PROVE i + 1 \in P
      <3>1. i + 1 \in 1..m /\ i \in 0..m /\ i + 1 \in 0..m /\ (i + 1) - 1 = i
        BY <1>1
      <3>2. f[i + 1] = f[i] \o ss[i + 1] /\ f[i] \in Seq(Parts) /\ ss[i + 1] \in Seq(Parts)
        BY <3>1, <2>2, <1>2
      <3>3. Said(f[i] \o ss[i + 1], n, who) = Said(f[i], n, who) \o Said(ss[i + 1], n, who)
        <4>1. \A p, q \in Seq(Parts) : Said(p \o q, n, who) = Said(p, n, who) \o Said(q, n, who)
          <5> TAKE p, q \in Seq(Parts)
          <5>1. QED
            BY SaidConcat
        <4>2. QED
          BY <4>1, <3>2, Zenon
      <3>4. Said(ss[i + 1], n, who) = IF i + 1 = k THEN Words ELSE <<>>
        BY <3>1, <1>2, <2>3
      <3>5. Said(f[i], n, who) = IF k <= i THEN Words ELSE <<>>
        BY <2>5
      <3>6. Words \o <<>> = Words /\ <<>> \o Words = Words /\ <<>> \o <<>> = <<>>
        BY WordsType, ConcatEmptySeq, EmptySeq
      <3>7. Said(f[i + 1], n, who) = IF k <= i + 1 THEN Words ELSE <<>>
        <4>0. Said(f[i + 1], n, who) = Said(f[i], n, who) \o Said(ss[i + 1], n, who)
          BY <3>2, <3>3, Zenon
        <4> DEFINE a == Said(f[i + 1], n, who)
                   b == Said(f[i], n, who)
                   c == Said(ss[i + 1], n, who)
        <4>1. a = b \o c /\ b = (IF k <= i THEN Words ELSE <<>>) /\ c = (IF i + 1 = k THEN Words ELSE <<>>)
          BY <4>0, <3>4, <3>5
        <4> HIDE DEF a, b, c
        <4>2. i \in Int /\ k \in Int
          BY <3>1, <1>1
        <4>3. a = IF k <= i + 1 THEN Words ELSE <<>>
          <5>1. CASE k <= i
            <6>1. k <= i + 1 /\ i + 1 # k
              BY <5>1, <4>2
            <6>2. QED
              BY <6>1, <5>1, <4>1, <3>6, Zenon
          <5>2. CASE k = i + 1
            <6>1. k <= i + 1 /\ ~(k <= i)
              BY <5>2, <4>2
            <6>2. QED
              BY <6>1, <5>2, <4>1, <3>6, Zenon
          <5>3. CASE k > i + 1
            <6>1. ~(k <= i + 1) /\ i + 1 # k /\ ~(k <= i)
              BY <5>3, <4>2
            <6>2. QED
              BY <6>1, <4>1, <3>6, Zenon
          <5>4. QED
            BY <5>1, <5>2, <5>3, <4>2
        <4>4. QED
          BY <4>3 DEF a
      <3>8. QED
        BY <3>1, <3>7
    <2>6. m \in P
      <3> HIDE DEF P
      <3>1. P \in SUBSET Nat
        BY <1>1 DEF P
      <3>2. \A i \in 0..(m - 1) : i \in P => i + 1 \in P
        BY <2>5
      <3>3. m \in Nat /\ m \in 0..m
        BY <1>1
      <3> HIDE DEF m
      <3>4. \A i \in 0..m : i \in P
        BY <2>4, <3>1, <3>2, <3>3, InductionTo
      <3>5. QED
        BY <3>3, <3>4
    <2>7. Said(f[m], n, who) = Words
      BY <2>6, <1>1
    <2>8. QED
      BY <2>2, <2>7 DEF who
  <1>7. IsInjective(w) => \A k \in 1..Len(w) : Said(FlattenSeq(ss), n, w[k]) = Words
    BY <1>6
  <1>8. QED
    BY <1>5, <1>7

-----------------------------------------------------------------------------
(* Every action gives a job to a thread or does away with a part.             *)

SimpleBody(to, prefix) == IF IsRoomId(to) /\ prefix THEN PrefixGroupchatReply(Words) ELSE Words

LEMMA SimpleBodyType ==
    ASSUME NEW to, NEW prefix
    PROVE  SimpleBody(to, prefix) \in Seq(Units)
  BY WordsType, PrefixFacts DEF SimpleBody

LEMMA SendSimpleReplyGives ==
    ASSUME RepliesInv, NEW s \in Speakers, NEW m \in Incoming, NEW private \in BOOLEAN,
           SendSimpleReply(s, m, private)
    PROVE  \E kind, to, parts : GivenParts(s, kind, to, parts)
  <1> DEFINE id == BuildReply(m, private)
             who == Meant(m, private)
             text == SimpleBody(id, prefixed)
  <1>1. /\ id \in Ids /\ who \in Anyone
        /\ chat # "test" => id.who = who
        /\ chat # "test" => (IsRoomId(id) <=> who = "room")
    BY BuildReplyFacts DEF RepliesInv
  <1>2. text \in Seq(Units)
    BY SimpleBodyType
  <1>3. /\ NewJob(s, "reply", {who})
        /\ todo' = [todo EXCEPT ![s] = PartsOf(Len(jobs'), id, text)]
        /\ cut' = cut
    BY DEF SendSimpleReply, SimpleBody
  <1>4. chat # "test" => MeantText([kind |-> "reply", to |-> {who}], id.who, text)
    <2>1. text = IF IsRoomId(id) /\ prefixed THEN PrefixGroupchatReply(Words) ELSE Words
      BY DEF SimpleBody
    <2> HIDE DEF id, who, text
    <2>2. QED
      BY <1>1, <2>1, PrefixFacts DEF MeantText
  <1> HIDE DEF id, who, text
  <1>5. /\ {who} \subseteq Anyone /\ chat # "test" => {who} = {id.who}
    BY <1>1
  <1>6. "reply" \in {"reply", "send", "card", "relay", "warn"}
    OBVIOUS
  <1>7. GivenParts(s, "reply", {who}, PartsOf(Len(jobs) + 1, id, text))
    BY <1>1, <1>2, <1>3, <1>4, <1>5, <1>6, TextIsGiven
  <1>8. QED
    BY <1>7, Zenon

LEMMA SendGives ==
    ASSUME RepliesInv, NEW s \in Speakers, NEW m \in Incoming, NEW nickReply \in BOOLEAN,
           NEW id \in {m.frm, m.to} \ {TheBot}, Send(s, id, m, nickReply)
    PROVE  \E kind, to, parts : GivenParts(s, kind, to, parts)
  <1> DEFINE text == SimpleBody(id, prefixed \/ nickReply)
  <1>1. id \in Ids /\ (IsRoomId(id) => id.who = "room")
    BY DEF Incoming, Person, Occupant, TheRoom, TheBot, Ids, Anyone, IsRoomId
  <1>2. text \in Seq(Units)
    BY SimpleBodyType
  <1>3. /\ NewJob(s, "send", {id.who})
        /\ todo' = [todo EXCEPT ![s] = PartsOf(Len(jobs'), id, text)]
        /\ cut' = cut
    BY DEF Send, SimpleBody
  <1>4. MeantText([kind |-> "send", to |-> {id.who}], id.who, text)
    <2>1. text = Words \/ (IsRoomId(id) /\ text = PrefixGroupchatReply(Words))
      BY Zenon DEF SimpleBody
    <2>2. [kind |-> "send", to |-> {id.who}] # [kind |-> "reply", to |-> {"room"}]
      OBVIOUS
    <2> HIDE DEF text
    <2>3. QED
      BY <1>1, <2>1, <2>2, PrefixFacts DEF MeantText
  <1> HIDE DEF text
  <1>5. {id.who} \subseteq Anyone
    BY <1>1 DEF Ids
  <1>6. GivenParts(s, "send", {id.who}, PartsOf(Len(jobs) + 1, id, text))
    BY <1>1, <1>2, <1>3, <1>4, <1>5, TextIsGiven
  <1>7. QED
    BY <1>6, Zenon

LEMMA SendCardGives ==
    ASSUME RepliesInv, NEW s \in Speakers, NEW m \in Incoming, SendCard(s, m)
    PROVE  \E kind, to, parts : GivenParts(s, kind, to, parts)
  <1>1. m.frm \in Ids
    BY DEF Incoming, Person, Occupant, TheRoom, TheBot, Ids, Anyone
  <1>2. MeantText([kind |-> "card", to |-> {m.frm.who}], m.frm.who, Words)
    <2>1. [kind |-> "card", to |-> {m.frm.who}] # [kind |-> "reply", to |-> {"room"}]
      OBVIOUS
    <2>2. QED
      BY <2>1 DEF MeantText
  <1>3. /\ NewJob(s, "card", {m.frm.who})
        /\ todo' = [todo EXCEPT ![s] = PartsOf(Len(jobs'), m.frm, Words)]
        /\ cut' = cut
    BY DEF SendCard
  <1>4. {m.frm.who} \subseteq Anyone
    BY <1>1 DEF Ids
  <1>5. GivenParts(s, "card", {m.frm.who}, PartsOf(Len(jobs) + 1, m.frm, Words))
    BY <1>1, <1>2, <1>3, <1>4, WordsType, TextIsGiven
  <1>6. QED
    BY <1>5, Zenon

\* A job of which no thread has anything to say is for nobody that the code reaches.
LEMMA NothingIsGiven ==
    ASSUME RepliesInv, NEW s \in Speakers, NEW kind \in {"relay", "reverse"}, NEW to,
           NewJob(s, kind, to), todo' = todo, cut' = cut, to \subseteq Anyone,
           \A who \in to : Unreached([kind |-> kind, to |-> to], who)
    PROVE  \E parts : GivenParts(s, kind, to, parts)
  <1>1. PICK none \in Seq(Parts) : none = <<>> /\ Len(none) = 0
    BY EmptySeq
  <1>2. todo' = [todo EXCEPT ![s] = none]
    <2>1. todo' = [todo EXCEPT ![s] = <<>>]
      BY DEF NewJob, RepliesInv, ReplTyped
    <2>2. QED
      BY <1>1, <2>1, Zenon
  <1>3. \A i \in 1..Len(none) : /\ none[i].job = Len(jobs) + 1
                                /\ Len(none[i].body) <= MessageSizeLimit
                                /\ chat # "test" => none[i].to.who \in to
    BY <1>1
  <1>4. [kind |-> kind, to |-> to] # [kind |-> "reply", to |-> {"room"}]
    <2>1. [kind |-> kind, to |-> to].kind # "reply" /\ [kind |-> "reply", to |-> {"room"}].kind = "reply"
      OBVIOUS
    <2>2. QED
      BY <2>1, Zenon
  <1>5. \A who \in to : \A text : MeantText([kind |-> kind, to |-> to], who, text)
    BY <1>4, Zenon DEF MeantText
  <1>6. GivenParts(s, kind, to, none)
    BY <1>2, <1>3, <1>5 DEF GivenParts
  <1>7. QED
    BY <1>6, Zenon

LEMMA RelayGives ==
    ASSUME RepliesInv, NEW s \in Speakers, NEW m \in Incoming, Relay(s, m)
    PROVE  \E kind, to, parts : GivenParts(s, kind, to, parts)
  <1>1. CASE chat = "telegram"
    <2>1. NewJob(s, "relay", {"room"}) /\ cut' = cut /\ todo' = todo
      BY <1>1 DEF Relay
    <2>2. {"room"} \subseteq Anyone
      BY DEF Anyone
    <2>3. \A who \in {"room"} : Unreached([kind |-> "relay", to |-> {"room"}], who)
      BY <1>1 DEF Unreached
    <2>4. \E parts : GivenParts(s, "relay", {"room"}, parts)
      BY <2>1, <2>2, <2>3, NothingIsGiven
    <2>5. QED
      BY <2>4, Zenon
  <1>2. CASE ~(chat = "telegram")
    <2>1. /\ NewJob(s, "relay", {TheRoom.who}) /\ TheRoom.who = "room"
          /\ todo' = [todo EXCEPT ![s] = PartsOf(Len(jobs'), TheRoom, Words)]
          /\ cut' = cut
      BY <1>2 DEF Relay, TheRoom
    <2>2. TheRoom \in Ids /\ {TheRoom.who} \subseteq Anyone
      BY DEF TheRoom, Ids, Anyone
    <2>3. MeantText([kind |-> "relay", to |-> {TheRoom.who}], TheRoom.who, Words)
      <3>1. [kind |-> "relay", to |-> {TheRoom.who}] # [kind |-> "reply", to |-> {"room"}]
        OBVIOUS
      <3>2. QED
        BY <3>1 DEF MeantText
    <2>4. GivenParts(s, "relay", {TheRoom.who}, PartsOf(Len(jobs) + 1, TheRoom, Words))
      BY <2>1, <2>2, <2>3, WordsType, TextIsGiven
    <2>5. QED
      BY <2>4, Zenon
  <1>3. QED
    BY <1>1, <1>2

LEMMA ReverseRelayGives ==
    ASSUME RepliesInv, NEW s \in Speakers, NEW m \in Incoming, ReverseRelay(s, m)
    PROVE  \E kind, to, parts : GivenParts(s, kind, to, parts)
  <1>1. NewJob(s, "reverse", RelayedTo) /\ cut' = cut /\ todo' = todo
    BY DEF ReverseRelay
  <1>2. RelayedTo \subseteq Anyone
    BY DEF Anyone
  <1>3. \A who \in RelayedTo : Unreached([kind |-> "reverse", to |-> RelayedTo], who)
    BY DEF Unreached
  <1>4. \E parts : GivenParts(s, "reverse", RelayedTo, parts)
    BY <1>1, <1>2, <1>3, NothingIsGiven
  <1>5. QED
    BY <1>4, Zenon

LEMMA WarnAdminsGives ==
    ASSUME RepliesInv, NEW s \in Speakers, WarnAdmins(s)
    PROVE  \E kind, to, parts : GivenParts(s, kind, to, parts)
  <1> DEFINE first == SelectInSeq(Notified, BuildIdentifierRaises)
             w == IF first = 0 THEN Notified ELSE SubSeq(Notified, 1, first - 1)
             admins == ToSet(Notified)
  <1>1. /\ NewJob(s, "warn", admins)
        /\ todo' = [todo EXCEPT ![s] =
              FlattenSeq([i \in DOMAIN w |-> PartsOf(Len(jobs'), Person(w[i]), Words)])]
        /\ cut' = cut
    BY DEF WarnAdmins
  <1>2. Notified \in Seq(admins) /\ Len(Notified) \in Nat /\ DOMAIN Notified = 1..Len(Notified)
    BY RepliesAssumption, LenProperties
  <1>3. /\ w \in Seq(admins) /\ (first = 0 => w = Notified)
        /\ first # 0 => /\ first \in 1..Len(Notified) /\ BuildIdentifierRaises(Notified[first])
                        /\ Len(w) = first - 1 /\ \A k \in 1..(first - 1) : w[k] = Notified[k]
    <2>1. /\ first \in 0..Len(Notified)
          /\ first # 0 => BuildIdentifierRaises(Notified[first])
      <3> DEFINE I == {i \in 1..Len(Notified) : BuildIdentifierRaises(Notified[i])}
      <3>1. first = IF I # {} THEN Min(I) ELSE 0
        BY Zenon DEF SelectInSeq
      <3>2. I # {} => Min(I) \in I
        <4> HIDE DEF I
        <4>1. I \subseteq Nat
          BY <1>2 DEF I
        <4>2. HAVE I # {}
        <4>3. \E i \in I : \A j \in I : i <= j
          BY <4>1, <4>2, LeastExists
        <4>4. QED
          BY <4>3 DEF Min
      <3> HIDE DEF first
      <3>3. QED
        BY <3>1, <3>2, <1>2
    <2> HIDE DEF first
    <2>2. CASE first = 0
      BY <2>2, <1>2
    <2>3. CASE first # 0
      <3>1. first - 1 \in 0..Len(Notified) /\ w = SubSeq(Notified, 1, first - 1)
        BY <2>1, <2>3, <1>2
      <3>2. \A k \in 0..Len(Notified) : SubSeq(Notified, 1, k) \in Seq(admins)
        <4> HIDE DEF admins
        <4>1. \A i \in 1..Len(Notified) : Notified[i] \in admins
          BY <1>2, ElementOfSeq
        <4>2. QED
          BY <1>2, <4>1, SubSeqProperties
      <3>3. \A k \in 0..Len(Notified) :
               /\ Len(SubSeq(Notified, 1, k)) = k
               /\ \A i \in 1..k : SubSeq(Notified, 1, k)[i] = Notified[i]
        <4> HIDE DEF admins
        <4> TAKE k \in 0..Len(Notified)
        <4>1. QED
          BY <1>2, SubSeqProperties
      <3> HIDE DEF w, admins
      <3>4. QED
        BY <3>1, <3>2, <3>3, <2>1, <2>3, <1>2
    <2>4. QED
      BY <2>2, <2>3
  <1>4. PICK n \in Nat : n = Len(jobs) + 1 /\ n = Len(jobs') /\ n \notin cut
    <2>1. jobs \in Seq(Jobs) /\ [kind |-> "warn", to |-> admins] \in Jobs
          /\ jobs' = Append(jobs, [kind |-> "warn", to |-> admins]) /\ cut \subseteq 1..Len(jobs)
      BY <1>1 DEF RepliesInv, ReplTyped, NewJob, Jobs, Anyone
    <2> HIDE DEF admins
    <2>2. Len(jobs) \in Nat /\ Len(jobs') = Len(jobs) + 1
      BY <2>1, AppendProperties, LenProperties
    <2>3. QED
      BY <2>1, <2>2
  <1> HIDE DEF first, w
  <1> DEFINE ss == [i \in DOMAIN w |-> PartsOf(n, Person(w[i]), Words)]
             parts == FlattenSeq(ss)
  <1>5. /\ parts \in Seq(Warnings(n))
        /\ IsInjective(w) => \A k \in 1..Len(w) : Said(parts, n, w[k]) = Words
    BY <1>3, WarningsFacts
  <1>6. todo' = [todo EXCEPT ![s] = parts]
    BY <1>1, <1>4
  <1> HIDE DEF ss, parts
  <1>7. parts \in Seq(Parts) /\ \A i \in 1..Len(parts) :
           /\ parts[i].job = n /\ parts[i].to.who \in admins
           /\ Len(parts[i].body) <= MessageSizeLimit
    <2>1. Warnings(n) \subseteq Parts
      BY DEF Warnings
    <2>2. parts \in Seq(Parts)
      BY <1>5, <2>1, SeqMonotonic
    <2>3. \A i \in 1..Len(parts) : parts[i] \in Warnings(n)
      BY <1>5, ElementOfSeq
    <2>4. QED
      BY <2>2, <2>3 DEF Warnings
  <1>8. cut' = cut
    BY <1>1
  <1>9. ASSUME IsInjective(Notified), NEW who \in admins
        PROVE  MeantText([kind |-> "warn", to |-> admins], who, Said(parts, n, who))
    <2> DEFINE job == [kind |-> "warn", to |-> admins]
    <2>1. job # [kind |-> "reply", to |-> {"room"}] /\ job.kind = "warn"
      OBVIOUS
    <2>2. PICK k \in 1..Len(Notified) : who = Notified[k]
      BY <1>9, <1>2 DEF ToSet
    <2>3. CASE first = 0 \/ k < first
      <3>1. k \in 1..Len(w) /\ w[k] = who
        BY <2>2, <2>3, <1>2, <1>3
      <3>2. IsInjective(w)
        <4>1. \A a, b \in 1..Len(Notified) : Notified[a] = Notified[b] => a = b
          BY <1>2, <1>9 DEF IsInjective
        <4>2. /\ Len(w) \in Nat /\ DOMAIN w = 1..Len(w)
              /\ \A a \in 1..Len(w) : a \in 1..Len(Notified) /\ w[a] = Notified[a]
          <5>1. Len(w) \in Nat /\ DOMAIN w = 1..Len(w)
            BY <1>3, LenProperties
          <5>2. QED
            BY <5>1, <1>2, <1>3
        <4>3. \A a, b \in 1..Len(w) : w[a] = w[b] => a = b
          BY <4>1, <4>2
        <4>4. QED
          BY <4>2, <4>3 DEF IsInjective
      <3>3. Said(parts, n, who) = Words
        BY <1>5, <3>1, <3>2
      <3> HIDE DEF job
      <3>4. QED
        BY <3>3, <2>1 DEF MeantText
    <2>4. CASE ~(first = 0 \/ k < first)
      <3>1. first \in DOMAIN Notified /\ k \in DOMAIN Notified /\ first <= k
            /\ BuildIdentifierRaises(Notified[first])
        BY <2>2, <2>4, <1>2, <1>3
      <3>2. Unreached(job, who)
        BY <2>1, <2>2, <3>1 DEF Unreached
      <3>3. QED
        BY <2>1, <3>2, Zenon DEF MeantText
    <2>5. QED
      BY <2>3, <2>4
  <1>10. admins \subseteq Anyone
    BY DEF Anyone
  <1>11. GivenParts(s, "warn", admins, parts)
    <2> HIDE DEF admins
    <2>1. QED
      BY <1>1, <1>4, <1>6, <1>7, <1>8, <1>9, <1>10 DEF GivenParts
  <1>12. QED
    BY <1>11, Zenon

LEMMA SendMessageDoes ==
    ASSUME RepliesInv, NEW s \in Speakers,
           \/ LocalSendMessage(s) \/ IrcSendMessage(s)
           \/ TelegramSendMessage(s) \/ XmppSendMessage(s)
    PROVE  \E rest : PartDone(s, rest)
  <1>1. todo \in [Speakers -> Seq(Parts)]
    BY DEF RepliesInv, ReplTyped
  <1>2. GoesOut(s) => \E rest : PartDone(s, rest) \/ ~NextPart(s)
    BY <1>1 DEF GoesOut, PartDone
  <1>3. \A rest \in {Tail(todo[s]), <<>>} :
           GoesNowhere(s, rest) /\ NextPart(s) => PartDone(s, rest)
    BY DEF GoesNowhere, PartDone
  <1>4. QED
    BY <1>2, <1>3 DEF LocalSendMessage, IrcSendMessage, TelegramSendMessage, XmppSendMessage

LEMMA RepliesStep ==
    ASSUME RepliesInv, RepliesNext
    PROVE  \E s \in Speakers : \/ \E kind, to, parts : GivenParts(s, kind, to, parts)
                               \/ \E rest : PartDone(s, rest)
  <1>1. CASE \E s \in Speakers, m \in Incoming, private \in BOOLEAN : SendSimpleReply(s, m, private)
    BY <1>1, SendSimpleReplyGives
  <1>2. CASE \E s \in Speakers, m \in Incoming, nickReply \in BOOLEAN :
                \E id \in {m.frm, m.to} \ {TheBot} : Send(s, id, m, nickReply)
    BY <1>2, SendGives
  <1>3. CASE \E s \in Speakers, m \in Incoming : Relay(s, m)
    BY <1>3, RelayGives
  <1>4. CASE \E s \in Speakers, m \in Incoming : SendCard(s, m)
    BY <1>4, SendCardGives
  <1>5. CASE \E s \in Speakers : WarnAdmins(s)
    BY <1>5, WarnAdminsGives
  <1>6. CASE \E s \in Speakers : \/ LocalSendMessage(s) \/ IrcSendMessage(s)
                                 \/ TelegramSendMessage(s) \/ XmppSendMessage(s)
    BY <1>6, SendMessageDoes
  <1>7. CASE \E s \in Speakers, m \in Incoming : ReverseRelay(s, m)
    BY <1>7, ReverseRelayGives
  <1>8. QED
    BY <1>1, <1>2, <1>3, <1>4, <1>5, <1>6, <1>7 DEF RepliesNext

-----------------------------------------------------------------------------
(* The theorems.                                                              *)

LEMMA RepliesInitInv == RepliesInit => RepliesInv /\ ToldSoFar
  <1> SUFFICES ASSUME RepliesInit PROVE RepliesInv /\ ToldSoFar
    OBVIOUS
  <1>1. /\ chat \in Backends /\ prefixed \in BOOLEAN /\ MaxJobs \in Nat
        /\ jobs = <<>> /\ todo = [s \in Speakers |-> <<>>] /\ sentParts = <<>> /\ cut = {}
    BY RepliesAssumption DEF RepliesInit
  <1>2. /\ jobs \in Seq(Jobs) /\ Len(jobs) = 0 /\ sentParts \in Seq(Parts) /\ Len(sentParts) = 0
        /\ todo \in [Speakers -> Seq(Parts)] /\ \A s \in Speakers : Len(todo[s]) = 0
    BY <1>1, EmptySeq
  <1>3. ReplTyped
    BY <1>1, <1>2 DEF ReplTyped
  <1>4. PartsInOrder /\ OneInHand /\ ToldSoFar
    BY <1>2 DEF PartsInOrder, OneInHand, InHand, ToldSoFar
  <1>5. QED
    BY <1>3, <1>4 DEF RepliesInv

LEMMA RepliesStutter ==
    ASSUME UNCHANGED replyVars
    PROVE  (RepliesInv => RepliesInv') /\ (ToldSoFar => ToldSoFar')
  <1>1. /\ chat' = chat /\ prefixed' = prefixed /\ jobs' = jobs /\ todo' = todo
        /\ sentParts' = sentParts /\ cut' = cut
    BY DEF replyVars
  <1>2. ReplTyped => ReplTyped'
    BY <1>1 DEF ReplTyped
  <1>3. PartsInOrder => PartsInOrder'
    BY <1>1 DEF PartsInOrder, InOrder
  <1>4. OneInHand => OneInHand'
    BY <1>1 DEF OneInHand, InHand
  <1>5. ToldSoFar => ToldSoFar'
    <2>1. \A s, j : InHand(s, j)' <=> InHand(s, j)
      BY <1>1 DEF InHand
    <2>2. \A j, who : SentTo(j, who)' = SentTo(j, who)
      BY <1>1 DEF SentTo
    <2>3. ASSUME ToldSoFar, chat # "test", NEW j \in 1..Len(jobs), j \notin cut,
                 NEW who \in jobs[j].to
          PROVE  /\ \A s \in Speakers : InHand(s, j) =>
                       MeantText(jobs[j], who, SentTo(j, who) \o Said(todo[s], j, who))'
                 /\ (\A s \in Speakers : ~InHand(s, j)) =>
                       MeantText(jobs[j], who, SentTo(j, who))'
      <3>1. /\ \A s \in Speakers : InHand(s, j) =>
                  MeantText(jobs[j], who, SentTo(j, who) \o Said(todo[s], j, who))
            /\ (\A s \in Speakers : ~InHand(s, j)) => MeantText(jobs[j], who, SentTo(j, who))
        BY <2>3 DEF ToldSoFar
      <3>2. \A s \in Speakers : MeantText(jobs[j], who, SentTo(j, who) \o Said(todo[s], j, who))
                => MeantText(jobs[j], who, SentTo(j, who) \o Said(todo[s], j, who))'
        BY <1>1, <2>2 DEF MeantText, Unreached, BuildIdentifierRaises
      <3>3. MeantText(jobs[j], who, SentTo(j, who)) => MeantText(jobs[j], who, SentTo(j, who))'
        BY <1>1, <2>2 DEF MeantText, Unreached, BuildIdentifierRaises
      <3>4. QED
        BY <3>1, <3>2, <3>3
    <2>4. QED
      BY <1>1, <2>1, <2>3 DEF ToldSoFar
  <1>6. QED
    BY <1>2, <1>3, <1>4, <1>5 DEF RepliesInv

LEMMA RepliesNextInv ==
    ASSUME RepliesInv, [RepliesNext]_replyVars
    PROVE  RepliesInv'
  <1>1. CASE RepliesNext
    BY <1>1, RepliesStep, GivenInv, PartDoneInv
  <1>2. CASE UNCHANGED replyVars
    BY <1>2, RepliesStutter
  <1>3. QED
    BY <1>1, <1>2

LEMMA RepliesNextTold ==
    ASSUME RepliesInv, ToldSoFar, IsInjective(Notified), [RepliesNext]_replyVars
    PROVE  ToldSoFar'
  <1>1. CASE RepliesNext
    BY <1>1, RepliesStep, GivenTold, PartDoneTold
  <1>2. CASE UNCHANGED replyVars
    BY <1>2, RepliesStutter
  <1>3. QED
    BY <1>1, <1>2

\* What is asked for, what threads have in hand and what was sent keep their types,
\* and no part is longer than the limit.
THEOREM RepliesTypeCorrect == RepliesSpec => []RepliesTypeOK
  <1>1. RepliesInv => RepliesTypeOK
    <2> SUFFICES ASSUME RepliesInv PROVE RepliesTypeOK
      OBVIOUS
    <2>1. /\ ReplTyped /\ PartsInOrder /\ DOMAIN sentParts = 1..Len(sentParts)
          /\ \A s \in Speakers : DOMAIN todo[s] = 1..Len(todo[s])
      BY LenProperties DEF RepliesInv, ReplTyped
    <2>2. QED
      BY <2>1 DEF ReplTyped, PartsInOrder, InOrder, RepliesTypeOK
  <1>2. RepliesInv /\ [RepliesNext]_replyVars => RepliesInv'
    BY RepliesNextInv
  <1>3. QED
    BY <1>1, <1>2, RepliesInitInv, PTL DEF RepliesSpec

\* However the parts of the senders mix, who a text is meant for reads it, and
\* nobody else does, where BOT_ADMINS_NOTIFICATIONS lists nobody twice: who is
\* listed twice is warned twice.
THEOREM RepliesReachWhoAskedHolds ==
    ASSUME IsInjective(Notified)
    PROVE  RepliesSpec => []RepliesReachWhoAsked
  <1>1. RepliesInv /\ ToldSoFar => RepliesReachWhoAsked
    <2> SUFFICES ASSUME RepliesInv, ToldSoFar, chat # "test"
                 PROVE  RepliesReachWhoAsked
      BY DEF RepliesReachWhoAsked
    <2>1. /\ ReplTyped /\ PartsInOrder /\ DOMAIN sentParts = 1..Len(sentParts)
          /\ DOMAIN jobs = 1..Len(jobs) /\ \A s \in Speakers : DOMAIN todo[s] = 1..Len(todo[s])
      BY LenProperties DEF RepliesInv, ReplTyped
    <2>2. \A i \in DOMAIN sentParts :
             /\ sentParts[i].to.who \in jobs[sentParts[i].job].to
             /\ Len(sentParts[i].body) <= MessageSizeLimit
      BY <2>1 DEF PartsInOrder, InOrder
    <2>3. ASSUME NEW j \in DOMAIN jobs, Finished(j), j \notin cut, NEW who \in jobs[j].to
          PROVE  MeantText(jobs[j], who, SentTo(j, who))
      <3>1. \A s \in Speakers : ~InHand(s, j)
        BY <2>1, <2>3 DEF Finished, InHand
      <3>2. QED
        BY <2>1, <2>3, <3>1 DEF ToldSoFar
    <2>4. ASSUME NEW j \in DOMAIN jobs, Finished(j), j \notin cut, prefixed,
                 jobs[j] = [kind |-> "reply", to |-> {"room"}]
          PROVE  Head(SentTo(j, "room")) = "nick"
      <3>1. "room" \in jobs[j].to
        BY <2>4
      <3>2. QED
        BY <2>3, <2>4, <3>1 DEF MeantText
    <2>5. QED
      BY <2>2, <2>3, <2>4 DEF RepliesReachWhoAsked, MeantText
  <1>2. RepliesInv /\ [RepliesNext]_replyVars => RepliesInv'
    BY RepliesNextInv
  <1>3. RepliesInv /\ ToldSoFar /\ [RepliesNext]_replyVars => ToldSoFar'
    BY RepliesNextTold
  <1>4. QED
    BY <1>1, <1>2, <1>3, RepliesInitInv, PTL DEF RepliesSpec

-----------------------------------------------------------------------------
(* The backends together, as the runs have them: whichever component moves, the *)
(* others see a stutter.                                                      *)

\* A behaviour of the backends is a behaviour of each component.
LEMMA BackendsAreEach ==
    BackendsSpec => /\ IrcSpec /\ DccSpec /\ XmppSpec /\ TestRoomSpec
                    /\ ConnectionSpec /\ RepliesSpec /\ AccessSpec /\ RepoSpec
  <1>1. BackendsInit => /\ IrcInit /\ DccInit /\ XmppInit /\ TestRoomInit
                        /\ ConnectionInit /\ RepliesInit /\ AccessInit /\ RepoInit
    BY DEF BackendsInit
  <1>2. [BackendsNext]_backendsVars => [IrcNext]_ircVars
    BY DEF BackendsNext, backendsVars
  <1>3. [BackendsNext]_backendsVars => [DccNext]_dccVars
    BY DEF BackendsNext, backendsVars
  <1>4. [BackendsNext]_backendsVars => [XmppNext]_xmppVars
    BY DEF BackendsNext, backendsVars
  <1>5. [BackendsNext]_backendsVars => [TestRoomNext]_testRoomVars
    BY DEF BackendsNext, backendsVars
  <1>6. [BackendsNext]_backendsVars => [ConnectionNext]_connVars
    BY DEF BackendsNext, backendsVars
  <1>7. [BackendsNext]_backendsVars => [RepliesNext]_replyVars
    BY DEF BackendsNext, backendsVars
  <1>8. [BackendsNext]_backendsVars => [AccessNext]_accessVars
    BY DEF BackendsNext, backendsVars
  <1>9. [BackendsNext]_backendsVars => [RepoNext]_repoVars
    BY DEF BackendsNext, backendsVars
  <1>10. QED
    BY <1>1, <1>2, <1>3, <1>4, <1>5, <1>6, <1>7, <1>8, <1>9, PTL
       DEF BackendsSpec, IrcSpec, DccSpec, XmppSpec, TestRoomSpec, ConnectionSpec, RepliesSpec,
           AccessSpec, RepoSpec

\* All the components of the backends keep their types.
THEOREM BackendsTypeCorrect == BackendsSpec => []BackendsTypeOK
  BY BackendsAreEach, IrcTypeCorrect, TransferTypeCorrect, XmppTypeCorrect, TestRoomTypeCorrect,
     ConnectionTypeCorrect, RepliesTypeCorrect, AccessTypeCorrect, RepoTypeCorrect, PTL
     DEF BackendsTypeOK
=============================================================================
