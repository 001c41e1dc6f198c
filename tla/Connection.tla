------------------------------ MODULE Connection -----------------------------
(* A backend serving: the loop of base.Backend.serve_forever with the serve_once *)
(* of the Telegram backend, which fetches updates and stores how far it got, and *)
(* the loops of the text and test backends, which never reconnect. Interrupts    *)
(* (KeyboardInterrupt) come at any step, failures of the network where it is     *)
(* used, crashes anywhere. The Telegram server is external: it forgets the       *)
(* updates below the offset it is asked for.                                     *)
(*                                                                               *)
(* Delays are whole seconds, rounded down after the factor of 1.75; the count of *)
(* attempts is only logged and left out.                                         *)
EXTENDS Naturals, Sequences, FiniteSetsExt

CONSTANTS
    NUpdates,   \* the updates that arrive: 1..NUpdates
    MaxDelay,   \* _reconnection_max_delay
    Jitter,     \* the upper bound of _reconnection_jitter
    MaxCrashes  \* bound on the crashes of the process

ASSUME ConnectionAssumption ==
    NUpdates \in Nat /\ MaxDelay \in Nat \ {0} /\ Jitter \in Nat /\ MaxCrashes \in Nat

VARIABLES
    backend,   \* "telegram", "text" or "test"
    phase,     \* where serve_forever is
    leaving,   \* TRUE once it will not reconnect
    delay,     \* _reconnection_delay
    arrived,   \* updates 1..arrived came in
    confirmed, \* the server forgot the updates below
    offset,    \* the local variable of serve_once
    stored,    \* self[UPDATES_OFFSET_KEY], 0 while there is none
    batch,     \* what getUpdates returned and is not taken yet
    handled,   \* the updates handled, in order
    lost,      \* the updates an interrupt or a crash took while they were handled
    active,    \* the plugins are active
    storageOpen, \* the storage of the bot
    crashes

connVars == <<backend, phase, leaving, delay, arrived, confirmed, offset, stored, batch,
              handled, lost, active, storageOpen, crashes>>

Phases == {"connecting", "connected", "polling", "handling", "closing", "waiting",
           "shutting", "stopped"}
Updates == 1..NUpdates

ConnectionTypeOK ==
    /\ backend \in {"telegram", "text", "test"} /\ phase \in Phases
    /\ leaving \in BOOLEAN /\ active \in BOOLEAN /\ storageOpen \in BOOLEAN
    /\ delay \in 1..(MaxDelay + Jitter)
    /\ arrived \in 0..NUpdates
    /\ {confirmed, offset, stored} \subseteq 0..(NUpdates + 1)
    /\ \A i \in DOMAIN batch : batch[i] \in Updates
    /\ \A i \in DOMAIN handled : handled[i] \in Updates
    /\ lost \subseteq Updates /\ crashes \in 0..MaxCrashes

ConnectionInit ==
    /\ backend \in {"telegram", "text", "test"} /\ phase = "connecting"
    /\ leaving = FALSE /\ delay = 1
    /\ arrived = 0 /\ confirmed = 0 /\ offset = 0 /\ stored = 0
    /\ batch = <<>> /\ handled = <<>> /\ lost = {}
    /\ active = FALSE /\ storageOpen = TRUE /\ crashes = 0

Remote == backend = "telegram"
storeVars == <<confirmed, offset, stored, batch, handled, lost>>

(* A user, or a test, writes to the bot.                                         *)
Arrive ==
    /\ arrived < NUpdates /\ arrived' = arrived + 1
    /\ UNCHANGED <<backend, phase, leaving, delay, storeVars, active, storageOpen, crashes>>

-----------------------------------------------------------------------------
(* serve_once asks who it is: a connection resets the back-off, a failure        *)
(* returns False. The other loops have nothing to connect to.                    *)
Connect ==
    /\ phase = "connecting"
    /\ \/ phase' = "connected" /\ delay' = IF Remote THEN 1 ELSE delay
       \/ Remote /\ phase' = "waiting" /\ UNCHANGED delay
    /\ UNCHANGED <<backend, leaving, arrived, storeVars, active, storageOpen, crashes>>

(* connect_callback, and then the stored offset.                                 *)
ConnectCallback ==
    /\ phase = "connected" /\ phase' = "polling"
    /\ active' = TRUE
    /\ offset' = stored
    /\ UNCHANGED <<backend, leaving, delay, arrived, confirmed, stored, batch, handled, lost,
                   storageOpen, crashes>>

(* getUpdates answers with the updates from the offset on.                       *)
GetUpdates ==
    /\ Remote /\ phase = "polling" /\ batch = <<>>
    /\ confirmed' = Max({confirmed, offset})
    /\ \E n \in 0..arrived :
          batch' = [i \in 1..(IF n < confirmed' THEN 0 ELSE n - Max({confirmed', 1}) + 1) |->
                       i + Max({confirmed', 1}) - 1]
    /\ batch' # <<>>
    /\ UNCHANGED <<backend, phase, leaving, delay, arrived, offset, stored, handled, lost,
                   active, storageOpen, crashes>>

(* getUpdates, or storing the offset, raises: the loop of serve_once ends.       *)
StreamFails ==
    /\ Remote /\ phase = "polling" /\ phase' = "closing"
    /\ batch' = <<>>
    /\ UNCHANGED <<backend, leaving, delay, arrived, confirmed, offset, stored, handled, lost,
                   active, storageOpen, crashes>>

\* Mutant: the offset is only kept in the local variable.
TakeUpdateUnstored ==
    /\ Remote /\ phase = "polling" /\ batch # <<>>
    /\ phase' = "handling"
    /\ offset' = Head(batch) + 1
    /\ batch' = Tail(batch)
    /\ UNCHANGED <<backend, leaving, delay, arrived, confirmed, stored, handled, lost, active,
                   storageOpen, crashes>>

(* The offset is stored before the update is handled.                            *)
TakeUpdate ==
    /\ Remote /\ phase = "polling" /\ batch # <<>>
    /\ phase' = "handling"
    /\ offset' = Head(batch) + 1 /\ stored' = offset'
    /\ batch' = Tail(batch)
    /\ UNCHANGED <<backend, leaving, delay, arrived, confirmed, handled, lost, active,
                   storageOpen, crashes>>

(* _handle_message, whose exceptions are logged.                                 *)
HandleUpdate ==
    /\ phase = "handling" /\ phase' = "polling"
    /\ handled' = Append(handled, offset - 1)
    /\ UNCHANGED <<backend, leaving, delay, arrived, confirmed, offset, stored, batch, lost,
                   active, storageOpen, crashes>>

(* The text backend reads a line and handles it.                                 *)
ConsoleEntry ==
    /\ backend = "text" /\ phase = "polling" /\ Len(handled) < arrived
    /\ handled' = Append(handled, Len(handled) + 1)
    /\ UNCHANGED <<backend, phase, leaving, delay, arrived, confirmed, offset, stored, batch,
                   lost, active, storageOpen, crashes>>

(* The test backend takes a stanza of its queue. One that is pushed with         *)
(* push_presence is a pair and is not unpacked into three: the loop ends.        *)
QueueEntry ==
    /\ backend = "test" /\ phase = "polling" /\ Len(handled) < arrived
    /\ \/ /\ handled' = Append(handled, Len(handled) + 1) /\ UNCHANGED <<phase, leaving>>
       \/ /\ phase' = "closing" /\ leaving' = TRUE /\ UNCHANGED handled
    /\ UNCHANGED <<backend, delay, arrived, confirmed, offset, stored, batch, lost, active,
                   storageOpen, crashes>>

(* KeyboardInterrupt, or the end of the input. From inside the try of serve_once *)
(* or of a loop it leads through the finally. From the activation of the plugins *)
(* it goes straight to the shutdown of serve_forever; in the other loops that    *)
(* comes before the try, so nothing is shut down.                                *)
Interrupt ==
    /\ leaving' = TRUE
    /\ \/ /\ phase \in {"polling", "handling"}
          /\ phase' = "closing"
          /\ lost' = IF phase = "handling" THEN lost \cup {offset - 1} ELSE lost
          /\ UNCHANGED active
       \/ /\ phase \in {"connecting", "connected", "waiting"}
          /\ phase' = IF Remote THEN "shutting" ELSE "stopped"
          /\ active' \in IF phase = "connected" THEN BOOLEAN ELSE {active}
          /\ UNCHANGED lost
    /\ batch' = <<>>
    /\ UNCHANGED <<backend, delay, arrived, confirmed, offset, stored, handled, storageOpen,
                   crashes>>

(* The finally: disconnect_callback deactivates every plugin.                    *)
DisconnectCallback ==
    /\ phase = "closing"
    /\ phase' = IF leaving \/ ~Remote THEN "shutting" ELSE "waiting"
    /\ active' = FALSE
    /\ UNCHANGED <<backend, leaving, delay, arrived, storeVars, storageOpen, crashes>>

\* Mutants: the maximum is not applied; the delay starts over at every attempt.
DelayReconnectUncapped ==
    /\ phase = "waiting" /\ phase' = "connecting"
    /\ \E jitter \in 0..Jitter : delay' = (7 * delay) \div 4 + jitter
    /\ UNCHANGED <<backend, leaving, arrived, storeVars, active, storageOpen, crashes>>
DelayReconnectAfresh ==
    /\ phase = "waiting" /\ phase' = "connecting"
    /\ \E jitter \in 0..Jitter : delay' = 1 + jitter
    /\ UNCHANGED <<backend, leaving, arrived, storeVars, active, storageOpen, crashes>>

(* _delay_reconnect.                                                             *)
DelayReconnect ==
    /\ phase = "waiting" /\ phase' = "connecting"
    /\ \E jitter \in 0..Jitter : delay' = Min({(7 * delay) \div 4, MaxDelay}) + jitter
    /\ UNCHANGED <<backend, leaving, arrived, storeVars, active, storageOpen, crashes>>

(* ErrBot.shutdown.                                                              *)
Shutdown ==
    /\ phase = "shutting" /\ phase' = "stopped"
    /\ storageOpen' = FALSE
    /\ UNCHANGED <<backend, leaving, delay, arrived, storeVars, active, crashes>>

(* The process dies and is started again. Only what is stored stays.             *)
ProcessCrash ==
    /\ crashes < MaxCrashes /\ crashes' = crashes + 1
    /\ Remote /\ phase # "stopped"
    /\ phase' = "connecting" /\ leaving' = FALSE /\ delay' = 1
    /\ offset' = 0 /\ batch' = <<>> /\ active' = FALSE /\ storageOpen' = TRUE
    /\ lost' = IF phase = "handling" THEN lost \cup {offset - 1} ELSE lost
    /\ UNCHANGED <<backend, arrived, confirmed, stored, handled>>

ConnectionNext ==
    \/ Arrive \/ Connect \/ ConnectCallback \/ GetUpdates \/ StreamFails
    \/ TakeUpdate \/ HandleUpdate \/ ConsoleEntry \/ QueueEntry \/ Interrupt
    \/ DisconnectCallback \/ DelayReconnect \/ Shutdown \/ ProcessCrash

ConnectionSpec == ConnectionInit /\ [][ConnectionNext]_connVars

-----------------------------------------------------------------------------
(* Over reconnections and crashes, no update is handled twice or out of order,   *)
(* and one the backend went past is handled unless an interrupt or a crash came  *)
(* in the middle of that.                                                        *)
UpdatesAreHandledOnce ==
    /\ \A i, j \in DOMAIN handled : i < j => handled[i] < handled[j]
    /\ Remote =>
          \A u \in 1..(stored - 1) :
             \/ \E i \in DOMAIN handled : handled[i] = u
             \/ u \in lost
             \/ phase = "handling" /\ u = offset - 1

(* The delay between attempts only falls when one succeeded, or when it was at   *)
(* its maximum, which the jitter is added to.                                    *)
BackOffGrows ==
    [][delay' < delay => phase' = "connected" \/ delay >= MaxDelay \/ crashes' > crashes]_connVars
=============================================================================
