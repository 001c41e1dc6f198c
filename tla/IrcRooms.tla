------------------------------ MODULE IrcRooms -------------------------------
(* The rooms of the IRC backend (backends/irc.py), with the connection and       *)
(* disconnection callbacks (core.py) and the joins of the ChatRoom plugin        *)
(* (core_plugins/chatRoom.py).                                                   *)
(*                                                                               *)
(* One reactor thread handles the events of the server in order; each welcome    *)
(* starts a thread that activates the plugins and joins CHATROOM_PRESENCE; a     *)
(* kick arms a timer; commands run on other threads. The server and the irc      *)
(* library, which keeps channels before it calls a handler, are external.        *)
EXTENDS Naturals, Sequences, FiniteSets

CONSTANTS
    Channels,    \* the channels of the server
    Presence,    \* CHATROOM_PRESENCE
    Refusing,    \* the channels that do not let the bot in
    Welcomers,   \* bound: the threads of on_welcome there may be at once
    MaxDrops,    \* bound on the losses of the connection
    MaxActs      \* bound on the commands, the kicks and the topics of others

ASSUME IrcAssumption ==
    /\ Presence \subseteq Channels /\ Refusing \subseteq Channels
    /\ MaxDrops \in Nat /\ MaxActs \in Nat

VARIABLES
    link,       \* the connection to the server
    members,    \* the channels the bot is in for the server
    wire,       \* the events the server sent and the reactor has not handled
    channels,   \* the channels the bot is in for the library
    known,      \* the keys of _rooms
    recent,     \* _recently_joined_to
    timerOf,    \* the channels with a timer to rejoin after a kick
    reactor,    \* the reactor thread: "idle", in disconnect_callback, or dead
    welcome,    \* the threads of on_welcome
    chatActive, \* the plugins, ChatRoom among them, are activated
    connected,  \* ChatRoom.connected
    outlived,      \* a welcome thread outlived its connection
    acts, drops

serverSide == <<members, wire>>
roomState == <<channels, known, recent>>
chatRoom  == <<chatActive, connected>>
ircVars   == <<link, members, wire, channels, known, recent, timerOf, reactor, welcome,
               chatActive, connected, outlived, acts, drops>>

IrcEvents == {"join", "endofnames", "part", "kick", "topic"}
WelcomeSteps == {"none", "activate", "signal", "call", "last"}
NoThread == [at |-> "none", joins |-> {}, saw |-> FALSE]

IrcTypeOK ==
    /\ link \in {"down", "up"} /\ members \subseteq Channels
    /\ \A i \in DOMAIN wire : wire[i] \in [ev : IrcEvents, room : Channels]
    /\ channels \subseteq Channels /\ known \subseteq Channels /\ recent \subseteq Channels
    /\ timerOf \subseteq Channels
    /\ reactor \in {"idle", "deactivating", "dead"}
    /\ welcome \in [Welcomers -> [at : WelcomeSteps, joins : SUBSET Presence, saw : BOOLEAN]]
    /\ chatActive \in BOOLEAN /\ connected \in BOOLEAN /\ outlived \in BOOLEAN
    /\ acts \in 0..MaxActs /\ drops \in 0..MaxDrops

IrcInit ==
    /\ link = "down" /\ members = {} /\ wire = <<>>
    /\ channels = {} /\ known = {} /\ recent = {} /\ timerOf = {}
    /\ reactor = "idle" /\ welcome = [w \in Welcomers |-> NoThread]
    /\ chatActive = FALSE /\ connected = FALSE /\ outlived = FALSE
    /\ acts = 0 /\ drops = 0

Ev(e, r) == [ev |-> e, room |-> r]
IrcAct == acts < MaxActs /\ acts' = acts + 1

-----------------------------------------------------------------------------
(* What the server does with a JOIN and with a PART. Both raise when the         *)
(* connection is down.                                                           *)
ServerJoin(r) ==
    IF link = "up" /\ r \notin members \cup Refusing
    THEN /\ members' = members \cup {r}
         /\ wire' = wire \o <<Ev("join", r), Ev("topic", r), Ev("endofnames", r)>>
    ELSE UNCHANGED serverSide

ServerPart(r) ==
    IF link = "up" /\ r \in members
    THEN members' = members \ {r} /\ wire' = Append(wire, Ev("part", r))
    ELSE UNCHANGED serverSide

(* query_room makes the room if it is not known.                                 *)
QueryRoom(r) == known' = known \cup {r}

(* query_room(r).join(): JOIN is sent and callback_room_joined called at once.   *)
RoomJoin(r) == QueryRoom(r) /\ ServerJoin(r)

\* Mutant: leaving a room takes it out of _rooms.
RoomLeaveForgets(r) == known' = known \ {r} /\ ServerPart(r)

(* query_room(r).leave().                                                        *)
RoomLeave(r) == QueryRoom(r) /\ ServerPart(r)

-----------------------------------------------------------------------------
(* on_welcome: connect_callback runs on a thread of its own.                     *)
OnWelcome ==
    /\ link = "down" /\ reactor = "idle"
    /\ \E w \in Welcomers :
          /\ welcome[w] = NoThread
          /\ welcome' = [welcome EXCEPT ![w].at = "activate"]
    /\ link' = "up"
    /\ UNCHANGED <<serverSide, roomState, timerOf, reactor, chatRoom, outlived, acts, drops>>

(* ChatRoom.callback_connect: the joins of CHATROOM_PRESENCE, once.              *)
CallbackConnect(w, next) ==
    /\ connected' = TRUE
    /\ welcome' = [welcome EXCEPT ![w].at = next, ![w].joins = IF connected THEN {} ELSE Presence]

(* connect_callback, activate_non_started_plugins: the activation of ChatRoom    *)
(* calls its callback_connect.                                                   *)
ActivateNonStarted(w) ==
    /\ welcome[w].at = "activate"
    /\ IF chatActive
       THEN /\ welcome' = [welcome EXCEPT ![w].at = "signal"]
            /\ UNCHANGED connected
       ELSE CallbackConnect(w, "signal")
    /\ chatActive' = TRUE
    /\ UNCHANGED <<link, serverSide, roomState, timerOf, reactor, outlived, acts, drops>>

(* _join_room; what goes wrong is logged.                                        *)
JoinPresence(w) ==
    /\ \E r \in welcome[w].joins :
          /\ RoomJoin(r)
          /\ welcome' = [welcome EXCEPT ![w].joins = @ \ {r}]
    /\ UNCHANGED <<link, channels, recent, timerOf, reactor, chatRoom, outlived, acts, drops>>

(* signal_connect_to_all_plugins: the list of active plugins is made first, and  *)
(* the callbacks of its members are called whatever becomes of them.             *)
ListActive(w) ==
    /\ welcome[w].at = "signal" /\ welcome[w].joins = {}
    /\ welcome' = [welcome EXCEPT ![w].at = "call", ![w].saw = chatActive]
    /\ UNCHANGED <<link, serverSide, roomState, timerOf, reactor, chatRoom, outlived, acts, drops>>

SignalConnect(w) ==
    /\ welcome[w].at = "call"
    /\ IF welcome[w].saw
       THEN CallbackConnect(w, "last")
       ELSE welcome' = [welcome EXCEPT ![w].at = "last"] /\ UNCHANGED connected
    /\ UNCHANGED <<link, serverSide, roomState, timerOf, reactor, chatActive, outlived, acts, drops>>

WelcomeEnds(w) ==
    /\ welcome[w].at = "last" /\ welcome[w].joins = {}
    /\ welcome' = [welcome EXCEPT ![w] = NoThread]
    /\ UNCHANGED <<link, serverSide, roomState, timerOf, reactor, chatRoom, outlived, acts, drops>>

-----------------------------------------------------------------------------
(* The connection is lost, and what was on the wire with it; the library forgets *)
(* the channels and on_disconnect the rooms.                                     *)
OnDisconnect ==
    /\ link = "up" /\ reactor = "idle" /\ drops < MaxDrops
    /\ drops' = drops + 1
    /\ link' = "down" /\ members' = {} /\ wire' = <<>>
    /\ channels' = {} /\ known' = {}
    /\ reactor' = "deactivating"
    /\ outlived' = (\E w \in Welcomers : welcome[w] # NoThread)
    /\ UNCHANGED <<recent, timerOf, welcome, chatRoom, acts>>

\* Mutant: ChatRoom stays connected over its deactivation.
DeactivateAllConnected ==
    /\ reactor = "deactivating" /\ reactor' = "idle"
    /\ chatActive' = FALSE
    /\ UNCHANGED <<link, serverSide, roomState, timerOf, welcome, connected, outlived, acts, drops>>

(* disconnect_callback: the active plugins are deactivated, and with it ChatRoom *)
(* is no longer connected.                                                       *)
DeactivateAll ==
    /\ reactor = "deactivating" /\ reactor' = "idle"
    /\ chatActive' = FALSE
    /\ connected' = (connected /\ ~chatActive)
    /\ UNCHANGED <<link, serverSide, roomState, timerOf, welcome, outlived, acts, drops>>

(* The events of the server, first come first handled.                           *)
Handles(e) ==
    /\ reactor = "idle" /\ wire # <<>> /\ Head(wire).ev = e
    /\ wire' = Tail(wire)
    /\ UNCHANGED <<link, members, welcome, chatRoom, outlived, acts, drops>>

OnJoin ==
    /\ Handles("join")
    /\ LET r == Head(wire).room
       IN channels' = channels \cup {r} /\ known' = known \cup {r} /\ recent' = recent \cup {r}
    /\ UNCHANGED <<timerOf, reactor>>

(* self._rooms[room]: a missing room is a KeyError, which ends the reactor.      *)
LooksUp(r) == reactor' = IF r \in known THEN reactor ELSE "dead"

OnEndofnames ==
    /\ Handles("endofnames")
    /\ LET r == Head(wire).room
       IN /\ IF r \in recent THEN LooksUp(r) ELSE UNCHANGED reactor
          /\ recent' = recent \ {r}
    /\ UNCHANGED <<channels, known, timerOf>>

OnPart ==
    /\ Handles("part")
    /\ channels' = channels \ {Head(wire).room}
    /\ LooksUp(Head(wire).room)
    /\ UNCHANGED <<known, recent, timerOf>>

OnKick ==
    /\ Handles("kick")
    /\ channels' = channels \ {Head(wire).room}
    /\ timerOf' = timerOf \cup {Head(wire).room}
    /\ UNCHANGED <<known, recent, reactor>>

(* on_currenttopic, on_topic and on_notopic.                                     *)
OnTopic ==
    /\ Handles("topic")
    /\ LooksUp(Head(wire).room)
    /\ UNCHANGED <<roomState, timerOf>>

(* reconnect_channel: without a connection the join raises, and that was it.     *)
KickTimer(r) ==
    /\ r \in timerOf /\ timerOf' = timerOf \ {r}
    /\ RoomJoin(r)
    /\ UNCHANGED <<link, channels, recent, reactor, welcome, chatRoom, outlived, acts, drops>>

-----------------------------------------------------------------------------
(* create() joins. The setter of the topic refuses a room that is not joined; the *)
(* server sends a topic that was set back. The occupants are only looked up.     *)
IrcCreate(r) == RoomJoin(r)

IrcSetTopic(r) ==
    /\ QueryRoom(r)
    /\ IF link = "up" /\ r \in channels /\ r \in members
       THEN wire' = Append(wire, Ev("topic", r)) ELSE UNCHANGED wire
    /\ UNCHANGED members

IrcOccupants(r) == QueryRoom(r) /\ UNCHANGED serverSide

(* The !room commands, which the ChatRoom plugin has while it is activated.      *)
IrcCommand ==
    /\ chatActive /\ IrcAct
    /\ \E r \in Channels :
          RoomJoin(r) \/ RoomLeave(r) \/ IrcCreate(r) \/ IrcSetTopic(r) \/ IrcOccupants(r)
    /\ UNCHANGED <<link, channels, recent, timerOf, reactor, welcome, chatRoom, outlived, drops>>

(* Somebody kicks the bot or sets a topic.                                       *)
Others ==
    /\ link = "up" /\ IrcAct
    /\ \E r \in members :
          \/ members' = members \ {r} /\ wire' = Append(wire, Ev("kick", r))
          \/ wire' = Append(wire, Ev("topic", r)) /\ UNCHANGED members
    /\ UNCHANGED <<link, roomState, timerOf, reactor, welcome, chatRoom, outlived, drops>>

Reacts == OnJoin \/ OnEndofnames \/ OnPart \/ OnKick \/ OnTopic \/ DeactivateAll
Welcomes(w) == ActivateNonStarted(w) \/ JoinPresence(w) \/ ListActive(w) \/ SignalConnect(w)
                 \/ WelcomeEnds(w)

IrcNext ==
    \/ OnWelcome \/ OnDisconnect
    \/ OnJoin \/ OnEndofnames \/ OnPart \/ OnKick \/ OnTopic \/ DeactivateAll
    \/ \E w \in Welcomers : ActivateNonStarted(w)
    \/ \E w \in Welcomers : JoinPresence(w)
    \/ \E w \in Welcomers : ListActive(w)
    \/ \E w \in Welcomers : SignalConnect(w)
    \/ \E w \in Welcomers : WelcomeEnds(w)
    \/ \E r \in Channels : KickTimer(r)
    \/ IrcCommand \/ Others

IrcFairness ==
    /\ WF_ircVars(Reacts)
    /\ \A w \in Welcomers : WF_ircVars(Welcomes(w))
    /\ \A r \in Channels : WF_ircVars(KickTimer(r))

IrcSpec == IrcInit /\ [][IrcNext]_ircVars /\ IrcFairness

-----------------------------------------------------------------------------
(* The handlers look rooms up in a dictionary that a lost connection replaces    *)
(* while timers, commands and welcome threads fill it: none of them ever misses  *)
(* its room, which would end the reactor and the bot, and every channel the bot  *)
(* is in is known.                                                               *)
ReactorSurvives == reactor # "dead" /\ channels \subseteq known

(* A channel the bot was kicked out of is joined again, unless the connection is *)
(* lost before the timer, or the channel refuses.                                *)
KickedRoomsAreRejoined ==
    \A r \in Channels \ Refusing : (r \in timerOf) ~> (r \in channels \/ link = "down")

(* After every connection that lasts, first or later, the rooms of               *)
(* CHATROOM_PRESENCE are joined, unless a thread of the connection before was    *)
(* still calling the plugins when it was lost.                                   *)
PresenceIsJoined ==
    \A r \in Presence \ Refusing :
        (link = "up" /\ \E w \in Welcomers : welcome[w].at = "activate")
            ~> (r \in channels \/ link = "down" \/ outlived)

(* The bot comes back to the rooms it is to be in, after a kick and after every  *)
(* connection.                                                                   *)
RoomsAreRejoined == KickedRoomsAreRejoined /\ PresenceIsJoined
=============================================================================
