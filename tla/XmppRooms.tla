------------------------------ MODULE XmppRooms ------------------------------
(* The rooms of the XMPP backend (backends/xmpp.py). An XMPPRoom has no state of *)
(* its own: slixmpp (external) knows the rooms that are joined, and joining      *)
(* registers handlers for the presence of the room's people. Room commands run   *)
(* on the pool's threads; the session starts, ends and starts again, and at each *)
(* start the ChatRoom plugin joins the rooms of CHATROOM_PRESENCE.               *)
(*                                                                               *)
(* configure() is a generator that nothing iterates: calling it does nothing.    *)
EXTENDS Naturals

CONSTANTS
    Mucs,        \* the rooms
    MucPresence, \* CHATROOM_PRESENCE
    Hands,       \* the pool's threads; the event loop is "loop"
    MaxMoves     \* bound on the commands, the sessions and what others do

ASSUME XmppAssumption == MucPresence \subseteq Mucs /\ "loop" \notin Hands /\ MaxMoves \in Nat

VARIABLES
    session,  \* the session is up
    joinedMucs, \* xep0045.get_joined_rooms()
    onOnline, onOffline, \* the handlers of got_online and got_offline of each room
    does,     \* each thread: its method, the step it is at, its room
    toJoin,   \* rooms callback_connect has yet to join
    rivals,   \* rooms on which two methods overlapped
    told,     \* whether callback_presence was called for the last arrival in each room
    moves

xmppVars == <<session, joinedMucs, onOnline, onOffline, does, toJoin, rivals, told, moves>>

Movers == Hands \cup {"loop"}
XmppSteps == {"idle", "join", "online", "offline", "leave", "unonline", "unoffline"}

XmppTypeOK ==
    /\ session \in BOOLEAN /\ joinedMucs \subseteq Mucs
    /\ onOnline \in [Mucs -> Nat] /\ onOffline \in [Mucs -> Nat]
    /\ does \in [Movers -> [at : XmppSteps, muc : Mucs]]
    /\ toJoin \subseteq MucPresence /\ rivals \subseteq Mucs
    /\ told \in [Mucs -> {"nobody", "told", "missed"}] /\ moves \in 0..MaxMoves

XmppInit ==
    /\ session = FALSE /\ joinedMucs = {}
    /\ onOnline = [r \in Mucs |-> 0] /\ onOffline = [r \in Mucs |-> 0]
    /\ \E r \in Mucs : does = [m \in Movers |-> [at |-> "idle", muc |-> r]]
    /\ toJoin = {} /\ rivals = {} /\ moves = 0
    /\ told = [r \in Mucs |-> "nobody"]

Busy(r) == \E m \in Movers : does[m].at # "idle" /\ does[m].muc = r
Move == moves < MaxMoves /\ moves' = moves + 1

StartMethod(m, method, r) ==
    /\ does[m].at = "idle"
    /\ does' = [does EXCEPT ![m] = [at |-> method, muc |-> r]]
    /\ rivals' = IF Busy(r) THEN rivals \cup {r} ELSE rivals

Then(m, step) == does' = [does EXCEPT ![m].at = step]

-----------------------------------------------------------------------------
(* "!room join" and "!room create", which joins instead; "!room leave".          *)
XmppCommand(m, method, r) ==
    /\ session /\ m \in Hands /\ Move
    /\ StartMethod(m, method, r)
    /\ UNCHANGED <<session, joinedMucs, onOnline, onOffline, toJoin, told>>

(* join, one call after the other. It does not look whether the room is joined.  *)
MucJoin(m) ==
    LET r == does[m].muc
    IN /\ \/ /\ does[m].at = "join" /\ Then(m, "online")
             /\ joinedMucs' = joinedMucs \cup {r} /\ UNCHANGED <<onOnline, onOffline>>
          \/ /\ does[m].at = "online" /\ Then(m, "offline")
             /\ onOnline' = [onOnline EXCEPT ![r] = @ + 1]
             /\ UNCHANGED <<joinedMucs, onOffline>>
          \/ /\ does[m].at = "offline" /\ Then(m, "idle")
             /\ onOffline' = [onOffline EXCEPT ![r] = @ + 1]
             /\ UNCHANGED <<joinedMucs, onOnline>>
       /\ told' = [told EXCEPT ![r] = "nobody"]
       /\ UNCHANGED <<session, toJoin, rivals, moves>>

\* Mutant: leave removes one of the two handlers.
MucLeaveHalf(m) ==
    LET r == does[m].muc
    IN /\ \/ /\ does[m].at = "leave"
             /\ Then(m, IF r \in joinedMucs THEN "unonline" ELSE "idle")
             /\ joinedMucs' = joinedMucs \ {r} /\ UNCHANGED <<onOnline, onOffline>>
          \/ /\ does[m].at = "unonline" /\ Then(m, "idle")
             /\ onOnline' = [onOnline EXCEPT ![r] = 0] /\ UNCHANGED <<joinedMucs, onOffline>>
       /\ told' = [told EXCEPT ![r] = "nobody"]
       /\ UNCHANGED <<session, toJoin, rivals, moves>>

(* leave. Not being in the room is a KeyError, which is logged. Every handler    *)
(* that was registered is removed.                                               *)
MucLeave(m) ==
    LET r == does[m].muc
    IN /\ \/ /\ does[m].at = "leave"
             /\ Then(m, IF r \in joinedMucs THEN "unonline" ELSE "idle")
             /\ joinedMucs' = joinedMucs \ {r} /\ UNCHANGED <<onOnline, onOffline>>
          \/ /\ does[m].at = "unonline" /\ Then(m, "unoffline")
             /\ onOnline' = [onOnline EXCEPT ![r] = 0] /\ UNCHANGED <<joinedMucs, onOffline>>
          \/ /\ does[m].at = "unoffline" /\ Then(m, "idle")
             /\ onOffline' = [onOffline EXCEPT ![r] = 0] /\ UNCHANGED <<joinedMucs, onOnline>>
       /\ told' = [told EXCEPT ![r] = "nobody"]
       /\ UNCHANGED <<session, toJoin, rivals, moves>>

(* The server, or "!room destroy", ends the room: the handlers stay.             *)
MucGone(r) ==
    /\ r \in joinedMucs /\ Move
    /\ joinedMucs' = joinedMucs \ {r}
    /\ rivals' = IF Busy(r) THEN rivals \cup {r} ELSE rivals
    /\ UNCHANGED <<session, onOnline, onOffline, does, toJoin, told>>

(* connected: connect_callback, and ChatRoom goes through CHATROOM_PRESENCE.     *)
Connected ==
    /\ ~session /\ session' = TRUE /\ Move
    /\ toJoin' = MucPresence
    /\ UNCHANGED <<joinedMucs, onOnline, onOffline, does, rivals, told>>

JoinMucPresence(r) ==
    /\ r \in toJoin /\ toJoin' = toJoin \ {r}
    /\ StartMethod("loop", "join", r)
    /\ UNCHANGED <<session, joinedMucs, onOnline, onOffline, told, moves>>

(* disconnected: the plugins are deactivated. Nothing is left: the handlers stay *)
(* and slixmpp may still list the rooms.                                         *)
Disconnected ==
    /\ session /\ session' = FALSE
    /\ does["loop"].at = "idle" /\ toJoin = {}
    /\ joinedMucs' \in {joinedMucs, {}}
    /\ UNCHANGED <<onOnline, onOffline, does, toJoin, rivals, told, moves>>

(* Somebody comes into a room: slixmpp calls the handlers, each of which is      *)
(* user_joined_chat, from the loop.                                              *)
UserJoinedChat(r) ==
    /\ session /\ r \in joinedMucs /\ does["loop"].at = "idle"
    /\ told[r] = "nobody"
    /\ told' = [told EXCEPT ![r] = IF onOnline[r] > 0 THEN "told" ELSE "missed"]
    /\ UNCHANGED <<session, joinedMucs, onOnline, onOffline, does, toJoin, rivals, moves>>

XmppNext ==
    \/ \E m \in Hands, r \in Mucs : XmppCommand(m, "join", r)
    \/ \E m \in Hands, r \in Mucs : XmppCommand(m, "leave", r)
    \/ \E m \in Movers : MucJoin(m)
    \/ \E m \in Movers : MucLeave(m)
    \/ \E r \in Mucs : MucGone(r) \/ JoinMucPresence(r) \/ UserJoinedChat(r)
    \/ Connected
    \/ Disconnected

XmppSpec == XmppInit /\ [][XmppNext]_xmppVars

-----------------------------------------------------------------------------
(* Where no two methods overlapped, the plugins hear of everybody who comes into *)
(* a joined room once it is joined, and the handlers for coming and going stay   *)
(* as many, over reconnections, rooms that end and joins of a joined room.       *)
ArrivalsAreTold ==
    \A r \in Mucs \ rivals :
        ~Busy(r) => /\ onOnline[r] = onOffline[r]
                    /\ r \in joinedMucs => onOnline[r] > 0 /\ told[r] # "missed"
=============================================================================
