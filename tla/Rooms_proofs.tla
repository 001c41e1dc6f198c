---------------------------- MODULE Rooms_proofs ----------------------------
(***************************************************************************)
(* Proofs about the rooms of the IRC, XMPP and test backends, for any rooms and*)
(* any number of threads.                                                  *)
(***************************************************************************)
EXTENDS IrcRooms, XmppRooms, TestRooms, SeqLemmas

-----------------------------------------------------------------------------
(* The rooms of IRC. Whatever makes the server send an event about a room    *)
(* has made the room known first, and a lost connection empties the wire     *)
(* with the dictionary: every event on the wire is about a known room.       *)

IrcEvent == [ev : IrcEvents, room : Channels]

IrcTypes ==
    /\ link \in {"down", "up"} /\ members \subseteq Channels
    /\ wire \in Seq(IrcEvent)
    /\ channels \subseteq Channels /\ known \subseteq Channels /\ recent \subseteq Channels
    /\ timerOf \subseteq Channels
    /\ reactor \in {"idle", "deactivating"}
    /\ welcome \in [Welcomers -> [at : WelcomeSteps, joins : SUBSET Presence, saw : BOOLEAN]]
    /\ chatActive \in BOOLEAN /\ connected \in BOOLEAN /\ outlived \in BOOLEAN
    /\ acts \in 0..MaxActs /\ drops \in 0..MaxDrops

WireKnown == \A i \in DOMAIN wire : wire[i].room \in known
IrcInv == IrcTypes /\ WireKnown /\ members \subseteq known /\ channels \subseteq known

LEMMA IrcInvTypeOK == IrcInv => IrcTypeOK
  <1> SUFFICES ASSUME IrcInv PROVE IrcTypeOK
    OBVIOUS
  <1>1. \A i \in DOMAIN wire : wire[i] \in IrcEvent
    BY ElementOfSeq, LenProperties DEF IrcInv, IrcTypes
  <1>2. QED
    BY <1>1 DEF IrcInv, IrcTypes, IrcTypeOK, IrcEvent

LEMMA IrcInitInv == IrcInit => IrcInv
  <1> SUFFICES ASSUME IrcInit PROVE IrcInv
    OBVIOUS
  <1>1. wire = << >> /\ wire \in Seq(IrcEvent)
    BY EmptySeq DEF IrcInit
  <1>2. NoThread \in [at : WelcomeSteps, joins : SUBSET Presence, saw : BOOLEAN]
    BY DEF NoThread, WelcomeSteps
  <1>3. welcome \in [Welcomers -> [at : WelcomeSteps, joins : SUBSET Presence, saw : BOOLEAN]]
    BY <1>2 DEF IrcInit
  <1>4. acts \in 0..MaxActs /\ drops \in 0..MaxDrops
    BY IrcAssumption DEF IrcInit
  <1>5. IrcTypes
    BY <1>1, <1>3, <1>4 DEF IrcInit, IrcTypes
  <1>6. WireKnown
    <2>1. DOMAIN wire = {}
      BY <1>1
    <2>2. QED
      BY <2>1 DEF WireKnown
  <1>7. members \subseteq known /\ channels \subseteq known
    BY DEF IrcInit
  <1>8. QED
    BY <1>5, <1>6, <1>7 DEF IrcInv

-----------------------------------------------------------------------------
(* What goes over the wire.                                                  *)

LEMMA IrcEventOf ==
    ASSUME NEW e \in IrcEvents, NEW r \in Channels
    PROVE  Ev(e, r) \in IrcEvent /\ Ev(e, r).room = r
  BY DEF Ev, IrcEvent

\* The rooms of the wire and of one event more.
LEMMA WireAppend ==
    ASSUME NEW w \in Seq(IrcEvent), NEW e \in IrcEvent, NEW K,
           \A i \in DOMAIN w : w[i].room \in K, e.room \in K
    PROVE  Append(w, e) \in Seq(IrcEvent) /\ \A i \in DOMAIN Append(w, e) : Append(w, e)[i].room \in K
  <1>1. DOMAIN w = 1..Len(w) /\ Len(w) \in Nat
    BY LenProperties
  <1>2. QED
    BY <1>1, AppendElements

LEMMA WireTail ==
    ASSUME NEW w \in Seq(IrcEvent), w # << >>, NEW K, \A i \in DOMAIN w : w[i].room \in K
    PROVE  /\ Tail(w) \in Seq(IrcEvent) /\ Head(w) \in IrcEvent /\ Head(w).room \in K
           /\ \A i \in DOMAIN Tail(w) : Tail(w)[i].room \in K
  BY TailElements

(* A join, a part, a topic that is set: the room is known, and the server has *)
(* the bot in rooms that are known and talks about those.                     *)
LEMMA ServerJoinSound ==
    ASSUME IrcInv, NEW r \in Channels, RoomJoin(r)
    PROVE  /\ wire' \in Seq(IrcEvent) /\ WireKnown' /\ members' \subseteq known'
           /\ known' = known \cup {r} /\ members' \subseteq Channels
  <1>1. known' = known \cup {r} /\ ServerJoin(r)
    BY DEF RoomJoin, QueryRoom
  <1>2. wire \in Seq(IrcEvent) /\ \A i \in DOMAIN wire : wire[i].room \in known'
    BY <1>1 DEF IrcInv, IrcTypes, WireKnown
  <1>3. CASE link = "up" /\ r \notin members \cup Refusing
    <2> DEFINE three == <<Ev("join", r), Ev("topic", r), Ev("endofnames", r)>>
               w1 == Append(wire, Ev("join", r))
               w2 == Append(w1, Ev("topic", r))
               w3 == Append(w2, Ev("endofnames", r))
    <2>1. members' = members \cup {r} /\ wire' = wire \o three
      BY <1>1, <1>3 DEF ServerJoin
    <2>2. \A e \in {"join", "topic", "endofnames"} : Ev(e, r) \in IrcEvent /\ Ev(e, r).room \in known'
      BY <1>1, IrcEventOf DEF IrcEvents
    <2>3. w1 \in Seq(IrcEvent) /\ \A i \in DOMAIN w1 : w1[i].room \in known'
      BY <1>2, <2>2, WireAppend
    <2> HIDE DEF w1
    <2>4. w2 \in Seq(IrcEvent) /\ \A i \in DOMAIN w2 : w2[i].room \in known'
      BY <2>2, <2>3, WireAppend
    <2> HIDE DEF w2
    <2>5. w3 \in Seq(IrcEvent) /\ \A i \in DOMAIN w3 : w3[i].room \in known'
      BY <2>2, <2>4, WireAppend
    <2>6. wire' = w3
      BY <1>2, <2>1, <2>2 DEF w1, w2
    <2>7. QED
      BY <1>1, <2>1, <2>5, <2>6 DEF IrcInv, IrcTypes, WireKnown
  <1>4. CASE ~(link = "up" /\ r \notin members \cup Refusing)
    <2>1. wire' = wire /\ members' = members
      BY <1>1, <1>4 DEF ServerJoin, serverSide
    <2>2. QED
      BY <1>1, <1>2, <2>1 DEF IrcInv, IrcTypes, WireKnown
  <1>5. QED
    BY <1>3, <1>4

LEMMA CommandSound ==
    ASSUME IrcInv, NEW r \in Channels,
           RoomJoin(r) \/ RoomLeave(r) \/ IrcCreate(r) \/ IrcSetTopic(r) \/ IrcOccupants(r)
    PROVE  /\ wire' \in Seq(IrcEvent) /\ WireKnown' /\ members' \subseteq known'
           /\ known' = known \cup {r} /\ members' \subseteq Channels
  <1>1. wire \in Seq(IrcEvent) /\ \A i \in DOMAIN wire : wire[i].room \in known \cup {r}
    BY DEF IrcInv, IrcTypes, WireKnown
  <1>2. \A e \in {"part", "topic"} : Ev(e, r) \in IrcEvent /\ Ev(e, r).room \in known \cup {r}
    BY IrcEventOf DEF IrcEvents
  <1>3. CASE RoomJoin(r) \/ IrcCreate(r)
    BY <1>3, ServerJoinSound DEF IrcCreate
  <1>4. ASSUME known' = known \cup {r}, members' \subseteq members,
               wire' = wire \/ \E e \in {"part", "topic"} : wire' = Append(wire, Ev(e, r))
        PROVE  /\ wire' \in Seq(IrcEvent) /\ WireKnown' /\ members' \subseteq known'
               /\ known' = known \cup {r} /\ members' \subseteq Channels
    <2>1. wire' \in Seq(IrcEvent) /\ \A i \in DOMAIN wire' : wire'[i].room \in known'
      BY <1>1, <1>2, <1>4, WireAppend
    <2>2. QED
      BY <1>4, <2>1 DEF IrcInv, IrcTypes, WireKnown
  <1>5. CASE RoomLeave(r)
    BY <1>4, <1>5 DEF RoomLeave, QueryRoom, ServerPart, serverSide
  <1>6. CASE IrcSetTopic(r)
    BY <1>4, <1>6 DEF IrcSetTopic, QueryRoom
  <1>7. CASE IrcOccupants(r)
    BY <1>4, <1>7 DEF IrcOccupants, QueryRoom, serverSide
  <1>8. QED
    BY <1>3, <1>5, <1>6, <1>7

-----------------------------------------------------------------------------
(* The threads of on_welcome.                                                *)

LEMMA WelcomeTypes ==
    ASSUME IrcInv, NEW w \in Welcomers, NEW t \in [at : WelcomeSteps, joins : SUBSET Presence, saw : BOOLEAN],
           welcome' = [welcome EXCEPT ![w] = t]
    PROVE  welcome' \in [Welcomers -> [at : WelcomeSteps, joins : SUBSET Presence, saw : BOOLEAN]]
  BY DEF IrcInv, IrcTypes

\* The steps that neither send nor handle anything.
LEMMA WelcomeSame ==
    ASSUME IrcInv, UNCHANGED <<serverSide, roomState, timerOf, reactor, outlived, acts, drops>>,
           link' \in {"down", "up"}, chatActive' \in BOOLEAN, connected' \in BOOLEAN,
           welcome' \in [Welcomers -> [at : WelcomeSteps, joins : SUBSET Presence, saw : BOOLEAN]]
    PROVE  IrcInv'
  BY DEF IrcInv, IrcTypes, WireKnown, serverSide, roomState

LEMMA OnWelcomeInv == IrcInv /\ OnWelcome => IrcInv'
  <1> SUFFICES ASSUME IrcInv, OnWelcome PROVE IrcInv'
    OBVIOUS
  <1>1. PICK w \in Welcomers : welcome' = [welcome EXCEPT ![w].at = "activate"]
    BY DEF OnWelcome
  <1>2. welcome' \in [Welcomers -> [at : WelcomeSteps, joins : SUBSET Presence, saw : BOOLEAN]]
    BY <1>1 DEF IrcInv, IrcTypes, WelcomeSteps
  <1>3. QED
    BY <1>2, WelcomeSame DEF OnWelcome, chatRoom, IrcInv, IrcTypes

LEMMA CallbackConnectTypes ==
    ASSUME IrcInv, NEW w \in Welcomers, NEW next \in WelcomeSteps, CallbackConnect(w, next)
    PROVE  /\ welcome' \in [Welcomers -> [at : WelcomeSteps, joins : SUBSET Presence, saw : BOOLEAN]]
           /\ connected' \in BOOLEAN
  <1>1. /\ connected' = TRUE
        /\ welcome' = [welcome EXCEPT ![w] =
              [@ EXCEPT !.at = next, !.joins = IF connected THEN {} ELSE Presence]]
    BY DEF CallbackConnect
  <1>2. QED
    BY <1>1 DEF IrcInv, IrcTypes

LEMMA ActivateNonStartedInv ==
    ASSUME NEW w \in Welcomers PROVE IrcInv /\ ActivateNonStarted(w) => IrcInv'
  <1> SUFFICES ASSUME IrcInv, ActivateNonStarted(w) PROVE IrcInv'
    OBVIOUS
  <1>1. /\ welcome' \in [Welcomers -> [at : WelcomeSteps, joins : SUBSET Presence, saw : BOOLEAN]]
        /\ connected' \in BOOLEAN
    <2>1. CASE chatActive
      BY <2>1 DEF ActivateNonStarted, IrcInv, IrcTypes, WelcomeSteps
    <2>2. CASE ~chatActive
      BY <2>2, CallbackConnectTypes DEF ActivateNonStarted, WelcomeSteps
    <2>3. QED
      BY <2>1, <2>2
  <1>2. QED
    BY <1>1, WelcomeSame DEF ActivateNonStarted, IrcInv, IrcTypes

LEMMA ListActiveInv == ASSUME NEW w \in Welcomers PROVE IrcInv /\ ListActive(w) => IrcInv'
  <1> SUFFICES ASSUME IrcInv, ListActive(w) PROVE IrcInv'
    OBVIOUS
  <1>1. welcome' \in [Welcomers -> [at : WelcomeSteps, joins : SUBSET Presence, saw : BOOLEAN]]
    <2>1. welcome' = [welcome EXCEPT ![w] = [@ EXCEPT !.at = "call", !.saw = chatActive]]
      BY DEF ListActive
    <2>2. QED
      BY <2>1 DEF IrcInv, IrcTypes, WelcomeSteps
  <1>2. QED
    BY <1>1, WelcomeSame DEF ListActive, chatRoom, IrcInv, IrcTypes

LEMMA SignalConnectInv == ASSUME NEW w \in Welcomers PROVE IrcInv /\ SignalConnect(w) => IrcInv'
  <1> SUFFICES ASSUME IrcInv, SignalConnect(w) PROVE IrcInv'
    OBVIOUS
  <1>1. /\ welcome' \in [Welcomers -> [at : WelcomeSteps, joins : SUBSET Presence, saw : BOOLEAN]]
        /\ connected' \in BOOLEAN
    <2>1. CASE welcome[w].saw
      BY <2>1, CallbackConnectTypes DEF SignalConnect, WelcomeSteps
    <2>2. CASE ~welcome[w].saw
      BY <2>2 DEF SignalConnect, IrcInv, IrcTypes, WelcomeSteps
    <2>3. QED
      BY <2>1, <2>2
  <1>2. QED
    BY <1>1, WelcomeSame DEF SignalConnect, IrcInv, IrcTypes

LEMMA WelcomeEndsInv == ASSUME NEW w \in Welcomers PROVE IrcInv /\ WelcomeEnds(w) => IrcInv'
  <1> SUFFICES ASSUME IrcInv, WelcomeEnds(w) PROVE IrcInv'
    OBVIOUS
  <1>1. NoThread \in [at : WelcomeSteps, joins : SUBSET Presence, saw : BOOLEAN]
    BY DEF NoThread, WelcomeSteps
  <1>2. welcome' \in [Welcomers -> [at : WelcomeSteps, joins : SUBSET Presence, saw : BOOLEAN]]
    BY <1>1 DEF WelcomeEnds, IrcInv, IrcTypes
  <1>3. QED
    BY <1>2, WelcomeSame DEF WelcomeEnds, chatRoom, IrcInv, IrcTypes

LEMMA JoinPresenceInv == ASSUME NEW w \in Welcomers PROVE IrcInv /\ JoinPresence(w) => IrcInv'
  <1> SUFFICES ASSUME IrcInv, JoinPresence(w) PROVE IrcInv'
    OBVIOUS
  <1>1. PICK r \in welcome[w].joins :
           RoomJoin(r) /\ welcome' = [welcome EXCEPT ![w].joins = @ \ {r}]
    BY DEF JoinPresence
  <1>2. r \in Channels
    BY IrcAssumption DEF IrcInv, IrcTypes
  <1>3. welcome' \in [Welcomers -> [at : WelcomeSteps, joins : SUBSET Presence, saw : BOOLEAN]]
    BY <1>1 DEF IrcInv, IrcTypes
  <1>4. /\ wire' \in Seq(IrcEvent) /\ WireKnown' /\ members' \subseteq known'
        /\ known' = known \cup {r} /\ members' \subseteq Channels
    BY <1>1, <1>2, ServerJoinSound
  <1>5. UNCHANGED <<link, channels, recent, timerOf, reactor, chatActive, connected, outlived, acts, drops>>
    BY DEF JoinPresence, chatRoom
  <1>6. QED
    BY <1>2, <1>3, <1>4, <1>5 DEF IrcInv, IrcTypes

-----------------------------------------------------------------------------
(* The reactor, its timers, the commands and the others.                     *)

LEMMA OnDisconnectInv == IrcInv /\ OnDisconnect => IrcInv'
  <1> SUFFICES ASSUME IrcInv, OnDisconnect PROVE IrcInv'
    OBVIOUS
  <1>1. /\ link' = "down" /\ members' = {} /\ wire' = << >> /\ channels' = {} /\ known' = {}
        /\ reactor' = "deactivating" /\ drops < MaxDrops /\ drops' = drops + 1 /\ outlived' \in BOOLEAN
        /\ UNCHANGED <<recent, timerOf, welcome, chatActive, connected, acts>>
    BY DEF OnDisconnect, chatRoom
  <1>2. drops' \in 0..MaxDrops
    BY <1>1, IrcAssumption DEF IrcInv, IrcTypes
  <1>3. wire' \in Seq(IrcEvent) /\ WireKnown'
    BY <1>1, EmptySeq DEF WireKnown
  <1>4. QED
    BY <1>1, <1>2, <1>3 DEF IrcInv, IrcTypes

LEMMA DeactivateAllInv == IrcInv /\ DeactivateAll => IrcInv'
  BY DEF DeactivateAll, serverSide, roomState, IrcInv, IrcTypes, WireKnown

\* The room of an event is known, so that looking it up goes well.
LEMMA HandlesInv ==
    ASSUME IrcInv, NEW e, Handles(e), reactor' = reactor,
           recent' \subseteq Channels, timerOf' \subseteq Channels,
           channels' \subseteq channels \cup {Head(wire).room},
           known \subseteq known', known' \subseteq Channels,
           channels' \subseteq known'
    PROVE  IrcInv'
  <1>1. /\ wire # << >> /\ wire' = Tail(wire)
        /\ UNCHANGED <<link, members, welcome, chatActive, connected, outlived, acts, drops>>
    BY DEF Handles, chatRoom
  <1>2. wire \in Seq(IrcEvent) /\ \A i \in DOMAIN wire : wire[i].room \in known'
    BY DEF IrcInv, IrcTypes, WireKnown
  <1>3. wire' \in Seq(IrcEvent) /\ WireKnown'
    BY <1>1, <1>2, WireTail DEF WireKnown
  <1>4. QED
    BY <1>1, <1>3 DEF IrcInv, IrcTypes

LEMMA HeadKnown ==
    ASSUME IrcInv, wire # << >>
    PROVE  Head(wire).room \in known /\ Head(wire).room \in Channels
  <1>1. wire \in Seq(IrcEvent) /\ \A i \in DOMAIN wire : wire[i].room \in known
    BY DEF IrcInv, IrcTypes, WireKnown
  <1>2. QED
    BY <1>1, WireTail DEF IrcInv, IrcTypes

LEMMA EventsInv == IrcInv /\ (OnJoin \/ OnEndofnames \/ OnPart \/ OnKick \/ OnTopic) => IrcInv'
  <1> SUFFICES ASSUME IrcInv, OnJoin \/ OnEndofnames \/ OnPart \/ OnKick \/ OnTopic PROVE IrcInv'
    OBVIOUS
  <1> DEFINE r == Head(wire).room
  <1>1. wire # << >>
    BY DEF OnJoin, OnEndofnames, OnPart, OnKick, OnTopic, Handles
  <1>2. r \in known /\ r \in Channels
    BY <1>1, HeadKnown
  <1>3. LooksUp(r) => reactor' = reactor
    BY <1>2 DEF LooksUp
  <1>4. channels \subseteq known /\ known \subseteq Channels /\ recent \subseteq Channels /\ timerOf \subseteq Channels
    BY DEF IrcInv, IrcTypes
  <1>5. CASE OnJoin
    BY <1>2, <1>4, <1>5, HandlesInv DEF OnJoin
  <1>6. CASE OnEndofnames
    BY <1>2, <1>3, <1>4, <1>6, HandlesInv DEF OnEndofnames
  <1>7. CASE OnPart
    BY <1>2, <1>3, <1>4, <1>7, HandlesInv DEF OnPart
  <1>8. CASE OnKick
    BY <1>2, <1>4, <1>8, HandlesInv DEF OnKick
  <1>9. CASE OnTopic
    BY <1>2, <1>3, <1>4, <1>9, HandlesInv DEF OnTopic, roomState
  <1>10. QED
    BY <1>5, <1>6, <1>7, <1>8, <1>9

LEMMA KickTimerInv == ASSUME NEW r \in Channels PROVE IrcInv /\ KickTimer(r) => IrcInv'
  <1> SUFFICES ASSUME IrcInv, KickTimer(r) PROVE IrcInv'
    OBVIOUS
  <1>1. /\ timerOf' = timerOf \ {r} /\ RoomJoin(r)
        /\ UNCHANGED <<link, channels, recent, reactor, welcome, chatActive, connected, outlived, acts, drops>>
    BY DEF KickTimer, chatRoom
  <1>2. /\ wire' \in Seq(IrcEvent) /\ WireKnown' /\ members' \subseteq known'
        /\ known' = known \cup {r} /\ members' \subseteq Channels
    BY <1>1, ServerJoinSound
  <1>3. QED
    BY <1>1, <1>2 DEF IrcInv, IrcTypes

LEMMA IrcActs == IrcInv /\ IrcAct => acts' \in 0..MaxActs
  BY IrcAssumption DEF IrcAct, IrcInv, IrcTypes

LEMMA IrcCommandInv == IrcInv /\ IrcCommand => IrcInv'
  <1> SUFFICES ASSUME IrcInv, IrcCommand PROVE IrcInv'
    OBVIOUS
  <1>1. PICK r \in Channels :
           RoomJoin(r) \/ RoomLeave(r) \/ IrcCreate(r) \/ IrcSetTopic(r) \/ IrcOccupants(r)
    BY DEF IrcCommand
  <1>2. /\ wire' \in Seq(IrcEvent) /\ WireKnown' /\ members' \subseteq known'
        /\ known' = known \cup {r} /\ members' \subseteq Channels
    BY <1>1, CommandSound
  <1>3. /\ UNCHANGED <<link, channels, recent, timerOf, reactor, welcome, chatActive, connected, outlived, drops>>
        /\ acts' \in 0..MaxActs
    BY IrcActs DEF IrcCommand, chatRoom
  <1>4. QED
    BY <1>2, <1>3 DEF IrcInv, IrcTypes

LEMMA OthersInv == IrcInv /\ Others => IrcInv'
  <1> SUFFICES ASSUME IrcInv, Others PROVE IrcInv'
    OBVIOUS
  <1>1. PICK r \in members : /\ members' \subseteq members
                             /\ \E e \in {"kick", "topic"} : wire' = Append(wire, Ev(e, r))
    BY DEF Others
  <1>2. r \in known /\ r \in Channels
    BY DEF IrcInv, IrcTypes
  <1>3. \A e \in {"kick", "topic"} : Ev(e, r) \in IrcEvent /\ Ev(e, r).room \in known
    BY <1>2, IrcEventOf DEF IrcEvents
  <1>4. wire \in Seq(IrcEvent) /\ \A i \in DOMAIN wire : wire[i].room \in known
    BY DEF IrcInv, IrcTypes, WireKnown
  <1>5. wire' \in Seq(IrcEvent) /\ \A i \in DOMAIN wire' : wire'[i].room \in known
    BY <1>1, <1>3, <1>4, WireAppend
  <1>6. /\ UNCHANGED <<link, channels, known, recent, timerOf, reactor, welcome, chatActive, connected, outlived, drops>>
        /\ acts' \in 0..MaxActs
    BY IrcActs DEF Others, roomState, chatRoom
  <1>7. QED
    BY <1>1, <1>5, <1>6 DEF IrcInv, IrcTypes, WireKnown

LEMMA IrcStutterInv == IrcInv /\ UNCHANGED ircVars => IrcInv'
  BY DEF ircVars, IrcInv, IrcTypes, WireKnown

THEOREM IrcInvariant == IrcSpec => []IrcInv
  <1>1. IrcInv /\ [IrcNext]_ircVars => IrcInv'
    BY OnWelcomeInv, OnDisconnectInv, EventsInv, DeactivateAllInv, ActivateNonStartedInv,
       JoinPresenceInv, ListActiveInv, SignalConnectInv, WelcomeEndsInv, KickTimerInv,
       IrcCommandInv, OthersInv, IrcStutterInv DEF IrcNext
  <1>2. QED
    BY IrcInitInv, <1>1, PTL DEF IrcSpec

(* The state of the IRC backend keeps its types.                              *)
THEOREM IrcTypeCorrect == IrcSpec => []IrcTypeOK
  BY IrcInvariant, IrcInvTypeOK, PTL

(* No event of the server ends the reactor with a room that is not known,     *)
(* whatever the timers, the commands and the welcome threads of an earlier    *)
(* connection do.                                                             *)
THEOREM ReactorSurvivesHolds == IrcSpec => []ReactorSurvives
  <1>1. IrcInv => ReactorSurvives
    BY DEF IrcInv, IrcTypes, ReactorSurvives
  <1>2. QED
    BY IrcInvariant, <1>1, PTL

-----------------------------------------------------------------------------
(* The rooms of XMPP. Where no two methods overlapped one thread at most is   *)
(* in a method of the room, and how far it is says how many handlers of each  *)
(* kind there are and whether the room is joined.                             *)

DoesOn(m, r) == does[m].at # "idle" /\ does[m].muc = r
Even(r) == onOnline[r] = onOffline[r]
Noted(r) == r \in joinedMucs => onOnline[r] > 0 /\ told[r] # "missed"

MethodRel(m, r) ==
    /\ does[m].at \in {"join", "leave"} => Even(r) /\ Noted(r)
    /\ does[m].at = "online" => Even(r)
    /\ does[m].at = "offline" => onOnline[r] = onOffline[r] + 1 /\ told[r] # "missed"
    /\ does[m].at = "unonline" => r \notin joinedMucs
    /\ does[m].at = "unoffline" => onOnline[r] = 0 /\ r \notin joinedMucs

MucInv(r) ==
    /\ \A m, n \in Movers : DoesOn(m, r) /\ DoesOn(n, r) => m = n
    /\ ~Busy(r) => Even(r) /\ Noted(r)
    /\ \A m \in Movers : DoesOn(m, r) => MethodRel(m, r)

XmppInv == XmppTypeOK /\ \A r \in Mucs \ rivals : MucInv(r)

LEMMA BusyDoes == ASSUME NEW r \in Mucs PROVE Busy(r) <=> \E m \in Movers : DoesOn(m, r)
  BY DEF Busy, DoesOn

LEMMA XmppMoves == XmppTypeOK /\ Move => moves' \in 0..MaxMoves
  BY XmppAssumption DEF XmppTypeOK, Move

\* A room none of whose methods moved, and that at most stopped being joined.
LEMMA MucFrame ==
    ASSUME NEW r \in Mucs, MucInv(r),
           \A m \in Movers : DoesOn(m, r)' <=> DoesOn(m, r),
           \A m \in Movers : DoesOn(m, r) => does'[m].at = does[m].at,
           onOnline'[r] = onOnline[r], onOffline'[r] = onOffline[r],
           r \in joinedMucs' => r \in joinedMucs, told'[r] = told[r]
    PROVE  MucInv(r)'
  <1>1. Busy(r)' <=> Busy(r)
    BY BusyDoes, Zenon DEF DoesOn, Busy
  <1>2. (Even(r) => Even(r)') /\ (Noted(r) => Noted(r)')
    BY DEF Even, Noted
  <1>3. ASSUME NEW m \in Movers, DoesOn(m, r)'
        PROVE  MethodRel(m, r)'
    BY <1>2, <1>3 DEF MucInv, MethodRel
  <1>4. QED
    BY <1>1, <1>2, <1>3 DEF MucInv

LEMMA XmppInitInv == XmppInit => XmppInv
  <1> SUFFICES ASSUME XmppInit PROVE XmppInv
    OBVIOUS
  <1>1. \A m \in Movers : does[m].at = "idle"
    BY DEF XmppInit
  <1>2. XmppTypeOK
    <2>1. does \in [Movers -> [at : XmppSteps, muc : Mucs]]
      BY DEF XmppInit, XmppSteps
    <2>2. /\ onOnline \in [Mucs -> Nat] /\ onOffline \in [Mucs -> Nat]
          /\ told \in [Mucs -> {"nobody", "told", "missed"}]
      BY DEF XmppInit
    <2>3. moves \in 0..MaxMoves
      BY XmppAssumption DEF XmppInit
    <2>4. QED
      BY <2>1, <2>2, <2>3 DEF XmppInit, XmppTypeOK
  <1>3. ASSUME NEW r \in Mucs PROVE MucInv(r)
    BY <1>1 DEF XmppInit, MucInv, DoesOn, Even, Noted
  <1>4. QED
    BY <1>2, <1>3 DEF XmppInv

-----------------------------------------------------------------------------
\* A method starts: on a room no method is on, or the two are rivals.
LEMMA StartSound ==
    ASSUME XmppInv, NEW m \in Movers, NEW q \in Mucs, NEW step \in {"join", "leave"},
           StartMethod(m, step, q),
           UNCHANGED <<joinedMucs, onOnline, onOffline, told>>
    PROVE  /\ does' \in [Movers -> [at : XmppSteps, muc : Mucs]] /\ rivals' \subseteq Mucs
           /\ \A r \in Mucs \ rivals' : MucInv(r)'
  <1>1. /\ does[m].at = "idle" /\ does' = [does EXCEPT ![m] = [at |-> step, muc |-> q]]
        /\ rivals' = IF Busy(q) THEN rivals \cup {q} ELSE rivals
    BY DEF StartMethod
  <1>2. does \in [Movers -> [at : XmppSteps, muc : Mucs]] /\ rivals \subseteq Mucs
    BY DEF XmppInv, XmppTypeOK
  <1>3. does' \in [Movers -> [at : XmppSteps, muc : Mucs]] /\ rivals' \subseteq Mucs
    <2>1. [at |-> step, muc |-> q] \in [at : XmppSteps, muc : Mucs]
      BY DEF XmppSteps
    <2>2. QED
      BY <2>1, <1>1, <1>2
  <1>4. /\ does'[m] = [at |-> step, muc |-> q]
        /\ \A n \in Movers : n # m => does'[n] = does[n]
    BY <1>1, <1>2
  <1>5. ASSUME NEW r \in Mucs \ rivals' PROVE MucInv(r)'
    <2>1. r \in Mucs \ rivals
      BY <1>1, <1>5
    <2>2. MucInv(r)
      BY <2>1 DEF XmppInv
    <2>3. CASE r # q
      <3>1. \A n \in Movers : DoesOn(n, r)' <=> DoesOn(n, r)
        BY <1>1, <1>4, <2>3 DEF DoesOn
      <3>2. \A n \in Movers : DoesOn(n, r) => does'[n].at = does[n].at
        BY <1>1, <1>4 DEF DoesOn
      <3>3. QED
        BY <2>2, <3>1, <3>2, MucFrame
    <2>4. CASE r = q
      <3>1. ~Busy(r)
        BY <1>1, <1>5, <2>4
      <3>2. \A n \in Movers : ~DoesOn(n, r)
        BY <3>1, BusyDoes
      <3>3. \A n \in Movers : DoesOn(n, r)' <=> n = m
        BY <1>4, <3>2, <2>4 DEF DoesOn
      <3>4. Even(r)' /\ Noted(r)'
        BY <2>2, <3>1 DEF MucInv, Even, Noted
      <3>5. Busy(r)'
        BY <3>3 DEF Busy, DoesOn
      <3>6. MethodRel(m, r)'
        BY <1>4, <3>4 DEF MethodRel
      <3>7. QED
        BY <3>3, <3>5, <3>6 DEF MucInv
    <2>5. QED
      BY <2>3, <2>4
  <1>6. QED
    BY <1>3, <1>5

LEMMA XmppCommandInv ==
    ASSUME NEW m \in Hands, NEW r \in Mucs, NEW method \in {"join", "leave"}
    PROVE  XmppInv /\ XmppCommand(m, method, r) => XmppInv'
  <1> SUFFICES ASSUME XmppInv, XmppCommand(m, method, r) PROVE XmppInv'
    OBVIOUS
  <1>1. /\ StartMethod(m, method, r) /\ Move
        /\ UNCHANGED <<session, joinedMucs, onOnline, onOffline, toJoin, told>>
    BY DEF XmppCommand
  <1>2. m \in Movers
    BY DEF Movers
  <1>3. /\ does' \in [Movers -> [at : XmppSteps, muc : Mucs]] /\ rivals' \subseteq Mucs
        /\ \A q \in Mucs \ rivals' : MucInv(q)'
    BY <1>1, <1>2, StartSound
  <1>4. moves' \in 0..MaxMoves
    BY <1>1, XmppMoves DEF XmppInv
  <1>5. QED
    BY <1>1, <1>3, <1>4 DEF XmppInv, XmppTypeOK

LEMMA JoinMucPresenceInv ==
    ASSUME NEW r \in Mucs PROVE XmppInv /\ JoinMucPresence(r) => XmppInv'
  <1> SUFFICES ASSUME XmppInv, JoinMucPresence(r) PROVE XmppInv'
    OBVIOUS
  <1>1. /\ StartMethod("loop", "join", r) /\ toJoin' = toJoin \ {r}
        /\ UNCHANGED <<session, joinedMucs, onOnline, onOffline, told, moves>>
    BY DEF JoinMucPresence
  <1>2. /\ does' \in [Movers -> [at : XmppSteps, muc : Mucs]] /\ rivals' \subseteq Mucs
        /\ \A q \in Mucs \ rivals' : MucInv(q)'
    BY <1>1, StartSound DEF Movers
  <1>3. QED
    BY <1>1, <1>2 DEF XmppInv, XmppTypeOK

-----------------------------------------------------------------------------
(* One call of a method: of its room, only the thread that is in the method    *)
(* moves, or the room has rivals.                                              *)

\* A room other than that of the method that takes a step.
LEMMA OtherMuc ==
    ASSUME XmppInv, NEW m \in Movers, NEW step \in XmppSteps, Then(m, step),
           NEW r \in Mucs \ rivals, r # does[m].muc,
           r \in joinedMucs' => r \in joinedMucs,
           onOnline'[r] = onOnline[r], onOffline'[r] = onOffline[r], told'[r] = told[r]
    PROVE  MucInv(r)'
  <1>1. does \in [Movers -> [at : XmppSteps, muc : Mucs]] /\ MucInv(r)
    BY DEF XmppInv, XmppTypeOK
  <1>2. does'[m].muc = does[m].muc /\ \A n \in Movers : n # m => does'[n] = does[n]
    BY <1>1 DEF Then
  <1>3. \A n \in Movers : DoesOn(n, r)' <=> DoesOn(n, r)
    BY <1>2 DEF DoesOn
  <1>4. \A n \in Movers : DoesOn(n, r) => does'[n].at = does[n].at
    BY <1>2 DEF DoesOn
  <1>5. QED
    BY <1>1, <1>3, <1>4, MucFrame

\* The room of the method: the thread was the only one there.
LEMMA OwnMuc ==
    ASSUME XmppInv, NEW m \in Movers, does[m].at # "idle",
           NEW r \in Mucs \ rivals, r = does[m].muc,
           NEW step \in XmppSteps, Then(m, step)
    PROVE  /\ MethodRel(m, r)
           /\ does'[m] = [at |-> step, muc |-> r]
           /\ (IF step = "idle" THEN Even(r)' /\ Noted(r)' ELSE MethodRel(m, r)') => MucInv(r)'
  <1>1. does \in [Movers -> [at : XmppSteps, muc : Mucs]]
    BY DEF XmppInv, XmppTypeOK
  <1>3. MucInv(r) /\ DoesOn(m, r)
    BY DEF XmppInv, DoesOn
  <1>4. MethodRel(m, r) /\ \A n \in Movers : DoesOn(n, r) => n = m
    BY <1>3 DEF MucInv
  <1>5. does'[m] = [at |-> step, muc |-> r] /\ \A n \in Movers : n # m => does'[n] = does[n]
    BY <1>1 DEF Then
  <1>6. \A n \in Movers : n # m => ~(does'[n].at # "idle" /\ does'[n].muc = r)
    BY <1>4, <1>5 DEF DoesOn
  <1>7. does'[m].at = step /\ does'[m].muc = r
    BY <1>5
  <1>8. \A n \in Movers : DoesOn(n, r)' <=> n = m /\ step # "idle"
    BY <1>6, <1>7 DEF DoesOn
  <1>9. Busy(r)' <=> step # "idle"
    BY <1>8 DEF Busy, DoesOn
  <1>10. (IF step = "idle" THEN Even(r)' /\ Noted(r)' ELSE MethodRel(m, r)') => MucInv(r)'
    BY <1>8, <1>9 DEF MucInv
  <1>11. QED
    BY <1>4, <1>5, <1>10

\* What one call of a method changes besides where the thread is.
LEMMA MethodTypes ==
    ASSUME XmppInv, NEW m \in Movers, NEW step \in XmppSteps, Then(m, step),
           joinedMucs' \subseteq Mucs,
           onOnline' \in [Mucs -> Nat], onOffline' \in [Mucs -> Nat],
           told' = [told EXCEPT ![does[m].muc] = "nobody"],
           UNCHANGED <<session, toJoin, rivals, moves>>
    PROVE  XmppTypeOK'
  <1>1. does' \in [Movers -> [at : XmppSteps, muc : Mucs]]
    BY DEF XmppInv, XmppTypeOK, Then
  <1>2. QED
    BY <1>1 DEF XmppInv, XmppTypeOK

LEMMA MucJoinInv ==
    ASSUME NEW m \in Movers PROVE XmppInv /\ MucJoin(m) => XmppInv'
  <1> SUFFICES ASSUME XmppInv, MucJoin(m) PROVE XmppInv'
    OBVIOUS
  <1>0. PICK r \in Mucs : r = does[m].muc
    BY DEF XmppInv, XmppTypeOK
  <1>1. PICK step \in XmppSteps :
          /\ Then(m, step)
          /\ \/ /\ does[m].at = "join" /\ step = "online"
                /\ joinedMucs' = joinedMucs \cup {r} /\ UNCHANGED <<onOnline, onOffline>>
             \/ /\ does[m].at = "online" /\ step = "offline"
                /\ onOnline' = [onOnline EXCEPT ![r] = @ + 1]
                /\ UNCHANGED <<joinedMucs, onOffline>>
             \/ /\ does[m].at = "offline" /\ step = "idle"
                /\ onOffline' = [onOffline EXCEPT ![r] = @ + 1]
                /\ UNCHANGED <<joinedMucs, onOnline>>
    BY <1>0 DEF MucJoin, XmppSteps
  <1>2. told' = [told EXCEPT ![r] = "nobody"] /\ UNCHANGED <<session, toJoin, rivals, moves>>
    BY <1>0 DEF MucJoin
  <1>3. /\ joinedMucs \subseteq Mucs
        /\ onOnline \in [Mucs -> Nat] /\ onOffline \in [Mucs -> Nat]
        /\ told \in [Mucs -> {"nobody", "told", "missed"}]
    BY DEF XmppInv, XmppTypeOK
  <1>4. XmppTypeOK'
    <2>1. joinedMucs' \subseteq Mucs /\ onOnline' \in [Mucs -> Nat] /\ onOffline' \in [Mucs -> Nat]
      BY <1>1, <1>3
    <2>2. QED
      BY <2>1, <1>0, <1>1, <1>2, MethodTypes
  <1>5. ASSUME NEW q \in Mucs \ rivals, q # r PROVE MucInv(q)'
    <2>1. /\ q \in joinedMucs' => q \in joinedMucs
          /\ onOnline'[q] = onOnline[q] /\ onOffline'[q] = onOffline[q] /\ told'[q] = told[q]
      BY <1>1, <1>2, <1>3, <1>5
    <2>2. QED
      BY <2>1, <1>0, <1>1, <1>5, OtherMuc
  <1>6. ASSUME r \notin rivals PROVE MucInv(r)'
    <2>1. does[m].at # "idle"
      BY <1>1
    <2>2. /\ MethodRel(m, r) /\ does'[m] = [at |-> step, muc |-> r]
          /\ (IF step = "idle" THEN Even(r)' /\ Noted(r)' ELSE MethodRel(m, r)') => MucInv(r)'
      BY <2>1, <1>0, <1>1, <1>6, OwnMuc
    <2>3. told'[r] = "nobody"
      BY <1>2, <1>3
    <2>4. CASE does[m].at = "join"
      <3>1. step = "online" /\ UNCHANGED <<onOnline, onOffline>> /\ Even(r)
        BY <1>1, <2>2, <2>4 DEF MethodRel
      <3>2. MethodRel(m, r)'
        BY <2>2, <3>1 DEF MethodRel, Even
      <3>3. QED
        BY <2>2, <3>1, <3>2
    <2>5. CASE does[m].at = "online"
      <3>1. step = "offline" /\ Even(r) /\ onOnline'[r] = onOnline[r] + 1 /\ onOffline' = onOffline
        BY <1>1, <1>3, <2>2, <2>5 DEF MethodRel
      <3>2. MethodRel(m, r)'
        BY <2>2, <2>3, <3>1 DEF MethodRel, Even
      <3>3. QED
        BY <2>2, <3>1, <3>2
    <2>6. CASE does[m].at = "offline"
      <3>1. /\ step = "idle" /\ onOnline[r] = onOffline[r] + 1
            /\ onOnline' = onOnline /\ onOffline'[r] = onOffline[r] + 1
        BY <1>1, <1>3, <2>2, <2>6 DEF MethodRel
      <3>2. Even(r)' /\ Noted(r)'
        <4>1. onOnline'[r] > 0
          BY <1>3, <3>1
        <4>2. QED
          BY <2>3, <3>1, <4>1 DEF Even, Noted
      <3>3. QED
        BY <2>2, <3>1, <3>2
    <2>7. QED
      BY <1>1, <2>4, <2>5, <2>6
  <1>7. QED
    BY <1>2, <1>4, <1>5, <1>6 DEF XmppInv

LEMMA MucLeaveInv ==
    ASSUME NEW m \in Movers PROVE XmppInv /\ MucLeave(m) => XmppInv'
  <1> SUFFICES ASSUME XmppInv, MucLeave(m) PROVE XmppInv'
    OBVIOUS
  <1>0. PICK r \in Mucs : r = does[m].muc
    BY DEF XmppInv, XmppTypeOK
  <1>1. PICK step \in XmppSteps :
          /\ Then(m, step)
          /\ \/ /\ does[m].at = "leave" /\ step = IF r \in joinedMucs THEN "unonline" ELSE "idle"
                /\ joinedMucs' = joinedMucs \ {r} /\ UNCHANGED <<onOnline, onOffline>>
             \/ /\ does[m].at = "unonline" /\ step = "unoffline"
                /\ onOnline' = [onOnline EXCEPT ![r] = 0] /\ UNCHANGED <<joinedMucs, onOffline>>
             \/ /\ does[m].at = "unoffline" /\ step = "idle"
                /\ onOffline' = [onOffline EXCEPT ![r] = 0] /\ UNCHANGED <<joinedMucs, onOnline>>
    BY <1>0 DEF MucLeave, XmppSteps
  <1>2. told' = [told EXCEPT ![r] = "nobody"] /\ UNCHANGED <<session, toJoin, rivals, moves>>
    BY <1>0 DEF MucLeave
  <1>3. /\ joinedMucs \subseteq Mucs
        /\ onOnline \in [Mucs -> Nat] /\ onOffline \in [Mucs -> Nat]
        /\ told \in [Mucs -> {"nobody", "told", "missed"}]
    BY DEF XmppInv, XmppTypeOK
  <1>4. XmppTypeOK'
    <2>1. joinedMucs' \subseteq Mucs /\ onOnline' \in [Mucs -> Nat] /\ onOffline' \in [Mucs -> Nat]
      BY <1>1, <1>3
    <2>2. QED
      BY <2>1, <1>0, <1>1, <1>2, MethodTypes
  <1>5. ASSUME NEW q \in Mucs \ rivals, q # r PROVE MucInv(q)'
    <2>1. /\ q \in joinedMucs' => q \in joinedMucs
          /\ onOnline'[q] = onOnline[q] /\ onOffline'[q] = onOffline[q] /\ told'[q] = told[q]
      BY <1>1, <1>2, <1>3, <1>5
    <2>2. QED
      BY <2>1, <1>0, <1>1, <1>5, OtherMuc
  <1>6. ASSUME r \notin rivals PROVE MucInv(r)'
    <2>1. does[m].at # "idle"
      BY <1>1
    <2>2. /\ MethodRel(m, r) /\ does'[m] = [at |-> step, muc |-> r]
          /\ (IF step = "idle" THEN Even(r)' /\ Noted(r)' ELSE MethodRel(m, r)') => MucInv(r)'
      BY <2>1, <1>0, <1>1, <1>6, OwnMuc
    <2>3. told'[r] = "nobody"
      BY <1>2, <1>3
    <2>4. CASE does[m].at = "leave"
      <3>1. /\ step = IF r \in joinedMucs THEN "unonline" ELSE "idle"
            /\ joinedMucs' = joinedMucs \ {r} /\ UNCHANGED <<onOnline, onOffline>>
            /\ Even(r)
        BY <1>1, <2>2, <2>4 DEF MethodRel
      <3>2. r \notin joinedMucs' /\ Even(r)'
        BY <3>1 DEF Even
      <3>3. Noted(r)'
        BY <3>2 DEF Noted
      <3>4. step = "unonline" => MethodRel(m, r)'
        BY <2>2, <3>2 DEF MethodRel
      <3>5. QED
        BY <2>2, <3>1, <3>2, <3>3, <3>4
    <2>5. CASE does[m].at = "unonline"
      <3>1. step = "unoffline" /\ r \notin joinedMucs' /\ onOnline'[r] = 0
        BY <1>1, <1>3, <2>2, <2>5 DEF MethodRel
      <3>2. MethodRel(m, r)'
        BY <2>2, <3>1 DEF MethodRel
      <3>3. QED
        BY <2>2, <3>1, <3>2
    <2>6. CASE does[m].at = "unoffline"
      <3>1. /\ step = "idle" /\ r \notin joinedMucs' /\ onOnline'[r] = 0 /\ onOffline'[r] = 0
        BY <1>1, <1>3, <2>2, <2>6 DEF MethodRel
      <3>2. Even(r)' /\ Noted(r)'
        BY <3>1 DEF Even, Noted
      <3>3. QED
        BY <2>2, <3>1, <3>2
    <2>7. QED
      BY <1>1, <2>4, <2>5, <2>6
  <1>7. QED
    BY <1>2, <1>4, <1>5, <1>6 DEF XmppInv

-----------------------------------------------------------------------------
(* What happens to the rooms and to the session.                              *)

LEMMA MucGoneInv == ASSUME NEW r \in Mucs PROVE XmppInv /\ MucGone(r) => XmppInv'
  <1> SUFFICES ASSUME XmppInv, MucGone(r) PROVE XmppInv'
    OBVIOUS
  <1>1. /\ joinedMucs' = joinedMucs \ {r} /\ moves' \in 0..MaxMoves
        /\ rivals' = IF Busy(r) THEN rivals \cup {r} ELSE rivals
        /\ UNCHANGED <<session, onOnline, onOffline, does, toJoin, told>>
    BY XmppMoves DEF MucGone, XmppInv
  <1>2. XmppTypeOK'
    BY <1>1 DEF XmppInv, XmppTypeOK
  <1>3. ASSUME NEW q \in Mucs \ rivals' PROVE MucInv(q)'
    <2>1. q \in Mucs \ rivals /\ MucInv(q)
      BY <1>1, <1>3 DEF XmppInv
    <2>2. QED
      BY <1>1, <2>1, MucFrame DEF DoesOn
  <1>4. QED
    BY <1>2, <1>3 DEF XmppInv

LEMMA SessionInv == XmppInv /\ (Connected \/ Disconnected) => XmppInv'
  <1> SUFFICES ASSUME XmppInv, Connected \/ Disconnected PROVE XmppInv'
    OBVIOUS
  <1>1. /\ joinedMucs' \subseteq joinedMucs /\ moves' \in 0..MaxMoves
        /\ session' \in BOOLEAN /\ toJoin' \in {toJoin, MucPresence}
        /\ UNCHANGED <<onOnline, onOffline, does, rivals, told>>
    BY XmppMoves DEF Connected, Disconnected, XmppInv, XmppTypeOK
  <1>2. XmppTypeOK'
    BY <1>1 DEF XmppInv, XmppTypeOK
  <1>3. ASSUME NEW q \in Mucs \ rivals' PROVE MucInv(q)'
    <2>1. MucInv(q)
      BY <1>1, <1>3 DEF XmppInv
    <2>2. QED
      BY <1>1, <2>1, MucFrame DEF DoesOn
  <1>4. QED
    BY <1>2, <1>3 DEF XmppInv

\* Whether the arrival is told depends on the handlers of the room: there are
\* some, unless a method is on its way to register or to remove them.
LEMMA UserJoinedChatInv == ASSUME NEW r \in Mucs PROVE XmppInv /\ UserJoinedChat(r) => XmppInv'
  <1> SUFFICES ASSUME XmppInv, UserJoinedChat(r) PROVE XmppInv'
    OBVIOUS
  <1>1. /\ r \in joinedMucs
        /\ told' = [told EXCEPT ![r] = IF onOnline[r] > 0 THEN "told" ELSE "missed"]
        /\ UNCHANGED <<session, joinedMucs, onOnline, onOffline, does, toJoin, rivals, moves>>
    BY DEF UserJoinedChat
  <1>2. XmppTypeOK'
    BY <1>1 DEF XmppInv, XmppTypeOK
  <1>3. told \in [Mucs -> {"nobody", "told", "missed"}] /\ onOnline \in [Mucs -> Nat] /\ onOffline \in [Mucs -> Nat]
    BY DEF XmppInv, XmppTypeOK
  <1>4. ASSUME NEW q \in Mucs \ rivals' PROVE MucInv(q)'
    <2>1. MucInv(q)
      BY <1>1, <1>4 DEF XmppInv
    <2>2. CASE q # r
      <3>1. told'[q] = told[q]
        BY <1>1, <1>3, <2>2
      <3>2. QED
        BY <1>1, <2>1, <3>1, MucFrame DEF DoesOn
    <2>3. CASE q = r
      <3>1. onOnline[r] > 0 => told'[r] # "missed"
        BY <1>1, <1>3
      <3>2. (Even(r) => Even(r)') /\ (Noted(r) => Noted(r)')
        BY <1>1, <3>1 DEF Even, Noted
      <3>3. ASSUME NEW m \in Movers, DoesOn(m, r) PROVE MethodRel(m, r)'
        <4>1. MethodRel(m, r)
          BY <2>1, <2>3, <3>3 DEF MucInv
        <4>2. does[m].at = "offline" => onOnline[r] > 0
          BY <1>3, <4>1 DEF MethodRel
        <4>3. QED
          BY <1>1, <3>1, <3>2, <4>1, <4>2 DEF MethodRel
      <3>4. (Busy(r)' <=> Busy(r)) /\ \A m \in Movers : DoesOn(m, r)' <=> DoesOn(m, r)
        BY <1>1 DEF Busy, DoesOn
      <3>5. QED
        BY <2>1, <2>3, <3>2, <3>3, <3>4 DEF MucInv
    <2>4. QED
      BY <2>2, <2>3
  <1>5. QED
    BY <1>2, <1>4 DEF XmppInv

LEMMA XmppStutterInv == XmppInv /\ UNCHANGED xmppVars => XmppInv'
  <1> SUFFICES ASSUME XmppInv, UNCHANGED xmppVars PROVE XmppInv'
    OBVIOUS
  <1>1. UNCHANGED <<session, joinedMucs, onOnline, onOffline, does, toJoin, rivals, told, moves>>
    BY DEF xmppVars
  <1>2. ASSUME NEW q \in Mucs \ rivals PROVE MucInv(q)'
    BY <1>1, MucFrame DEF DoesOn, XmppInv
  <1>3. XmppTypeOK'
    BY <1>1 DEF XmppInv, XmppTypeOK
  <1>4. QED
    BY <1>1, <1>2, <1>3 DEF XmppInv

THEOREM XmppInvariant == XmppSpec => []XmppInv
  <1>1. XmppInv /\ [XmppNext]_xmppVars => XmppInv'
    BY XmppCommandInv, MucJoinInv, MucLeaveInv, MucGoneInv, JoinMucPresenceInv,
       UserJoinedChatInv, SessionInv, XmppStutterInv DEF XmppNext
  <1>2. QED
    BY XmppInitInv, <1>1, PTL DEF XmppSpec

(* The state of the XMPP backend keeps its types.                             *)
THEOREM XmppTypeCorrect == XmppSpec => []XmppTypeOK
  <1>1. XmppInv => XmppTypeOK
    BY DEF XmppInv
  <1>2. QED
    BY XmppInvariant, <1>1, PTL

(* In a room where no two methods overlapped the plugins hear of everybody    *)
(* who comes in, whatever number of threads, rooms and reconnections.         *)
THEOREM ArrivalsAreToldHolds == XmppSpec => []ArrivalsAreTold
  <1>1. XmppInv => ArrivalsAreTold
    BY DEF XmppInv, MucInv, Even, Noted, ArrivalsAreTold
  <1>2. QED
    BY XmppInvariant, <1>1, PTL

-----------------------------------------------------------------------------
(* The room of the test backend. As long as no two commands overlapped, the   *)
(* step the one running command is at says what its check found, and that     *)
(* still holds when it acts.                                                  *)

TestSteps == {"check", "create", "append", "enter", "remove", "drop", "set"}
Call == [op : TestOps, obj : 0..MaxRoomCmds, at : {"idle"} \cup TestSteps]
Running == {t \in Threads : call[t].at # "idle"}

(* The objects in _rooms and those of the running commands have been made, an *)
(* object still to be made has no occupants, and a command raises once.       *)
TestCounts ==
    /\ canon \in Seq(Objs) /\ bots \in [Objs -> Nat] /\ nobjs \in Nat
    /\ call \in [Threads -> Call]
    /\ given \in 0..MaxRoomCmds /\ errors \in Nat
    /\ meant \in BOOLEAN /\ raced \in BOOLEAN
    /\ nobjs <= given
    /\ \A i \in DOMAIN canon : canon[i] <= nobjs
    /\ \A o \in Objs : o > nobjs => bots[o] = 0
    /\ \A t \in Threads : call[t].at # "idle" => call[t].obj \in 1..nobjs
    /\ IsFiniteSet(Running) /\ errors + Cardinality(Running) <= given

(* One room object at most, and the bot in it once at most.                   *)
OneRoom == Len(canon) <= 1 /\ (BotIsIn => bots[Head(canon)] = 1)

(* What the command of t has found and done so far.                           *)
CommandRel(t) ==
    LET op == call[t].op  at == call[t].at
    IN  /\ op = "create" => at \in {"create", "append"} /\ BotIsIn = meant
        /\ op = "topic" => at = "set" /\ BotIsIn = meant
        /\ op = "join" => at \in {"check", "create", "append", "enter"} /\ meant
        /\ op = "leave" => at \in {"check", "remove"} /\ ~meant
        /\ op = "destroy" => at \in {"check", "drop"} /\ ~meant
        /\ at = "append" \/ (op = "join" /\ at = "create") => ~Exists
        /\ at = "enter" => Exists /\ ~BotIsIn
        /\ at = "remove" => BotIsIn
        /\ at = "drop" => Exists
        /\ ~Exists => bots[call[t].obj] = 0

Unraced ==
    /\ \A t, u \in Running : t = u
    /\ OneRoom
    /\ Running = {} => BotIsIn = meant
    /\ \A t \in Running : CommandRel(t)

TestInv == TestCounts /\ (~raced => Unraced)

LEMMA TestInvTypeOK == TestInv => TestRoomTypeOK
  <1> SUFFICES ASSUME TestInv PROVE TestRoomTypeOK
    OBVIOUS
  <1>1. \A i \in DOMAIN canon : canon[i] \in Objs
    BY ElementOfSeq, LenProperties DEF TestInv, TestCounts
  <1>2. errors \in 0..MaxRoomCmds /\ nobjs \in 0..MaxRoomCmds
    <2>1. Cardinality(Running) \in Nat
      BY FS_CardinalityType DEF TestInv, TestCounts
    <2>2. errors \in Nat /\ nobjs \in Nat /\ given \in 0..MaxRoomCmds /\ nobjs <= given
          /\ errors + Cardinality(Running) <= given
      BY DEF TestInv, TestCounts
    <2>3. QED
      BY <2>1, <2>2, TestRoomAssumption
  <1>3. call \in [Threads -> Call]
    BY DEF TestInv, TestCounts
  <1>4. call \in [Threads -> [op : TestOps, obj : 0..MaxRoomCmds,
                   at : {"idle", "check", "create", "append", "enter", "remove", "drop", "set"}]]
    BY <1>3 DEF Call, TestSteps
  <1>5. QED
    BY <1>1, <1>2, <1>4 DEF TestInv, TestCounts, TestRoomTypeOK

LEMMA TestInitInv == TestRoomInit => TestInv
  <1> SUFFICES ASSUME TestRoomInit PROVE TestInv
    OBVIOUS
  <1>1. canon \in Seq(Objs) /\ canon = << >> /\ DOMAIN canon = {} /\ Len(canon) = 0
    BY EmptySeq DEF TestRoomInit
  <1>2. call \in [Threads -> Call] /\ Running = {}
    BY TestRoomAssumption DEF TestRoomInit, Call, Resting, Running, TestOps
  <1>3. IsFiniteSet(Running) /\ Cardinality(Running) = 0
    BY <1>2, FS_EmptySet
  <1>4. bots \in [Objs -> Nat] /\ \A o \in Objs : bots[o] = 0
    BY DEF TestRoomInit
  <1>5. given \in 0..MaxRoomCmds /\ nobjs \in Nat /\ nobjs <= given
        /\ errors \in Nat /\ errors + Cardinality(Running) <= given
    BY <1>3, TestRoomAssumption DEF TestRoomInit
  <1>6. TestCounts
    BY <1>1, <1>2, <1>3, <1>4, <1>5 DEF TestRoomInit, TestCounts, Running
  <1>7. Unraced
    <2>1. ~BotIsIn /\ meant = FALSE
      BY <1>1 DEF BotIsIn, Exists, TestRoomInit
    <2>2. BotIsIn = meant
      BY <2>1, Zenon DEF BotIsIn
    <2>3. OneRoom
      BY <1>1, <2>1 DEF OneRoom
    <2>4. QED
      BY <1>2, <2>2, <2>3 DEF Unraced
  <1>8. QED
    BY <1>6, <1>7 DEF TestInv

-----------------------------------------------------------------------------
(* A command is given.                                                        *)

LEMMA HeadIsMade ==
    ASSUME TestInv, Exists
    PROVE  Head(canon) \in Objs /\ Head(canon) \in 1..nobjs
  <1>1. canon \in Seq(Objs) /\ canon # << >> /\ \A i \in DOMAIN canon : canon[i] <= nobjs
    BY DEF TestInv, TestCounts, Exists
  <1>2. Head(canon) \in Objs /\ 1 \in DOMAIN canon /\ Head(canon) = canon[1]
    BY <1>1, TailElements
  <1>3. nobjs \in Nat
    BY DEF TestInv, TestCounts
  <1>4. QED
    BY <1>1, <1>2, <1>3 DEF Objs

LEMMA QuerySound ==
    ASSUME TestInv, NEW t \in Threads, NEW op \in TestOps, NEW first \in TestSteps,
           Query(t, op, first)
    PROVE  LET o == IF Exists THEN Head(canon) ELSE nobjs + 1
           IN  /\ call' = [call EXCEPT ![t] = [op |-> op, at |-> first, obj |-> o]]
               /\ Running' = Running \cup {t} /\ t \notin Running
               /\ UNCHANGED <<canon, bots, errors>>
               /\ ~raced' => ~raced /\ Running = {}
               /\ ~Exists => o \in Objs /\ bots[o] = 0
               /\ meant' \in BOOLEAN => TestCounts'
  <1> DEFINE o == IF Exists THEN Head(canon) ELSE nobjs + 1
  <1>1. /\ call[t].at = "idle" /\ given < MaxRoomCmds /\ given' = given + 1
        /\ nobjs' = IF Exists THEN nobjs ELSE nobjs + 1
        /\ call' = [call EXCEPT ![t] = [op |-> op, at |-> first, obj |-> o]]
        /\ raced' = (raced \/ \E other \in Threads : call[other].at # "idle")
        /\ UNCHANGED <<canon, bots, errors>>
    BY DEF Query
  <1>2. TestCounts
    BY DEF TestInv
  <1>3. nobjs \in Nat /\ given \in Nat /\ nobjs <= given /\ MaxRoomCmds \in Nat
    BY <1>2, TestRoomAssumption DEF TestCounts
  <1>4. nobjs' \in Nat /\ nobjs <= nobjs' /\ nobjs' <= given' /\ given' \in 0..MaxRoomCmds
    BY <1>1, <1>3
  <1>5. o \in 1..nobjs' /\ o \in Objs
    <2>1. CASE Exists
      BY <2>1, <1>1, HeadIsMade
    <2>2. CASE ~Exists
      BY <2>2, <1>1, <1>3, <1>4 DEF Objs
    <2>3. QED
      BY <2>1, <2>2
  <1>6. ~Exists => bots[o] = 0
    BY <1>2, <1>3, <1>5 DEF TestCounts
  <1> HIDE DEF o
  <1>7. [op |-> op, at |-> first, obj |-> o] \in Call
    BY <1>5 DEF Call, Objs
  <1>8. call' \in [Threads -> Call]
    BY <1>1, <1>2, <1>7 DEF TestCounts
  <1>9. /\ call'[t] = [op |-> op, at |-> first, obj |-> o]
        /\ \A u \in Threads : u # t => call'[u] = call[u]
    BY <1>1, <1>2 DEF TestCounts
  <1>10. first # "idle"
    BY DEF TestSteps
  <1>11. Running' = Running \cup {t} /\ t \notin Running
    BY <1>1, <1>9, <1>10 DEF Running
  <1>12. ~raced' => ~raced /\ Running = {}
    BY <1>1, <1>2 DEF TestCounts, Running
  <1>13. IsFiniteSet(Running') /\ errors' + Cardinality(Running') <= given'
    <2>1. IsFiniteSet(Running) /\ errors \in Nat /\ errors + Cardinality(Running) <= given
      BY <1>2 DEF TestCounts
    <2>2. IsFiniteSet(Running') /\ Cardinality(Running') = Cardinality(Running) + 1
      BY <1>11, <2>1, FS_AddElement
    <2>3. Cardinality(Running) \in Nat
      BY <2>1, FS_CardinalityType
    <2>4. errors' = errors /\ given' = given + 1
      BY <1>1
    <2>5. QED
      BY <2>1, <2>2, <2>3, <2>4, <1>3
  <1>14. /\ \A i \in DOMAIN canon : canon[i] <= nobjs'
         /\ \A q \in Objs : q > nobjs' => bots[q] = 0
    <2>1. \A i \in DOMAIN canon : canon[i] \in Int /\ canon[i] <= nobjs
      <3>1. \A i \in DOMAIN canon : canon[i] \in Objs
        BY <1>2, ElementOfSeq, LenProperties DEF TestCounts
      <3>2. \A i \in DOMAIN canon : canon[i] <= nobjs
        BY <1>2 DEF TestCounts
      <3>3. QED
        BY <3>1, <3>2 DEF Objs
    <2>2. \A q \in Objs : q \in Int /\ (q > nobjs => bots[q] = 0)
      BY <1>2 DEF TestCounts, Objs
    <2>3. QED
      BY <1>3, <1>4, <2>1, <2>2
  <1>15. \A u \in Threads : call'[u].at # "idle" => call'[u].obj \in 1..nobjs'
    <2>1. \A u \in Threads : call[u].at # "idle" => call[u].obj \in 1..nobjs
      BY <1>2 DEF TestCounts
    <2>2. 1..nobjs \subseteq 1..nobjs'
      BY <1>3, <1>4
    <2>3. QED
      BY <1>5, <1>9, <2>1, <2>2
  <1>16. raced' \in BOOLEAN
    BY <1>1, <1>2 DEF TestCounts
  <1>17. meant' \in BOOLEAN => TestCounts'
    BY <1>1, <1>2, <1>4, <1>8, <1>13, <1>14, <1>15, <1>16 DEF TestCounts
  <1>18. QED
    BY <1>1, <1>5, <1>6, <1>11, <1>12, <1>17 DEF o

LEMMA TestGivenInv ==
    ASSUME NEW t \in Threads
    PROVE  TestInv /\ (RoomCreate(t) \/ RoomJoinCmd(t) \/ RoomLeaveCmd(t)
                         \/ RoomDestroy(t) \/ RoomTopic(t)) => TestInv'
  <1> SUFFICES ASSUME TestInv, RoomCreate(t) \/ RoomJoinCmd(t) \/ RoomLeaveCmd(t)
                                 \/ RoomDestroy(t) \/ RoomTopic(t)
               PROVE  TestInv'
    OBVIOUS
  <1>1. PICK op \in TestOps, first \in TestSteps :
          /\ Query(t, op, first)
          /\ \/ op = "create" /\ first = "create" /\ meant' = meant
             \/ op = "join" /\ first = "check" /\ meant' = TRUE
             \/ op = "leave" /\ first = "check" /\ meant' = FALSE
             \/ op = "destroy" /\ first = "check" /\ meant' = FALSE
             \/ op = "topic" /\ first = "set" /\ meant' = meant
    BY DEF RoomCreate, RoomJoinCmd, RoomLeaveCmd, RoomDestroy, RoomTopic, TestOps, TestSteps
  <1>2. meant' \in BOOLEAN
    BY <1>1 DEF TestInv, TestCounts
  <1>3. PICK o : /\ call' = [call EXCEPT ![t] = [op |-> op, at |-> first, obj |-> o]]
                 /\ Running' = Running \cup {t} /\ t \notin Running
                 /\ UNCHANGED <<canon, bots, errors>>
                 /\ ~raced' => ~raced /\ Running = {}
                 /\ ~Exists => o \in Objs /\ bots[o] = 0
                 /\ TestCounts'
    BY <1>1, <1>2, QuerySound
  <1>4. ASSUME ~raced' PROVE Unraced'
    <2>1. Running = {} /\ OneRoom /\ BotIsIn = meant
      BY <1>3, <1>4 DEF TestInv, Unraced
    <2>2. Running' = {t}
      BY <1>3, <2>1
    <2>3. Exists' = Exists /\ BotIsIn' = BotIsIn /\ OneRoom'
      BY <1>3, <2>1 DEF Exists, BotIsIn, OneRoom
    <2>4. call'[t] = [op |-> op, at |-> first, obj |-> o]
      BY <1>3 DEF TestInv, TestCounts
    <2>5. CommandRel(t)'
      <3>1. call'[t].op = op /\ call'[t].at = first /\ call'[t].obj = o
        BY <2>4
      <3>2. ~Exists' => bots'[o] = 0
        BY <1>3, <2>3
      <3>3. first \in {"create", "check", "set"} /\ (first = "create" => op = "create")
        BY <1>1
      <3>4. op \in {"create", "topic"} => BotIsIn' = meant'
        BY <1>1, <2>1, <2>3
      <3>5. (op = "join" => meant') /\ (op \in {"leave", "destroy"} => ~meant')
        BY <1>1
      <3>6. /\ op = "create" => first = "create"
            /\ op = "topic" => first = "set"
            /\ op \in {"join", "leave", "destroy"} => first = "check"
        BY <1>1
      <3>7. QED
        BY <3>1, <3>2, <3>3, <3>4, <3>5, <3>6 DEF CommandRel
    <2>6. QED
      BY <2>2, <2>3, <2>5 DEF Unraced
  <1>5. QED
    BY <1>3, <1>4 DEF TestInv


-----------------------------------------------------------------------------
(* A step of a command.                                                       *)

\* A step to the next one, or the return of the command with or without an
\* exception, whatever it does to the rooms.
LEMMA StepSound ==
    ASSUME TestInv, NEW t \in Threads, call[t].at # "idle", NEW step \in TestSteps,
           \/ Goto(t, step) /\ errors' = errors
           \/ Return(t) /\ errors' \in {errors, errors + 1},
           canon' \in Seq(Objs), \A i \in DOMAIN canon' : canon'[i] <= nobjs,
           bots' \in [Objs -> Nat], \A o \in Objs : o > nobjs => bots'[o] = 0,
           UNCHANGED <<nobjs, given, meant, raced>>
    PROVE  /\ TestCounts'
           /\ ~raced => CommandRel(t) /\ OneRoom
           /\ Goto(t, step) => call'[t] = [call[t] EXCEPT !.at = step]
           /\ Goto(t, step) => (~raced /\ OneRoom' /\ CommandRel(t)' => Unraced')
           /\ Return(t) => (~raced /\ OneRoom' /\ BotIsIn' = meant => Unraced')
  <1>1. /\ call \in [Threads -> Call] /\ TestCounts
        /\ \A u \in Threads : call[u].at # "idle" => call[u].obj \in 1..nobjs
    BY DEF TestInv, TestCounts
  <1>2. IsFiniteSet(Running) /\ errors \in Nat /\ errors + Cardinality(Running) <= given
        /\ given \in Nat /\ t \in Running
    BY DEF TestInv, TestCounts, Running
  <1>3. Cardinality(Running) \in Nat
    BY <1>2, FS_CardinalityType
  <1>4. ~raced => CommandRel(t) /\ OneRoom /\ Running = {t}
    BY <1>2 DEF TestInv, Unraced
  <1>5. CASE Goto(t, step) /\ errors' = errors
    <2>1. call' \in [Threads -> Call]
      <3>1. [call[t] EXCEPT !.at = step] \in Call
        BY <1>1 DEF Call
      <3>2. call' = [call EXCEPT ![t] = [call[t] EXCEPT !.at = step]]
        BY <1>5, <1>1 DEF Goto
      <3>3. QED
        BY <3>1, <3>2, <1>1
    <2>2. /\ call'[t] = [call[t] EXCEPT !.at = step]
          /\ \A u \in Threads : u # t => call'[u] = call[u]
      BY <1>5, <1>1 DEF Goto
    <2>3. call'[t].at = step /\ call'[t].obj = call[t].obj /\ step # "idle"
      BY <2>2, <1>1 DEF Call, TestSteps
    <2>4. Running' = Running
      BY <2>2, <2>3 DEF Running
    <2>5. \A u \in Threads : call'[u].at # "idle" => call'[u].obj \in 1..nobjs
      BY <2>2, <2>3, <1>1
    <2>6. TestCounts'
      BY <1>1, <1>2, <1>5, <2>1, <2>4, <2>5 DEF TestCounts
    <2>7. ~raced /\ OneRoom' /\ CommandRel(t)' => Unraced'
      BY <1>4, <2>4 DEF Unraced
    <2>8. ~Return(t)
      <3>1. Return(t) => call'[t] = Resting
        BY <1>1 DEF Return
      <3>2. QED
        BY <3>1, <2>3 DEF Resting
    <2>9. QED
      BY <1>4, <2>2, <2>6, <2>7, <2>8
  <1>6. CASE Return(t) /\ errors' \in {errors, errors + 1}
    <2>1. Resting \in Call
      BY TestRoomAssumption DEF Resting, Call, TestOps
    <2>2. call' \in [Threads -> Call]
      BY <1>1, <1>6, <2>1 DEF Return
    <2>3. call'[t] = Resting /\ \A u \in Threads : u # t => call'[u] = call[u]
      BY <1>1, <1>6 DEF Return
    <2>4. Running' = Running \ {t}
      BY <2>3 DEF Running, Resting
    <2>5. IsFiniteSet(Running') /\ Cardinality(Running') = Cardinality(Running) - 1
      BY <1>2, <2>4, FS_RemoveElement
    <2>6. errors' \in Nat /\ errors' + Cardinality(Running') <= given'
      BY <1>2, <1>3, <1>6, <2>5
    <2>7. \A u \in Threads : call'[u].at # "idle" => call'[u].obj \in 1..nobjs
      BY <2>3, <1>1 DEF Resting
    <2>8. TestCounts'
      BY <1>1, <2>2, <2>5, <2>6, <2>7 DEF TestCounts
    <2>9. ~raced /\ OneRoom' /\ BotIsIn' = meant => Unraced'
      BY <1>4, <2>4 DEF Unraced
    <2>10. ~Goto(t, step)
      <3>1. Goto(t, step) => call'[t].at = step
        BY <1>1 DEF Goto, Call
      <3>2. QED
        BY <3>1, <2>3 DEF Resting, TestSteps
    <2>11. QED
      BY <1>4, <2>8, <2>9, <2>10
  <1>7. QED
    BY <1>5, <1>6

\* What a command has found does not tell commands apart by their step only.
LEMMA CommandOf ==
    ASSUME TestInv, NEW t \in Threads, call[t].at # "idle", CommandRel(t)
    PROVE  /\ call[t].op \in TestOps
           /\ call[t].at \in {"create", "append"} => call[t].op \in {"create", "join"}
           /\ call[t].at = "enter" => call[t].op = "join"
           /\ call[t].at = "set" => call[t].op = "topic"
  <1>1. call[t].op \in TestOps
    BY DEF TestInv, TestCounts, Call
  <1>2. QED
    BY <1>1 DEF CommandRel, TestOps

\* A step to the next one that changes no room.
LEMMA LookGoes ==
    ASSUME TestInv, NEW t \in Threads, call[t].at # "idle", NEW step \in TestSteps,
           Goto(t, step), UNCHANGED <<canon, bots, errors, nobjs, given, meant, raced>>,
           ~raced /\ CommandRel(t) /\ call'[t].at = step
                  /\ call'[t].op = call[t].op /\ call'[t].obj = call[t].obj
             => CommandRel(t)'
    PROVE  TestInv'
  <1>1. /\ canon' \in Seq(Objs) /\ \A i \in DOMAIN canon' : canon'[i] <= nobjs
        /\ bots' \in [Objs -> Nat] /\ \A o \in Objs : o > nobjs => bots'[o] = 0
    BY DEF TestInv, TestCounts
  <1>2. /\ TestCounts'
        /\ ~raced => CommandRel(t) /\ OneRoom
        /\ call'[t] = [call[t] EXCEPT !.at = step]
        /\ ~raced /\ OneRoom' /\ CommandRel(t)' => Unraced'
    BY <1>1, StepSound
  <1>3. call'[t].at = step /\ call'[t].op = call[t].op /\ call'[t].obj = call[t].obj
    BY <1>2 DEF TestInv, TestCounts, Call
  <1>4. OneRoom => OneRoom'
    BY DEF OneRoom, BotIsIn, Exists
  <1>5. ASSUME ~raced PROVE Unraced'
    BY <1>2, <1>3, <1>4, <1>5
  <1>6. QED
    BY <1>2, <1>5 DEF TestInv

\* The return of a command that changes no room with it.
LEMMA LookReturns ==
    ASSUME TestInv, NEW t \in Threads, call[t].at # "idle",
           Return(t), errors' \in {errors, errors + 1},
           UNCHANGED <<canon, bots, nobjs, given, meant, raced>>,
           ~raced /\ CommandRel(t) => BotIsIn = meant
    PROVE  TestInv'
  <1>1. /\ canon' \in Seq(Objs) /\ \A i \in DOMAIN canon' : canon'[i] <= nobjs
        /\ bots' \in [Objs -> Nat] /\ \A o \in Objs : o > nobjs => bots'[o] = 0
    BY DEF TestInv, TestCounts
  <1>2. "check" \in TestSteps
    BY DEF TestSteps
  <1>3. /\ TestCounts'
        /\ ~raced => CommandRel(t) /\ OneRoom
        /\ ~raced /\ OneRoom' /\ BotIsIn' = meant => Unraced'
    BY <1>1, <1>2, StepSound
  <1>4. (OneRoom => OneRoom') /\ (BotIsIn' = BotIsIn)
    BY DEF OneRoom, BotIsIn, Exists
  <1>5. ASSUME ~raced PROVE Unraced'
    BY <1>3, <1>4, <1>5
  <1>6. QED
    BY <1>3, <1>5 DEF TestInv

LEMMA TestJoinCheckInv ==
    ASSUME NEW t \in Threads
    PROVE  TestInv /\ TestJoinCheck(t) /\ UNCHANGED <<nobjs, given, meant, raced>> => TestInv'
  <1> SUFFICES ASSUME TestInv, TestJoinCheck(t), UNCHANGED <<nobjs, given, meant, raced>>
               PROVE  TestInv'
    OBVIOUS
  <1>1. /\ call[t].op = "join" /\ call[t].at = "check" /\ UNCHANGED <<canon, bots, errors>>
        /\ IF BotIsIn THEN Return(t) ELSE Goto(t, IF Exists THEN "enter" ELSE "create")
    BY DEF TestJoinCheck
  <1>2. CASE BotIsIn
    <2>1. CommandRel(t) => BotIsIn = meant
      BY <1>1, <1>2 DEF CommandRel, TestInv, TestCounts, BotIsIn
    <2>2. QED
      BY <1>1, <1>2, <2>1, LookReturns
  <1>3. CASE ~BotIsIn
    <2>1. PICK step \in TestSteps : Goto(t, step) /\ step = IF Exists THEN "enter" ELSE "create"
      BY <1>1, <1>3 DEF TestSteps
    <2>2. Exists' = Exists /\ BotIsIn' = BotIsIn
      BY <1>1 DEF Exists, BotIsIn
    <2>3. ASSUME CommandRel(t), call'[t].at = step, call'[t].op = call[t].op, call'[t].obj = call[t].obj
          PROVE  CommandRel(t)'
      BY <1>1, <1>3, <2>1, <2>2, <2>3 DEF CommandRel
    <2>4. QED
      BY <1>1, <2>1, <2>3, LookGoes
  <1>4. QED
    BY <1>2, <1>3

\* The bot goes into or out of the canonical object, once.
LEMMA OccupantsSound ==
    ASSUME TestInv, NEW t \in Threads, call[t].at # "idle", Exists,
           NEW n \in Nat, bots' = [bots EXCEPT ![Head(canon)] = n],
           Return(t), UNCHANGED <<canon, errors, nobjs, given, meant, raced>>,
           ~raced /\ CommandRel(t) /\ OneRoom => n = IF meant THEN 1 ELSE 0
    PROVE  TestInv'
  <1>1. /\ canon \in Seq(Objs) /\ bots \in [Objs -> Nat] /\ nobjs \in Nat /\ meant \in BOOLEAN
        /\ \A i \in DOMAIN canon : canon[i] <= nobjs
        /\ \A o \in Objs : o > nobjs => bots[o] = 0
    BY DEF TestInv, TestCounts
  <1>2. Head(canon) \in Objs /\ Head(canon) \in 1..nobjs
    BY HeadIsMade
  <1>3. bots' \in [Objs -> Nat] /\ \A o \in Objs : o > nobjs => bots'[o] = 0
    BY <1>1, <1>2
  <1>4. "check" \in TestSteps
    BY DEF TestSteps
  <1>5. /\ TestCounts'
        /\ ~raced => CommandRel(t) /\ OneRoom
        /\ ~raced /\ OneRoom' /\ BotIsIn' = meant => Unraced'
    BY <1>1, <1>3, <1>4, StepSound
  <1>6. bots'[Head(canon)] = n
    BY <1>1, <1>2
  <1>7. ASSUME ~raced PROVE Unraced'
    <2>1. n = (IF meant THEN 1 ELSE 0) /\ Len(canon) <= 1
      BY <1>5, <1>7 DEF OneRoom
    <2>2. BotIsIn' <=> meant
      BY <1>6, <2>1 DEF BotIsIn, Exists
    <2>3. BotIsIn' = meant
      BY <1>1, <2>2, Zenon DEF BotIsIn
    <2>4. OneRoom'
      BY <1>6, <2>1, <2>2 DEF OneRoom
    <2>5. QED
      BY <1>5, <1>7, <2>3, <2>4
  <1>8. QED
    BY <1>5, <1>7 DEF TestInv

LEMMA TestJoinEnterInv ==
    ASSUME NEW t \in Threads
    PROVE  TestInv /\ TestJoinEnter(t) /\ UNCHANGED <<nobjs, given, meant, raced>> => TestInv'
  <1> SUFFICES ASSUME TestInv, TestJoinEnter(t), UNCHANGED <<nobjs, given, meant, raced>>
               PROVE  TestInv'
    OBVIOUS
  <1>1. call[t].at = "enter" /\ call[t].at # "idle"
    BY DEF TestJoinEnter
  <1>2. CommandRel(t) => Exists /\ ~BotIsIn /\ meant
    BY <1>1, CommandOf DEF CommandRel
  <1>3. CASE Exists
    <2>1. /\ bots' = [bots EXCEPT ![Head(canon)] = bots[Head(canon)] + 1]
          /\ Return(t) /\ UNCHANGED <<canon, errors>>
      BY <1>3 DEF TestJoinEnter
    <2>2. bots[Head(canon)] \in Nat
      BY <1>3, HeadIsMade DEF TestInv, TestCounts
    <2>3. CommandRel(t) => bots[Head(canon)] + 1 = IF meant THEN 1 ELSE 0
      BY <1>2, <2>2 DEF BotIsIn
    <2>4. bots[Head(canon)] + 1 \in Nat
      BY <2>2
    <2>5. QED
      BY <1>1, <1>3, <2>1, <2>3, <2>4, OccupantsSound
  <1>4. CASE ~Exists
    BY <1>1, <1>2, <1>4, LookReturns DEF TestJoinEnter, Fail
  <1>5. QED
    BY <1>3, <1>4

LEMMA TestLeaveInv ==
    ASSUME NEW t \in Threads
    PROVE  TestInv /\ TestLeave(t) /\ UNCHANGED <<nobjs, given, meant, raced>> => TestInv'
  <1> SUFFICES ASSUME TestInv, TestLeave(t), UNCHANGED <<nobjs, given, meant, raced>>
               PROVE  TestInv'
    OBVIOUS
  <1>1. call[t].op = "leave" /\ call[t].at \in {"check", "remove"}
    BY DEF TestLeave
  <1>2. meant \in BOOLEAN /\ (CommandRel(t) => meant = FALSE)
    BY <1>1 DEF CommandRel, TestInv, TestCounts
  <1>3. CASE call[t].at = "check" /\ BotIsIn
    <2>1. Goto(t, "remove") /\ UNCHANGED <<canon, bots, errors>> /\ "remove" \in TestSteps
      BY <1>3 DEF TestLeave, TestSteps
    <2>2. Exists' = Exists /\ BotIsIn' = BotIsIn
      BY <2>1 DEF Exists, BotIsIn
    <2>3. ASSUME CommandRel(t), call'[t].at = "remove", call'[t].op = call[t].op,
                 call'[t].obj = call[t].obj
          PROVE  CommandRel(t)'
      BY <1>1, <1>3, <2>1, <2>2, <2>3 DEF CommandRel
    <2>4. QED
      BY <1>1, <2>1, <2>3, LookGoes
  <1>4. CASE call[t].at = "check" /\ ~BotIsIn
    <2>1. Return(t) /\ UNCHANGED <<canon, bots, errors>>
      BY <1>4 DEF TestLeave
    <2>2. CommandRel(t) => BotIsIn = meant
      BY <1>2, <1>4, Zenon DEF BotIsIn
    <2>3. QED
      BY <1>1, <2>1, <2>2, LookReturns
  <1>5. CASE call[t].at = "remove" /\ BotIsIn
    <2>1. /\ bots' = [bots EXCEPT ![Head(canon)] = bots[Head(canon)] - 1]
          /\ Return(t) /\ UNCHANGED <<canon, errors>>
      BY <1>5 DEF TestLeave
    <2>2. Exists /\ bots[Head(canon)] \in Nat /\ bots[Head(canon)] > 0
      BY <1>5, HeadIsMade DEF TestInv, TestCounts, BotIsIn
    <2>3. CommandRel(t) /\ OneRoom => bots[Head(canon)] - 1 = IF meant THEN 1 ELSE 0
      BY <1>2, <1>5 DEF OneRoom
    <2>4. bots[Head(canon)] - 1 \in Nat
      BY <2>2
    <2>5. QED
      BY <1>1, <2>1, <2>2, <2>3, <2>4, OccupantsSound
  <1>6. CASE call[t].at = "remove" /\ ~BotIsIn
    <2>1. ~CommandRel(t)
      BY <1>6 DEF CommandRel
    <2>2. Return(t) /\ errors' = errors + 1 /\ UNCHANGED <<canon, bots>>
      BY <1>6 DEF TestLeave, Fail
    <2>3. QED
      BY <1>1, <2>1, <2>2, LookReturns
  <1>7. QED
    BY <1>1, <1>3, <1>4, <1>5, <1>6

LEMMA TestTopicInv ==
    ASSUME NEW t \in Threads
    PROVE  TestInv /\ TestTopic(t) /\ UNCHANGED <<nobjs, given, meant, raced>> => TestInv'
  <1> SUFFICES ASSUME TestInv, TestTopic(t), UNCHANGED <<nobjs, given, meant, raced>>
               PROVE  TestInv'
    OBVIOUS
  <1>1. /\ call[t].at = "set" /\ Return(t) /\ errors' \in {errors, errors + 1}
        /\ UNCHANGED <<canon, bots>>
    BY DEF TestTopic, Fail
  <1>2. CommandRel(t) => BotIsIn = meant
    BY <1>1, CommandOf DEF CommandRel
  <1>3. QED
    BY <1>1, <1>2, LookReturns

-----------------------------------------------------------------------------
(* The room is made and dropped.                                              *)

LEMMA TestDestroyInv ==
    ASSUME NEW t \in Threads
    PROVE  TestInv /\ TestDestroy(t) /\ UNCHANGED <<nobjs, given, meant, raced>> => TestInv'
  <1> SUFFICES ASSUME TestInv, TestDestroy(t), UNCHANGED <<nobjs, given, meant, raced>>
               PROVE  TestInv'
    OBVIOUS
  <1>1. call[t].op = "destroy" /\ call[t].at \in {"check", "drop"}
    BY DEF TestDestroy
  <1>2. meant \in BOOLEAN /\ (CommandRel(t) => meant = FALSE)
    BY <1>1 DEF CommandRel, TestInv, TestCounts
  <1>3. CASE call[t].at = "check" /\ Exists
    <2>1. Goto(t, "drop") /\ UNCHANGED <<canon, bots, errors>> /\ "drop" \in TestSteps
      BY <1>3 DEF TestDestroy, TestSteps
    <2>2. Exists' = Exists /\ BotIsIn' = BotIsIn
      BY <2>1 DEF Exists, BotIsIn
    <2>3. ASSUME CommandRel(t), call'[t].at = "drop", call'[t].op = call[t].op,
                 call'[t].obj = call[t].obj
          PROVE  CommandRel(t)'
      BY <1>1, <1>3, <2>1, <2>2, <2>3 DEF CommandRel
    <2>4. QED
      BY <1>1, <2>1, <2>3, LookGoes
  <1>4. CASE call[t].at = "check" /\ ~Exists
    <2>1. Return(t) /\ UNCHANGED <<canon, bots, errors>>
      BY <1>4 DEF TestDestroy
    <2>2. CommandRel(t) => BotIsIn = meant
      BY <1>2, <1>4, Zenon DEF BotIsIn
    <2>3. QED
      BY <1>1, <2>1, <2>2, LookReturns
  <1>5. CASE call[t].at = "drop" /\ ~Exists
    <2>1. ~CommandRel(t)
      BY <1>5 DEF CommandRel
    <2>2. Return(t) /\ errors' = errors + 1 /\ UNCHANGED <<canon, bots>>
      BY <1>5 DEF TestDestroy, Fail
    <2>3. QED
      BY <1>1, <2>1, <2>2, LookReturns
  <1>6. CASE call[t].at = "drop" /\ Exists
    <2>1. canon' = Tail(canon) /\ Return(t) /\ UNCHANGED <<bots, errors>>
      BY <1>6 DEF TestDestroy
    <2>2. canon \in Seq(Objs) /\ canon # << >> /\ \A i \in DOMAIN canon : canon[i] <= nobjs
      BY <1>6 DEF TestInv, TestCounts, Exists
    <2>3. canon' \in Seq(Objs) /\ \A i \in DOMAIN canon' : canon'[i] <= nobjs
      BY <2>1, <2>2, TailElements
    <2>4. bots' \in [Objs -> Nat] /\ \A o \in Objs : o > nobjs => bots'[o] = 0
      BY <2>1 DEF TestInv, TestCounts
    <2>5. /\ TestCounts'
          /\ ~raced => CommandRel(t) /\ OneRoom
          /\ ~raced /\ OneRoom' /\ BotIsIn' = meant => Unraced'
      <3>1. "check" \in TestSteps
        BY DEF TestSteps
      <3>2. QED
        BY <1>1, <2>1, <2>3, <2>4, <3>1, StepSound
    <2>6. ASSUME ~raced PROVE Unraced'
      <3>1. Len(canon') = 0
        <4>1. Len(canon') = Len(canon) - 1 /\ canon' \in Seq(Objs)
          BY <2>1, <2>2, TailElements
        <4>2. Len(canon) <= 1 /\ Len(canon) \in Nat /\ Len(canon') \in Nat
          BY <2>2, <2>5, <2>6, <4>1, LenProperties DEF OneRoom
        <4>3. QED
          BY <4>1, <4>2
      <3>2. canon' = << >>
        BY <3>1, <2>3, EmptySeq
      <3>3. ~BotIsIn'
        BY <3>2 DEF BotIsIn, Exists
      <3>4. BotIsIn' = meant
        BY <1>2, <2>5, <2>6, <3>3, Zenon DEF BotIsIn
      <3>5. QED
        BY <2>5, <2>6, <3>1, <3>3, <3>4 DEF OneRoom
    <2>7. QED
      BY <2>5, <2>6 DEF TestInv
  <1>7. QED
    BY <1>1, <1>3, <1>4, <1>5, <1>6

LEMMA TestAppendInv ==
    ASSUME TestInv, NEW t \in Threads, call[t].at = "append",
           IF call[t].op = "join" THEN Goto(t, "enter") ELSE Return(t),
           canon' = Append(canon, call[t].obj),
           UNCHANGED <<bots, errors, nobjs, given, meant, raced>>
    PROVE  TestInv'
  <1> DEFINE o == call[t].obj
  <1>1. o \in 1..nobjs /\ nobjs \in Nat /\ nobjs <= given /\ given \in 0..MaxRoomCmds
    BY DEF TestInv, TestCounts
  <1>2. o \in Objs
    BY <1>1, TestRoomAssumption DEF Objs
  <1>3. canon \in Seq(Objs) /\ \A i \in DOMAIN canon : canon[i] <= nobjs
    BY DEF TestInv, TestCounts
  <1>4. canon' \in Seq(Objs) /\ \A i \in DOMAIN canon' : canon'[i] <= nobjs
    <2>1. /\ canon' \in Seq(Objs) /\ DOMAIN canon = 1..Len(canon) /\ Len(canon) \in Nat
          /\ DOMAIN canon' = 1..(Len(canon) + 1)
          /\ \A i \in DOMAIN canon : canon'[i] = canon[i]
          /\ canon'[Len(canon) + 1] = o
      BY <1>2, <1>3, AppendElements, LenProperties
    <2>2. QED
      BY <1>1, <1>3, <2>1
  <1>5. bots' \in [Objs -> Nat] /\ \A q \in Objs : q > nobjs => bots'[q] = 0
    BY DEF TestInv, TestCounts
  <1>6. "enter" \in TestSteps /\ call[t].at # "idle"
    BY DEF TestSteps
  <1>7. /\ TestCounts'
        /\ ~raced => CommandRel(t) /\ OneRoom
        /\ Goto(t, "enter") => call'[t] = [call[t] EXCEPT !.at = "enter"]
        /\ Goto(t, "enter") => (~raced /\ OneRoom' /\ CommandRel(t)' => Unraced')
        /\ Return(t) => (~raced /\ OneRoom' /\ BotIsIn' = meant => Unraced')
    BY <1>4, <1>5, <1>6, StepSound
  <1>8. ASSUME ~raced PROVE Unraced'
    <2>1. CommandRel(t)
      BY <1>7, <1>8
    <2>2. call[t].op \in {"create", "join"} /\ ~Exists /\ bots[o] = 0
      BY <1>6, <2>1, CommandOf DEF CommandRel
    <2>3. canon = << >>
      BY <2>2 DEF Exists
    <2>4. canon' = <<o>>
      BY <2>3
    <2>5. Exists' /\ ~BotIsIn' /\ OneRoom'
      BY <2>2, <2>4 DEF Exists, BotIsIn, OneRoom
    <2>6. CASE call[t].op = "join"
      <3>1. call'[t].at = "enter" /\ call'[t].op = "join"
        BY <1>7, <2>6 DEF TestInv, TestCounts, Call
      <3>2. meant
        BY <2>1, <2>6 DEF CommandRel
      <3>3. CommandRel(t)'
        BY <2>5, <3>1, <3>2 DEF CommandRel
      <3>4. QED
        BY <1>7, <1>8, <2>5, <2>6, <3>3
    <2>7. CASE call[t].op = "create"
      <3>1. Return(t) /\ BotIsIn = meant
        BY <2>1, <2>7 DEF CommandRel
      <3>2. ~BotIsIn
        BY <2>2 DEF BotIsIn
      <3>3. BotIsIn' = meant
        BY <2>5, <3>1, <3>2, Zenon DEF BotIsIn
      <3>4. QED
        BY <1>7, <1>8, <2>5, <3>1, <3>3
    <2>8. QED
      BY <2>2, <2>6, <2>7
  <1>9. QED
    BY <1>7, <1>8 DEF TestInv

LEMMA TestCreateInv ==
    ASSUME NEW t \in Threads
    PROVE  TestInv /\ TestCreate(t) /\ UNCHANGED <<nobjs, given, meant, raced>> => TestInv'
  <1> SUFFICES ASSUME TestInv, TestCreate(t), UNCHANGED <<nobjs, given, meant, raced>>
               PROVE  TestInv'
    OBVIOUS
  <1> DEFINE after == IF call[t].op = "join" THEN Goto(t, "enter") ELSE Return(t)
  <1>1. /\ \/ call[t].at = "create" /\ Exists /\ after /\ UNCHANGED canon
           \/ call[t].at = "create" /\ ~Exists /\ Goto(t, "append") /\ UNCHANGED canon
           \/ call[t].at = "append" /\ after /\ canon' = Append(canon, call[t].obj)
        /\ UNCHANGED <<bots, errors>>
    BY DEF TestCreate
  <1>2. call[t].at # "idle" /\ {"enter", "append"} \subseteq TestSteps
    BY <1>1 DEF TestSteps
  <1>3. CASE call[t].at = "create" /\ Exists /\ after /\ UNCHANGED canon
    <2>1. CommandRel(t) => call[t].op = "create" /\ BotIsIn = meant
      BY <1>2, <1>3, CommandOf DEF CommandRel
    <2>2. CASE call[t].op = "join"
      BY <1>1, <1>2, <1>3, <2>1, <2>2, LookGoes
    <2>3. CASE call[t].op # "join"
      BY <1>1, <1>2, <1>3, <2>1, <2>3, LookReturns
    <2>4. QED
      BY <2>2, <2>3
  <1>4. CASE call[t].at = "create" /\ ~Exists /\ Goto(t, "append") /\ UNCHANGED canon
    <2>1. Exists' = Exists /\ BotIsIn' = BotIsIn
      BY <1>1, <1>4 DEF Exists, BotIsIn
    <2>2. ASSUME CommandRel(t), call'[t].at = "append", call'[t].op = call[t].op,
                 call'[t].obj = call[t].obj
          PROVE  CommandRel(t)'
      <3>1. call[t].op \in {"create", "join"}
        BY <1>2, <1>4, <2>2, CommandOf
      <3>2. QED
        BY <1>1, <1>4, <2>1, <2>2, <3>1 DEF CommandRel
    <2>3. QED
      BY <1>1, <1>2, <1>4, <2>2, LookGoes
  <1>5. CASE call[t].at = "append" /\ after /\ canon' = Append(canon, call[t].obj)
    BY <1>1, <1>5, TestAppendInv
  <1>6. QED
    BY <1>1, <1>3, <1>4, <1>5

LEMMA TestStutterInv == TestInv /\ UNCHANGED testRoomVars => TestInv'
  <1> SUFFICES ASSUME TestInv, UNCHANGED testRoomVars PROVE TestInv'
    OBVIOUS
  <1>1. UNCHANGED <<canon, bots, nobjs, call, given, meant, raced, errors>>
    BY DEF testRoomVars
  <1>2. Running' = Running /\ BotIsIn' = BotIsIn /\ Exists' = Exists
    BY <1>1 DEF Running, BotIsIn, Exists
  <1>3. TestCounts'
    BY <1>1, <1>2 DEF TestInv, TestCounts
  <1>4. OneRoom' = OneRoom /\ \A t \in Threads : CommandRel(t)' = CommandRel(t)
    BY <1>1, <1>2 DEF OneRoom, CommandRel
  <1>5. Unraced => Unraced'
    BY <1>1, <1>2, <1>4 DEF Unraced, Running
  <1>6. QED
    BY <1>1, <1>3, <1>5 DEF TestInv

THEOREM TestRoomInvariant == TestRoomSpec => []TestInv
  <1>1. TestInv /\ [TestRoomNext]_testRoomVars => TestInv'
    BY TestGivenInv, TestJoinCheckInv, TestJoinEnterInv, TestCreateInv, TestLeaveInv,
       TestDestroyInv, TestTopicInv, TestStutterInv DEF TestRoomNext
  <1>2. QED
    BY TestInitInv, <1>1, PTL DEF TestRoomSpec

(* The state of the test backend's room keeps its types, and a command raises *)
(* at most once.                                                              *)
THEOREM TestRoomTypeCorrect == TestRoomSpec => []TestRoomTypeOK
  BY TestRoomInvariant, TestInvTypeOK, PTL

(* Without two commands at a time the bot is in the room exactly when the     *)
(* last join, leave or destroy says so, for any number of commands and of     *)
(* threads, whatever objects of the room's name they were called on.          *)
THEOREM RoomFollowsCommandsHolds == TestRoomSpec => []RoomFollowsCommands
  <1>1. TestInv => RoomFollowsCommands
    BY DEF TestInv, Unraced, OneRoom, Running, RoomFollowsCommands
  <1>2. QED
    BY TestRoomInvariant, <1>1, PTL
=============================================================================
