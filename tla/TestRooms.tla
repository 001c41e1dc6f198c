------------------------------ MODULE TestRooms ------------------------------
(* One room of the test backend (backends/test.py) and the commands of the       *)
(* ChatRoom plugin on it. Commands run on the threads of the command pool and    *)
(* the methods of the room check before they act, with no lock: each check and   *)
(* each act is a step. Rooms of different names share nothing.                   *)
(*                                                                               *)
(* TestRoom objects of the same name are equal; the canonical one is the first   *)
(* in _rooms.                                                                    *)
EXTENDS Naturals, Sequences, SequencesExt

CONSTANTS
    Threads,    \* the threads of the command pool
    MaxRoomCmds \* bound on the commands given

ASSUME TestRoomAssumption == MaxRoomCmds \in Nat

VARIABLES
    canon,     \* the objects of the name in _rooms, in order
    bots,      \* how often the bot is in the _occupants of each object
    nobjs,     \* objects made so far
    call,      \* each thread: its command, its next step, its object
    given,     \* commands given
    meant,     \* whether the bot is in the room if commands act at once
    raced,     \* a command ran beside another
    errors     \* commands that raised

testRoomVars == <<canon, bots, nobjs, call, given, meant, raced, errors>>

TestOps == {"create", "join", "leave", "destroy", "topic"}
Objs == 1..MaxRoomCmds
Resting == [op |-> "join", at |-> "idle", obj |-> 0]

TestRoomTypeOK ==
    /\ \A i \in DOMAIN canon : canon[i] \in Objs
    /\ bots \in [Objs -> Nat] /\ nobjs \in 0..MaxRoomCmds
    /\ call \in [Threads -> [op : TestOps, obj : 0..MaxRoomCmds,
                   at : {"idle", "check", "create", "append", "enter", "remove", "drop", "set"}]]
    /\ given \in 0..MaxRoomCmds /\ errors \in 0..MaxRoomCmds
    /\ meant \in BOOLEAN /\ raced \in BOOLEAN

TestRoomInit ==
    /\ canon = <<>> /\ bots = [o \in Objs |-> 0] /\ nobjs = 0
    /\ call = [t \in Threads |-> Resting]
    /\ given = 0 /\ meant = FALSE /\ raced = FALSE /\ errors = 0

Exists == canon # <<>>                       \* find_croom() is not None
BotIsIn == Exists /\ bots[Head(canon)] > 0   \* joined

-----------------------------------------------------------------------------
(* query_room: the canonical object, or a new one with no occupants.             *)
Query(t, op, first) ==
    /\ call[t].at = "idle" /\ given < MaxRoomCmds /\ given' = given + 1
    /\ nobjs' = IF Exists THEN nobjs ELSE nobjs + 1
    /\ call' = [call EXCEPT ![t] = [op |-> op, at |-> first,
                                    obj |-> IF Exists THEN Head(canon) ELSE nobjs']]
    /\ raced' = (raced \/ \E other \in Threads : call[other].at # "idle")
    /\ UNCHANGED <<canon, bots, errors>>

RoomCreate(t) == Query(t, "create", "create") /\ UNCHANGED meant
RoomJoinCmd(t) == Query(t, "join", "check") /\ meant' = TRUE
RoomLeaveCmd(t) == Query(t, "leave", "check") /\ meant' = FALSE
RoomDestroy(t) == Query(t, "destroy", "check") /\ meant' = FALSE
RoomTopic(t) == Query(t, "topic", "set") /\ UNCHANGED meant

Goto(t, step) == call' = [call EXCEPT ![t].at = step]
Return(t) == call' = [call EXCEPT ![t] = Resting]

(* The command raises and the bot answers with the traceback.                    *)
Fail(t) == Return(t) /\ errors' = errors + 1 /\ UNCHANGED <<canon, bots>>

-----------------------------------------------------------------------------
\* Mutant: join does not look whether the bot is in the room.
TestJoinUnchecked(t) ==
    /\ call[t].op = "join" /\ call[t].at = "check"
    /\ Goto(t, IF Exists THEN "enter" ELSE "create")
    /\ UNCHANGED <<canon, bots, errors>>

(* join: nothing when joined, else create first when there is no room.           *)
TestJoinCheck(t) ==
    /\ call[t].op = "join" /\ call[t].at = "check"
    /\ IF BotIsIn THEN Return(t) ELSE Goto(t, IF Exists THEN "enter" ELSE "create")
    /\ UNCHANGED <<canon, bots, errors>>

(* The bot enters the canonical room; there may be none any more.                *)
TestJoinEnter(t) ==
    /\ call[t].at = "enter"
    /\ IF Exists
       THEN /\ bots' = [bots EXCEPT ![Head(canon)] = @ + 1]
            /\ Return(t) /\ UNCHANGED <<canon, errors>>
       ELSE Fail(t)

(* create checks by itself, then appends the object it is called on.             *)
TestCreate(t) ==
    /\ call[t].at \in {"create", "append"}
    /\ LET after == IF call[t].op = "join" THEN Goto(t, "enter") ELSE Return(t)
       IN \/ call[t].at = "create" /\ Exists /\ after /\ UNCHANGED canon
          \/ call[t].at = "create" /\ ~Exists /\ Goto(t, "append") /\ UNCHANGED canon
          \/ call[t].at = "append" /\ after /\ canon' = Append(canon, call[t].obj)
    /\ UNCHANGED <<bots, errors>>

TestLeave(t) ==
    /\ call[t].op = "leave"
    /\ \/ /\ call[t].at = "check"
          /\ IF BotIsIn THEN Goto(t, "remove") ELSE Return(t)
          /\ UNCHANGED <<canon, bots, errors>>
       \/ /\ call[t].at = "remove" /\ BotIsIn
          /\ bots' = [bots EXCEPT ![Head(canon)] = @ - 1]
          /\ Return(t) /\ UNCHANGED <<canon, errors>>
       \/ call[t].at = "remove" /\ ~BotIsIn /\ Fail(t)

TestDestroy(t) ==
    /\ call[t].op = "destroy"
    /\ \/ /\ call[t].at = "check"
          /\ IF Exists THEN Goto(t, "drop") ELSE Return(t)
          /\ UNCHANGED <<canon, bots, errors>>
       \/ /\ call[t].at = "drop" /\ Exists
          /\ canon' = Tail(canon)
          /\ Return(t) /\ UNCHANGED <<bots, errors>>
       \/ call[t].at = "drop" /\ ~Exists /\ Fail(t)

(* The setter writes to the canonical room: a room that was never created has    *)
(* none.                                                                         *)
TestTopic(t) ==
    /\ call[t].at = "set"
    /\ IF Exists THEN Return(t) /\ UNCHANGED <<canon, bots, errors>> ELSE Fail(t)

TestRoomNext ==
    \/ \E t \in Threads : RoomCreate(t) \/ RoomJoinCmd(t) \/ RoomLeaveCmd(t)
                          \/ RoomDestroy(t) \/ RoomTopic(t)
    \/ /\ \E t \in Threads : TestJoinCheck(t) \/ TestJoinEnter(t) \/ TestCreate(t)
                             \/ TestLeave(t) \/ TestDestroy(t) \/ TestTopic(t)
       /\ UNCHANGED <<nobjs, given, meant, raced>>

TestRoomSpec == TestRoomInit /\ [][TestRoomNext]_testRoomVars

-----------------------------------------------------------------------------
(* As long as no two commands overlapped, the bot is in the room when the last   *)
(* join, leave or destroy says so, once and in one room object, whatever objects *)
(* the commands were called on.                                                  *)
RoomFollowsCommands ==
    ~raced /\ (\A t \in Threads : call[t].at = "idle") =>
        /\ BotIsIn = meant
        /\ Len(canon) <= 1 /\ (BotIsIn => bots[Head(canon)] = 1)
=============================================================================
