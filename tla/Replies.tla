------------------------------- MODULE Replies -------------------------------
(* What the bot says, and to whom: replies to commands, messages of plugins and  *)
(* cards, relays between rooms and people (core_plugins/chatRoom.py) and         *)
(* warnings to the admins (core.py), as the backends build them, split them at   *)
(* the size limit and send them (backends/irc.py, telegram_messenger.py,         *)
(* text.py, test.py, xmpp.py).                                                   *)
(*                                                                               *)
(* Whoever sends does it on its own thread, one part at a time: the parts of two *)
(* senders mix. A text is a sequence of units of the size limit; what rendering  *)
(* adds to it is left out, and so is the sender's address.                       *)
EXTENDS Naturals, Sequences, SequencesExt

CONSTANTS
    Backends,     \* "irc", "telegram", "text", "test" or "xmpp"
    Speakers,     \* the threads that send
    Asker,        \* who writes to the bot, alone or in the room
    RelayedUsers, \* the keys of CHATROOM_RELAY, relayed to the room
    RelayedTo,    \* the users REVERSE_CHATROOM_RELAY names for the room
    Notified,     \* BOT_ADMINS_NOTIFICATIONS, in order
    Malformed,    \* those no identifier of the backend can be built from
    Words,        \* the text that is sent, a sequence of units
    SizeLimit,    \* MESSAGE_SIZE_LIMIT, 0 for None
    DefaultLimit, \* the limit of each backend
    MaxJobs       \* bound on what is sent

ASSUME RepliesAssumption ==
    /\ Backends \subseteq {"irc", "telegram", "text", "test", "xmpp"}
    /\ SizeLimit \in Nat /\ DefaultLimit \in Nat \ {0} /\ MaxJobs \in Nat
    /\ Words \in Seq(ToSet(Words)) /\ Notified \in Seq(ToSet(Notified))
    /\ Asker # "room" \* the room is not a person

VARIABLES
    chat,     \* the backend
    prefixed, \* GROUPCHAT_NICK_PREFIXED
    jobs,     \* what was asked for so far, in order
    todo,     \* the parts each thread has yet to send
    sentParts, \* the parts sent, in order
    cut       \* the jobs of which the backend failed to send a part

replyVars == <<chat, prefixed, jobs, todo, sentParts, cut>>

Person(p) == [kind |-> "person", who |-> p]
Occupant(p) == [kind |-> "occupant", who |-> p]
TheRoom == [kind |-> "room", who |-> "room"]
TheBot == Person("bot")
Incoming == {[frm |-> Person(Asker), to |-> TheBot], [frm |-> Occupant(Asker), to |-> TheRoom]}

IsRoomId(id) == id.kind = "room"
InGroup(m) == IsRoomId(m.to)

(* set_message_size_limit                                                        *)
MessageSizeLimit == IF SizeLimit = 0 THEN DefaultLimit ELSE SizeLimit

RepliesTypeOK ==
    /\ chat \in Backends /\ prefixed \in BOOLEAN
    /\ Len(jobs) <= MaxJobs /\ cut \subseteq 1..Len(jobs)
    /\ \A s \in Speakers : \A i \in DOMAIN todo[s] :
          todo[s][i].job \in 1..Len(jobs) /\ Len(todo[s][i].body) <= MessageSizeLimit
    /\ \A i \in DOMAIN sentParts : sentParts[i].job \in 1..Len(jobs)

RepliesInit ==
    /\ chat \in Backends /\ prefixed \in BOOLEAN
    /\ jobs = <<>> /\ todo = [s \in Speakers |-> <<>>] /\ sentParts = <<>> /\ cut = {}

-----------------------------------------------------------------------------
\* Mutant: an answer asked for in private is said in the room.
TelegramReplyToRoom(m, private) == IF InGroup(m) THEN m.to ELSE m.frm

(* build_reply of each backend: whom a reply goes to. An occupant is sent to in  *)
(* private. The one of the test backend reads the sender of the reply it is      *)
(* building, which is the bot.                                                   *)
IrcReplyTo(m, private) ==
    IF ~InGroup(m) THEN m.frm ELSE IF private THEN Person(m.frm.who) ELSE TheRoom
TelegramReplyTo(m, private) == IF private \/ ~InGroup(m) THEN m.frm ELSE m.to
TextReplyTo(m, private) == IF ~private /\ m.frm.kind = "occupant" THEN TheRoom ELSE m.frm
XmppReplyTo(m, private) == IF InGroup(m) /\ ~private THEN TheRoom ELSE m.frm
TestReplyTo == TheBot

BuildReply(m, private) ==
    CASE chat = "irc" -> IrcReplyTo(m, private)
      [] chat = "telegram" -> TelegramReplyTo(m, private)
      [] chat = "text" -> TextReplyTo(m, private)
      [] chat = "xmpp" -> XmppReplyTo(m, private)
      [] chat = "test" -> TestReplyTo

(* prefix_groupchat_reply: the nick, with a heading on a line of its own, but    *)
(* for the text backend, which does not call the method it overrides.            *)
HeadingApart(body) ==
    IF body # <<>> /\ Head(body) = "heading" THEN <<"newline">> \o body ELSE body
PrefixGroupchatReply(body) == <<"nick">> \o (IF chat = "text" THEN body ELSE HeadingApart(body))

(* split_string_after: an empty text is one empty part.                          *)
SplitStringAfter(body, n) ==
    LET parts == IF body = <<>> THEN 1 ELSE (Len(body) + n - 1) \div n
    IN [i \in 1..parts |->
           SubSeq(body, (i - 1) * n + 1, IF i * n < Len(body) THEN i * n ELSE Len(body))]

(* split_and_send_message, up to the sending.                                    *)
PartsOf(job, id, body) ==
    [i \in DOMAIN SplitStringAfter(body, MessageSizeLimit) |->
        [job |-> job, to |-> id, body |-> SplitStringAfter(body, MessageSizeLimit)[i]]]

NewJob(s, kind, to) ==
    /\ todo[s] = <<>> /\ Len(jobs) < MaxJobs
    /\ jobs' = Append(jobs, [kind |-> kind, to |-> to])
    /\ UNCHANGED <<chat, prefixed, sentParts>>

(* Whom an answer is meant for: who asked for it in private or outside a room,   *)
(* or the room.                                                                  *)
Meant(m, private) == IF private \/ ~InGroup(m) THEN Asker ELSE "room"

(* send_simple_reply                                                             *)
SendSimpleReply(s, m, private) ==
    LET to == BuildReply(m, private)
    IN /\ NewJob(s, "reply", {Meant(m, private)})
       /\ todo' = [todo EXCEPT ![s] =
             PartsOf(Len(jobs'), to,
                     IF IsRoomId(to) /\ prefixed THEN PrefixGroupchatReply(Words) ELSE Words)]
       /\ UNCHANGED cut

(* send, in reply to a message: what plugins call, and the reactions of the text *)
(* backend.                                                                      *)
Send(s, id, m, nickReply) ==
    /\ NewJob(s, "send", {id.who})
    /\ todo' = [todo EXCEPT ![s] =
          PartsOf(Len(jobs'), id,
                  IF IsRoomId(id) /\ (prefixed \/ nickReply)
                  THEN PrefixGroupchatReply(Words) ELSE Words)]
    /\ UNCHANGED cut

(* send_card: to the one it replies to where nobody is named, in private even    *)
(* when that was in a room; the text of its template is sent in reply to nothing. *)
SendCard(s, m) ==
    /\ NewJob(s, "card", {m.frm.who})
    /\ todo' = [todo EXCEPT ![s] = PartsOf(Len(jobs'), m.frm, Words)]
    /\ UNCHANGED cut

(* ChatRoom.callback_message, for a message to the bot: it is relayed to the     *)
(* rooms, but over Telegram, which knows none: query_room raises, and the         *)
(* exception is logged.                                                           *)
Relay(s, m) ==
    /\ ~InGroup(m) /\ m.frm.who \in RelayedUsers
    /\ NewJob(s, "relay", {"room"})
    /\ todo' = IF chat = "telegram" THEN todo
               ELSE [todo EXCEPT ![s] = PartsOf(Len(jobs'), TheRoom, Words)]
    /\ UNCHANGED cut

(* The same for a message in the room: send is given the names of the users, and *)
(* refuses what is not an Identifier. The exception is logged.                   *)
ReverseRelay(s, m) ==
    /\ InGroup(m)
    /\ NewJob(s, "reverse", RelayedTo)
    /\ UNCHANGED <<todo, cut>>

(* build_identifier of Telegram wants a number, that of the text backend a leading *)
(* @ and that of XMPP a node; those of IRC and of the test backend take any name. *)
BuildIdentifierRaises(name) == chat \in {"telegram", "text", "xmpp"} /\ name \in Malformed

(* warn_admins: the exception of build_identifier goes through the loop, and those *)
(* after the name that raises are not warned.                                     *)
WarnAdmins(s) ==
    LET first  == SelectInSeq(Notified, BuildIdentifierRaises)
        warned == IF first = 0 THEN Notified ELSE SubSeq(Notified, 1, first - 1)
    IN /\ NewJob(s, "warn", ToSet(Notified))
       /\ todo' = [todo EXCEPT ![s] =
             FlattenSeq([i \in DOMAIN warned |-> PartsOf(Len(jobs'), Person(warned[i]), Words)])]
       /\ UNCHANGED cut

-----------------------------------------------------------------------------
(* send_message of the backend, for the next part of a thread.                   *)
GoesOut(s) ==
    /\ sentParts' = Append(sentParts, Head(todo[s]))
    /\ todo' = [todo EXCEPT ![s] = Tail(@)]
    /\ UNCHANGED cut
GoesNowhere(s, rest) ==
    /\ cut' = cut \cup {Head(todo[s]).job}
    /\ todo' = [todo EXCEPT ![s] = rest]
    /\ UNCHANGED sentParts
NextPart(s) == todo[s] # <<>> /\ UNCHANGED <<chat, prefixed, jobs>>

(* The console and the queue of the test backend take everything.                *)
LocalSendMessage(s) == NextPart(s) /\ chat \in {"text", "test"} /\ GoesOut(s)

(* Without a connection a part is lost and the next one sent all the same.       *)
IrcSendMessage(s) ==
    NextPart(s) /\ chat = "irc" /\ (GoesOut(s) \/ GoesNowhere(s, Tail(todo[s])))

(* An exception goes through split_and_send_message: the rest is not sent.       *)
TelegramSendMessage(s) ==
    NextPart(s) /\ chat = "telegram" /\ (GoesOut(s) \/ GoesNowhere(s, <<>>))
XmppSendMessage(s) ==
    NextPart(s) /\ chat = "xmpp" /\ (GoesOut(s) \/ GoesNowhere(s, <<>>))

RepliesNext ==
    \/ \E s \in Speakers, m \in Incoming, private \in BOOLEAN : SendSimpleReply(s, m, private)
    \/ \E s \in Speakers, m \in Incoming, nickReply \in BOOLEAN :
          \E id \in {m.frm, m.to} \ {TheBot} : Send(s, id, m, nickReply)
    \/ \E s \in Speakers, m \in Incoming : Relay(s, m)
    \/ \E s \in Speakers, m \in Incoming : ReverseRelay(s, m)
    \/ \E s \in Speakers, m \in Incoming : SendCard(s, m)
    \/ \E s \in Speakers : WarnAdmins(s)
    \/ \E s \in Speakers : LocalSendMessage(s)
    \/ \E s \in Speakers : IrcSendMessage(s)
    \/ \E s \in Speakers : TelegramSendMessage(s)
    \/ \E s \in Speakers : XmppSendMessage(s)

RepliesSpec == RepliesInit /\ [][RepliesNext]_replyVars

-----------------------------------------------------------------------------
Heard(p, j, who) == IF p.job = j /\ p.to.who = who THEN p.body ELSE <<>>
Said(parts, j, who) == FlattenSeq([i \in DOMAIN parts |-> Heard(parts[i], j, who)])
SentTo(j, who) == Said(sentParts, j, who)
Finished(j) == \A s \in Speakers : \A i \in DOMAIN todo[s] : todo[s][i].job # j

(* Whom the code never speaks to: those a room is relayed to, the rooms of        *)
(* Telegram, and the admins from the first name on that no identifier is built   *)
(* from.                                                                         *)
Unreached(job, who) ==
    \/ job.kind = "reverse"
    \/ job.kind = "relay" /\ chat = "telegram"
    \/ /\ job.kind = "warn"
       /\ \E i, k \in DOMAIN Notified :
             i <= k /\ BuildIdentifierRaises(Notified[i]) /\ Notified[k] = who

(* However the parts of several senders mix: what one sender says is read by     *)
(* those it is meant for, by all of them but the unreached and by nobody else    *)
(* (what was asked in private never in the room), in order and within the limit; *)
(* and, unless the backend failed to send a part, it is the whole text, in the   *)
(* room after the nick where that is asked for. The test backend, whose replies  *)
(* go to the bot itself, is left out.                                            *)
RepliesReachWhoAsked ==
    chat # "test" =>
      /\ \A i \in DOMAIN sentParts : /\ sentParts[i].to.who \in jobs[sentParts[i].job].to
                                 /\ Len(sentParts[i].body) <= MessageSizeLimit
      /\ \A j \in DOMAIN jobs : Finished(j) /\ j \notin cut =>
            \A who \in jobs[j].to :
               \/ Unreached(jobs[j], who)
               \/ SentTo(j, who) = Words
               \/ who = "room" /\ SentTo(j, who) \in {<<"nick">> \o Words, <<"nick", "newline">> \o Words}
      /\ \A j \in DOMAIN jobs : Finished(j) /\ j \notin cut /\ prefixed =>
            (jobs[j] = [kind |-> "reply", to |-> {"room"}] => Head(SentTo(j, "room")) = "nick")
=============================================================================
