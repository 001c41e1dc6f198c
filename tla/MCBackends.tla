----------------------------- MODULE MCBackends ------------------------------
(* The backends, what they say, who may have it said, and the repositories, on   *)
(* small instances. They share no state here, so a behaviour is one of one of    *)
(* them, chosen at the start: the state space is the sum of theirs.              *)
EXTENDS IrcRooms, IrcTransfers, XmppRooms, TestRooms, Connection, Replies, Access, Repositories

VARIABLE part  \* the component that moves

-----------------------------------------------------------------------------
(* The commands and the rules of Access: "deploy" is an arg_botcmd of two        *)
(* arguments, every field of a rule is used, and "reloading" is a regex command  *)
(* with the name of the plain command "reload".                                  *)
Decorator(with, restricted, inFlow) ==
    [with |-> with, adminOnly |-> restricted, flowOnly |-> inFlow, hidden |-> "unset",
     prefixed |-> TRUE, argument |-> "x"]
MCDecorations ==
    [c \in Commands |->
        CASE c = "status" -> <<Decorator("botcmd", FALSE, FALSE)>>
          [] c = "deploy" -> <<Decorator("arg_botcmd", TRUE, FALSE),
                               Decorator("arg_botcmd", FALSE, FALSE)>>
          [] c = "reload" -> <<Decorator("botcmd", TRUE, FALSE)>>
          [] c = "yes" -> <<Decorator("botmatch", FALSE, TRUE)>>
          [] OTHER -> <<Decorator("re_botcmd", FALSE, FALSE)>>]
MCNames == [c \in Commands |-> IF c = "reloading" THEN "reload" ELSE c]
MCDefaultRule == [allowmuc |-> TRUE, denyusers |-> {"mallory"}]
MCControls ==
    <<[matches |-> {"deploy"}, rule |-> [allowrooms |-> {"ops"}, allowargs |-> {"prod"}]],
      [matches |-> {"reload", "reloading"}, rule |-> [allowmuc |-> FALSE, denyusers |-> {}]],
      [matches |-> {"deploy", "status"},
       rule |-> [allowprivate |-> FALSE, denyargs |-> {"prod"}, denyrooms |-> {"ops"}]]>>

MCWords == <<"heading", "word">>
MCNotified == <<"gbin", "zoni">>
MCBegins(q, r) == q = r \/ (q = "ab" /\ r = "a")

-----------------------------------------------------------------------------
BackendsInit ==
    /\ part \in {"irc", "dcc", "xmpp", "testrooms", "connection", "replies", "access", "repos"}
    /\ IrcInit /\ DccInit /\ XmppInit /\ TestRoomInit
    /\ ConnectionInit /\ RepliesInit /\ AccessInit /\ RepoInit
    /\ part # "dcc" => \A t \in Transfers : size[t] = 1
    /\ part # "connection" => backend = "text"
    /\ part # "replies" => chat = "text" /\ ~prefixed
    /\ part # "access" => ~hideAccess /\ ~hideCommands /\ ~suppress
    /\ part # "repos" => \A r \in Repos : upstream[r] = "good"

BackendsNext ==
    /\ UNCHANGED part
    /\ \/ /\ part = "irc" /\ IrcNext
          /\ UNCHANGED <<dccVars, xmppVars, testRoomVars, connVars, replyVars, accessVars, repoVars>>
       \/ /\ part = "dcc" /\ DccNext
          /\ UNCHANGED <<ircVars, xmppVars, testRoomVars, connVars, replyVars, accessVars, repoVars>>
       \/ /\ part = "xmpp" /\ XmppNext
          /\ UNCHANGED <<ircVars, dccVars, testRoomVars, connVars, replyVars, accessVars, repoVars>>
       \/ /\ part = "testrooms" /\ TestRoomNext
          /\ UNCHANGED <<ircVars, dccVars, xmppVars, connVars, replyVars, accessVars, repoVars>>
       \/ /\ part = "connection" /\ ConnectionNext
          /\ UNCHANGED <<ircVars, dccVars, xmppVars, testRoomVars, replyVars, accessVars, repoVars>>
       \/ /\ part = "replies" /\ RepliesNext
          /\ UNCHANGED <<ircVars, dccVars, xmppVars, testRoomVars, connVars, accessVars, repoVars>>
       \/ /\ part = "access" /\ AccessNext
          /\ UNCHANGED <<ircVars, dccVars, xmppVars, testRoomVars, connVars, replyVars, repoVars>>
       \/ /\ part = "repos" /\ RepoNext
          /\ UNCHANGED <<ircVars, dccVars, xmppVars, testRoomVars, connVars, replyVars, accessVars>>

backendsVars == <<part, ircVars, dccVars, xmppVars, testRoomVars, connVars, replyVars,
                  accessVars, repoVars>>

(* While another component moves nothing of IRC is enabled: no event, no thread. *)
BackendsSpec == BackendsInit /\ [][BackendsNext]_backendsVars /\ IrcFairness

BackendsTypeOK ==
    /\ IrcTypeOK /\ DccTypeOK /\ XmppTypeOK /\ TestRoomTypeOK
    /\ ConnectionTypeOK /\ RepliesTypeOK /\ AccessTypeOK /\ RepoTypeOK
=============================================================================
