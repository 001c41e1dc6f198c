---------------------------- MODULE IrcTransfers -----------------------------
(* Sending a file over DCC (backends/irc.py): the request, the chunks, each sent *)
(* once the one before is acknowledged, and the end. The peer acknowledges all   *)
(* it has received so far, as DCC has it; the peer and the irc library are       *)
(* external. Sizes are in units, Chunk of them to a chunk of 4096 bytes.         *)
EXTENDS Naturals, Sequences

CONSTANTS
    Transfers, \* the transfers requested
    Chunk,     \* the size of a chunk
    MaxSize    \* bound on the size of a file

ASSUME TransferAssumption == Chunk \in Nat \ {0} /\ MaxSize \in Nat

VARIABLES
    dcc,        \* the connection of each transfer
    registered, \* the keys of self.transfers
    size,       \* the size given with the request
    sent,       \* what was really sent
    transfered, \* Stream._transfered
    streamIs,   \* the status of the stream
    acks,       \* acknowledgements on their way
    dccReactor  \* the reactor thread: an exception of a handler ends it

dccVars == <<dcc, registered, size, sent, transfered, streamIs, acks, dccReactor>>

DccTypeOK ==
    /\ dcc \in [Transfers -> {"new", "listening", "connected", "closed"}]
    /\ registered \subseteq Transfers
    /\ size \in [Transfers -> 1..MaxSize]
    /\ sent \in [Transfers -> 0..MaxSize] /\ transfered \in [Transfers -> 0..Chunk]
    /\ \A t \in Transfers : sent[t] <= size[t]
    /\ streamIs \in [Transfers -> {"pending", "in progress"}]
    /\ \A t \in Transfers : \A i \in DOMAIN acks[t] : acks[t][i] \in 1..MaxSize
    /\ dccReactor \in {"alive", "dead"}

DccInit ==
    /\ dcc = [t \in Transfers |-> "new"] /\ registered = {}
    /\ size \in [Transfers -> 1..MaxSize]
    /\ sent = [t \in Transfers |-> 0] /\ transfered = [t \in Transfers |-> 0]
    /\ streamIs = [t \in Transfers |-> "pending"]
    /\ acks = [t \in Transfers |-> <<>>] /\ dccReactor = "alive"

(* send_stream_request                                                           *)
RequestTransfer(t) ==
    /\ dcc[t] = "new"
    /\ dcc' = [dcc EXCEPT ![t] = "listening"]
    /\ registered' = registered \cup {t}
    /\ UNCHANGED <<size, sent, transfered, streamIs, acks, dccReactor>>

(* send_chunk. ack_data stores the length of this chunk as what is transfered.   *)
SendChunk(t, queue) ==
    LET left == size[t] - sent[t]
        data == IF left < Chunk THEN left ELSE Chunk
    IN /\ sent' = [sent EXCEPT ![t] = @ + data]
       /\ transfered' = [transfered EXCEPT ![t] = data]
       /\ acks' = [acks EXCEPT ![t] = IF data = 0 THEN queue ELSE Append(queue, sent'[t])]

(* on_dcc_connect                                                                *)
OnDccConnect(t) ==
    /\ dccReactor = "alive" /\ dcc[t] = "listening" /\ t \in registered
    /\ dcc' = [dcc EXCEPT ![t] = "connected"]
    /\ streamIs' = [streamIs EXCEPT ![t] = "in progress"]
    /\ SendChunk(t, <<>>)
    /\ UNCHANGED <<registered, size, dccReactor>>

(* on_dcc_disconnect: the peer went away.                                        *)
OnDccDisconnect(t) ==
    /\ dccReactor = "alive" /\ dcc[t] = "connected"
    /\ dcc' = [dcc EXCEPT ![t] = "closed"]
    /\ registered' = registered \ {t}
    /\ dccReactor' = IF t \in registered THEN "alive" ELSE "dead"
    /\ acks' = [acks EXCEPT ![t] = <<>>]
    /\ UNCHANGED <<size, sent, transfered, streamIs>>

(* on_dccmsg: all is acknowledged, the last chunk is, or neither. In the first   *)
(* case disconnect() runs on_dcc_disconnect, which takes the transfer out, and   *)
(* then it is taken out again: a KeyError.                                       *)
OnDccMsg(t) ==
    /\ dccReactor = "alive" /\ dcc[t] = "connected" /\ acks[t] # <<>>
    /\ LET acked == Head(acks[t])
       IN CASE acked = size[t] ->
                 /\ dcc' = [dcc EXCEPT ![t] = "closed"]
                 /\ registered' = registered \ {t} /\ dccReactor' = "dead"
                 /\ acks' = [acks EXCEPT ![t] = <<>>]
                 /\ UNCHANGED <<sent, transfered>>
            [] acked # size[t] /\ acked = transfered[t] ->
                 /\ SendChunk(t, Tail(acks[t]))
                 /\ UNCHANGED <<dcc, registered, dccReactor>>
            [] OTHER ->
                 /\ acks' = [acks EXCEPT ![t] = Tail(@)]
                 /\ UNCHANGED <<dcc, registered, dccReactor, sent, transfered>>
    /\ UNCHANGED <<size, streamIs>>

DccNext ==
    \/ \E t \in Transfers : RequestTransfer(t)
    \/ \E t \in Transfers : OnDccConnect(t)
    \/ \E t \in Transfers : OnDccDisconnect(t)
    \/ \E t \in Transfers : OnDccMsg(t)

DccSpec == DccInit /\ [][DccNext]_dccVars

-----------------------------------------------------------------------------
(* Stream.transfered is "The currently transfered size": what was sent.          *)
TransferedIsWhatWasSent == \A t \in Transfers : transfered[t] = sent[t]
=============================================================================
