--------------------------------- MODULE Tee ---------------------------------
(* An incoming stream handed to every active plugin (streaming.Tee.run, core's   *)
(* callback_stream): the transfer thread copies the chunks of the stream into a  *)
(* pipe per client, and a thread per client runs the callback_stream of the      *)
(* plugin on its clone of the stream (backends/base.py, Stream).                 *)
EXTENDS Naturals, FiniteSets

CONSTANTS
    NClients, \* the active plugins
    NChunks,  \* the chunks of the incoming stream
    Room      \* the chunks a pipe holds before a write blocks

ASSUME TeeAssumption == NClients \in Nat /\ NChunks \in Nat /\ Room \in Nat \ {0}

VARIABLES
    source,   \* the incoming stream: open, closed early, or failing in read()
    kindOf,   \* what the callback_stream of each plugin does with the stream
    transfer, \* the transfer thread: its step and the client it is at
    unread,   \* chunks of the incoming stream not read yet
    piped,    \* chunks in each pipe
    reader,   \* each client's thread: in the callback, or where in its clean-up
    ended,    \* the pipes whose write end the transfer closed
    received, \* chunks each client has read
    status    \* the status of each clone

teeVars == <<source, kindOf, transfer, unread, piped, reader, ended, received, status>>

Clients == 1..NClients
Kinds == {"keeps",    \* accepts, reads to the end and returns
          "samples",  \* accepts, reads one chunk and returns
          "crashes",  \* accepts, reads one chunk and raises
          "rejects",  \* rejects and returns, as BotPlugin.callback_stream does
          "ignores"}  \* returns without a word
Statuses == {"pending", "in progress", "success", "error", "rejected"}
Working == {"check", "read", "dispatch", "write", "close", "join"}

TeeTypeOK ==
    /\ source \in {"open", "closed", "broken"}
    /\ kindOf \in [Clients -> Kinds]
    /\ transfer \in [at : Working \cup {"idle", "done", "dead"}, to : 1..NClients + 1]
    /\ unread \in 0..NChunks
    /\ piped \in [Clients -> 0..Room]
    /\ reader \in [Clients -> {"callback", "returned", "vanished", "finished"}]
    /\ ended \subseteq Clients
    /\ received \in [Clients -> 0..NChunks]
    /\ status \in [Clients -> Statuses]

TeeInit ==
    /\ source = "open" /\ kindOf \in [Clients -> Kinds]
    /\ transfer = [at |-> "idle", to |-> 1]
    /\ unread = NChunks
    /\ piped = [c \in Clients |-> 0] /\ ended = {}
    /\ reader = [c \in Clients |-> "callback"]
    /\ received = [c \in Clients |-> 0]
    /\ status = [c \in Clients |-> "pending"]

teeClients == <<reader, received, status>>
Open(c) == reader[c] \in {"callback", "returned"}  \* pipes[c] is not (None, None) yet
On(step, c) == [at |-> step, to |-> c]

-----------------------------------------------------------------------------
(* callback_stream starts the transfer: pipes, clones and threads are made.      *)
StartTransfer ==
    /\ transfer.at = "idle"
    /\ transfer' = On("check", 1)
    /\ UNCHANGED <<source, kindOf, unread, piped, ended, teeClients>>

(* The backend closes the incoming stream before its end, or the other side goes *)
(* away and reading from it raises.                                              *)
SourceFails ==
    /\ source = "open"
    /\ source' \in {"closed", "broken"}
    /\ UNCHANGED <<kindOf, transfer, unread, piped, ended, teeClients>>

(* "if self.incoming_stream.closed: break": taken for the end of the stream.     *)
CheckClosed ==
    /\ transfer.at = "check"
    /\ transfer' = On(IF source = "closed" THEN "close" ELSE "read", 1)
    /\ UNCHANGED <<source, kindOf, unread, piped, ended, teeClients>>

(* The transfer thread reads a chunk, or meets the end of the stream. A read that *)
(* raises (the stream fails, or was closed since the check) ends the thread.     *)
ReadChunk ==
    /\ transfer.at = "read"
    /\ CASE source # "open" -> transfer' = On("dead", 1) /\ UNCHANGED unread
         [] source = "open" /\ unread > 0 ->
              unread' = unread - 1 /\ transfer' = On("dispatch", 1)
         [] OTHER -> transfer' = On("close", 1) /\ UNCHANGED unread
    /\ UNCHANGED <<source, kindOf, piped, ended, teeClients>>

(* "for _, w in pipes: if w": the write end is fetched, then written to.         *)
FetchPipe ==
    /\ transfer.at = "dispatch"
    /\ transfer' = IF transfer.to > NClients THEN On("check", 1)
                   ELSE IF Open(transfer.to) THEN [transfer EXCEPT !.at = "write"]
                   ELSE [transfer EXCEPT !.to = @ + 1]
    /\ UNCHANGED <<source, kindOf, unread, piped, ended, teeClients>>

(* w.write(chunk) waits while the pipe is full. When the client's thread closed  *)
(* the pipe in between, the write raises ValueError or BrokenPipeError, or is    *)
(* still buffered; an exception ends the transfer thread on the spot, with the   *)
(* other pipes left open.                                                        *)
WriteChunk ==
    LET c == transfer.to IN
    /\ transfer.at = "write"
    /\ IF reader[c] = "finished"
       THEN /\ transfer' \in {On("dispatch", c + 1), On("dead", 1)}
            /\ UNCHANGED piped
       ELSE /\ piped[c] < Room
            /\ piped' = [piped EXCEPT ![c] = @ + 1]
            /\ transfer' = On("dispatch", c + 1)
    /\ UNCHANGED <<source, kindOf, unread, ended, teeClients>>

\* Mutant: the pipes are not closed at the end of the stream.
LeavePipe ==
    /\ transfer.at = "close"
    /\ transfer' = IF transfer.to > NClients THEN On("join", 1) ELSE On("close", transfer.to + 1)
    /\ UNCHANGED <<source, kindOf, unread, piped, ended, teeClients>>

(* At the end of the stream each pipe that is left is closed.                    *)
ClosePipe ==
    LET c == transfer.to IN
    /\ transfer.at = "close"
    /\ IF c > NClients
       THEN transfer' = On("join", 1) /\ UNCHANGED ended
       ELSE /\ ended' = IF Open(c) THEN ended \cup {c} ELSE ended
            /\ transfer' = On("close", c + 1)
    /\ UNCHANGED <<source, kindOf, unread, piped, teeClients>>

Join ==
    /\ transfer.at = "join"
    /\ \A c \in Clients : reader[c] = "finished"
    /\ transfer' = On("done", 1)
    /\ UNCHANGED <<source, kindOf, unread, piped, ended, teeClients>>

-----------------------------------------------------------------------------
(* Stream.accept: only a pending stream.                                         *)
Accept(c) ==
    /\ transfer.at # "idle"
    /\ reader[c] = "callback" /\ status[c] = "pending"
    /\ kindOf[c] \in {"keeps", "samples", "crashes"}
    /\ status' = [status EXCEPT ![c] = "in progress"]
    /\ UNCHANGED <<source, kindOf, transfer, unread, piped, ended, reader, received>>

Limit(c) == IF kindOf[c] = "keeps" THEN NChunks ELSE 1

ClientReads(c) ==
    /\ reader[c] = "callback" /\ status[c] = "in progress"
    /\ piped[c] > 0 /\ received[c] < Limit(c)
    /\ piped' = [piped EXCEPT ![c] = @ - 1]
    /\ received' = [received EXCEPT ![c] = @ + 1]
    /\ UNCHANGED <<source, kindOf, transfer, unread, ended, reader, status>>

AtEOF(c) == piped[c] = 0 /\ c \in ended

\* Mutant: an exception of the callback goes unnoticed.
CallbackEndsQuietly(c) ==
    /\ transfer.at # "idle"
    /\ reader[c] = "callback"
    /\ CASE kindOf[c] = "keeps" -> status[c] = "in progress" /\ AtEOF(c)
         [] kindOf[c] \in {"samples", "crashes"} ->
              status[c] = "in progress" /\ (received[c] = 1 \/ AtEOF(c))
         [] OTHER -> TRUE
    /\ status' = [status EXCEPT ![c] = IF @ = "pending" THEN "rejected" ELSE "success"]
    /\ reader' = [reader EXCEPT ![c] = "returned"]
    /\ UNCHANGED <<source, kindOf, transfer, unread, piped, ended, received>>

(* The callback comes back, and streamer() settles the status: a stream nobody   *)
(* answered is rejected, one in progress a success, an exception an error.       *)
CallbackEnds(c) ==
    /\ transfer.at # "idle"
    /\ reader[c] = "callback"
    /\ CASE kindOf[c] = "keeps" -> status[c] = "in progress" /\ AtEOF(c)
         [] kindOf[c] \in {"samples", "crashes"} ->
              status[c] = "in progress" /\ (received[c] = 1 \/ AtEOF(c))
         [] OTHER -> TRUE
    /\ status' = [status EXCEPT ![c] =
           IF kindOf[c] = "crashes" THEN "error"
           ELSE IF @ = "pending" THEN "rejected" ELSE "success"]
    /\ reader' = [reader EXCEPT ![c] = "returned"]
    /\ UNCHANGED <<source, kindOf, transfer, unread, piped, ended, received>>

(* pipes[index] = (None, None), then both ends are closed.                       *)
Vanish(c) ==
    /\ reader[c] = "returned"
    /\ reader' = [reader EXCEPT ![c] = "vanished"]
    /\ UNCHANGED <<source, kindOf, transfer, unread, piped, ended, received, status>>

CloseEnds(c) ==
    /\ reader[c] = "vanished"
    /\ reader' = [reader EXCEPT ![c] = "finished"]
    /\ UNCHANGED <<source, kindOf, transfer, unread, piped, ended, received, status>>

TeeNext ==
    \/ StartTransfer \/ SourceFails
    \/ CheckClosed \/ ReadChunk \/ FetchPipe \/ WriteChunk \/ ClosePipe \/ Join
    \/ \E c \in Clients : Accept(c)
    \/ \E c \in Clients : ClientReads(c)
    \/ \E c \in Clients : CallbackEnds(c)
    \/ \E c \in Clients : Vanish(c)
    \/ \E c \in Clients : CloseEnds(c)

(* Threads run.                                                                  *)
TeeFairness ==
    /\ WF_teeVars(CheckClosed \/ ReadChunk \/ FetchPipe \/ WriteChunk \/ ClosePipe \/ Join)
    /\ \A c \in Clients :
          WF_teeVars(Accept(c) \/ ClientReads(c) \/ CallbackEnds(c) \/ Vanish(c) \/ CloseEnds(c))

TeeSpec == TeeInit /\ [][TeeNext]_teeVars /\ TeeFairness

-----------------------------------------------------------------------------
(* A stream marked as successfully transfered by a client that reads to its end  *)
(* holds every chunk the transfer read, which is the whole stream unless the     *)
(* incoming one was closed early; the stream of a client that crashed, rejected  *)
(* or did not answer is never a success (streaming.py:53-71, 83-96).             *)
SuccessIsWhole ==
    \A c \in Clients : status[c] = "success" =>
        /\ kindOf[c] \in {"keeps", "samples"}
        /\ kindOf[c] = "keeps" =>
              /\ received[c] + unread = NChunks
              /\ unread > 0 => source = "closed"

(* A transfer that started is joined, with every stream settled one way or the    *)
(* other; only a client that leaves before the end of the stream, or an incoming  *)
(* stream that fails, can break it (streaming.py:83-100).                        *)
Settled == \A c \in Clients : status[c] \in {"success", "error", "rejected"}
Leaves(c) == kindOf[c] # "keeps"
EveryStreamSettles ==
    (transfer.at = "check") ~>
        \/ transfer.at = "done" /\ Settled
        \/ transfer.at = "dead" /\ (source # "open" \/ \E c \in Clients : Leaves(c))

(* "If we join on the main thread, everything is either fully transfered or      *)
(* errored" (streaming.py:97-98): once the transfer thread is over, every stream *)
(* gets settled, even if a client left. The code does not keep it.               *)
JoinedStreamsSettle == (transfer.at \in {"done", "dead"} /\ source = "open") ~> Settled
=============================================================================
