-------------------------- MODULE Dispatch_proofs ---------------------------
(***************************************************************************)
(* Proofs about Dispatch, for every number of users, commands, filters and *)
(* threads: types, the filters and the history; then that an admin command is*)
(* alone in the pool, that the dispatcher with its pool therefore implements*)
(* CommandExclusion, and that a command found by the dispatcher is still there*)
(* when a thread executes it.                                              *)
(***************************************************************************)
EXTENDS Dispatch, SeqLemmas

-----------------------------------------------------------------------------
(* Types, with what the dispatcher knows at each place: whose command it    *)
(* is, and that it was accepted by every filter before it gets on.          *)

DispRec == [pc : DispPc, user : Users \cup {None}, cmd : Commands \cup {None},
            arg : Args \cup {None}, match : BOOLEAN, passed : 0..NFilters,
            left : SUBSET Commands]

Accepted == [cmd : Commands, match : BOOLEAN, passed : {NFilters}, undisturbed : BOOLEAN]

SoundDisp(d) ==
    /\ d \in DispRec
    /\ d.pc \in {"next", "filter", "join", "submit", "wait"} => d.user \in Users /\ d.arg \in Args
    /\ d.pc \in {"filter", "join", "submit", "wait"} => d.cmd \in Commands
    /\ d.pc \in {"join", "submit", "wait"} => d.passed = NFilters

SoundWorker(v) ==
    \/ v = IdleWorker
    \/ v \in [pc : {"lookup", "running"}, task : Accepted]

SoundHistory(h) == h \in Seq(Entries) /\ Len(h) <= MaxHistory /\ Distinct(h)

WorkersSound ==
    /\ DOMAIN worker = Workers /\ worker = [w \in Workers |-> worker[w]]
    /\ \A w \in Workers : SoundWorker(worker[w])

HistorySound ==
    /\ history \in [Users -> Seq(Entries)]
    /\ \A u \in Users : SoundHistory(history[u])

TypeInv ==
    /\ registry \subseteq Commands
    /\ HistorySound
    /\ SoundDisp(disp)
    /\ queue \in Seq(Accepted)
    /\ WorkersSound
    /\ flow \in [FlowThreads -> Commands \cup {None}]

LEMMA TypeInvTypeOK == TypeInv => TypeOK
  <1> SUFFICES ASSUME TypeInv PROVE TypeOK
    OBVIOUS
  <1>1. Accepted \subseteq Tasks
    BY DispatchAssumption DEF Accepted, Tasks
  <1>2. queue \in Seq(Tasks)
    BY <1>1, SeqMonotonic DEF TypeInv
  <1>3. \A w \in Workers : worker[w] \in [pc : {"idle", "lookup", "running"}, task : Tasks \cup {NoTask}]
    BY <1>1 DEF TypeInv, WorkersSound, SoundWorker, IdleWorker
  <1>4. QED
    BY <1>2, <1>3 DEF TypeInv, TypeOK, SoundDisp, DispRec, WorkersSound, HistorySound

\* One thread of the pool goes over to a sound record.
LEMMA OneWorker ==
    ASSUME TypeInv, NEW w \in Workers, NEW v, SoundWorker(v), worker' = [worker EXCEPT ![w] = v]
    PROVE  WorkersSound'
  BY DEF TypeInv, WorkersSound, SoundWorker

LEMMA DoneSound ==
    ASSUME TypeInv, disp.pc \in {"next", "filter", "join", "submit", "wait"}
    PROVE  SoundDisp(Done) /\ Done.pc \in {"ready", "next"}
  <1>1. SoundDisp(Ready)
    BY DispatchAssumption DEF Ready, SoundDisp, DispRec, DispPc
  <1> DEFINE d == [disp EXCEPT !.pc = "next"]
  <1>2. d \in DispRec /\ d.pc = "next" /\ d.user = disp.user /\ d.arg = disp.arg
    BY DEF TypeInv, SoundDisp, DispRec, DispPc
  <1>3. SoundDisp(d)
    BY <1>2 DEF TypeInv, SoundDisp
  <1>4. QED
    BY <1>1, <1>2, <1>3 DEF Done, Ready

-----------------------------------------------------------------------------
(* The history of a user.                                                   *)

\* Taking the entry out leaves a sound history without it.
LEMMA WithoutEntrySound ==
    ASSUME NEW h, SoundHistory(h)
    PROVE  /\ SoundHistory(WithoutEntry(h))
           /\ ~Contains(WithoutEntry(h), Entry)
  <1>1. DOMAIN h = 1..Len(h) /\ Len(h) \in Nat /\ h \in Seq(Entries) /\ Distinct(h)
    BY LenProperties DEF SoundHistory
  <1>2. CASE \E i \in DOMAIN h : h[i] = Entry
    <2> DEFINE k == CHOOSE i \in DOMAIN h : h[i] = Entry
    <2>1. k \in DOMAIN h /\ h[k] = Entry
      BY <1>2
    <2>2. WithoutEntry(h) = RemoveAt(h, k)
      BY <1>2 DEF WithoutEntry
    <2> HIDE DEF k
    <2>3. /\ RemoveAt(h, k) \in Seq(Entries) /\ Len(RemoveAt(h, k)) = Len(h) - 1
          /\ Distinct(RemoveAt(h, k))
          /\ \A i \in DOMAIN RemoveAt(h, k) : RemoveAt(h, k)[i] # h[k]
      <3>1. RemoveAt(h, k) \in Seq(Entries) /\ Len(RemoveAt(h, k)) = Len(h) - 1
        BY <1>1, <2>1, RemoveAtElements
      <3>2. /\ Distinct(RemoveAt(h, k))
            /\ \A i \in DOMAIN RemoveAt(h, k) : RemoveAt(h, k)[i] # h[k]
        BY <1>1, <2>1, RemoveAtDistinct
      <3>3. QED
        BY <3>1, <3>2
    <2> DEFINE r == RemoveAt(h, k)
    <2> HIDE DEF r
    <2>4. r \in Seq(Entries) /\ Len(r) = Len(h) - 1 /\ Distinct(r) /\ WithoutEntry(h) = r
      BY <2>2, <2>3 DEF r
    <2>5. DOMAIN r = 1..Len(r)
      BY <2>4, LenProperties
    <2>6. \A i \in DOMAIN r : r[i] # Entry
      BY <2>1, <2>3 DEF r
    <2>7. SoundHistory(r)
      BY <1>1, <2>4, DispatchAssumption DEF SoundHistory
    <2>8. QED
      BY <2>4, <2>5, <2>6, <2>7 DEF Contains
  <1>3. CASE ~\E i \in DOMAIN h : h[i] = Entry
    BY <1>1, <1>3 DEF WithoutEntry, Contains
  <1>4. QED
    BY <1>2, <1>3

\* Pushing an entry that is not in the history keeps it sound.
LEMMA PushSound ==
    ASSUME NEW h, SoundHistory(h), NEW x \in Entries, ~Contains(h, x)
    PROVE  SoundHistory(Push(h, x))
  <1>1. /\ DOMAIN h = 1..Len(h) /\ Len(h) \in Nat /\ h \in Seq(Entries)
        /\ MaxHistory \in Nat /\ MaxHistory # 0 /\ Len(h) <= MaxHistory
    BY LenProperties, DispatchAssumption DEF SoundHistory
  <1>2. CASE Len(h) < MaxHistory
    <2>1. Append(h, x) \in Seq(Entries) /\ Len(Append(h, x)) = Len(h) + 1
      BY <1>1, AppendElements
    <2>2. Distinct(Append(h, x))
      BY <1>1, AppendDistinct DEF SoundHistory
    <2>3. QED
      BY <1>1, <1>2, <2>1, <2>2 DEF SoundHistory, Push
  <1>3. CASE ~(Len(h) < MaxHistory)
    <2>1. h # << >> /\ Len(h) = MaxHistory
      <3> DEFINE n == Len(h)
      <3>1. n \in Nat /\ n <= MaxHistory /\ ~(n < MaxHistory) /\ MaxHistory \in Nat
        BY <1>1, <1>3
      <3>2. n = MaxHistory
        <4> HIDE DEF n
        <4>1. QED
          BY <3>1
      <3>3. Len(<< >>) = 0
        OBVIOUS
      <3>4. QED
        BY <1>1, <3>2, <3>3
    <2>2. /\ Tail(h) \in Seq(Entries) /\ Len(Tail(h)) = Len(h) - 1
          /\ \A i \in DOMAIN Tail(h) : i + 1 \in DOMAIN h /\ Tail(h)[i] = h[i + 1]
      BY <1>1, <2>1, TailElements
    <2>0. Distinct(Tail(h))
      BY <1>1, <2>1, TailDistinct DEF SoundHistory
    <2>3. ~Contains(Tail(h), x)
      BY <1>1, <2>2, LenProperties DEF Contains
    <2>4. QED
      <3>1. Append(Tail(h), x) \in Seq(Entries) /\ Len(Append(Tail(h), x)) = Len(Tail(h)) + 1
        BY <2>2, AppendElements
      <3>2. Distinct(Append(Tail(h), x))
        BY <2>0, <2>2, <2>3, AppendDistinct
      <3>3. QED
        BY <1>1, <1>3, <2>1, <2>2, <3>1, <3>2 DEF SoundHistory, Push
  <1>4. QED
    BY <1>2, <1>3

\* process_message leaves the history of its user sound.
LEMMA AdmitSound ==
    ASSUME TypeInv, disp.pc = "filter", NEW h, SoundHistory(h)
    PROVE  SoundHistory(Admit(h))
  <1>1. Entry \in Entries
    BY DEF TypeInv, SoundDisp, Entry, Entries
  <1>2. QED
    BY <1>1, WithoutEntrySound, PushSound DEF Admit

-----------------------------------------------------------------------------
\* The records that the backend's thread starts from, or goes on with.
LEMMA ReadySound == SoundDisp(Ready)
  BY DispatchAssumption DEF Ready, SoundDisp, DispRec, DispPc

LEMMA ReceivedSound ==
    ASSUME NEW pc \in {"filter", "next"}, NEW u \in Users, NEW c \in Commands \cup {None},
           NEW a \in Args, NEW left \in SUBSET Commands, pc = "filter" => c \in Commands,
           NEW d, d = [pc |-> pc, user |-> u, cmd |-> c, arg |-> a,
                       match |-> FALSE, passed |-> 0, left |-> left]
    PROVE  SoundDisp(d)
  <1>1. d \in DispRec
    BY DispatchAssumption DEF DispRec, DispPc
  <1>2. QED
    BY <1>1 DEF SoundDisp

LEMMA TypeInvInit == Init => TypeInv
  <1> SUFFICES ASSUME Init PROVE TypeInv
    OBVIOUS
  <1>1. HistorySound
    <2>1. << >> \in Seq(Entries) /\ Len(<< >>) <= MaxHistory /\ Distinct(<< >>)
      BY DispatchAssumption, EmptySeq DEF Distinct
    <2>2. QED
      BY <2>1 DEF Init, HistorySound, SoundHistory
  <1>2. SoundDisp(disp)
    <2>1. disp = [pc |-> "connecting", user |-> None, cmd |-> None, arg |-> None,
                  match |-> FALSE, passed |-> 0, left |-> {}]
      BY DEF Init, Ready
    <2>2. QED
      BY <2>1, DispatchAssumption DEF SoundDisp, DispRec, DispPc
  <1>3. WorkersSound
    BY DEF Init, WorkersSound, SoundWorker
  <1>4. QED
    BY <1>1, <1>2, <1>3 DEF Init, TypeInv

\* The parts that an action leaves alone.
LEMMA SameHistory == TypeInv /\ UNCHANGED history => HistorySound'
  BY DEF TypeInv, HistorySound, SoundHistory

LEMMA SameWorkers == TypeInv /\ UNCHANGED worker => WorkersSound'
  BY DEF TypeInv, WorkersSound, SoundWorker

\* An action of the backend's thread that touches disp only.
LEMMA DispMoves ==
    ASSUME TypeInv, UNCHANGED <<registry, history, queue, worker, flow>>, SoundDisp(disp')
    PROVE  TypeInv'
  BY SameHistory, SameWorkers DEF TypeInv

LEMMA ReceiveType == TypeInv /\ Receive => TypeInv'
  <1> SUFFICES ASSUME TypeInv, Receive PROVE TypeInv'
    OBVIOUS
  <1>1. ASSUME NEW u \in Users, NEW c \in Commands, NEW a \in Args, ReceiveCommand(u, c, a)
        PROVE  SoundDisp(disp')
    <2>1. disp' = [pc |-> "filter", user |-> u, cmd |-> c, arg |-> a,
                   match |-> FALSE, passed |-> 0, left |-> {}]
      BY <1>1 DEF ReceiveCommand, Ready
    <2>2. QED
      BY <2>1, ReceivedSound
  <1>2. ASSUME NEW u \in Users, NEW i \in 1..MaxHistory, Recall(u, i)
        PROVE  SoundDisp(disp')
    <2>1. history[u][i] \in Entries
      BY <1>2, LenProperties, ElementOfSeq DEF Recall, TypeInv, HistorySound
    <2>2. history[u][i][1] \in Commands /\ history[u][i][2] \in Args
      BY <2>1 DEF Entries
    <2>3. disp' = [pc |-> "filter", user |-> u, cmd |-> history[u][i][1],
                   arg |-> history[u][i][2], match |-> FALSE, passed |-> 0, left |-> {}]
      BY <1>2 DEF Recall, Ready
    <2>4. QED
      BY <2>2, <2>3, ReceivedSound
  <1>3. ASSUME NEW u \in Users, NEW a \in Args, ReceiveText(u, a)
        PROVE  SoundDisp(disp')
    <2>1. PICK M \in SUBSET (registry \cap Regex) :
            disp' = [Ready EXCEPT !.pc = "next", !.user = u, !.arg = a, !.left = M]
      BY <1>3 DEF ReceiveText
    <2>2. disp' = [pc |-> "next", user |-> u, cmd |-> None, arg |-> a,
                   match |-> FALSE, passed |-> 0, left |-> M]
      BY <2>1 DEF Ready
    <2>3. M \in SUBSET Commands
      BY DEF TypeInv
    <2>4. QED
      BY <2>2, <2>3, ReceivedSound
  <1>4. QED
    <2>1. UNCHANGED <<registry, history, queue, worker, flow>>
      BY DEF Receive, ReceiveCommand, Recall, ReceiveText
    <2>2. QED
      BY <1>1, <1>2, <1>3, <2>1, DispMoves DEF Receive

\* The record of the backend's thread between two commands.
LEMMA ConnectionSound ==
    ASSUME TypeInv, NEW pc \in {"lost", "disconnecting", "connecting"}
    PROVE  /\ SoundDisp([Ready EXCEPT !.pc = pc])
           /\ SoundDisp([disp EXCEPT !.pc = pc])
  <1>1. ASSUME NEW d \in DispRec
        PROVE  SoundDisp([d EXCEPT !.pc = pc])
    <2>1. [d EXCEPT !.pc = pc] \in DispRec /\ [d EXCEPT !.pc = pc].pc = pc
      BY DEF DispRec, DispPc
    <2>2. QED
      BY <2>1 DEF SoundDisp
  <1>2. disp \in DispRec /\ Ready \in DispRec
    BY ReadySound DEF TypeInv, SoundDisp
  <1>3. QED
    BY <1>1, <1>2

LEMMA ProcessType == TypeInv /\ Process => TypeInv'
  <1> SUFFICES ASSUME TypeInv, Process PROVE TypeInv'
    OBVIOUS
  <1>0. disp \in DispRec /\ SoundDisp(disp) /\ NFilters \in Nat
    BY DispatchAssumption DEF TypeInv, SoundDisp
  <1>1. CASE NextMatch
    <2>1. PICK c \in disp.left :
            disp' = [disp EXCEPT !.pc = "filter", !.cmd = c, !.match = TRUE,
                                 !.passed = 0, !.left = @ \ {c}]
      BY <1>1 DEF NextMatch
    <2>2. c \in Commands /\ disp.user \in Users /\ disp.arg \in Args
      BY <1>0, <1>1 DEF NextMatch, SoundDisp, DispRec
    <2> DEFINE rest == disp.left \ {c}
    <2>3. disp' \in DispRec
      <3>1. rest \in SUBSET Commands /\ 0 \in 0..NFilters
        BY <1>0 DEF DispRec
      <3>2. disp' = [disp EXCEPT !.pc = "filter", !.cmd = c, !.match = TRUE,
                                 !.passed = 0, !.left = rest]
        BY <2>1
      <3> HIDE DEF rest
      <3>3. QED
        BY <1>0, <2>2, <3>1, <3>2 DEF DispRec, DispPc
    <2>4. /\ disp'.pc = "filter" /\ disp'.cmd = c /\ disp'.user = disp.user
          /\ disp'.arg = disp.arg
      BY <1>0, <2>1 DEF DispRec
    <2>5. SoundDisp(disp')
      BY <2>2, <2>3, <2>4 DEF SoundDisp
    <2>6. QED
      BY <1>1, <2>5, DispMoves DEF NextMatch
  <1>2. CASE FilterAccepts
    <2>1. disp' \in DispRec
      BY <1>0, <1>2 DEF FilterAccepts, DispRec
    <2>2. /\ disp'.pc = "filter" /\ disp'.cmd = disp.cmd /\ disp'.user = disp.user
          /\ disp'.arg = disp.arg
      BY <1>0, <1>2 DEF FilterAccepts, DispRec
    <2>3. SoundDisp(disp')
      BY <1>0, <1>2, <2>1, <2>2 DEF FilterAccepts, SoundDisp
    <2>4. QED
      BY <1>2, <2>3, DispMoves DEF FilterAccepts
  <1>3. CASE FilterBlocks
    BY <1>3, DoneSound, DispMoves DEF FilterBlocks
  <1>4. CASE StartCommand
    <2>1. PICK pc \in {"join", "submit"} : disp' = [disp EXCEPT !.pc = pc]
      BY <1>4 DEF StartCommand
    <2>2. disp' \in DispRec
      BY <1>0, <2>1 DEF DispRec, DispPc
    <2>3. /\ disp'.pc = pc /\ disp'.cmd = disp.cmd /\ disp'.user = disp.user
          /\ disp'.arg = disp.arg /\ disp'.passed = disp.passed
      BY <1>0, <2>1 DEF DispRec
    <2>4. SoundDisp(disp')
      BY <1>0, <1>4, <2>1, <2>2, <2>3 DEF StartCommand, SoundDisp
    <2>5. HistorySound'
      <3>1. \A u \in Users : SoundHistory(history[u]) /\ SoundHistory(Admit(history[u]))
        BY <1>4, AdmitSound DEF StartCommand, TypeInv, HistorySound
      <3>2. \A u \in Users : SoundHistory(history'[u])
        BY <1>4, <3>1 DEF StartCommand, TypeInv, HistorySound
      <3>3. Admit(history[disp.user]) \in Seq(Entries)
        BY <1>0, <1>4, <3>1 DEF StartCommand, SoundDisp, SoundHistory
      <3>4. history' \in [Users -> Seq(Entries)]
        BY <1>4, <3>3 DEF StartCommand, TypeInv, HistorySound
      <3>5. QED
        BY <3>2, <3>4 DEF HistorySound
    <2>6. QED
      BY <1>4, <2>4, <2>5, SameWorkers DEF StartCommand, TypeInv
  <1>5. CASE StartUnknown
    <2>1. SoundDisp(disp')
      <3>1. SoundDisp([Ready EXCEPT !.pc = "lost"])
        BY ConnectionSound
      <3>2. QED
        BY <1>5, <3>1, ReadySound DEF StartUnknown
    <2>2. HistorySound'
      <3>1. \A u \in Users : SoundHistory(history[u]) /\ SoundHistory(WithoutEntry(history[u]))
        BY WithoutEntrySound DEF TypeInv, HistorySound
      <3>2. \A u \in Users : SoundHistory(history'[u])
        BY <1>5, <3>1 DEF StartUnknown, TypeInv, HistorySound
      <3>3. WithoutEntry(history[disp.user]) \in Seq(Entries)
        BY <1>0, <1>5, <3>1 DEF StartUnknown, SoundDisp, SoundHistory
      <3>4. history' \in [Users -> Seq(Entries)]
        BY <1>5, <3>3 DEF StartUnknown, TypeInv, HistorySound
      <3>5. QED
        BY <3>2, <3>4 DEF HistorySound
    <2>3. QED
      BY <1>5, <2>1, <2>2, SameWorkers DEF StartUnknown, TypeInv
  <1>6. CASE JoinPool
    <2>1. disp' \in DispRec
      BY <1>0, <1>6 DEF JoinPool, DispRec, DispPc
    <2>2. /\ disp'.pc = "submit" /\ disp'.cmd = disp.cmd /\ disp'.user = disp.user
          /\ disp'.arg = disp.arg /\ disp'.passed = disp.passed
      BY <1>0, <1>6 DEF JoinPool, DispRec
    <2>3. SoundDisp(disp')
      BY <1>0, <1>6, <2>1, <2>2 DEF JoinPool, SoundDisp
    <2>4. QED
      BY <1>6, <2>3, DispMoves DEF JoinPool
  <1>7. CASE ArgsError
    BY <1>7, DoneSound, DispMoves DEF ArgsError
  <1>8. CASE Submit
    <2> DEFINE t == [cmd |-> disp.cmd, match |-> disp.match,
                     passed |-> disp.passed, undisturbed |-> TRUE]
    <2>1. t \in Accepted
      BY <1>0, <1>8 DEF Submit, SoundDisp, DispRec, Accepted
    <2>2. queue' \in Seq(Accepted)
      BY <1>8, <2>1, AppendElements DEF Submit, TypeInv
    <2>3. [disp EXCEPT !.pc = "wait"] \in DispRec
      BY <1>0 DEF DispRec, DispPc
    <2>4. SoundDisp([disp EXCEPT !.pc = "wait"])
      BY <1>0, <1>8, <2>3 DEF Submit, SoundDisp, DispRec
    <2>5. SoundDisp(disp')
      BY <1>8, <2>4, DoneSound DEF Submit
    <2>6. QED
      BY <1>8, <2>2, <2>5, SameHistory, SameWorkers DEF Submit, TypeInv
  <1>9. CASE WaitResult
    BY <1>9, DoneSound, DispMoves DEF WaitResult
  <1>10. QED
    BY <1>1, <1>2, <1>3, <1>4, <1>5, <1>6, <1>7, <1>8, <1>9 DEF Process

LEMMA ConnectionType == TypeInv /\ Connection => TypeInv'
  <1> SUFFICES ASSUME TypeInv, Connection PROVE TypeInv'
    OBVIOUS
  <1>1. CASE LoseConnection \/ Reconnect \/ Connected
    BY <1>1, ConnectionSound, ReadySound, DispMoves DEF LoseConnection, Reconnect, Connected
  <1>2. CASE Disconnect
    <2>1. \A t \in Accepted : Disturbed(t) \in Accepted
      BY DEF Disturbed, Accepted
    <2>2. queue' \in Seq(Accepted)
      <3>1. \A i \in 1..Len(queue) : queue[i] \in Accepted
        BY ElementOfSeq DEF TypeInv
      <3>2. DOMAIN queue = 1..Len(queue) /\ Len(queue) \in Nat
        BY LenProperties DEF TypeInv
      <3>3. queue' = [i \in 1..Len(queue) |-> Disturbed(queue[i])]
        BY <1>2, <3>2 DEF Disconnect
      <3>4. \A i \in 1..Len(queue) : Disturbed(queue[i]) \in Accepted
        BY <2>1, <3>1
      <3>5. queue' \in [1..Len(queue) -> Accepted]
        BY <3>3, <3>4
      <3>6. QED
        BY <3>2, <3>5, SeqDef
    <2>3. WorkersSound'
      <3>1. ASSUME NEW w \in Workers, Running(w)
            PROVE  [worker[w] EXCEPT !.task = Disturbed(@)]
                     \in [pc : {"lookup", "running"}, task : Accepted]
        BY <2>1, <3>1 DEF TypeInv, WorkersSound, SoundWorker, Running, IdleWorker
      <3>2. \A w \in Workers : SoundWorker(worker'[w])
        BY <1>2, <3>1 DEF Disconnect, TypeInv, WorkersSound, SoundWorker
      <3>3. QED
        BY <1>2, <3>2 DEF Disconnect, WorkersSound
    <2>4. SoundDisp(disp')
      BY <1>2, ConnectionSound DEF Disconnect
    <2>5. QED
      BY <1>2, <2>2, <2>3, <2>4, SameHistory DEF Disconnect, TypeInv
  <1>3. ASSUME NEW c \in Commands, Unregister(c) \/ Register(c)
        PROVE  TypeInv'
    <2>1. SoundDisp(disp')
      BY <1>3 DEF Unregister, Register, TypeInv
    <2>2. QED
      BY <1>3, <2>1, SameHistory, SameWorkers DEF Unregister, Register, TypeInv
  <1>4. QED
    BY <1>1, <1>2, <1>3 DEF Connection

LEMMA ExecuteType == \A w \in Workers : TypeInv /\ Execute(w) => TypeInv'
  <1> SUFFICES ASSUME TypeInv, NEW w \in Workers, Execute(w) PROVE TypeInv'
    OBVIOUS
  <1>1. CASE Take(w)
    <2>1. Head(queue) \in Accepted /\ Tail(queue) \in Seq(Accepted)
      BY <1>1, TailElements DEF Take, TypeInv
    <2>2. SoundWorker([pc |-> "lookup", task |-> Head(queue)])
      BY <2>1 DEF SoundWorker
    <2>3. WorkersSound'
      BY <1>1, <2>2, OneWorker DEF Take
    <2>4. QED
      BY <1>1, <2>1, <2>3, SameHistory DEF Take, TypeInv
  <1>2. CASE Lookup(w)
    <2>1. SoundWorker(IdleWorker) /\ SoundWorker([worker[w] EXCEPT !.pc = "running"])
      BY <1>2 DEF Lookup, TypeInv, WorkersSound, SoundWorker, IdleWorker
    <2>2. WorkersSound'
      BY <1>2, <2>1, OneWorker DEF Lookup
    <2>3. QED
      BY <1>2, <2>2, SameHistory DEF Lookup, TypeInv
  <1>3. CASE Finish(w)
    <2>1. WorkersSound'
      BY <1>3, OneWorker DEF Finish, SoundWorker
    <2>2. registry' \subseteq Commands
      BY <1>3 DEF Finish, TypeInv
    <2>3. QED
      BY <1>3, <2>1, <2>2, SameHistory DEF Finish, TypeInv
  <1>4. QED
    BY <1>1, <1>2, <1>3 DEF Execute

LEMMA AutostepType == \A t \in FlowThreads : TypeInv /\ Autostep(t) => TypeInv'
  <1> SUFFICES ASSUME TypeInv, NEW t \in FlowThreads, Autostep(t) PROVE TypeInv'
    OBVIOUS
  <1>1. registry' \subseteq Commands /\ flow' \in [FlowThreads -> Commands \cup {None}]
    BY DEF Autostep, BeginAutostep, EndAutostep, TypeInv
  <1>2. UNCHANGED <<history, disp, queue, worker>>
    BY DEF Autostep, BeginAutostep, EndAutostep
  <1>3. QED
    BY <1>1, <1>2, SameHistory, SameWorkers DEF TypeInv

LEMMA TypeInvStep == TypeInv /\ [Next]_vars => TypeInv'
  <1>1. TypeInv /\ UNCHANGED vars => TypeInv'
    BY SameHistory, SameWorkers DEF vars, TypeInv
  <1>2. QED
    BY <1>1, ReceiveType, ProcessType, ConnectionType, ExecuteType, AutostepType DEF Next

\* The dispatcher is type correct.
THEOREM TypeCorrect == Spec => []TypeOK
  BY TypeInvInit, TypeInvStep, TypeInvTypeOK, PTL DEF Spec

\* What !! and !<n> count stays distinct and within the maxlen of the deque.
THEOREM HistoryDistinctHolds == Spec => []HistoryDistinct
  <1>1. TypeInv => HistoryDistinct
    BY DEF TypeInv, HistorySound, SoundHistory, Distinct, HistoryDistinct
  <1>2. QED
    BY <1>1, TypeInvInit, TypeInvStep, PTL DEF Spec

-----------------------------------------------------------------------------
(* How a step changes the set of tasks that are outstanding.                *)

NewTask == [cmd |-> disp.cmd, match |-> disp.match,
            passed |-> disp.passed, undisturbed |-> TRUE]

\* An outstanding task is in the queue or with a thread.
LEMMA OutstandingIs ==
    \A t : t \in Outstanding <=>
             \/ \E i \in DOMAIN queue : queue[i] = t
             \/ \E w \in Workers : Running(w) /\ worker[w].task = t
  BY DEF Outstanding

LEMMA OutstandingIsNext ==
    \A t : t \in Outstanding' <=>
             \/ \E i \in DOMAIN queue' : queue'[i] = t
             \/ \E w \in Workers : Running(w)' /\ worker'[w].task = t
  BY DEF Outstanding

LEMMA OutstandingSame == UNCHANGED <<queue, worker>> => Outstanding' = Outstanding
  BY DEF Outstanding, Running

LEMMA OutstandingTake ==
    ASSUME TypeInv, NEW w \in Workers, Take(w)
    PROVE  Outstanding' \subseteq Outstanding
  <1>1. queue \in Seq(Accepted) /\ queue # << >>
    BY DEF Take, TypeInv
  <1>2. 1 \in DOMAIN queue /\ Head(queue) = queue[1]
    BY <1>1, TailElements
  <1>3. \A i \in DOMAIN queue' : i + 1 \in DOMAIN queue /\ queue'[i] = queue[i + 1]
    BY <1>1, TailElements DEF Take
  <1>4. \A v \in Workers : Running(v)' /\ v # w => Running(v) /\ worker'[v] = worker[v]
    BY DEF Take, Running, TypeInv, WorkersSound
  <1>5. worker'[w].task = Head(queue)
    BY DEF Take, TypeInv, WorkersSound
  <1>6. QED
    BY <1>2, <1>3, <1>4, <1>5, OutstandingIs, OutstandingIsNext

\* A thread gives its task back, or only goes on with it.
LEMMA OutstandingWork ==
    ASSUME TypeInv, NEW w \in Workers, Lookup(w) \/ Finish(w)
    PROVE  /\ Outstanding' \subseteq Outstanding
           /\ \A v \in Workers : Running(v)' => Running(v)
  <1>1. queue' = queue
    BY DEF Lookup, Finish
  <1>2. Running(w)
    BY DEF Lookup, Finish, Running
  <1>3. Running(w)' => worker'[w].task = worker[w].task
    BY <1>2 DEF Lookup, Finish, Running, TypeInv, WorkersSound, SoundWorker, IdleWorker
  <1>4. \A v \in Workers : v # w => worker'[v] = worker[v]
    BY DEF Lookup, Finish, TypeInv, WorkersSound
  <1>5. \A v \in Workers : Running(v)' => Running(v)
    BY <1>2, <1>4 DEF Running
  <1>6. QED
    BY <1>1, <1>3, <1>4, <1>5, OutstandingIs, OutstandingIsNext

LEMMA OutstandingSubmit ==
    ASSUME TypeInv, Submit
    PROVE  Outstanding' \subseteq Outstanding \cup {NewTask}
  <1>1. NewTask \in Accepted
    BY DEF Submit, TypeInv, SoundDisp, DispRec, Accepted, NewTask
  <1>2. queue' = Append(queue, NewTask) /\ worker' = worker
    BY DEF Submit, NewTask
  <1>3. \A i \in DOMAIN queue' : queue'[i] = NewTask \/ (i \in DOMAIN queue /\ queue'[i] = queue[i])
    BY <1>1, <1>2, AppendElements, LenProperties DEF TypeInv
  <1>4. \A w \in Workers : Running(w)' <=> Running(w)
    BY <1>2 DEF Running
  <1>5. QED
    BY <1>2, <1>3, <1>4, OutstandingIs, OutstandingIsNext

LEMMA OutstandingDisconnect ==
    ASSUME TypeInv, Disconnect
    PROVE  \A t \in Outstanding' : \E u \in Outstanding : t = Disturbed(u)
  <1>1. \A i \in DOMAIN queue' : i \in DOMAIN queue /\ queue'[i] = Disturbed(queue[i])
    BY DEF Disconnect
  <1>2. \A w \in Workers : Running(w)' => Running(w) /\ worker'[w].task = Disturbed(worker[w].task)
    <2> SUFFICES ASSUME NEW w \in Workers, Running(w)'
                 PROVE  Running(w) /\ worker'[w].task = Disturbed(worker[w].task)
      OBVIOUS
    <2>1. Running(w)
      BY DEF Disconnect, Running
    <2>2. worker[w] \in [pc : {"lookup", "running"}, task : Accepted]
      BY <2>1 DEF TypeInv, WorkersSound, SoundWorker, Running, IdleWorker
    <2>3. QED
      BY <2>1, <2>2 DEF Disconnect
  <1>3. QED
    BY <1>1, <1>2, OutstandingIs, OutstandingIsNext

\* What a disturbed task keeps.
LEMMA DisturbedTask ==
    ASSUME TypeInv
    PROVE  \A t \in Outstanding :
             /\ t.cmd \in Commands
             /\ Disturbed(t).cmd = t.cmd /\ ~Disturbed(t).undisturbed
  <1>1. \A i \in DOMAIN queue : queue[i] \in Accepted
    BY LenProperties, ElementOfSeq DEF TypeInv
  <1>2. \A w \in Workers : Running(w) => worker[w].task \in Accepted
    BY DEF TypeInv, WorkersSound, SoundWorker, Running, IdleWorker
  <1>3. \A t \in Outstanding : t \in Accepted
    BY <1>1, <1>2, OutstandingIs
  <1>4. QED
    BY <1>3 DEF Accepted, Disturbed

\* The tasks only change by these.
LEMMA OutstandingStep ==
    ASSUME TypeInv, [Next]_vars
    PROVE  \/ Outstanding' \subseteq Outstanding
           \/ Submit \/ Disconnect
  <1>1. ASSUME NEW w \in Workers, Execute(w)
        PROVE  Outstanding' \subseteq Outstanding
    BY <1>1, OutstandingTake, OutstandingWork DEF Execute
  <1>2. ASSUME NEW t \in FlowThreads, Autostep(t)
        PROVE  Outstanding' \subseteq Outstanding
    BY <1>2, OutstandingSame DEF Autostep, BeginAutostep, EndAutostep
  <1>3. CASE Receive
    BY <1>3, OutstandingSame DEF Receive, ReceiveCommand, Recall, ReceiveText
  <1>4. CASE Process
    BY <1>4, OutstandingSame DEF Process, NextMatch, FilterAccepts, FilterBlocks, StartCommand,
       StartUnknown, JoinPool, ArgsError, WaitResult
  <1>5. CASE Connection
    BY <1>5, OutstandingSame DEF Connection, LoseConnection, Reconnect, Connected, Unregister,
       Register
  <1>6. CASE UNCHANGED vars
    BY <1>6, OutstandingSame DEF vars
  <1>7. QED
    BY <1>1, <1>2, <1>3, <1>4, <1>5, <1>6 DEF Next

-----------------------------------------------------------------------------
(* The exclusion.  An admin command is in progress only while the           *)
(* dispatcher waits for it, and it was submitted to an empty pool.          *)

AdminOut == \E t \in Outstanding : t.cmd \in AdminOnly

PoolIdle == queue = << >> /\ \A w \in Workers : ~Running(w)

\* One task at most, in the queue or with a thread.
Alone ==
    /\ Len(queue) <= 1
    /\ queue # << >> => \A w \in Workers : ~Running(w)
    /\ \A v, w \in Workers : Running(v) /\ Running(w) => v = w

ExclInv ==
    /\ AdminOut => disp.pc = "wait"
    /\ disp.pc = "submit" /\ disp.cmd \in AdminOnly => PoolIdle
    /\ disp.pc = "wait" => Alone

\* The backend's thread, seen from the pool.
LEMMA ExclDisp ==
    ASSUME TypeInv, ExclInv, Receive \/ Process \/ Connection, ~Submit
    PROVE  ExclInv'
  <1>2. CASE Disconnect
    <2>1. disp.pc = "lost" /\ disp'.pc = "disconnecting"
      BY <1>2 DEF Disconnect, TypeInv, SoundDisp, DispRec
    <2>2. ~AdminOut'
      BY <1>2, <2>1, OutstandingDisconnect, DisturbedTask DEF ExclInv, AdminOut
    <2>3. QED
      BY <2>1, <2>2 DEF ExclInv
  <1>3. CASE ~Disconnect
    <2>1. UNCHANGED <<queue, worker>>
      BY <1>3 DEF Receive, ReceiveCommand, Recall, ReceiveText, Process, NextMatch,
         FilterAccepts, FilterBlocks, StartCommand, StartUnknown, JoinPool, ArgsError,
         WaitResult, Connection, LoseConnection, Reconnect, Connected, Unregister, Register
    <2>2. AdminOut' <=> AdminOut
      BY <2>1, OutstandingSame DEF AdminOut
    <2>3. ~AdminOut
      <3>1. disp.pc # "wait" \/ WaitResult
        BY <1>3 DEF Receive, ReceiveCommand, Recall, ReceiveText, Process, NextMatch,
           FilterAccepts, FilterBlocks, StartCommand, StartUnknown, JoinPool, ArgsError,
           Connection, LoseConnection, Reconnect, Connected, Unregister, Register
      <3>2. QED
        BY <3>1 DEF ExclInv, AdminOut, WaitResult
    <2>4. disp'.pc # "wait"
      <3>1. CASE Receive
        BY <3>1 DEF Receive, ReceiveCommand, Recall, ReceiveText, Ready
      <3>2. CASE Process
        <4>1. CASE NextMatch
          BY <4>1 DEF NextMatch, TypeInv, SoundDisp, DispRec
        <4>2. CASE FilterAccepts
          BY <4>2 DEF FilterAccepts, TypeInv, SoundDisp, DispRec
        <4>3. CASE StartCommand
          BY <4>3 DEF StartCommand, TypeInv, SoundDisp, DispRec
        <4>4. CASE StartUnknown
          BY <4>4 DEF StartUnknown, Ready
        <4>5. CASE JoinPool
          BY <4>5 DEF JoinPool, TypeInv, SoundDisp, DispRec
        <4>6. CASE FilterBlocks \/ ArgsError \/ WaitResult
          BY <4>6, DoneSound DEF FilterBlocks, ArgsError, WaitResult
        <4>7. QED
          BY <3>2, <4>1, <4>2, <4>3, <4>4, <4>5, <4>6 DEF Process
      <3>3. CASE Connection
        BY <1>3, <3>3 DEF Connection, LoseConnection, Reconnect, Connected, Unregister, Register,
           Ready, TypeInv, SoundDisp, DispRec
      <3>4. QED
        BY <3>1, <3>2, <3>3
    <2>5. disp'.pc = "submit" /\ disp'.cmd \in AdminOnly => JoinPool
      <3>1. CASE Receive
        BY <3>1 DEF Receive, ReceiveCommand, Recall, ReceiveText, Ready
      <3>2. CASE Process
        <4>1. CASE NextMatch
          BY <4>1 DEF NextMatch, TypeInv, SoundDisp, DispRec
        <4>2. CASE FilterAccepts
          BY <4>2 DEF FilterAccepts, TypeInv, SoundDisp, DispRec
        <4>3. CASE StartCommand
          BY <4>3 DEF StartCommand, TypeInv, SoundDisp, DispRec
        <4>4. CASE StartUnknown
          BY <4>4 DEF StartUnknown, Ready
        <4>5. CASE FilterBlocks \/ ArgsError \/ WaitResult
          BY <4>5, DoneSound DEF FilterBlocks, ArgsError, WaitResult
        <4>6. QED
          BY <3>2, <4>1, <4>2, <4>3, <4>4, <4>5 DEF Process
      <3>3. CASE Connection
        BY <1>3, <3>3 DEF Connection, LoseConnection, Reconnect, Connected, Unregister, Register,
           Ready, TypeInv, SoundDisp, DispRec
      <3>4. QED
        BY <3>1, <3>2, <3>3
    <2>6. JoinPool => PoolIdle'
      BY <2>1 DEF JoinPool, PoolIdle, Running
    <2>7. QED
      BY <2>2, <2>3, <2>4, <2>5, <2>6 DEF ExclInv
  <1>4. QED
    BY <1>2, <1>3

LEMMA ExclSubmit ==
    ASSUME TypeInv, ExclInv, Submit
    PROVE  ExclInv'
  <1>1. disp.pc = "submit" /\ disp \in DispRec
    BY DEF Submit, TypeInv, SoundDisp
  <1>2. ~AdminOut /\ NewTask.cmd = disp.cmd
    BY <1>1 DEF ExclInv, NewTask
  <1>3. CASE disp.cmd \in AdminOnly
    <2>1. PoolIdle
      BY <1>1, <1>3 DEF ExclInv
    <2>2. disp'.pc = "wait"
      BY <1>1, <1>3 DEF Submit, DispRec
    <2>3. Len(queue') = 1 /\ worker' = worker
      BY <2>1 DEF Submit, PoolIdle
    <2>4. Alone'
      BY <2>1, <2>3 DEF Alone, PoolIdle, Running
    <2>5. QED
      BY <2>2, <2>4 DEF ExclInv
  <1>4. CASE disp.cmd \notin AdminOnly
    <2>1. disp' = Done
      BY <1>4 DEF Submit
    <2>2. disp'.pc \in {"ready", "next"}
      BY <1>1, <2>1, DoneSound
    <2>3. ~AdminOut'
      BY <1>2, <1>4, OutstandingSubmit DEF AdminOut
    <2>4. QED
      BY <2>2, <2>3 DEF ExclInv
  <1>5. QED
    BY <1>3, <1>4

LEMMA ExclExecute ==
    ASSUME TypeInv, ExclInv, NEW w \in Workers, Execute(w)
    PROVE  ExclInv'
  <1>1. disp' = disp
    BY DEF Execute, Take, Lookup, Finish
  <1>2. Outstanding' \subseteq Outstanding
    BY OutstandingTake, OutstandingWork DEF Execute
  <1>3. AdminOut' => AdminOut
    BY <1>2 DEF AdminOut
  <1>4. ~PoolIdle
    BY DEF Execute, Take, Lookup, Finish, PoolIdle, Running
  <1>5. Alone => Alone'
    <2>1. CASE Take(w)
      <3> SUFFICES ASSUME Alone PROVE Alone'
        OBVIOUS
      <3>1. queue \in Seq(Accepted) /\ queue # << >>
        BY <2>1 DEF Take, TypeInv
      <3>2. Len(queue') = Len(queue) - 1 /\ queue' \in Seq(Accepted) /\ Len(queue) \in Nat
        BY <2>1, <3>1, TailElements, LenProperties DEF Take
      <3>3. Len(queue') = 0
        BY <3>1, <3>2, EmptySeq DEF Alone
      <3>4. queue' = << >>
        BY <3>2, <3>3, EmptySeq
      <3>5. \A v \in Workers : v # w => ~Running(v)'
        BY <2>1, <3>1 DEF Take, Alone, Running, TypeInv, WorkersSound
      <3>6. QED
        BY <3>3, <3>4, <3>5 DEF Alone
    <2>2. CASE Lookup(w) \/ Finish(w)
      BY <2>2, OutstandingWork DEF Alone, Lookup, Finish
    <2>3. QED
      BY <2>1, <2>2 DEF Execute
  <1>6. QED
    BY <1>1, <1>3, <1>4, <1>5 DEF ExclInv

LEMMA ExclStep == TypeInv /\ ExclInv /\ [Next]_vars => ExclInv'
  <1> SUFFICES ASSUME TypeInv, ExclInv, [Next]_vars PROVE ExclInv'
    OBVIOUS
  <1>1. CASE UNCHANGED <<disp, queue, worker>>
    BY <1>1, OutstandingSame DEF ExclInv, AdminOut, PoolIdle, Alone, Running
  <1>2. ASSUME NEW t \in FlowThreads, Autostep(t)
        PROVE  UNCHANGED <<disp, queue, worker>>
    BY <1>2 DEF Autostep, BeginAutostep, EndAutostep
  <1>3. QED
    BY <1>1, <1>2, ExclDisp, ExclSubmit, ExclExecute DEF Next, vars

LEMMA ExclInit == Init => ExclInv
  BY DEF Init, ExclInv, AdminOut, Outstanding, Running, IdleWorker, Ready

\* While an admin command is in progress, no other command is queued or
\* executed by the pool, with any number of users, threads and commands.
THEOREM AdminExclusiveHolds == Spec => []AdminExclusive
  <1>1. TypeInv /\ ExclInv => AdminExclusive
    <2> SUFFICES ASSUME TypeInv, ExclInv, NEW w \in Workers, Running(w),
                        worker[w].task.cmd \in AdminOnly
                 PROVE  queue = << >> /\ \A v \in Workers \ {w} : ~Running(v)
      BY DEF AdminExclusive
    <2>1. AdminOut
      BY DEF AdminOut, Outstanding
    <2>2. Alone
      BY <2>1 DEF ExclInv
    <2>3. QED
      BY <2>2 DEF Alone
  <1>2. QED
    BY <1>1, TypeInvInit, TypeInvStep, ExclInit, ExclStep, PTL DEF Spec

-----------------------------------------------------------------------------
(* The refinement.  Under the exclusion the pool is idle, shared by ordinary *)
(* commands, or has one admin command and nothing else.                     *)

\* All that is outstanding when the pool has one task is that task.
LEMMA AloneOne ==
    ASSUME TypeInv, Alone
    PROVE  \A t, u \in Outstanding : t = u
  <1>1. queue \in Seq(Accepted) /\ Len(queue) \in Nat /\ DOMAIN queue = 1..Len(queue)
    BY LenProperties DEF TypeInv
  <1>2. \A i, j \in DOMAIN queue : i = j
    BY <1>1 DEF Alone
  <1>3. (\E i \in DOMAIN queue : TRUE) => queue # << >>
    BY <1>1, EmptySeq
  <1>4. QED
    BY <1>2, <1>3, OutstandingIs DEF Alone

ModeShown ==
    \/ Outstanding = {} /\ ~AdminOut /\ Mode = "idle"
    \/ Outstanding # {} /\ ~AdminOut /\ Mode = "shared"
    \/ Outstanding # {} /\ AdminOut /\ Mode = "exclusive"

\* The mode that the state shows.
LEMMA ModeIs == TypeInv /\ ExclInv => ModeShown
  <1> SUFFICES ASSUME TypeInv, ExclInv PROVE ModeShown
    OBVIOUS
  <1>1. AdminOut => Alone
    BY DEF ExclInv
  <1>2. Alone => AdminExclusive
    <2> SUFFICES ASSUME Alone, NEW w \in Workers, Running(w)
                 PROVE  queue = << >> /\ \A v \in Workers \ {w} : ~Running(v)
      BY DEF AdminExclusive
    <2>1. QED
      BY DEF Alone
  <1>3. AdminOut => Outstanding # {}
    BY DEF AdminOut
  <1>4. QED
    BY <1>1, <1>2, <1>3 DEF Mode, AdminOut, Alone, ModeShown

LEMMA ModeStep ==
    ASSUME TypeInv, TypeInv', ExclInv, ExclInv', [Next]_vars
    PROVE  Exclusion!Next \/ Mode' = Mode
  <1>1. \/ Outstanding = {} /\ ~AdminOut /\ Mode = "idle"
        \/ Outstanding # {} /\ ~AdminOut /\ Mode = "shared"
        \/ Outstanding # {} /\ AdminOut /\ Mode = "exclusive"
    BY ModeIs DEF ModeShown
  <1>2. \/ Outstanding' = {} /\ ~AdminOut' /\ Mode' = "idle"
        \/ Outstanding' # {} /\ ~AdminOut' /\ Mode' = "shared"
        \/ Outstanding' # {} /\ AdminOut' /\ Mode' = "exclusive"
    <2>1. ModeShown'
      BY ModeIs, PTL
    <2>2. QED
      BY <2>1 DEF ModeShown
  <1>3. AdminOut /\ Outstanding' # {} => AdminOut'
    <2> SUFFICES ASSUME AdminOut, NEW t \in Outstanding' PROVE AdminOut'
      OBVIOUS
    <2>1. disp.pc = "wait" /\ \A u, v \in Outstanding : u = v
      BY AloneOne DEF ExclInv
    <2>2. ~Submit /\ ~Disconnect
      BY <2>1 DEF Submit, Disconnect
    <2>3. t \in Outstanding
      BY <2>2, OutstandingStep
    <2>4. QED
      BY <2>1, <2>3 DEF AdminOut
  <1>4. ~AdminOut /\ AdminOut' => Outstanding = {}
    <2> SUFFICES ASSUME ~AdminOut, AdminOut' PROVE Outstanding = {}
      OBVIOUS
    <2>1. CASE Outstanding' \subseteq Outstanding
      BY <2>1 DEF AdminOut
    <2>2. CASE Disconnect
      BY <2>2, OutstandingDisconnect, DisturbedTask DEF AdminOut
    <2>3. CASE Submit
      <3>1. NewTask.cmd \in AdminOnly
        BY <2>3, OutstandingSubmit DEF AdminOut
      <3>2. PoolIdle
        BY <2>3, <3>1 DEF NewTask, Submit, ExclInv
      <3>3. DOMAIN queue = {}
        BY <3>2, LenProperties DEF PoolIdle, TypeInv
      <3>4. QED
        BY <3>2, <3>3, OutstandingIs DEF PoolIdle
    <2>4. QED
      BY <2>1, <2>2, <2>3, OutstandingStep
  <1>5. QED
    BY <1>1, <1>2, <1>3, <1>4 DEF Exclusion!Next, Exclusion!BeginShared, Exclusion!EndShared,
       Exclusion!BeginExclusive, Exclusion!EndExclusive

\* The dispatcher and its pool keep the promise made to the admin commands.
THEOREM ImplementsExclusionHolds == Spec => ImplementsExclusion
  <1>1. Init => Exclusion!Init
    <2> SUFFICES ASSUME Init PROVE Mode = "idle"
      BY DEF Exclusion!Init
    <2>1. Outstanding = {}
      BY DEF Init, Outstanding, Running, IdleWorker
    <2>2. QED
      BY <2>1 DEF Mode
  <1>2. TypeInv /\ TypeInv' /\ ExclInv /\ ExclInv' /\ [Next]_vars => [Exclusion!Next]_Mode
    BY ModeStep
  <1>3. QED
    BY <1>1, <1>2, TypeInvInit, TypeInvStep, ExclInit, ExclStep, PTL
       DEF Spec, ImplementsExclusion, Exclusion!Spec

-----------------------------------------------------------------------------
(* No stale look-up.  The registry shrinks only under an admin command,     *)
(* which is alone, and while the bot is disconnected, which the tasks that  *)
(* are left remember.                                                       *)

StaleInv ==
    /\ NoStaleLookup
    /\ disp.pc \in {"join", "submit"} => disp.cmd \in registry
    /\ disp.pc \in {"disconnecting", "connecting"} => \A t \in Outstanding : ~t.undisturbed
    /\ \A f \in FlowThreads : flow[f] \in AutoCommands \cup {None}

\* The actions of the backend's thread.
LEMMA StaleDisp ==
    ASSUME TypeInv, StaleInv, Receive \/ Process \/ Connection
    PROVE  StaleInv'
  <1>0. flow' = flow
    BY DEF Receive, ReceiveCommand, Recall, ReceiveText, Process, NextMatch,
       FilterAccepts, FilterBlocks, StartCommand, StartUnknown, JoinPool, ArgsError, Submit,
       WaitResult, Connection, LoseConnection, Disconnect, Reconnect, Connected, Unregister, Register
  <1>1. ASSUME UNCHANGED <<registry, queue, worker>>,
               disp'.pc \in {"join", "submit"} => disp'.cmd \in registry,
               disp'.pc \notin {"disconnecting", "connecting"}
        PROVE  StaleInv'
    BY <1>0, <1>1, OutstandingSame DEF StaleInv, NoStaleLookup
  <1>2. CASE Receive
    BY <1>1, <1>2 DEF Receive, ReceiveCommand, Recall, ReceiveText, Ready
  <1>3. CASE Process
    <2>1. CASE NextMatch
      <3>1. disp'.pc = "filter"
        BY <2>1 DEF NextMatch, TypeInv, SoundDisp, DispRec
      <3>2. QED
        BY <1>1, <2>1, <3>1 DEF NextMatch
    <2>2. CASE FilterAccepts
      <3>1. disp'.pc = "filter"
        BY <2>2 DEF FilterAccepts, TypeInv, SoundDisp, DispRec
      <3>2. QED
        BY <1>1, <2>2, <3>1 DEF FilterAccepts
    <2>3. CASE StartCommand
      <3>1. disp'.cmd = disp.cmd /\ disp'.pc \in {"join", "submit"}
        BY <2>3 DEF StartCommand, TypeInv, SoundDisp, DispRec
      <3>2. QED
        BY <1>1, <2>3, <3>1 DEF StartCommand, Found
    <2>4. CASE StartUnknown
      BY <1>1, <2>4 DEF StartUnknown, Ready
    <2>5. CASE JoinPool
      <3>1. disp'.cmd = disp.cmd /\ disp'.pc = "submit" /\ disp.pc = "join"
        BY <2>5 DEF JoinPool, TypeInv, SoundDisp, DispRec
      <3>2. QED
        BY <1>1, <2>5, <3>1 DEF JoinPool, StaleInv
    <2>6. CASE FilterBlocks \/ ArgsError \/ WaitResult
      <3>1. disp'.pc \in {"ready", "next"}
        BY <2>6, DoneSound DEF FilterBlocks, ArgsError, WaitResult
      <3>2. QED
        BY <1>1, <2>6, <3>1 DEF FilterBlocks, ArgsError, WaitResult
    <2>7. CASE Submit
      <3>1. disp'.pc \in {"ready", "next", "wait"}
        BY <2>7, DoneSound DEF Submit, TypeInv, SoundDisp, DispRec
      <3>2. NewTask.cmd \in registry
        BY <2>7 DEF NewTask, Submit, StaleInv
      <3>3. NoStaleLookup'
        BY <2>7, <3>2, OutstandingSubmit DEF StaleInv, NoStaleLookup, Submit
      <3>4. QED
        BY <1>0, <3>1, <3>3 DEF StaleInv
    <2>8. QED
      BY <1>3, <2>1, <2>2, <2>3, <2>4, <2>5, <2>6, <2>7 DEF Process
  <1>4. CASE Connection
    <2>1. CASE LoseConnection \/ Connected
      BY <1>1, <2>1 DEF LoseConnection, Connected, Ready
    <2>2. CASE Disconnect
      <3>1. disp'.pc = "disconnecting" /\ \A t \in Outstanding' : ~t.undisturbed
        BY <2>2, OutstandingDisconnect, DisturbedTask DEF Disconnect, TypeInv, SoundDisp, DispRec
      <3>2. QED
        BY <1>0, <3>1 DEF StaleInv, NoStaleLookup
    <2>3. CASE Reconnect
      <3>1. disp.pc = "disconnecting" /\ disp'.pc = "connecting" /\ UNCHANGED <<registry, queue, worker>>
        BY <2>3 DEF Reconnect, TypeInv, SoundDisp, DispRec
      <3>2. QED
        BY <1>0, <3>1, OutstandingSame DEF StaleInv, NoStaleLookup
    <2>4. ASSUME NEW c \in Commands, Unregister(c) \/ Register(c)
          PROVE  StaleInv'
      <3>1. disp.pc \in {"disconnecting", "connecting"} /\ disp' = disp /\ UNCHANGED <<queue, worker>>
        BY <2>4 DEF Unregister, Register
      <3>2. QED
        BY <1>0, <3>1, OutstandingSame DEF StaleInv, NoStaleLookup
    <2>5. QED
      BY <1>4, <2>1, <2>2, <2>3, <2>4 DEF Connection
  <1>5. QED
    BY <1>2, <1>3, <1>4

\* A thread of the pool: the registry changes only when an admin command ends,
\* and then nothing is outstanding.
LEMMA StaleExecute ==
    ASSUME TypeInv, ExclInv, StaleInv, NEW w \in Workers, Execute(w)
    PROVE  StaleInv'
  <1>1. Outstanding' \subseteq Outstanding /\ UNCHANGED <<disp, flow>>
    BY OutstandingTake, OutstandingWork DEF Execute, Take, Lookup, Finish
  <1>2. CASE UNCHANGED registry
    BY <1>1, <1>2 DEF StaleInv, NoStaleLookup
  <1>3. CASE Finish(w) /\ worker[w].task.cmd \in AdminOnly
    <2>1. Running(w) /\ AdminOut
      BY <1>3 DEF Finish, Running, AdminOut, Outstanding
    <2>2. disp.pc = "wait" /\ Alone
      BY <2>1 DEF ExclInv
    <2>3. queue' = << >> /\ \A v \in Workers : ~Running(v)'
      BY <1>3, <2>1, <2>2 DEF Finish, Alone, Running, IdleWorker, TypeInv, WorkersSound
    <2>4. Outstanding' = {}
      BY <2>3 DEF Outstanding
    <2>5. QED
      BY <1>1, <2>2, <2>4 DEF StaleInv, NoStaleLookup
  <1>4. QED
    BY <1>2, <1>3 DEF Execute, Take, Lookup, Finish

LEMMA StaleAutostep ==
    ASSUME TypeInv, StaleInv, AutoCommands \cap AdminOnly = {},
           NEW f \in FlowThreads, Autostep(f)
    PROVE  StaleInv'
  <1>1. UNCHANGED <<registry, disp, queue, worker>>
    BY DEF Autostep, BeginAutostep, EndAutostep, StaleInv
  <1>2. \A g \in FlowThreads : flow'[g] \in AutoCommands \cup {None}
    BY DEF Autostep, BeginAutostep, EndAutostep, StaleInv, TypeInv
  <1>3. QED
    BY <1>1, <1>2, OutstandingSame DEF StaleInv, NoStaleLookup

\* A command that the dispatcher found is still registered when its thread
\* looks it up, unless the bot was disconnected in between, provided that no
\* flow runs an admin command as an automatic step.
THEOREM NoStaleLookupHolds ==
    ASSUME AutoCommands \cap AdminOnly = {}
    PROVE  Spec => []NoStaleLookup
  <1>1. Init => StaleInv
    BY DEF Init, StaleInv, NoStaleLookup, Outstanding, Running, IdleWorker, Ready
  <1>2. TypeInv /\ ExclInv /\ StaleInv /\ [Next]_vars => StaleInv'
    <2> SUFFICES ASSUME TypeInv, ExclInv, StaleInv, [Next]_vars PROVE StaleInv'
      OBVIOUS
    <2>1. CASE UNCHANGED vars
      BY <2>1, OutstandingSame DEF vars, StaleInv, NoStaleLookup
    <2>2. QED
      BY <2>1, StaleDisp, StaleExecute, StaleAutostep DEF Next
  <1>3. StaleInv => NoStaleLookup
    BY DEF StaleInv
  <1>4. QED
    BY <1>1, <1>2, <1>3, TypeInvInit, TypeInvStep, ExclInit, ExclStep, PTL DEF Spec
=============================================================================
