----------------------------- MODULE ChatServer -----------------------------
(***************************************************************************)
(* Server/src/Server/ServerManager.cpp: the accept handlers, the readers   *)
(* of the client sockets and the handlers they call, run by a pool of io   *)
(* threads.  Every handler is a process: one reader at a time works on a   *)
(* socket and one accept handler on an acceptor, because each re-arms      *)
(* itself when it is done; there are io threads enough for all of them.    *)
(*                                                                         *)
(* Each critical section is one action, and so is each call between two of *)
(* them.  Only SendHistory keeps a mutex (history_mutex_) from one call to *)
(* the next.  A client is its pair of sockets.  A FileTransferQueue is     *)
(* what TransferLedger says of it: files sent one at a time, in order;     *)
(* and its worker waits on cv_ until the first of them.                    *)
(***************************************************************************)
EXTENDS Naturals, Sequences, FiniteSets

CONSTANTS
  Clients,
  Sockets,              \* the sockets they have: <<"text", c>> and <<"file", c>>
  Slow,                 \* clients that may stop reading from their file socket
  Present,              \* the clients that are in the chatroom from the start
  MAX_HISTORY_MESSAGES,
  MaxTexts,             \* bound on text messages received
  MaxFiles,             \* bound on files received
  MaxRequests,          \* bound on requests for the history
  MaxLeaves,            \* bound on departures
  Stops,                \* whether StopServer may be called
  MaxCalls              \* bound on all of these together

ASSUME ConstantsAssumption ==
  /\ Sockets \subseteq {"text", "file"} \X Clients
  /\ IsFiniteSet(Clients) /\ Present \subseteq Clients /\ Slow \subseteq Clients
  /\ MAX_HISTORY_MESSAGES \in Nat \ {0}
  /\ MaxTexts \in Nat
  /\ MaxFiles \in Nat
  /\ MaxRequests \in Nat
  /\ MaxLeaves \in Nat
  /\ Stops \in BOOLEAN
  /\ MaxCalls \in Nat

VARIABLES
  server,               \* where StopServer is, and the queue it joins
  conn,                 \* each client's two connections
  text_port_clients_,
  file_port_clients_,
  file_queues_,         \* the queue of each client's file socket, 0 for none
  queues,               \* every FileTransferQueue built so far
  message_history_,
  h,                    \* the handlers: where each is, and its local variables
  asked,                \* clients whose history request was received
  left,                 \* sockets whose reader has seen an error or the end
  log,                  \* history: everything ever pushed to message_history_
  found,                \* history: clients whose file socket SendHistory found
  from,                 \* history: where in log the replay to each client began
  joined,               \* history: what log held when each file socket was listed
  early,                \* history: texts in hand when each text socket was listed
  texts,                \* history: what was sent to each client's text socket
  handed,               \* history: files given to a queue of each client
  files                 \* history: files written to each client's file socket

chatVars == <<text_port_clients_, file_port_clients_>>
queueVars == <<file_queues_, queues, handed, files>>
historyVars == <<message_history_, log, found, from>>
serverVars == <<server, conn, joined, early>>
vars == <<serverVars, chatVars, queueVars, historyVars, h, asked, left, texts>>

Acceptor == <<"accept">>
Reader(kind, c) == <<kind, c>>
Handlers == {Acceptor} \cup {Reader(kind, c) : kind \in {"text", "file"}, c \in Clients}

\* A text message, the log entry of a file, or the file; by whom and which.
Text(c, n)    == [kind |-> "text", by |-> c, n |-> n]
FileLog(c, n) == [kind |-> "log", by |-> c, n |-> n]
File(c, n)    == [kind |-> "file", by |-> c, n |-> n]
Texts == {Text(c, n) : c \in Clients, n \in 1..MaxTexts}
Logs  == {FileLog(c, n) : c \in Clients, n \in 1..MaxFiles}
Files == {File(c, n) : c \in Clients, n \in 1..MaxFiles}
NoMsg == [kind |-> "none"]
Begin == [kind |-> "begin"]
End   == [kind |-> "end"]

Elements(s) == {s[i] : i \in DOMAIN s}
Received(kind) == Cardinality({i \in DOMAIN log : log[i].kind = kind})
  + Cardinality({x \in Handlers : h[x].pc = "push" /\ kind = "text"})

Departed == {s[2] : s \in left}

Calls == Received("text") + Received("file") + Cardinality(asked) + Cardinality(Departed)
         + (IF server.pc = "up" THEN 0 ELSE 1)

Idle == [pc |-> "idle", msg |-> NoMsg, todo |-> <<>>, sock |-> NoMsg, q |-> 0, i |-> 0]

\* Mutant: the getter of the queue does not know its socket.
QueueWithoutSocket(c) ==
  [sock |-> NoMsg, todo |-> <<>>, active |-> NoMsg, running |-> TRUE, worker |-> "waits"]
\* The worker waits on cv_ until the first file.  It does so no more after that: the server
\* takes no item off a queue, so the predicate of the wait stays true.
NewQueue(c) ==
  [sock |-> c, todo |-> <<>>, active |-> NoMsg, running |-> TRUE, worker |-> "waits"]

\* The clients with a socket of this kind, in an order in which they may have come.
Came(kind) ==
  LET S == {c \in Present : <<kind, c>> \in Sockets}
  IN {order \in [1..Cardinality(S) -> S] :
        \A i, j \in DOMAIN order : order[i] = order[j] => i = j}

Init ==
  /\ server = [pc |-> "up", q |-> 0]
  /\ conn = [s \in {"text", "file"} \X Clients |->
              IF s \in Sockets /\ s[2] \in Present THEN "reading" ELSE "none"]
  /\ text_port_clients_ \in Came("text") /\ file_port_clients_ \in Came("file")
  /\ queues = [q \in DOMAIN file_port_clients_ |-> NewQueue(file_port_clients_[q])]
  /\ file_queues_ = [c \in Clients |->
                      IF c \in Elements(file_port_clients_)
                      THEN CHOOSE q \in DOMAIN queues : file_port_clients_[q] = c ELSE 0]
  /\ message_history_ = <<>>
  /\ h = [x \in Handlers |-> Idle]
  /\ asked = {} /\ left = {}
  /\ log = <<>> /\ found = {} /\ from = [c \in Clients |-> 0]
  /\ joined = [c \in Clients |-> IF c \in Elements(file_port_clients_) THEN 1 ELSE 0]
  /\ early = [c \in Clients |-> {}] /\ texts = [c \in Clients |-> {}]
  /\ handed = [c \in Clients |-> {}] /\ files = [c \in Clients |-> {}]

At(x, pc) == h[x].pc = pc
Goto(x, pc) == h' = [h EXCEPT ![x].pc = pc]

\* The clients of m are copied, and m is not yet in the history.
InHand(m) == At(Reader("text", m.by), "push") /\ h[Reader("text", m.by)].msg = m

\* An acceptor listens until StopServer closes it.
Listening(kind) == server.pc = "up" \/ (kind = "file" /\ server.pc = "closing")
\* StopServer holds file_queues_mutex_ while it joins the workers.
QueuesFree == server.pc \notin {"queues", "join"}
\* A socket is open until StopServer closes it.
IsOpen(kind, c) == conn[<<kind, c>>] # "closed"

-----------------------------------------------------------------------------
(* Accepting.                                                              *)

\* A client connects both its sockets at once; the kernel completes a connection before
\* the server accepts it, and refuses it when nobody listens.
Connect(c) ==
  /\ Listening("file")
  /\ \E s \in Sockets : s[2] = c /\ conn[s] = "none"
  /\ conn' = [s \in DOMAIN conn |-> IF s[2] # c \/ s \notin Sockets THEN conn[s]
                                   ELSE IF Listening(s[1]) THEN "backlog" ELSE "closed"]
  /\ UNCHANGED <<server, joined, early, chatVars, queueVars, historyVars, h, asked, left, texts>>

\* The accept of c has completed, maybe just before its acceptor was closed.
Accepted(kind, c) ==
  /\ server.pc # "down"
  /\ \/ conn[<<kind, c>>] = "backlog" /\ Listening(kind)
     \/ conn[<<kind, c>>] = "accepted"

AcceptTextConnection(c) ==
  /\ Accepted("text", c)
  /\ conn' = [conn EXCEPT ![<<"text", c>>] = "reading"]
  /\ text_port_clients_' = Append(text_port_clients_, c)
  /\ early' = [early EXCEPT ![c] = {m \in Texts : InHand(m)}]
  /\ UNCHANGED <<server, joined, file_port_clients_, queueVars, historyVars, h, asked, left, texts>>

\* The socket is listed, and known to every other handler, before it has a queue.
AcceptFileConnection(c) ==
  /\ Accepted("file", c) /\ At(Acceptor, "idle")
  /\ conn' = [conn EXCEPT ![<<"file", c>>] = "listed"]
  /\ file_port_clients_' = Append(file_port_clients_, c)
  /\ joined' = [joined EXCEPT ![c] = Len(log) + 1]
  /\ h' = [h EXCEPT ![Acceptor].pc = "lookup", ![Acceptor].sock = c]
  /\ UNCHANGED <<server, early, text_port_clients_, queueVars, historyVars, asked, left, texts>>

\* The end of the accept handler: the socket is read from, and the acceptor re-armed.
StartReading ==
  /\ At(Acceptor, "read")
  /\ conn' = [conn EXCEPT ![<<"file", h[Acceptor].sock>>] = IF @ = "closed" THEN @ ELSE "reading"]
  /\ h' = [h EXCEPT ![Acceptor] = Idle]
  /\ UNCHANGED <<server, joined, early, chatVars, queueVars, historyVars, asked, left, texts>>

-----------------------------------------------------------------------------
(* GetOrCreateFileQueueForSocket: find, build, emplace, under two locks.   *)

\* What the caller does with the queue it gets, and when it has let go of it.
Caller(x) == CASE x[1] = "accept" -> "drop"
               [] x[1] = "file"   -> "enqueue"
               [] x[1] = "text"   -> "lock"
Released(x) ==
  h' = [h EXCEPT ![x] = CASE x[1] = "accept" -> [@ EXCEPT !.pc = "read", !.q = 0]
                          [] x[1] = "file"   -> [@ EXCEPT !.pc = "next", !.q = 0, !.sock = NoMsg]
                          [] x[1] = "text"   -> Idle]

\* Mutant: a socket without a queue gets none, and its caller goes on.
FindOnly(x) ==
  /\ h' = [h EXCEPT ![x].q = file_queues_[h[x].sock],
                    ![x].pc = IF file_queues_[h[x].sock] # 0 \/ x[1] # "file"
                              THEN Caller(x) ELSE "next"]
  /\ UNCHANGED queues
FindOrBuild(x) ==
  IF file_queues_[h[x].sock] # 0
  THEN /\ h' = [h EXCEPT ![x].q = file_queues_[h[x].sock], ![x].pc = Caller(x)]
       /\ UNCHANGED queues
  ELSE /\ queues' = Append(queues, NewQueue(h[x].sock))
       /\ h' = [h EXCEPT ![x].q = Len(queues'), ![x].pc = "emplace"]

Lookup(x) ==
  /\ At(x, "lookup") /\ QueuesFree
  /\ FindOrBuild(x)
  /\ UNCHANGED <<serverVars, chatVars, file_queues_, handed, files, historyVars,
                 asked, left, texts>>

\* Mutant: insert_or_assign.
Assigned(c, q) == [file_queues_ EXCEPT ![c] = q]
\* Mutant: the new queue is returned and not registered.
NotEmplaced(c, q) == file_queues_
\* emplace leaves an entry that is there.
Emplaced(c, q) == [file_queues_ EXCEPT ![c] = IF @ = 0 THEN q ELSE @]

Emplace(x) ==
  /\ At(x, "emplace") /\ QueuesFree
  /\ file_queues_' = Emplaced(h[x].sock, h[x].q)
  /\ Goto(x, Caller(x))
  /\ UNCHANGED <<serverVars, chatVars, queues, handed, files, historyVars, asked, left, texts>>

Registered(q) == \E c \in Clients : file_queues_[c] = q

\* Mutant: the destructor joins the worker without stopping it.
StillRunning(q) == UNCHANGED queues
\* stop, if it was not called before.  It stores running_ and notifies without mutex_: a
\* worker that has evaluated its predicate and not yet begun to wait oversleeps.
Stopped(q) ==
  IF ~queues[q].running THEN UNCHANGED queues
  ELSE \E w \in {queues[q].worker, "oversleeps"} :
         /\ w # queues[q].worker => queues[q].worker = "waits"
         /\ queues' = [queues EXCEPT ![q].running = FALSE, ![q].worker = w]

\* The worker of q has returned, or will without waiting for anybody.
Ends(q) == queues[q].active = NoMsg /\ queues[q].worker # "oversleeps"

\* The caller's shared_ptr goes: the last one to a queue that lost the race to
\* file_queues_, whose destructor stops its worker,
Drop(x) ==
  /\ At(x, "drop")
  /\ IF h[x].q # 0 /\ ~Registered(h[x].q)
     THEN Stopped(h[x].q) /\ Goto(x, "join")
     ELSE Released(x) /\ UNCHANGED queues
  /\ UNCHANGED <<serverVars, chatVars, file_queues_, handed, files, historyVars,
                 asked, left, texts>>

\* Mutant: the worker is detached.
JoinWithoutWaiting(x) ==
  /\ At(x, "join")
  /\ Released(x)
  /\ UNCHANGED <<serverVars, chatVars, queueVars, historyVars, asked, left, texts>>
\* and waits for the transfer the worker is in, if it has begun one, or for ever if the
\* worker has missed the notification.
Join(x) ==
  /\ At(x, "join")
  /\ ~queues[h[x].q].running /\ Ends(h[x].q)
  /\ Released(x)
  /\ UNCHANGED <<serverVars, chatVars, queueVars, historyVars, asked, left, texts>>

\* enqueue on a queue of client c.  Its notification wakes a worker that waits, or oversleeps.
Enqueue(c, q, f) ==
  /\ queues' = [queues EXCEPT ![q].todo = Append(@, f), ![q].worker = "spins"]
  /\ handed' = [handed EXCEPT ![c] = @ \cup {f}]

\* The worker of a queue.
BeginTransfer(q) ==
  /\ queues[q].running /\ queues[q].active = NoMsg /\ queues[q].todo # <<>>
  /\ queues' = [queues EXCEPT ![q].active = Head(queues[q].todo), ![q].todo = Tail(@)]
  /\ UNCHANGED <<serverVars, chatVars, file_queues_, handed, files, historyVars,
                 h, asked, left, texts>>

EndTransfer(q) ==
  /\ queues[q].active # NoMsg
  /\ queues' = [queues EXCEPT ![q].active = NoMsg]
  /\ files' = IF <<"file", queues[q].sock>> \in left \/ ~IsOpen("file", queues[q].sock) THEN files
              ELSE [files EXCEPT ![queues[q].sock] = @ \cup {queues[q].active}]
  /\ UNCHANGED <<serverVars, chatVars, file_queues_, handed, historyVars, h, asked, left, texts>>

\* A wait on cv_ may end without a notification.
SpuriousWakeup(q) ==
  /\ queues[q].worker = "oversleeps"
  /\ queues' = [queues EXCEPT ![q].worker = "waits"]
  /\ UNCHANGED <<serverVars, chatVars, file_queues_, handed, files, historyVars,
                 h, asked, left, texts>>

-----------------------------------------------------------------------------
(* message_history_ and what is sent to a text socket.                     *)

\* Mutant: the replay does not hold history_mutex_.
NoHistoryMutex == TRUE
HistoryFree == \A c \in Clients : ~At(Reader("text", c), "replay")

\* Mutant: a full history loses an entry before the next one is pushed.
PushAtLimit(entries) ==
  /\ log' = log \o entries
  /\ LET longer == message_history_ \o entries
     IN message_history_' = IF Len(longer) >= MAX_HISTORY_MESSAGES THEN Tail(longer) ELSE longer
\* push_back of the entries, then at most one pop_front.
Push(entries) ==
  /\ log' = log \o entries
  /\ LET longer == message_history_ \o entries
     IN message_history_' = IF Len(longer) > MAX_HISTORY_MESSAGES THEN Tail(longer) ELSE longer

Send(c, m) ==
  texts' = IF <<"text", c>> \in left \/ ~IsOpen("text", c) THEN texts
           ELSE [texts EXCEPT ![c] = @ \cup {m}]

\* The next client of a copied list.
NextClient(x) == Head(h[x].todo)
\* Mutant: the loop ends at the sender.
AfterSender(x) ==
  IF Len(h[x].todo) = 1 \/ NextClient(x) = x[2] THEN [h EXCEPT ![x] = Idle]
  ELSE [h EXCEPT ![x].todo = Tail(@)]
Advance(x) ==
  IF Len(h[x].todo) = 1 THEN [h EXCEPT ![x] = Idle] ELSE [h EXCEPT ![x].todo = Tail(@)]

Reading(kind, c) ==
  /\ server.pc # "down" /\ conn[<<kind, c>>] = "reading" /\ <<kind, c>> \notin left
  /\ At(Reader(kind, c), "idle")

\* The reader of a socket sees an error, or the end of what its client sent.
SeesEnd(kind, c) ==
  /\ c \in Departed \/ (Cardinality(Departed) < MaxLeaves /\ Calls < MaxCalls)
  /\ left' = left \cup {<<kind, c>>}

-----------------------------------------------------------------------------
(* Broadcast of a text: the clients are copied before the message is in    *)
(* the history.                                                            *)

ReceiveText(c) ==
  /\ Reading("text", c) /\ Received("text") < MaxTexts /\ Calls < MaxCalls
  /\ h' = [h EXCEPT ![Reader("text", c)].pc = "push",
                    ![Reader("text", c)].msg = Text(c, Received("text") + 1),
                    ![Reader("text", c)].todo = text_port_clients_]
  /\ UNCHANGED <<serverVars, chatVars, queueVars, historyVars, asked, left, texts>>

PushText(x) ==
  /\ At(x, "push") /\ HistoryFree
  /\ Push(<<h[x].msg>>)
  /\ Goto(x, "send")
  /\ UNCHANGED <<serverVars, chatVars, queueVars, found, from, asked, left, texts>>

SendText(x) ==
  /\ At(x, "send")
  /\ IF NextClient(x) # x[2] THEN Send(NextClient(x), h[x].msg) ELSE UNCHANGED texts
  /\ h' = Advance(x)
  /\ UNCHANGED <<serverVars, chatVars, queueVars, historyVars, asked, left>>

-----------------------------------------------------------------------------
(* Broadcast of a file: history first, then the file clients, then the     *)
(* text clients.                                                           *)

ReceiveFile(c) ==
  LET n == Received("file") + 1 IN
  /\ Reading("file", c) /\ n <= MaxFiles /\ Calls < MaxCalls /\ HistoryFree
  /\ Push(<<FileLog(c, n), File(c, n)>>)
  /\ h' = [h EXCEPT ![Reader("file", c)].pc = "clients", ![Reader("file", c)].msg = File(c, n)]
  /\ UNCHANGED <<serverVars, chatVars, queueVars, found, from, asked, left, texts>>

CopyFileClients(x) ==
  /\ At(x, "clients")
  /\ h' = [h EXCEPT ![x].pc = "next", ![x].todo = file_port_clients_]
  /\ UNCHANGED <<serverVars, chatVars, queueVars, historyVars, asked, left, texts>>

\* Mutant: the loop ends at a client that is skipped.
NoMoreClients(x) == <<>>
ClientsAfter(x) == Tail(h[x].todo)

NextFileClient(x) ==
  /\ At(x, "next")
  /\ h' = IF h[x].todo = <<>> THEN [h EXCEPT ![x].pc = "log"]
          ELSE IF NextClient(x) = x[2] \/ ~IsOpen("file", NextClient(x))
          THEN [h EXCEPT ![x].todo = ClientsAfter(x)]
          ELSE [h EXCEPT ![x].pc = "lookup", ![x].sock = NextClient(x), ![x].todo = Tail(@)]
  /\ UNCHANGED <<serverVars, chatVars, queueVars, historyVars, asked, left, texts>>

EnqueueFile(x) ==
  /\ At(x, "enqueue")
  /\ Enqueue(h[x].sock, h[x].q, h[x].msg)
  /\ Goto(x, "drop")
  /\ UNCHANGED <<serverVars, chatVars, file_queues_, files, historyVars, asked, left, texts>>

\* The sender is a file socket, so no text client is skipped.
CopyTextClients(x) ==
  /\ At(x, "log")
  /\ h' = IF text_port_clients_ = <<>> THEN [h EXCEPT ![x] = Idle]
          ELSE [h EXCEPT ![x].pc = "sendlog", ![x].todo = text_port_clients_]
  /\ UNCHANGED <<serverVars, chatVars, queueVars, historyVars, asked, left, texts>>

SendLog(x) ==
  /\ At(x, "sendlog")
  /\ Send(NextClient(x), FileLog(h[x].msg.by, h[x].msg.n))
  /\ h' = Advance(x)
  /\ UNCHANGED <<serverVars, chatVars, queueVars, historyVars, asked, left>>

-----------------------------------------------------------------------------
(* SendHistory.  A client asks once, maybe before its file socket is       *)
(* accepted.                                                               *)

\* The handler returns at once when the socket has lost its peer, and so has no address, or
\* was closed after the message was read; the next read of that socket fails.
ReceiveSendHistory(c) ==
  /\ Reading("text", c) /\ c \notin asked
  /\ Cardinality(asked) < MaxRequests /\ Calls < MaxCalls
  /\ asked' = asked \cup {c}
  /\ \/ /\ Send(c, Begin)
        /\ h' = [h EXCEPT ![Reader("text", c)].pc = "find"]
        /\ UNCHANGED left
     \/ SeesEnd("text", c) /\ UNCHANGED <<h, texts>>
  /\ UNCHANGED <<serverVars, chatVars, queueVars, historyVars>>

\* The file socket with the sender's address and port, if it is listed.
FindFileSocket(x) ==
  /\ At(x, "find")
  /\ IF x[2] \in Elements(file_port_clients_)
     THEN /\ h' = [h EXCEPT ![x].pc = "lookup", ![x].sock = x[2]]
          /\ found' = found \cup {x[2]}
     ELSE Goto(x, "lock") /\ UNCHANGED found
  /\ UNCHANGED <<serverVars, chatVars, queueVars, message_history_, log, from, asked, left, texts>>

\* Or it has been closed since it was found.
FileSocketClosed(x) ==
  /\ x[1] = "text" /\ At(x, "lookup") /\ ~IsOpen("file", h[x].sock)
  /\ Goto(x, "lock")
  /\ UNCHANGED <<serverVars, chatVars, queueVars, historyVars, asked, left, texts>>

LockHistory(x) ==
  /\ At(x, "lock") /\ HistoryFree
  /\ h' = [h EXCEPT ![x].pc = "replay", ![x].i = 1]
  /\ from' = [from EXCEPT ![x[2]] = Len(log) - Len(message_history_) + 1]
  /\ UNCHANGED <<serverVars, chatVars, queueVars, message_history_, log, found, asked, left, texts>>

\* dispatch_send of one entry: a file goes to the queue, and is dropped without one.
Replay(x) ==
  /\ At(x, "replay") /\ h[x].i <= Len(message_history_)
  /\ LET m == message_history_[h[x].i] IN
       IF m.kind # "file" THEN Send(x[2], m) /\ UNCHANGED <<queues, handed>>
       ELSE IF h[x].q # 0 THEN Enqueue(x[2], h[x].q, m) /\ UNCHANGED texts
       ELSE UNCHANGED <<queues, handed, texts>>
  /\ h' = [h EXCEPT ![x].i = @ + 1]
  /\ UNCHANGED <<serverVars, chatVars, file_queues_, files, historyVars, asked, left>>

UnlockHistory(x) ==
  /\ At(x, "replay") /\ h[x].i > Len(message_history_)
  /\ Goto(x, "end")
  /\ UNCHANGED <<serverVars, chatVars, queueVars, historyVars, asked, left, texts>>

SendEnd(x) ==
  /\ At(x, "end")
  /\ Send(x[2], End)
  /\ Goto(x, "drop")
  /\ UNCHANGED <<serverVars, chatVars, queueVars, historyVars, asked, left>>

-----------------------------------------------------------------------------
(* StopServer, called once, on a thread that is not an io thread.  It is   *)
(* public, and what ends the threads StartServer joins, but nothing in the *)
(* repository calls it.                                                    *)

\* Closing an acceptor refuses the connections it has not accepted; one accept may have
\* completed whose handler is still to run.
CloseAcceptor(kind) ==
  \E completed \in Clients \cup {NoMsg} :
    /\ completed # NoMsg => conn[<<kind, completed>>] = "backlog"
                            /\ (kind = "file" => At(Acceptor, "idle"))
    /\ conn' = [s \in DOMAIN conn |->
                  IF s[1] # kind \/ conn[s] # "backlog" THEN conn[s]
                  ELSE IF s[2] = completed THEN "accepted" ELSE "closed"]

StopServer ==
  /\ Stops /\ Calls < MaxCalls /\ server.pc = "up"
  /\ CloseAcceptor("text")
  /\ server' = [server EXCEPT !.pc = "closing"]
  /\ UNCHANGED <<joined, early, chatVars, queueVars, historyVars, h, asked, left, texts>>

\* and take file_queues_mutex_.
CloseFileAcceptor ==
  /\ server.pc = "closing"
  /\ CloseAcceptor("file")
  /\ server' = [server EXCEPT !.pc = "queues"]
  /\ UNCHANGED <<joined, early, chatVars, queueVars, historyVars, h, asked, left, texts>>

\* stop on each queue in turn, which joins its worker.
StopQueue(q) ==
  /\ server.pc = "queues" /\ Registered(q) /\ queues[q].running
  /\ Stopped(q)
  /\ server' = [pc |-> "join", q |-> q]
  /\ UNCHANGED <<conn, joined, early, chatVars, file_queues_, handed, files, historyVars,
                 h, asked, left, texts>>

QueueJoined ==
  /\ server.pc = "join" /\ Ends(server.q)
  /\ server' = [pc |-> "queues", q |-> 0]
  /\ UNCHANGED <<conn, joined, early, chatVars, queueVars, historyVars, h, asked, left, texts>>

ClearQueues ==
  /\ server.pc = "queues"
  /\ \A c \in Clients : file_queues_[c] # 0 => ~queues[file_queues_[c]].running
  /\ file_queues_' = [c \in Clients |-> 0]
  /\ server' = [server EXCEPT !.pc = "text"]
  /\ UNCHANGED <<conn, joined, early, chatVars, queues, handed, files, historyVars,
                 h, asked, left, texts>>

Closed(kind, listed) ==
  [s \in DOMAIN conn |-> IF s[1] = kind /\ s[2] \in Elements(listed) THEN "closed" ELSE conn[s]]

CloseTextClients ==
  /\ server.pc = "text"
  /\ conn' = Closed("text", text_port_clients_)
  /\ text_port_clients_' = <<>>
  /\ server' = [server EXCEPT !.pc = "file"]
  /\ UNCHANGED <<joined, early, file_port_clients_, queueVars, historyVars, h, asked, left, texts>>

CloseFileClients ==
  /\ server.pc = "file"
  /\ conn' = Closed("file", file_port_clients_)
  /\ file_port_clients_' = <<>>
  /\ server' = [server EXCEPT !.pc = "context"]
  /\ UNCHANGED <<joined, early, text_port_clients_, queueVars, historyVars, h, asked, left, texts>>

\* io_context.stop(): no handler begins any more.
StopContext ==
  /\ server.pc = "context"
  /\ server' = [server EXCEPT !.pc = "down"]
  /\ UNCHANGED <<conn, joined, early, chatVars, queueVars, historyVars, h, asked, left, texts>>

-----------------------------------------------------------------------------
\* handle_read_message with an error: it returns before it would close the socket,
\* which stays listed and open.  The reader of the client's other socket goes on.
ReadError(kind, c) ==
  /\ Reading(kind, c)
  /\ SeesEnd(kind, c)
  /\ UNCHANGED <<serverVars, chatVars, queueVars, historyVars, h, asked, texts>>

Handler(x) ==
  \/ Lookup(x) \/ Emplace(x) \/ Drop(x) \/ Join(x)
  \/ PushText(x) \/ SendText(x)
  \/ CopyFileClients(x) \/ NextFileClient(x) \/ EnqueueFile(x)
  \/ CopyTextClients(x) \/ SendLog(x)
  \/ FindFileSocket(x) \/ FileSocketClosed(x) \/ LockHistory(x) \/ Replay(x) \/ UnlockHistory(x)
  \/ SendEnd(x)
Stop ==
  \/ CloseFileAcceptor \/ (\E q \in DOMAIN queues : StopQueue(q)) \/ QueueJoined \/ ClearQueues
  \/ CloseTextClients \/ CloseFileClients \/ StopContext
Accept == (\E c \in Clients : AcceptTextConnection(c) \/ AcceptFileConnection(c)) \/ StartReading
Worker(q) == BeginTransfer(q) \/ EndTransfer(q) \/ SpuriousWakeup(q)
Client(c) ==
  \/ Connect(c) \/ ReceiveText(c) \/ ReceiveFile(c) \/ ReceiveSendHistory(c)
  \/ \E kind \in {"text", "file"} : ReadError(kind, c)

Next ==
  \/ \E c \in Clients : Client(c)
  \/ Accept
  \/ \E x \in Handlers : Handler(x)
  \/ \E q \in DOMAIN queues : Worker(q)
  \/ StopServer \/ Stop

Spec == Init /\ [][Next]_vars

\* A worker that can go on: its peer reads, or the socket is closed.
Unblocked(q) == queues[q].sock \notin Slow \/ ~IsOpen("file", queues[q].sock)

\* As long as a thread can run on, some thread does; each of these steps moves a handler, a
\* worker or StopServer.
Busy == {x \in Handlers : ~At(x, "idle")}
System ==
  \/ \E x \in Busy : Handler(x)
  \/ StartReading \/ Stop
  \/ \E q \in DOMAIN queues : BeginTransfer(q) \/ (Unblocked(q) /\ EndTransfer(q))
FairSpec == Spec /\ WF_<<h, queues, server>>(System)
-----------------------------------------------------------------------------
(* Properties.                                                             *)

PCs == {"idle", "push", "send", "clients", "next", "lookup", "emplace", "enqueue", "drop",
        "join", "read", "log", "sendlog", "find", "lock", "replay", "end"}
Messages == Texts \cup Logs \cup Files

\* Every variable has its type.
TypeOK ==
  /\ server \in [pc : {"up", "closing", "queues", "join", "text", "file", "context", "down"},
                  q : 0..Len(queues)]
  /\ conn \in [{"text", "file"} \X Clients ->
                {"none", "backlog", "accepted", "listed", "reading", "closed"}]
  /\ joined \in [Clients -> 0..(Len(log) + 1)]
  /\ early \in [Clients -> SUBSET Texts]
  /\ text_port_clients_ \in Seq(Clients) /\ file_port_clients_ \in Seq(Clients)
  /\ file_queues_ \in [Clients -> 0..Len(queues)]
  /\ queues \in Seq([sock : Clients, todo : Seq(Files), active : Files \cup {NoMsg},
                     running : BOOLEAN, worker : {"waits", "spins", "oversleeps"}])
  /\ message_history_ \in Seq(Messages) /\ log \in Seq(Messages)
  /\ h \in [Handlers -> [pc : PCs, msg : Messages \cup {NoMsg}, todo : Seq(Clients),
                         sock : Clients \cup {NoMsg}, q : 0..Len(queues), i : Nat]]
  /\ asked \subseteq Clients /\ left \subseteq {"text", "file"} \X Clients
  /\ found \subseteq asked /\ from \in [Clients -> 0..(Len(log) + 1)]
  /\ texts \in [Clients -> SUBSET (Texts \cup Logs \cup {Begin, End})]
  /\ handed \in [Clients -> SUBSET Files]
  /\ files \in [Clients -> SUBSET Files]

Position(m) == CHOOSE i \in DOMAIN log : log[i] = m
Logged(m) == m \in Elements(log)
\* The history of c was found, replayed and its queue released.
Answered(c) == c \in asked /\ At(Reader("text", c), "idle")
\* The broadcast of m has been through the list of clients.
FileBroadcastDone(m) ==
  LET x == Reader("file", m.by)
  IN Logged(m) /\ (h[x].msg # m \/ h[x].pc \in {"log", "sendlog"})
TextBroadcastDone(m) == Logged(m) /\ h[Reader("text", m.by)].msg # m

\* f has been written to the file socket of c, is being written, or waits in a queue whose
\* worker runs.  Two things alone lose it: StopServer, and the race in
\* GetOrCreateFileQueueForSocket, where it goes with the queue that another one preceded in
\* the registry: then c never gets it.
Kept(c, f) ==
  \/ f \in files[c] \/ <<"file", c>> \in left \/ ~IsOpen("file", c)
  \/ \E q \in DOMAIN queues :
       /\ queues[q].sock = c
       /\ \/ queues[q].active = f
          \/ /\ f \in Elements(queues[q].todo)
             /\ \/ queues[q].running
                \/ file_queues_[c] \notin {0, q}
                \/ server.pc \notin {"up", "closing"}

\* Every file is kept for a joiner whose file socket the server knew when it asked for the
\* history: written or to be written to it, by the replay or by the broadcast, unless it had
\* been dropped from the history by then, or is lost in one of the two ways Kept names: with
\* StopServer, or with a queue that lost the race to be registered.  (Broadcast pushes a
\* file to the history BEFORE it copies the clients, and SendHistory finds the socket BEFORE
\* it reads the history.)
FilesReachJoiner ==
  \A c \in found, f \in Files :
    /\ Answered(c) /\ f.by # c
    /\ FileBroadcastDone(f) /\ from[c] <= Position(f)
    => Kept(c, f)

\* A text that the history held when it was replayed to a client, or that was pushed later,
\* reaches that client, by the replay or by its broadcast; but for the texts that were in
\* hand when the client was listed: of these the list of clients had been copied without it,
\* and the replay may have ended before they were pushed.
TextsReachJoiner ==
  \A c \in Clients, m \in Texts :
    /\ Answered(c) /\ m.by # c /\ m \notin early[c]
    /\ <<"text", c>> \notin left /\ IsOpen("text", c)
    /\ TextBroadcastDone(m) /\ from[c] <= Position(m)
    => m \in texts[c]

\* Every file pushed while a file socket is listed is queued for it by its broadcast, be
\* its queue built by the accept handler, a broadcast or SendHistory.  It is all that is
\* left to a joiner whose request was handled before its file socket was accepted.
FilesReachListed ==
  \A c \in Clients, f \in Files :
    /\ joined[c] # 0 /\ IsOpen("file", c) /\ f.by # c
    /\ FileBroadcastDone(f) /\ joined[c] <= Position(f)
    => f \in handed[c]

\* The history is the end of everything ever pushed, and so is what a replay in
\* progress walks over: nothing moves under the iterator.
ReplayIsSegment ==
  /\ \A j \in DOMAIN message_history_ :
       message_history_[j] = log[Len(log) - Len(message_history_) + j]
  /\ \A c \in Clients :
       At(Reader("text", c), "replay") => from[c] = Len(log) - Len(message_history_) + 1

\* The history holds the last MAX_HISTORY_MESSAGES entries, or all there are, and no more
\* than one besides for each file: a broadcast file brings two entries and takes one out.
HistoryHoldsLast ==
  /\ Len(message_history_) >= MAX_HISTORY_MESSAGES \/ message_history_ = log
  /\ Len(message_history_) <= MAX_HISTORY_MESSAGES + Received("file")

\* Every running worker belongs to a queue that is registered, or that one handler is
\* about to drop; and no registered queue is ever stopped by the loser of a race.
QueueOwnership ==
  /\ \A q \in DOMAIN queues :
       queues[q].running => Registered(q) \/ \E x \in Handlers : h[x].q = q
  /\ QueuesFree => \A c \in Clients : file_queues_[c] # 0 => queues[file_queues_[c]].running

\* "It makes sure the client doesn't get a mix of images because of asynchronous writing":
\* two workers write to one socket only while a handler holds one of the two queues, which
\* lost the race to register; it joins that worker before it lets go, so that the mix ends
\* with the handler that began it, and with StopServer.
MixEndsWithRace ==
  \A q, r \in DOMAIN queues :
    /\ q # r /\ queues[q].sock = queues[r].sock
    /\ queues[q].active # NoMsg /\ queues[r].active # NoMsg
    => \E p \in {q, r} : ~Registered(p) /\ \E x \in Handlers : h[x].q = p

\* No file given to a queue is lost but in the two ways Kept names.
FilesKept == \A c \in Clients : \A f \in handed[c] : Kept(c, f)

\* The worker of q has missed the notification of stop, which came between its predicate and
\* its wait, and sleeps.
Overslept(q) == queues[q].worker = "oversleeps"
\* A worker waits for a client that no longer reads, or has overslept.
HeldUp ==
  \E q \in DOMAIN queues : (queues[q].active # NoMsg /\ ~Unblocked(q)) \/ Overslept(q)

\* The worker of q is in a transfer, and stops behind it.
LastTransfer(q) == queues[q].active # NoMsg /\ ~queues[q].running

\* A handler that is not idle can take its next step, but for the mutexes it needs and the
\* worker it joins.
CanGoOn(x) ==
  /\ ~At(x, "idle")
  /\ h[x].pc \in {"push", "lock"} => HistoryFree
  /\ h[x].pc \in {"lookup", "emplace"} =>
       QueuesFree \/ (x[1] = "text" /\ At(x, "lookup") /\ ~IsOpen("file", h[x].sock))
  /\ At(x, "join") => ~queues[h[x].q].running /\ Ends(h[x].q)
StopCanGoOn ==
  /\ server.pc \notin {"up", "down"}
  /\ server.pc = "join" => Ends(server.q)

\* Nobody waits for one who waits, but for a worker: history_mutex_ is held by a replay that
\* can go on, file_queues_mutex_ by StopServer, which can go on or joins a worker, and a
\* worker that is joined ends, is in its last transfer, which ends when its client reads, or
\* has missed the notification of stop and sleeps on.
WaitsEndAtWorkers ==
  /\ \A x \in Handlers :
       \/ At(x, "idle") \/ CanGoOn(x)
       \/ h[x].pc \in {"push", "lock"} /\ \E y \in Handlers : At(y, "replay") /\ CanGoOn(y)
       \/ /\ h[x].pc \in {"lookup", "emplace"}
          /\ StopCanGoOn \/ LastTransfer(server.q) \/ Overslept(server.q)
       \/ At(x, "join") /\ (LastTransfer(h[x].q) \/ Overslept(h[x].q))
  /\ server.pc \in {"up", "down"} \/ StopCanGoOn \/ LastTransfer(server.q) \/ Overslept(server.q)

\* Every handler returns: none waits for another for ever, unless a client that does not
\* read holds up a worker, and that the handlers, or a worker oversleeps the stop of its
\* queue, and the handler that joins it never returns.
HandlersReturn == \A x \in Handlers : ~At(x, "idle") ~> At(x, "idle") \/ []HeldUp

\* StopServer returns, and so does StartServer, which joins the io threads: each has ended
\* the handler it was in.  With the same two exceptions.
StopReturns ==
  server.pc = "closing" ~> (server.pc = "down" /\ \A x \in Handlers : At(x, "idle")) \/ []HeldUp

\* "Broadcasts a specific text message to every client connected to the chatroom except
\* the sender": to all that were listed when the message was read.
TextReachesClients ==
  \A m \in Texts : \A c \in Clients \ {m.by} :
    LET x == Reader("text", m.by)
    IN At(x, "push") /\ h[x].msg = m /\ c \in Elements(h[x].todo)
         ~> m \in texts[c] \/ <<"text", c>> \in left \/ ~IsOpen("text", c)

\* "if someone joins, he'll get the last 100 messages sent to the server".
JoinerMissesNoText ==
  \A c \in Clients, m \in Texts :
    /\ Answered(c) /\ m.by # c /\ <<"text", c>> \notin left
    /\ TextBroadcastDone(m) /\ from[c] <= Position(m)
    => m \in texts[c]

\* "It makes sure the client doesn't get a mix of images because of asynchronous writing":
\* no two workers write to one socket.
OneWriter ==
  \A q, r \in DOMAIN queues :
    q # r /\ queues[q].sock = queues[r].sock
      => queues[q].active = NoMsg \/ queues[r].active = NoMsg
=============================================================================
