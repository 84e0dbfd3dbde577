-------------------------- MODULE ClientConnection --------------------------
(***************************************************************************)
(* Client/src/Server/ClientServerConnectionManager.cpp on top of its       *)
(* FileTransferQueue: the thread that reads the command line (Cmd), and    *)
(* the io thread (Io) that runs the completion handlers of the two         *)
(* connects.  sock and sockets of FileTransferQueue are client_file_socket *)
(* and all the file sockets so far.                                        *)
(*                                                                         *)
(* The members are shared without a lock.  Each read or write of a member  *)
(* is an action; client_file_socket is read as the old or the new pointer. *)
(* What is received is not modelled, only that a read is in progress.      *)
(***************************************************************************)
EXTENDS FileTransferQueue

CONSTANTS Cmd, Io,
          Commands    \* the commands the user gives

ASSUME ThreadsAssumption ==
  /\ Cmd # Io /\ Callers = {Cmd, Io} /\ MaxSockets # 0
  /\ {"pause", "resume", "cancel_all", "stop"} \subseteq Operations

VARIABLES
  text,               \* the state of client_socket
  connects,           \* the async_connects the reactor has not reported
  ready,              \* the completion handlers queued for the io thread, the first running
  io,                 \* where the io thread is in a handler, or how its run() ended
  reads,              \* reads in progress on each file socket, and on the text socket (0)
  askedforhistory,
  cmd                 \* where the command thread is in a command

clientVars == <<text, connects, ready, io, reads, askedforhistory, cmd>>
cvars == <<vars, clientVars>>

StateOf(s) == IF s = 0 THEN text ELSE sockets[s]
IsConnected(s) == StateOf(s) \in {"open", "broken"}
Opened(s) == StateOf(s) \notin {"fresh", "closed"}
\* Mutant: the handler of the second connect is given client_socket.
TextSocketNamed(name) == IF name \in {"TextSocket", "FileSocket"} THEN 0 ELSE sock
\* handle_connect takes client_file_socket by reference.
SocketNamed(name) == IF name = "TextSocket" THEN 0 ELSE sock

\* The constructor has started both connects before run() is called.
ClientInit ==
  /\ Init /\ sock = 1 /\ sockets = <<"connecting">>
  /\ text = "connecting"
  /\ connects = {[name |-> "TextSocket", sock |-> 0], [name |-> "FileSocket", sock |-> 1]}
  /\ ready = <<>> /\ io = "run"
  /\ reads = [s \in 0..MaxSockets |-> 0]
  /\ askedforhistory = FALSE
  /\ cmd = "prompt"

-----------------------------------------------------------------------------
(* The io thread.                                                          *)

\* The handlers of all connects that have settled, or whose socket was closed, in any order.
Poll ==
  /\ io = "run" /\ ready = <<>>
  /\ LET done == {a \in connects : StateOf(a.sock) # "connecting"} IN
       /\ done # {}
       /\ connects' = connects \ done
       /\ \E order \in SetToSeqs(done) :
            ready' = [i \in DOMAIN order |-> [name |-> order[i].name,
                                              ok |-> StateOf(order[i].sock) = "open"]]
  /\ UNCHANGED <<vars, text, io, reads, askedforhistory, cmd>>

Handler == Head(ready)
Return_ == io' = "run" /\ ready' = Tail(ready)

HandleError ==
  /\ io = "run" /\ ready # <<>> /\ ~Handler.ok
  /\ Return_
  /\ UNCHANGED <<vars, text, connects, reads, askedforhistory, cmd>>

\* remote_endpoint() of whatever socket is the file socket by now,
HandleConnect ==
  /\ io = "run" /\ ready # <<>> /\ Handler.ok
  /\ IsConnected(SocketNamed(Handler.name))
  /\ io' = "read"
  /\ UNCHANGED <<vars, text, connects, ready, reads, askedforhistory, cmd>>

\* which throws if that one is not connected: run() is left, and the thread ends.
RemoteEndpointThrows ==
  /\ io = "run" /\ ready # <<>> /\ Handler.ok
  /\ StateOf(SocketNamed(Handler.name)) # "open"
  /\ io' = "dead"
  /\ UNCHANGED <<vars, text, connects, ready, reads, askedforhistory, cmd>>

\* A read on a socket that is not open fails at once.
StartRead ==
  /\ io = "read"
  /\ LET s == SocketNamed(Handler.name)
     IN reads' = IF Opened(s) THEN [reads EXCEPT ![s] = @ + 1] ELSE reads
  /\ io' = "ask"
  /\ UNCHANGED <<vars, text, connects, ready, askedforhistory, cmd>>

\* Mutant: only the text connection asks.
AskedByText == askedforhistory \/ (Opened(0) /\ IsOpen(sock) /\ Handler.name = "TextSocket")
\* try_request_history: a send never reports an error to its caller.
Asked == askedforhistory \/ (Opened(0) /\ IsOpen(sock))

\* Mutant: the handler of the reconnect forgets to resume.
TryRequestHistoryOnly ==
  /\ io = "ask"
  /\ askedforhistory' = Asked
  /\ Return_
  /\ UNCHANGED <<vars, text, connects, reads, cmd>>
TryRequestHistory ==
  /\ io = "ask"
  /\ askedforhistory' = Asked
  /\ IF Handler.name = "Reconnect" THEN io' = "resume" /\ UNCHANGED ready ELSE Return_
  /\ UNCHANGED <<vars, text, connects, reads, cmd>>

ResumeAfterConnect ==
  /\ io = "resume" /\ resume(Io)
  /\ io' = "notify"
  /\ UNCHANGED <<text, connects, ready, reads, askedforhistory, cmd>>

NotifyAfterConnect ==
  /\ io = "notify" /\ ResumeNotify(Io)
  /\ Return_
  /\ UNCHANGED <<text, connects, reads, askedforhistory, cmd>>

\* A read ends in an error, which its handler only prints.
EndRead(s) ==
  /\ io = "run" /\ reads[s] > 0 /\ StateOf(s) \in {"broken", "closed"}
  /\ reads' = [reads EXCEPT ![s] = 0]
  /\ UNCHANGED <<vars, text, connects, ready, io, askedforhistory, cmd>>

\* run() returns when it has no more work, and is not called again.
RunOutOfWork ==
  /\ io = "run" /\ ready = <<>> /\ connects = {}
  /\ \A s \in 0..MaxSockets : reads[s] = 0
  /\ io' = "returned"
  /\ UNCHANGED <<vars, text, connects, ready, reads, askedforhistory, cmd>>

IoStep ==
  \/ Poll \/ HandleError \/ HandleConnect \/ RemoteEndpointThrows
  \/ StartRead \/ TryRequestHistory \/ ResumeAfterConnect \/ NotifyAfterConnect
  \/ \E s \in 0..Len(sockets) : EndRead(s)
  \/ RunOutOfWork

-----------------------------------------------------------------------------
(* The command thread.                                                     *)

\* Mutant: the next command is read before the last one has returned.
PromptEarly == cmd = "prompt"
Prompt == cmd = "prompt" /\ cpc[Cmd] = "idle"
Command(name) == name \in Commands /\ Prompt
Then(pc) == cmd' = pc /\ UNCHANGED <<ready, io, reads, askedforhistory>>

\* A path that does not exist is refused here and changes nothing.
EnqueueFile == enqueue(Cmd, TRUE)

\* The commands that call one method of the queue.
QueueCommand ==
  /\ \/ Command("/file") /\ EnqueueFile
     \/ Command("/cancel") /\ \E id \in Ids : cancel(Cmd, id)
     \/ Command("/retry") /\ \E id \in Ids : retry(Cmd, id)
     \/ Command("/pause") /\ pause(Cmd)
     \/ Command("/resume") /\ resume(Cmd)
  /\ UNCHANGED clientVars

ResumeReturns ==
  /\ cmd = "prompt" /\ ResumeNotify(Cmd)
  /\ UNCHANGED clientVars

\* CancelAndReconnectFileSocket: pause, cancel_all, close, replace, connect.
CancelAll ==
  /\ Command("/cancelall") /\ Len(sockets) < MaxSockets
  /\ pause(Cmd)
  /\ Then("cancel") /\ UNCHANGED <<text, connects>>

CancelQueue ==
  /\ cmd = "cancel" /\ cancel_all(Cmd)
  /\ Then("closing") /\ UNCHANGED <<text, connects>>

CancelQueueReturns ==
  /\ cmd = "closing" /\ CancelAllClose(Cmd)
  /\ Then("close") /\ UNCHANGED <<text, connects>>

CloseFileSocket ==
  /\ cmd = "close" /\ Disconnect
  /\ Then("replace") /\ UNCHANGED <<text, connects>>

ReplaceFileSocket ==
  /\ cmd = "replace" /\ ReplaceSocket
  /\ Then("connect") /\ UNCHANGED <<text, connects>>

ConnectFileSocket ==
  /\ cmd = "connect" /\ StartConnect
  /\ connects' = connects \cup {[name |-> "Reconnect", sock |-> sock]}
  /\ Then("prompt") /\ UNCHANGED text

\* Mutant: a socket that is still connecting counts as not connected.
KeptConnecting == IF text = "connecting" THEN text ELSE "closed"
TextClosed == "closed"

\* quit: Disconnect closes both sockets, main joins the io thread, and the queue is
\* destroyed.
Quit ==
  /\ Command("quit")
  /\ text' = TextClosed
  /\ Then("disconnect") /\ UNCHANGED <<vars, connects>>

DisconnectFileSocket ==
  /\ cmd = "disconnect" /\ Disconnect
  /\ Then("join") /\ UNCHANGED <<text, connects>>

JoinIo ==
  /\ cmd = "join" /\ io \in {"returned", "dead"}
  /\ Then("destroy") /\ UNCHANGED <<vars, text, connects>>

\* client_file_socket is destroyed before the queue; a worker that still asks for it is
\* taken to get the closed socket it named.
DestroyQueue ==
  /\ cmd = "destroy" /\ stop(Cmd)
  /\ Then("stopping") /\ UNCHANGED <<text, connects>>

QueueDestroyed ==
  /\ cmd = "stopping"
  /\ \/ StopNotify(Cmd) /\ Then("stopping")
     \/ StopJoin(Cmd) /\ Then("gone")
  /\ UNCHANGED <<text, connects>>

\* What the thread does once a command has begun.
CommandStep ==
  \/ ResumeReturns
  \/ CancelQueue \/ CancelQueueReturns \/ CloseFileSocket \/ ReplaceFileSocket \/ ConnectFileSocket
  \/ DisconnectFileSocket \/ JoinIo \/ DestroyQueue \/ QueueDestroyed

-----------------------------------------------------------------------------
(* The network and the queue's worker.                                     *)

TextNetwork ==
  /\ \/ text = "connecting" /\ text' \in {"open", "broken"}
     \/ text = "open" /\ text' = "broken"
  /\ UNCHANGED <<vars, connects, ready, io, reads, askedforhistory, cmd>>

QueueWorker == WorkerStep /\ UNCHANGED clientVars
Surroundings ==
  /\ WriteChunk \/ SpuriousWakeup \/ Connected \/ PeerLost
  /\ UNCHANGED clientVars

ClientNext ==
  \/ IoStep
  \/ QueueCommand \/ CancelAll \/ Quit \/ CommandStep
  \/ TextNetwork \/ QueueWorker \/ Surroundings

ClientSpec == ClientInit /\ [][ClientNext]_cvars

\* The three threads run on.  The network does what it likes and the peer may stop reading.
ClientFairSpec ==
  /\ ClientSpec
  /\ WF_cvars(IoStep) /\ WF_cvars(CommandStep) /\ WF_cvars(QueueWorker)

-----------------------------------------------------------------------------
(* Properties.                                                             *)

Names == {"TextSocket", "FileSocket", "Reconnect"}

\* Every variable has its type, and each thread is in a call of the queue exactly when it
\* is at the step that makes the call.
ClientTypeOK ==
  /\ TypeOK
  /\ text \in {"connecting", "open", "broken", "closed"}
  /\ connects \subseteq [name : Names, sock : 0..Len(sockets)]
  /\ ready \in Seq([name : Names, ok : BOOLEAN])
  /\ io \in {"run", "read", "ask", "resume", "notify", "returned", "dead"}
  /\ reads \in [0..MaxSockets -> Nat]
  /\ askedforhistory \in BOOLEAN
  /\ cmd \in {"prompt", "cancel", "closing", "close", "replace", "connect",
              "disconnect", "join", "destroy", "stopping", "gone"}
  /\ io \in {"read", "ask", "resume", "notify"} => ready # <<>>
  /\ cpc[Io] = "notify" <=> io = "notify"
  /\ cpc[Cmd] = "close" <=> cmd = "closing"
  /\ cpc[Cmd] \in {"stopping", "joining"} <=> cmd = "stopping"
  /\ cpc[Cmd] = "notify" => cmd = "prompt"

\* A client that receives on both sockets has asked for the history, whichever of the
\* connects was first and whatever /cancelall did to the file socket meanwhile.
HistoryAsked ==
  io = "run" /\ Opened(0) /\ IsOpen(sock) /\ reads[0] > 0 /\ reads[sock] > 0 => askedforhistory

\* A connection is read by one loop, whichever handlers ran late; a file socket that
\* replaced one whose handler was still queued is read by that handler's loop as well,
\* and by no third, however many reconnects there were.
FewReadLoops ==
  /\ reads[0] <= 1 /\ reads[1] <= 1
  /\ \A s \in DOMAIN reads : reads[s] <= 2

Ended == io \in {"returned", "dead"}
\* A handler that is queued, or has come as far as resume, resumes the queue.
ToResume(i) == ready[i].name = "Reconnect" /\ ready[i].ok /\ (i = 1 => io # "notify")
\* /cancelall is still at work, or the io thread at what it has started.
Reconnecting ==
  \/ cmd \in {"cancel", "closing", "close", "replace", "connect"}
  \/ ~Ended /\ [name |-> "Reconnect", sock |-> sock] \in connects
  \/ ~Ended /\ \E i \in DOMAIN ready : ToResume(i)
Lost == Ended \/ sockets[sock] \in {"broken", "closed"}
Reason == Reconnecting \/ Lost

\* "Only resume queue after successful connection": from the moment /cancelall pauses the
\* queue until something resumes it, a reconnect that will resume it is on its way, or the
\* connection is lost or the io thread has ended; as long as that thread runs, /cancelall
\* never leaves the queue paused over a connection that works.
PausedForAReason == [][paused_' /\ ((paused_ /\ Reason) \/ cmd' = "cancel") => Reason']_cvars

\* quit ends the program: the sockets it closes leave the io thread without work, however
\* far their connects had come, and the worker is freed from any write.  The one way not
\* to end is the notification that stop can lose.
QuitEnds ==
  cmd = "disconnect" ~> \/ cmd = "gone"
                        \/ cpc[Cmd] = "joining" /\ wpc = "wait" /\ waiting

\* Once Disconnect has closed the two sockets, every socket there was is closed, and stays
\* so: no connect, read or write of the io thread or the worker waits for the network,
\* though none of them was told to end.
QuitClosesAll ==
  cmd \in {"join", "destroy", "stopping", "gone"} =>
    \A s \in 0..Len(sockets) : StateOf(s) = "closed"

\* Canceling the file in flight frees the worker even from a peer that stopped reading:
\* by /cancel or /cancelall while the file socket is the first one, and by /cancelall on
\* any file socket, since it is closed before it is replaced.
CancelFreesWorker ==
  /\ wpc = "write"
  /\ \/ cmd = "close"
     \/ /\ Len(sockets) = 1
        /\ \E i \in DOMAIN queue_ : queue_[i].id = item.id /\ queue_[i].state = "Canceled"
  ~> wpc # "write"

\* "shutdown and reconnect the file socket": a queue that /cancelall paused runs again
\* once the new socket is connected, unless the user quits.
ReconnectResumes ==
  cmd = "prompt" /\ paused_ /\ sock # 0 /\ sockets[sock] = "open"
    ~> ~paused_ \/ sockets[sock] # "open" \/ cmd = "disconnect"
=============================================================================
