----------------------- MODULE ClientConnectionProofs -----------------------
(***************************************************************************)
(* The client is a user of its queue like any other, so what is proved of  *)
(* FileTransferQueue holds in it; and the history is asked for, for every  *)
(* set of commands and every bound.                                        *)
(***************************************************************************)
EXTENDS ClientConnection, LedgerProofs, FiniteSetTheorems

-----------------------------------------------------------------------------
(* The client implements the queue's specification.                        *)

\* Each step of the client is a step of its queue, or leaves the queue alone.
LEMMA ClientStepIsQueueStep == [ClientNext]_cvars => [Next]_vars
<1> SUFFICES ASSUME [ClientNext]_cvars PROVE [Next]_vars
  OBVIOUS
<1>0. Cmd \in Callers /\ Io \in Callers
  BY ThreadsAssumption
<1>1. CASE IoStep
  <2>1. CASE ResumeAfterConnect
    BY <1>0, <2>1 DEF ResumeAfterConnect, Next, Call
  <2>2. CASE NotifyAfterConnect
    BY <1>0, <2>2 DEF NotifyAfterConnect, Next, Return
  <2>3. CASE UNCHANGED vars
    BY <2>3
  <2> QED
    BY <1>1, <2>1, <2>2, <2>3
    DEF IoStep, Poll, HandleError, HandleConnect, RemoteEndpointThrows, StartRead,
        TryRequestHistory, EndRead, RunOutOfWork
<1>2. CASE QueueCommand
  BY <1>0, <1>2 DEF QueueCommand, EnqueueFile, Next, Call
<1>3. CASE CancelAll
  BY <1>0, <1>3 DEF CancelAll, Next, Call
<1>4. CASE Quit
  BY <1>4 DEF Quit
<1>5. CASE CommandStep
  <2>1. CASE ResumeReturns \/ CancelQueueReturns
    BY <1>0, <2>1 DEF ResumeReturns, CancelQueueReturns, Next, Return
  <2>2. CASE CancelQueue \/ DestroyQueue
    BY <1>0, <2>2 DEF CancelQueue, DestroyQueue, Next, Call
  <2>3. CASE CloseFileSocket \/ ReplaceFileSocket \/ ConnectFileSocket \/ DisconnectFileSocket
    BY <2>3 DEF CloseFileSocket, ReplaceFileSocket, ConnectFileSocket, DisconnectFileSocket, Next
  <2>4. CASE JoinIo
    BY <2>4 DEF JoinIo
  <2>5. CASE QueueDestroyed
    BY <1>0, <2>5 DEF QueueDestroyed, Next, Return
  <2> QED
    BY <1>5, <2>1, <2>2, <2>3, <2>4, <2>5 DEF CommandStep
<1>6. CASE TextNetwork
  BY <1>6 DEF TextNetwork
<1>7. CASE QueueWorker
  BY <1>7 DEF QueueWorker, Next
<1>8. CASE Surroundings
  BY <1>8 DEF Surroundings, Next
<1>9. CASE UNCHANGED cvars
  BY <1>9 DEF cvars
<1> QED
  BY <1>1, <1>2, <1>3, <1>4, <1>5, <1>6, <1>7, <1>8, <1>9 DEF ClientNext

\* The connection manager and its threads use the queue only as its specification allows
\* (ClientServerConnectionManager.cpp): every theorem of FileTransferQueueProofs holds in
\* the client.
THEOREM ClientUsesQueue == ClientSpec => Spec
<1>1. ClientInit => Init
  BY DEF ClientInit
<1> QED
  BY <1>1, ClientStepIsQueueStep, PTL DEF ClientSpec, Spec

\* No item of the client is left Sending, whatever /cancelall and quit do to its sockets.
THEOREM ClientNeverStuckSending == ClientSpec => []SendingIsActive
  BY ClientUsesQueue, NeverStuckSending, PTL

\* Done in the client's /history means that the latest write handed over the whole file.
THEOREM ClientDoneWasSent == ClientSpec => []DoneWasSent
  BY ClientUsesQueue, DoneFilesWereSent, PTL

\* The transfers of the client follow the ledger: one at a time, in order of submission, and
\* none begun once the queue is being destroyed.
THEOREM ClientFollowsLedger == ClientSpec => LedgerSpec
  BY ClientUsesQueue, QueueIsLedger, PTL

\* The worker of the client does not sleep on a deque that holds anything, in a run in which
\* neither /pause nor /cancelall pauses the queue.
THEOREM ClientWakeupKept == ClientSpec => NoLostWakeup
  BY ClientUsesQueue, WakeupKept, PTL

-----------------------------------------------------------------------------
(* The history is asked for.                                               *)

\* The client receives on both connections.
BothRead == Opened(0) /\ IsOpen(sock) /\ reads[0] > 0 /\ reads[sock] > 0

\* A socket not yet opened is not read from; and between the start of the second read and
\* try_request_history the io thread is at "ask".
AskInv ==
  /\ sock \in 1..Len(sockets) /\ Len(sockets) <= MaxSockets
  /\ reads \in [0..MaxSockets -> Nat]
  /\ \A s \in 1..MaxSockets : s > Len(sockets) \/ sockets[s] = "fresh" => reads[s] = 0
  /\ BothRead => askedforhistory \/ io = "ask"

LEMMA InitAskInv == ClientInit => AskInv
<1> SUFFICES ASSUME ClientInit PROVE AskInv
  OBVIOUS
<1>1. sockets = <<"connecting">> /\ Len(sockets) = 1 /\ sock = 1 /\ MaxSockets \in Nat \ {0}
  BY ThreadsAssumption, ConstantsAssumption DEF ClientInit
<1>2. reads = [s \in 0..MaxSockets |-> 0]
  BY DEF ClientInit
<1> QED
  BY <1>1, <1>2 DEF AskInv, BothRead

\* Apart from the steps of a reconnect, sockets only settle, break and close.
Settles ==
  /\ sock' = sock /\ Len(sockets') = Len(sockets)
  /\ \A s \in 1..Len(sockets) :
       /\ sockets[s] = "fresh" <=> sockets'[s] = "fresh"
       /\ sockets[s] = "closed" => sockets'[s] = "closed"
       /\ sockets[s] = "broken" => sockets'[s] \in {"broken", "closed"}

LEMMA SocketsSettle ==
  ASSUME TypeOK, UNCHANGED sockVars \/ CloseSocket \/ Connected \/ PeerLost
  PROVE  Settles
<1>1. Len(sockets) \in Nat /\ DOMAIN sockets = 1..Len(sockets)
  BY LenProperties DEF TypeOK
<1>2. CASE UNCHANGED sockVars
  BY <1>2 DEF sockVars, Settles
<1>3. ASSUME NEW s \in DOMAIN sockets, NEW r \in {"open", "broken", "closed"},
             sock' = sock, sockets' = [sockets EXCEPT ![s] = r],
             sockets[s] # "fresh", sockets[s] = "closed" => r = "closed",
             sockets[s] = "broken" => r = "closed"
      PROVE  Settles
  <2>1. Len(sockets') = Len(sockets)
    BY <1>1, <1>3, ExceptSeq DEF TypeOK
  <2> QED
    BY <1>1, <1>3, <2>1 DEF Settles
<1>4. CASE CloseSocket
  <2>1. CASE IsOpen(sock)
    <3>1. sock \in DOMAIN sockets /\ sockets[sock] # "fresh"
      BY <1>1, <2>1 DEF IsOpen, TypeOK
    <3>2. sock' = sock /\ sockets' = [sockets EXCEPT ![sock] = "closed"]
      BY <1>4, <2>1 DEF CloseSocket
    <3> QED
      BY <1>3, <3>1, <3>2
  <2>2. CASE ~IsOpen(sock)
    BY <1>4, <2>2 DEF CloseSocket, Settles
  <2> QED
    BY <2>1, <2>2
<1>5. CASE Connected
  BY <1>3, <1>5 DEF Connected, sockVars
<1>6. CASE PeerLost
  BY <1>3, <1>6 DEF PeerLost, sockVars
<1> QED
  BY <1>2, <1>4, <1>5, <1>6

\* The steps that are not those of the io thread or of a reconnect change no variable
\* AskInv is about, but for the states of sockets.
LEMMA SettlingKeepsAskInv ==
  ASSUME AskInv, Settles, UNCHANGED <<reads, io, askedforhistory>>,
         text = "closed" => text' = "closed", text = "fresh" => text' = "fresh"
  PROVE  AskInv'
<1>1. Len(sockets) \in Nat
  BY DEF AskInv
<1>2. IsOpen(sock)' => IsOpen(sock)
  BY DEF AskInv, Settles, IsOpen
<1>3. Opened(0)' => Opened(0)
  BY DEF Opened, StateOf
<1>4. BothRead' => BothRead
  BY <1>2, <1>3 DEF BothRead, Settles
<1> QED
  BY <1>4 DEF AskInv, Settles

\* What the calls of the queue do to the socket.
LEMMA CallsSettle ==
  ASSUME TypeOK, NEW c \in Callers,
         \/ \E fromPath \in BOOLEAN : enqueue(c, fromPath)
         \/ \E id \in Ids : retry(c, id) \/ cancel(c, id)
         \/ pause(c) \/ resume(c) \/ cancel_all(c) \/ stop(c) \/ Return(c)
  PROVE  Settles
<1>1. UNCHANGED sockVars \/ CloseSocket
  BY DEF enqueue, retry, cancel, pause, resume, cancel_all, stop, Return,
         ResumeNotify, CancelAllClose, StopNotify, StopJoin
<1> QED
  BY <1>1, SocketsSettle

LEMMA IoKeepsAskInv ==
  ASSUME TypeOK, AskInv, IoStep
  PROVE  AskInv'
<1>0. Len(sockets) \in Nat /\ MaxSockets \in Nat /\ DOMAIN reads = 0..MaxSockets
  BY ConstantsAssumption DEF AskInv
<1>1. CASE StartRead
  <2>1. UNCHANGED <<sock, sockets, text>> /\ io' = "ask"
    BY <1>1 DEF StartRead, vars, sockVars
  <2>2. PICK s \in {0, sock} :
          reads' = IF Opened(s) THEN [reads EXCEPT ![s] = @ + 1] ELSE reads
    BY <1>1 DEF StartRead, SocketNamed
  <2>3. s \in 0..MaxSockets /\ s <= Len(sockets)
    BY <1>0, <2>2 DEF AskInv
  <2>4. reads' \in [0..MaxSockets -> Nat]
    BY <1>0, <2>2, <2>3 DEF AskInv
  <2>5. ASSUME NEW t \in 1..MaxSockets, t > Len(sockets) \/ sockets[t] = "fresh"
        PROVE  reads'[t] = 0
    <3>1. reads[t] = 0
      BY <2>5 DEF AskInv
    <3>2. t = s => ~Opened(s)
      BY <2>3, <2>5, <1>0 DEF Opened, StateOf
    <3> QED
      BY <1>0, <2>2, <2>3, <3>1, <3>2
  <2> QED
    BY <2>1, <2>4, <2>5 DEF AskInv
<1>2. CASE TryRequestHistory
  <2>1. UNCHANGED <<sock, sockets, text, reads>> /\ askedforhistory' = Asked
    BY <1>2 DEF TryRequestHistory, vars, sockVars
  <2>2. BothRead' => askedforhistory'
    BY <2>1 DEF BothRead, Asked, Opened, StateOf, IsOpen
  <2> QED
    BY <2>1, <2>2 DEF AskInv
<1>3. CASE \E s \in 0..Len(sockets) : EndRead(s)
  <2>1. PICK s \in 0..Len(sockets) : EndRead(s)
    BY <1>3
  <2>2. /\ UNCHANGED <<sock, sockets, text, io, askedforhistory>>
        /\ reads' = [reads EXCEPT ![s] = 0] /\ io = "run"
    BY <2>1 DEF EndRead, vars, sockVars
  <2>3. BothRead' => BothRead
    BY <1>0, <2>2 DEF BothRead, Opened, StateOf, IsOpen, AskInv
  <2> QED
    BY <1>0, <2>2, <2>3 DEF AskInv
<1>4. CASE Poll \/ HandleError \/ HandleConnect \/ RemoteEndpointThrows \/ RunOutOfWork
  <2>1. UNCHANGED <<sock, sockets, text, reads, askedforhistory>> /\ io # "ask"
    BY <1>4 DEF Poll, HandleError, HandleConnect, RemoteEndpointThrows, RunOutOfWork, vars, sockVars
  <2> QED
    BY <2>1 DEF AskInv, BothRead, Opened, StateOf, IsOpen
<1>5. CASE ResumeAfterConnect \/ NotifyAfterConnect
  <2>1. UNCHANGED <<text, reads, askedforhistory>> /\ io # "ask"
    BY <1>5 DEF ResumeAfterConnect, NotifyAfterConnect
  <2>2. Settles
    BY <1>5, CallsSettle, ThreadsAssumption DEF ResumeAfterConnect, NotifyAfterConnect, Return
  <2>3. BothRead' => BothRead
    BY <2>1, <2>2 DEF BothRead, Settles, AskInv, IsOpen, Opened, StateOf
  <2> QED
    BY <2>1, <2>2, <2>3 DEF AskInv, Settles
<1> QED
  BY <1>1, <1>2, <1>3, <1>4, <1>5 DEF IoStep

LEMMA ReconnectKeepsAskInv ==
  ASSUME TypeOK, AskInv, ReplaceFileSocket \/ ConnectFileSocket
  PROVE  AskInv'
<1>0. Len(sockets) \in Nat /\ MaxSockets \in Nat /\ DOMAIN sockets = 1..Len(sockets)
  BY ConstantsAssumption, LenProperties DEF TypeOK
<1>1. UNCHANGED <<text, reads, io, askedforhistory>>
  BY DEF ReplaceFileSocket, ConnectFileSocket, Then
<1>2. CASE ReplaceFileSocket
  <2>1. /\ Len(sockets) < MaxSockets /\ sock' = Len(sockets')
        /\ sockets' = Append(sockets, "fresh")
    BY <1>2 DEF ReplaceFileSocket, ReplaceSocket
  <2>2. /\ Len(sockets') = Len(sockets) + 1 /\ sock' = Len(sockets) + 1
        /\ sockets'[sock'] = "fresh" /\ \A s \in 1..Len(sockets) : sockets'[s] = sockets[s]
    BY <1>0, <2>1, AppendProperties DEF TypeOK
  <2>3. ~BothRead'
    BY <2>2 DEF BothRead, IsOpen
  <2> QED
    BY <1>0, <1>1, <2>1, <2>2, <2>3 DEF AskInv
<1>3. CASE ConnectFileSocket
  <2>1. /\ sock' = sock /\ sockets[sock] = "fresh"
        /\ sockets' = [sockets EXCEPT ![sock] = "connecting"]
    BY <1>3 DEF ConnectFileSocket, StartConnect
  <2>2. Len(sockets') = Len(sockets)
    BY <1>0, <2>1, ExceptSeq DEF TypeOK, AskInv
  <2>3. reads[sock] = 0
    BY <1>0, <2>1 DEF AskInv
  <2> QED
    BY <1>0, <1>1, <2>1, <2>2, <2>3 DEF AskInv, BothRead
<1> QED
  BY <1>2, <1>3

LEMMA AskInvStep ==
  ASSUME TypeOK, AskInv, [ClientNext]_cvars
  PROVE  AskInv'
<1>0. Cmd \in Callers
  BY ThreadsAssumption
<1>1. CASE IoStep
  BY <1>1, IoKeepsAskInv
<1>2. CASE ReplaceFileSocket \/ ConnectFileSocket
  BY <1>2, ReconnectKeepsAskInv
<1>3. CASE QueueCommand \/ ResumeReturns
  <2>1. UNCHANGED <<text, reads, io, askedforhistory>>
    BY <1>3 DEF QueueCommand, ResumeReturns, clientVars
  <2>2. Settles
    BY <1>0, <1>3, CallsSettle DEF QueueCommand, EnqueueFile, ResumeReturns, Return
  <2> QED
    BY <2>1, <2>2, SettlingKeepsAskInv
<1>4. CASE CancelAll \/ CancelQueue \/ CancelQueueReturns \/ DestroyQueue \/ QueueDestroyed
  <2>1. UNCHANGED <<text, reads, io, askedforhistory>>
    BY <1>4 DEF CancelAll, CancelQueue, CancelQueueReturns, DestroyQueue, QueueDestroyed, Then
  <2>2. Settles
    BY <1>0, <1>4, CallsSettle
    DEF CancelAll, CancelQueue, CancelQueueReturns, DestroyQueue, QueueDestroyed, Return
  <2> QED
    BY <2>1, <2>2, SettlingKeepsAskInv
<1>5. CASE CloseFileSocket \/ DisconnectFileSocket
  <2>1. UNCHANGED <<text, reads, io, askedforhistory>> /\ CloseSocket
    BY <1>5 DEF CloseFileSocket, DisconnectFileSocket, Then, Disconnect
  <2> QED
    BY <2>1, SocketsSettle, SettlingKeepsAskInv
<1>6. CASE Quit \/ JoinIo \/ TextNetwork
  <2>1. UNCHANGED <<sockVars, reads, io, askedforhistory>>
    BY <1>6 DEF Quit, JoinIo, TextNetwork, Then, vars
  <2>2. (text = "closed" => text' = "closed") /\ (text = "fresh" => text' \in {"fresh", "closed"})
    BY <1>6 DEF Quit, JoinIo, TextNetwork, TextClosed, Then
  <2>3. BothRead' => BothRead
    BY <2>1, <2>2 DEF sockVars, BothRead, IsOpen, Opened, StateOf
  <2> QED
    BY <2>1, <2>3 DEF AskInv, sockVars
<1>7. CASE QueueWorker \/ Surroundings
  <2>1. UNCHANGED <<text, reads, io, askedforhistory>>
    BY <1>7 DEF QueueWorker, Surroundings, clientVars
  <2>2. UNCHANGED sockVars \/ Connected \/ PeerLost
    BY <1>7 DEF QueueWorker, Surroundings, WorkerStep, OwnStep, SpuriousWakeup, WriteChunk,
                LoopHead, WaitFalse, Block, WaitStopped, PickNothing, Pick, Build, GetSocket,
                GiveUp, WriteFails, Finish
  <2> QED
    BY <2>1, <2>2, SocketsSettle, SettlingKeepsAskInv
<1>8. CASE UNCHANGED cvars
  <2>1. UNCHANGED <<sockVars, text, reads, io, askedforhistory>>
    BY <1>8 DEF cvars, vars, clientVars
  <2> QED
    BY <2>1 DEF AskInv, BothRead, sockVars, IsOpen, Opened, StateOf
<1> QED
  BY <1>1, <1>2, <1>3, <1>4, <1>5, <1>6, <1>7, <1>8 DEF ClientNext, CommandStep

\* try_request_history is called after each read is started, and asks as soon as both
\* sockets are open: a client that receives on both has asked, for any commands and any
\* number of reconnects.
THEOREM HistoryIsAsked == ClientSpec => []HistoryAsked
<1>1. AskInv => HistoryAsked
  BY DEF AskInv, BothRead, HistoryAsked
<1>2. TypeOK /\ AskInv /\ [ClientNext]_cvars => AskInv'
  BY AskInvStep
<1> QED
  BY <1>1, <1>2, InitAskInv, ClientUsesQueue, Typing, PTL DEF ClientSpec

-----------------------------------------------------------------------------
(* The variables keep their types, and the threads their places.           *)

\* ClientTypeOK but for the queue; a poll lists finitely many connects.
ThreadsOK ==
  /\ text \in {"connecting", "open", "broken", "closed"}
  /\ connects \subseteq [name : Names, sock : 0..Len(sockets)] /\ IsFiniteSet(connects)
  /\ ready \in Seq([name : Names, ok : BOOLEAN])
  /\ io \in {"run", "read", "ask", "resume", "notify", "returned", "dead"}
  /\ reads \in [0..MaxSockets -> Nat]
  /\ askedforhistory \in BOOLEAN
  /\ cmd \in {"prompt", "cancel", "closing", "close", "replace", "connect",
              "disconnect", "join", "destroy", "stopping", "gone"}
  /\ io \in {"read", "ask", "resume", "notify"} => ready # <<>>
  /\ cpc[Io] = "notify" <=> io = "notify"
  /\ cpc[Cmd] = "close" <=> cmd = "closing"
  /\ cpc[Cmd] \in {"stopping", "joining"} <=> cmd = "stopping"
  /\ cpc[Cmd] = "notify" => cmd = "prompt"

LEMMA GotoFacts ==
  ASSUME TypeOK, NEW c \in Callers, NEW pc, Goto(c, pc)
  PROVE  cpc'[c] = pc /\ \A d \in Callers : d # c => cpc'[d] = cpc[d]
  BY DEF TypeOK, Goto

\* No socket is ever forgotten.
LEMMA SocketsStay ==
  ASSUME TypeOK, [Next]_vars
  PROVE  Len(sockets) \in Nat /\ Len(sockets') \in Nat /\ Len(sockets) <= Len(sockets')
<1>0. Len(sockets) \in Nat /\ DOMAIN sockets = 1..Len(sockets)
  BY LenProperties DEF TypeOK
<1>1. CASE UNCHANGED sockVars \/ CloseSocket \/ Connected \/ PeerLost
  BY <1>0, <1>1, SocketsSettle DEF Settles
<1>2. CASE ReplaceSocket
  BY <1>0, <1>2, AppendProperties DEF ReplaceSocket, TypeOK
<1>3. CASE StartConnect
  <2>1. Len(sockets') = Len(sockets)
    BY <1>0, <1>3, ExceptSeq DEF StartConnect, TypeOK
  <2> QED BY <1>0, <2>1
<1>4. CASE Disconnect
  BY <1>1, <1>4 DEF Disconnect
<1>5. CASE \E c \in Callers : Call(c) \/ Return(c)
  <2>1. UNCHANGED sockVars \/ CloseSocket
    BY <1>5 DEF Call, enqueue, remove, retry, cancel, pause, resume, cancel_all, stop, Return,
                ResumeNotify, CancelAllClose, StopNotify, StopJoin
  <2> QED BY <1>1, <2>1
<1>6. CASE WorkerStep \/ WriteChunk \/ SpuriousWakeup
  <2>1. UNCHANGED sockVars
    BY <1>6 DEF WorkerStep, OwnStep, SpuriousWakeup, WriteChunk,
                LoopHead, WaitFalse, Block, WaitStopped, PickNothing, Pick, Build, GetSocket,
                GiveUp, WriteFails, Finish
  <2> QED BY <1>1, <2>1
<1>7. CASE UNCHANGED vars
  BY <1>1, <1>7 DEF vars
<1> QED BY <1>1, <1>2, <1>3, <1>4, <1>5, <1>6, <1>7 DEF Next

LEMMA InitThreadsOK == ClientInit => ThreadsOK
<1> SUFFICES ASSUME ClientInit PROVE ThreadsOK
  OBVIOUS
<1>1. /\ sockets = <<"connecting">> /\ Len(sockets) = 1
      /\ cpc = [c \in Callers |-> "idle"] /\ Cmd \in Callers /\ Io \in Callers
  BY ThreadsAssumption DEF ClientInit, Init
<1>2. connects = {[name |-> "TextSocket", sock |-> 0], [name |-> "FileSocket", sock |-> 1]}
  BY DEF ClientInit
<1>3. IsFiniteSet({}) /\ IsFiniteSet(connects)
  <2>1. IsFiniteSet({})
    BY FS_EmptySet
  <2>2. IsFiniteSet({} \cup {[name |-> "TextSocket", sock |-> 0]})
    BY <2>1, FS_AddElement
  <2>3. IsFiniteSet(({} \cup {[name |-> "TextSocket", sock |-> 0]})
                    \cup {[name |-> "FileSocket", sock |-> 1]})
    BY <2>2, FS_AddElement
  <2>4. connects = ({} \cup {[name |-> "TextSocket", sock |-> 0]})
                   \cup {[name |-> "FileSocket", sock |-> 1]}
    BY <1>2
  <2> QED BY <2>1, <2>3, <2>4
<1>4. connects \subseteq [name : Names, sock : 0..Len(sockets)]
  BY <1>1, <1>2 DEF Names
<1>5. reads \in [0..MaxSockets -> Nat] /\ ready = <<>> /\ io = "run" /\ cmd = "prompt"
      /\ askedforhistory = FALSE /\ text = "connecting"
  BY DEF ClientInit
<1>6. cpc[Io] = "idle" /\ cpc[Cmd] = "idle"
  BY <1>1
<1>7. ready \in Seq([name : Names, ok : BOOLEAN])
  BY <1>5
<1> QED BY <1>3, <1>4, <1>5, <1>6, <1>7 DEF ThreadsOK

LEMMA PollKeepsThreads ==
  ASSUME TypeOK, ThreadsOK, Poll
  PROVE  ThreadsOK'
<1>1. PICK done \in SUBSET connects :
        /\ \E order \in SetToSeqs(done) :
             ready' = [i \in DOMAIN order |-> [name |-> order[i].name,
                                               ok |-> StateOf(order[i].sock) = "open"]]
        /\ connects' = connects \ done
  BY DEF Poll
<1>2. UNCHANGED <<vars, text, io, reads, askedforhistory, cmd>> /\ io = "run"
  BY DEF Poll
<1>3. IsFiniteSet(done) /\ IsFiniteSet(connects') /\ Cardinality(done) \in Nat
  BY <1>1, FS_Subset, FS_CardinalityType DEF ThreadsOK
<1>4. PICK order \in SetToSeqs(done) :
        ready' = [i \in DOMAIN order |-> [name |-> order[i].name,
                                          ok |-> StateOf(order[i].sock) = "open"]]
  BY <1>1
<1>5. order \in [1..Cardinality(done) -> done]
  BY <1>4 DEF SetToSeqs
<1>6. \A a \in done : a.name \in Names
  BY <1>1 DEF ThreadsOK
<1>7. ready' \in [1..Cardinality(done) -> [name : Names, ok : BOOLEAN]]
  BY <1>4, <1>5, <1>6
<1>8. ready' \in Seq([name : Names, ok : BOOLEAN])
  BY <1>3, <1>7, SeqDef
<1>9. connects' \subseteq [name : Names, sock : 0..Len(sockets)']
  BY <1>1, <1>2 DEF ThreadsOK, vars, sockVars
<1> QED BY <1>2, <1>3, <1>8, <1>9 DEF ThreadsOK, vars

LEMMA IoKeepsThreads ==
  ASSUME TypeOK, AskInv', ThreadsOK, IoStep
  PROVE  ThreadsOK'
<1> DEFINE Ready == Seq([name : Names, ok : BOOLEAN])
<1>0. Cmd \in Callers /\ Io \in Callers /\ Cmd # Io
  BY ThreadsAssumption
<1>1. reads' \in [0..MaxSockets -> Nat]
  BY DEF AskInv
<1>2. /\ ready \in Ready
      /\ ready # <<>> => Tail(ready) \in Ready
  BY HeadTailProperties DEF ThreadsOK
<1> HIDE DEF Ready
<1>3. CASE Poll
  BY <1>3, PollKeepsThreads
<1>4. CASE HandleError \/ HandleConnect \/ RemoteEndpointThrows \/ RunOutOfWork
  <2>1. /\ UNCHANGED <<vars, text, connects, reads, askedforhistory, cmd>>
        /\ io = "run" /\ io' \in {"run", "read", "dead", "returned"}
        /\ io' = "read" => ready' # <<>>
        /\ ready' = ready \/ (ready # <<>> /\ ready' = Tail(ready))
    BY <1>4 DEF HandleError, HandleConnect, RemoteEndpointThrows, RunOutOfWork, Return_
  <2>2. ready' \in Ready
    BY <1>2, <2>1
  <2> QED BY <1>1, <2>1, <2>2 DEF ThreadsOK, Ready, vars, sockVars
<1>5. CASE StartRead
  <2>1. /\ UNCHANGED <<vars, text, connects, ready, askedforhistory, cmd>>
        /\ io = "read" /\ io' = "ask"
    BY <1>5 DEF StartRead
  <2> QED BY <1>1, <2>1 DEF ThreadsOK, vars, sockVars
<1>6. CASE TryRequestHistory
  <2>1. /\ UNCHANGED <<vars, text, connects, reads, cmd>> /\ io = "ask" /\ ready # <<>>
        /\ \/ io' = "resume" /\ ready' = ready
           \/ io' = "run" /\ ready' = Tail(ready)
    BY <1>6 DEF TryRequestHistory, Return_, ThreadsOK
  <2>2. askedforhistory' \in BOOLEAN
    BY <1>6 DEF TryRequestHistory, Asked, ThreadsOK
  <2>3. ready' \in Ready
    BY <1>2, <2>1
  <2> QED BY <1>1, <2>1, <2>2, <2>3 DEF ThreadsOK, Ready, vars, sockVars
<1>7. CASE ResumeAfterConnect
  <2>1. /\ UNCHANGED <<text, connects, ready, reads, askedforhistory, cmd, sockets>>
        /\ io = "resume" /\ io' = "notify" /\ Goto(Io, "notify")
    BY <1>7 DEF ResumeAfterConnect, resume, sockVars
  <2>2. cpc'[Io] = "notify" /\ cpc'[Cmd] = cpc[Cmd]
    BY <1>0, <2>1, GotoFacts
  <2> QED BY <1>1, <2>1, <2>2 DEF ThreadsOK
<1>8. CASE NotifyAfterConnect
  <2>1. /\ UNCHANGED <<text, connects, reads, askedforhistory, cmd, sockets>>
        /\ io = "notify" /\ io' = "run" /\ ready' = Tail(ready) /\ Goto(Io, "idle")
    BY <1>8 DEF NotifyAfterConnect, ResumeNotify, sockVars, Return_
  <2>2. cpc'[Io] = "idle" /\ cpc'[Cmd] = cpc[Cmd]
    BY <1>0, <2>1, GotoFacts
  <2>3. ready' \in Ready
    BY <1>2, <2>1 DEF ThreadsOK
  <2> QED BY <1>1, <2>1, <2>2, <2>3 DEF ThreadsOK, Ready
<1>9. CASE \E s \in 0..Len(sockets) : EndRead(s)
  <2>1. UNCHANGED <<vars, text, connects, ready, io, askedforhistory, cmd>>
    BY <1>9 DEF EndRead
  <2> QED BY <1>1, <2>1 DEF ThreadsOK, vars, sockVars
<1> QED BY <1>3, <1>4, <1>5, <1>6, <1>7, <1>8, <1>9 DEF IoStep

\* A step that does not concern the io thread.
LEMMA OthersKeepThreads ==
  ASSUME TypeOK, ThreadsOK, [Next]_vars, UNCHANGED <<ready, io, reads, askedforhistory, connects>>,
         text' \in {"connecting", "open", "broken", "closed"},
         cmd' \in {"prompt", "cancel", "closing", "close", "replace", "connect",
                   "disconnect", "join", "destroy", "stopping", "gone"},
         cpc'[Io] = cpc[Io],
         /\ cpc'[Cmd] = "close" <=> cmd' = "closing"
         /\ cpc'[Cmd] \in {"stopping", "joining"} <=> cmd' = "stopping"
         /\ cpc'[Cmd] = "notify" => cmd' = "prompt"
  PROVE  ThreadsOK'
<1>1. connects' \subseteq [name : Names, sock : 0..Len(sockets)']
  <2>1. Len(sockets) \in Nat /\ Len(sockets') \in Nat /\ Len(sockets) <= Len(sockets')
    BY SocketsStay
  <2>2. connects \subseteq [name : Names, sock : 0..Len(sockets)]
    BY DEF ThreadsOK
  <2> QED BY <2>1, <2>2
<1> QED BY <1>1 DEF ThreadsOK

LEMMA CommandKeepsThreads ==
  ASSUME TypeOK, ThreadsOK, [Next]_vars, QueueCommand \/ CancelAll \/ Quit \/ CommandStep
  PROVE  ThreadsOK'
<1> DEFINE
      Agree == /\ cpc'[Io] = cpc[Io]
               /\ cpc'[Cmd] = "close" <=> cmd' = "closing"
               /\ cpc'[Cmd] \in {"stopping", "joining"} <=> cmd' = "stopping"
               /\ cpc'[Cmd] = "notify" => cmd' = "prompt"
<1>0. Cmd \in Callers /\ Io \in Callers /\ Cmd # Io
  BY ThreadsAssumption
<1>1. CASE QueueCommand
  <2>1. UNCHANGED clientVars /\ cmd = "prompt" /\ cpc[Cmd] = "idle"
    BY <1>1 DEF QueueCommand, Command, Prompt
  <2>2. cpc' = cpc \/ Goto(Cmd, "notify")
    BY <1>1 DEF QueueCommand, EnqueueFile, enqueue, cancel, retry, pause, resume
  <2>3. Agree
    BY <1>0, <2>1, <2>2, GotoFacts DEF clientVars
  <2> QED BY <2>1, <2>3, OthersKeepThreads DEF clientVars, ThreadsOK
<1>2. CASE ResumeReturns
  <2>1. UNCHANGED clientVars /\ cmd = "prompt" /\ Goto(Cmd, "idle")
    BY <1>2 DEF ResumeReturns, ResumeNotify
  <2>2. Agree
    BY <1>0, <2>1, GotoFacts DEF clientVars
  <2> QED BY <2>1, <2>2, OthersKeepThreads DEF clientVars, ThreadsOK
<1>3. CASE CancelAll \/ Quit \/ CloseFileSocket \/ ReplaceFileSocket \/ DisconnectFileSocket
           \/ JoinIo
  <2>1. /\ UNCHANGED <<ready, io, reads, askedforhistory, connects, cpc>>
        /\ text' \in {text, "closed"}
        /\ \/ cmd = "prompt" /\ cpc[Cmd] = "idle" /\ cmd' \in {"cancel", "disconnect"}
           \/ cmd = "close" /\ cmd' = "replace"
           \/ cmd = "replace" /\ cmd' = "connect"
           \/ cmd = "disconnect" /\ cmd' = "join"
           \/ cmd = "join" /\ cmd' = "destroy"
    BY <1>3 DEF CancelAll, Quit, CloseFileSocket, ReplaceFileSocket, DisconnectFileSocket, JoinIo,
                Command, Prompt, Then, pause, Disconnect, ReplaceSocket, TextClosed, vars
  <2>2. Agree
    BY <2>1 DEF ThreadsOK
  <2>3. text' \in {"connecting", "open", "broken", "closed"}
    BY <2>1 DEF ThreadsOK
  <2>4. cmd' \in {"cancel", "disconnect", "replace", "connect", "join", "destroy"}
    BY <2>1
  <2> QED BY <2>1, <2>2, <2>3, <2>4, OthersKeepThreads
<1>4. CASE CancelQueue \/ CancelQueueReturns \/ DestroyQueue
  <2>1. /\ UNCHANGED <<ready, io, reads, askedforhistory, connects, text>>
        /\ \/ cmd' = "closing" /\ Goto(Cmd, "close")
           \/ cmd' = "close" /\ Goto(Cmd, "idle")
           \/ cmd' = "stopping" /\ Goto(Cmd, "stopping")
    BY <1>4 DEF CancelQueue, CancelQueueReturns, DestroyQueue, Then, cancel_all, CancelAllClose, stop
  <2>2. Agree
    BY <1>0, <2>1, GotoFacts
  <2> QED BY <2>1, <2>2, OthersKeepThreads DEF ThreadsOK
<1>5. CASE QueueDestroyed
  <2>1. /\ UNCHANGED <<ready, io, reads, askedforhistory, connects, text>>
        /\ \/ cmd' = "stopping" /\ Goto(Cmd, "joining")
           \/ cmd' = "gone" /\ Goto(Cmd, "idle")
    BY <1>5 DEF QueueDestroyed, Then, StopNotify, StopJoin
  <2>2. Agree
    BY <1>0, <2>1, GotoFacts
  <2> QED BY <2>1, <2>2, OthersKeepThreads DEF ThreadsOK
<1>6. CASE ConnectFileSocket
  <2>1. /\ UNCHANGED <<ready, io, reads, askedforhistory, text, cpc, sock>>
        /\ cmd = "connect" /\ cmd' = "prompt"
        /\ connects' = connects \cup {[name |-> "Reconnect", sock |-> sock]}
    BY <1>6 DEF ConnectFileSocket, StartConnect, Then
  <2>2. Len(sockets) \in Nat /\ Len(sockets') \in Nat /\ Len(sockets) <= Len(sockets')
        /\ sock \in 0..Len(sockets)
    BY SocketsStay DEF TypeOK
  <2>3. IsFiniteSet(connects')
    BY <2>1, FS_AddElement DEF ThreadsOK
  <2>4. connects' \subseteq [name : Names, sock : 0..Len(sockets)']
    <3>1. connects \subseteq [name : Names, sock : 0..Len(sockets)]
      BY DEF ThreadsOK
    <3> QED BY <2>1, <2>2, <3>1 DEF Names
  <2> QED BY <2>1, <2>3, <2>4 DEF ThreadsOK
<1> QED BY <1>1, <1>2, <1>3, <1>4, <1>5, <1>6 DEF CommandStep

LEMMA ThreadsOKStep ==
  ASSUME TypeOK, AskInv', ThreadsOK, [ClientNext]_cvars
  PROVE  ThreadsOK'
<1>0. [Next]_vars
  BY ClientStepIsQueueStep
<1>1. CASE IoStep
  BY <1>1, IoKeepsThreads
<1>2. CASE QueueCommand \/ CancelAll \/ Quit \/ CommandStep
  BY <1>0, <1>2, CommandKeepsThreads
<1>3. CASE TextNetwork
  <2>1. /\ UNCHANGED <<vars, connects, ready, io, reads, askedforhistory, cmd>>
        /\ text' \in {"open", "broken"}
    BY <1>3 DEF TextNetwork
  <2> QED BY <2>1 DEF ThreadsOK, vars, sockVars
<1>4. CASE QueueWorker \/ Surroundings
  <2>1. UNCHANGED clientVars
    BY <1>4 DEF QueueWorker, Surroundings
  <2>2. cpc' = cpc
    BY <1>4 DEF QueueWorker, Surroundings, WorkerStep, OwnStep, SpuriousWakeup, WriteChunk,
                LoopHead, WaitFalse, Block, WaitStopped, PickNothing, Pick, Build, GetSocket,
                GiveUp, WriteFails, Finish, Connected, PeerLost
  <2> QED BY <1>0, <2>1, <2>2, OthersKeepThreads DEF clientVars, ThreadsOK
<1>5. CASE UNCHANGED cvars
  BY <1>5 DEF cvars, clientVars, vars, sockVars, ThreadsOK
<1> QED BY <1>1, <1>2, <1>3, <1>4, <1>5 DEF ClientNext

\* Every variable of the client keeps its type, and the two threads are in a call of the
\* queue exactly when they are at the step that makes it, for any commands and any number
\* of reconnects (ClientServerConnectionManager.cpp).
THEOREM ClientTyping == ClientSpec => []ClientTypeOK
<1>1. TypeOK /\ ThreadsOK => ClientTypeOK
  BY DEF ThreadsOK, ClientTypeOK
<1>2. TypeOK /\ AskInv /\ [ClientNext]_cvars => AskInv'
  BY AskInvStep
<1>3. TypeOK /\ AskInv' /\ ThreadsOK /\ [ClientNext]_cvars => ThreadsOK'
  BY ThreadsOKStep
<1> QED
  BY <1>1, <1>2, <1>3, InitAskInv, InitThreadsOK, ClientUsesQueue, Typing, PTL DEF ClientSpec

-----------------------------------------------------------------------------
(* What quit leaves behind.                                                *)

Quitting == {"disconnect", "join", "destroy", "stopping", "gone"}

\* A socket is replaced once it is closed, and connected before the next command is read.
ClosedInv ==
  /\ \A s \in 1..Len(sockets) : s # sock => sockets[s] = "closed"
  /\ sockets[sock] = "fresh" => cmd = "connect"
  /\ cmd \in Quitting => text = "closed"
  /\ cmd \in Quitting \ {"disconnect"} => sockets[sock] = "closed"

\* A step that is not one of a reconnect or of a quit.
LEMMA SettlingKeepsClosed ==
  ASSUME AskInv, ClosedInv, Settles, text = "closed" => text' = "closed",
         \/ cmd' = cmd
         \/ cmd # "connect" /\ cmd' \notin Quitting
         \/ cmd \in Quitting \ {"disconnect"}
  PROVE  ClosedInv'
<1>1. Len(sockets) \in Nat /\ sock \in 1..Len(sockets)
  BY DEF AskInv
<1> QED
  BY <1>1 DEF ClosedInv, Settles, Quitting

LEMMA ClosedInvStep ==
  ASSUME TypeOK, AskInv, ClosedInv, [ClientNext]_cvars
  PROVE  ClosedInv'
<1>0. /\ Cmd \in Callers /\ Io \in Callers
      /\ Len(sockets) \in Nat /\ DOMAIN sockets = 1..Len(sockets) /\ sock \in 1..Len(sockets)
  BY ThreadsAssumption, LenProperties DEF AskInv, TypeOK
<1>1. CASE IoStep
  <2>1. UNCHANGED <<text, cmd>>
    BY <1>1 DEF IoStep, Poll, HandleError, HandleConnect, RemoteEndpointThrows, StartRead,
                TryRequestHistory, ResumeAfterConnect, NotifyAfterConnect, EndRead, RunOutOfWork
  <2>2. Settles
    <3>1. CASE ResumeAfterConnect \/ NotifyAfterConnect
      BY <1>0, <3>1, CallsSettle DEF ResumeAfterConnect, NotifyAfterConnect, Return
    <3>2. CASE UNCHANGED vars
      BY <3>2, SocketsSettle DEF vars
    <3> QED
      BY <1>1, <3>1, <3>2
      DEF IoStep, Poll, HandleError, HandleConnect, RemoteEndpointThrows, StartRead,
          TryRequestHistory, EndRead, RunOutOfWork
  <2> QED
    BY <2>1, <2>2, SettlingKeepsClosed
<1>2. CASE QueueCommand \/ ResumeReturns
  <2>1. UNCHANGED <<text, cmd>>
    BY <1>2 DEF QueueCommand, ResumeReturns, clientVars
  <2>2. Settles
    BY <1>0, <1>2, CallsSettle DEF QueueCommand, EnqueueFile, ResumeReturns, Return
  <2> QED
    BY <2>1, <2>2, SettlingKeepsClosed
<1>3. CASE CancelAll \/ CancelQueue \/ CancelQueueReturns
  <2>1. text' = text /\ cmd # "connect" /\ cmd' \notin Quitting
    BY <1>3 DEF CancelAll, CancelQueue, CancelQueueReturns, Command, Prompt, Then, Quitting
  <2>2. Settles
    BY <1>0, <1>3, CallsSettle DEF CancelAll, CancelQueue, CancelQueueReturns, Return
  <2> QED
    BY <2>1, <2>2, SettlingKeepsClosed
<1>4. CASE DestroyQueue \/ QueueDestroyed
  <2>1. text' = text /\ cmd \in Quitting \ {"disconnect"}
    BY <1>4 DEF DestroyQueue, QueueDestroyed, Quitting
  <2>2. Settles
    BY <1>0, <1>4, CallsSettle DEF DestroyQueue, QueueDestroyed, Return
  <2> QED
    BY <2>1, <2>2, SettlingKeepsClosed
<1>5. CASE CloseFileSocket
  <2>1. text' = text /\ cmd = "close" /\ cmd' = "replace" /\ CloseSocket
    BY <1>5 DEF CloseFileSocket, Then, Disconnect
  <2> QED
    BY <2>1, SocketsSettle, SettlingKeepsClosed DEF Quitting
<1>6. CASE ReplaceFileSocket
  <2>1. /\ text' = text /\ cmd' = "connect" /\ sockets[sock] = "closed"
        /\ sockets' = Append(sockets, "fresh") /\ sock' = Len(sockets')
    BY <1>6 DEF ReplaceFileSocket, ReplaceSocket, Then
  <2>2. /\ Len(sockets') = Len(sockets) + 1
        /\ \A s \in 1..Len(sockets) : sockets'[s] = sockets[s]
    BY <1>0, <2>1, AppendProperties DEF TypeOK
  <2>3. \A s \in 1..Len(sockets') : s # sock' => s \in 1..Len(sockets) /\ sockets[s] = "closed"
    BY <1>0, <2>1, <2>2 DEF ClosedInv
  <2> QED
    BY <2>1, <2>2, <2>3 DEF ClosedInv, Quitting
<1>7. CASE ConnectFileSocket
  <2>1. /\ text' = text /\ cmd' = "prompt" /\ sock' = sock
        /\ sockets' = [sockets EXCEPT ![sock] = "connecting"]
    BY <1>7 DEF ConnectFileSocket, StartConnect, Then
  <2>2. Len(sockets') = Len(sockets)
    BY <1>0, <2>1, ExceptSeq DEF TypeOK
  <2> QED
    BY <1>0, <2>1, <2>2 DEF ClosedInv, Quitting
<1>8. CASE Quit
  <2>1. /\ UNCHANGED <<sock, sockets>> /\ text' = "closed"
        /\ cmd = "prompt" /\ cmd' = "disconnect"
    BY <1>8 DEF Quit, Command, Prompt, Then, TextClosed, vars, sockVars
  <2> QED
    BY <2>1 DEF ClosedInv, Quitting
<1>9. CASE DisconnectFileSocket
  <2>1. text' = text /\ cmd = "disconnect" /\ cmd' = "join" /\ CloseSocket
    BY <1>9 DEF DisconnectFileSocket, Then, Disconnect
  <2>2. Settles
    BY <2>1, SocketsSettle
  <2>3. sockets'[sock] = "closed"
    <3>1. CASE IsOpen(sock)
      BY <1>0, <2>1, <3>1 DEF CloseSocket
    <3>2. CASE ~IsOpen(sock)
      BY <1>0, <2>1, <3>2 DEF CloseSocket, IsOpen, ClosedInv
    <3> QED
      BY <3>1, <3>2
  <2> QED
    BY <1>0, <2>1, <2>2, <2>3 DEF ClosedInv, Settles, Quitting
<1>10. CASE JoinIo
  <2>1. UNCHANGED <<sockVars, text>> /\ cmd \in Quitting \ {"disconnect"}
    BY <1>10 DEF JoinIo, Quitting, vars
  <2> QED
    BY <2>1, SocketsSettle, SettlingKeepsClosed
<1>11. CASE TextNetwork
  <2>1. UNCHANGED <<sockVars, cmd>> /\ text # "closed"
    BY <1>11 DEF TextNetwork, vars
  <2> QED
    BY <2>1, SocketsSettle, SettlingKeepsClosed
<1>12. CASE QueueWorker \/ Surroundings
  <2>1. UNCHANGED <<text, cmd>>
    BY <1>12 DEF QueueWorker, Surroundings, clientVars
  <2>2. UNCHANGED sockVars \/ Connected \/ PeerLost
    BY <1>12 DEF QueueWorker, Surroundings, WorkerStep, OwnStep, SpuriousWakeup, WriteChunk,
                 LoopHead, WaitFalse, Block, WaitStopped, PickNothing, Pick, Build, GetSocket,
                 GiveUp, WriteFails, Finish
  <2> QED
    BY <2>1, <2>2, SocketsSettle, SettlingKeepsClosed
<1>13. CASE UNCHANGED cvars
  BY <1>13, SocketsSettle, SettlingKeepsClosed DEF cvars, vars, clientVars
<1> QED
  BY <1>1, <1>2, <1>3, <1>4, <1>5, <1>6, <1>7, <1>8, <1>9, <1>10, <1>11, <1>12, <1>13
  DEF ClientNext, CommandStep

\* Disconnect ends the work of both threads by closing what they wait on: nothing is left
\* open, connecting or about to be, however many reconnects there were and wherever the
\* completion handlers are (ClientServerConnectionManager.cpp, ClientMain.cpp:140).
THEOREM NothingLeftOpen == ClientSpec => []QuitClosesAll
<1>1. ClientInit => ClosedInv
  BY DEF ClientInit, ClosedInv, Quitting
<1>2. TypeOK /\ AskInv /\ [ClientNext]_cvars => AskInv'
  BY AskInvStep
<1>3. TypeOK /\ AskInv /\ ClosedInv /\ [ClientNext]_cvars => ClosedInv'
  BY ClosedInvStep
<1>4. AskInv /\ ClosedInv => QuitClosesAll
  BY DEF AskInv, ClosedInv, Quitting, QuitClosesAll, StateOf
<1> QED
  BY <1>1, <1>2, <1>3, <1>4, InitAskInv, ClientUsesQueue, Typing, PTL DEF ClientSpec
-----------------------------------------------------------------------------
(* How many loops read a socket.                                           *)

\* A handler that has not started its read yet: the first in ready may have.
Pending(i) == ready[i].ok /\ (i = 1 => io \in {"run", "read"})
StartsText == \E i \in DOMAIN ready : Pending(i) /\ ready[i].name = "TextSocket"
StartsFile == \E i \in DOMAIN ready : Pending(i) /\ ready[i].name # "TextSocket"
\* The connect of this socket has not been reported.
Due(s) == \E a \in connects : a.sock = s

ConnectsOnce ==
  /\ \A a \in connects : a.name = "TextSocket" <=> a.sock = 0
  /\ \A a, b \in connects : a.sock = b.sock => a = b
  /\ \A s \in 1..Len(sockets) : Due(s) => sockets[s] # "fresh"
  /\ sockets[1] # "fresh"

\* Of the handlers of one poll at most one is of the text connection, and one of a file
\* connection: the others report that their socket was closed.
HandlersOnce ==
  /\ \A i, j \in DOMAIN ready :
       /\ ready[i].ok /\ ready[j].ok
       /\ ready[i].name = "TextSocket" <=> ready[j].name = "TextSocket"
       => i = j
  /\ io \in {"read", "ask", "resume", "notify"} => ready[1].ok

\* A read that is still to be started is one of the loops the bound allows.
LoopsInv ==
  /\ Due(0) \/ StartsText => reads[0] = 0
  /\ Due(0) => ~StartsText
  /\ Due(sock) \/ StartsFile => reads[sock] <= 1
  /\ Due(sock) /\ StartsFile => reads[sock] = 0 /\ sock # 1
  /\ sock = 1 /\ (Due(sock) \/ StartsFile) => reads[1] = 0
  /\ FewReadLoops

ReadsInv == ConnectsOnce /\ HandlersOnce /\ LoopsInv

LEMMA InitReadsInv == ClientInit => ReadsInv
<1> SUFFICES ASSUME ClientInit PROVE ReadsInv
  OBVIOUS
<1>1. /\ sockets = <<"connecting">> /\ Len(sockets) = 1 /\ sockets[1] = "connecting" /\ sock = 1
      /\ ready = <<>> /\ DOMAIN ready = {} /\ io = "run"
      /\ connects = {[name |-> "TextSocket", sock |-> 0], [name |-> "FileSocket", sock |-> 1]}
      /\ \A s \in 0..MaxSockets : reads[s] = 0
      /\ DOMAIN reads = 0..MaxSockets /\ MaxSockets \in Nat \ {0}
  BY ConstantsAssumption, ThreadsAssumption DEF ClientInit
<1>2. ~StartsText /\ ~StartsFile
  BY <1>1 DEF StartsText, StartsFile
<1>3. 0 \in DOMAIN reads /\ 1 \in DOMAIN reads
  BY <1>1
<1>4. FewReadLoops
  BY <1>1, <1>3 DEF FewReadLoops
<1>5. ConnectsOnce
  BY <1>1 DEF ConnectsOnce
<1>6. HandlersOnce
  BY <1>1 DEF HandlersOnce
<1>7. LoopsInv
  BY <1>1, <1>2, <1>3, <1>4 DEF LoopsInv
<1> QED
  BY <1>5, <1>6, <1>7 DEF ReadsInv

\* A step that starts no read, and gives none to be started.
LEMMA SettlingKeepsReads ==
  ASSUME TypeOK, AskInv, ReadsInv, Settles,
         connects' \subseteq connects, HandlersOnce',
         StartsText' => StartsText, StartsFile' => StartsFile,
         DOMAIN reads' = DOMAIN reads, reads' \in [0..MaxSockets -> Nat],
         \A s \in DOMAIN reads : reads'[s] = reads[s] \/ reads'[s] = 0
  PROVE  ReadsInv'
<1>1. /\ Len(sockets) \in Nat /\ sock' = sock /\ Len(sockets') = Len(sockets)
      /\ sock \in 1..Len(sockets) /\ Len(sockets) <= MaxSockets /\ MaxSockets \in Nat
      /\ DOMAIN reads = 0..MaxSockets /\ reads \in [0..MaxSockets -> Nat]
  BY ConstantsAssumption DEF AskInv, Settles
<1>2. 0 \in DOMAIN reads /\ 1 \in DOMAIN reads /\ sock \in DOMAIN reads
  BY <1>1
<1>3. \A s : Due(s)' => Due(s)
  BY DEF Due
<1>4. ConnectsOnce'
  <2>1. \A s \in 1..Len(sockets) : sockets'[s] = "fresh" => sockets[s] = "fresh"
    BY DEF Settles
  <2>2. 1 \in 1..Len(sockets)
    BY <1>1
  <2>3. ConnectsOnce
    BY DEF ReadsInv
  <2>4. \A a, b \in connects' : a.sock = b.sock => a = b
    BY <2>3 DEF ConnectsOnce
  <2>5. \A a \in connects' : a.name = "TextSocket" <=> a.sock = 0
    BY <2>3 DEF ConnectsOnce
  <2>6. \A s \in 1..Len(sockets) : Due(s)' => sockets'[s] # "fresh"
    BY <1>3, <2>1, <2>3 DEF ConnectsOnce
  <2>7. sockets'[1] # "fresh"
    BY <2>1, <2>2, <2>3 DEF ConnectsOnce
  <2> QED
    BY <1>1, <2>4, <2>5, <2>6, <2>7 DEF ConnectsOnce
<1>5. FewReadLoops'
  <2>1. /\ reads[0] <= 1 /\ reads[1] <= 1
        /\ \A s \in DOMAIN reads : reads[s] <= 2
    BY DEF ReadsInv, LoopsInv, FewReadLoops
  <2>2. reads'[0] <= 1 /\ reads'[1] <= 1
    BY <1>2, <2>1
  <2>3. \A s \in DOMAIN reads : reads'[s] <= 2
    BY <2>1
  <2> QED
    BY <2>2, <2>3 DEF FewReadLoops
<1>6. /\ reads[0] = 0 => reads'[0] = 0
      /\ reads[1] = 0 => reads'[1] = 0
      /\ reads[sock] = 0 => reads'[sock] = 0
      /\ reads[sock] <= 1 => reads'[sock] <= 1
  BY <1>1, <1>2
<1>7. LoopsInv
  BY DEF ReadsInv
<1>8. LoopsInv'
  BY <1>1, <1>3, <1>5, <1>6, <1>7 DEF LoopsInv
<1> QED
  BY <1>4, <1>8 DEF ReadsInv

\* The handlers queued, and how far the first is, stay as they are.
LEMMA StayKeepsHandlers ==
  ASSUME HandlersOnce, ready' = ready,
         io' \in {"run", "read"} => io \in {"run", "read"},
         io' \in {"read", "ask", "resume", "notify"} =>
           io \in {"read", "ask", "resume", "notify"} \/ ready[1].ok
  PROVE  HandlersOnce' /\ (StartsText' => StartsText) /\ (StartsFile' => StartsFile)
<1>1. \A i \in DOMAIN ready : Pending(i)' => Pending(i)
  BY DEF Pending
<1>2. HandlersOnce'
  <2>1. io' \in {"read", "ask", "resume", "notify"} => ready'[1].ok
    BY DEF HandlersOnce
  <2> QED
    BY <2>1 DEF HandlersOnce
<1> QED
  BY <1>1, <1>2 DEF StartsText, StartsFile

\* The first handler is done.
LEMMA ReturnKeepsHandlers ==
  ASSUME ThreadsOK, HandlersOnce, ready # <<>>, Return_
  PROVE  HandlersOnce' /\ (StartsText' => StartsText) /\ (StartsFile' => StartsFile)
<1>1. /\ ready \in Seq([name : Names, ok : BOOLEAN]) /\ ready' = Tail(ready) /\ io' = "run"
  BY DEF Return_, ThreadsOK
<1>2. /\ Len(ready) \in Nat /\ Len(ready') \in Nat /\ Len(ready') = Len(ready) - 1
      /\ DOMAIN ready = 1..Len(ready) /\ DOMAIN ready' = 1..Len(ready')
      /\ \A i \in DOMAIN ready' : ready'[i] = ready[i + 1]
  BY <1>1, HeadTailProperties, LenProperties
<1>3. \A i \in DOMAIN ready' : i + 1 \in DOMAIN ready /\ i + 1 # 1 /\ i \in Nat
  BY <1>2
<1>4. HandlersOnce'
  <2>1. ASSUME NEW i \in DOMAIN ready', NEW j \in DOMAIN ready', ready'[i].ok, ready'[j].ok,
               ready'[i].name = "TextSocket" <=> ready'[j].name = "TextSocket"
        PROVE  i = j
    <3>1. i + 1 = j + 1
      BY <1>2, <1>3, <2>1 DEF HandlersOnce
    <3> QED
      BY <1>3, <3>1
  <2> QED
    BY <1>1, <2>1 DEF HandlersOnce
<1>5. \A i \in DOMAIN ready' : Pending(i)' => Pending(i + 1) /\ ready'[i].name = ready[i + 1].name
  BY <1>2, <1>3 DEF Pending
<1>6. StartsText' => StartsText
  BY <1>3, <1>5 DEF StartsText
<1>7. StartsFile' => StartsFile
  BY <1>3, <1>5 DEF StartsFile
<1> QED
  BY <1>4, <1>6, <1>7

\* The connects a poll takes.
Polled == {a \in connects : StateOf(a.sock) # "connecting"}

\* A poll queues the handler of each connect it takes, once, in some order.
LEMMA PollTakes ==
  ASSUME ThreadsOK, Poll
  PROVE  \E order :
           /\ DOMAIN ready' = DOMAIN order
           /\ \A i \in DOMAIN order :
                /\ order[i] \in Polled
                /\ ready'[i] = [name |-> order[i].name, ok |-> StateOf(order[i].sock) = "open"]
           /\ \A i, j \in DOMAIN order : order[i] = order[j] => i = j
           /\ \A a \in Polled : \E i \in DOMAIN order : order[i] = a
<1> DEFINE n == Cardinality(Polled)
<1>1. PICK order \in SetToSeqs(Polled) :
        ready' = [i \in DOMAIN order |-> [name |-> order[i].name,
                                          ok |-> StateOf(order[i].sock) = "open"]]
  BY DEF Poll, Polled
<1>2. IsFiniteSet(Polled) /\ n \in Nat
  <2>1. Polled \in SUBSET connects /\ IsFiniteSet(connects)
    BY DEF Polled, ThreadsOK
  <2> QED
    BY <2>1, FS_Subset, FS_CardinalityType
<1>3. /\ order \in [1..n -> Polled] /\ DOMAIN order = 1..n
      /\ \A i, j \in 1..n : order[i] = order[j] => i = j
  BY <1>1 DEF SetToSeqs
<1>4. order \in Injection(1..n, Polled)
  BY <1>3 DEF Injection, IsInjective
<1>5. IsFiniteSet(1..n) /\ Cardinality(1..n) = n
  BY <1>2, FS_Interval
<1>6. order \in Surjection(1..n, Polled)
  BY <1>2, <1>4, <1>5, FS_Injection
<1>7. \A a \in Polled : \E i \in DOMAIN order : order[i] = a
  BY <1>3, <1>6 DEF Surjection
<1>8. \A i \in DOMAIN order : order[i] \in Polled
  BY <1>3
<1>9. DOMAIN ready' = DOMAIN order
  BY <1>1
<1>10. \A i \in DOMAIN order :
         ready'[i] = [name |-> order[i].name, ok |-> StateOf(order[i].sock) = "open"]
  BY <1>1
<1>11. \A i, j \in DOMAIN order : order[i] = order[j] => i = j
  BY <1>3
<1>12. \A i \in DOMAIN order :
         /\ order[i] \in Polled
         /\ ready'[i] = [name |-> order[i].name, ok |-> StateOf(order[i].sock) = "open"]
  BY <1>8, <1>10
<1> HIDE DEF n
<1> QED
  BY <1>7, <1>9, <1>11, <1>12

\* A poll finds at most one open connect of the text socket, and at most one of a file
\* socket, since those that were replaced are closed.
LEMMA PollKeepsReads ==
  ASSUME TypeOK, AskInv, ThreadsOK, ClosedInv, ReadsInv, Poll
  PROVE  ReadsInv'
<1>1. PICK order :
        /\ DOMAIN ready' = DOMAIN order
        /\ \A i \in DOMAIN order :
             /\ order[i] \in Polled
             /\ ready'[i] = [name |-> order[i].name, ok |-> StateOf(order[i].sock) = "open"]
        /\ \A i, j \in DOMAIN order : order[i] = order[j] => i = j
  BY PollTakes
<1>2. /\ connects' = connects \ Polled /\ Polled \subseteq connects
      /\ UNCHANGED <<sock, sockets, io, reads>> /\ io = "run" /\ ready = <<>>
  BY DEF Poll, Polled, vars, sockVars
<1>3. ConnectsOnce /\ LoopsInv
  BY DEF ReadsInv
<1>4. \A a \in connects : a.sock \in 0..Len(sockets) /\ a.name \in Names
  BY DEF ThreadsOK
<1>5. ~StartsText /\ ~StartsFile
  BY <1>2 DEF StartsText, StartsFile
<1>6. ASSUME NEW i \in DOMAIN ready', ready'[i].ok
      PROVE  /\ order[i] \in connects /\ order[i] \in Polled
             /\ ready'[i].name = order[i].name
             /\ ready'[i].name = "TextSocket" => order[i].sock = 0
             /\ ready'[i].name # "TextSocket" => order[i].sock = sock
  <2>1. /\ order[i] \in Polled /\ order[i] \in connects
        /\ ready'[i].name = order[i].name /\ StateOf(order[i].sock) = "open"
    <3>1. ready'[i] = [name |-> order[i].name, ok |-> StateOf(order[i].sock) = "open"]
      BY <1>1, <1>6
    <3>2. ready'[i].name = order[i].name /\ ready'[i].ok = (StateOf(order[i].sock) = "open")
      BY <3>1
    <3>3. order[i] \in Polled
      BY <1>1, <1>6
    <3> QED
      BY <1>2, <1>6, <3>2, <3>3
  <2>2. ready'[i].name = "TextSocket" <=> order[i].sock = 0
    BY <1>3, <2>1 DEF ConnectsOnce
  <2>3. order[i].sock # 0 => order[i].sock \in 1..Len(sockets) /\ sockets[order[i].sock] = "open"
    BY <1>4, <2>1, LenProperties DEF StateOf, TypeOK
  <2>4. order[i].sock # 0 => order[i].sock = sock
    BY <2>3 DEF ClosedInv
  <2> QED
    BY <2>1, <2>2, <2>4
<1>7. \A s : Due(s)' => Due(s)
  BY <1>2 DEF Due
<1>8. ConnectsOnce'
  <2>1. \A a, b \in connects' : a.sock = b.sock => a = b
    BY <1>2, <1>3 DEF ConnectsOnce
  <2>2. \A a \in connects' : a.name = "TextSocket" <=> a.sock = 0
    BY <1>2, <1>3 DEF ConnectsOnce
  <2> QED
    BY <1>2, <1>3, <1>7, <2>1, <2>2 DEF ConnectsOnce
<1>9. HandlersOnce'
  <2>1. ASSUME NEW i \in DOMAIN ready', NEW j \in DOMAIN ready', ready'[i].ok, ready'[j].ok,
               ready'[i].name = "TextSocket" <=> ready'[j].name = "TextSocket"
        PROVE  i = j
    <3>1. order[i].sock = order[j].sock /\ order[i] \in connects /\ order[j] \in connects
      BY <1>6, <2>1
    <3>2. order[i] = order[j]
      BY <1>3, <3>1 DEF ConnectsOnce
    <3> QED
      BY <1>1, <3>2
  <2> QED
    BY <1>2, <2>1 DEF HandlersOnce
<1>10. StartsText' => Due(0) /\ ~Due(0)'
  <2>1. SUFFICES ASSUME StartsText' PROVE Due(0) /\ ~Due(0)'
    OBVIOUS
  <2>2. PICK i \in DOMAIN ready' : ready'[i].ok /\ ready'[i].name = "TextSocket"
    BY <2>1 DEF StartsText, Pending
  <2>3. order[i] \in connects /\ order[i] \in Polled /\ order[i].sock = 0
    BY <1>6, <2>2
  <2> QED
    BY <1>2, <1>3, <2>3 DEF Due, ConnectsOnce
<1>11. StartsFile' => Due(sock) /\ ~Due(sock)'
  <2>1. SUFFICES ASSUME StartsFile' PROVE Due(sock) /\ ~Due(sock)'
    OBVIOUS
  <2>2. PICK i \in DOMAIN ready' : ready'[i].ok /\ ready'[i].name # "TextSocket"
    BY <2>1 DEF StartsFile, Pending
  <2>3. order[i] \in connects /\ order[i] \in Polled /\ order[i].sock = sock
    BY <1>6, <2>2
  <2> QED
    BY <1>2, <1>3, <2>3 DEF Due, ConnectsOnce
<1>12. Due(sock)' => Due(sock)
  BY <1>2 DEF Due
<1>13. FewReadLoops'
  BY <1>2, <1>3 DEF LoopsInv, FewReadLoops
<1>14. LoopsInv'
  BY <1>2, <1>3, <1>7, <1>10, <1>11, <1>12, <1>13 DEF LoopsInv
<1> QED
  BY <1>8, <1>9, <1>14 DEF ReadsInv

\* The one step that adds a loop takes it from those that are still to be started.
LEMMA StartKeepsReads ==
  ASSUME TypeOK, AskInv, ThreadsOK, ReadsInv, StartRead
  PROVE  ReadsInv'
<1>1. /\ UNCHANGED <<sock, sockets, connects, ready>> /\ io = "read" /\ io' = "ask"
      /\ reads' = IF Opened(SocketNamed(Handler.name))
                  THEN [reads EXCEPT ![SocketNamed(Handler.name)] = @ + 1] ELSE reads
  BY DEF StartRead, vars, sockVars
<1>2. /\ Len(sockets) \in Nat /\ sock \in 1..Len(sockets) /\ Len(sockets) <= MaxSockets
      /\ MaxSockets \in Nat /\ DOMAIN reads = 0..MaxSockets /\ reads \in [0..MaxSockets -> Nat]
  BY ConstantsAssumption DEF AskInv
<1>3. ConnectsOnce /\ HandlersOnce /\ LoopsInv
  BY DEF ReadsInv
<1>4. 1 \in DOMAIN ready /\ Handler = ready[1] /\ ready[1].ok /\ Pending(1)
  <2>1. ready # <<>> /\ ready \in Seq([name : Names, ok : BOOLEAN])
    BY <1>1 DEF ThreadsOK
  <2>2. ready[1].ok
    BY <1>1, <1>3 DEF HandlersOnce
  <2> QED
    BY <1>1, <2>1, <2>2, HeadTailProperties, LenProperties, EmptySeq DEF Handler, Pending
<1>5. \A i \in DOMAIN ready : Pending(i)' => Pending(i) /\ i # 1
  BY <1>1 DEF Pending
<1>6. ConnectsOnce' /\ HandlersOnce'
  <2>1. HandlersOnce'
    BY <1>1, <1>3, <1>4 DEF HandlersOnce
  <2>2. ConnectsOnce'
    BY <1>1, <1>3 DEF ConnectsOnce, Due
  <2> QED
    BY <2>1, <2>2
<1>7. (StartsText' => StartsText) /\ (StartsFile' => StartsFile)
  BY <1>1, <1>5 DEF StartsText, StartsFile
<1>8. \A s : Due(s)' <=> Due(s)
  BY <1>1 DEF Due
<1>9. Due(sock)' <=> Due(sock)
  BY <1>1 DEF Due
<1>10. CASE Handler.name = "TextSocket"
  <2>1. StartsText /\ reads[0] = 0 /\ ~Due(0)
    BY <1>3, <1>4, <1>10 DEF StartsText, LoopsInv
  <2>2. ~StartsText'
    BY <1>1, <1>3, <1>4, <1>5, <1>10 DEF StartsText, HandlersOnce, Pending
  <2>3. /\ reads'[0] \in {0, 1} /\ \A s \in DOMAIN reads : s # 0 => reads'[s] = reads[s]
        /\ DOMAIN reads' = DOMAIN reads
    BY <1>1, <1>2, <1>10, <2>1 DEF SocketNamed
  <2>4. reads'[1] = reads[1] /\ reads'[sock] = reads[sock]
    BY <1>2, <2>3
  <2>5. FewReadLoops'
    <3>1. reads[1] <= 1 /\ \A s \in DOMAIN reads : reads[s] <= 2
      BY <1>3 DEF LoopsInv, FewReadLoops
    <3>2. \A s \in DOMAIN reads : reads'[s] <= 2
      BY <2>3, <3>1
    <3>3. reads'[0] <= 1
      BY <2>3
    <3> QED
      BY <2>3, <2>4, <3>1, <3>2, <3>3 DEF FewReadLoops
  <2>6. LoopsInv'
    BY <1>1, <1>3, <1>7, <1>8, <1>9, <2>1, <2>2, <2>4, <2>5 DEF LoopsInv
  <2> QED
    BY <1>6, <2>6 DEF ReadsInv
<1>11. CASE Handler.name # "TextSocket"
  <2>1. StartsFile
    BY <1>4, <1>11 DEF StartsFile
  <2>2. ~StartsFile'
    BY <1>1, <1>3, <1>4, <1>5, <1>11 DEF StartsFile, HandlersOnce, Pending
  <2>3. /\ reads'[sock] \in {reads[sock], reads[sock] + 1}
        /\ \A s \in DOMAIN reads : s # sock => reads'[s] = reads[s]
        /\ DOMAIN reads' = DOMAIN reads
    BY <1>1, <1>2, <1>11 DEF SocketNamed
  <2>4. reads[sock] \in Nat /\ reads[sock] <= 1 /\ reads'[0] = reads[0] /\ sock \in DOMAIN reads
        /\ 1 \in DOMAIN reads
    BY <1>2, <1>3, <2>1, <2>3 DEF LoopsInv
  <2>5. Due(sock) => reads[sock] = 0 /\ sock # 1
    BY <1>3, <2>1 DEF LoopsInv
  <2>6. sock = 1 => reads[sock] = 0
    BY <1>3, <2>1 DEF LoopsInv
  <2>7. reads'[sock] <= 2 /\ (Due(sock) => reads'[sock] <= 1) /\ (sock = 1 => reads'[1] <= 1)
    BY <2>3, <2>4, <2>5, <2>6
  <2>8. FewReadLoops'
    <3>1. reads'[1] <= 1
      <4>1. CASE sock = 1
        BY <2>7, <4>1
      <4>2. CASE sock # 1
        BY <1>3, <2>3, <2>4, <4>2 DEF LoopsInv, FewReadLoops
      <4> QED
        BY <4>1, <4>2
    <3>2. \A s \in DOMAIN reads : reads'[s] <= 2
      BY <1>3, <2>3, <2>7 DEF LoopsInv, FewReadLoops
    <3>3. reads'[0] <= 1
      BY <1>3, <2>4 DEF LoopsInv, FewReadLoops
    <3> QED
      BY <2>3, <3>1, <3>2, <3>3 DEF FewReadLoops
  <2>9. LoopsInv'
    BY <1>1, <1>3, <1>7, <1>8, <1>9, <2>2, <2>4, <2>5, <2>7, <2>8 DEF LoopsInv
  <2> QED
    BY <1>6, <2>9 DEF ReadsInv
<1> QED
  BY <1>10, <1>11

\* Only a reconnect replaces or connects a socket.
LEMMA StepSettles ==
  ASSUME TypeOK, [ClientNext]_cvars
  PROVE  Settles \/ ReplaceFileSocket \/ ConnectFileSocket
<1>0. Cmd \in Callers /\ Io \in Callers
  BY ThreadsAssumption
<1>1. CASE IoStep
  <2>1. CASE ResumeAfterConnect \/ NotifyAfterConnect
    BY <1>0, <2>1, CallsSettle DEF ResumeAfterConnect, NotifyAfterConnect, Return
  <2>2. CASE UNCHANGED vars
    BY <2>2, SocketsSettle DEF vars
  <2> QED
    BY <1>1, <2>1, <2>2
    DEF IoStep, Poll, HandleError, HandleConnect, RemoteEndpointThrows, StartRead,
        TryRequestHistory, EndRead, RunOutOfWork
<1>2. CASE QueueCommand \/ ResumeReturns
  BY <1>0, <1>2, CallsSettle DEF QueueCommand, EnqueueFile, ResumeReturns, Return
<1>3. CASE CancelAll \/ CancelQueue \/ CancelQueueReturns \/ DestroyQueue \/ QueueDestroyed
  BY <1>0, <1>3, CallsSettle
  DEF CancelAll, CancelQueue, CancelQueueReturns, DestroyQueue, QueueDestroyed, Return
<1>4. CASE CloseFileSocket \/ DisconnectFileSocket
  BY <1>4, SocketsSettle DEF CloseFileSocket, DisconnectFileSocket, Disconnect
<1>5. CASE Quit \/ JoinIo \/ TextNetwork \/ UNCHANGED cvars
  <2>1. UNCHANGED sockVars
    BY <1>5 DEF Quit, JoinIo, TextNetwork, cvars, vars
  <2> QED
    BY <2>1, SocketsSettle
<1>6. CASE QueueWorker \/ Surroundings
  <2>1. UNCHANGED sockVars \/ Connected \/ PeerLost
    BY <1>6 DEF QueueWorker, Surroundings, WorkerStep, OwnStep, SpuriousWakeup, WriteChunk,
                LoopHead, WaitFalse, Block, WaitStopped, PickNothing, Pick, Build, GetSocket,
                GiveUp, WriteFails, Finish
  <2> QED
    BY <2>1, SocketsSettle
<1> QED
  BY <1>1, <1>2, <1>3, <1>4, <1>5, <1>6 DEF ClientNext, CommandStep

\* The handlers and the reads are the io thread's.
LEMMA OthersLeaveIo ==
  ASSUME [ClientNext]_cvars, ~IoStep
  PROVE  UNCHANGED <<ready, io, reads>> /\ (connects' = connects \/ ConnectFileSocket)
  BY DEF ClientNext, QueueCommand, CancelAll, Quit, CommandStep, ResumeReturns, CancelQueue,
         CancelQueueReturns, CloseFileSocket, ReplaceFileSocket, ConnectFileSocket,
         DisconnectFileSocket, JoinIo, DestroyQueue, QueueDestroyed, Then, TextNetwork,
         QueueWorker, Surroundings, cvars, clientVars

LEMMA IoKeepsReads ==
  ASSUME TypeOK, AskInv, AskInv', ThreadsOK, ClosedInv, ReadsInv, Settles, IoStep
  PROVE  ReadsInv'
<1>0. /\ HandlersOnce /\ reads' \in [0..MaxSockets -> Nat] /\ DOMAIN reads = 0..MaxSockets
      /\ DOMAIN reads' = DOMAIN reads
  BY DEF ReadsInv, AskInv
<1>1. CASE Poll
  BY <1>1, PollKeepsReads
<1>2. CASE StartRead
  BY <1>2, StartKeepsReads
<1>3. CASE HandleError \/ NotifyAfterConnect \/ (TryRequestHistory /\ Return_)
  <2>1. UNCHANGED <<connects, reads>> /\ Return_ /\ ready # <<>>
    BY <1>3 DEF HandleError, NotifyAfterConnect, TryRequestHistory, ThreadsOK
  <2>2. HandlersOnce' /\ (StartsText' => StartsText) /\ (StartsFile' => StartsFile)
    BY <1>0, <2>1, ReturnKeepsHandlers
  <2> QED
    BY <1>0, <2>1, <2>2, SettlingKeepsReads
<1>4. CASE HandleConnect
  <2>1. UNCHANGED <<connects, reads, ready>> /\ io = "run" /\ io' = "read" /\ ready # <<>> /\ Handler.ok
    BY <1>4 DEF HandleConnect
  <2>2. Handler = ready[1]
    BY <2>1, HeadTailProperties DEF Handler, ThreadsOK
  <2>3. HandlersOnce' /\ (StartsText' => StartsText) /\ (StartsFile' => StartsFile)
    BY <1>0, <2>1, <2>2, StayKeepsHandlers
  <2> QED
    BY <1>0, <2>1, <2>3, SettlingKeepsReads
<1>5. CASE RemoteEndpointThrows \/ RunOutOfWork \/ ResumeAfterConnect
           \/ (TryRequestHistory /\ ~Return_)
  <2>1. /\ UNCHANGED <<connects, reads, ready>>
        /\ \/ io' \in {"dead", "returned"}
           \/ io \in {"resume", "ask"} /\ io' \in {"notify", "resume"}
    BY <1>5 DEF RemoteEndpointThrows, RunOutOfWork, ResumeAfterConnect, TryRequestHistory
  <2>2. HandlersOnce' /\ (StartsText' => StartsText) /\ (StartsFile' => StartsFile)
    BY <1>0, <2>1, StayKeepsHandlers
  <2> QED
    BY <1>0, <2>1, <2>2, SettlingKeepsReads
<1>6. CASE \E s \in 0..Len(sockets) : EndRead(s)
  <2>1. PICK s \in 0..Len(sockets) : EndRead(s)
    BY <1>6
  <2>2. UNCHANGED <<connects, ready, io>> /\ reads' = [reads EXCEPT ![s] = 0]
    BY <2>1 DEF EndRead
  <2>3. HandlersOnce' /\ (StartsText' => StartsText) /\ (StartsFile' => StartsFile)
    BY <1>0, <2>2, StayKeepsHandlers
  <2>4. \A t \in DOMAIN reads : reads'[t] = reads[t] \/ reads'[t] = 0
    BY <1>0, <2>2
  <2> QED
    BY <1>0, <2>2, <2>3, <2>4, SettlingKeepsReads
<1> QED
  BY <1>1, <1>2, <1>3, <1>4, <1>5, <1>6 DEF IoStep

\* A new file socket is not read yet; its own connect and a handler that is still queued
\* are the two loops it can have.
LEMMA ReconnectKeepsReads ==
  ASSUME TypeOK, AskInv, ThreadsOK, ClosedInv, ReadsInv,
         ReplaceFileSocket \/ ConnectFileSocket, UNCHANGED <<ready, io, reads>>
  PROVE  ReadsInv'
<1>1. /\ Len(sockets) \in Nat /\ DOMAIN sockets = 1..Len(sockets) /\ sock \in 1..Len(sockets)
      /\ Len(sockets) <= MaxSockets /\ MaxSockets \in Nat /\ DOMAIN reads = 0..MaxSockets
      /\ reads \in [0..MaxSockets -> Nat]
  BY ConstantsAssumption, LenProperties DEF AskInv, TypeOK
<1>2. ConnectsOnce /\ LoopsInv /\ HandlersOnce
  BY DEF ReadsInv
<1>3. HandlersOnce' /\ (StartsText' => StartsText) /\ (StartsFile' => StartsFile)
  BY <1>2, StayKeepsHandlers
<1>4. FewReadLoops'
  BY <1>2 DEF LoopsInv, FewReadLoops
<1>5. \A a \in connects : a.sock \in 0..Len(sockets) /\ a.name \in Names
  BY DEF ThreadsOK
<1>6. CASE ReplaceFileSocket
  <2>1. /\ connects' = connects /\ sock' = Len(sockets') /\ Len(sockets) < MaxSockets
        /\ sockets' = Append(sockets, "fresh")
    BY <1>6 DEF ReplaceFileSocket, ReplaceSocket
  <2>2. /\ Len(sockets') = Len(sockets) + 1 /\ sock' = Len(sockets) + 1
        /\ \A s \in 1..Len(sockets) : sockets'[s] = sockets[s]
    BY <1>1, <2>1, AppendProperties DEF TypeOK
  <2>3. ~Due(sock)' /\ sock' # 1 /\ reads'[sock'] = 0
    <3>1. ~Due(sock)'
      BY <1>1, <1>5, <2>1, <2>2 DEF Due
    <3>2. sock' # 1
      BY <1>1, <2>2
    <3>3. sock' \in 1..MaxSockets /\ sock' > Len(sockets)
      BY <1>1, <2>1, <2>2
    <3>4. reads[sock'] = 0
      BY <3>3 DEF AskInv
    <3> QED
      BY <3>1, <3>2, <3>4
  <2>4. \A s : Due(s)' <=> Due(s)
    BY <2>1 DEF Due
  <2>5. \A s \in 1..Len(sockets') : Due(s)' => s \in 1..Len(sockets)
    BY <1>1, <1>5, <2>1, <2>2 DEF Due
  <2>6. ConnectsOnce'
    <3>1. \A s \in 1..Len(sockets') : Due(s)' => sockets'[s] # "fresh"
      BY <1>2, <2>2, <2>4, <2>5 DEF ConnectsOnce
    <3>2. sockets'[1] # "fresh"
      BY <1>1, <1>2, <2>2 DEF ConnectsOnce
    <3> QED
      BY <1>2, <2>1, <3>1, <3>2 DEF ConnectsOnce
  <2>7. LoopsInv'
    BY <1>2, <1>3, <1>4, <2>3, <2>4 DEF LoopsInv
  <2> QED
    BY <1>3, <2>6, <2>7 DEF ReadsInv
<1>7. CASE ConnectFileSocket
  <2>1. /\ sock' = sock /\ sockets[sock] = "fresh"
        /\ sockets' = [sockets EXCEPT ![sock] = "connecting"]
        /\ connects' = connects \cup {[name |-> "Reconnect", sock |-> sock]}
    BY <1>7 DEF ConnectFileSocket, StartConnect
  <2>2. Len(sockets') = Len(sockets)
    BY <1>1, <2>1, ExceptSeq DEF TypeOK
  <2>3. ~Due(sock) /\ sock # 1 /\ reads[sock] = 0
    BY <1>1, <1>2, <2>1 DEF ConnectsOnce, AskInv
  <2>4. \A s : Due(s)' <=> Due(s) \/ s = sock
    <3> DEFINE new == [name |-> "Reconnect", sock |-> sock]
    <3>1. new.sock = sock /\ \A a : a \in connects' <=> a \in connects \/ a = new
      BY <2>1
    <3> HIDE DEF new
    <3> QED
      BY <3>1 DEF Due
  <2>5. Due(0)' <=> Due(0)
    BY <1>1, <2>4
  <2>6. ConnectsOnce'
    <3>1. \A a \in connects' : a.name = "TextSocket" <=> a.sock = 0
      BY <1>1, <1>2, <2>1 DEF ConnectsOnce
    <3>2. \A a, b \in connects' : a.sock = b.sock => a = b
      BY <1>2, <2>1, <2>3 DEF ConnectsOnce, Due
    <3>3. \A s \in 1..Len(sockets) : Due(s)' => sockets'[s] # "fresh"
      BY <1>1, <1>2, <2>1, <2>4 DEF ConnectsOnce
    <3>4. sockets'[1] # "fresh"
      BY <1>1, <1>2, <2>1 DEF ConnectsOnce
    <3> QED
      BY <2>2, <3>1, <3>2, <3>3, <3>4 DEF ConnectsOnce
  <2>7. LoopsInv'
    BY <1>2, <1>3, <1>4, <2>1, <2>3, <2>5 DEF LoopsInv
  <2> QED
    BY <1>3, <2>6, <2>7 DEF ReadsInv
<1> QED
  BY <1>6, <1>7

LEMMA ReadsInvStep ==
  ASSUME TypeOK, AskInv, AskInv', ThreadsOK, ClosedInv, ReadsInv, [ClientNext]_cvars
  PROVE  ReadsInv'
<1>1. CASE IoStep
  <2>1. Settles
    BY <1>1, StepSettles DEF ReplaceFileSocket, ConnectFileSocket, Then, IoStep, Poll, HandleError,
       HandleConnect, RemoteEndpointThrows, StartRead, TryRequestHistory, ResumeAfterConnect,
       NotifyAfterConnect, EndRead, RunOutOfWork
  <2> QED
    BY <1>1, <2>1, IoKeepsReads
<1>2. CASE ~IoStep
  <2>1. UNCHANGED <<ready, io, reads>> /\ (connects' = connects \/ ConnectFileSocket)
    BY <1>2, OthersLeaveIo
  <2>2. CASE ReplaceFileSocket \/ ConnectFileSocket
    BY <2>1, <2>2, ReconnectKeepsReads
  <2>3. CASE Settles /\ connects' = connects
    <3>1. HandlersOnce' /\ (StartsText' => StartsText) /\ (StartsFile' => StartsFile)
      BY <2>1, StayKeepsHandlers DEF ReadsInv, HandlersOnce
    <3> QED
      BY <2>1, <2>3, <3>1, SettlingKeepsReads DEF AskInv
  <2> QED
    BY <2>1, <2>2, <2>3, StepSettles
<1> QED
  BY <1>1, <1>2

LEMMA ClientInvariant == ClientSpec => [](AskInv /\ ThreadsOK /\ ReadsInv)
<1>1. TypeOK /\ AskInv /\ [ClientNext]_cvars => AskInv'
  BY AskInvStep
<1>2. TypeOK /\ AskInv' /\ ThreadsOK /\ [ClientNext]_cvars => ThreadsOK'
  BY ThreadsOKStep
<1>3. ClientInit => ClosedInv
  BY DEF ClientInit, ClosedInv, Quitting
<1>4. TypeOK /\ AskInv /\ ClosedInv /\ [ClientNext]_cvars => ClosedInv'
  BY ClosedInvStep
<1>5. TypeOK /\ AskInv /\ AskInv' /\ ThreadsOK /\ ClosedInv /\ ReadsInv /\ [ClientNext]_cvars
      => ReadsInv'
  BY ReadsInvStep
<1> QED
  BY <1>1, <1>2, <1>3, <1>4, <1>5, InitAskInv, InitThreadsOK, InitReadsInv,
     ClientUsesQueue, Typing, PTL DEF ClientSpec

\* handle_connect starts a read on whatever the file socket is by then; still no socket
\* gets a third loop, and the two the program begins with get one each, for any commands
\* and any number of reconnects (ClientServerConnectionManager.cpp:64, 301).
THEOREM NoThirdReadLoop == ClientSpec => []FewReadLoops
<1>1. ReadsInv => FewReadLoops
  BY DEF ReadsInv, LoopsInv
<1> QED
  BY <1>1, ClientInvariant, PTL

-----------------------------------------------------------------------------
(* A paused queue is resumed by the reconnect.                             *)

\* The handlers behind the first move up when it returns.
LEMMA ReturnKeepsToResume ==
  ASSUME ThreadsOK, Return_, NEW i \in DOMAIN ready, i # 1, ToResume(i)
  PROVE  Reconnecting'
<1>1. /\ ready \in Seq([name : Names, ok : BOOLEAN]) /\ ready # <<>>
      /\ ready' = Tail(ready) /\ io' = "run"
  BY EmptySeq DEF Return_, ThreadsOK
<1>2. /\ Len(ready) \in Nat /\ Len(ready') = Len(ready) - 1
      /\ DOMAIN ready = 1..Len(ready) /\ DOMAIN ready' = 1..Len(ready')
      /\ \A j \in DOMAIN ready' : ready'[j] = ready[j + 1]
  BY <1>1, HeadTailProperties, LenProperties
<1>3. i - 1 \in DOMAIN ready' /\ (i - 1) + 1 = i
  BY <1>2
<1>4. ready'[i - 1] = ready[i]
  BY <1>2, <1>3
<1>5. ToResume(i - 1)'
  BY <1>1, <1>4 DEF ToResume
<1> QED
  BY <1>1, <1>3, <1>5 DEF Reconnecting, Ended

\* A poll that takes the connect of the file socket queues its handler, if it is open.
LEMMA PollKeepsReason ==
  ASSUME TypeOK, AskInv, ThreadsOK, ReadsInv, Poll,
         [name |-> "Reconnect", sock |-> sock] \in connects
  PROVE  Reason'
<1> DEFINE a == [name |-> "Reconnect", sock |-> sock]
<1>1. PICK order :
        /\ DOMAIN ready' = DOMAIN order
        /\ \A i \in DOMAIN order :
             /\ order[i] \in Polled
             /\ ready'[i] = [name |-> order[i].name, ok |-> StateOf(order[i].sock) = "open"]
        /\ \A b \in Polled : \E i \in DOMAIN order : order[i] = b
  BY PollTakes
<1>2. /\ connects' = connects \ Polled /\ io = "run"
      /\ UNCHANGED <<sock, sockets, io>>
  BY DEF Poll, Polled, vars, sockVars
<1>3. /\ sock \in 1..Len(sockets) /\ a.sock = sock /\ a.name = "Reconnect" /\ sock # 0
      /\ StateOf(sock) = sockets[sock]
  BY LenProperties DEF AskInv, StateOf, TypeOK
<1>4. CASE a \notin Polled
  BY <1>2, <1>4 DEF Reason, Reconnecting, Ended
<1>5. CASE a \in Polled /\ sockets[sock] # "open"
  <2>1. sockets[sock] \in {"broken", "closed"}
    <3>1. sockets[sock] # "fresh"
      BY <1>3 DEF ReadsInv, ConnectsOnce, Due
    <3>2. sockets[sock] # "connecting"
      BY <1>3, <1>5 DEF Polled
    <3>3. sockets[sock] \in {"fresh", "connecting", "open", "broken", "closed"}
      BY <1>3, ElementOfSeq DEF TypeOK
    <3> QED
      BY <1>5, <3>1, <3>2, <3>3
  <2> QED
    BY <1>2, <2>1 DEF Reason, Lost
<1>6. CASE a \in Polled /\ sockets[sock] = "open"
  <2>1. PICK i \in DOMAIN order : order[i] = a
    BY <1>1, <1>6
  <2>2. ready'[i] = [name |-> a.name, ok |-> StateOf(a.sock) = "open"]
    BY <1>1, <2>1
  <2>3. ready'[i].name = "Reconnect" /\ ready'[i].ok
    <3>1. StateOf(a.sock) = "open"
      BY <1>3, <1>6
    <3> HIDE DEF a
    <3>2. ready'[i].name = a.name /\ ready'[i].ok = (StateOf(a.sock) = "open")
      BY <2>2
    <3> QED
      BY <1>3, <3>1, <3>2
  <2>4. ToResume(i)'
    BY <1>2, <2>3 DEF ToResume
  <2>5. i \in DOMAIN ready'
    BY <1>1
  <2> QED
    BY <1>2, <2>4, <2>5 DEF Reason, Reconnecting, Ended
<1> QED
  BY <1>4, <1>5, <1>6

LEMMA IoKeepsReason ==
  ASSUME TypeOK, AskInv, ThreadsOK, ReadsInv, Settles, IoStep, Reason, paused_'
  PROVE  Reason'
<1>1. ~Ended /\ cmd' = cmd
  BY DEF Ended, IoStep, Poll, HandleError, HandleConnect, RemoteEndpointThrows, StartRead,
         TryRequestHistory, ResumeAfterConnect, NotifyAfterConnect, EndRead, RunOutOfWork
<1>2. CASE sockets[sock] \in {"broken", "closed"}
  <2>1. sock \in 1..Len(sockets)
    BY DEF AskInv
  <2> QED
    BY <1>2, <2>1 DEF Settles, Reason, Lost
<1>3. CASE cmd \in {"cancel", "closing", "close", "replace", "connect"}
  BY <1>1, <1>3 DEF Reason, Reconnecting
<1>4. CASE Ended'
  BY <1>4 DEF Reason, Lost
<1>5. CASE [name |-> "Reconnect", sock |-> sock] \in connects /\ ~Ended'
  <2>1. CASE Poll
    BY <1>5, <2>1, PollKeepsReason
  <2>2. CASE ~Poll
    <3>1. connects' = connects /\ sock' = sock
      BY <2>2 DEF IoStep, HandleError, HandleConnect, RemoteEndpointThrows, StartRead,
         TryRequestHistory, ResumeAfterConnect, NotifyAfterConnect, EndRead, RunOutOfWork, Settles
    <3> QED
      BY <1>5, <3>1 DEF Reason, Reconnecting
  <2> QED
    BY <2>1, <2>2
<1>6. CASE (\E i \in DOMAIN ready : ToResume(i)) /\ ~Ended'
  <2>1. PICK i \in DOMAIN ready : ToResume(i)
    BY <1>6
  <2>2. ready # <<>> /\ Handler = ready[1] /\ DOMAIN ready = 1..Len(ready)
    <3>1. ready # <<>> /\ ready \in Seq([name : Names, ok : BOOLEAN])
      BY <2>1 DEF ThreadsOK
    <3> QED
      BY <3>1, HeadTailProperties, LenProperties DEF Handler
  <2>3. CASE HandleError \/ NotifyAfterConnect
    <3>1. i # 1 /\ Return_
      BY <2>1, <2>2, <2>3 DEF HandleError, NotifyAfterConnect, ToResume
    <3> QED
      BY <2>1, <3>1, ReturnKeepsToResume DEF Reason
  <2>4. CASE TryRequestHistory
    <3>1. CASE Handler.name = "Reconnect"
      <4>1. ready' = ready /\ io' = "resume"
        BY <2>4, <3>1 DEF TryRequestHistory
      <4>2. ToResume(i)'
        BY <2>1, <4>1 DEF ToResume
      <4> QED
        BY <2>1, <4>1, <4>2 DEF Reason, Reconnecting, Ended
    <3>2. CASE Handler.name # "Reconnect"
      <4>1. i # 1 /\ Return_
        BY <2>1, <2>2, <2>4, <3>2 DEF TryRequestHistory, ToResume
      <4> QED
        BY <2>1, <4>1, ReturnKeepsToResume DEF Reason
    <3> QED
      BY <3>1, <3>2
  <2>5. CASE HandleConnect \/ StartRead \/ \E s \in 0..Len(sockets) : EndRead(s)
    <3>1. ready' = ready /\ io' # "notify"
      BY <2>5 DEF HandleConnect, StartRead, EndRead
    <3>2. ToResume(i)'
      BY <2>1, <3>1 DEF ToResume
    <3> QED
      BY <1>6, <2>1, <3>1, <3>2 DEF Reason, Reconnecting
  <2>6. CASE Poll \/ RemoteEndpointThrows \/ RunOutOfWork \/ ResumeAfterConnect
    BY <1>6, <2>2, <2>6 DEF Poll, RemoteEndpointThrows, RunOutOfWork, ResumeAfterConnect, resume, Ended
  <2> QED
    BY <2>3, <2>4, <2>5, <2>6 DEF IoStep
<1> QED
  BY <1>1, <1>2, <1>3, <1>4, <1>5, <1>6 DEF Reason, Reconnecting, Lost

\* /cancelall goes on to the connect.
LEMMA OthersKeepReason ==
  ASSUME TypeOK, AskInv, [ClientNext]_cvars, ~IoStep, Reason
  PROVE  Reason'
<1>1. UNCHANGED <<ready, io>> /\ (connects' = connects \/ ConnectFileSocket)
  BY OthersLeaveIo
<1>2. CASE ConnectFileSocket
  <2>1. [name |-> "Reconnect", sock |-> sock'] \in connects'
    BY <1>2 DEF ConnectFileSocket, StartConnect
  <2> QED
    BY <2>1 DEF Reason, Reconnecting, Lost
<1>3. CASE ReplaceFileSocket
  BY <1>3 DEF ReplaceFileSocket, Then, Reason, Reconnecting
<1>4. CASE Settles /\ connects' = connects /\ ~ConnectFileSocket
  <2>1. CASE cmd \in {"cancel", "closing", "close", "replace", "connect"}
    <3>1. cmd' \in {"cancel", "closing", "close", "replace", "connect"}
      BY <1>4, <2>1
      DEF ClientNext, QueueCommand, Command, Prompt, CancelAll, Quit, CommandStep, ResumeReturns,
          CancelQueue, CancelQueueReturns, CloseFileSocket, ReplaceFileSocket,
          DisconnectFileSocket, JoinIo, DestroyQueue, QueueDestroyed, Then, TextNetwork,
          QueueWorker, Surroundings, cvars, clientVars
    <3> QED
      BY <3>1 DEF Reason, Reconnecting
  <2>2. CASE Ended
    BY <1>1, <2>2 DEF Ended, Reason, Lost
  <2>3. CASE sockets[sock] \in {"broken", "closed"}
    <3>1. sock \in 1..Len(sockets)
      BY DEF AskInv
    <3> QED
      BY <1>4, <2>3, <3>1 DEF Settles, Reason, Lost
  <2>4. CASE [name |-> "Reconnect", sock |-> sock] \in connects
    BY <1>1, <1>4, <2>4 DEF Settles, Reason, Reconnecting, Lost, Ended
  <2>5. CASE \E i \in DOMAIN ready : ToResume(i)
    <3>1. PICK i \in DOMAIN ready : ToResume(i)
      BY <2>5
    <3>2. ToResume(i)' /\ i \in DOMAIN ready'
      BY <1>1, <3>1 DEF ToResume
    <3> QED
      BY <3>2 DEF Reason, Reconnecting, Lost
  <2> QED
    BY <2>1, <2>2, <2>3, <2>4, <2>5 DEF Reason, Reconnecting, Lost
<1> QED
  BY <1>1, <1>2, <1>3, <1>4, StepSettles

LEMMA ReasonStep ==
  ASSUME TypeOK, AskInv, ThreadsOK, ReadsInv, [ClientNext]_cvars
  PROVE  paused_' /\ ((paused_ /\ Reason) \/ cmd' = "cancel") => Reason'
<1> SUFFICES ASSUME paused_', (paused_ /\ Reason) \/ cmd' = "cancel"
             PROVE  Reason'
  OBVIOUS
<1>1. CASE cmd' = "cancel"
  BY <1>1 DEF Reason, Reconnecting
<1>2. CASE Reason /\ IoStep
  <2>1. Settles
    BY <1>2, StepSettles DEF ReplaceFileSocket, ConnectFileSocket, Then, IoStep, Poll, HandleError,
       HandleConnect, RemoteEndpointThrows, StartRead, TryRequestHistory, ResumeAfterConnect,
       NotifyAfterConnect, EndRead, RunOutOfWork
  <2> QED
    BY <1>2, <2>1, IoKeepsReason
<1>3. CASE Reason /\ ~IoStep
  BY <1>3, OthersKeepReason
<1> QED
  BY <1>1, <1>2, <1>3

\* Only /pause and /cancelall store paused_.
LEMMA PausedByCommand ==
  ASSUME "/pause" \notin Commands, [ClientNext]_cvars, paused_', ~paused_
  PROVE  cmd' = "cancel"
<1>1. CASE IoStep
  BY <1>1 DEF IoStep, Poll, HandleError, HandleConnect, RemoteEndpointThrows, StartRead,
     TryRequestHistory, ResumeAfterConnect, NotifyAfterConnect, EndRead, RunOutOfWork,
     resume, ResumeNotify, vars, callVars
<1>2. CASE QueueCommand
  BY <1>2 DEF QueueCommand, Command, EnqueueFile, enqueue, cancel, retry, resume
<1>3. CASE CancelAll
  BY <1>3 DEF CancelAll, Then
<1>4. CASE CommandStep \/ Quit
  BY <1>4 DEF Quit, CommandStep, ResumeReturns, CancelQueue, CancelQueueReturns, CloseFileSocket,
     ReplaceFileSocket, ConnectFileSocket, DisconnectFileSocket, JoinIo, DestroyQueue,
     QueueDestroyed, ResumeNotify, cancel_all, CancelAllClose, Disconnect, ReplaceSocket,
     StartConnect, stop, StopNotify, StopJoin, vars, callVars
<1>5. CASE TextNetwork \/ QueueWorker \/ Surroundings \/ UNCHANGED cvars
  BY <1>5 DEF TextNetwork, QueueWorker, Surroundings, WorkerStep, OwnStep, SpuriousWakeup, WriteChunk,
     LoopHead, WaitFalse, Block, WaitStopped, PickNothing, Pick, Build, GetSocket,
     GiveUp, WriteFails, Finish, Connected, PeerLost, vars, callVars, cvars
<1> QED
  BY <1>1, <1>2, <1>3, <1>4, <1>5 DEF ClientNext

\* The handler of the reconnect that /cancelall starts is never lost on the way from the
\* reactor to resume, whatever the user does to the queue and the sockets meanwhile; what
\* can keep it from the queue is a connection that is lost, or an io thread that has ended
\* (ClientServerConnectionManager.cpp:301-310).
THEOREM PauseHasReason == ClientSpec => PausedForAReason
<1>1. TypeOK /\ AskInv /\ ThreadsOK /\ ReadsInv /\ [ClientNext]_cvars
      => [paused_' /\ ((paused_ /\ Reason) \/ cmd' = "cancel") => Reason']_cvars
  BY ReasonStep
<1> QED
  BY <1>1, ClientInvariant, ClientUsesQueue, Typing, PTL DEF ClientSpec, PausedForAReason

\* A user who never gives /pause finds the queue paused only for a reconnect that is under
\* way, for a connection that is lost, or for an io thread that has ended.
THEOREM PausedOnlyByReconnect ==
  ASSUME "/pause" \notin Commands
  PROVE  ClientSpec => [](paused_ => Reason)
<1>1. ClientInit => (paused_ => Reason)
  BY DEF ClientInit, Init
<1>2. [ClientNext]_cvars => (paused_' /\ ~paused_ => cmd' = "cancel")
  BY PausedByCommand
<1>3. (paused_ => Reason) /\ [ClientNext]_cvars
      /\ [paused_' /\ ((paused_ /\ Reason) \/ cmd' = "cancel") => Reason']_cvars
      => (paused_ => Reason)'
  <2> SUFFICES ASSUME paused_ => Reason, [ClientNext]_cvars, paused_',
                      [paused_' /\ ((paused_ /\ Reason) \/ cmd' = "cancel") => Reason']_cvars
               PROVE  Reason'
    OBVIOUS
  <2>1. CASE UNCHANGED cvars
    BY <2>1 DEF cvars, clientVars, vars, sockVars, callVars, Reason, Reconnecting, Lost, Ended, ToResume
  <2>2. CASE cvars' # cvars
    BY <1>2, <2>2
  <2> QED
    BY <2>1, <2>2
<1> QED
  BY <1>1, <1>3, PauseHasReason, PTL DEF ClientSpec, PausedForAReason
=============================================================================
