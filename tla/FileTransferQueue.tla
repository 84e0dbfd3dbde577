------------------------- MODULE FileTransferQueue -------------------------
(***************************************************************************)
(* Shared/src/MessageTypes/Utilities/FileTransferQueue.cpp: a deque of     *)
(* files, a worker thread that writes them to a socket one at a time, and  *)
(* the operations other threads call meanwhile.                            *)
(*                                                                         *)
(* An operation that holds mutex_ for its whole body is one action.  The   *)
(* atomics running_ and paused_ are stored WITHOUT mutex_, so a store and  *)
(* the notify_one that follows it are two actions, and so are the          *)
(* evaluation of the wait predicate and the blocking that follows it: in   *)
(* between ("block") the worker holds mutex_, and only there does any      *)
(* thread hold it from one action to the next.                             *)
(***************************************************************************)
EXTENDS Naturals, Sequences, FiniteSets, SequencesExt

CONSTANTS
  Callers,      \* threads that call the public operations
  Operations,   \* the operations they call
  RetryStates,  \* the states of an item on which they call retry
  Chunks,       \* writes the kernel needs for one serialized file
  MaxId,        \* bound on enqueued files
  MaxRetries,   \* bound on the retries counter at a call of retry
  MaxSockets    \* bound on the sockets the owner creates

States == {"Queued", "Sending", "Failed", "Done", "Canceled"}

ASSUME ConstantsAssumption ==
  /\ RetryStates \subseteq States
  /\ Chunks \in Nat \ {0}
  /\ MaxId \in Nat
  /\ MaxRetries \in Nat
  /\ MaxSockets \in Nat

VARIABLES
  queue_,     \* the deque of items
  next_id_,
  running_,
  paused_,
  waiting,    \* the worker sleeps on cv_
  wpc,        \* where the worker is in worker_loop
  item,       \* the worker's private copy of the item it picked
  wsock,      \* the socket its socket_getter_ call returned
  progress,   \* chunks of the current write handed to the kernel
  ec,         \* the current write failed
  cpc,        \* where each caller is in a call of several steps
  sock,       \* the socket socket_getter_ returns now, 0 for nullptr
  sockets,    \* the state of each socket so far
  sent        \* history: ids whose latest write handed over a whole file

callVars   == <<queue_, next_id_, paused_>>
workerVars == <<wpc, item, wsock, progress, ec>>
sockVars   == <<sock, sockets>>
vars == <<callVars, running_, waiting, workerVars, cpc, sockVars, sent>>

Ids == 1..MaxId
Item == [id : Ids, path : BOOLEAN, message : BOOLEAN, state : States, retries : Nat]
NoItem == [id |-> 0]

MutexFree == wpc # "block"
\* is_open(): from the start of async_connect to close, whatever the connection is worth.
IsOpen(s) == s # 0 /\ sockets[s] \notin {"fresh", "closed"}
Holds(id) == \E i \in DOMAIN queue_ : queue_[i].id = id

\* queue_ with F applied to the item with this id, if it is there.
Update(id, F(_)) ==
  [i \in DOMAIN queue_ |-> IF queue_[i].id = id THEN F(queue_[i]) ELSE queue_[i]]

Init ==
  /\ queue_ = <<>> /\ next_id_ = 1
  /\ running_ = TRUE /\ paused_ = FALSE
  /\ waiting = FALSE
  /\ wpc = "loop" /\ item = NoItem /\ wsock = 0 /\ progress = 0 /\ ec = FALSE
  /\ cpc = [c \in Callers |-> "idle"]
  /\ \/ sock = 0 /\ sockets = <<>>
     \/ sock = 1 /\ sockets \in {<<"connecting">>, <<"open">>}
  /\ sent = {}

-----------------------------------------------------------------------------
(* Operations.  notify_one wakes the worker if it sleeps on cv_.           *)

Calls(c, op) == op \in Operations /\ cpc[c] = "idle"
Goto(c, pc) == cpc' = [cpc EXCEPT ![c] = pc]
\* Mutant: an operation that forgets to notify.
ForgottenNotify == UNCHANGED waiting
notify_one == waiting' = FALSE

\* Mutant: the counter is incremented before it is read.
NewItemPreincremented(fromPath) ==
  [id |-> next_id_ + 1, path |-> fromPath, message |-> ~fromPath,
   state |-> "Queued", retries |-> 0]
NewItem(fromPath) ==
  [id |-> next_id_, path |-> fromPath, message |-> ~fromPath,
   state |-> "Queued", retries |-> 0]

\* Mutant: push_front.
PushedFront(it) == <<it>> \o queue_
Pushed(it) == Append(queue_, it)

\* From a path (the FileMessage is built by the worker) or from a FileMessage.
enqueue(c, fromPath) ==
  /\ Calls(c, IF fromPath THEN "enqueue_path" ELSE "enqueue_message") /\ MutexFree
  /\ next_id_ <= MaxId
  /\ queue_' = Pushed(NewItem(fromPath))
  /\ next_id_' = next_id_ + 1
  /\ notify_one
  /\ UNCHANGED <<running_, paused_, workerVars, cpc, sockVars, sent>>

remove(c, id) ==
  /\ Calls(c, "remove") /\ MutexFree
  /\ \E i \in DOMAIN queue_ : queue_[i].id = id /\ queue_' = RemoveAt(queue_, i)
  /\ UNCHANGED <<next_id_, running_, paused_, waiting, workerVars, cpc, sockVars, sent>>

\* message is dropped; the worker rebuilds it, which it can only do from a path.
retry(c, id) ==
  /\ Calls(c, "retry") /\ MutexFree
  /\ \E i \in DOMAIN queue_ : /\ queue_[i].id = id
                              /\ queue_[i].state \in RetryStates
                              /\ queue_[i].retries < MaxRetries
  /\ queue_' = Update(id, LAMBDA it : [it EXCEPT !.state = "Queued", !.message = FALSE,
                                                 !.retries = @ + 1])
  /\ notify_one
  /\ UNCHANGED <<next_id_, running_, paused_, workerVars, cpc, sockVars, sent>>

pause(c) ==
  /\ Calls(c, "pause")
  /\ paused_' = TRUE
  /\ UNCHANGED <<queue_, next_id_, running_, waiting, workerVars, cpc, sockVars, sent>>

resume(c) ==
  /\ Calls(c, "resume")
  /\ paused_' = FALSE
  /\ Goto(c, "notify")
  /\ UNCHANGED <<queue_, next_id_, running_, waiting, workerVars, sockVars, sent>>

ResumeNotify(c) ==
  /\ cpc[c] = "notify"
  /\ notify_one
  /\ Goto(c, "idle")
  /\ UNCHANGED <<callVars, running_, workerVars, sockVars, sent>>

\* Mutant: the items are marked and the socket is left open.
SocketLeftOpen == UNCHANGED sockVars
\* cancel + shutdown + close of the socket socket_getter_ returns, if it is open.
CloseSocket ==
  /\ sockets' = IF IsOpen(sock) THEN [sockets EXCEPT ![sock] = "closed"] ELSE sockets
  /\ UNCHANGED sock

WasSending(id) == \E i \in DOMAIN queue_ : queue_[i].id = id /\ queue_[i].state = "Sending"

\* Only an item in state Sending has its socket closed.
cancel(c, id) ==
  /\ Calls(c, "cancel") /\ MutexFree
  /\ queue_' = Update(id, LAMBDA it : [it EXCEPT !.state = "Canceled"])
  /\ IF WasSending(id) THEN CloseSocket ELSE UNCHANGED sockVars
  /\ notify_one
  /\ UNCHANGED <<next_id_, running_, paused_, workerVars, cpc, sent>>

\* The items are marked under mutex_, the socket is closed after it is released.
cancel_all(c) ==
  /\ Calls(c, "cancel_all") /\ MutexFree
  /\ queue_' = [i \in DOMAIN queue_ |->
                  IF queue_[i].state \in {"Queued", "Failed", "Sending"}
                  THEN [queue_[i] EXCEPT !.state = "Canceled"]
                  ELSE queue_[i]]
  /\ Goto(c, "close")
  /\ UNCHANGED <<next_id_, running_, paused_, waiting, workerVars, sockVars, sent>>

CancelAllClose(c) ==
  /\ cpc[c] = "close"
  /\ CloseSocket
  /\ notify_one
  /\ Goto(c, "idle")
  /\ UNCHANGED <<callVars, running_, workerVars, sent>>

stop(c) ==
  /\ Calls(c, "stop")
  /\ running_
  /\ running_' = FALSE
  /\ Goto(c, "stopping")
  /\ UNCHANGED <<callVars, waiting, workerVars, sockVars, sent>>

StopNotify(c) ==
  /\ cpc[c] = "stopping"
  /\ notify_one
  /\ Goto(c, "joining")
  /\ UNCHANGED <<callVars, running_, workerVars, sockVars, sent>>

StopJoin(c) ==
  /\ cpc[c] = "joining" /\ wpc = "exited"
  /\ Goto(c, "idle")
  /\ UNCHANGED <<callVars, running_, waiting, workerVars, sockVars, sent>>

-----------------------------------------------------------------------------
(* The worker.                                                             *)

WorkerLocals == <<item, wsock, progress, ec>>
OwnStep == UNCHANGED <<next_id_, running_, paused_, cpc, sockVars>>
\* The end of the loop's body.
OutOfScope == item' = NoItem /\ wsock' = 0 /\ progress' = 0 /\ ec' = FALSE

LoopHead ==
  /\ wpc = "loop"
  /\ wpc' = IF running_ THEN "wait" ELSE "exited"
  /\ OwnStep /\ UNCHANGED <<queue_, waiting, WorkerLocals, sent>>

\* The predicate of cv_.wait is false: the worker will block, mutex_ in hand.
WaitFalse ==
  /\ wpc = "wait" /\ ~waiting
  /\ running_ /\ (paused_ \/ queue_ = <<>>)
  /\ wpc' = "block"
  /\ OwnStep /\ UNCHANGED <<queue_, waiting, WorkerLocals, sent>>

\* Sleep and release mutex_ in one step.
Block ==
  /\ wpc = "block"
  /\ wpc' = "wait" /\ waiting' = TRUE
  /\ OwnStep /\ UNCHANGED <<queue_, WorkerLocals, sent>>

SpuriousWakeup ==
  /\ waiting /\ waiting' = FALSE
  /\ OwnStep /\ UNCHANGED <<queue_, wpc, WorkerLocals, sent>>

WaitStopped ==
  /\ wpc = "wait" /\ ~waiting /\ ~running_
  /\ wpc' = "exited"
  /\ OwnStep /\ UNCHANGED <<queue_, waiting, WorkerLocals, sent>>

\* The predicate is true as long as the deque holds anything at all: with no
\* Queued item the worker goes round the loop.
PickNothing ==
  /\ wpc = "wait" /\ ~waiting
  /\ running_ /\ ~paused_ /\ queue_ # <<>>
  /\ \A i \in DOMAIN queue_ : queue_[i].state # "Queued"
  /\ wpc' = "loop"
  /\ OwnStep /\ UNCHANGED <<queue_, waiting, WorkerLocals, sent>>

\* Mutant: the search runs from the back of the deque.
LastQueued(i) ==
  /\ queue_[i].state = "Queued"
  /\ \A j \in (i + 1)..Len(queue_) : queue_[j].state # "Queued"
FirstQueued(i) ==
  /\ queue_[i].state = "Queued"
  /\ \A j \in 1..(i - 1) : queue_[j].state # "Queued"

\* Mutant: the copy is taken and the item in the deque is not marked.
PickedUnmarked(it) == it
Picked(it) == [it EXCEPT !.state = "Sending"]

Pick ==
  /\ wpc = "wait" /\ ~waiting
  /\ running_ /\ ~paused_
  /\ \E i \in DOMAIN queue_ :
       /\ FirstQueued(i)
       /\ item' = queue_[i]
       /\ queue_' = [queue_ EXCEPT ![i] = Picked(@)]
  /\ wpc' = "build"
  /\ OwnStep /\ UNCHANGED <<waiting, wsock, progress, ec, sent>>

\* No lock held: the file may be gone or unreadable, and a message without a path
\* cannot be rebuilt.
Build ==
  /\ wpc = "build"
  /\ \/ item.message /\ wpc' = "getsock" /\ UNCHANGED item
     \/ ~item.message /\ item.path /\ wpc' = "getsock" /\ item' = [item EXCEPT !.message = TRUE]
     \/ ~item.message /\ wpc' = "giveup" /\ UNCHANGED item
  /\ OwnStep /\ UNCHANGED <<queue_, waiting, wsock, progress, ec, sent>>

GetSocket ==
  /\ wpc = "getsock"
  /\ wsock' = sock
  /\ wpc' = IF IsOpen(sock) THEN "write" ELSE "giveup"
  /\ sent' = IF IsOpen(sock) THEN sent \ {item.id} ELSE sent
  /\ OwnStep /\ UNCHANGED <<queue_, waiting, item, progress, ec>>

\* Mutant: the path without a socket forgets to mark the item.
NotSentUnmarked(it) == it
\* No message or no socket: Failed, unless the item was canceled meanwhile.
NotSent(it) == IF it.state = "Canceled" THEN it ELSE [it EXCEPT !.state = "Failed"]

GiveUp ==
  /\ wpc = "giveup"
  /\ queue_' = Update(item.id, NotSent)
  /\ wpc' = "loop" /\ OutOfScope
  /\ OwnStep /\ UNCHANGED <<waiting, sent>>

\* boost::asio::write: blocks until the peer takes the next part or the socket fails.
WriteChunk ==
  /\ wpc = "write" /\ sockets[wsock] = "open"
  /\ progress' = progress + 1
  /\ IF progress' = Chunks
     THEN wpc' = "finish" /\ sent' = sent \cup {item.id}
     ELSE UNCHANGED <<wpc, sent>>
  /\ OwnStep /\ UNCHANGED <<queue_, waiting, item, wsock, ec>>

WriteFails ==
  /\ wpc = "write" /\ sockets[wsock] \in {"broken", "closed"}
  /\ wpc' = "finish" /\ ec' = TRUE
  /\ OwnStep /\ UNCHANGED <<queue_, waiting, item, wsock, progress, sent>>

\* Mutant: the error code of the write is not looked at.
WrittenUnchecked(it) == IF it.state = "Canceled" THEN it ELSE [it EXCEPT !.state = "Done"]
Written(it) ==
  IF it.state = "Canceled" THEN it
  ELSE IF ec THEN [it EXCEPT !.state = "Failed", !.retries = @ + 1]
  ELSE [it EXCEPT !.state = "Done"]

Finish ==
  /\ wpc = "finish"
  /\ queue_' = Update(item.id, Written)
  /\ wpc' = "loop" /\ OutOfScope
  /\ OwnStep /\ UNCHANGED <<waiting, sent>>

-----------------------------------------------------------------------------
(* The socket: the network, and the owner that replaces a closed one.      *)

Connected ==
  /\ \E s \in DOMAIN sockets : /\ sockets[s] = "connecting"
                               /\ \E r \in {"open", "broken"} : sockets' = [sockets EXCEPT ![s] = r]
  /\ UNCHANGED <<callVars, running_, waiting, workerVars, cpc, sock, sent>>

PeerLost ==
  /\ \E s \in DOMAIN sockets : sockets[s] = "open" /\ sockets' = [sockets EXCEPT ![s] = "broken"]
  /\ UNCHANGED <<callVars, running_, waiting, workerVars, cpc, sock, sent>>

\* The owner closes the socket: Disconnect on the client, StopServer on the server.
Disconnect ==
  /\ CloseSocket
  /\ UNCHANGED <<callVars, running_, waiting, workerVars, cpc, sent>>

\* CancelAndReconnectFileSocket replaces a closed socket, and then connects it.
ReplaceSocket ==
  /\ sock # 0 /\ sockets[sock] = "closed" /\ Len(sockets) < MaxSockets
  /\ sockets' = Append(sockets, "fresh")
  /\ sock' = Len(sockets')
  /\ UNCHANGED <<callVars, running_, waiting, workerVars, cpc, sent>>

StartConnect ==
  /\ sock # 0 /\ sockets[sock] = "fresh"
  /\ sockets' = [sockets EXCEPT ![sock] = "connecting"]
  /\ UNCHANGED <<callVars, running_, waiting, workerVars, cpc, sock, sent>>

-----------------------------------------------------------------------------
Call(c) ==
  \/ \E fromPath \in BOOLEAN : enqueue(c, fromPath)
  \/ \E id \in Ids : remove(c, id) \/ retry(c, id) \/ cancel(c, id)
  \/ pause(c) \/ resume(c) \/ cancel_all(c) \/ stop(c)
Return(c) == ResumeNotify(c) \/ CancelAllClose(c) \/ StopNotify(c) \/ StopJoin(c)

\* The worker's steps that wait for nobody but the mutex.
WorkerStep ==
  \/ LoopHead \/ WaitFalse \/ Block \/ WaitStopped \/ PickNothing \/ Pick
  \/ Build \/ GetSocket \/ GiveUp \/ WriteFails \/ Finish

Next ==
  \/ \E c \in Callers : Call(c) \/ Return(c)
  \/ WorkerStep \/ WriteChunk \/ SpuriousWakeup
  \/ Connected \/ PeerLost \/ Disconnect \/ ReplaceSocket \/ StartConnect

Spec == Init /\ [][Next]_vars

\* The scheduler runs the worker and lets a started call return.
SchedulerFairness == WF_vars(WorkerStep) /\ \A c \in Callers : WF_vars(Return(c))
\* Besides, connections settle and the peer keeps reading.
NetworkFairness == WF_vars(WriteChunk) /\ WF_vars(Connected)

FairSpec == Spec /\ SchedulerFairness /\ NetworkFairness

-----------------------------------------------------------------------------
(* Properties.                                                             *)

WorkerPCs == {"loop", "wait", "block", "build", "getsock", "giveup", "write", "finish", "exited"}
\* Between Pick and the verdict, the worker has an item in hand.
Busy == {"build", "getsock", "giveup", "write", "finish"}

\* Every variable has its type; ids and sockets never leave their ranges.
TypeOK ==
  /\ queue_ \in Seq(Item)
  /\ next_id_ \in 1..(MaxId + 1)
  /\ running_ \in BOOLEAN /\ paused_ \in BOOLEAN /\ waiting \in BOOLEAN /\ ec \in BOOLEAN
  /\ wpc \in WorkerPCs
  /\ item \in Item \cup {NoItem} /\ (wpc \in Busy => item \in Item)
  /\ sockets \in Seq({"fresh", "connecting", "open", "broken", "closed"})
  /\ sock \in 0..Len(sockets) /\ wsock \in 0..Len(sockets)
  /\ (wpc = "write" => wsock # 0 /\ progress < Chunks)
  /\ progress \in 0..Chunks /\ (wpc \notin {"write", "finish"} => progress = 0)
  /\ cpc \in [Callers -> {"idle", "notify", "close", "stopping", "joining"}]
  /\ sent \in SUBSET Ids

\* The deque is in order of ids, all below next_id_: a retry or a removal never
\* reorders the files, so the first Queued item is always the oldest.
QueueOrder ==
  /\ \A i \in DOMAIN queue_ : queue_[i].id < next_id_
  /\ \A i, j \in DOMAIN queue_ : i < j => queue_[i].id < queue_[j].id

\* An item shown as Sending is the one the worker has in hand: no failure path,
\* cancellation, removal or stop leaves an item Sending for ever (worker_loop).
SendingIsActive ==
  \A i \in DOMAIN queue_ :
    queue_[i].state = "Sending" => wpc \in Busy /\ item.id = queue_[i].id

\* /history lists the Done items as successfully sent: the latest write of each
\* handed the whole file to the kernel, whatever was canceled or retried meanwhile.
DoneWasSent ==
  \A i \in DOMAIN queue_ : queue_[i].state = "Done" => queue_[i].id \in sent

\* While the worker has an item in hand it never holds the lock on it, yet only cancel
\* changes the item's state, unless retry is called on items that have not failed; and
\* once a write has gone through, the file counts as sent until the verdict is entered.
WorkerOwnsItem ==
  /\ wpc \in Busy =>
       \A i \in DOMAIN queue_ :
         queue_[i].id = item.id =>
           \/ queue_[i].state \in {"Sending", "Canceled"}
           \/ queue_[i].state = "Queued" /\ ~(RetryStates \subseteq {"Failed"})
  /\ wpc \in Busy => item.id < next_id_
  /\ wpc = "finish" /\ ~ec => item.id \in sent

\* The queue implements the ledger: one transfer at a time, in order of submission, and
\* none begun once stop has stored running_.
Ledger == INSTANCE TransferLedger WITH
  ledger <- [id \in {queue_[i].id : i \in DOMAIN queue_} |->
               queue_[CHOOSE i \in DOMAIN queue_ : queue_[i].id = id].state],
  active <- IF wpc \in Busy THEN item.id ELSE 0,
  issued <- next_id_ - 1,
  running <- running_
LedgerSpec == Ledger!Spec

\* A Queued item is only ever picked, canceled or removed: the verdict of an earlier
\* attempt never overwrites the Queued of a retry.
KeepsQueued ==
  \A i \in DOMAIN queue_, j \in DOMAIN queue_' :
    queue_[i].id = queue_'[j].id /\ queue_[i].state = "Queued"
      => queue_'[j].state \in {"Queued", "Sending", "Canceled"}
NoLostRetry == [][KeepsQueued]_vars

\* Once cancel or cancel_all has returned, no part of a canceled file goes out.
CanceledStaysOffWire ==
  [][\A i \in DOMAIN queue_ :
       /\ queue_[i].id = item.id /\ queue_[i].state = "Canceled"
       /\ \A c \in Callers : cpc[c] # "close"
       => progress' <= progress]_vars

\* Where that is so: on the socket a queue begins with.  Once cancel or cancel_all has returned,
\* the worker that has a canceled file in hand finds that socket closed, whether it writes to
\* it or has yet to ask for it.  Not so if retry is called on a file being sent, which is then
\* Queued, and of which cancel does not close the socket.
CancelCloses ==
  RetryStates \subseteq {"Failed"} /\ Len(sockets) <= 1 =>
    \A i \in DOMAIN queue_ :
      /\ wpc \in Busy /\ queue_[i].id = item.id /\ queue_[i].state = "Canceled"
      /\ \A c \in Callers : cpc[c] # "close"
      => /\ ~IsOpen(sock)
         /\ wpc = "write" => sockets[wsock] = "closed"

\* Every file enqueued or retried is attempted, unless it is canceled or removed or the
\* queue is stopped, in a run in which nobody pauses the queue: after a pause, the
\* notification of resume can be lost as that of stop can.
Queued(id) == \E i \in DOMAIN queue_ : queue_[i].id = id /\ queue_[i].state = "Queued"
EveryFileAttempted ==
  []~paused_ => \A id \in Ids : Queued(id) ~> ~Queued(id) \/ ~running_

\* What EveryFileAttempted rests on: in such a run the worker never sleeps on a deque that
\* holds anything.  enqueue and retry notify under mutex_, which the worker has from the
\* evaluation of its predicate until it sleeps.
NoLostWakeup == []~paused_ => [](waiting => queue_ = <<>>)

\* stop joins the worker thread.
StopJoins == \A c \in Callers : cpc[c] = "joining" ~> cpc[c] = "idle"
=============================================================================
