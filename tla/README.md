# BoostChatroom in TLA+

A verification project for BoostChatroom, a console chatroom in C++ on Boost.Asio: TLA+
modules of its concurrent parts, TLC configurations that check them on small instances, and
TLAPS proofs that hold for every instance. Paths below are relative to the repository;
`FTQ.cpp` is `CMakeProject1/Shared/src/MessageTypes/Utilities/FileTransferQueue.cpp`.

## 1. The system

| Component | State | Operations | Called by |
|---|---|---|---|
| `FileTransferQueue` (Shared) | a deque of items, `running_`, `paused_`, `next_id_`, a worker thread | `enqueue`, `remove`, `retry`, `pause`, `resume`, `cancel`, `cancel_all`, `list_snapshot`, `stop`; `worker_loop` | command thread and io thread of the client; io threads of the server |
| `ServerManager` (Server) | two client lists, `message_history_`, `file_queues_`, acceptors, each under its own mutex | accept handlers, `Broadcast` of texts and of files, the `SendHistory` handler, `GetOrCreateFileQueueForSocket`, `StopServer` | four or more io threads |
| `MessageReceiver` (Shared) | one read loop per socket | `start_read_header`, `start_read_body`, `handle_read_message` | io threads |
| `MessageSender` (Shared) | none | `SendMessage` (one `async_write`) | handlers |
| `ClientServerConnectionManager` (Client) | two sockets, a queue, `askedforhistory` | connects, `try_request_history`, `Message`, `EnqueueFile`, `CancelAndReconnectFileSocket`, `Disconnect` | command thread, io thread |
| `CommandProcessor`, `ClientMain`, `ServerMain` | none | parse a line, call one method; start and shut down | the console |
| messages and `HeaderHelper` (Shared) | the payload | `serialize`, `deserialize`, `dispatch_send`, `save_file` | all of the above |

A text goes client command -> text socket -> reader on the server -> `Broadcast` -> history
and every other text socket. A file goes client queue -> file socket -> reader on the server
-> `Broadcast` -> history and the per-client queue of every other file client -> its file
socket -> `save_file`. A joiner sends `SendHistory` with the local port of its file socket;
the server finds that socket and replays texts to the text socket and files to its queue.

What is hard, and what makes each part correct:

* **FileTransferQueue.** Its worker works on a copy of an item without the lock while other
  threads cancel, retry and remove; two flags are stored without the mutex; a write may block
  for ever. Correct means: one transfer at a time in order of submission; every attempt ends
  in a verdict, and the right one; a cancellation is final and frees the worker; nothing
  enqueued is forgotten; `stop` returns.
* **ServerManager.** Every handler takes several mutexes one after the other, on several
  threads, and `StopServer` takes them apart meanwhile. Correct means: a message reaches every
  client that was connected, and a joiner gets the rest from the history; one queue per file
  socket; history consistent under a replay; every handler and `StopServer` return.
* **Client connection.** Callbacks on the io thread race with commands that replace the file
  socket and the receiver. Correct means: the history is asked for when it can be answered; a
  reconnect leaves the queue running and nothing canceled is sent on the new socket.
* **Sender and receiver.** Several `async_write`s on one socket; frames of a header of 12 bytes
  and a body, read in two steps. Correct means: what is read is what was sent, frame by frame.
* **Messages.** Sizes in three places that must agree, and checks of 64-bit sums before bytes
  are copied. Correct means: a round trip, and of a buffer whose lengths are not its own either
  what they name is read, if it is there, or nothing.

`PROJECT.json` lists the hazards line by line.

## 2. The modules

| Module | What it is |
|---|---|
| `FileTransferQueue` | the queue, its worker, its callers and the socket below it |
| `TransferLedger` | what a queue promises, without threads, locks or sockets |
| `MCFileTransferQueue` | which thread calls what; instance constants |
| `FileTransferQueueProofs` | proofs of the safety properties of `FileTransferQueue` |
| `LedgerProofs` | proof that `FileTransferQueue` implements `TransferLedger` |
| `ChatServer` | accept handlers, registry of queues, both broadcasts, `SendHistory`, `StopServer` |
| `MCChatServer` | sockets and symmetry for `ChatServer` |
| `ChatServerProofs` | proofs of the safety properties of `ChatServer` |
| `ClientConnection` | the client: command thread and io thread of the connection manager, on top of its `FileTransferQueue` |
| `MCClientConnection` | the commands and the methods behind them |
| `ClientConnectionProofs` | proofs that the client implements its queue's specification, keeps its types, asks for the history, starts no third read loop, stays paused for a reason only, and leaves nothing open when it quits |
| `MessageChannel` | what a connection promises: messages whole, once each, in order |
| `SocketStream` | one direction of one connection under concurrent writes: composed writes, the kernel's buffer, the receiver |
| `MCSocketStream` | the lengths of bodies |
| `SocketStreamProofs` | proofs that texts taken whole arrive in order, and that a queue's connection is a `MessageChannel` |
| `Codec` | the three messages as bytes: `serialize`, `deserialize`, `HeaderHelper`, the choice of the class |
| `FrameReader` | frames of `Codec` on a connection, and `MessageReceiver` reading it byte by byte |
| `MCFrameReader` | bytes, texts, names, contents and ports |
| `CodecProofs`, `FrameReaderProofs` | proofs that every message is read as it was serialized, one by one, whatever its size, and that frames and receiver are a `MessageChannel` |
| `SequenceFacts` | lemmas about sequences that several proofs use |

`ClientConnection` composes the client's threads with `FileTransferQueue` (it extends it), and
`ChatServer` uses what `TransferLedger` says of a queue. `SocketStream` shows when the frames of
one socket are written one after the other; `FrameReader` starts there and has their bytes.

### FileTransferQueue

An operation that holds `mutex_` throughout is one action with the name of the method. Where
the code lets go of the mutex, or never takes it, there are several:

| Code | Actions |
|---|---|
| `resume`: store, then notify (FTQ.cpp:98-99) | `resume`, `ResumeNotify` |
| `stop`: store, notify, join (183-185) | `stop`, `StopNotify`, `StopJoin` |
| `cancel_all`: mark under the mutex, then close and notify (143-168) | `cancel_all`, `CancelAllClose` |
| `cv_.wait`: predicate, then sleep (217-219) | `WaitFalse`, `Block`, `SpuriousWakeup`; between the first two the worker holds `mutex_` (`MutexFree`) |
| `worker_loop` (215-301) | `LoopHead`, `WaitStopped`, `PickNothing`, `Pick`, `Build`, `GetSocket`, `GiveUp`, `WriteChunk`, `WriteFails`, `Finish` |

`item` is the worker's copy of the item, `wsock` the socket it was given, `progress` the part
of the file the kernel has taken, so that a write can fail or block half-way. `sent` is a
history variable: ids whose latest write handed over the whole file. `Connected` and `PeerLost`
are the network; `Disconnect`, `ReplaceSocket` and `StartConnect` the owner, who closes the
socket, replaces a closed one and connects it. A new socket is `"fresh"` until its connect
begins, and counts as open from then on, as `is_open()` does.

`TransferLedger` has a map from ids to states, the one file being transferred, and whether it
still runs: a transfer under way when it is stopped goes on to its verdict, and no other begins.
`LedgerSpec` is the refinement: ledger = states of the items in the deque, active = the id in
the worker's hand, issued = `next_id_ - 1`, running = `running_`.

`NoLostWakeup` is the safety half of `EveryFileAttempted`: the worker sleeps only on an empty
deque. `CancelCloses` says where a cancellation is final, which `CanceledStaysOffWire` claims
everywhere: on the socket the queue began with. It excepts a retry of a file that is being sent:
`retry` makes it Queued (FTQ.cpp:80), and `cancel` closes the socket of Sending items only.

### ChatServer

Each handler is a process: `Acceptor` for file sockets, a reader for each text and each file
socket (a reader starts the next read when its handler has returned, so it runs one handler at
a time). `h[x]` holds where handler x is and its local variables: the message, the copied list
of clients still to do, the socket and the queue. Each critical section is an action, and each
send or enqueue between them.

| Code (ServerManager.cpp) | Actions |
|---|---|
| `AcceptConnection` (196-283) | `AcceptTextConnection`; `AcceptFileConnection`, `Lookup`, `Emplace`, `StartReading` |
| `GetOrCreateFileQueueForSocket` (285-306) | `Lookup` (find, and build when there is none) and `Emplace`, for three callers: `Caller` says where each goes on |
| end of a caller's `shared_ptr` | `Drop`, and `Join` when the queue lost the race and is destroyed |
| `Broadcast` of a text (424-468) | `ReceiveText` (copies the clients), `PushText`, `SendText` |
| `Broadcast` of a file (326-421) | `ReceiveFile` (pushes), `CopyFileClients`, `NextFileClient`, `Lookup`, `Emplace`, `EnqueueFile`, `Drop`, `CopyTextClients`, `SendLog` |
| the `SendHistory` handler (67-152) | `ReceiveSendHistory`, `FindFileSocket`, `FileSocketClosed`, `Lookup`, `Emplace`, `LockHistory`, `Replay`, `UnlockHistory`, `SendEnd`, `Drop` |
| `StopServer` (486-578) | `StopServer`, `CloseFileAcceptor`, `StopQueue` and `QueueJoined` for each queue, `ClearQueues`, `CloseTextClients`, `CloseFileClients`, `StopContext` |

A client is its pair of sockets; `conn` says how far each has come: `"backlog"` until it is
accepted, `"accepted"` when the accept has completed and its handler has not run, `"listed"`
until it is read from. A queue is a list of files, the file being written, and `running`: the
abstraction of `TransferLedger` with the stop of `FileTransferQueue`. A client in `Slow` may
stop reading. History variables: `log` (all that was ever pushed), `from` (where the replay to
a client began), `joined` (what had been pushed when its file socket was listed), `found`,
`texts`, `handed`, `files`, `early`.

The lost notification of `stop` (FTQ.cpp:183-185, the violation of `queue_stop_lost`) is in the
server too. `worker` says where the worker of a queue is: it waits on `cv_` until the first file,
and does so no more after that, because the server takes no item off a queue, so that the
predicate of the wait stays true. `Stopped`, which is `stop` up to the join, may leave a worker
that waits asleep (`"oversleeps"`); a later `enqueue` or a spurious wakeup wakes it, and `Join`
and `QueueJoined` return only when the worker has ended (`Ends`). So a handler that destroys a
queue that lost the race, and `StopServer` at ServerManager.cpp:536, can hang for ever with no
client slow: `HandlersReturn` and `StopReturns` except these runs by name (`Overslept`).

The two readers of a client end one by one: `left` has the sockets whose reader has seen an error
or the end (`SeesEnd`), in `ReadError`, or in `ReceiveSendHistory`, whose handler returns at once
when the socket is closed or has no peer address any more (ServerManager.cpp:70-71, 84-89).

`StopServer` is defined (ServerManager.cpp:486), declared (ServerManager.h:82) and expected by
`StartServer`, whose threads are to be joined "until StopServer() is called"
(ServerManager.cpp:184), but nothing in the repository calls it. The model has an owner who may
call it once, from a thread of its own; where `Stops` is FALSE, and in the program as it is, nobody
does, and every property of the server is about both.

`WaitsEndAtWorkers` is about who waits for whom: a handler for `history_mutex_`, for
`file_queues_mutex_` or for the worker of the queue it destroys, `StopServer` for each worker in
turn. `CanGoOn` and `StopCanGoOn` name what each waits for, and a chain of waiting ends at a thread
that can go on, at a worker in its last transfer, or at one that has overslept.

`Kept` follows a file from `Enqueue` on, and names the two ways in which the code loses it: with
`StopServer`, and with a queue that lost the race to be registered (ServerManager.cpp:305), which
its handler fills, stops and destroys: the client never gets that file, although it was connected,
or was promised "the last 100 messages" (README.md:60). `FilesKept` and `FilesReachJoiner` state
both as exceptions; `FilesReachListed` says only that each file is given to a queue of every
client listed, and leaves the rest to `FilesKept`.

`HistoryHoldsLast` bounds the history on both sides: it has the last `MAX_HISTORY_MESSAGES`
entries, and one more at most for each file received, for which the code pushes two entries and
pops one (ServerManager.cpp:353-360).

`TextsReachJoiner` is what is left of `JoinerMissesNoText`: `early`, a history variable, has the
texts that had copied the client list and were not yet pushed when a client's text socket was
listed, and a joiner misses no other. `MixEndsWithRace` is what is left of `OneWriter`: of two
queues that write to one socket, one is not registered, and a handler holds it, which joins its
worker before it lets go.

### ClientConnection

Extends `FileTransferQueue`: `sock` and `sockets` there are `client_file_socket` and the file
sockets so far, and the command thread `Cmd` and the io thread `Io` are its callers.

| Code | Actions |
|---|---|
| `main`: read a line, run a command (ClientMain.cpp:123-135) | `QueueCommand`, `CancelAll`, `Quit`, each from `Prompt` |
| `CancelAndReconnectFileSocket` (ClientServerConnectionManager.cpp:240-313) | `CancelAll` (pause), `CancelQueue`, `CancelQueueReturns`, `CloseFileSocket`, `ReplaceFileSocket`, `ConnectFileSocket` |
| the handlers of the connects, `handle_connect`, `try_request_history` (13-76, 300-310) | `Poll`, `HandleError`, `HandleConnect` or `RemoteEndpointThrows`, `StartRead`, `TryRequestHistory`, `ResumeAfterConnect`, `NotifyAfterConnect` |
| `io_context.run()` (ClientMain.cpp:103-113) | `EndRead`, `RunOutOfWork`; `io` says whether it has returned or was left by an exception |
| `Disconnect`, join, destructors (ClientMain.cpp:137-141) | `Quit`, `DisconnectFileSocket`, `JoinIo`, `DestroyQueue`, `QueueDestroyed` |

Taken from Asio, not from this repository: the handlers of connects that are settled at one poll
run one after the other in any order; `run()` returns when no operation is left and is not
called again here; a closed socket's operations end in an error; `is_open()` is true from the
start of `async_connect`. `client_file_socket` is a `shared_ptr` that two threads read while
the third writes it, without a lock; the model reads the old or the new pointer.

`QuitClosesAll` is why `quit` ends the io thread: `Disconnect` tells it nothing, it closes the two
current sockets, and that leaves no socket open only because each earlier file socket was closed
before it was replaced.

`reads` counts the reads in progress on each socket. `FewReadLoops` is about handlers that run
late: `handle_connect` takes `client_file_socket` by reference, so the handler of a first connect
that succeeded can start a loop on the socket that has replaced its own, besides the loop of that
socket's handler. `PausedForAReason` is about the pause of `CancelAndReconnectFileSocket`: until
something resumes the queue, the reconnect is at work or its handler is to come (`Reconnecting`),
or the connection is lost or the io thread has ended (`Lost`). `ReconnectResumes` wants more, and
is violated.

### SocketStream

A message is its position in the order of the calls, and its bytes are a header unit and as many
body units as the header says. On a `"text"` socket `SendMessage` begins an `async_write`: the
first piece is written during the call if no other write waits, and the rest by `WriteHandler`
and `ReactorWrites`, after the call has returned and its buffer is freed (`Freed`: the bytes of
the message, or any). On a `"file"` socket the worker of a queue writes, one blocking `write` at
a time (`BeginWrite`, `WriteSome`). The receiver is `ReadHeader`, `ReadBody` and `ReadFails`:
`start_read_header`, `start_read_body` and `handle_read_message` (MessageReceiver.cpp). Bytes
that are no header can say any length, and lead to an exception or to a message nobody sent
(0 in `delivered`). `split` is a history variable: some text was not taken whole during its call.

`ImplementsChannel` is the refinement of `MessageChannel`: outgoing = the files begun, incoming =
the messages handed to the callback. `FramesAreChannel` is the same in `FrameReader`, for the bytes
of any messages.

### Codec and FrameReader

A buffer is a sequence of bytes, and an integer of 16, 32 or 64 bits is two, four or eight of
them, whatever the number `Byte` of values a byte has: 256 in the code, any other in the checks
and the proofs. `size_t` wraps at `Limit`: the two checks of `FileMessage::deserialize` are
sums modulo `Limit`. A range that leaves the buffer is `Undefined`, an exception `Refused`.
`append_u64` and `read_u64` are what `htonll` and `ntohll` do, byte order included, on a host of
either order.

`LengthsObeyed` is about frames whose lengths are not their own: those a break has cut
(`Cuts`), and those of a header that says any other `Lengths` (`Relabelled`). The first are refused.
Of the second, `deserialize` reads exactly what the lengths name, if the buffer has it, and refuses
the frame otherwise, by whichever of its two sums; a text whose size is too small is accepted in
part, as the code does (TextMessage.cpp:57). It claims nothing of lengths that reach `Limit`: they
pass both sums of `FileMessage::deserialize` (FileMessage.cpp:113-118) and the copy leaves the
buffer, the answer to "What happens when client sends a fake header?" (README.md:99).

`FrameReader` appends frames to a stream, breaks the connection at any byte, and reads:
`start_read_header` (an empty body is handled at once), `start_read_body`, `ReadFails`. Each
handler hands a frame to `HandleFrame`, which is `handle_read_message`, and reads the next
header whatever came of it. `starts` is a history variable: where each frame begins.

Definitions commented `Mutant:` are not part of any specification. Each is a plausible bug in
the definition that follows it; putting it in place makes a property fail, which shows that the
property depends on that code.

## 3. The runs

| Run | Bounds | Shows |
|---|---|---|
| `queue_all` | 1 caller, all operations, 2 files of 2 chunks, 1 retry, 2 sockets, fairness (349,677 states) | `TypeOK`, `QueueOrder`, `SendingIsActive`, `DoneWasSent`, `WorkerOwnsItem`, `CancelCloses`, `NoLostRetry`, `NoLostWakeup`, `EveryFileAttempted`, and the refinement of `TransferLedger` |
| `client_all` | all commands, 1 file of 1 chunk, 1 retry, 1 reconnect, a peer that may stop reading, fairness (1.05 million states) | `ClientTypeOK`, `HistoryAsked`, `QuitClosesAll`, `FewReadLoops`, `PausedForAReason`, `QuitEnds`, `CancelFreesWorker` |
| `stream_all` | 3 messages with bodies of 1 or 2, pieces of at most 2, 3 units in the kernel, fairness (427,156 states) | `StreamTypeOK`, `FittingTextsArrive`, `ImplementsChannel`, `EveryFrameArrives` |
| `frames_all` | 2 frames out of 4 texts, 6 files and 3 requests, bytes of 4 values, lengths of 0, 3 and the last before the wrap (29,911 states) | `ReadAsSent`, `InStep`, `LengthsObeyed`, and the refinement of `MessageChannel` |
| `chat_file` | 2 clients, one of them there from the start, 1 file, 1 request, 1 departure, `StopServer`, history of 1 (2.8 million states) | `TypeOK`, `FilesReachJoiner`, `FilesReachListed`, `QueueOwnership`, `MixEndsWithRace`, `ReplayIsSegment`, `FilesKept` |
| `chat_live` | 2 clients, one there, one slow; any 2 of a text, a file, a request, a departure and `StopServer`; history of 1; fairness (262,000 states) | `WaitsEndAtWorkers`, `TextsReachJoiner`, `HistoryHoldsLast`, `HandlersReturn`, `StopReturns`, `TextReachesClients` |
| `queue_stop_lost` | 1 caller, 1 file | violated: `StopJoins` |
| `chat_missed_text` | 2 clients, 1 text, 1 request | violated: `JoinerMissesNoText` |
| `chat_two_writers` | 2 clients, 1 file, 1 request | violated: `OneWriter` |
| `client_canceled_sent` | commands that cancel, 1 file, 1 reconnect | violated: `CanceledStaysOffWire` |
| `client_not_resumed` | the same, fairness | violated: `ReconnectResumes` |
| `stream_texts` | 2 texts | violated: `OnlySentArrives` |

Why the bounds are enough. Two files make order, overtaking and one-at-a-time visible; two chunks
let a write stop half-way; a second socket gives a file that began on one and is retried on
another. One caller interleaves every operation with every step of the worker; two callers are in
`client_all`, and the proofs cover any number. In `ChatServer` the races are between one joiner
and one sender, and `StopServer`, so two clients suffice for each of them; a history of one entry
makes eviction happen with the first file, which pushes two, and with a second text. In
`chat_file` one departure lets either reader of a client end first. `MaxCalls` bounds all that
clients and the owner of the server begin: in `chat_live` two of them, so that each pair meets; the
safety properties are proved for any number. In `ClientConnection` one file and two file sockets
give every order of a transfer, a cancellation and a replacement; a third socket would let the
handler of a second reconnect meet the socket of a third, which `RemoteEndpointThrows` already
shows with the first handler and the second socket; the safety properties are proved for any number
of sockets. In `SocketStream` a frame of three units does not fit into one piece and fills the
kernel's buffer, one of two fits, and three writes can wait for each other. In `FrameReader` two
frames show whether the first ends where the second begins; with bytes of four values, a text, a
name and a content of five bytes have a length of two bytes, and others are empty, so every carry
and every empty case occurs; the number of values of a byte, the messages and their number are free
in the proofs.

The lost-wakeup run needs no luck in TLC but a narrow window in practice: between the evaluation
of the predicate and the sleep. `EveryFileAttempted` shows the same window harmless for
`enqueue` and `retry`, which notify under the mutex; it speaks of runs without a pause, because
`resume` notifies without it and can lose its notification as `stop` can. It allows for
`~running_`, since a queue that is stopped keeps what it has not sent.

CHECK_DEADLOCK is FALSE throughout: a queue whose worker has exited, or sleeps with nobody
calling, a server nobody talks to and a receiver whose connection is gone legitimately stop.

### Fairness

`FairSpec` of the queue assumes that the worker thread runs (WF of `WorkerStep`), that a call
which has begun returns (WF of `Return`), that connections settle and that the peer reads. No
fairness is assumed of callers. `ClientFairSpec` assumes that the client's three threads run on
(WF of `IoStep`, `CommandStep` and `QueueWorker`), but not that the user types anything, that a
connect settles or that the peer reads: that is the setting of `CancelFreesWorker`. `StreamFairSpec`
assumes that the receiver reads on, which its read loop does, and that the worker's write goes on
while there is room. `FairSpec` of the server is one weak fairness, of `System`: as long as a
thread can run on, some thread does; each step of `System` moves a handler, a worker or
`StopServer`, so that the fairness is about these three variables. It holds of any scheduler and
any number of io threads. Accepting and receiving are not part of it, nor is a spurious wakeup, nor
the end of a write to a client in `Slow` whose socket is open: `HeldUp` names the states in which
such a write holds a worker, or a worker oversleeps `stop`, and `HandlersReturn` and `StopReturns`
except the runs that stay there. `frames_all` has no fairness: what must arrive is in `stream_all`.

## 4. The disagreements found

* `stop` and a worker about to sleep: `stop` never returns (FTQ.cpp:183). `resume` has the same
  window (98). `QuitEnds` names this as the one way in which `quit` does not end the program. In
  the server the same call hangs a handler that lost the race for a queue, and `StopServer`;
  `WaitsEndAtWorkers`, `HandlersReturn` and `StopReturns` have it as one of their two exceptions.
* A joiner can miss a text that is both sent and kept (ServerManager.cpp:435 before 450); the
  file broadcast has the opposite order, and `FilesReachJoiner` holds. `TextsReachJoiner` says
  that this window is the only way.
* Two queues for one socket (ServerManager.cpp:295): two workers write to it at once.
  `MixEndsWithRace` says for how long. The same race loses files: what the losing queue has not
  begun to write when its handler stops it is destroyed with it (305). No run of its own shows that;
  `Kept` spells it out as an exception, without which `FilesKept` and `FilesReachJoiner` fail.
* A canceled file is sent after `/cancelall` (FTQ.cpp:256): the worker had picked it, and asks
  for the socket when the new one is there. `CanceledOffFirstSocket`: where no socket is
  replaced, it does not happen.
* After `/cancelall` the queue can stay paused though the new connection is up
  (ClientServerConnectionManager.cpp:308): the io thread that would resume it has ended.
  `PausedForAReason` names what else can be the reason.
* Texts that the kernel does not take at once arrive mixed or damaged (MessageSender.cpp:18-20).
  `FittingTextsArrive` is what is true: while every text is taken whole during its call, all
  arrive whole and in order.

## 5. What is proved

`FileTransferQueueProofs`, for every set of callers and operations and every bound, assuming
only `ConstantsAssumption` (types of the constants, at least one chunk):

* `Typing`: `Spec => []TypeOK`. `TypeOK` is inductive by itself: `InitTypeOK`, and one lemma
  each for calls, returns, the worker and the network.
* `Invariance`: `Spec => []IInv`, where `IInv` is `TypeOK`, `QueueOrder`, `SendingIsActive`,
  `DoneWasSent` and `WorkerOwnsItem`. `DoneWasSent` is not inductive: that `Finish` enters Done
  rightly needs to know that a write without error was complete and that nobody else has
  entered a verdict meanwhile, which is `WorkerOwnsItem`; and that holds only because ids are
  distinct, which is `QueueOrder`. `OrderKept`, `NeverStuckSending`, `DoneFilesWereSent` and
  `ItemOwnership` are its parts.
* `WakeupKept`: `Spec => NoLostWakeup`. Inductive with the step before the sleep:
  `SleepsOnEmpty` holds from the evaluation of the predicate on, when the worker has `mutex_`, so
  that an `enqueue` comes before it or notifies a worker that sleeps.
* `CancellationHolds`: `Spec => []CancelCloses`, from `HandClosed` (the item in hand is canceled
  and no `cancel_all` is about to close: the socket is closed) and `LatestSocket`. That `cancel`
  has closed it needs `WorkerOwnsItem`: the item in hand was shown as Sending, or canceled before.
* `CanceledOffFirstSocket`: with at most one socket (`MaxSockets <= 1`, the server's case) and
  retries of failed files only, `Spec => CanceledStaysOffWire`. It follows from `CancelCloses`,
  and says that the replacement of the socket is what the violation in `client_canceled_sent`
  needs.
* `RetryIsKept`: if only failed files are retried (`RetryStates \subseteq {"Failed"}`), then
  `Spec => NoLostRetry`. The assumption is needed: `retry` takes an item in any state, and on one
  that is being written the verdict in progress overwrites `Queued` (FTQ.cpp:80, 290-297).

`LedgerProofs`, from the same assumption:

* `QueueIsLedger`: `Spec => LedgerSpec`, so the queue implements `TransferLedger`. `LedgerFacts`
  says that in a deque without repeated ids (`Distinct`, from `QueueOrder`) the ledger has each
  file once with the state of its item; the lemmas after it say what an append, a removal and an
  update of one or of all items do to the ledger, and the step lemma names the step of the ledger,
  or the stutter, for each action. That the worker takes the oldest queued file is again
  `QueueOrder`. It includes that no transfer begins once `stop` has stored `running_`.

`ClientConnectionProofs`, for every set of commands and every bound, assuming besides that the
callers of the queue are the two threads (`ThreadsAssumption`):

* `ClientUsesQueue`: `ClientSpec => Spec`. Every step of the client is a step of its queue or
  leaves it alone, so all of the above holds in the client: `ClientNeverStuckSending`,
  `ClientDoneWasSent`, `ClientFollowsLedger` (`ClientSpec => LedgerSpec`) and `ClientWakeupKept`
  are four instances.
* `NothingLeftOpen`: `ClientSpec => []QuitClosesAll`. Its invariant `ClosedInv` adds what is so
  before the end: every file socket but the latest is closed, whatever step of a reconnect the
  command thread is at, and the text socket once `quit` has begun.
* `HistoryIsAsked`: `ClientSpec => []HistoryAsked`. `HistoryAsked` is not inductive: between the
  start of the second read and `try_request_history` the history has not been asked for, and a
  socket that is replaced must not have been read from before it is connected. `AskInv` adds
  both; the steps of the queue and the network are handled together by `Settles` (sockets settle,
  break and close, and never reopen).
* `ClientTyping`: `ClientSpec => []ClientTypeOK`, which ties the place of each thread in the
  client to its place in a call of the queue. Inductive with `AskInv` and with the set of connects
  finite (`ThreadsOK`).
* `NoThirdReadLoop`: `ClientSpec => []FewReadLoops`. The invariant `ReadsInv` counts, besides the
  loops of a socket, those that are still to be started: each connect is reported once
  (`ConnectsOnce`); of the handlers of one poll one at most is of a text connect that succeeded, and
  one of a file connect (`HandlersOnce`); and `LoopsInv` has room for each of them.
* `PauseHasReason`: `ClientSpec => PausedForAReason`, with one lemma each for what `Poll`, the
  handlers and the command thread do to a reason: `Poll` turns a connect into a handler, a
  handler resumes or finds the socket closed, and a socket is replaced by the thread that
  connects the new one. `PausedOnlyByReconnect` is the invariant for a user who never pauses the
  queue.

`ChatServerProofs`, for any sets of clients and sockets and any bounds, from `ConstantsAssumption`
(the clients are finitely many):

* `ServerTyping`: `Spec => []TypeOK`. The inductive invariant `Typed` says besides what the
  locals of a handler are at each of its places (that it holds a queue where it uses one,
  that the list of a loop is not empty), and that a text socket that is read from is listed.
* `RegistryOwnsQueues`: `QueueOwnership` needs `BuiltAlone`: a queue that is not registered yet
  is in the hands of the one handler that built it. Then neither the loser of the race nor
  `StopServer` stops a queue that somebody registered and goes on using.
* `HistoryStaysPut`: `ReplayIsSegment`, because a replay excludes every push.
* `BroadcastReachesListed`: `FilesReachListed`; and the lemma `JoinerIsHanded`: a joiner is given
  every file it is owed, to a queue of its socket. Their invariants `ListedInv` and `JoinerInv`
  follow a broadcast in progress: each client that is owed the file has it, or is in the list still
  to be copied, or in the part of the copied list still to come, or is the one whose queue is being
  looked up; and a joiner may instead have it in the part of the history its replay has still to
  walk. `Listing` says that a socket is listed once and stays so until it is closed.
* `JoinerMissesOnlyEarlyTexts`: `TextsReachJoiner`. `TextsInv` follows a text from the copied
  list (`HandInv`: a client that is listed is in it, or the text is early for that client) to the
  sends still to come (`Sending`), and a replay to its end, for the texts that the history had
  when it began.
* `WaitingIsForWorkers`: `WaitsEndAtWorkers`. The invariant `Joining` says who has stopped the
  worker it joins, so that a worker somebody waits for begins no other transfer; `Typed` says where
  `history_mutex_` and `file_queues_mutex_` are held. No chain of waiting is longer than two.
* `HistoryKeepsLast`: `HistoryHoldsLast`. A push of n entries adds n, or n - 1 where the limit is
  passed, and `FilesCounted` ties the excess to the files in `log`.
* `NoFileLost`: `FilesKept`, from `NotLost` (a file that was handed over is in a queue, or left it
  through the socket), `LosersStop` (a queue is stopped only by `StopServer`, or after another one
  has been registered for its socket) and `SocketsMatch` (a queue that is registered, or that a
  handler holds, writes to the socket it was looked up for). `JoinerFilesKept`, `FilesReachJoiner`,
  joins it to `JoinerIsHanded`.
* `MixEndsWithTheRace`: `MixEndsWithRace`, from `ActiveOwned` (a transfer in progress is that of
  a queue that is registered or held) and `StoppedIdle` (`StopServer` leaves a registered queue
  only when its transfer has ended, so that clearing the registry takes no transfer from its
  owner); two registered queues have two sockets by `SocketsMatch`.

`CodecProofs` and `FrameReaderProofs`, for any number of values of a byte and any texts, names,
contents and ports whose frames are shorter than `Limit` (`CodecAssumption`):

* `RoundTrip` and `CutsRefused`: each message is read as it was serialized, and each proper
  prefix of its frame is refused. The layout lemmas (`TextLayout`, `FileLayout`, `HistoryLayout`)
  say where each field of a frame stands, from `Append32` and `Append64`; `StartsReads` that what
  follows a field does not change what is read of it.
* `MessagesReadAsSent`, `ReaderStaysInStep`, `LengthsAreObeyed`: `ReadAsSent`, `InStep` and
  `LengthsObeyed` hold of `FrameSpec`, for any set of lengths below `Limit`. The inductive
  invariant `FrameInv` says that frames stand one behind the other (`Contiguous`), that the stream
  holds their bytes as far as it reaches (`Laid`, `Reach`), and that the reader is at the start of
  the next frame, or 12 bytes behind it with its header in hand (`Position`).
* `FramesImplementChannel`: `FrameSpec => FramesAreChannel`. What is handed over is the next message
  because of `FrameInv`: each step of the reader is a delivery of the channel or a stutter.

`SocketStreamProofs`, for any lengths, sizes of writes and number of messages:

* `StreamTyping`: `StreamSpec => []StreamTypeOK`.
* `WireKeepsOrder`: as long as no text was split, the wire holds the `Run` of units from the one
  the receiver expects (`Expected`) to the one written next (`Written`). `InOrder` is inductive
  under `Ordered`, and joins `WritesOK`, `WireOK` and `FrameOK`.
* `TextsArriveInOrder` and `StreamIsChannel`: `FittingTextsArrive`, and the refinement of
  `MessageChannel` for the connection of a queue, follow from it.

Only model-checked: liveness, which is out of the prover's reach (`EveryFileAttempted`, `QuitEnds`,
`CancelFreesWorker`, `EveryFrameArrives`, `HandlersReturn`, `StopReturns`, `TextReachesClients`);
and the disagreements of section 4. Induction over data, ENABLED and RECURSIVE operators, which the
prover cannot handle either, occur in no statement. Every other invariant, action property and
refinement that a passing run checks is proved.

## 6. Not modelled

Abstracted in what there is: `last_error`, log output, the worker's sleeps (they only delay),
`list_snapshot` (reads only), the bytes of a file where no property is about them (chunks in
`FileTransferQueue`, units in `SocketStream`), the endpoint strings (a client's sockets match
each other). A text is sent to a socket as a whole in `ChatServer`; `SocketStream` has the pieces.

Left out, with the reason:

* `RemoveFileQueueForSocket` and the erasures of closed sockets from the lists: they find nothing
  to do. A listed socket is closed only by `StopServer`, in the critical section that clears its
  list, and the error path of the receiver returns before it would close a socket
  (MessageReceiver.cpp:70).
* A second `StartServer`, and a `StopServer` called before `StartServer` has set the status: the
  program does neither.
* The reset of `fileMessageReceiver_` by `/cancelall` while a read of the old one is in progress,
  and the destruction of `client_file_socket` before the queue whose worker may still ask for it
  (ClientServerConnectionManager.h:18, 37): uses of destroyed objects, of which the model takes
  the outcome in which the old object is still intact.
* The constructor's catch in the client (an address that does not parse): nothing runs after it.
* `save_file`, the reading of a file by `FileMessage`'s constructor and `get_desktop_path`: the
  state is the host's file system, and one io thread per client does it all in turn; two clients
  on one host share it without any protocol.
* Allocation failures, and the size of a body as a bound on memory.
* `ServerMain`, the prompts of `ClientMain` and the parsing of `CommandProcessor`: console input
  and output, whose commands are actions of `ClientConnection`.
* Build files and unit tests.
