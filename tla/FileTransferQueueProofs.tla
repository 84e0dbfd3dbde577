----------------------- MODULE FileTransferQueueProofs -----------------------
(***************************************************************************)
(* The invariants of FileTransferQueue, for every set of callers, every    *)
(* set of operations they use and every bound.                             *)
(***************************************************************************)
EXTENDS FileTransferQueue, SequenceFacts

-----------------------------------------------------------------------------
(* Type correctness.                                                       *)

\* An item-by-item rewrite of the deque keeps it a deque of the same length.
LEMMA RewriteIsDeque ==
  ASSUME NEW q \in Seq(Item), NEW r,
         r = [i \in DOMAIN q |-> r[i]], \A i \in DOMAIN q : r[i] \in Item
  PROVE  r \in Seq(Item) /\ Len(r) = Len(q) /\ DOMAIN r = DOMAIN q
<1>1. Len(q) \in Nat /\ DOMAIN q = 1..Len(q)
  BY LenProperties
<1>2. r \in [1..Len(q) -> Item]
  BY <1>1
<1> QED
  BY <1>1, <1>2, FcnIsSeq

LEMMA InitTypeOK == Init => TypeOK
<1> SUFFICES ASSUME Init PROVE TypeOK
  OBVIOUS
<1>1. queue_ \in Seq(Item) /\ item \in Item \cup {NoItem} /\ ~(wpc \in Busy)
  BY EmptySeq DEF Init, Busy
<1>2. sockets \in Seq({"fresh", "connecting", "open", "broken", "closed"}) /\ sock \in 0..Len(sockets)
  <2>1. CASE sock = 0 /\ sockets = <<>>
    BY <2>1, EmptySeq
  <2>2. CASE sock = 1 /\ sockets = <<"connecting">>
    BY <2>2
  <2>3. CASE sock = 1 /\ sockets = <<"open">>
    BY <2>3
  <2> QED
    BY <2>1, <2>2, <2>3 DEF Init
<1>3. wsock \in 0..Len(sockets)
  BY <1>2 DEF Init
<1>4. next_id_ \in 1..(MaxId + 1) /\ progress \in 0..Chunks
  BY ConstantsAssumption DEF Init
<1> QED
  BY <1>1, <1>2, <1>3, <1>4 DEF Init, TypeOK, WorkerPCs

\* The states an operation or the worker writes into an item leave it an item.
LEMMA ItemUpdates ==
  ASSUME NEW it \in Item
  PROVE  /\ [it EXCEPT !.state = "Canceled"] \in Item
         /\ [it EXCEPT !.state = "Queued", !.message = FALSE, !.retries = @ + 1] \in Item
         /\ Picked(it) \in Item
         /\ NotSent(it) \in Item
         /\ Written(it) \in Item
         /\ [it EXCEPT !.message = TRUE] \in Item
<1> DEFINE more == it.retries + 1
<1>1. more \in Nat
  BY DEF Item
<1> HIDE DEF more
<1>2. [it EXCEPT !.state = "Canceled"] \in Item
  BY DEF Item, States
<1>3. [it EXCEPT !.state = "Queued", !.message = FALSE, !.retries = @ + 1] \in Item
  <2>1. [it EXCEPT !.state = "Queued", !.message = FALSE, !.retries = more] \in Item
    BY <1>1 DEF Item, States
  <2> QED
    BY <2>1 DEF more
<1>4. Picked(it) \in Item
  BY DEF Item, States, Picked
<1>5. NotSent(it) \in Item
  BY DEF Item, States, NotSent
<1>6. Written(it) \in Item
  <2>1. [it EXCEPT !.state = "Failed", !.retries = more] \in Item
    BY <1>1 DEF Item, States
  <2>2. [it EXCEPT !.state = "Done"] \in Item
    BY DEF Item, States
  <2> QED
    BY <2>1, <2>2 DEF Written, more
<1>7. [it EXCEPT !.message = TRUE] \in Item
  BY DEF Item
<1> QED
  BY <1>2, <1>3, <1>4, <1>5, <1>6, <1>7

LEMMA NewItemIsItem ==
  ASSUME TypeOK, NEW fromPath \in BOOLEAN, next_id_ <= MaxId
  PROVE  NewItem(fromPath) \in Item
BY ConstantsAssumption DEF TypeOK, NewItem, Item, States, Ids

LEMMA CloseSocketTyped ==
  ASSUME TypeOK, CloseSocket
  PROVE  /\ sockets' \in Seq({"fresh", "connecting", "open", "broken", "closed"})
         /\ Len(sockets') = Len(sockets) /\ sock' = sock
<1>1. CASE IsOpen(sock)
  <2>1. sockets' = [sockets EXCEPT ![sock] = "closed"]
    BY <1>1 DEF CloseSocket
  <2>2. sock \in 1..Len(sockets) /\ Len(sockets) \in Nat
    BY <1>1, LenProperties DEF IsOpen, TypeOK
  <2>3. sockets \in Seq({"fresh", "connecting", "open", "broken", "closed"})
    BY DEF TypeOK
  <2>4. "closed" \in {"fresh", "connecting", "open", "broken", "closed"}
    OBVIOUS
  <2>5. /\ [sockets EXCEPT ![sock] = "closed"] \in Seq({"fresh", "connecting", "open", "broken", "closed"})
        /\ Len([sockets EXCEPT ![sock] = "closed"]) = Len(sockets)
    BY <2>2, <2>3, <2>4, ExceptSeq
  <2> QED
    BY <2>1, <2>5 DEF CloseSocket
<1>2. CASE ~IsOpen(sock)
  BY <1>2 DEF CloseSocket, TypeOK
<1> QED
  BY <1>1, <1>2

\* An operation a caller starts keeps every variable in its type.
LEMMA CallTypeOK ==
  ASSUME TypeOK, NEW c \in Callers, Call(c)
  PROVE  TypeOK'
<1> USE DEF callVars, workerVars, sockVars
<1>0. Len(queue_) \in Nat /\ DOMAIN queue_ = 1..Len(queue_) /\ \A i \in DOMAIN queue_ : queue_[i] \in Item
  BY LenProperties, ElementOfSeq DEF TypeOK
<1>1. ASSUME NEW fromPath \in BOOLEAN, enqueue(c, fromPath) PROVE TypeOK'
  <2>1. next_id_ <= MaxId /\ NewItem(fromPath) \in Item
    BY <1>1, NewItemIsItem DEF enqueue
  <2>2. queue_' \in Seq(Item)
    BY <1>1, <2>1, AppendProperties DEF enqueue, Pushed, TypeOK
  <2>3. next_id_' \in 1..(MaxId + 1)
    BY <1>1, <2>1, ConstantsAssumption DEF enqueue, TypeOK
  <2> QED
    BY <1>1, <2>2, <2>3 DEF enqueue, notify_one, TypeOK
<1>2. ASSUME NEW id \in Ids, remove(c, id) PROVE TypeOK'
  <2>1. queue_' \in Seq(Item)
    BY <1>0, <1>2, RemoveAtProperties DEF remove, TypeOK
  <2> QED
    BY <1>2, <2>1 DEF remove, TypeOK
<1>3. ASSUME NEW id \in Ids, retry(c, id) PROVE TypeOK'
  <2>1. queue_' \in Seq(Item)
    BY <1>0, <1>3, ItemUpdates, RewriteIsDeque DEF retry, Update, TypeOK
  <2> QED
    BY <1>3, <2>1 DEF retry, notify_one, TypeOK
<1>4. ASSUME NEW id \in Ids, cancel(c, id) PROVE TypeOK'
  <2>1. queue_' \in Seq(Item)
    BY <1>0, <1>4, ItemUpdates, RewriteIsDeque DEF cancel, Update, TypeOK
  <2>2. /\ sockets' \in Seq({"fresh", "connecting", "open", "broken", "closed"})
        /\ Len(sockets') = Len(sockets) /\ sock' = sock
    BY <1>4, CloseSocketTyped DEF cancel, TypeOK
  <2> QED
    BY <1>4, <2>1, <2>2 DEF cancel, notify_one, TypeOK
<1>5. CASE pause(c)
  BY <1>5 DEF pause, TypeOK
<1>6. CASE resume(c)
  BY <1>6 DEF resume, Goto, TypeOK
<1>7. CASE cancel_all(c)
  <2>1. queue_' \in Seq(Item)
    BY <1>0, <1>7, ItemUpdates, RewriteIsDeque DEF cancel_all, TypeOK
  <2> QED
    BY <1>7, <2>1 DEF cancel_all, Goto, TypeOK
<1>8. CASE stop(c)
  BY <1>8 DEF stop, Goto, TypeOK
<1> QED
  BY <1>1, <1>2, <1>3, <1>4, <1>5, <1>6, <1>7, <1>8 DEF Call

LEMMA ReturnTypeOK ==
  ASSUME TypeOK, NEW c \in Callers, Return(c)
  PROVE  TypeOK'
<1> USE DEF callVars, workerVars, sockVars
<1>1. CASE ResumeNotify(c)
  BY <1>1 DEF ResumeNotify, Goto, notify_one, TypeOK
<1>2. CASE CancelAllClose(c)
  <2>1. /\ sockets' \in Seq({"fresh", "connecting", "open", "broken", "closed"})
        /\ Len(sockets') = Len(sockets) /\ sock' = sock
    BY <1>2, CloseSocketTyped DEF CancelAllClose
  <2> QED
    BY <1>2, <2>1 DEF CancelAllClose, Goto, notify_one, TypeOK
<1>3. CASE StopNotify(c)
  BY <1>3 DEF StopNotify, Goto, notify_one, TypeOK
<1>4. CASE StopJoin(c)
  BY <1>4 DEF StopJoin, Goto, TypeOK
<1> QED
  BY <1>1, <1>2, <1>3, <1>4 DEF Return

LEMMA WorkerTypeOK ==
  ASSUME TypeOK, WorkerStep \/ WriteChunk
  PROVE  TypeOK'
<1> USE DEF sockVars, WorkerLocals, OwnStep
<1>0. Len(queue_) \in Nat /\ DOMAIN queue_ = 1..Len(queue_) /\ \A i \in DOMAIN queue_ : queue_[i] \in Item
  BY LenProperties, ElementOfSeq DEF TypeOK
<1>a. Len(sockets) \in Nat /\ 0 \in 0..Len(sockets) /\ 0 \in 0..Chunks
  BY LenProperties, ConstantsAssumption DEF TypeOK
<1>1. CASE LoopHead
  BY <1>1 DEF LoopHead, TypeOK, WorkerPCs, Busy
<1>2. CASE WaitFalse
  BY <1>2 DEF WaitFalse, TypeOK, WorkerPCs, Busy
<1>3. CASE Block
  BY <1>3 DEF Block, TypeOK, WorkerPCs, Busy
<1>4. CASE WaitStopped
  BY <1>4 DEF WaitStopped, TypeOK, WorkerPCs, Busy
<1>5. CASE PickNothing
  BY <1>5 DEF PickNothing, TypeOK, WorkerPCs, Busy
<1>6. CASE Pick
  <2>1. PICK i \in DOMAIN queue_ : item' = queue_[i] /\ queue_' = [queue_ EXCEPT ![i] = Picked(@)]
    BY <1>6 DEF Pick
  <2>2. queue_[i] \in Item /\ Picked(queue_[i]) \in Item
    BY <1>0, ItemUpdates
  <2>3. queue_' \in Seq(Item)
    BY <1>0, <2>1, <2>2, ExceptSeq DEF TypeOK
  <2> QED
    BY <1>6, <2>1, <2>2, <2>3 DEF Pick, TypeOK, WorkerPCs, Busy
<1>7. CASE Build
  <2>1. item \in Item /\ [item EXCEPT !.message = TRUE] \in Item
    BY <1>7, ItemUpdates DEF Build, TypeOK, Busy
  <2> QED
    BY <1>7, <2>1 DEF Build, TypeOK, WorkerPCs, Busy
<1>8. CASE GetSocket
  <2>1. item \in Item
    BY <1>8 DEF GetSocket, TypeOK, Busy
  <2> QED
    BY <1>8, <2>1, ConstantsAssumption DEF GetSocket, IsOpen, TypeOK, WorkerPCs, Busy
<1>9. CASE GiveUp
  <2>1. queue_' \in Seq(Item)
    BY <1>0, <1>9, ItemUpdates, RewriteIsDeque DEF GiveUp, Update, TypeOK
  <2> QED
    BY <1>9, <1>a, <2>1 DEF GiveUp, OutOfScope, TypeOK, WorkerPCs, Busy
<1>10. CASE WriteChunk
  <2>1. item \in Item /\ item.id \in Ids
    BY <1>10 DEF WriteChunk, TypeOK, Busy, Item
  <2>2. progress' \in 0..Chunks /\ (wpc' = "write" => progress' < Chunks)
    BY <1>10, ConstantsAssumption DEF WriteChunk, TypeOK
  <2> QED
    BY <1>10, <2>1, <2>2 DEF WriteChunk, TypeOK, WorkerPCs, Busy
<1>11. CASE WriteFails
  BY <1>11 DEF WriteFails, TypeOK, WorkerPCs, Busy
<1>12. CASE Finish
  <2>1. queue_' \in Seq(Item)
    BY <1>0, <1>12, ItemUpdates, RewriteIsDeque DEF Finish, Update, TypeOK
  <2> QED
    BY <1>12, <1>a, <2>1 DEF Finish, OutOfScope, TypeOK, WorkerPCs, Busy
<1> QED
  BY <1>1, <1>2, <1>3, <1>4, <1>5, <1>6, <1>7, <1>8, <1>9, <1>10, <1>11, <1>12 DEF WorkerStep

LEMMA NetworkTypeOK ==
  ASSUME TypeOK, SpuriousWakeup \/ Connected \/ PeerLost \/ Disconnect \/ ReplaceSocket \/ StartConnect
  PROVE  TypeOK'
<1> USE DEF callVars, workerVars, sockVars, WorkerLocals, OwnStep
<1> DEFINE SocketStates == {"fresh", "connecting", "open", "broken", "closed"}
<1>0. sockets \in Seq(SocketStates) /\ Len(sockets) \in Nat /\ DOMAIN sockets = 1..Len(sockets)
  BY LenProperties DEF TypeOK
<1>1. CASE SpuriousWakeup
  BY <1>1 DEF SpuriousWakeup, TypeOK
<1>2. ASSUME NEW s \in DOMAIN sockets, NEW r \in {"open", "broken"},
             sockets' = [sockets EXCEPT ![s] = r]
      PROVE  sockets' \in Seq(SocketStates) /\ Len(sockets') = Len(sockets)
  <2>1. r \in SocketStates
    OBVIOUS
  <2> QED
    BY <1>0, <1>2, <2>1, ExceptSeq
<1>3. CASE Connected
  <2>1. sockets' \in Seq(SocketStates) /\ Len(sockets') = Len(sockets)
    BY <1>2, <1>3 DEF Connected
  <2> QED
    BY <1>3, <2>1 DEF Connected, TypeOK
<1>4. CASE PeerLost
  <2>1. sockets' \in Seq(SocketStates) /\ Len(sockets') = Len(sockets)
    BY <1>2, <1>4 DEF PeerLost
  <2> QED
    BY <1>4, <2>1 DEF PeerLost, TypeOK
<1>5. CASE Disconnect
  <2>1. sockets' \in Seq(SocketStates) /\ Len(sockets') = Len(sockets) /\ sock' = sock
    BY <1>5, CloseSocketTyped DEF Disconnect
  <2> QED
    BY <1>5, <2>1 DEF Disconnect, TypeOK
<1>6. CASE ReplaceSocket
  <2>1. sockets' \in Seq(SocketStates) /\ Len(sockets') = Len(sockets) + 1
    BY <1>0, <1>6, AppendProperties DEF ReplaceSocket
  <2> QED
    BY <1>0, <1>6, <2>1 DEF ReplaceSocket, TypeOK
<1>7. CASE StartConnect
  <2>1. sockets' \in Seq(SocketStates) /\ Len(sockets') = Len(sockets)
    BY <1>0, <1>7, ExceptSeq DEF StartConnect, TypeOK
  <2> QED
    BY <1>7, <2>1 DEF StartConnect, TypeOK
<1> QED
  BY <1>1, <1>3, <1>4, <1>5, <1>6, <1>7

LEMMA TypeOKInductive == TypeOK /\ [Next]_vars => TypeOK'
<1>1. ASSUME TypeOK, UNCHANGED vars PROVE TypeOK'
  BY <1>1 DEF vars, callVars, workerVars, sockVars, TypeOK
<1> QED
  BY <1>1, CallTypeOK, ReturnTypeOK, WorkerTypeOK, NetworkTypeOK DEF Next

\* Every variable keeps its type, for any callers, operations and bounds.
THEOREM Typing == Spec => []TypeOK
<1> QED
  BY InitTypeOK, TypeOKInductive, PTL DEF Spec

-----------------------------------------------------------------------------
(* The safety invariants.  None but TypeOK is inductive alone: the verdict  *)
(* of Finish is right only because the worker still owns the item           *)
(* (WorkerOwnsItem), and it enters the verdict in one item only because ids *)
(* are distinct (QueueOrder).                                               *)

Safety == QueueOrder /\ SendingIsActive /\ DoneWasSent /\ WorkerOwnsItem
IInv == TypeOK /\ Safety

\* The deque holds the same files in the same places.
SameFiles ==
  /\ DOMAIN queue_' = DOMAIN queue_
  /\ \A i \in DOMAIN queue_ : queue_'[i].id = queue_[i].id

LEMMA DequeFacts ==
  ASSUME TypeOK
  PROVE  /\ Len(queue_) \in Nat /\ DOMAIN queue_ = 1..Len(queue_)
         /\ \A i \in DOMAIN queue_ : queue_[i] \in Item /\ queue_[i].id \in Ids
         /\ next_id_ \in Nat
<1>1. \A i \in 1..Len(queue_) : queue_[i] \in Item
  BY ElementOfSeq DEF TypeOK
<1> QED
  BY <1>1, LenProperties, ConstantsAssumption DEF TypeOK, Item

\* What an update writes into the state of an item, and that it leaves the id.
LEMMA ItemUpdateFields ==
  ASSUME NEW it \in Item
  PROVE  /\ [it EXCEPT !.state = "Canceled"].id = it.id
         /\ [it EXCEPT !.state = "Canceled"].state = "Canceled"
         /\ [it EXCEPT !.state = "Queued", !.message = FALSE, !.retries = @ + 1].id = it.id
         /\ [it EXCEPT !.state = "Queued", !.message = FALSE, !.retries = @ + 1].state = "Queued"
         /\ Picked(it).id = it.id /\ Picked(it).state = "Sending"
         /\ NotSent(it).id = it.id
         /\ NotSent(it).state = IF it.state = "Canceled" THEN "Canceled" ELSE "Failed"
         /\ Written(it).id = it.id
         /\ Written(it).state = IF it.state = "Canceled" THEN "Canceled"
                                ELSE IF ec THEN "Failed" ELSE "Done"
         /\ [it EXCEPT !.message = TRUE].id = it.id
BY DEF Item, Picked, NotSent, Written

\* Two places never hold the same file.
LEMMA DistinctIds ==
  ASSUME TypeOK, QueueOrder, NEW i \in DOMAIN queue_, NEW j \in DOMAIN queue_,
         queue_[i].id = queue_[j].id
  PROVE  i = j
<1>1. i \in Nat /\ j \in Nat /\ queue_[i].id \in Nat /\ queue_[j].id \in Nat
  BY DequeFacts DEF Ids
<1> QED
  BY <1>1 DEF QueueOrder

LEMMA SameFilesKeepOrder ==
  ASSUME QueueOrder, SameFiles, UNCHANGED next_id_
  PROVE  QueueOrder'
BY DEF QueueOrder, SameFiles

LEMMA InitSafety == Init => Safety
BY DEF Init, Safety, QueueOrder, SendingIsActive, DoneWasSent, WorkerOwnsItem, Busy

\* A step that leaves the deque and the worker alone.
LEMMA StutterSafety ==
  ASSUME Safety, UNCHANGED <<queue_, next_id_, wpc, item, ec, sent>>
  PROVE  Safety'
BY DEF Safety, QueueOrder, SendingIsActive, DoneWasSent, WorkerOwnsItem

LEMMA CallSafety ==
  ASSUME TypeOK, Safety, NEW c \in Callers, Call(c)
  PROVE  Safety'
<1> USE DEF workerVars, sockVars
<1>0. /\ Len(queue_) \in Nat /\ DOMAIN queue_ = 1..Len(queue_)
      /\ \A i \in DOMAIN queue_ : queue_[i] \in Item /\ queue_[i].id \in Nat
      /\ next_id_ \in Nat
  BY DequeFacts DEF Ids
<1>1. ASSUME NEW fromPath \in BOOLEAN, enqueue(c, fromPath) PROVE Safety'
  <2> DEFINE it == NewItem(fromPath)
  <2>1. it \in Item /\ it.id = next_id_ /\ it.state = "Queued"
    BY <1>1, NewItemIsItem DEF enqueue, NewItem
  <2>2. /\ UNCHANGED <<wpc, item, ec, sent>> /\ next_id_' = next_id_ + 1
        /\ queue_' = Append(queue_, it)
    BY <1>1 DEF enqueue, Pushed
  <2> HIDE DEF it
  <2>3. /\ queue_' \in Seq(Item) /\ Len(queue_') = Len(queue_) + 1
        /\ \A i \in 1..Len(queue_) : queue_'[i] = queue_[i]
        /\ queue_'[Len(queue_) + 1] = it
    BY <2>1, <2>2, AppendProperties DEF TypeOK
  <2>4. DOMAIN queue_' = 1..(Len(queue_) + 1)
    BY <2>3, LenProperties
  <2>5. QueueOrder'
    BY <1>0, <2>1, <2>2, <2>3, <2>4 DEF QueueOrder, Safety
  <2>6. SendingIsActive' /\ DoneWasSent'
    BY <1>0, <2>1, <2>2, <2>3, <2>4 DEF SendingIsActive, DoneWasSent, Safety
  <2>7. wpc \in Busy => item.id \in Nat
    BY DEF TypeOK, Item, Ids
  <2>8. WorkerOwnsItem'
    BY <1>0, <2>1, <2>2, <2>3, <2>4, <2>7 DEF WorkerOwnsItem, Safety
  <2> QED
    BY <2>5, <2>6, <2>8 DEF Safety
<1>2. ASSUME NEW id \in Ids, remove(c, id) PROVE Safety'
  <2>1. PICK k \in DOMAIN queue_ : queue_' = RemoveAt(queue_, k)
    BY <1>2 DEF remove
  <2>2. UNCHANGED <<next_id_, wpc, item, ec, sent>>
    BY <1>2 DEF remove
  <2>3. /\ queue_' \in Seq(Item) /\ Len(queue_') = Len(queue_) - 1
        /\ \A j \in 1..(Len(queue_) - 1) :
             queue_'[j] = IF j < k THEN queue_[j] ELSE queue_[j + 1]
    <3>1. k \in 1..Len(queue_) /\ queue_ \in Seq(Item)
      BY <1>0 DEF TypeOK
    <3> QED
      BY <2>1, <3>1, RemoveAtProperties
  <2>4. DOMAIN queue_' = 1..(Len(queue_) - 1)
    BY <2>3, LenProperties
  <2>5. \A j \in DOMAIN queue_' : \E i \in DOMAIN queue_ : queue_'[j] = queue_[i]
    <3>1. ASSUME NEW j \in DOMAIN queue_'
          PROVE  /\ j \in DOMAIN queue_ /\ j + 1 \in DOMAIN queue_
                 /\ queue_'[j] = queue_[j] \/ queue_'[j] = queue_[j + 1]
      BY <1>0, <2>3, <2>4, <3>1
    <3> QED
      BY <3>1
  <2>6. QueueOrder'
    <3>1. \A i \in DOMAIN queue_' : queue_'[i].id < next_id_'
      BY <2>2, <2>5 DEF QueueOrder, Safety
    <3>2. ASSUME NEW i \in DOMAIN queue_', NEW j \in DOMAIN queue_', i < j
          PROVE  queue_'[i].id < queue_'[j].id
      <4> DEFINE from(n) == IF n < k THEN n ELSE n + 1
      <4>1. from(i) \in DOMAIN queue_ /\ from(j) \in DOMAIN queue_ /\ from(i) < from(j)
        BY <1>0, <2>4, <3>2
      <4>2. queue_'[i] = queue_[from(i)] /\ queue_'[j] = queue_[from(j)]
        BY <2>3, <2>4
      <4> HIDE DEF from
      <4> QED
        BY <4>1, <4>2 DEF QueueOrder, Safety
    <3> QED
      BY <3>1, <3>2 DEF QueueOrder
  <2>7. SendingIsActive' /\ DoneWasSent' /\ WorkerOwnsItem'
    BY <2>2, <2>5 DEF SendingIsActive, DoneWasSent, WorkerOwnsItem, Safety
  <2> QED
    BY <2>6, <2>7 DEF Safety
<1>3. ASSUME NEW id \in Ids, retry(c, id) PROVE Safety'
  <2>1. UNCHANGED <<next_id_, wpc, item, ec, sent>> /\ DOMAIN queue_' = DOMAIN queue_
    BY <1>3 DEF retry, Update
  <2>2. \A i \in DOMAIN queue_ :
          IF queue_[i].id = id
          THEN queue_'[i].id = queue_[i].id /\ queue_'[i].state = "Queued"
          ELSE queue_'[i] = queue_[i]
    BY <1>0, <1>3, ItemUpdateFields DEF retry, Update
  <2>3. \A i \in DOMAIN queue_ :
          queue_[i].id = id => queue_[i].state \in RetryStates
    <3>1. PICK k \in DOMAIN queue_ : queue_[k].id = id /\ queue_[k].state \in RetryStates
      BY <1>3 DEF retry
    <3>2. QueueOrder
      BY DEF Safety
    <3>3. \A i \in DOMAIN queue_ : queue_[i].id = id => i = k
      BY <3>1, <3>2, DistinctIds
    <3> QED
      BY <3>1, <3>3
  <2>4. QueueOrder'
    BY <2>1, <2>2, SameFilesKeepOrder DEF SameFiles, Safety
  <2>5. SendingIsActive'
    BY <2>1, <2>2 DEF SendingIsActive, Safety
  <2>6. DoneWasSent'
    BY <2>1, <2>2 DEF DoneWasSent, Safety
  <2>7. WorkerOwnsItem'
    <3>1. ASSUME wpc \in Busy, NEW i \in DOMAIN queue_, queue_'[i].id = item.id
          PROVE  \/ queue_'[i].state \in {"Sending", "Canceled"}
                 \/ queue_'[i].state = "Queued" /\ ~(RetryStates \subseteq {"Failed"})
      <4>1. CASE queue_[i].id = id
        <5>1. queue_[i].state \in RetryStates /\ queue_[i].state # "Failed"
          BY <2>2, <2>3, <3>1, <4>1 DEF WorkerOwnsItem, Safety
        <5> QED
          BY <2>2, <4>1, <5>1
      <4>2. CASE queue_[i].id # id
        BY <2>2, <3>1, <4>2 DEF WorkerOwnsItem, Safety
      <4> QED
        BY <4>1, <4>2
    <3> QED
      BY <2>1, <3>1 DEF WorkerOwnsItem, Safety
  <2> QED
    BY <2>4, <2>5, <2>6, <2>7 DEF Safety
<1>4. ASSUME NEW id \in Ids, cancel(c, id) PROVE Safety'
  <2>1. UNCHANGED <<next_id_, wpc, item, ec, sent>> /\ DOMAIN queue_' = DOMAIN queue_
    BY <1>4 DEF cancel, Update
  <2>2. \A i \in DOMAIN queue_ :
          IF queue_[i].id = id
          THEN queue_'[i].id = queue_[i].id /\ queue_'[i].state = "Canceled"
          ELSE queue_'[i] = queue_[i]
    BY <1>0, <1>4, ItemUpdateFields DEF cancel, Update
  <2> QED
    BY <2>1, <2>2, SameFilesKeepOrder
    DEF SameFiles, SendingIsActive, DoneWasSent, WorkerOwnsItem, Safety
<1>5. CASE pause(c)
  BY <1>5, StutterSafety DEF pause
<1>6. CASE resume(c)
  BY <1>6, StutterSafety DEF resume
<1>7. CASE cancel_all(c)
  <2>1. UNCHANGED <<next_id_, wpc, item, ec, sent>> /\ DOMAIN queue_' = DOMAIN queue_
    BY <1>7 DEF cancel_all
  <2>2. \A i \in DOMAIN queue_ :
          \/ queue_'[i].id = queue_[i].id /\ queue_'[i].state = "Canceled"
          \/ queue_'[i] = queue_[i]
    BY <1>0, <1>7, ItemUpdateFields DEF cancel_all
  <2> QED
    BY <2>1, <2>2, SameFilesKeepOrder
    DEF SameFiles, SendingIsActive, DoneWasSent, WorkerOwnsItem, Safety
<1>8. CASE stop(c)
  BY <1>8, StutterSafety DEF stop, callVars
<1> QED
  BY <1>1, <1>2, <1>3, <1>4, <1>5, <1>6, <1>7, <1>8 DEF Call

LEMMA WorkerSafety ==
  ASSUME TypeOK, Safety, WorkerStep \/ WriteChunk
  PROVE  Safety'
<1> USE DEF WorkerLocals, OwnStep
<1>0. /\ Len(queue_) \in Nat /\ DOMAIN queue_ = 1..Len(queue_)
      /\ \A i \in DOMAIN queue_ : queue_[i] \in Item /\ queue_[i].id \in Nat
      /\ next_id_ \in Nat
  BY DequeFacts DEF Ids
\* Steps outside Busy that leave the deque alone.
<1>1. ASSUME UNCHANGED <<queue_, next_id_, sent>>, ~(wpc \in Busy), ~(wpc' \in Busy)
      PROVE  Safety'
  BY <1>1 DEF Safety, QueueOrder, SendingIsActive, DoneWasSent, WorkerOwnsItem, Busy
<1>2. CASE LoopHead
  BY <1>1, <1>2 DEF LoopHead, Busy
<1>3. CASE WaitFalse
  BY <1>1, <1>3 DEF WaitFalse, Busy
<1>4. CASE Block
  BY <1>1, <1>4 DEF Block, Busy
<1>5. CASE WaitStopped
  BY <1>1, <1>5 DEF WaitStopped, Busy
<1>6. CASE PickNothing
  BY <1>1, <1>6 DEF PickNothing, Busy
<1>7. CASE Pick
  <2>1. PICK k \in DOMAIN queue_ :
          /\ queue_[k].state = "Queued"
          /\ item' = queue_[k]
          /\ queue_' = [queue_ EXCEPT ![k] = Picked(queue_[k])]
    BY <1>7 DEF Pick, FirstQueued
  <2>2. wpc' = "build" /\ ~(wpc \in Busy) /\ UNCHANGED <<next_id_, ec, sent>>
    BY <1>7 DEF Pick, Busy
  <2>3. /\ DOMAIN queue_' = DOMAIN queue_
        /\ queue_'[k].id = queue_[k].id /\ queue_'[k].state = "Sending"
        /\ \A i \in DOMAIN queue_ \ {k} : queue_'[i] = queue_[i]
    BY <1>0, <2>1, ItemUpdateFields
  <2>4. SameFiles
    BY <2>3 DEF SameFiles
  <2>5. QueueOrder'
    BY <2>2, <2>4, SameFilesKeepOrder DEF Safety
  <2>6. SendingIsActive'
    BY <2>1, <2>2, <2>3 DEF SendingIsActive, Safety, Busy
  <2>7. DoneWasSent'
    BY <2>2, <2>3 DEF DoneWasSent, Safety
  <2>8. WorkerOwnsItem'
    <3>1. \A i \in DOMAIN queue_ : queue_[i].id = queue_[k].id => i = k
      BY DistinctIds DEF Safety
    <3>2. item'.id < next_id_'
      BY <2>1, <2>2 DEF QueueOrder, Safety
    <3> QED
      BY <2>1, <2>2, <2>3, <3>1, <3>2 DEF WorkerOwnsItem
  <2> QED
    BY <2>5, <2>6, <2>7, <2>8 DEF Safety
<1>8. CASE Build
  <2>1. item \in Item
    BY <1>8 DEF Build, TypeOK, Busy
  <2>2. /\ UNCHANGED <<queue_, next_id_, ec, sent>> /\ item'.id = item.id
        /\ wpc \in Busy /\ wpc' \in {"getsock", "giveup"}
    <3>1. item' = item \/ item' = [item EXCEPT !.message = TRUE]
      BY <1>8 DEF Build
    <3>2. item'.id = item.id
      BY <2>1, <3>1, ItemUpdateFields
    <3>3. wpc' = "getsock" \/ wpc' = "giveup"
      BY <1>8 DEF Build
    <3>4. wpc \in Busy
      BY <1>8 DEF Build, Busy
    <3>5. UNCHANGED <<queue_, next_id_, ec, sent>>
      BY <1>8 DEF Build
    <3> QED
      BY <3>2, <3>3, <3>4, <3>5
  <2>3. QueueOrder' /\ DoneWasSent'
    BY <2>2 DEF Safety, QueueOrder, DoneWasSent
  <2>4. SendingIsActive'
    BY <2>2 DEF Safety, SendingIsActive, Busy
  <2>5. WorkerOwnsItem'
    BY <2>2 DEF Safety, WorkerOwnsItem, Busy
  <2> QED
    BY <2>3, <2>4, <2>5 DEF Safety
<1>9. CASE GetSocket
  <2>1. /\ UNCHANGED <<queue_, next_id_, ec, item>> /\ sent \ {item.id} \subseteq sent'
        /\ wpc = "getsock" /\ wpc' \in {"write", "giveup"}
    BY <1>9 DEF GetSocket
  <2>2. DoneWasSent'
    BY <2>1 DEF DoneWasSent, WorkerOwnsItem, Safety, Busy
  <2> QED
    BY <2>1, <2>2 DEF Safety, QueueOrder, SendingIsActive, WorkerOwnsItem, Busy
<1>10. CASE WriteChunk
  <2>1. /\ UNCHANGED <<queue_, next_id_, item>> /\ wpc = "write"
        /\ \/ wpc' = "write" /\ sent' = sent
           \/ wpc' = "finish" /\ sent' = sent \cup {item.id}
    BY <1>10 DEF WriteChunk
  <2> QED
    BY <2>1 DEF Safety, QueueOrder, SendingIsActive, DoneWasSent, WorkerOwnsItem, Busy
<1>11. CASE WriteFails
  <2>1. /\ UNCHANGED <<queue_, next_id_, item, sent>>
        /\ wpc = "write" /\ wpc' = "finish" /\ ec' = TRUE
    BY <1>11 DEF WriteFails
  <2> QED
    BY <2>1 DEF Safety, QueueOrder, SendingIsActive, DoneWasSent, WorkerOwnsItem, Busy
<1>12. CASE GiveUp
  <2>1. /\ UNCHANGED <<next_id_, sent>> /\ DOMAIN queue_' = DOMAIN queue_
        /\ wpc = "giveup" /\ wpc' = "loop"
    BY <1>12 DEF GiveUp, Update
  <2>2. \A i \in DOMAIN queue_ :
          IF queue_[i].id = item.id
          THEN queue_'[i].id = queue_[i].id /\ queue_'[i].state \in {"Canceled", "Failed"}
          ELSE queue_'[i] = queue_[i]
    BY <1>0, <1>12, ItemUpdateFields DEF GiveUp, Update
  <2> QED
    BY <2>1, <2>2, SameFilesKeepOrder
    DEF SameFiles, SendingIsActive, DoneWasSent, WorkerOwnsItem, Safety, Busy
<1>13. CASE Finish
  <2>1. /\ UNCHANGED <<next_id_, sent>> /\ DOMAIN queue_' = DOMAIN queue_
        /\ wpc = "finish" /\ wpc' = "loop"
    BY <1>13 DEF Finish, Update
  <2>2. \A i \in DOMAIN queue_ :
          IF queue_[i].id = item.id
          THEN /\ queue_'[i].id = queue_[i].id
               /\ queue_'[i].state \in {"Canceled", "Failed", "Done"}
               /\ queue_'[i].state = "Done" => ~ec
          ELSE queue_'[i] = queue_[i]
    BY <1>0, <1>13, ItemUpdateFields DEF Finish, Update
  <2>3. DoneWasSent'
    BY <2>1, <2>2 DEF DoneWasSent, WorkerOwnsItem, Safety
  <2> QED
    BY <2>1, <2>2, <2>3, SameFilesKeepOrder
    DEF SameFiles, SendingIsActive, WorkerOwnsItem, Safety, Busy
<1> QED
  BY <1>2, <1>3, <1>4, <1>5, <1>6, <1>7, <1>8, <1>9, <1>10, <1>11, <1>12, <1>13 DEF WorkerStep

LEMMA SafetyStep ==
  ASSUME TypeOK, Safety, [Next]_vars
  PROVE  Safety'
<1> USE DEF callVars, workerVars, sockVars, OwnStep, WorkerLocals
<1>1. ASSUME NEW c \in Callers, Return(c) PROVE Safety'
  BY <1>1, StutterSafety DEF Return, ResumeNotify, CancelAllClose, StopNotify, StopJoin
<1>2. CASE SpuriousWakeup \/ Connected \/ PeerLost \/ Disconnect \/ ReplaceSocket \/ StartConnect
  BY <1>2, StutterSafety DEF SpuriousWakeup, Connected, PeerLost, Disconnect, ReplaceSocket, StartConnect
<1>3. CASE UNCHANGED vars
  BY <1>3, StutterSafety DEF vars
<1> QED
  BY <1>1, <1>2, <1>3, CallSafety, WorkerSafety DEF Next

\* The inductive invariant: every safety invariant of the queue, under any callers,
\* any operations and any order of their calls and the worker's steps.
THEOREM Invariance == Spec => []IInv
<1>1. Init => IInv
  BY InitTypeOK, InitSafety DEF IInv
<1>2. IInv /\ [Next]_vars => IInv'
  BY TypeOKInductive, SafetyStep DEF IInv
<1> QED
  BY <1>1, <1>2, PTL DEF Spec

\* The deque keeps the order of submission.
THEOREM OrderKept == Spec => []QueueOrder
<1>1. IInv => QueueOrder
  BY DEF IInv, Safety
<1> QED
  BY <1>1, Invariance, PTL

\* No path through worker_loop leaves an item Sending for ever.
THEOREM NeverStuckSending == Spec => []SendingIsActive
<1>1. IInv => SendingIsActive
  BY DEF IInv, Safety
<1> QED
  BY <1>1, Invariance, PTL

\* What /history lists was written in full.
THEOREM DoneFilesWereSent == Spec => []DoneWasSent
<1>1. IInv => DoneWasSent
  BY DEF IInv, Safety
<1> QED
  BY <1>1, Invariance, PTL

\* The item in the worker's hand changes only by a cancellation.
THEOREM ItemOwnership == Spec => []WorkerOwnsItem
<1>1. IInv => WorkerOwnsItem
  BY DEF IInv, Safety
<1> QED
  BY <1>1, Invariance, PTL

-----------------------------------------------------------------------------
(* A retry is not lost, when only failed files are retried.                *)

\* KeepsQueued of a step that keeps the files where they are.
LEMMA InPlaceKeepsQueued ==
  ASSUME TypeOK, QueueOrder, SameFiles,
         \A i \in DOMAIN queue_ :
           queue_[i].state = "Queued" => queue_'[i].state \in {"Queued", "Sending", "Canceled"}
  PROVE  KeepsQueued
<1> SUFFICES ASSUME NEW i \in DOMAIN queue_, NEW j \in DOMAIN queue_',
                    queue_[i].id = queue_'[j].id, queue_[i].state = "Queued"
             PROVE  queue_'[j].state \in {"Queued", "Sending", "Canceled"}
  BY DEF KeepsQueued
<1>1. j \in DOMAIN queue_ /\ queue_[j].id = queue_[i].id
  BY DEF SameFiles
<1>2. i = j
  BY <1>1, DistinctIds
<1> QED
  BY <1>2

LEMMA NextKeepsQueued ==
  ASSUME RetryStates \subseteq {"Failed"}, IInv, Next
  PROVE  KeepsQueued
<1> USE DEF callVars, workerVars, sockVars, OwnStep, WorkerLocals
<1>0. /\ Len(queue_) \in Nat /\ DOMAIN queue_ = 1..Len(queue_)
      /\ \A i \in DOMAIN queue_ : queue_[i] \in Item /\ queue_[i].id \in Nat
  BY DequeFacts DEF IInv, Ids
<1>1. TypeOK /\ QueueOrder
  BY DEF IInv, Safety
\* Steps that leave the deque alone.
<1>2. ASSUME UNCHANGED queue_ PROVE KeepsQueued
  BY <1>1, <1>2, InPlaceKeepsQueued DEF SameFiles
<1>3. ASSUME NEW c \in Callers, NEW fromPath \in BOOLEAN, enqueue(c, fromPath) PROVE KeepsQueued
  <2> DEFINE it == NewItem(fromPath)
  <2>1. it \in Item /\ it.id = next_id_ /\ next_id_ \in Nat /\ queue_' = Append(queue_, it)
    BY <1>1, <1>3, NewItemIsItem, DequeFacts DEF enqueue, NewItem, Pushed
  <2> HIDE DEF it
  <2>2. /\ queue_' \in Seq(Item) /\ Len(queue_') = Len(queue_) + 1
        /\ \A i \in 1..Len(queue_) : queue_'[i] = queue_[i]
        /\ queue_'[Len(queue_) + 1] = it
    BY <1>1, <2>1, AppendProperties DEF TypeOK
  <2>3. DOMAIN queue_' = 1..(Len(queue_) + 1)
    BY <2>2, LenProperties
  <2>4. SUFFICES ASSUME NEW i \in DOMAIN queue_, NEW j \in DOMAIN queue_',
                        queue_[i].id = queue_'[j].id, queue_[i].state = "Queued"
                 PROVE  queue_'[j].state \in {"Queued", "Sending", "Canceled"}
    BY DEF KeepsQueued
  <2>5. j # Len(queue_) + 1
    BY <1>0, <1>1, <2>1, <2>2, <2>4 DEF QueueOrder
  <2>6. j \in DOMAIN queue_ /\ queue_'[j] = queue_[j]
    BY <1>0, <2>2, <2>3, <2>5
  <2> QED
    BY <1>1, <2>4, <2>6, DistinctIds
<1>4. ASSUME NEW c \in Callers, NEW id \in Ids, remove(c, id) PROVE KeepsQueued
  <2>1. PICK k \in DOMAIN queue_ : queue_' = RemoveAt(queue_, k)
    BY <1>4 DEF remove
  <2>2. /\ queue_' \in Seq(Item) /\ Len(queue_') = Len(queue_) - 1
        /\ \A j \in 1..(Len(queue_) - 1) :
             queue_'[j] = IF j < k THEN queue_[j] ELSE queue_[j + 1]
    <3>1. k \in 1..Len(queue_) /\ queue_ \in Seq(Item)
      BY <1>0, <1>1 DEF TypeOK
    <3> QED
      BY <2>1, <3>1, RemoveAtProperties
  <2>3. DOMAIN queue_' = 1..(Len(queue_) - 1)
    BY <2>2, LenProperties
  <2>4. SUFFICES ASSUME NEW i \in DOMAIN queue_, NEW j \in DOMAIN queue_',
                        queue_[i].id = queue_'[j].id, queue_[i].state = "Queued"
                 PROVE  queue_'[j].state \in {"Queued", "Sending", "Canceled"}
    BY DEF KeepsQueued
  <2>5. PICK m \in DOMAIN queue_ : queue_'[j] = queue_[m]
    <3>1. /\ j \in DOMAIN queue_ /\ j + 1 \in DOMAIN queue_
          /\ queue_'[j] = queue_[j] \/ queue_'[j] = queue_[j + 1]
      BY <1>0, <2>2, <2>3
    <3> QED
      BY <3>1
  <2>6. m = i
    BY <1>1, <2>4, <2>5, DistinctIds
  <2> QED
    BY <2>4, <2>5, <2>6
\* Only a failed item is retried, so a Queued one stays as it is.
<1>5. ASSUME NEW c \in Callers, NEW id \in Ids, retry(c, id) PROVE KeepsQueued
  <2>1. DOMAIN queue_' = DOMAIN queue_
    BY <1>5 DEF retry, Update
  <2>2. \A i \in DOMAIN queue_ :
          IF queue_[i].id = id
          THEN queue_'[i].id = queue_[i].id /\ queue_'[i].state = "Queued"
          ELSE queue_'[i] = queue_[i]
    BY <1>0, <1>5, ItemUpdateFields DEF retry, Update
  <2> QED
    BY <1>1, <2>1, <2>2, InPlaceKeepsQueued DEF SameFiles
<1>6. ASSUME NEW c \in Callers, NEW id \in Ids, cancel(c, id) PROVE KeepsQueued
  <2>1. DOMAIN queue_' = DOMAIN queue_
    BY <1>6 DEF cancel, Update
  <2>2. \A i \in DOMAIN queue_ :
          IF queue_[i].id = id
          THEN queue_'[i].id = queue_[i].id /\ queue_'[i].state = "Canceled"
          ELSE queue_'[i] = queue_[i]
    BY <1>0, <1>6, ItemUpdateFields DEF cancel, Update
  <2> QED
    BY <1>1, <2>1, <2>2, InPlaceKeepsQueued DEF SameFiles
<1>7. ASSUME NEW c \in Callers, cancel_all(c) PROVE KeepsQueued
  <2>1. DOMAIN queue_' = DOMAIN queue_
    BY <1>7 DEF cancel_all
  <2>2. \A i \in DOMAIN queue_ :
          \/ queue_'[i].id = queue_[i].id /\ queue_'[i].state = "Canceled"
          \/ queue_'[i] = queue_[i]
    BY <1>0, <1>7, ItemUpdateFields DEF cancel_all
  <2> QED
    BY <1>1, <2>1, <2>2, InPlaceKeepsQueued DEF SameFiles
<1>8. CASE Pick
  <2>1. PICK k \in DOMAIN queue_ : queue_' = [queue_ EXCEPT ![k] = Picked(queue_[k])]
    BY <1>8 DEF Pick
  <2>2. /\ DOMAIN queue_' = DOMAIN queue_
        /\ queue_'[k].id = queue_[k].id /\ queue_'[k].state = "Sending"
        /\ \A i \in DOMAIN queue_ \ {k} : queue_'[i] = queue_[i]
    BY <1>0, <2>1, ItemUpdateFields
  <2> QED
    BY <1>1, <2>2, InPlaceKeepsQueued DEF SameFiles
\* The verdict goes to the item in hand, which is not Queued.
<1>9. CASE GiveUp \/ Finish
  <2>1. DOMAIN queue_' = DOMAIN queue_ /\ wpc \in Busy
    BY <1>9 DEF GiveUp, Finish, Update, Busy
  <2>2. \A i \in DOMAIN queue_ :
          IF queue_[i].id = item.id
          THEN queue_'[i].id = queue_[i].id
          ELSE queue_'[i] = queue_[i]
    BY <1>0, <1>9, ItemUpdateFields DEF GiveUp, Finish, Update
  <2>3. \A i \in DOMAIN queue_ : queue_[i].id = item.id => queue_[i].state # "Queued"
    BY <2>1 DEF IInv, Safety, WorkerOwnsItem
  <2> QED
    BY <1>1, <2>1, <2>2, <2>3, InPlaceKeepsQueued DEF SameFiles
<1>10. ASSUME NEW c \in Callers, pause(c) \/ resume(c) \/ stop(c) \/ Return(c) PROVE KeepsQueued
  BY <1>2, <1>10 DEF pause, resume, stop, Return, ResumeNotify, CancelAllClose, StopNotify, StopJoin
<1>11. CASE \/ LoopHead \/ WaitFalse \/ Block \/ WaitStopped \/ PickNothing
            \/ Build \/ GetSocket \/ WriteFails \/ WriteChunk
  BY <1>2, <1>11 DEF LoopHead, WaitFalse, Block, WaitStopped, PickNothing,
                     Build, GetSocket, WriteFails, WriteChunk
<1>12. CASE SpuriousWakeup \/ Connected \/ PeerLost \/ Disconnect \/ ReplaceSocket \/ StartConnect
  BY <1>2, <1>12 DEF SpuriousWakeup, Connected, PeerLost, Disconnect, ReplaceSocket, StartConnect
<1> QED
  BY <1>3, <1>4, <1>5, <1>6, <1>7, <1>8, <1>9, <1>10, <1>11, <1>12 DEF Next, Call, WorkerStep

\* When users retry only failed files, no verdict of an earlier attempt overwrites the
\* Queued of a retry.
THEOREM RetryIsKept ==
  ASSUME RetryStates \subseteq {"Failed"}
  PROVE  Spec => NoLostRetry
<1>1. IInv /\ [Next]_vars => [KeepsQueued]_vars
  BY NextKeepsQueued
<1> QED
  BY <1>1, Invariance, PTL DEF Spec, NoLostRetry

-----------------------------------------------------------------------------
(* No wakeup is lost while nobody pauses the queue.                        *)

\* From the evaluation of its predicate on, the worker sleeps or will sleep.
SleepsOnEmpty == wpc = "block" \/ waiting => queue_ = <<>>

LEMMA SleepsOnEmptyStep ==
  ASSUME SleepsOnEmpty, ~paused_, [Next]_vars PROVE SleepsOnEmpty'
<1> USE DEF callVars, workerVars, sockVars, WorkerLocals, OwnStep
<1>1. ASSUME NEW c \in Callers, NEW fromPath, enqueue(c, fromPath) PROVE SleepsOnEmpty'
  BY <1>1 DEF enqueue, MutexFree, notify_one, SleepsOnEmpty
<1>2. ASSUME NEW c \in Callers, NEW id, retry(c, id) \/ cancel(c, id) PROVE SleepsOnEmpty'
  BY <1>2 DEF retry, cancel, MutexFree, notify_one, SleepsOnEmpty
<1>3. ASSUME NEW c \in Callers, NEW id, remove(c, id) PROVE SleepsOnEmpty'
  <2>1. queue_ # <<>>
    BY <1>3 DEF remove
  <2> QED
    BY <1>3, <2>1 DEF remove, SleepsOnEmpty
<1>4. ASSUME NEW c \in Callers, cancel_all(c) PROVE SleepsOnEmpty'
  <2>1. queue_ = <<>> => queue_' = <<>>
    BY <1>4 DEF cancel_all
  <2> QED
    BY <1>4, <2>1 DEF cancel_all, SleepsOnEmpty
<1>5. ASSUME NEW c \in Callers, pause(c) \/ resume(c) \/ stop(c) \/ Return(c) PROVE SleepsOnEmpty'
  BY <1>5 DEF pause, resume, stop, Return, ResumeNotify, CancelAllClose, StopNotify, StopJoin,
              notify_one, SleepsOnEmpty
<1>6. CASE LoopHead \/ WaitStopped \/ PickNothing \/ Build \/ GetSocket \/ WriteFails \/ WriteChunk
  BY <1>6 DEF LoopHead, WaitStopped, PickNothing, Build, GetSocket, WriteFails, WriteChunk, SleepsOnEmpty
<1>7. CASE WaitFalse \/ Block \/ SpuriousWakeup
  BY <1>7 DEF WaitFalse, Block, SpuriousWakeup, SleepsOnEmpty
<1>8. CASE Pick
  BY <1>8 DEF Pick, SleepsOnEmpty
<1>9. CASE GiveUp \/ Finish
  <2>1. queue_ = <<>> => queue_' = <<>>
    BY <1>9 DEF GiveUp, Finish, Update
  <2> QED
    BY <1>9, <2>1 DEF GiveUp, Finish, SleepsOnEmpty
<1>10. CASE Connected \/ PeerLost \/ Disconnect \/ ReplaceSocket \/ StartConnect
  BY <1>10 DEF Connected, PeerLost, Disconnect, ReplaceSocket, StartConnect, SleepsOnEmpty
<1>11. CASE UNCHANGED vars
  BY <1>11 DEF vars, SleepsOnEmpty
<1> QED
  BY <1>1, <1>2, <1>3, <1>4, <1>5, <1>6, <1>7, <1>8, <1>9, <1>10, <1>11 DEF Next, Call, WorkerStep

\* The notification of enqueue and of retry is not lost: the worker does not sleep on a deque
\* that holds anything, whatever else is called in the meantime.
THEOREM WakeupKept == Spec => NoLostWakeup
<1>1. Init => SleepsOnEmpty
  BY DEF Init, SleepsOnEmpty
<1>2. SleepsOnEmpty /\ ~paused_ /\ [Next]_vars => SleepsOnEmpty'
  BY SleepsOnEmptyStep
<1>3. SleepsOnEmpty => (waiting => queue_ = <<>>)
  BY DEF SleepsOnEmpty
<1> QED
  BY <1>1, <1>2, <1>3, PTL DEF Spec, NoLostWakeup

-----------------------------------------------------------------------------
(* Cancellation, on the socket a queue begins with.                        *)

HandCanceled ==
  wpc \in Busy /\ \E i \in DOMAIN queue_ : queue_[i].id = item.id /\ queue_[i].state = "Canceled"
Closing == \E c \in Callers : cpc[c] = "close"
SockOpen == IsOpen(sock)

\* socket_getter_ returns the latest socket, and the first one was in its connect from the
\* start; it does not reopen once it is closed for a canceled file.
LatestSocket == sock = Len(sockets) /\ (1 <= Len(sockets) => sockets[1] # "fresh")
HandClosed == Len(sockets) <= 1 /\ HandCanceled /\ ~Closing => ~SockOpen

\* A socket settles, breaks and closes; it does not reopen.
LEMMA SocketSettles ==
  ASSUME TypeOK, LatestSocket, CloseSocket \/ Connected \/ PeerLost
  PROVE  /\ LatestSocket' /\ Len(sockets') = Len(sockets) /\ sock' = sock
         /\ ~SockOpen => ~SockOpen'
         /\ CloseSocket => ~SockOpen'
<1>0. Len(sockets) \in Nat /\ DOMAIN sockets = 1..Len(sockets)
  BY LenProperties DEF TypeOK
<1>1. CASE CloseSocket
  <2>1. sock' = sock /\ Len(sockets') = Len(sockets)
    BY <1>1, CloseSocketTyped
  <2>2. CASE SockOpen
    <3>1. sockets' = [sockets EXCEPT ![sock] = "closed"] /\ sock \in DOMAIN sockets
      BY <1>0, <1>1, <2>2 DEF CloseSocket, SockOpen, IsOpen, TypeOK
    <3> QED
      BY <1>0, <2>1, <3>1 DEF LatestSocket, SockOpen, IsOpen
  <2>3. CASE ~SockOpen
    <3>1. sockets' = sockets
      BY <1>1, <2>3 DEF CloseSocket, SockOpen
    <3> QED
      BY <2>1, <2>3, <3>1 DEF LatestSocket, SockOpen, IsOpen
  <2> QED
    BY <2>2, <2>3
<1>2. CASE Connected \/ PeerLost
  <2>1. PICK s \in DOMAIN sockets, r \in {"open", "broken"} :
          /\ sockets[s] \in {"connecting", "open"}
          /\ sockets' = [sockets EXCEPT ![s] = r]
    BY <1>2 DEF Connected, PeerLost
  <2>2. sock' = sock
    BY <1>2 DEF Connected, PeerLost
  <2>3. Len(sockets') = Len(sockets)
    <3>1. sockets \in Seq({"fresh", "connecting", "open", "broken", "closed"})
      BY DEF TypeOK
    <3>2. r \in {"fresh", "connecting", "open", "broken", "closed"}
      OBVIOUS
    <3> QED
      BY <1>0, <2>1, <3>1, <3>2, ExceptSeq
  <2>4. \A n \in DOMAIN sockets : sockets'[n] = sockets[n] \/ (n = s /\ sockets'[n] = r)
    BY <2>1
  <2>5. LatestSocket'
    BY <1>0, <2>2, <2>3, <2>4 DEF LatestSocket
  <2>6. ~SockOpen => ~SockOpen'
    BY <1>0, <2>1, <2>2, <2>4 DEF SockOpen, IsOpen, TypeOK
  <2>7. CloseSocket => ~SockOpen'
    BY <1>1
  <2> QED
    BY <2>2, <2>3, <2>5, <2>6, <2>7
<1> QED
  BY <1>1, <1>2

\* Each step of a caller.
LEMMA CallKeepsHandClosed ==
  ASSUME RetryStates \subseteq {"Failed"}, IInv, LatestSocket, HandClosed,
         NEW c \in Callers, Call(c) \/ Return(c)
  PROVE  LatestSocket' /\ HandClosed'
<1> USE DEF callVars, workerVars, sockVars
<1>0. /\ Len(queue_) \in Nat /\ DOMAIN queue_ = 1..Len(queue_)
      /\ \A i \in DOMAIN queue_ : queue_[i] \in Item
  BY DequeFacts DEF IInv
<1>1. ASSUME UNCHANGED sockVars, UNCHANGED cpc, HandCanceled' => HandCanceled
      PROVE  LatestSocket' /\ HandClosed'
  BY <1>1 DEF LatestSocket, HandClosed, Closing, SockOpen, IsOpen
<1>2. ASSUME NEW fromPath \in BOOLEAN, enqueue(c, fromPath) PROVE HandCanceled' => HandCanceled
  <2> DEFINE it == NewItem(fromPath)
  <2>1. it \in Item /\ it.state = "Queued"
    BY <1>2, NewItemIsItem DEF enqueue, NewItem, IInv
  <2>2. UNCHANGED <<wpc, item>> /\ queue_' = Append(queue_, it)
    BY <1>2 DEF enqueue, Pushed
  <2> HIDE DEF it
  <2>3. /\ DOMAIN queue_' = 1..(Len(queue_) + 1)
        /\ \A i \in 1..Len(queue_) : queue_'[i] = queue_[i]
        /\ queue_'[Len(queue_) + 1] = it
    <3>1. queue_ \in Seq(Item)
      BY DEF IInv, TypeOK
    <3>2. queue_' \in Seq(Item) /\ Len(queue_') = Len(queue_) + 1
      BY <2>1, <2>2, <3>1, AppendProperties
    <3> QED
      BY <2>1, <2>2, <3>1, <3>2, AppendProperties, LenProperties
  <2> QED
    BY <1>0, <2>1, <2>2, <2>3 DEF HandCanceled
<1>3. ASSUME NEW id \in Ids, remove(c, id) PROVE HandCanceled' => HandCanceled
  <2>1. PICK k \in DOMAIN queue_ : queue_' = RemoveAt(queue_, k)
    BY <1>3 DEF remove
  <2>2. /\ queue_' \in Seq(Item) /\ Len(queue_') = Len(queue_) - 1
        /\ \A j \in 1..(Len(queue_) - 1) :
             queue_'[j] = IF j < k THEN queue_[j] ELSE queue_[j + 1]
    <3>1. k \in 1..Len(queue_) /\ queue_ \in Seq(Item)
      BY <1>0 DEF IInv, TypeOK
    <3> QED
      BY <2>1, <3>1, RemoveAtProperties
  <2>3. DOMAIN queue_' = 1..(Len(queue_) - 1)
    BY <2>2, LenProperties
  <2>4. ASSUME NEW j \in DOMAIN queue_' PROVE \E i \in DOMAIN queue_ : queue_'[j] = queue_[i]
    <3>1. /\ j \in DOMAIN queue_ /\ j + 1 \in DOMAIN queue_
          /\ queue_'[j] = queue_[j] \/ queue_'[j] = queue_[j + 1]
      BY <1>0, <2>2, <2>3, <2>4
    <3> QED
      BY <3>1
  <2>5. UNCHANGED <<wpc, item>>
    BY <1>3 DEF remove
  <2> QED
    BY <2>4, <2>5 DEF HandCanceled
<1>4. ASSUME NEW id \in Ids, retry(c, id) PROVE HandCanceled' => HandCanceled
  <2>1. UNCHANGED <<wpc, item>> /\ DOMAIN queue_' = DOMAIN queue_
    BY <1>4 DEF retry, Update
  <2>2. \A i \in DOMAIN queue_ : queue_'[i].state = "Queued" \/ queue_'[i] = queue_[i]
    BY <1>0, <1>4, ItemUpdateFields DEF retry, Update
  <2> QED
    BY <2>1, <2>2 DEF HandCanceled
<1>5. ASSUME NEW id \in Ids, cancel(c, id) PROVE LatestSocket' /\ HandClosed'
  <2>1. UNCHANGED <<wpc, item, cpc>> /\ DOMAIN queue_' = DOMAIN queue_
    BY <1>5 DEF cancel, Update
  <2>2. \A i \in DOMAIN queue_ :
          IF queue_[i].id = id
          THEN queue_'[i].id = queue_[i].id /\ queue_'[i].state = "Canceled"
          ELSE queue_'[i] = queue_[i]
    BY <1>0, <1>5, ItemUpdateFields DEF cancel, Update
  <2>3. CASE WasSending(id)
    <3>1. CloseSocket
      BY <1>5, <2>3 DEF cancel
    <3> QED
      BY <3>1, SocketSettles DEF IInv, HandClosed
  <2>4. CASE ~WasSending(id)
    \* The item in hand is shown as Sending, or was canceled before.
    <3>1. HandCanceled' => HandCanceled
      BY <2>1, <2>2, <2>4 DEF HandCanceled, WasSending, IInv, Safety, WorkerOwnsItem
    <3>2. UNCHANGED sockVars
      BY <1>5, <2>4 DEF cancel
    <3> QED
      BY <1>1, <2>1, <3>1, <3>2
  <2> QED
    BY <2>3, <2>4
<1>6. CASE cancel_all(c)
  <2>1. cpc' = [cpc EXCEPT ![c] = "close"] /\ UNCHANGED sockVars
    BY <1>6 DEF cancel_all, Goto
  <2>2. cpc'[c] = "close"
    BY <2>1 DEF IInv, TypeOK
  <2> QED
    BY <2>1, <2>2 DEF Closing, HandClosed, LatestSocket
<1>7. CASE CancelAllClose(c)
  <2>1. CloseSocket
    BY <1>7 DEF CancelAllClose
  <2> QED
    BY <2>1, SocketSettles DEF IInv, HandClosed
<1>8. CASE pause(c)
  BY <1>1, <1>8 DEF pause, HandCanceled
<1>9. CASE resume(c) \/ stop(c) \/ ResumeNotify(c) \/ StopNotify(c) \/ StopJoin(c)
  <2>1. UNCHANGED <<queue_, workerVars, sockVars>>
    BY <1>9 DEF resume, stop, ResumeNotify, StopNotify, StopJoin
  <2>2. Closing => Closing'
    BY <1>9 DEF resume, stop, ResumeNotify, StopNotify, StopJoin, Goto, Calls, Closing, IInv, TypeOK
  <2> QED
    BY <2>1, <2>2 DEF HandCanceled, HandClosed, LatestSocket, SockOpen, IsOpen
<1> QED
  <2>1. ASSUME NEW fromPath \in BOOLEAN, enqueue(c, fromPath) PROVE LatestSocket' /\ HandClosed'
    BY <1>1, <1>2, <2>1 DEF enqueue
  <2>2. ASSUME NEW id \in Ids, remove(c, id) PROVE LatestSocket' /\ HandClosed'
    BY <1>1, <1>3, <2>2 DEF remove
  <2>3. ASSUME NEW id \in Ids, retry(c, id) PROVE LatestSocket' /\ HandClosed'
    BY <1>1, <1>4, <2>3 DEF retry
  <2> QED
    BY <2>1, <2>2, <2>3, <1>5, <1>6, <1>7, <1>8, <1>9 DEF Call, Return

\* Each step of the worker, the network and the owner of the socket.
LEMMA OthersKeepHandClosed ==
  ASSUME IInv, LatestSocket, HandClosed,
         \/ WorkerStep \/ WriteChunk \/ SpuriousWakeup
         \/ Connected \/ PeerLost \/ Disconnect \/ ReplaceSocket \/ StartConnect
         \/ UNCHANGED vars
  PROVE  LatestSocket' /\ HandClosed'
<1> USE DEF callVars, workerVars, sockVars, WorkerLocals, OwnStep
<1>0. /\ Len(queue_) \in Nat /\ DOMAIN queue_ = 1..Len(queue_)
      /\ \A i \in DOMAIN queue_ : queue_[i] \in Item
  BY DequeFacts DEF IInv
<1>1. ASSUME UNCHANGED sockVars, UNCHANGED cpc, HandCanceled' => HandCanceled
      PROVE  LatestSocket' /\ HandClosed'
  BY <1>1 DEF LatestSocket, HandClosed, Closing, SockOpen, IsOpen
<1>2. CASE LoopHead \/ WaitFalse \/ Block \/ WaitStopped \/ PickNothing \/ GiveUp \/ Finish
  <2>1. ~HandCanceled'
    BY <1>2 DEF LoopHead, WaitFalse, Block, WaitStopped, PickNothing, GiveUp, Finish, HandCanceled, Busy
  <2> QED
    BY <1>1, <1>2, <2>1 DEF LoopHead, WaitFalse, Block, WaitStopped, PickNothing, GiveUp, Finish
<1>3. CASE Pick
  <2>1. PICK i \in DOMAIN queue_ :
          item' = queue_[i] /\ queue_' = [queue_ EXCEPT ![i] = Picked(@)]
    BY <1>3 DEF Pick
  <2>2. /\ DOMAIN queue_' = DOMAIN queue_
        /\ queue_'[i].state = "Sending"
        /\ \A j \in DOMAIN queue_ : j # i => queue_'[j] = queue_[j]
    BY <1>0, <2>1, ItemUpdateFields
  <2>3. \A j \in DOMAIN queue_ : queue_[j].id = queue_[i].id => j = i
    BY DistinctIds DEF IInv, Safety
  <2>4. ~HandCanceled'
    BY <2>1, <2>2, <2>3 DEF HandCanceled
  <2> QED
    BY <1>1, <1>3, <2>4 DEF Pick
<1>4. CASE Build \/ GetSocket \/ WriteFails \/ WriteChunk \/ SpuriousWakeup
  <2>1. wpc' \in Busy => wpc \in Busy
    BY <1>4 DEF Build, GetSocket, WriteFails, WriteChunk, SpuriousWakeup, Busy
  <2>2. wpc \in Busy => item'.id = item.id
    BY <1>4, ItemUpdateFields DEF Build, GetSocket, WriteFails, WriteChunk, SpuriousWakeup, IInv, TypeOK
  <2>3. UNCHANGED queue_
    BY <1>4 DEF Build, GetSocket, WriteFails, WriteChunk, SpuriousWakeup
  <2>4. HandCanceled' => HandCanceled
    BY <2>1, <2>2, <2>3 DEF HandCanceled
  <2> QED
    BY <1>1, <1>4, <2>4 DEF Build, GetSocket, WriteFails, WriteChunk, SpuriousWakeup
<1>5. CASE Connected \/ PeerLost \/ Disconnect
  <2>1. /\ LatestSocket' /\ Len(sockets') = Len(sockets)
        /\ ~SockOpen => ~SockOpen'
    BY <1>5, SocketSettles DEF Disconnect, IInv
  <2>2. UNCHANGED <<queue_, wpc, item, cpc>>
    BY <1>5 DEF Connected, PeerLost, Disconnect
  <2> QED
    BY <2>1, <2>2 DEF HandClosed, HandCanceled, Closing
<1>6. CASE ReplaceSocket
  <2>1. /\ sockets \in Seq({"fresh", "connecting", "open", "broken", "closed"})
        /\ sock # 0 /\ sock \in 0..Len(sockets) /\ Len(sockets) \in Nat
    BY <1>6, LenProperties DEF ReplaceSocket, IInv, TypeOK
  <2>2. sockets' = Append(sockets, "fresh") /\ sock' = Len(sockets')
    BY <1>6 DEF ReplaceSocket
  <2>3. Len(sockets') = Len(sockets) + 1 /\ \A n \in 1..Len(sockets) : sockets'[n] = sockets[n]
    BY <2>1, <2>2, AppendProperties
  <2> QED
    BY <2>1, <2>2, <2>3 DEF LatestSocket, HandClosed
<1>7. CASE StartConnect
  <2>1. /\ sockets \in Seq({"fresh", "connecting", "open", "broken", "closed"})
        /\ sock \in 1..Len(sockets) /\ Len(sockets) \in Nat /\ DOMAIN sockets = 1..Len(sockets)
    BY <1>7, LenProperties DEF StartConnect, IInv, TypeOK
  <2>2. sockets[sock] = "fresh" /\ sockets' = [sockets EXCEPT ![sock] = "connecting"] /\ sock' = sock
    BY <1>7 DEF StartConnect
  <2>3. Len(sockets') = Len(sockets) /\ Len(sockets) > 1
    <3>1. "connecting" \in {"fresh", "connecting", "open", "broken", "closed"}
      OBVIOUS
    <3>2. Len(sockets') = Len(sockets)
      BY <2>1, <2>2, <3>1, ExceptSeq
    <3>3. sock # 1
      BY <2>1, <2>2 DEF LatestSocket
    <3> QED
      BY <2>1, <3>2, <3>3 DEF LatestSocket
  <2> QED
    BY <2>1, <2>2, <2>3 DEF LatestSocket, HandClosed
<1>8. CASE UNCHANGED vars
  BY <1>1, <1>8 DEF vars, HandCanceled
<1> QED
  BY <1>2, <1>3, <1>4, <1>5, <1>6, <1>7, <1>8 DEF WorkerStep

\* Until the socket is replaced, a cancellation ends the writing of the file for good: neither
\* the write in progress nor one that the worker is about to begin goes on once cancel or
\* cancel_all has returned, if only failed files are retried.
THEOREM CancellationHolds == Spec => []CancelCloses
<1>1. ASSUME RetryStates \subseteq {"Failed"} PROVE Spec => [](LatestSocket /\ HandClosed)
  <2>1. Init => LatestSocket /\ HandClosed
    <3>1. Init => ~HandCanceled
      BY DEF Init, HandCanceled, Busy
    <3>2. CASE sock = 0 /\ sockets = <<>>
      BY <3>1, <3>2 DEF LatestSocket, HandClosed
    <3>3. CASE sock = 1 /\ sockets = <<"connecting">>
      BY <3>1, <3>3 DEF LatestSocket, HandClosed
    <3>4. CASE sock = 1 /\ sockets = <<"open">>
      BY <3>1, <3>4 DEF LatestSocket, HandClosed
    <3> QED
      BY <3>2, <3>3, <3>4 DEF Init
  <2>2. IInv /\ (LatestSocket /\ HandClosed) /\ [Next]_vars => (LatestSocket /\ HandClosed)'
    BY <1>1, CallKeepsHandClosed, OthersKeepHandClosed DEF Next
  <2> QED
    BY <2>1, <2>2, Invariance, PTL DEF Spec
<1>2. IInv /\ LatestSocket /\ HandClosed => CancelCloses
  <2> SUFFICES ASSUME IInv, LatestSocket, HandClosed, Len(sockets) <= 1,
                      NEW i \in DOMAIN queue_, wpc \in Busy, queue_[i].id = item.id,
                      queue_[i].state = "Canceled", \A c \in Callers : cpc[c] # "close"
               PROVE  ~IsOpen(sock) /\ (wpc = "write" => sockets[wsock] = "closed")
    BY DEF CancelCloses
  <2>1. ~SockOpen
    BY DEF HandClosed, HandCanceled, Closing
  <2>2. ASSUME wpc = "write" PROVE sockets[wsock] = "closed"
    <3>1. Len(sockets) \in Nat /\ wsock \in 0..Len(sockets) /\ wsock # 0
      BY <2>2, LenProperties DEF IInv, TypeOK
    <3>2. wsock = 1 /\ sock = 1 /\ sockets[1] # "fresh"
      BY <3>1 DEF LatestSocket
    <3> QED
      BY <2>1, <3>2 DEF SockOpen, IsOpen
  <2> QED
    BY <2>1, <2>2 DEF SockOpen
<1>3. CASE RetryStates \subseteq {"Failed"}
  BY <1>1, <1>2, <1>3, Invariance, PTL
<1>4. CASE ~(RetryStates \subseteq {"Failed"})
  <2>1. CancelCloses
    BY <1>4 DEF CancelCloses
  <2> QED
    BY <2>1, PTL
<1> QED
  BY <1>3, <1>4

\* A socket that nobody replaces stays the only one.
LEMMA SocketsBounded ==
  ASSUME MaxSockets <= 1
  PROVE  Spec => [](TypeOK /\ Len(sockets) <= 1)
<1>1. Init => Len(sockets) <= 1
  <2>1. sockets = <<>> => Len(sockets) <= 1
    BY EmptySeq
  <2>2. sockets = <<"connecting">> => Len(sockets) <= 1
    OBVIOUS
  <2>3. sockets = <<"open">> => Len(sockets) <= 1
    OBVIOUS
  <2> QED
    BY <2>1, <2>2, <2>3 DEF Init
<1>2. ASSUME TypeOK, Len(sockets) <= 1, [Next]_vars PROVE Len(sockets') <= 1
  <2>0. Len(sockets) \in Nat /\ DOMAIN sockets = 1..Len(sockets) /\ MaxSockets \in Nat
    BY <1>2, LenProperties, ConstantsAssumption DEF TypeOK
  <2>1. ASSUME UNCHANGED sockets PROVE Len(sockets') <= 1
    BY <1>2, <2>1
  <2>2. CloseSocket => Len(sockets') <= 1
    BY <1>2, CloseSocketTyped
  <2>3. ASSUME NEW s \in DOMAIN sockets, NEW r \in {"connecting", "open", "broken"},
               sockets' = [sockets EXCEPT ![s] = r]
        PROVE  Len(sockets') <= 1
    <3>1. sockets \in Seq({"fresh", "connecting", "open", "broken", "closed"})
      BY <1>2 DEF TypeOK
    <3>2. Len(sockets') = Len(sockets)
      BY <2>3, <3>1, ExceptSeq
    <3> QED
      BY <1>2, <3>2
  <2>4. ASSUME NEW c \in Callers, Call(c) \/ Return(c) PROVE Len(sockets') <= 1
    <3>1. UNCHANGED sockets \/ CloseSocket
      BY <2>4 DEF Call, Return, enqueue, remove, retry, cancel, pause, resume, cancel_all, stop,
                  ResumeNotify, CancelAllClose, StopNotify, StopJoin, sockVars
    <3> QED
      BY <2>1, <2>2, <3>1
  <2>5. ASSUME WorkerStep \/ WriteChunk \/ SpuriousWakeup PROVE UNCHANGED sockets
    BY <2>5 DEF WorkerStep, LoopHead, WaitFalse, Block, WaitStopped, PickNothing, Pick, Build, GetSocket,
                GiveUp, WriteFails, Finish, WriteChunk, SpuriousWakeup, OwnStep, sockVars
  <2>6. Connected \/ PeerLost => Len(sockets') <= 1
    BY <2>3 DEF Connected, PeerLost
  <2>7. Disconnect => CloseSocket
    BY DEF Disconnect
  <2>8. CASE ReplaceSocket
    <3>1. Len(sockets) < MaxSockets /\ sockets' = Append(sockets, "fresh")
      BY <2>8 DEF ReplaceSocket
    <3>2. Len(sockets') = Len(sockets) + 1
      BY <1>2, <3>1, AppendProperties DEF TypeOK
    <3> QED
      BY <2>0, <3>1, <3>2
  <2>9. CASE StartConnect
    <3>1. sock \in DOMAIN sockets /\ sockets' = [sockets EXCEPT ![sock] = "connecting"]
      BY <1>2, <2>0, <2>9 DEF StartConnect, TypeOK
    <3> QED
      BY <2>3, <3>1
  <2>10. UNCHANGED vars => UNCHANGED sockets
    BY DEF vars, sockVars
  <2> QED
    BY <1>2, <2>1, <2>2, <2>4, <2>5, <2>6, <2>7, <2>8, <2>9, <2>10 DEF Next
<1>3. TypeOK /\ Len(sockets) <= 1 /\ [Next]_vars => (Len(sockets) <= 1)'
  BY <1>2
<1> QED
  BY <1>1, <1>3, Typing, PTL DEF Spec

\* Once cancel has returned, no part of a canceled file goes out, if the socket is never
\* replaced, as the server's are not, and only failed files are retried.  It is the
\* replacement by CancelAndReconnectFileSocket (ClientServerConnectionManager.cpp:308) that
\* lets a canceled file go out.
THEOREM CanceledOffFirstSocket ==
  ASSUME RetryStates \subseteq {"Failed"}, MaxSockets <= 1
  PROVE  Spec => CanceledStaysOffWire
<1>1. ASSUME TypeOK, Len(sockets) <= 1, CancelCloses, [Next]_vars,
             NEW i \in DOMAIN queue_, queue_[i].id = item.id, queue_[i].state = "Canceled",
             \A c \in Callers : cpc[c] # "close"
      PROVE  progress' <= progress
  <2>1. progress \in Nat /\ progress <= progress
    BY <1>1, ConstantsAssumption DEF TypeOK
  <2>2. ~WriteChunk
    <3>1. SUFFICES ASSUME WriteChunk PROVE FALSE
      OBVIOUS
    <3>2. wpc = "write" /\ sockets[wsock] = "open"
      BY <3>1 DEF WriteChunk
    <3>3. sockets[wsock] = "closed"
      BY <1>1, <3>2 DEF CancelCloses, Busy
    <3> QED
      BY <3>2, <3>3
  <2>3. ASSUME NEW c \in Callers, Call(c) \/ Return(c) PROVE UNCHANGED progress
    BY <2>3 DEF Call, Return, enqueue, remove, retry, cancel, pause, resume, cancel_all, stop,
                ResumeNotify, CancelAllClose, StopNotify, StopJoin, workerVars
  <2>4. GiveUp \/ Finish => progress' = 0
    BY DEF GiveUp, Finish, OutOfScope
  <2>5. LoopHead \/ WaitFalse \/ Block \/ WaitStopped \/ PickNothing \/ Pick \/ Build \/ GetSocket
        \/ WriteFails \/ SpuriousWakeup => UNCHANGED progress
    BY DEF LoopHead, WaitFalse, Block, WaitStopped, PickNothing, Pick, Build, GetSocket, WriteFails,
           SpuriousWakeup, WorkerLocals
  <2>6. Connected \/ PeerLost \/ Disconnect \/ ReplaceSocket \/ StartConnect \/ UNCHANGED vars
        => UNCHANGED progress
    BY DEF Connected, PeerLost, Disconnect, ReplaceSocket, StartConnect, vars, workerVars
  <2> QED
    BY <1>1, <2>1, <2>2, <2>3, <2>4, <2>5, <2>6 DEF Next, WorkerStep
<1>2. (TypeOK /\ Len(sockets) <= 1) /\ CancelCloses /\ [Next]_vars
      => [\A i \in DOMAIN queue_ :
            /\ queue_[i].id = item.id /\ queue_[i].state = "Canceled"
            /\ \A c \in Callers : cpc[c] # "close"
            => progress' <= progress]_vars
  BY <1>1
<1> QED
  BY <1>2, SocketsBounded, CancellationHolds, PTL DEF Spec, CanceledStaysOffWire
=============================================================================
