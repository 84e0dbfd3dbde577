--------------------------- MODULE ChatServerProofs ---------------------------
(***************************************************************************)
(* The invariants of ChatServer, for any clients, any number of messages   *)
(* and requests, and with or without StopServer.                           *)
(***************************************************************************)
EXTENDS ChatServer, SequenceTheorems, FiniteSetTheorems, TLAPS

-----------------------------------------------------------------------------
(* The inductive invariant of types: what the local variables of a handler *)
(* hold depends on where it is.                                            *)

Local(n) == [pc : PCs, msg : Messages \cup {NoMsg}, todo : Seq(Clients),
             sock : Clients \cup {NoMsg}, q : 0..n, i : Nat]

\* The steps at which a handler holds a reference to a queue.
Holding == {"emplace", "enqueue", "drop", "join", "lock", "replay", "end"}

HandlerOK(x, r) ==
  /\ r.pc \in {"push", "send", "find", "lock", "replay", "end"} => x[1] = "text"
  /\ r.pc \in {"clients", "next", "enqueue", "log", "sendlog"} => x[1] = "file"
  /\ r.pc = "read" => x[1] = "accept"
  /\ r.pc \in {"push", "send"} => r.msg \in Texts
  /\ r.pc \in {"push", "send", "sendlog"} => r.todo # <<>>
  /\ r.pc \in {"lookup", "emplace", "enqueue"} => r.sock \in Clients
  /\ r.pc # "idle" /\ x[1] = "file" => r.msg \in Files
  /\ r.pc # "idle" /\ x[1] = "accept" => r.sock \in Clients
  /\ r.pc \in {"lookup", "emplace"} /\ x[1] = "text" => r.sock = x[2]
  /\ r.pc \in {"emplace", "enqueue", "join"} => r.q # 0
  /\ r.pc \notin Holding => r.q = 0
  /\ r.pc = "replay" => r.i # 0

\* A text socket that is read from is listed.
ReadersListed ==
  \A c \in Clients : conn[<<"text", c>>] = "reading" => c \in Elements(text_port_clients_)

\* A client whose file socket is looked for has asked, once.
AskedOnce == \A c \in Clients : h[Reader("text", c)].pc = "find" => c \in asked /\ c \notin found

Typed ==
  /\ TypeOK
  /\ AskedOnce
  /\ \A x \in Handlers : HandlerOK(x, h[x])
  /\ ReadersListed
  /\ Len(message_history_) <= Len(log)

QueueType == [sock : Clients, todo : Seq(Files), active : Files \cup {NoMsg}, running : BOOLEAN,
              worker : {"waits", "spins", "oversleeps"}]

LEMMA HandlerNames ==
  ASSUME NEW x \in Handlers
  PROVE  \/ x = Acceptor /\ x[1] = "accept"
         \/ x \in {"text", "file"} \X Clients /\ x[1] \in {"text", "file"} /\ x[2] \in Clients
  BY DEF Handlers, Acceptor, Reader

LEMMA ReaderNames ==
  ASSUME NEW kind \in {"text", "file"}, NEW c \in Clients
  PROVE  /\ Reader(kind, c) \in Handlers /\ Reader(kind, c)[1] = kind /\ Reader(kind, c)[2] = c
         /\ Acceptor \in Handlers /\ Acceptor[1] = "accept"
  BY DEF Handlers, Acceptor, Reader

\* The messages of each kind are told apart by it.
LEMMA Kinds ==
  /\ \A m \in Texts : m.kind = "text" /\ m.by \in Clients /\ m # NoMsg
  /\ \A m \in Logs : m.kind = "log"
  /\ \A m \in Files : m.kind = "file" /\ m.by \in Clients /\ FileLog(m.by, m.n) \in Logs /\ m # NoMsg
  /\ NoMsg.kind = "none"
  BY DEF Texts, Logs, Files, Text, FileLog, File, NoMsg

\* The local variables of one handler change.
LEMMA LocalStep ==
  ASSUME Typed, NEW n \in Nat, Len(queues) <= n, NEW x \in Handlers,
         NEW r \in Local(n), HandlerOK(x, r), h' = [h EXCEPT ![x] = r]
  PROVE  h' \in [Handlers -> Local(n)] /\ \A y \in Handlers : HandlerOK(y, h'[y])
<1>1. h \in [Handlers -> Local(Len(queues))] /\ Len(queues) \in Nat
  BY LenProperties DEF Typed, TypeOK, Local
<1>2. h \in [Handlers -> Local(n)]
  <2>1. 0..Len(queues) \subseteq 0..n
    BY <1>1
  <2>2. Local(Len(queues)) \subseteq Local(n)
    BY <2>1 DEF Local
  <2> QED
    BY <1>1, <2>2
<1>3. h' \in [Handlers -> Local(n)]
  BY <1>2
<1>4. \A y \in Handlers : h'[y] = IF y = x THEN r ELSE h[y]
  BY <1>1
<1> QED
  BY <1>3, <1>4 DEF Typed

LEMMA TypedFacts ==
  ASSUME Typed
  PROVE  /\ queues \in Seq(QueueType) /\ Len(queues) \in Nat /\ DOMAIN queues = 1..Len(queues)
         /\ Len(log) \in Nat /\ Len(message_history_) \in Nat
         /\ \A q \in 1..Len(queues) : queues[q] \in QueueType
         /\ \A x \in Handlers :
              /\ h[x] \in Local(Len(queues)) /\ HandlerOK(x, h[x])
              /\ Len(h[x].todo) \in Nat
              /\ h[x].todo # <<>> => Head(h[x].todo) \in Clients /\ Tail(h[x].todo) \in Seq(Clients)
              /\ h[x].todo # <<>> /\ Len(h[x].todo) # 1 => Tail(h[x].todo) # <<>>
<1>1. queues \in Seq(QueueType) /\ log \in Seq(Messages) /\ message_history_ \in Seq(Messages)
  BY DEF Typed, TypeOK, QueueType
<1>2. h \in [Handlers -> Local(Len(queues))] /\ \A x \in Handlers : HandlerOK(x, h[x])
  BY DEF Typed, TypeOK, Local
<1>3. ASSUME NEW s \in Seq(Clients)
      PROVE  /\ Len(s) \in Nat
             /\ s # <<>> => Head(s) \in Clients /\ Tail(s) \in Seq(Clients)
             /\ s # <<>> /\ Len(s) # 1 => Tail(s) # <<>>
  <2>1. Len(s) \in Nat
    BY LenProperties
  <2>2. s # <<>> => Head(s) \in Clients /\ Tail(s) \in Seq(Clients) /\ Len(Tail(s)) = Len(s) - 1
    BY HeadTailProperties
  <2>3. s # <<>> /\ Len(s) # 1 => Tail(s) # <<>>
    <3>1. SUFFICES ASSUME s # <<>>, Tail(s) = <<>> PROVE Len(s) = 1
      OBVIOUS
    <3>2. Len(Tail(s)) = 0 /\ Len(Tail(s)) = Len(s) - 1
      BY <2>2, <3>1, EmptySeq
    <3> QED
      BY <2>1, <3>2
  <2> QED
    BY <2>1, <2>2, <2>3
<1>4. \A x \in Handlers : h[x].todo \in Seq(Clients)
  BY <1>2 DEF Local
<1> QED
  BY <1>1, <1>2, <1>3, <1>4, LenProperties, ElementOfSeq

\* A change of one queue.
LEMMA QueueUpdate ==
  ASSUME Typed, NEW q \in DOMAIN queues, NEW r \in QueueType, queues' = [queues EXCEPT ![q] = r]
  PROVE  /\ queues' \in Seq(QueueType) /\ Len(queues') = Len(queues)
         /\ DOMAIN queues' = DOMAIN queues
         /\ \A p \in DOMAIN queues : queues'[p] = IF p = q THEN r ELSE queues[p]
<1>1. q \in 1..Len(queues)
  BY TypedFacts
<1> QED
  BY <1>1, TypedFacts, ExceptSeq

\* A new queue.
LEMMA QueueAdded ==
  ASSUME Typed, NEW r \in QueueType, queues' = Append(queues, r)
  PROVE  /\ queues' \in Seq(QueueType) /\ Len(queues') = Len(queues) + 1
         /\ DOMAIN queues' = 1..(Len(queues) + 1)
         /\ \A p \in DOMAIN queues : queues'[p] = queues[p]
         /\ queues'[Len(queues) + 1] = r
<1>1. /\ queues' \in Seq(QueueType) /\ Len(queues') = Len(queues) + 1
      /\ \A p \in 1..Len(queues) : queues'[p] = queues[p]
      /\ queues'[Len(queues) + 1] = r
  BY TypedFacts, AppendProperties
<1> QED
  BY <1>1, TypedFacts, LenProperties

-----------------------------------------------------------------------------
(* Each step keeps the queues typed and their number, but for a new one.   *)

QueuesOK ==
  /\ queues' \in Seq(QueueType) /\ Len(queues') \in Nat /\ Len(queues) <= Len(queues')

LEMMA QueuesKept == ASSUME Typed, UNCHANGED queues PROVE QueuesOK
  BY TypedFacts DEF QueuesOK

LEMMA QueueUpdateOK ==
  ASSUME Typed, NEW q \in DOMAIN queues, NEW r \in QueueType, queues' = [queues EXCEPT ![q] = r]
  PROVE  QueuesOK
  BY QueueUpdate, TypedFacts DEF QueuesOK

\* What stop does to a queue, when it is not the second.
LEMMA StoppedAs ==
  ASSUME Typed, NEW q \in DOMAIN queues, Stopped(q), queues[q].running
  PROVE  \E w \in {queues[q].worker, "oversleeps"} :
           LET r == [queues[q] EXCEPT !.running = FALSE, !.worker = w]
           IN r \in QueueType /\ queues' = [queues EXCEPT ![q] = r]
<1>1. PICK w \in {queues[q].worker, "oversleeps"} :
             queues' = [queues EXCEPT ![q].running = FALSE, ![q].worker = w]
  BY DEF Stopped
<1>2. queues[q] \in QueueType
  BY TypedFacts
<1> DEFINE r == [queues[q] EXCEPT !.running = FALSE, !.worker = w]
<1>3. r \in QueueType
  BY <1>1, <1>2 DEF QueueType
<1>4. queues' = [queues EXCEPT ![q] = r]
  BY <1>1
<1> QED
  BY <1>3, <1>4

LEMMA StoppedOK == ASSUME Typed, NEW q \in DOMAIN queues, Stopped(q) PROVE QueuesOK
<1>1. CASE queues[q].running
  BY <1>1, StoppedAs, QueueUpdateOK
<1>2. CASE ~queues[q].running
  BY <1>2, QueuesKept DEF Stopped
<1> QED
  BY <1>1, <1>2

\* It leaves the other queues alone, and of this one all but the worker.
LEMMA StoppedKeeps ==
  ASSUME Typed, NEW q \in DOMAIN queues, Stopped(q)
  PROVE  /\ DOMAIN queues' = DOMAIN queues /\ Len(queues') = Len(queues) /\ ~queues'[q].running
         /\ \A p \in DOMAIN queues :
              /\ p # q => queues'[p] = queues[p]
              /\ queues'[p].sock = queues[p].sock /\ queues'[p].todo = queues[p].todo
              /\ queues'[p].active = queues[p].active
              /\ queues'[p].running => queues[p].running
              /\ queues'[p].worker \in {queues[p].worker, "oversleeps"}
<1>1. CASE queues[q].running
  <2>1. PICK w \in {queues[q].worker, "oversleeps"} :
               LET r == [queues[q] EXCEPT !.running = FALSE, !.worker = w]
               IN r \in QueueType /\ queues' = [queues EXCEPT ![q] = r]
    BY <1>1, StoppedAs
  <2> DEFINE r == [queues[q] EXCEPT !.running = FALSE, !.worker = w]
  <2>2. queues[q] \in QueueType
    BY TypedFacts
  <2>3. /\ r.sock = queues[q].sock /\ r.todo = queues[q].todo /\ r.active = queues[q].active
        /\ ~r.running /\ r.worker \in {queues[q].worker, "oversleeps"}
    BY <2>2 DEF QueueType
  <2>4. r \in QueueType /\ queues' = [queues EXCEPT ![q] = r]
    BY <2>1
  <2> HIDE DEF r
  <2> QED
    BY <2>3, <2>4, QueueUpdate
<1>2. CASE ~queues[q].running
  BY <1>2 DEF Stopped
<1> QED
  BY <1>1, <1>2

\* A wait that ends without a notification changes nothing else.
LEMMA WakeupKeeps ==
  ASSUME Typed, NEW q \in DOMAIN queues, SpuriousWakeup(q)
  PROVE  /\ DOMAIN queues' = DOMAIN queues
         /\ \A p \in DOMAIN queues :
              /\ queues'[p].sock = queues[p].sock /\ queues'[p].todo = queues[p].todo
              /\ queues'[p].active = queues[p].active /\ queues'[p].running = queues[p].running
<1> DEFINE r == [queues[q] EXCEPT !.worker = "waits"]
<1>1. queues[q] \in QueueType
  BY TypedFacts
<1>2. /\ r \in QueueType /\ r.sock = queues[q].sock /\ r.todo = queues[q].todo
      /\ r.active = queues[q].active /\ r.running = queues[q].running
  BY <1>1 DEF QueueType
<1>3. queues' = [queues EXCEPT ![q] = r]
  BY DEF SpuriousWakeup
<1> HIDE DEF r
<1> QED
  BY <1>2, <1>3, QueueUpdate

LEMMA EnqueueOK ==
  ASSUME Typed, NEW q \in DOMAIN queues, NEW c \in Clients, NEW f \in Files, Enqueue(c, q, f)
  PROVE  QueuesOK /\ handed' \in [Clients -> SUBSET Files]
<1>1. queues[q] \in QueueType
  BY TypedFacts
<1>2. Append(queues[q].todo, f) \in Seq(Files)
  BY <1>1, AppendProperties DEF QueueType
<1> DEFINE r == [queues[q] EXCEPT !.todo = Append(@, f), !.worker = "spins"]
<1>3. r \in QueueType
  BY <1>1, <1>2 DEF QueueType
<1>4. queues' = [queues EXCEPT ![q] = r]
  BY DEF Enqueue
<1> QED
  BY <1>3, <1>4, QueueUpdateOK DEF Enqueue, Typed, TypeOK

-----------------------------------------------------------------------------
(* Each step of a handler changes its own local variables only.            *)

LocalChange(x) ==
  h' = [h EXCEPT ![x] = h'[x]] /\ h'[x] \in Local(Len(queues')) /\ HandlerOK(x, h'[x])

LEMMA LookupLocal ==
  ASSUME Typed, NEW x \in Handlers, Lookup(x) \/ Emplace(x) \/ Drop(x) \/ Join(x)
  PROVE  QueuesOK /\ LocalChange(x)
<1>0. /\ h \in [Handlers -> Local(Len(queues))]
      /\ h[x] \in Local(Len(queues)) /\ HandlerOK(x, h[x]) /\ Len(queues) \in Nat
      /\ DOMAIN queues = 1..Len(queues)
  BY TypedFacts DEF Typed, TypeOK, Local
<1>a. \/ x = Acceptor /\ x[1] = "accept"
      \/ x \in {"text", "file"} \X Clients /\ x[1] \in {"text", "file"} /\ x[2] \in Clients
  BY HandlerNames
<1>1. CASE Lookup(x) /\ file_queues_[h[x].sock] # 0
  <2>1. h' = [h EXCEPT ![x].q = file_queues_[h[x].sock], ![x].pc = Caller(x)] /\ UNCHANGED queues
    BY <1>1 DEF Lookup, FindOrBuild
  <2>2. file_queues_[h[x].sock] \in 0..Len(queues)
    BY <1>0, <1>1 DEF Typed, TypeOK, Lookup, At, HandlerOK
  <2>3. h'[x] = [h[x] EXCEPT !.q = file_queues_[h[x].sock], !.pc = Caller(x)]
        /\ h' = [h EXCEPT ![x] = h'[x]]
    BY <1>0, <2>1
  <2>4. Caller(x) \in {"drop", "enqueue", "lock"}
        /\ (x[1] = "accept" <=> Caller(x) = "drop") /\ (x[1] = "file" <=> Caller(x) = "enqueue")
    BY <1>a DEF Caller
  <2>5. h'[x] \in Local(Len(queues))
    BY <1>0, <2>2, <2>3, <2>4 DEF Local, PCs
  <2>6. HandlerOK(x, h'[x])
    BY <1>0, <1>1, <1>a, <2>2, <2>3, <2>4 DEF HandlerOK, Local, Lookup, At, Holding
  <2> QED
    BY <2>1, <2>3, <2>5, <2>6, QueuesKept DEF LocalChange
<1>2. CASE Lookup(x) /\ file_queues_[h[x].sock] = 0
  <2>1. /\ queues' = Append(queues, NewQueue(h[x].sock))
        /\ h' = [h EXCEPT ![x].q = Len(queues'), ![x].pc = "emplace"]
    BY <1>2 DEF Lookup, FindOrBuild
  <2>2. h[x].sock \in Clients
    BY <1>0, <1>2 DEF Lookup, At, HandlerOK
  <2>3. NewQueue(h[x].sock) \in QueueType
    BY <2>2, EmptySeq DEF NewQueue, QueueType
  <2>4. queues' \in Seq(QueueType) /\ Len(queues') = Len(queues) + 1
    BY <2>1, <2>3, QueueAdded
  <2>5. h'[x] = [h[x] EXCEPT !.q = Len(queues'), !.pc = "emplace"] /\ h' = [h EXCEPT ![x] = h'[x]]
    BY <1>0, <2>1
  <2>6. h'[x] \in Local(Len(queues'))
    <3>1. Len(queues') \in 0..Len(queues')
      BY <1>0, <2>4
    <3>2. h[x] \in [pc : PCs, msg : Messages \cup {NoMsg}, todo : Seq(Clients),
                    sock : Clients \cup {NoMsg}, q : 0..Len(queues), i : Nat]
      BY <1>0 DEF Local
    <3> QED
      BY <2>5, <3>1, <3>2 DEF Local, PCs
  <2>7. HandlerOK(x, h'[x])
    BY <1>0, <1>2, <1>a, <2>4, <2>5 DEF HandlerOK, Local, Lookup, At, Holding
  <2> QED
    BY <1>0, <2>4, <2>5, <2>6, <2>7 DEF LocalChange, QueuesOK
<1>3. CASE Emplace(x)
  <2>1. h' = [h EXCEPT ![x].pc = Caller(x)] /\ UNCHANGED queues /\ h[x].pc = "emplace"
    BY <1>3 DEF Emplace, Goto, At
  <2>2. h'[x] = [h[x] EXCEPT !.pc = Caller(x)] /\ h' = [h EXCEPT ![x] = h'[x]]
    BY <1>0, <2>1
  <2>3. Caller(x) \in {"drop", "enqueue", "lock"}
        /\ (x[1] = "accept" <=> Caller(x) = "drop") /\ (x[1] = "file" <=> Caller(x) = "enqueue")
    BY <1>a DEF Caller
  <2>4. h'[x] \in Local(Len(queues))
    BY <1>0, <2>2, <2>3 DEF Local, PCs
  <2>5. HandlerOK(x, h'[x])
    BY <1>0, <1>a, <2>1, <2>2, <2>3 DEF HandlerOK, Local, Holding
  <2> QED
    BY <2>1, <2>2, <2>4, <2>5, QueuesKept DEF LocalChange
<1>4. ASSUME Released(x), h[x].pc \in {"drop", "join"} PROVE LocalChange(x) \/ ~QueuesOK
  <2>1. SUFFICES ASSUME QueuesOK PROVE LocalChange(x)
    OBVIOUS
  <2>2. 0 \in 0..Len(queues') /\ 0..Len(queues) \subseteq 0..Len(queues')
    BY <1>0, <2>1 DEF QueuesOK
  <2>3. CASE x[1] = "accept"
    <3>1. h' = [h EXCEPT ![x] = [@ EXCEPT !.pc = "read", !.q = 0]]
      BY <1>4, <2>3 DEF Released
    <3>2. h'[x] = [h[x] EXCEPT !.pc = "read", !.q = 0] /\ h' = [h EXCEPT ![x] = h'[x]]
      BY <1>0, <3>1
    <3>3. h'[x] \in Local(Len(queues'))
      BY <1>0, <2>2, <3>2 DEF Local, PCs
    <3> QED
      BY <1>0, <1>4, <2>3, <3>2, <3>3 DEF LocalChange, HandlerOK, Local, Holding
  <2>4. CASE x[1] = "file"
    <3>1. h' = [h EXCEPT ![x] = [@ EXCEPT !.pc = "next", !.q = 0, !.sock = NoMsg]]
      BY <1>4, <2>4 DEF Released
    <3>2. h'[x] = [h[x] EXCEPT !.pc = "next", !.q = 0, !.sock = NoMsg] /\ h' = [h EXCEPT ![x] = h'[x]]
      BY <1>0, <3>1
    <3>3. h'[x] \in Local(Len(queues'))
      BY <1>0, <2>2, <3>2 DEF Local, PCs
    <3> QED
      BY <1>0, <1>4, <2>4, <3>2, <3>3 DEF LocalChange, HandlerOK, Local, Holding
  <2>5. CASE x[1] = "text"
    <3>1. h' = [h EXCEPT ![x] = Idle]
      BY <1>4, <2>5 DEF Released
    <3>2. h'[x] = Idle /\ h' = [h EXCEPT ![x] = h'[x]]
      BY <1>0, <3>1
    <3>3. Idle \in Local(Len(queues'))
      BY <2>2, EmptySeq DEF Idle, Local, PCs
    <3> QED
      BY <3>2, <3>3, <2>5 DEF LocalChange, HandlerOK, Holding, Idle
  <2> QED
    BY <1>a, <2>3, <2>4, <2>5
<1>5. CASE Drop(x)
  <2>1. CASE h[x].q # 0 /\ ~Registered(h[x].q)
    <3>1. Stopped(h[x].q) /\ h' = [h EXCEPT ![x].pc = "join"] /\ h[x].pc = "drop"
      BY <1>5, <2>1 DEF Drop, Goto, At
    <3>2. h[x].q \in DOMAIN queues
      BY <1>0, <2>1 DEF Local
    <3>3. QueuesOK
      BY <3>1, <3>2, StoppedOK
    <3>4. h'[x] = [h[x] EXCEPT !.pc = "join"] /\ h' = [h EXCEPT ![x] = h'[x]]
      BY <1>0, <3>1
    <3>5. 0..Len(queues) \subseteq 0..Len(queues')
      BY <1>0, <3>3 DEF QueuesOK
    <3>6. h'[x] \in Local(Len(queues'))
      BY <1>0, <3>4, <3>5 DEF Local, PCs
    <3>7. HandlerOK(x, h'[x])
      BY <1>0, <2>1, <3>1, <3>4 DEF HandlerOK, Local, Holding
    <3> QED
      BY <3>3, <3>4, <3>6, <3>7 DEF LocalChange
  <2>2. CASE ~(h[x].q # 0 /\ ~Registered(h[x].q))
    BY <1>4, <1>5, <2>2, QueuesKept DEF Drop, At
  <2> QED
    BY <2>1, <2>2
<1>6. CASE Join(x)
  BY <1>4, <1>6, QueuesKept DEF Join, queueVars, At
<1> QED
  BY <1>1, <1>2, <1>3, <1>5, <1>6 DEF Lookup

\* A handler that adds no queue.
LEMMA LocalKept ==
  ASSUME Typed, QueuesOK, NEW x \in Handlers, NEW r \in Local(Len(queues)),
         h' = [h EXCEPT ![x] = r], HandlerOK(x, r)
  PROVE  LocalChange(x)
<1>1. h \in [Handlers -> Local(Len(queues))] /\ Len(queues) \in Nat
  BY TypedFacts DEF Typed, TypeOK, Local
<1>2. h'[x] = r
  BY <1>1
<1>3. 0..Len(queues) \subseteq 0..Len(queues')
  BY <1>1 DEF QueuesOK
<1>4. r \in Local(Len(queues'))
  BY <1>3 DEF Local
<1> QED
  BY <1>2, <1>4 DEF LocalChange

LEMMA IdleLocal == ASSUME NEW x \in Handlers, NEW n \in Nat PROVE Idle \in Local(n) /\ HandlerOK(x, Idle)
  BY EmptySeq DEF Idle, Local, PCs, HandlerOK, Holding

LEMMA AdvanceLocal ==
  ASSUME Typed, QueuesOK, NEW x \in Handlers, h' = Advance(x), h[x].pc \in {"send", "sendlog"}
  PROVE  LocalChange(x)
<1>0. /\ h[x] \in Local(Len(queues)) /\ HandlerOK(x, h[x]) /\ Len(queues) \in Nat
      /\ h[x].todo # <<>>
      /\ Len(h[x].todo) # 1 => Tail(h[x].todo) # <<>> /\ Tail(h[x].todo) \in Seq(Clients)
  <2>1. h[x].todo # <<>>
    BY TypedFacts DEF HandlerOK
  <2> QED
    BY <2>1, TypedFacts
<1>1. CASE Len(h[x].todo) = 1
  BY <1>0, <1>1, IdleLocal, LocalKept DEF Advance
<1>2. CASE Len(h[x].todo) # 1
  <2> DEFINE r == [h[x] EXCEPT !.todo = Tail(@)]
  <2>1. h' = [h EXCEPT ![x] = r]
    BY <1>2 DEF Advance
  <2>2. r \in Local(Len(queues))
    BY <1>0, <1>2 DEF Local
  <2>3. HandlerOK(x, r)
    BY <1>0, <1>2 DEF HandlerOK, Local
  <2> QED
    BY <2>1, <2>2, <2>3, LocalKept
<1> QED
  BY <1>1, <1>2

LEMMA BroadcastLocal ==
  ASSUME Typed, NEW x \in Handlers,
         \/ PushText(x) \/ SendText(x) \/ CopyFileClients(x) \/ NextFileClient(x) \/ EnqueueFile(x)
         \/ CopyTextClients(x) \/ SendLog(x)
  PROVE  QueuesOK /\ LocalChange(x)
<1>0. /\ h \in [Handlers -> Local(Len(queues))] /\ Len(queues) \in Nat
      /\ h[x] \in Local(Len(queues)) /\ HandlerOK(x, h[x])
      /\ h[x].todo # <<>> => Head(h[x].todo) \in Clients /\ Tail(h[x].todo) \in Seq(Clients)
      /\ text_port_clients_ \in Seq(Clients) /\ file_port_clients_ \in Seq(Clients)
      /\ DOMAIN queues = 1..Len(queues)
  BY TypedFacts DEF Typed, TypeOK, Local
<1>1. CASE PushText(x)
  <2> DEFINE r == [h[x] EXCEPT !.pc = "send"]
  <2>1. h' = [h EXCEPT ![x] = r] /\ QueuesOK /\ h[x].pc = "push"
    BY <1>1, QueuesKept DEF PushText, Goto, At, queueVars
  <2>2. r \in Local(Len(queues)) /\ HandlerOK(x, r)
    BY <1>0, <2>1 DEF Local, PCs, HandlerOK, Holding
  <2> QED
    BY <2>1, <2>2, LocalKept
<1>2. CASE SendText(x) \/ SendLog(x)
  BY <1>2, QueuesKept, AdvanceLocal DEF SendText, SendLog, At, queueVars
<1>3. CASE CopyFileClients(x)
  <2> DEFINE r == [h[x] EXCEPT !.pc = "next", !.todo = file_port_clients_]
  <2>1. h' = [h EXCEPT ![x] = r] /\ QueuesOK /\ h[x].pc = "clients"
    BY <1>3, QueuesKept DEF CopyFileClients, At, queueVars
  <2>2. r \in Local(Len(queues)) /\ HandlerOK(x, r)
    BY <1>0, <2>1 DEF Local, PCs, HandlerOK, Holding
  <2> QED
    BY <2>1, <2>2, LocalKept
<1>4. CASE NextFileClient(x)
  <2>0. QueuesOK /\ h[x].pc = "next"
    BY <1>4, QueuesKept DEF NextFileClient, At, queueVars
  <2>1. CASE h[x].todo = <<>>
    <3> DEFINE r == [h[x] EXCEPT !.pc = "log"]
    <3>1. h' = [h EXCEPT ![x] = r]
      BY <1>4, <2>1 DEF NextFileClient
    <3>2. r \in Local(Len(queues)) /\ HandlerOK(x, r)
      BY <1>0, <2>0 DEF Local, PCs, HandlerOK, Holding
    <3> QED
      BY <2>0, <3>1, <3>2, LocalKept
  <2>2. CASE h[x].todo # <<>> /\ (NextClient(x) = x[2] \/ ~IsOpen("file", NextClient(x)))
    <3> DEFINE r == [h[x] EXCEPT !.todo = Tail(h[x].todo)]
    <3>1. h' = [h EXCEPT ![x] = r]
      BY <1>4, <2>2 DEF NextFileClient, ClientsAfter
    <3>2. r \in Local(Len(queues)) /\ HandlerOK(x, r)
      BY <1>0, <2>0, <2>2 DEF Local, PCs, HandlerOK, Holding
    <3> QED
      BY <2>0, <3>1, <3>2, LocalKept
  <2>3. CASE h[x].todo # <<>> /\ ~(NextClient(x) = x[2] \/ ~IsOpen("file", NextClient(x)))
    <3> DEFINE r == [h[x] EXCEPT !.pc = "lookup", !.sock = Head(h[x].todo), !.todo = Tail(@)]
    <3>1. h' = [h EXCEPT ![x] = r]
      BY <1>4, <2>3 DEF NextFileClient, NextClient
    <3>2. r \in Local(Len(queues)) /\ HandlerOK(x, r)
      BY <1>0, <2>0, <2>3 DEF Local, PCs, HandlerOK, Holding
    <3> QED
      BY <2>0, <3>1, <3>2, LocalKept
  <2> QED
    BY <2>1, <2>2, <2>3
<1>5. CASE EnqueueFile(x)
  <2> DEFINE r == [h[x] EXCEPT !.pc = "drop"]
  <2>1. h' = [h EXCEPT ![x] = r] /\ h[x].pc = "enqueue" /\ Enqueue(h[x].sock, h[x].q, h[x].msg)
    BY <1>5 DEF EnqueueFile, At, Goto
  <2>2. h[x].q \in DOMAIN queues /\ h[x].sock \in Clients /\ h[x].msg \in Files
    BY <1>0, <2>1 DEF HandlerOK, Local
  <2>3. QueuesOK
    BY <2>1, <2>2, EnqueueOK
  <2>4. r \in Local(Len(queues)) /\ HandlerOK(x, r)
    BY <1>0, <2>1 DEF Local, PCs, HandlerOK, Holding
  <2> QED
    BY <2>1, <2>3, <2>4, LocalKept
<1>6. CASE CopyTextClients(x)
  <2>0. QueuesOK /\ h[x].pc = "log"
    BY <1>6, QueuesKept DEF CopyTextClients, At, queueVars
  <2>1. CASE text_port_clients_ = <<>>
    BY <1>0, <1>6, <2>0, <2>1, IdleLocal, LocalKept DEF CopyTextClients
  <2>2. CASE text_port_clients_ # <<>>
    <3> DEFINE r == [h[x] EXCEPT !.pc = "sendlog", !.todo = text_port_clients_]
    <3>1. h' = [h EXCEPT ![x] = r]
      BY <1>6, <2>2 DEF CopyTextClients
    <3>2. r \in Local(Len(queues)) /\ HandlerOK(x, r)
      BY <1>0, <2>0, <2>2 DEF Local, PCs, HandlerOK, Holding
    <3> QED
      BY <2>0, <3>1, <3>2, LocalKept
  <2> QED
    BY <2>1, <2>2
<1> QED
  BY <1>1, <1>2, <1>3, <1>4, <1>5, <1>6

LEMMA HistoryLocal ==
  ASSUME Typed, NEW x \in Handlers,
         \/ FindFileSocket(x) \/ FileSocketClosed(x) \/ LockHistory(x) \/ Replay(x)
         \/ UnlockHistory(x) \/ SendEnd(x)
  PROVE  QueuesOK /\ LocalChange(x)
<1>0. /\ h \in [Handlers -> Local(Len(queues))] /\ Len(queues) \in Nat
      /\ h[x] \in Local(Len(queues)) /\ HandlerOK(x, h[x])
      /\ DOMAIN queues = 1..Len(queues)
      /\ x[1] = "text" => x[2] \in Clients
  BY TypedFacts, HandlerNames DEF Typed, TypeOK, Local
<1>a. ASSUME NEW pc \in {"lock", "end", "drop"}, h[x].pc \in {"find", "lookup", "replay", "end"},
             h' = [h EXCEPT ![x].pc = pc], x[1] = "text", QueuesOK
      PROVE  LocalChange(x)
  <2> DEFINE r == [h[x] EXCEPT !.pc = pc]
  <2>1. h' = [h EXCEPT ![x] = r]
    BY <1>a
  <2>2. r \in Local(Len(queues)) /\ HandlerOK(x, r)
    BY <1>0, <1>a DEF Local, PCs, HandlerOK, Holding
  <2> QED
    BY <1>a, <2>1, <2>2, LocalKept
<1>1. CASE FindFileSocket(x)
  <2>0. QueuesOK /\ h[x].pc = "find" /\ x[1] = "text"
    BY <1>0, <1>1, QueuesKept DEF FindFileSocket, At, queueVars, HandlerOK
  <2>1. CASE x[2] \in Elements(file_port_clients_)
    <3> DEFINE r == [h[x] EXCEPT !.pc = "lookup", !.sock = x[2]]
    <3>1. h' = [h EXCEPT ![x] = r]
      BY <1>1, <2>1 DEF FindFileSocket
    <3>2. r \in Local(Len(queues)) /\ HandlerOK(x, r)
      BY <1>0, <2>0 DEF Local, PCs, HandlerOK, Holding
    <3> QED
      BY <2>0, <3>1, <3>2, LocalKept
  <2>2. CASE x[2] \notin Elements(file_port_clients_)
    BY <1>a, <1>1, <2>0, <2>2 DEF FindFileSocket, Goto
  <2> QED
    BY <2>1, <2>2, <2>0
<1>2. CASE FileSocketClosed(x)
  BY <1>2, <1>a, QueuesKept DEF FileSocketClosed, At, Goto, queueVars
<1>3. CASE LockHistory(x)
  <2> DEFINE r == [h[x] EXCEPT !.pc = "replay", !.i = 1]
  <2>1. h' = [h EXCEPT ![x] = r] /\ QueuesOK /\ h[x].pc = "lock"
    BY <1>3, QueuesKept DEF LockHistory, At, queueVars
  <2>2. r \in Local(Len(queues)) /\ r.i # 0
    <3>1. h[x] \in Local(Len(queues)) /\ "replay" \in PCs /\ 1 \in Nat /\ 1 # 0
      BY <1>0 DEF PCs
    <3> QED
      BY <3>1 DEF Local
  <2>3. HandlerOK(x, r)
    BY <1>0, <2>1, <2>2 DEF Local, HandlerOK, Holding
  <2> QED
    BY <2>1, <2>2, <2>3, LocalKept
<1>4. CASE Replay(x)
  <2> DEFINE r == [h[x] EXCEPT !.i = @ + 1]
             m == message_history_[h[x].i]
  <2>1. h' = [h EXCEPT ![x] = r] /\ h[x].pc = "replay" /\ x[1] = "text" /\ x[2] \in Clients
    BY <1>0, <1>4 DEF Replay, At, HandlerOK
  <2>2. r \in Local(Len(queues)) /\ HandlerOK(x, r)
    <3>1. h[x].i \in Nat /\ h[x].i + 1 \in Nat /\ h[x].i + 1 # 0
      BY <1>0 DEF Local
    <3>2. r \in Local(Len(queues)) /\ r.i # 0
      BY <1>0, <3>1 DEF Local
    <3> QED
      BY <1>0, <2>1, <3>2 DEF Local, HandlerOK
  <2>3. m \in Messages
    <3>1. h[x].i \in 1..Len(message_history_)
      BY <1>0, <1>4, <2>1, TypedFacts DEF Replay, Local, HandlerOK
    <3> QED
      BY <3>1, ElementOfSeq DEF Typed, TypeOK
  <2>4. QueuesOK
    <3>1. CASE m.kind = "file" /\ h[x].q # 0
      <4>1. m \in Files /\ h[x].q \in DOMAIN queues
        BY <1>0, <2>3, <3>1, Kinds DEF Messages, Local
      <4>2. Enqueue(x[2], h[x].q, m)
        BY <1>4, <3>1 DEF Replay
      <4> QED
        BY <2>1, <4>1, <4>2, EnqueueOK
    <3>2. CASE ~(m.kind = "file" /\ h[x].q # 0)
      BY <1>4, <3>2, QueuesKept DEF Replay
    <3> QED
      BY <3>1, <3>2
  <2> QED
    BY <2>1, <2>2, <2>4, LocalKept
<1>5. CASE UnlockHistory(x)
  BY <1>0, <1>5, <1>a, QueuesKept DEF UnlockHistory, At, Goto, queueVars, HandlerOK
<1>6. CASE SendEnd(x)
  BY <1>0, <1>6, <1>a, QueuesKept DEF SendEnd, At, Goto, queueVars, HandlerOK
<1> QED
  BY <1>1, <1>2, <1>3, <1>4, <1>5, <1>6

LEMMA ReceivedNat == ASSUME Typed, NEW kind PROVE Received(kind) \in Nat
<1>1. IsFiniteSet({i \in DOMAIN log : log[i].kind = kind})
  <2>1. IsFiniteSet(1..Len(log)) /\ DOMAIN log = 1..Len(log)
    BY TypedFacts, FS_Interval, LenProperties DEF Typed, TypeOK
  <2> QED
    BY <2>1, FS_Subset
<1> DEFINE T == {x \in Handlers : h[x].pc = "push" /\ kind = "text"}
           f == [x \in T |-> x[2]]
<1>2. \A x \in T : x \in {"text", "file"} \X Clients /\ x[1] = "text" /\ x[2] \in Clients
  <2> TAKE x \in T
  <2>1. HandlerOK(x, h[x])
    BY TypedFacts
  <2>2. x[1] = "text"
    BY <2>1 DEF HandlerOK
  <2> QED
    BY <2>2, HandlerNames
<1>3. \A x, y \in T : x[2] = y[2] => x = y
  BY <1>2
<1>4. f \in Injection(T, Clients)
  BY <1>2, <1>3 DEF Injection, IsInjective
<1>5. IsFiniteSet(T)
  BY <1>4, FS_Injection, ConstantsAssumption
<1> QED
  BY <1>1, <1>5, FS_CardinalityType DEF Received

\* What the steps that begin a handler, or end the accept handler, do to it.
LEMMA BeginLocal ==
  ASSUME Typed, NEW c \in Clients
  PROVE  /\ AcceptFileConnection(c) => QueuesOK /\ LocalChange(Acceptor)
         /\ StartReading => QueuesOK /\ LocalChange(Acceptor)
         /\ ReceiveText(c) => QueuesOK /\ LocalChange(Reader("text", c))
         /\ ReceiveFile(c) => QueuesOK /\ LocalChange(Reader("file", c))
                              /\ File(c, Received("file") + 1) \in Files
                              /\ FileLog(c, Received("file") + 1) \in Logs
         /\ ReceiveSendHistory(c) => QueuesOK /\ LocalChange(Reader("text", c))
<1>0. /\ h \in [Handlers -> Local(Len(queues))] /\ Len(queues) \in Nat
      /\ Acceptor \in Handlers /\ Reader("text", c) \in Handlers /\ Reader("file", c) \in Handlers
      /\ Acceptor[1] = "accept" /\ Reader("text", c)[1] = "text" /\ Reader("file", c)[1] = "file"
  BY TypedFacts, ReaderNames DEF Typed, TypeOK, Local
<1>a. \A x \in Handlers : h[x] \in Local(Len(queues)) /\ HandlerOK(x, h[x])
  BY TypedFacts
<1>1. ASSUME AcceptFileConnection(c) PROVE QueuesOK /\ LocalChange(Acceptor)
  <2> DEFINE r == [h[Acceptor] EXCEPT !.pc = "lookup", !.sock = c]
  <2>1. h' = [h EXCEPT ![Acceptor] = r] /\ QueuesOK /\ h[Acceptor].pc = "idle"
    BY <1>1, QueuesKept DEF AcceptFileConnection, At, queueVars
  <2>2. r \in Local(Len(queues)) /\ HandlerOK(Acceptor, r)
    BY <1>0, <1>a, <2>1 DEF Local, PCs, HandlerOK, Holding
  <2> QED
    BY <1>0, <2>1, <2>2, LocalKept
<1>2. ASSUME StartReading PROVE QueuesOK /\ LocalChange(Acceptor)
  BY <1>0, <1>2, QueuesKept, IdleLocal, LocalKept DEF StartReading, queueVars
<1>3. ASSUME ReceiveText(c) PROVE QueuesOK /\ LocalChange(Reader("text", c))
  <2> DEFINE x == Reader("text", c)
             n == Received("text") + 1
             r == [h[x] EXCEPT !.pc = "push", !.msg = Text(c, n), !.todo = text_port_clients_]
  <2>1. h' = [h EXCEPT ![x] = r] /\ QueuesOK /\ h[x].pc = "idle"
    BY <1>3, QueuesKept DEF ReceiveText, Reading, At, queueVars
  <2>2. n \in 1..MaxTexts
    BY <1>3, ReceivedNat, ConstantsAssumption DEF ReceiveText
  <2>3. Text(c, n) \in Texts
    BY <2>2 DEF Texts
  <2>4. text_port_clients_ \in Seq(Clients) /\ text_port_clients_ # <<>>
    BY <1>3 DEF ReceiveText, Reading, Typed, TypeOK, ReadersListed, Elements
  <2>5. r \in Local(Len(queues))
    BY <1>0, <1>a, <2>3, <2>4 DEF Local, PCs, Messages
  <2>6. HandlerOK(x, r)
    BY <1>0, <1>a, <2>1, <2>3, <2>4 DEF Local, HandlerOK, Holding
  <2> QED
    BY <1>0, <2>1, <2>5, <2>6, LocalKept
<1>4. ASSUME ReceiveFile(c)
      PROVE  /\ QueuesOK /\ LocalChange(Reader("file", c))
             /\ File(c, Received("file") + 1) \in Files /\ FileLog(c, Received("file") + 1) \in Logs
  <2> DEFINE x == Reader("file", c)
             n == Received("file") + 1
             r == [h[x] EXCEPT !.pc = "clients", !.msg = File(c, n)]
  <2>1. h' = [h EXCEPT ![x] = r] /\ QueuesOK /\ h[x].pc = "idle"
    BY <1>4, QueuesKept DEF ReceiveFile, Reading, At, queueVars
  <2>2. n \in 1..MaxFiles
    BY <1>4, ReceivedNat, ConstantsAssumption DEF ReceiveFile
  <2>3. File(c, n) \in Files /\ FileLog(c, n) \in Logs
    BY <2>2 DEF Files, Logs
  <2>4. r \in Local(Len(queues))
    BY <1>0, <1>a, <2>3 DEF Local, PCs, Messages
  <2>5. HandlerOK(x, r)
    BY <1>0, <1>a, <2>1, <2>3 DEF Local, HandlerOK, Holding
  <2> QED
    BY <1>0, <2>1, <2>3, <2>4, <2>5, LocalKept
<1>5. ASSUME ReceiveSendHistory(c) PROVE QueuesOK /\ LocalChange(Reader("text", c))
  <2> DEFINE x == Reader("text", c)
             r == [h[x] EXCEPT !.pc = "find"]
  <2>1. QueuesOK /\ h[x].pc = "idle" /\ (h' = [h EXCEPT ![x] = r] \/ h' = h)
    BY <1>5, QueuesKept DEF ReceiveSendHistory, Reading, At, queueVars
  <2>2. CASE h' = [h EXCEPT ![x] = r]
    <3>1. r \in Local(Len(queues)) /\ HandlerOK(x, r)
      BY <1>0, <1>a, <2>1 DEF Local, PCs, HandlerOK, Holding
    <3> QED
      BY <1>0, <2>1, <2>2, <3>1, LocalKept
  <2>3. CASE h' = h
    <3> DEFINE old == h[x]
    <3>1. h' = [h EXCEPT ![x] = old] /\ old \in Local(Len(queues)) /\ HandlerOK(x, old)
      BY <1>0, <1>a, <2>3
    <3> QED
      BY <1>0, <2>1, <3>1, LocalKept
  <2> QED
    BY <2>1, <2>2, <2>3
<1> QED
  BY <1>1, <1>2, <1>3, <1>4, <1>5

-----------------------------------------------------------------------------
(* Type correctness.                                                       *)

\* What a step of a handler leaves alone.
LEMMA HandlerFrame ==
  ASSUME NEW x, Handler(x)
  PROVE  UNCHANGED <<server, conn, joined, early, text_port_clients_, file_port_clients_, asked, left>>
<1>1. CASE Lookup(x) \/ Emplace(x) \/ Drop(x) \/ Join(x)
  BY <1>1 DEF Lookup, Emplace, Drop, Join, serverVars, chatVars
<1>2. CASE PushText(x) \/ SendText(x) \/ CopyFileClients(x) \/ NextFileClient(x)
  BY <1>2 DEF PushText, SendText, CopyFileClients, NextFileClient, serverVars, chatVars
<1>3. CASE EnqueueFile(x) \/ CopyTextClients(x) \/ SendLog(x)
  BY <1>3 DEF EnqueueFile, CopyTextClients, SendLog, serverVars, chatVars
<1>4. CASE FindFileSocket(x) \/ FileSocketClosed(x) \/ LockHistory(x)
  BY <1>4 DEF FindFileSocket, FileSocketClosed, LockHistory, serverVars, chatVars
<1>5. CASE Replay(x) \/ UnlockHistory(x) \/ SendEnd(x)
  BY <1>5 DEF Replay, UnlockHistory, SendEnd, serverVars, chatVars
<1> QED
  BY <1>1, <1>2, <1>3, <1>4, <1>5 DEF Handler

\* The queues and the handlers.
HandlersOK == h' \in [Handlers -> Local(Len(queues'))] /\ \A y \in Handlers : HandlerOK(y, h'[y])

LEMMA LocalChangeOK ==
  ASSUME Typed, QueuesOK, NEW x \in Handlers, LocalChange(x) PROVE HandlersOK
<1>1. h' = [h EXCEPT ![x] = h'[x]] /\ h'[x] \in Local(Len(queues')) /\ HandlerOK(x, h'[x])
  BY DEF LocalChange
<1> DEFINE r == h'[x]
<1>2. h' = [h EXCEPT ![x] = r] /\ r \in Local(Len(queues')) /\ HandlerOK(x, r)
  BY <1>1
<1>3. Len(queues') \in Nat /\ Len(queues) <= Len(queues')
  BY DEF QueuesOK
<1> HIDE DEF r
<1> QED
  BY <1>2, <1>3, LocalStep DEF HandlersOK

LEMMA HandlersKept == ASSUME Typed, QueuesOK, UNCHANGED h PROVE HandlersOK
<1>1. /\ h \in [Handlers -> Local(Len(queues))] /\ Len(queues) \in Nat
      /\ \A y \in Handlers : HandlerOK(y, h[y])
  BY TypedFacts DEF Typed, TypeOK, Local
<1>2. 0..Len(queues) \subseteq 0..Len(queues')
  BY <1>1 DEF QueuesOK
<1>3. Local(Len(queues)) \subseteq Local(Len(queues'))
  BY <1>2 DEF Local
<1> QED
  BY <1>1, <1>3 DEF HandlersOK

LEMMA WorkerOK == ASSUME Typed, NEW q \in DOMAIN queues, Worker(q) PROVE QueuesOK
<1>1. queues[q] \in QueueType /\ queues[q].todo \in Seq(Files)
  BY TypedFacts DEF QueueType
<1>2. CASE BeginTransfer(q)
  <2>1. queues[q].todo # <<>>
    BY <1>2 DEF BeginTransfer
  <2>2. Head(queues[q].todo) \in Files /\ Tail(queues[q].todo) \in Seq(Files)
    BY <1>1, <2>1, HeadTailProperties
  <2> DEFINE r == [queues[q] EXCEPT !.active = Head(queues[q].todo), !.todo = Tail(@)]
  <2>3. r \in QueueType
    BY <1>1, <2>2 DEF QueueType
  <2>4. queues' = [queues EXCEPT ![q] = r]
    BY <1>2 DEF BeginTransfer
  <2> QED
    BY <2>3, <2>4, QueueUpdateOK
<1>3. CASE EndTransfer(q)
  <2> DEFINE r == [queues[q] EXCEPT !.active = NoMsg]
  <2>1. r \in QueueType
    BY <1>1 DEF QueueType
  <2>2. queues' = [queues EXCEPT ![q] = r]
    BY <1>3 DEF EndTransfer
  <2> QED
    BY <2>1, <2>2, QueueUpdateOK
<1>4. CASE SpuriousWakeup(q)
  <2> DEFINE r == [queues[q] EXCEPT !.worker = "waits"]
  <2>1. r \in QueueType
    BY <1>1 DEF QueueType
  <2>2. queues' = [queues EXCEPT ![q] = r]
    BY <1>4 DEF SpuriousWakeup
  <2> QED
    BY <2>1, <2>2, QueueUpdateOK
<1> QED
  BY <1>2, <1>3, <1>4 DEF Worker

LEMMA StopQueuesOK ==
  ASSUME Typed, Stop
  PROVE  QueuesOK /\ UNCHANGED <<h, joined, handed, files, message_history_, log, found, from,
                                 asked, left, texts>>
<1>1. ASSUME NEW q \in DOMAIN queues, StopQueue(q)
      PROVE  QueuesOK /\ UNCHANGED <<h, joined, handed, files, message_history_, log, found, from,
                                     asked, left, texts>>
  BY <1>1, StoppedOK DEF StopQueue, historyVars
<1>2. CASE CloseFileAcceptor \/ QueueJoined \/ ClearQueues
  BY <1>2, QueuesKept DEF CloseFileAcceptor, QueueJoined, ClearQueues, queueVars, historyVars
<1>3. CASE CloseTextClients \/ CloseFileClients \/ StopContext
  BY <1>3, QueuesKept DEF CloseTextClients, CloseFileClients, StopContext, queueVars, historyVars
<1> QED
  BY <1>1, <1>2, <1>3 DEF Stop

LEMMA QueuesAndHandlers == ASSUME Typed, [Next]_vars PROVE QueuesOK /\ HandlersOK
<1>1. ASSUME NEW c \in Clients, Client(c) PROVE QueuesOK /\ HandlersOK
  <2>1. CASE Connect(c) \/ (\E kind \in {"text", "file"} : ReadError(kind, c))
    BY <2>1, QueuesKept, HandlersKept DEF Connect, ReadError, queueVars
  <2> QED
    BY <1>1, <2>1, BeginLocal, LocalChangeOK, ReaderNames DEF Client
<1>2. CASE Accept
  <2>1. ASSUME NEW c \in Clients, AcceptTextConnection(c) PROVE QueuesOK /\ HandlersOK
    BY <2>1, QueuesKept, HandlersKept DEF AcceptTextConnection, queueVars
  <2>2. ASSUME NEW c \in Clients, AcceptFileConnection(c) PROVE QueuesOK /\ HandlersOK
    BY <2>2, BeginLocal, LocalChangeOK, ReaderNames
  <2>3. CASE StartReading
    <3>1. Acceptor \in Handlers /\ h' = [h EXCEPT ![Acceptor] = Idle] /\ QueuesOK
      BY <2>3, QueuesKept DEF StartReading, queueVars, Handlers
    <3> QED
      BY <3>1, IdleLocal, LocalKept, LocalChangeOK, TypedFacts
  <2> QED
    BY <1>2, <2>1, <2>2, <2>3 DEF Accept
<1>3. ASSUME NEW x \in Handlers, Handler(x) PROVE QueuesOK /\ HandlersOK
  BY <1>3, LookupLocal, BroadcastLocal, HistoryLocal, LocalChangeOK DEF Handler
<1>4. ASSUME NEW q \in DOMAIN queues, Worker(q) PROVE QueuesOK /\ HandlersOK
  <2>1. UNCHANGED h
    BY <1>4 DEF Worker, BeginTransfer, EndTransfer, SpuriousWakeup
  <2> QED
    BY <1>4, <2>1, WorkerOK, HandlersKept
<1>5. CASE StopServer
  BY <1>5, QueuesKept, HandlersKept DEF StopServer, queueVars
<1>6. CASE Stop
  BY <1>6, StopQueuesOK, HandlersKept
<1>7. CASE UNCHANGED vars
  BY <1>7, QueuesKept, HandlersKept DEF vars, queueVars
<1> QED
  BY <1>1, <1>2, <1>3, <1>4, <1>5, <1>6, <1>7 DEF Next

\* The connections and the lists.
LEMMA ConnOK ==
  ASSUME Typed, QueuesOK, [Next]_vars
  PROVE  /\ server' \in [pc : {"up", "closing", "queues", "join", "text", "file", "context", "down"},
                         q : 0..Len(queues')]
         /\ conn' \in [{"text", "file"} \X Clients ->
                       {"none", "backlog", "accepted", "listed", "reading", "closed"}]
         /\ text_port_clients_' \in Seq(Clients) /\ file_port_clients_' \in Seq(Clients)
         /\ ReadersListed'
<1> DEFINE Goal == /\ server' \in [pc : {"up", "closing", "queues", "join", "text", "file",
                                         "context", "down"}, q : 0..Len(queues')]
                   /\ conn' \in [{"text", "file"} \X Clients ->
                                 {"none", "backlog", "accepted", "listed", "reading", "closed"}]
                   /\ text_port_clients_' \in Seq(Clients) /\ file_port_clients_' \in Seq(Clients)
                   /\ ReadersListed'
<1> SUFFICES Goal
  OBVIOUS
<1>0. /\ server \in [pc : {"up", "closing", "queues", "join", "text", "file", "context", "down"},
                     q : 0..Len(queues')]
      /\ conn \in [{"text", "file"} \X Clients ->
                   {"none", "backlog", "accepted", "listed", "reading", "closed"}]
      /\ text_port_clients_ \in Seq(Clients) /\ file_port_clients_ \in Seq(Clients)
      /\ ReadersListed
      /\ 0 \in 0..Len(queues') /\ Len(queues) \in Nat
  <2>1. 0..Len(queues) \subseteq 0..Len(queues') /\ 0 \in 0..Len(queues')
    BY TypedFacts DEF QueuesOK
  <2> QED
    BY <2>1, TypedFacts DEF Typed, TypeOK
<1>1. CASE UNCHANGED <<server, conn, text_port_clients_, file_port_clients_>>
  BY <1>0, <1>1 DEF ReadersListed, Elements
<1>2. ASSUME UNCHANGED <<text_port_clients_, file_port_clients_>>,
             server' \in [pc : {"up", "closing", "queues", "join", "text", "file", "context", "down"},
                          q : 0..Len(queues')],
             conn' \in [{"text", "file"} \X Clients ->
                        {"none", "backlog", "accepted", "listed", "reading", "closed"}],
             \A c \in Clients : conn'[<<"text", c>>] = "reading" => conn[<<"text", c>>] = "reading"
      PROVE  Goal
  BY <1>0, <1>2 DEF ReadersListed, Elements
<1>3. ASSUME NEW kind \in {"text", "file"}, CloseAcceptor(kind)
      PROVE  /\ conn' \in [{"text", "file"} \X Clients ->
                           {"none", "backlog", "accepted", "listed", "reading", "closed"}]
             /\ \A s \in DOMAIN conn : conn'[s] = "reading" => conn[s] = "reading"
  BY <1>0, <1>3 DEF CloseAcceptor
<1>4. ASSUME NEW c \in Clients, Client(c) PROVE Goal
  <2>1. CASE Connect(c)
    <3>1. /\ conn' \in [{"text", "file"} \X Clients ->
                        {"none", "backlog", "accepted", "listed", "reading", "closed"}]
          /\ \A s \in DOMAIN conn : conn'[s] = "reading" => conn[s] = "reading"
      BY <1>0, <2>1 DEF Connect
    <3> QED
      BY <1>0, <1>2, <2>1, <3>1 DEF Connect, chatVars
  <2>2. CASE ReceiveText(c) \/ ReceiveFile(c) \/ ReceiveSendHistory(c) \/ (\E kind \in {"text", "file"} : ReadError(kind, c))
    BY <1>1, <2>2 DEF ReceiveText, ReceiveFile, ReceiveSendHistory, ReadError, serverVars, chatVars
  <2> QED
    BY <1>4, <2>1, <2>2 DEF Client
<1>5. ASSUME NEW c \in Clients, AcceptTextConnection(c) PROVE Goal
  <2>1. /\ conn' = [conn EXCEPT ![<<"text", c>>] = "reading"]
        /\ text_port_clients_' = Append(text_port_clients_, c)
        /\ UNCHANGED <<server, file_port_clients_>>
    BY <1>5 DEF AcceptTextConnection
  <2>2. /\ text_port_clients_' \in Seq(Clients)
        /\ Len(text_port_clients_') = Len(text_port_clients_) + 1
        /\ \A i \in 1..Len(text_port_clients_) : text_port_clients_'[i] = text_port_clients_[i]
        /\ text_port_clients_'[Len(text_port_clients_) + 1] = c
    BY <1>0, <2>1, AppendProperties
  <2>3. /\ Len(text_port_clients_) \in Nat /\ DOMAIN text_port_clients_ = 1..Len(text_port_clients_)
        /\ DOMAIN text_port_clients_' = 1..(Len(text_port_clients_) + 1)
    BY <1>0, <2>2, LenProperties
  <2>4. Elements(text_port_clients_) \subseteq Elements(text_port_clients_)'
        /\ c \in Elements(text_port_clients_)'
    BY <2>2, <2>3 DEF Elements
  <2> QED
    BY <1>0, <2>1, <2>2, <2>4 DEF ReadersListed
<1>6. ASSUME NEW c \in Clients, AcceptFileConnection(c) PROVE Goal
  <2>1. /\ conn' = [conn EXCEPT ![<<"file", c>>] = "listed"]
        /\ file_port_clients_' = Append(file_port_clients_, c)
        /\ UNCHANGED <<server, text_port_clients_>>
    BY <1>6 DEF AcceptFileConnection
  <2>2. file_port_clients_' \in Seq(Clients)
    BY <1>0, <2>1, AppendProperties
  <2>3. Elements(text_port_clients_)' = Elements(text_port_clients_)
    BY <2>1 DEF Elements
  <2> QED
    BY <1>0, <2>1, <2>2, <2>3 DEF ReadersListed
<1>7. CASE StartReading
  <2>1. h[Acceptor].sock \in Clients
    BY <1>7, TypedFacts, HandlerNames DEF StartReading, At, HandlerOK, Handlers, Acceptor
  <2>2. /\ conn' \in [{"text", "file"} \X Clients ->
                      {"none", "backlog", "accepted", "listed", "reading", "closed"}]
        /\ \A c \in Clients : conn'[<<"text", c>>] = conn[<<"text", c>>]
    BY <1>0, <1>7, <2>1 DEF StartReading
  <2> QED
    BY <1>0, <1>2, <1>7, <2>2 DEF StartReading, chatVars
<1>8. CASE StopServer
  BY <1>0, <1>2, <1>3, <1>8 DEF StopServer, chatVars
<1>9. CASE CloseFileAcceptor
  BY <1>0, <1>2, <1>3, <1>9 DEF CloseFileAcceptor, chatVars
<1>10. CASE QueueJoined \/ ClearQueues \/ StopContext
  BY <1>0, <1>2, <1>10 DEF QueueJoined, ClearQueues, StopContext, chatVars
<1>11. ASSUME NEW q \in DOMAIN queues, StopQueue(q) PROVE Goal
  <2>1. q \in 0..Len(queues')
    BY TypedFacts DEF QueuesOK
  <2> QED
    BY <1>0, <1>2, <1>11, <2>1 DEF StopQueue, chatVars
<1>12. CASE CloseTextClients
  <2>1. text_port_clients_' \in Seq(Clients)
    BY <1>12, EmptySeq DEF CloseTextClients
  <2>2. /\ conn' = [s \in DOMAIN conn |-> IF s[1] = "text" /\ s[2] \in Elements(text_port_clients_)
                                          THEN "closed" ELSE conn[s]]
        /\ UNCHANGED file_port_clients_ /\ server' = [server EXCEPT !.pc = "file"]
    BY <1>12 DEF CloseTextClients, Closed
  <2>3. \A c \in Clients : conn'[<<"text", c>>] # "reading"
    BY <1>0, <2>2 DEF ReadersListed
  <2> QED
    BY <1>0, <2>1, <2>2, <2>3 DEF ReadersListed
<1>13. CASE CloseFileClients
  <2>1. file_port_clients_' \in Seq(Clients)
    BY <1>13, EmptySeq DEF CloseFileClients
  <2>2. /\ conn' = [s \in DOMAIN conn |-> IF s[1] = "file" /\ s[2] \in Elements(file_port_clients_)
                                          THEN "closed" ELSE conn[s]]
        /\ UNCHANGED text_port_clients_ /\ server' = [server EXCEPT !.pc = "context"]
    BY <1>13 DEF CloseFileClients, Closed
  <2>3. \A c \in Clients : conn'[<<"text", c>>] = conn[<<"text", c>>]
    BY <1>0, <2>2
  <2> QED
    BY <1>0, <2>1, <2>2, <2>3 DEF ReadersListed, Elements
<1>14. ASSUME NEW x \in Handlers, Handler(x) PROVE Goal
  BY <1>1, <1>14, HandlerFrame
<1>15. ASSUME NEW q \in DOMAIN queues, Worker(q) PROVE Goal
  BY <1>1, <1>15 DEF Worker, BeginTransfer, EndTransfer, SpuriousWakeup, serverVars, chatVars
<1>16. CASE UNCHANGED vars
  BY <1>1, <1>16 DEF vars, serverVars, chatVars
<1>17. CASE Accept
  BY <1>5, <1>6, <1>7, <1>17 DEF Accept
<1>18. CASE Stop
  BY <1>9, <1>10, <1>11, <1>12, <1>13, <1>18 DEF Stop
<1> HIDE DEF Goal
<1> QED
  BY <1>4, <1>8, <1>14, <1>15, <1>16, <1>17, <1>18 DEF Next

\* The history and the sent messages.
LEMMA PushOK ==
  ASSUME Typed, NEW entries \in Seq(Messages), entries # <<>>, Push(entries)
  PROVE  /\ log' \in Seq(Messages) /\ message_history_' \in Seq(Messages)
         /\ Len(log') = Len(log) + Len(entries) /\ Len(message_history_') <= Len(log')
         /\ \A j \in 1..Len(log') :
              log'[j] = IF j <= Len(log) THEN log[j] ELSE entries[j - Len(log)]
         /\ (\A j \in DOMAIN message_history_ :
               message_history_[j] = log[Len(log) - Len(message_history_) + j])
            => \A j \in DOMAIN message_history_' :
                 message_history_'[j] = log'[Len(log') - Len(message_history_') + j]
<1> DEFINE longer == message_history_ \o entries
<1>1. /\ log \in Seq(Messages) /\ message_history_ \in Seq(Messages)
      /\ Len(log) \in Nat /\ Len(message_history_) \in Nat /\ Len(entries) \in Nat \ {0}
      /\ Len(message_history_) <= Len(log) /\ DOMAIN message_history_ = 1..Len(message_history_)
  BY LenProperties, EmptySeq DEF Typed, TypeOK
<1>2. /\ log' \in Seq(Messages) /\ Len(log') = Len(log) + Len(entries)
      /\ \A j \in 1..(Len(log) + Len(entries)) :
           log'[j] = IF j <= Len(log) THEN log[j] ELSE entries[j - Len(log)]
  BY <1>1, ConcatProperties DEF Push
<1>3. /\ longer \in Seq(Messages) /\ Len(longer) = Len(message_history_) + Len(entries)
      /\ \A j \in 1..(Len(message_history_) + Len(entries)) :
           longer[j] = IF j <= Len(message_history_) THEN message_history_[j]
                       ELSE entries[j - Len(message_history_)]
  BY <1>1, ConcatProperties
<1>4. message_history_' = IF Len(longer) > MAX_HISTORY_MESSAGES THEN Tail(longer) ELSE longer
  BY DEF Push
<1> HIDE DEF longer
<1>5. longer # <<>>
  BY <1>1, <1>3, EmptySeq
<1>6. /\ Tail(longer) \in Seq(Messages) /\ Len(Tail(longer)) = Len(longer) - 1
      /\ \A j \in 1..Len(Tail(longer)) : Tail(longer)[j] = longer[j + 1]
  BY <1>3, <1>5, HeadTailProperties
<1> DEFINE Segment == \A j \in DOMAIN message_history_ :
                        message_history_[j] = log[Len(log) - Len(message_history_) + j]
\* Both the log and the history with the entries added end in the same way.
<1>7. ASSUME Segment, NEW j \in 1..Len(longer)
      PROVE  longer[j] = log'[Len(log) - Len(message_history_) + j]
  <2>1. CASE j <= Len(message_history_)
    <3>1. longer[j] = message_history_[j] /\ j \in DOMAIN message_history_
      BY <1>1, <1>3, <1>7, <2>1
    <3>2. message_history_[j] = log[Len(log) - Len(message_history_) + j]
      BY <1>7, <3>1
    <3>3. /\ Len(log) - Len(message_history_) + j \in 1..(Len(log) + Len(entries))
          /\ Len(log) - Len(message_history_) + j <= Len(log)
      BY <1>1, <1>7, <2>1, <1>3
    <3> QED
      BY <1>2, <3>1, <3>2, <3>3
  <2>2. CASE j > Len(message_history_)
    <3>1. longer[j] = entries[j - Len(message_history_)]
      BY <1>1, <1>3, <1>7, <2>2
    <3> DEFINE k == Len(log) - Len(message_history_) + j
    <3>2. k \in 1..(Len(log) + Len(entries)) /\ ~(k <= Len(log)) /\ k - Len(log) = j - Len(message_history_)
      BY <1>1, <1>7, <2>2, <1>3
    <3> HIDE DEF k
    <3>3. log'[k] = entries[j - Len(message_history_)]
      BY <1>2, <3>2
    <3> QED
      BY <3>1, <3>3 DEF k
  <2> QED
    BY <1>1, <1>3, <2>1, <2>2
<1>8. CASE message_history_' = longer
  <2>1. DOMAIN message_history_' = 1..Len(longer) /\ Len(message_history_') = Len(longer)
    BY <1>3, <1>8, LenProperties
  <2>2. Len(log') - Len(message_history_') = Len(log) - Len(message_history_)
    BY <1>1, <1>2, <1>3, <2>1
  <2>3. Segment => \A j \in DOMAIN message_history_' :
                     message_history_'[j] = log'[Len(log') - Len(message_history_') + j]
    BY <1>7, <1>8, <2>1, <2>2
  <2>4. Len(message_history_') <= Len(log')
    BY <1>1, <1>2, <1>3, <2>1
  <2> QED
    BY <1>2, <1>3, <1>8, <2>3, <2>4
<1>9. CASE message_history_' = Tail(longer)
  <2>1. /\ DOMAIN message_history_' = 1..(Len(longer) - 1)
        /\ Len(message_history_') = Len(longer) - 1 /\ Len(longer) \in Nat
    BY <1>3, <1>6, <1>9, LenProperties
  <2>2. Len(log') - Len(message_history_') = Len(log) - Len(message_history_) + 1
    BY <1>1, <1>2, <1>3, <2>1
  <2>3. ASSUME Segment, NEW j \in DOMAIN message_history_'
        PROVE  message_history_'[j] = log'[Len(log') - Len(message_history_') + j]
    <3>1. message_history_'[j] = longer[j + 1] /\ j + 1 \in 1..Len(longer)
      BY <1>6, <1>9, <2>1, <2>3
    <3>2. longer[j + 1] = log'[Len(log) - Len(message_history_) + (j + 1)]
      BY <1>7, <2>3, <3>1
    <3>3. Len(log) - Len(message_history_) + (j + 1) = Len(log') - Len(message_history_') + j
      <4>1. j \in Nat /\ Len(log') \in Nat /\ Len(message_history_') \in Nat
        BY <1>1, <1>2, <1>3, <2>1, <2>3
      <4>2. /\ Len(log') = Len(log) + Len(entries)
            /\ Len(message_history_') = Len(message_history_) + Len(entries) - 1
        BY <1>2, <1>3, <2>1
      <4> QED
        BY <1>1, <4>1, <4>2
    <3> QED
      BY <3>1, <3>2, <3>3
  <2>4. Len(message_history_') <= Len(log')
    BY <1>1, <1>2, <1>3, <2>1
  <2> QED
    BY <1>2, <1>6, <1>9, <2>3, <2>4
<1> QED
  BY <1>4, <1>8, <1>9

LEMMA PushTextOK ==
  ASSUME Typed, NEW x \in Handlers, PushText(x)
  PROVE  <<h[x].msg>> \in Seq(Messages) /\ <<h[x].msg>> # <<>> /\ Push(<<h[x].msg>>)
         /\ Len(<<h[x].msg>>) = 1 /\ <<h[x].msg>>[1] = h[x].msg /\ h[x].msg \in Texts
<1>1. h[x].msg \in Texts
  BY TypedFacts DEF PushText, At, HandlerOK
<1> QED
  BY <1>1 DEF PushText, Messages

LEMMA ReceiveFileOK ==
  ASSUME Typed, NEW c \in Clients, ReceiveFile(c)
  PROVE  LET n == Received("file") + 1
             entries == <<FileLog(c, n), File(c, n)>>
         IN  /\ entries \in Seq(Messages) /\ entries # <<>> /\ Push(entries) /\ Len(entries) = 2
             /\ entries[1] = FileLog(c, n) /\ entries[2] = File(c, n)
             /\ FileLog(c, n) \in Logs /\ File(c, n) \in Files
<1>1. FileLog(c, Received("file") + 1) \in Logs /\ File(c, Received("file") + 1) \in Files
  BY BeginLocal
<1> QED
  BY <1>1 DEF ReceiveFile, Messages

\* The log grows by a push and never changes otherwise.
LEMMA HistoryFrame ==
  ASSUME Typed, [Next]_vars
  PROVE  \/ UNCHANGED <<message_history_, log>>
         \/ \E x \in Handlers : PushText(x)
         \/ \E c \in Clients : ReceiveFile(c)
<1>1. ASSUME NEW c \in Clients, Client(c), ~ReceiveFile(c) PROVE UNCHANGED <<message_history_, log>>
  BY <1>1 DEF Client, Connect, ReceiveText, ReceiveSendHistory, ReadError, historyVars
<1>2. CASE Accept
  BY <1>2 DEF Accept, AcceptTextConnection, AcceptFileConnection, StartReading, historyVars
<1>3. ASSUME NEW x \in Handlers, Handler(x), ~PushText(x) PROVE UNCHANGED <<message_history_, log>>
  <2>1. CASE Lookup(x) \/ Emplace(x) \/ Drop(x) \/ Join(x)
    BY <2>1 DEF Lookup, Emplace, Drop, Join, historyVars
  <2>2. CASE SendText(x) \/ CopyFileClients(x) \/ NextFileClient(x) \/ EnqueueFile(x)
    BY <2>2 DEF SendText, CopyFileClients, NextFileClient, EnqueueFile, historyVars
  <2>3. CASE CopyTextClients(x) \/ SendLog(x) \/ FindFileSocket(x) \/ FileSocketClosed(x)
    BY <2>3 DEF CopyTextClients, SendLog, FindFileSocket, FileSocketClosed, historyVars
  <2>4. CASE LockHistory(x) \/ Replay(x) \/ UnlockHistory(x) \/ SendEnd(x)
    BY <2>4 DEF LockHistory, Replay, UnlockHistory, SendEnd, historyVars
  <2> QED
    BY <1>3, <2>1, <2>2, <2>3, <2>4 DEF Handler
<1>4. ASSUME NEW q \in DOMAIN queues, Worker(q) PROVE UNCHANGED <<message_history_, log>>
  BY <1>4 DEF Worker, BeginTransfer, EndTransfer, SpuriousWakeup, historyVars
<1>5. CASE StopServer \/ UNCHANGED vars
  BY <1>5 DEF StopServer, vars, historyVars
<1>6. CASE Stop
  BY <1>6, StopQueuesOK
<1> QED
  BY <1>1, <1>2, <1>3, <1>4, <1>5, <1>6 DEF Next

\* What is left of TypeOK.
LEMMA HistoryOK ==
  ASSUME Typed, [Next]_vars
  PROVE  /\ message_history_' \in Seq(Messages) /\ log' \in Seq(Messages)
         /\ Len(message_history_') <= Len(log') /\ Len(log) <= Len(log') /\ Len(log') \in Nat
<1>1. CASE UNCHANGED <<message_history_, log>>
  BY <1>1, TypedFacts DEF Typed, TypeOK
<1>2. ASSUME NEW x \in Handlers, PushText(x)
      PROVE  /\ message_history_' \in Seq(Messages) /\ log' \in Seq(Messages)
             /\ Len(message_history_') <= Len(log') /\ Len(log') = Len(log) + 1
  BY <1>2, PushOK, PushTextOK
<1>3. ASSUME NEW c \in Clients, ReceiveFile(c)
      PROVE  /\ message_history_' \in Seq(Messages) /\ log' \in Seq(Messages)
             /\ Len(message_history_') <= Len(log') /\ Len(log') = Len(log) + 2
  BY <1>3, PushOK, ReceiveFileOK
<1> QED
  BY <1>1, <1>2, <1>3, HistoryFrame, TypedFacts

LEMMA JoinedOK ==
  ASSUME Typed, [Next]_vars
  PROVE  joined' \in [Clients -> 0..(Len(log') + 1)]
<1>0. /\ joined \in [Clients -> 0..(Len(log') + 1)]
      /\ Len(log) \in Nat /\ Len(log') \in Nat /\ Len(log) <= Len(log')
  <2>1. 0..(Len(log) + 1) \subseteq 0..(Len(log') + 1)
    BY HistoryOK, TypedFacts
  <2> QED
    BY <2>1, HistoryOK, TypedFacts DEF Typed, TypeOK
<1>1. CASE UNCHANGED joined
  BY <1>0, <1>1
<1>2. ASSUME NEW c \in Clients, AcceptFileConnection(c)
      PROVE  joined' \in [Clients -> 0..(Len(log') + 1)]
  BY <1>0, <1>2 DEF AcceptFileConnection
<1>3. ASSUME NEW c \in Clients, Client(c) PROVE UNCHANGED joined
  BY <1>3 DEF Client, Connect, ReceiveText, ReceiveFile, ReceiveSendHistory, ReadError, serverVars
<1>4. CASE Accept
  <2>1. ASSUME NEW c \in Clients, AcceptTextConnection(c) PROVE UNCHANGED joined
    BY <2>1 DEF AcceptTextConnection
  <2>2. StartReading => UNCHANGED joined
    BY DEF StartReading
  <2> QED
    BY <1>1, <1>2, <1>4, <2>1, <2>2 DEF Accept
<1>5. ASSUME NEW q \in DOMAIN queues, Worker(q) PROVE UNCHANGED joined
  BY <1>5 DEF Worker, BeginTransfer, EndTransfer, SpuriousWakeup, serverVars
<1>6. CASE StopServer \/ Stop \/ UNCHANGED vars
  BY <1>1, <1>6, StopQueuesOK DEF StopServer, vars, serverVars
<1> QED
  BY <1>1, <1>3, <1>4, <1>5, <1>6, HandlerFrame DEF Next

\* The texts in hand are noted when a text socket is listed.
LEMMA EarlyFrame ==
  ASSUME [Next]_vars
  PROVE  UNCHANGED early \/ \E c \in Clients : AcceptTextConnection(c)
<1>1. ASSUME NEW c \in Clients, Client(c) PROVE UNCHANGED early
  BY <1>1 DEF Client, Connect, ReceiveText, ReceiveFile, ReceiveSendHistory, ReadError, serverVars
<1>2. ASSUME NEW c \in Clients, AcceptFileConnection(c) PROVE UNCHANGED early
  BY <1>2 DEF AcceptFileConnection
<1>3. StartReading => UNCHANGED early
  BY DEF StartReading
<1>4. ASSUME NEW q \in DOMAIN queues, Worker(q) PROVE UNCHANGED early
  BY <1>4 DEF Worker, BeginTransfer, EndTransfer, SpuriousWakeup, serverVars
<1>5. CASE StopServer \/ Stop \/ UNCHANGED vars
  BY <1>5 DEF StopServer, Stop, CloseFileAcceptor, StopQueue, QueueJoined, ClearQueues, CloseTextClients,
              CloseFileClients, StopContext, vars, serverVars
<1> QED
  BY <1>1, <1>2, <1>3, <1>4, <1>5, HandlerFrame DEF Next, Accept

LEMMA EarlyOK == ASSUME Typed, [Next]_vars PROVE early' \in [Clients -> SUBSET Texts]
<1>0. early \in [Clients -> SUBSET Texts]
  BY DEF Typed, TypeOK
<1>1. ASSUME NEW c \in Clients, AcceptTextConnection(c) PROVE early' \in [Clients -> SUBSET Texts]
  BY <1>0, <1>1 DEF AcceptTextConnection
<1> QED
  BY <1>0, <1>1, EarlyFrame

Asked == /\ asked \subseteq Clients /\ left \subseteq {"text", "file"} \X Clients
         /\ found \subseteq asked /\ from \in [Clients -> 0..(Len(log) + 1)]

LEMMA AskedOK == ASSUME Typed, [Next]_vars PROVE Asked'
<1>0. /\ asked \subseteq Clients /\ left \subseteq {"text", "file"} \X Clients /\ found \subseteq asked
      /\ from \in [Clients -> 0..(Len(log') + 1)]
      /\ Len(log) \in Nat /\ Len(log') \in Nat /\ Len(log) <= Len(log')
  <2>1. 0..(Len(log) + 1) \subseteq 0..(Len(log') + 1)
    BY HistoryOK, TypedFacts
  <2> QED
    BY <2>1, HistoryOK, TypedFacts DEF Typed, TypeOK
<1>1. CASE UNCHANGED <<asked, left, found, from>>
  BY <1>0, <1>1 DEF Asked
<1>2. ASSUME NEW c \in Clients, Client(c) PROVE Asked'
  <2>1. CASE ReceiveSendHistory(c)
    <3>1. /\ left' \in {left, left \cup {<<"text", c>>}} /\ asked' = asked \cup {c}
          /\ UNCHANGED <<found, from>>
      BY <2>1 DEF ReceiveSendHistory, SeesEnd, historyVars
    <3> QED
      BY <1>0, <3>1 DEF Asked
  <2>2. ASSUME NEW kind \in {"text", "file"}, ReadError(kind, c) PROVE Asked'
    BY <1>0, <2>2 DEF ReadError, SeesEnd, historyVars, Asked
  <2>3. CASE Connect(c) \/ ReceiveText(c) \/ ReceiveFile(c)
    BY <1>1, <2>3 DEF Connect, ReceiveText, ReceiveFile, historyVars
  <2> QED
    BY <1>2, <2>1, <2>2, <2>3 DEF Client
<1>3. CASE Accept
  BY <1>1, <1>3 DEF Accept, AcceptTextConnection, AcceptFileConnection, StartReading, historyVars
<1>4. ASSUME NEW x \in Handlers, FindFileSocket(x) PROVE Asked'
  <2>1. h[x].pc = "find"
    BY <1>4 DEF FindFileSocket, At
  <2>2. UNCHANGED <<asked, left, from>> /\ found' \in {found, found \cup {x[2]}}
    BY <1>4 DEF FindFileSocket
  <2>3. x[1] = "text" /\ x[2] \in Clients
    BY <2>1, TypedFacts, HandlerNames DEF HandlerOK
  <2>4. x = Reader("text", x[2])
    BY <2>3, HandlerNames DEF Reader, Acceptor
  <2>5. x[2] \in asked
    BY <2>1, <2>3, <2>4 DEF Typed, AskedOnce
  <2> QED
    BY <1>0, <2>2, <2>5 DEF Asked
<1>5. ASSUME NEW x \in Handlers, LockHistory(x) PROVE Asked'
  <2>1. /\ from' = [from EXCEPT ![x[2]] = Len(log) - Len(message_history_) + 1]
        /\ UNCHANGED <<asked, left, found, log>>
    BY <1>5 DEF LockHistory
  <2>2. Len(log) - Len(message_history_) + 1 \in 0..(Len(log) + 1)
    BY TypedFacts DEF Typed
  <2> QED
    BY <1>0, <2>1, <2>2 DEF Asked
<1>6. ASSUME NEW x \in Handlers, Handler(x), ~FindFileSocket(x), ~LockHistory(x)
      PROVE  UNCHANGED <<asked, left, found, from>>
  <2>1. CASE Lookup(x) \/ Emplace(x) \/ Drop(x) \/ Join(x)
    BY <2>1 DEF Lookup, Emplace, Drop, Join, historyVars
  <2>2. CASE PushText(x) \/ SendText(x) \/ CopyFileClients(x) \/ NextFileClient(x) \/ EnqueueFile(x)
    BY <2>2 DEF PushText, SendText, CopyFileClients, NextFileClient, EnqueueFile, historyVars
  <2>3. CASE CopyTextClients(x) \/ SendLog(x) \/ FileSocketClosed(x)
    BY <2>3 DEF CopyTextClients, SendLog, FileSocketClosed, historyVars
  <2>4. CASE Replay(x) \/ UnlockHistory(x) \/ SendEnd(x)
    BY <2>4 DEF Replay, UnlockHistory, SendEnd, historyVars
  <2> QED
    BY <1>6, <2>1, <2>2, <2>3, <2>4 DEF Handler
<1>7. ASSUME NEW q \in DOMAIN queues, Worker(q) PROVE UNCHANGED <<asked, left, found, from>>
  BY <1>7 DEF Worker, BeginTransfer, EndTransfer, SpuriousWakeup, historyVars
<1>8. CASE StopServer \/ Stop \/ UNCHANGED vars
  BY <1>1, <1>8, StopQueuesOK DEF StopServer, vars, historyVars
<1> QED
  BY <1>1, <1>2, <1>3, <1>4, <1>5, <1>6, <1>7, <1>8 DEF Next

\* No handler returns to "find", or begins, by itself.
LEMMA NoneBegins ==
  ASSUME Typed, NEW x \in Handlers, Handler(x)
  PROVE  h'[x].pc \notin {"find", "push", "clients"}
<1>0. h \in [Handlers -> Local(Len(queues))] /\ h[x] \in Local(Len(queues))
  BY TypedFacts DEF Typed, TypeOK, Local
<1>1. CASE Lookup(x) \/ Emplace(x) \/ Drop(x) \/ Join(x)
  <2>1. Caller(x) \in {"drop", "enqueue", "lock"}
    BY HandlerNames DEF Caller
  <2>2. CASE Lookup(x) \/ Emplace(x)
    BY <1>0, <2>1, <2>2 DEF Lookup, FindOrBuild, Emplace, Goto, Local
  <2>3. ASSUME Released(x) PROVE h'[x].pc \in {"read", "next", "idle"}
    <3>1. CASE x[1] = "accept"
      <4>1. h' = [h EXCEPT ![x] = [@ EXCEPT !.pc = "read", !.q = 0]]
        BY <2>3, <3>1 DEF Released
      <4> QED
        BY <1>0, <4>1 DEF Local
    <3>2. CASE x[1] = "file"
      <4>1. h' = [h EXCEPT ![x] = [@ EXCEPT !.pc = "next", !.q = 0, !.sock = NoMsg]]
        BY <2>3, <3>2 DEF Released
      <4> QED
        BY <1>0, <4>1 DEF Local
    <3>3. CASE x[1] = "text"
      <4>1. h' = [h EXCEPT ![x] = Idle]
        BY <2>3, <3>3 DEF Released
      <4> QED
        BY <1>0, <4>1 DEF Idle
    <3> QED
      BY <3>1, <3>2, <3>3, HandlerNames
  <2>4. CASE Drop(x) \/ Join(x)
    BY <1>0, <2>3, <2>4 DEF Drop, Join, Goto, Local
  <2> QED
    BY <1>1, <2>2, <2>4
<1>2. CASE PushText(x) \/ CopyFileClients(x) \/ NextFileClient(x) \/ EnqueueFile(x)
  BY <1>0, <1>2 DEF PushText, CopyFileClients, NextFileClient, EnqueueFile, At, Goto, Local
<1>3. CASE SendText(x) \/ SendLog(x)
  <2>1. h[x].pc \in {"send", "sendlog"} /\ h' = Advance(x)
    BY <1>3 DEF SendText, SendLog, At
  <2>2. CASE Len(h[x].todo) = 1
    BY <1>0, <2>1, <2>2 DEF Advance, Idle
  <2>3. CASE Len(h[x].todo) # 1
    <3>1. h' = [h EXCEPT ![x].todo = Tail(@)]
      BY <2>1, <2>3 DEF Advance
    <3>2. h'[x].pc = h[x].pc
      BY <1>0, <3>1 DEF Local
    <3> QED
      BY <2>1, <3>2
  <2> QED
    BY <2>2, <2>3
<1>4. CASE CopyTextClients(x)
  BY <1>0, <1>4 DEF CopyTextClients, Local, Idle
<1>5. CASE FindFileSocket(x) \/ FileSocketClosed(x) \/ LockHistory(x)
  BY <1>0, <1>5 DEF FindFileSocket, FileSocketClosed, LockHistory, Goto, Local
<1>6. CASE Replay(x) \/ UnlockHistory(x) \/ SendEnd(x)
  BY <1>0, <1>6 DEF Replay, UnlockHistory, SendEnd, At, Goto, Local
<1> QED
  BY <1>1, <1>2, <1>3, <1>4, <1>5, <1>6 DEF Handler

\* Each step is one of a handler, and changes its local variables only, or of no handler.
LEMMA HandlerLocal == ASSUME Typed, NEW x \in Handlers, Handler(x) PROVE QueuesOK /\ LocalChange(x)
  BY LookupLocal, BroadcastLocal, HistoryLocal DEF Handler

LEMMA AskedOnceStep == ASSUME Typed, [Next]_vars PROVE AskedOnce'
<1>0. h \in [Handlers -> Local(Len(queues))] /\ AskedOnce /\ found \subseteq asked
  BY DEF Typed, TypeOK, Local
<1>a. ASSUME UNCHANGED <<asked, found>>, NEW x \in Handlers, h' = [h EXCEPT ![x] = h'[x]],
             h'[x].pc # "find" \/ h[x].pc = "find"
      PROVE  AskedOnce'
  BY <1>0, <1>a, ReaderNames DEF AskedOnce
<1>b. CASE UNCHANGED <<h, asked, found>>
  BY <1>0, <1>b DEF AskedOnce
<1>1. ASSUME NEW c \in Clients, Client(c) PROVE AskedOnce'
  <2>1. CASE ReceiveSendHistory(c)
    <3>1. /\ c \notin asked /\ asked' = asked \cup {c} /\ UNCHANGED found
          /\ h' = [h EXCEPT ![Reader("text", c)].pc = "find"] \/ h' = h
      BY <2>1 DEF ReceiveSendHistory, historyVars
    <3>2. \A d \in Clients : d # c => Reader("text", d) # Reader("text", c)
      BY DEF Reader
    <3> QED
      BY <1>0, <3>1, <3>2, ReaderNames DEF AskedOnce
  <2>2. CASE ReceiveText(c) \/ ReceiveFile(c)
    <3>1. \E kind \in {"text", "file"} :
            /\ h' = [h EXCEPT ![Reader(kind, c)] = h'[Reader(kind, c)]]
            /\ h'[Reader(kind, c)].pc # "find"
      <4>1. CASE ReceiveText(c)
        <5>1. h' = [h EXCEPT ![Reader("text", c)] = h'[Reader("text", c)]]
          BY <4>1, BeginLocal DEF LocalChange
        <5>2. h'[Reader("text", c)].pc = "push"
          BY <1>0, <4>1, ReaderNames DEF ReceiveText, Local
        <5> QED
          BY <5>1, <5>2
      <4>2. CASE ReceiveFile(c)
        <5>1. h' = [h EXCEPT ![Reader("file", c)] = h'[Reader("file", c)]]
          BY <4>2, BeginLocal DEF LocalChange
        <5>2. h'[Reader("file", c)].pc = "clients"
          BY <1>0, <4>2, ReaderNames DEF ReceiveFile, Local
        <5> QED
          BY <5>1, <5>2
      <4> QED
        BY <2>2, <4>1, <4>2
    <3>2. UNCHANGED <<asked, found>>
      BY <2>2 DEF ReceiveText, ReceiveFile, historyVars
    <3> QED
      BY <1>a, <3>1, <3>2, ReaderNames
  <2>3. CASE Connect(c) \/ (\E kind \in {"text", "file"} : ReadError(kind, c))
    BY <1>b, <2>3 DEF Connect, ReadError, historyVars
  <2> QED
    BY <1>1, <2>1, <2>2, <2>3 DEF Client
<1>2. CASE Accept
  <2>1. ASSUME NEW c \in Clients, AcceptTextConnection(c) PROVE AskedOnce'
    BY <1>b, <2>1 DEF AcceptTextConnection, historyVars
  <2>2. ASSUME NEW c \in Clients, AcceptFileConnection(c) PROVE AskedOnce'
    <3>0. Acceptor \in Handlers
      BY DEF Handlers
    <3>1. h'[Acceptor].pc # "find" /\ h' = [h EXCEPT ![Acceptor] = h'[Acceptor]]
      <4>1. h' = [h EXCEPT ![Acceptor] = [h[Acceptor] EXCEPT !.pc = "lookup", !.sock = c]]
        BY <2>2 DEF AcceptFileConnection
      <4>2. h'[Acceptor] = [h[Acceptor] EXCEPT !.pc = "lookup", !.sock = c]
        BY <1>0, <3>0, <4>1
      <4>3. h[Acceptor] \in Local(Len(queues))
        BY <1>0, <3>0
      <4>4. h'[Acceptor].pc = "lookup"
        BY <4>2, <4>3 DEF Local
      <4> QED
        BY <4>1, <4>2, <4>4
    <3> QED
      BY <1>a, <2>2, <3>0, <3>1 DEF AcceptFileConnection, historyVars
  <2>3. CASE StartReading
    <3>1. Acceptor \in Handlers
      BY DEF Handlers
    <3>2. h'[Acceptor].pc # "find" /\ h' = [h EXCEPT ![Acceptor] = h'[Acceptor]]
      BY <1>0, <2>3, <3>1 DEF StartReading, Idle
    <3> QED
      BY <1>a, <2>3, <3>1, <3>2 DEF StartReading, historyVars
  <2> QED
    BY <1>2, <2>1, <2>2, <2>3 DEF Accept
<1>3. ASSUME NEW x \in Handlers, Handler(x) PROVE AskedOnce'
  <2>0. h' = [h EXCEPT ![x] = h'[x]] /\ h'[x].pc # "find" /\ UNCHANGED asked
    BY <1>3, NoneBegins, HandlerLocal, HandlerFrame DEF LocalChange
  <2>1. CASE FindFileSocket(x)
    <3>1. x = Reader("text", x[2]) /\ x[2] \in Clients
      <4>1. x[1] = "text" /\ x[2] \in Clients
        BY <2>1, TypedFacts, HandlerNames DEF HandlerOK, FindFileSocket, At
      <4> QED
        BY <4>1, HandlerNames DEF Reader, Acceptor
    <3>2. found' \subseteq found \cup {x[2]}
      BY <2>1 DEF FindFileSocket
    <3>3. ASSUME NEW c \in Clients, h'[Reader("text", c)].pc = "find"
          PROVE  c \in asked' /\ c \notin found'
      <4>1. c # x[2] /\ h[Reader("text", c)].pc = "find"
        BY <1>0, <2>0, <3>1, <3>3, ReaderNames
      <4> QED
        BY <1>0, <2>0, <3>2, <4>1 DEF AskedOnce
    <3> QED
      BY <3>3 DEF AskedOnce
  <2>2. CASE ~FindFileSocket(x)
    <3>1. UNCHANGED found
      <4>1. CASE Lookup(x) \/ Emplace(x) \/ Drop(x) \/ Join(x)
        BY <4>1 DEF Lookup, Emplace, Drop, Join, historyVars
      <4>2. CASE \/ PushText(x) \/ SendText(x) \/ CopyFileClients(x) \/ NextFileClient(x)
                 \/ EnqueueFile(x)
        BY <4>2 DEF PushText, SendText, CopyFileClients, NextFileClient, EnqueueFile, historyVars
      <4>3. CASE CopyTextClients(x) \/ SendLog(x) \/ FileSocketClosed(x) \/ LockHistory(x)
        BY <4>3 DEF CopyTextClients, SendLog, FileSocketClosed, LockHistory, historyVars
      <4>4. CASE Replay(x) \/ UnlockHistory(x) \/ SendEnd(x)
        BY <4>4 DEF Replay, UnlockHistory, SendEnd, historyVars
      <4> QED
        BY <1>3, <2>2, <4>1, <4>2, <4>3, <4>4 DEF Handler
    <3> QED
      BY <1>a, <2>0, <3>1
  <2> QED
    BY <2>1, <2>2
<1>4. ASSUME NEW q \in DOMAIN queues, Worker(q) PROVE AskedOnce'
  BY <1>b, <1>4 DEF Worker, BeginTransfer, EndTransfer, SpuriousWakeup, historyVars
<1>5. CASE StopServer \/ Stop \/ UNCHANGED vars
  BY <1>b, <1>5, StopQueuesOK DEF StopServer, vars, historyVars
<1> QED
  BY <1>1, <1>2, <1>3, <1>4, <1>5 DEF Next

\* What was sent, handed over and written; and the registry.
SentOK ==
  /\ file_queues_ \in [Clients -> 0..Len(queues)]
  /\ texts \in [Clients -> SUBSET (Texts \cup Logs \cup {Begin, End})]
  /\ handed \in [Clients -> SUBSET Files]
  /\ files \in [Clients -> SUBSET Files]

LEMMA SendTyped ==
  ASSUME Typed, NEW c, NEW m \in Texts \cup Logs \cup {Begin, End}, Send(c, m)
  PROVE  texts' \in [Clients -> SUBSET (Texts \cup Logs \cup {Begin, End})]
  BY DEF Send, Typed, TypeOK

LEMMA SentStep == ASSUME Typed, [Next]_vars PROVE SentOK'
<1>0. /\ file_queues_ \in [Clients -> 0..Len(queues')]
      /\ texts \in [Clients -> SUBSET (Texts \cup Logs \cup {Begin, End})]
      /\ handed \in [Clients -> SUBSET Files]
      /\ files \in [Clients -> SUBSET Files]
      /\ Len(queues) \in Nat /\ Len(queues') \in Nat /\ 0 \in 0..Len(queues')
      /\ 0..Len(queues) \subseteq 0..Len(queues') /\ QueuesOK
  <2>1. QueuesOK /\ 0..Len(queues) \subseteq 0..Len(queues') /\ Len(queues') \in Nat
    BY QueuesAndHandlers, TypedFacts DEF QueuesOK
  <2> QED
    BY <2>1, TypedFacts DEF Typed, TypeOK
<1>a. CASE UNCHANGED <<file_queues_, texts, handed, files>>
  BY <1>0, <1>a DEF SentOK
<1>b. ASSUME NEW c, NEW m \in Texts \cup Logs \cup {Begin, End}, Send(c, m),
             UNCHANGED <<file_queues_, handed, files>>
      PROVE  SentOK'
  BY <1>0, <1>b, SendTyped DEF SentOK
<1>1. ASSUME NEW c \in Clients, Client(c) PROVE SentOK'
  <2>1. CASE ReceiveSendHistory(c)
    BY <1>a, <1>b, <2>1 DEF ReceiveSendHistory, queueVars
  <2>2. CASE Connect(c) \/ ReceiveText(c) \/ ReceiveFile(c) \/ (\E kind \in {"text", "file"} : ReadError(kind, c))
    BY <1>a, <2>2 DEF Connect, ReceiveText, ReceiveFile, ReadError, queueVars
  <2> QED
    BY <1>1, <2>1, <2>2 DEF Client
<1>2. CASE Accept
  BY <1>a, <1>2 DEF Accept, AcceptTextConnection, AcceptFileConnection, StartReading, queueVars
<1>3. ASSUME NEW x \in Handlers, Handler(x) PROVE SentOK'
  <2>0. h[x] \in Local(Len(queues)) /\ HandlerOK(x, h[x])
        /\ (h[x].todo # <<>> => NextClient(x) \in Clients)
        /\ (x[1] \in {"text", "file"} => x[2] \in Clients)
    BY TypedFacts, HandlerNames DEF NextClient
  <2>1. CASE Lookup(x) \/ Drop(x) \/ Join(x)
    BY <1>a, <2>1 DEF Lookup, Drop, Join, queueVars
  <2>2. CASE Emplace(x)
    <3>1. h[x].q \in 0..Len(queues') /\ h[x].sock \in Clients
      BY <1>0, <2>0, <2>2 DEF Emplace, At, HandlerOK, Local
    <3>2. file_queues_' \in [Clients -> 0..Len(queues')]
      BY <1>0, <2>2, <3>1 DEF Emplace, Emplaced
    <3> QED
      BY <1>0, <2>2, <3>2 DEF Emplace, SentOK
  <2>3. CASE PushText(x) \/ CopyFileClients(x) \/ NextFileClient(x) \/ CopyTextClients(x)
    BY <1>a, <2>3 DEF PushText, CopyFileClients, NextFileClient, CopyTextClients, queueVars
  <2>4. CASE SendText(x)
    <3>1. h[x].msg \in Texts
      BY <2>0, <2>4 DEF SendText, At, HandlerOK
    <3> QED
      BY <1>a, <1>b, <2>4, <3>1 DEF SendText, queueVars
  <2>5. CASE EnqueueFile(x)
    <3>1. h[x].q \in DOMAIN queues /\ h[x].sock \in Clients /\ h[x].msg \in Files
      BY <2>0, <2>5, TypedFacts DEF EnqueueFile, At, HandlerOK, Local
    <3>2. handed' \in [Clients -> SUBSET Files]
      BY <2>5, <3>1, EnqueueOK DEF EnqueueFile
    <3> QED
      BY <1>0, <2>5, <3>2 DEF EnqueueFile, SentOK
  <2>6. CASE SendLog(x)
    <3>1. FileLog(h[x].msg.by, h[x].msg.n) \in Logs
      BY <2>0, <2>6, Kinds DEF SendLog, At, HandlerOK
    <3> QED
      BY <1>b, <2>6, <3>1 DEF SendLog, queueVars
  <2>7. CASE FindFileSocket(x) \/ FileSocketClosed(x) \/ LockHistory(x) \/ UnlockHistory(x)
    BY <1>a, <2>7 DEF FindFileSocket, FileSocketClosed, LockHistory, UnlockHistory, queueVars
  <2>8. CASE Replay(x)
    <3> DEFINE m == message_history_[h[x].i]
    <3>0. x[2] \in Clients /\ m \in Messages
      <4>1. h[x].i \in 1..Len(message_history_)
        BY <2>0, <2>8, TypedFacts DEF Replay, At, Local, HandlerOK
      <4> QED
        BY <2>0, <2>8, <4>1, ElementOfSeq DEF Replay, At, HandlerOK, Typed, TypeOK
    <3>1. CASE m.kind # "file"
      <4>1. m \in Texts \cup Logs
        BY <3>0, <3>1, Kinds DEF Messages
      <4> QED
        BY <1>b, <2>8, <3>1, <4>1 DEF Replay
    <3>2. CASE m.kind = "file" /\ h[x].q # 0
      <4>1. m \in Files /\ h[x].q \in DOMAIN queues
        BY <2>0, <3>0, <3>2, Kinds, TypedFacts DEF Messages, Local
      <4>2. Enqueue(x[2], h[x].q, m) /\ UNCHANGED texts
        BY <2>8, <3>2 DEF Replay
      <4>3. handed' \in [Clients -> SUBSET Files]
        BY <3>0, <4>1, <4>2, EnqueueOK
      <4> QED
        BY <1>0, <2>8, <4>2, <4>3 DEF Replay, SentOK
    <3>3. CASE m.kind = "file" /\ h[x].q = 0
      BY <1>a, <2>8, <3>3 DEF Replay
    <3> QED
      BY <3>1, <3>2, <3>3
  <2>9. CASE SendEnd(x)
    BY <1>b, <2>9 DEF SendEnd, queueVars
  <2> QED
    BY <1>3, <2>1, <2>2, <2>3, <2>4, <2>5, <2>6, <2>7, <2>8, <2>9 DEF Handler
<1>4. ASSUME NEW q \in DOMAIN queues, Worker(q) PROVE SentOK'
  <2>1. CASE BeginTransfer(q)
    BY <1>a, <2>1 DEF BeginTransfer
  <2>2. CASE EndTransfer(q)
    <3>1. queues[q].active \in Files /\ queues[q].sock \in Clients
      BY <2>2, TypedFacts DEF EndTransfer, QueueType
    <3>2. files' \in [Clients -> SUBSET Files]
      BY <1>0, <2>2, <3>1 DEF EndTransfer
    <3> QED
      BY <1>0, <2>2, <3>2 DEF EndTransfer, SentOK
  <2>3. CASE SpuriousWakeup(q)
    BY <1>a, <2>3 DEF SpuriousWakeup
  <2> QED
    BY <1>4, <2>1, <2>2, <2>3 DEF Worker
<1>5. CASE StopServer \/ UNCHANGED vars
  BY <1>a, <1>5 DEF StopServer, vars, queueVars
<1>6. CASE Stop
  <2>1. UNCHANGED <<texts, handed, files>>
    BY <1>6, StopQueuesOK
  <2>2. file_queues_' = file_queues_ \/ file_queues_' = [c \in Clients |-> 0]
    BY <1>6 DEF Stop, CloseFileAcceptor, StopQueue, QueueJoined, ClearQueues, CloseTextClients,
                CloseFileClients, StopContext, queueVars
  <2> QED
    BY <1>0, <2>1, <2>2 DEF SentOK
<1> QED
  BY <1>1, <1>2, <1>3, <1>4, <1>5, <1>6 DEF Next

LEMMA TypedStep == ASSUME Typed, [Next]_vars PROVE Typed'
<1>1. QueuesOK /\ HandlersOK
  BY QueuesAndHandlers
<1>2. TypeOK'
  BY <1>1, ConnOK, JoinedOK, EarlyOK, HistoryOK, AskedOK, SentStep
  DEF TypeOK, QueuesOK, HandlersOK, Asked, SentOK, QueueType, Local
<1> QED
  BY <1>1, <1>2, ConnOK, HistoryOK, AskedOnceStep DEF Typed, HandlersOK

\* The clients with a socket of one kind, each once.
LEMMA CameOnce ==
  ASSUME NEW kind, NEW order \in Came(kind)
  PROVE  /\ order \in Seq(Clients) /\ DOMAIN order = 1..Len(order) /\ Len(order) \in Nat
         /\ \A i, j \in DOMAIN order : order[i] = order[j] => i = j
         /\ Elements(order) = {c \in Present : <<kind, c>> \in Sockets}
<1> DEFINE S == {c \in Present : <<kind, c>> \in Sockets}
           n == Cardinality(S)
<1>1. IsFiniteSet(S) /\ n \in Nat /\ S \subseteq Clients
  BY ConstantsAssumption, FS_Subset, FS_CardinalityType
<1>2. order \in [1..n -> S] /\ \A i, j \in DOMAIN order : order[i] = order[j] => i = j
  BY DEF Came
<1> HIDE DEF n, S
<1>3. order \in Seq(Clients)
  BY <1>1, <1>2, SeqDef
<1>4. order \in Injection(1..n, S)
  BY <1>2 DEF Injection, IsInjective
<1>5. IsFiniteSet(1..n) /\ Cardinality(1..n) = n
  BY <1>1, FS_Interval
<1>6. order \in Surjection(1..n, S)
  BY <1>1, <1>4, <1>5, FS_Injection DEF n
<1>7. Elements(order) = S
  BY <1>2, <1>6 DEF Surjection, Elements
<1> QED
  BY <1>2, <1>3, <1>7, LenProperties DEF S

LEMMA InitTyped == Init => Typed
<1> SUFFICES ASSUME Init PROVE Typed
  OBVIOUS
<1>1. /\ text_port_clients_ \in Seq(Clients)
      /\ Elements(text_port_clients_) = {c \in Present : <<"text", c>> \in Sockets}
  BY CameOnce DEF Init
<1>2. file_port_clients_ \in Seq(Clients) /\ DOMAIN file_port_clients_ = 1..Len(file_port_clients_)
      /\ Len(file_port_clients_) \in Nat
  BY CameOnce DEF Init
<1>3. \A c \in Clients : NewQueue(c) \in QueueType
  BY EmptySeq DEF NewQueue, QueueType
<1>4. queues \in Seq(QueueType) /\ DOMAIN queues = DOMAIN file_port_clients_
  <2>1. queues \in [1..Len(file_port_clients_) -> QueueType]
    BY <1>2, <1>3, ElementOfSeq DEF Init
  <2> QED
    BY <1>2, <2>1, SeqDef
<1>5. DOMAIN queues = 1..Len(queues) /\ Len(queues) \in Nat /\ 0 \in 0..Len(queues)
  BY <1>4, LenProperties
<1>6. file_queues_ \in [Clients -> 0..Len(queues)]
  <2>1. \A c \in Elements(file_port_clients_) :
          (CHOOSE q \in DOMAIN queues : file_port_clients_[q] = c) \in DOMAIN queues
    BY <1>4 DEF Elements
  <2>2. DOMAIN queues \subseteq 0..Len(queues)
    BY <1>5
  <2> QED
    BY <1>5, <2>1, <2>2 DEF Init
<1>7. \A x \in Handlers : h[x] = Idle
  BY DEF Init
<1>8. h \in [Handlers -> Local(Len(queues))] /\ \A x \in Handlers : HandlerOK(x, h[x])
  BY <1>5, <1>7, IdleLocal DEF Init
<1>9. message_history_ \in Seq(Messages) /\ log \in Seq(Messages) /\ Len(message_history_) = 0 /\ Len(log) = 0
  BY EmptySeq DEF Init
<1>10. conn \in [{"text", "file"} \X Clients ->
                 {"none", "backlog", "accepted", "listed", "reading", "closed"}]
  BY DEF Init
<1>11. ReadersListed
  BY <1>1 DEF Init, ReadersListed
<1>12. AskedOnce
  BY <1>7, ReaderNames DEF AskedOnce, Idle
<1>13. joined \in [Clients -> 0..(Len(log) + 1)] /\ from \in [Clients -> 0..(Len(log) + 1)]
  BY <1>9 DEF Init
<1>14. TypeOK
  BY <1>1, <1>2, <1>4, <1>5, <1>6, <1>8, <1>9, <1>10, <1>13
  DEF Init, TypeOK, QueueType, Local
<1> QED
  BY <1>8, <1>9, <1>11, <1>12, <1>14 DEF Typed

\* Every variable of the server keeps its type, for any clients and bounds: no handler is
\* ever at a step without the message, the socket, the queue or the list it works on
\* (ServerManager.cpp, AcceptConnection, Broadcast, the SendHistory handler, StopServer).
THEOREM ServerTyping == Spec => []TypeOK
<1>1. Spec => []Typed
  BY InitTyped, TypedStep, PTL DEF Spec
<1>2. Typed => TypeOK
  BY DEF Typed
<1> QED
  BY <1>1, <1>2, PTL

-----------------------------------------------------------------------------
(* The registry of queues.                                                 *)

LEMMA Variables ==
  ASSUME Typed
  PROVE  /\ h \in [Handlers -> Local(Len(queues))]
         /\ DOMAIN queues = 1..Len(queues) /\ Len(queues) \in Nat
         /\ \A q \in DOMAIN queues : queues[q] \in QueueType
         /\ file_queues_ \in [Clients -> 0..Len(queues)]
         /\ text_port_clients_ \in Seq(Clients) /\ file_port_clients_ \in Seq(Clients)
         /\ conn \in [{"text", "file"} \X Clients ->
                      {"none", "backlog", "accepted", "listed", "reading", "closed"}]
         /\ joined \in [Clients -> 0..(Len(log) + 1)] /\ from \in [Clients -> 0..(Len(log) + 1)]
         /\ log \in Seq(Messages) /\ message_history_ \in Seq(Messages)
         /\ Len(log) \in Nat /\ Len(message_history_) \in Nat /\ Len(message_history_) <= Len(log)
         /\ DOMAIN log = 1..Len(log) /\ DOMAIN message_history_ = 1..Len(message_history_)
         /\ handed \in [Clients -> SUBSET Files] /\ found \subseteq asked /\ asked \subseteq Clients
<1>1. TypeOK /\ Len(message_history_) <= Len(log)
  BY DEF Typed
<1>2. /\ h \in [Handlers -> Local(Len(queues))] /\ file_queues_ \in [Clients -> 0..Len(queues)]
      /\ text_port_clients_ \in Seq(Clients) /\ file_port_clients_ \in Seq(Clients)
      /\ conn \in [{"text", "file"} \X Clients ->
                   {"none", "backlog", "accepted", "listed", "reading", "closed"}]
  BY <1>1 DEF TypeOK, Local
<1>3. /\ joined \in [Clients -> 0..(Len(log) + 1)] /\ from \in [Clients -> 0..(Len(log) + 1)]
      /\ log \in Seq(Messages) /\ message_history_ \in Seq(Messages)
      /\ handed \in [Clients -> SUBSET Files] /\ found \subseteq asked /\ asked \subseteq Clients
  BY <1>1 DEF TypeOK
<1> QED
  BY <1>1, <1>2, <1>3, TypedFacts, LenProperties

\* Between its two critical sections a handler alone knows the queue it has built.
BuiltAlone ==
  \A x \in Handlers : h[x].pc = "emplace" =>
    /\ queues[h[x].q].running /\ ~Registered(h[x].q)
    /\ \A y \in Handlers : y # x => h[y].q # h[x].q

QueueInv == QueueOwnership /\ BuiltAlone

\* No queue is built, registered, stopped or shut in, and one handler may let go of a queue
\* that is registered or stopped.
LEMMA QueueInvKept ==
  ASSUME Typed, QueueInv, NEW x \in Handlers, h' = [h EXCEPT ![x] = h'[x]],
         DOMAIN queues' = DOMAIN queues,
         \A q \in DOMAIN queues : queues'[q].running <=> queues[q].running,
         UNCHANGED file_queues_, QueuesFree' => QueuesFree, h'[x].pc # "emplace",
         \/ h'[x].q = h[x].q
         \/ h'[x].q = 0 /\ h[x].q # 0 /\ (Registered(h[x].q) \/ ~queues[h[x].q].running)
         \/ h[x].q = 0 /\ \E c \in Clients : h'[x].q = file_queues_[c]
  PROVE  QueueInv'
<1>0. h \in [Handlers -> Local(Len(queues))] /\ DOMAIN queues = 1..Len(queues)
      /\ file_queues_ \in [Clients -> 0..Len(queues)]
      /\ \A y \in Handlers : h[y].pc = "emplace" => h[y].q # 0 /\ h[y].q \in DOMAIN queues
  <2>1. \A y \in Handlers : h[y].pc = "emplace" => h[y].q # 0 /\ h[y].q \in 0..Len(queues)
    BY TypedFacts DEF HandlerOK, Local
  <2> QED
    BY <2>1, Variables
<1>1. \A y \in Handlers : y # x => h'[y] = h[y]
  BY <1>0
<1>2. \A q : Registered(q)' <=> Registered(q)
  BY DEF Registered
<1>3. ASSUME NEW q \in DOMAIN queues', queues'[q].running
      PROVE  Registered(q)' \/ \E y \in Handlers : h'[y].q = q
  <2>1. queues[q].running /\ q \in DOMAIN queues
    BY <1>3
  <2>2. CASE Registered(q)
    BY <1>2, <2>2
  <2>3. ASSUME NEW y \in Handlers, h[y].q = q, ~Registered(q) PROVE \E z \in Handlers : h'[z].q = q
    <3>1. h'[y].q = q
      <4>1. CASE y = x
        BY <1>0, <2>1, <2>3, <4>1
      <4>2. CASE y # x
        BY <1>1, <2>3, <4>2
      <4> QED
        BY <4>1, <4>2
    <3> QED
      BY <3>1
  <2> QED
    BY <2>1, <2>2, <2>3 DEF QueueInv, QueueOwnership
<1>4. QueuesFree' => \A c \in Clients : file_queues_'[c] # 0 => queues'[file_queues_'[c]].running
  BY <1>0 DEF QueueInv, QueueOwnership
<1>5. ASSUME NEW y \in Handlers, h'[y].pc = "emplace"
      PROVE  /\ queues'[h'[y].q].running /\ ~Registered(h[y].q)'
             /\ \A z \in Handlers : z # y => h'[z].q # h'[y].q
  <2>1. y # x /\ h'[y] = h[y] /\ h[y].pc = "emplace"
    BY <1>1, <1>5
  <2>2. /\ queues[h[y].q].running /\ ~Registered(h[y].q) /\ h[y].q # 0 /\ h[y].q \in DOMAIN queues
        /\ \A z \in Handlers : z # y => h[z].q # h[y].q
    BY <1>0, <2>1 DEF QueueInv, BuiltAlone
  <2>3. \A z \in Handlers : z # y => h'[z].q # h[y].q
    <3>1. h'[x].q # h[y].q
      BY <2>1, <2>2 DEF Registered
    <3> QED
      BY <1>1, <2>2, <3>1
  <2> QED
    BY <1>2, <2>1, <2>2, <2>3
<1> QED
  BY <1>3, <1>4, <1>5 DEF QueueInv, QueueOwnership, BuiltAlone

LEMMA QueueInvSame ==
  ASSUME Typed, QueueInv, UNCHANGED <<h, file_queues_>>, QueuesFree' => QueuesFree,
         DOMAIN queues' = DOMAIN queues,
         \A q \in DOMAIN queues : queues'[q].running <=> queues[q].running
  PROVE  QueueInv'
<1>1. h[Acceptor].pc # "emplace" \/ h[Acceptor].pc = "emplace"
  OBVIOUS
<1>2. \A q : Registered(q)' <=> Registered(q)
  BY DEF Registered
<1>3. \A y \in Handlers : h[y].pc = "emplace" => h[y].q \in DOMAIN queues
  <2>1. \A y \in Handlers : h[y].pc = "emplace" => h[y].q # 0 /\ h[y].q \in 0..Len(queues)
    BY TypedFacts DEF HandlerOK, Local
  <2> QED
    BY <2>1, TypedFacts
<1>4. file_queues_ \in [Clients -> 0..Len(queues)] /\ DOMAIN queues = 1..Len(queues) /\ Len(queues) \in Nat
  BY Variables
<1>5. BuiltAlone'
  BY <1>2, <1>3 DEF QueueInv, BuiltAlone
<1>6. QueueOwnership'
  BY <1>2, <1>4 DEF QueueInv, QueueOwnership
<1> QED
  BY <1>5, <1>6 DEF QueueInv

\* A handler's step that neither looks up a queue nor lets go of one.
LEMMA HoldsQueue ==
  ASSUME Typed, NEW x \in Handlers, Handler(x),
         ~Lookup(x), ~Emplace(x), ~Drop(x), ~Join(x)
  PROVE  /\ h'[x].q = h[x].q /\ h'[x].pc # "emplace" /\ UNCHANGED file_queues_
         /\ DOMAIN queues' = DOMAIN queues
         /\ \A q \in DOMAIN queues : queues'[q].running <=> queues[q].running
<1>0. /\ h \in [Handlers -> Local(Len(queues))] /\ h[x] \in Local(Len(queues)) /\ HandlerOK(x, h[x])
      /\ DOMAIN queues = 1..Len(queues) /\ \A q \in DOMAIN queues : queues[q] \in QueueType
  BY TypedFacts, Variables
<1>a. ASSUME UNCHANGED queues
      PROVE  /\ DOMAIN queues' = DOMAIN queues
             /\ \A q \in DOMAIN queues : queues'[q].running <=> queues[q].running
  BY <1>a
<1>b. ASSUME NEW c, NEW q \in DOMAIN queues, NEW f, Enqueue(c, q, f)
      PROVE  /\ DOMAIN queues' = DOMAIN queues
             /\ \A p \in DOMAIN queues : queues'[p].running <=> queues[p].running
  BY <1>0, <1>b DEF Enqueue, QueueType
<1>1. CASE PushText(x) \/ CopyFileClients(x) \/ NextFileClient(x)
  BY <1>0, <1>1, <1>a DEF PushText, CopyFileClients, NextFileClient, Goto, Local, At, queueVars
<1>2. CASE SendText(x) \/ SendLog(x)
  <2>1. h[x].pc \in {"send", "sendlog"} /\ h' = Advance(x) /\ h[x].q = 0 /\ UNCHANGED <<queues, file_queues_>>
    BY <1>0, <1>2 DEF SendText, SendLog, At, HandlerOK, Holding, queueVars
  <2>2. CASE Len(h[x].todo) = 1
    BY <1>0, <1>a, <2>1, <2>2 DEF Advance, Idle
  <2>3. CASE Len(h[x].todo) # 1
    <3>1. h' = [h EXCEPT ![x].todo = Tail(@)]
      BY <2>1, <2>3 DEF Advance
    <3>2. h'[x].pc = h[x].pc /\ h'[x].q = h[x].q
      BY <1>0, <3>1 DEF Local
    <3> QED
      BY <1>a, <2>1, <3>2
  <2> QED
    BY <2>2, <2>3
<1>3. CASE EnqueueFile(x)
  <2>1. h[x].q \in DOMAIN queues
    BY <1>0, <1>3 DEF EnqueueFile, At, HandlerOK, Local
  <2>2. h'[x].q = h[x].q /\ h'[x].pc = "drop" /\ UNCHANGED file_queues_
    BY <1>0, <1>3 DEF EnqueueFile, Goto, Local
  <2> QED
    BY <1>3, <1>b, <2>1, <2>2 DEF EnqueueFile
<1>4. CASE CopyTextClients(x)
  <2>1. h[x].q = 0 /\ UNCHANGED <<queues, file_queues_>>
    BY <1>0, <1>4 DEF CopyTextClients, At, HandlerOK, Holding, queueVars
  <2> QED
    BY <1>0, <1>4, <1>a, <2>1 DEF CopyTextClients, Local, Idle
<1>5. CASE FindFileSocket(x) \/ FileSocketClosed(x) \/ LockHistory(x) \/ UnlockHistory(x) \/ SendEnd(x)
  BY <1>0, <1>5, <1>a
  DEF FindFileSocket, FileSocketClosed, LockHistory, UnlockHistory, SendEnd, Goto, Local, queueVars
<1>6. CASE Replay(x)
  <2>1. h'[x].q = h[x].q /\ h'[x].pc # "emplace" /\ UNCHANGED file_queues_
    BY <1>0, <1>6 DEF Replay, At, Local
  <2>2. CASE UNCHANGED queues
    BY <1>a, <2>1, <2>2
  <2>3. CASE h[x].q # 0 /\ Enqueue(x[2], h[x].q, message_history_[h[x].i])
    <3>1. h[x].q \in DOMAIN queues
      BY <1>0, <2>3 DEF Local
    <3> QED
      BY <1>b, <2>1, <2>3, <3>1
  <2> QED
    BY <1>6, <2>2, <2>3 DEF Replay
<1> QED
  BY <1>1, <1>2, <1>3, <1>4, <1>5, <1>6 DEF Handler

LEMMA LookupQueueInv ==
  ASSUME Typed, QueueInv, NEW x \in Handlers, Lookup(x) \/ Emplace(x)
  PROVE  QueueInv'
<1>0. /\ h \in [Handlers -> Local(Len(queues))] /\ h[x] \in Local(Len(queues)) /\ HandlerOK(x, h[x])
      /\ DOMAIN queues = 1..Len(queues) /\ Len(queues) \in Nat
      /\ \A q \in DOMAIN queues : queues[q] \in QueueType
      /\ file_queues_ \in [Clients -> 0..Len(queues)]
      /\ h[x].sock \in Clients /\ h' = [h EXCEPT ![x] = h'[x]]
      /\ Caller(x) # "emplace" /\ QueuesFree /\ UNCHANGED server
  <2>1. h[x].sock \in Clients
    BY TypedFacts DEF Lookup, Emplace, At, HandlerOK
  <2>2. Caller(x) \in {"drop", "enqueue", "lock"}
    BY HandlerNames DEF Caller
  <2>3. h' = [h EXCEPT ![x] = h'[x]]
    BY LookupLocal DEF LocalChange
  <2>4. QueuesFree /\ UNCHANGED server
    BY DEF Lookup, Emplace, serverVars
  <2> QED
    BY <2>1, <2>2, <2>3, <2>4, TypedFacts, Variables
<1>a. \A y \in Handlers : h[y].q \in 0..Len(queues)
  BY <1>0 DEF Local
<1>b. \A y \in Handlers : y # x => h'[y] = h[y]
  BY <1>0
<1>c. QueuesFree' = QueuesFree
  BY <1>0 DEF QueuesFree
<1>1. CASE Lookup(x) /\ file_queues_[h[x].sock] # 0
  <2>1. /\ h' = [h EXCEPT ![x].q = file_queues_[h[x].sock], ![x].pc = Caller(x)]
        /\ UNCHANGED <<queues, file_queues_>>
    BY <1>1 DEF Lookup, FindOrBuild
  <2>2. h'[x].q = file_queues_[h[x].sock] /\ h'[x].pc # "emplace" /\ h[x].q = 0
    BY <1>0, <1>1, <2>1 DEF Local, Lookup, At, HandlerOK, Holding
  <2> QED
    BY <1>0, <1>c, <2>1, <2>2, QueueInvKept
<1>2. CASE Lookup(x) /\ file_queues_[h[x].sock] = 0
  <2> DEFINE new == Len(queues) + 1
  <2>1. /\ queues' = Append(queues, NewQueue(h[x].sock)) /\ UNCHANGED file_queues_
        /\ h' = [h EXCEPT ![x].q = Len(queues'), ![x].pc = "emplace"]
    BY <1>2 DEF Lookup, FindOrBuild
  <2>2. NewQueue(h[x].sock) \in QueueType /\ NewQueue(h[x].sock).running
    BY <1>0, EmptySeq DEF NewQueue, QueueType
  <2>3. /\ DOMAIN queues' = 1..new /\ Len(queues') = new /\ queues'[new].running
        /\ \A p \in DOMAIN queues : queues'[p] = queues[p]
    BY <2>1, <2>2, QueueAdded
  <2>4. h'[x].q = new /\ h'[x].pc = "emplace" /\ h[x].q = 0
    BY <1>0, <1>2, <2>1, <2>3 DEF Local, Lookup, At, HandlerOK, Holding
  <2>5. \A q : Registered(q)' <=> Registered(q)
    BY <2>1 DEF Registered
  <2>6. ~Registered(new) /\ \A y \in Handlers : h[y].q # new
    BY <1>0, <1>a DEF Registered
  <2>7. ASSUME NEW q \in DOMAIN queues', queues'[q].running
        PROVE  Registered(q)' \/ \E y \in Handlers : h'[y].q = q
    <3>1. CASE q = new
      BY <2>4, <3>1
    <3>2. CASE q # new
      <4>1. q \in DOMAIN queues /\ queues[q].running /\ q # 0
        BY <1>0, <2>3, <2>7, <3>2
      <4>2. Registered(q) \/ \E y \in Handlers : h[y].q = q
        BY <4>1 DEF QueueInv, QueueOwnership
      <4>3. ASSUME NEW y \in Handlers, h[y].q = q PROVE h'[y].q = q
        BY <1>b, <2>4, <4>1, <4>3
      <4> QED
        BY <2>5, <4>2, <4>3
    <3> QED
      BY <3>1, <3>2
  <2>8. QueuesFree' => \A c \in Clients : file_queues_'[c] # 0 => queues'[file_queues_'[c]].running
    <3>1. \A c \in Clients : file_queues_[c] # 0 => queues[file_queues_[c]].running
      BY <1>0 DEF QueueInv, QueueOwnership
    <3>2. \A c \in Clients : file_queues_[c] # 0 => file_queues_[c] \in DOMAIN queues
      BY <1>0
    <3> QED
      BY <2>1, <2>3, <3>1, <3>2
  <2>9. ASSUME NEW y \in Handlers, h'[y].pc = "emplace"
        PROVE  /\ queues'[h'[y].q].running /\ \A q : q = h'[y].q => ~Registered(q)'
               /\ \A z \in Handlers : z # y => h'[z].q # h'[y].q
    <3>1. CASE y = x
      BY <1>b, <2>3, <2>4, <2>5, <2>6, <3>1
    <3>2. CASE y # x
      <4>1. h'[y] = h[y] /\ h[y].pc = "emplace"
        BY <1>b, <2>9, <3>2
      <4>2. h[y].q # 0
        BY <4>1, TypedFacts DEF HandlerOK
      <4>3. /\ queues[h[y].q].running /\ ~Registered(h[y].q) /\ h[y].q \in DOMAIN queues
            /\ \A z \in Handlers : z # y => h[z].q # h[y].q
        BY <1>0, <1>a, <4>1, <4>2 DEF QueueInv, BuiltAlone
      <4>4. \A z \in Handlers : z # y => h'[z].q # h[y].q
        BY <1>b, <2>4, <2>6, <4>3
      <4> QED
        BY <2>3, <2>5, <4>1, <4>3, <4>4
    <3> QED
      BY <3>1, <3>2
  <2> QED
    BY <2>7, <2>8, <2>9 DEF QueueInv, QueueOwnership, BuiltAlone
<1>3. CASE Emplace(x)
  <2>1. /\ file_queues_' = Emplaced(h[x].sock, h[x].q) /\ UNCHANGED queues
        /\ h' = [h EXCEPT ![x].pc = Caller(x)] /\ h[x].pc = "emplace"
    BY <1>3 DEF Emplace, Goto, At
  <2>2. h'[x].q = h[x].q /\ h'[x].pc # "emplace"
    BY <1>0, <2>1 DEF Local
  <2>3. /\ queues[h[x].q].running /\ ~Registered(h[x].q) /\ h[x].q \in DOMAIN queues /\ h[x].q # 0
        /\ \A y \in Handlers : y # x => h[y].q # h[x].q
    <3>1. h[x].q # 0
      BY <1>0, <2>1 DEF HandlerOK
    <3> QED
      BY <1>0, <1>a, <2>1, <3>1 DEF QueueInv, BuiltAlone
  <2>4. /\ \A c \in Clients : file_queues_'[c] \in {file_queues_[c], h[x].q}
        /\ \A c \in Clients : file_queues_[c] # 0 => file_queues_'[c] = file_queues_[c]
    BY <1>0, <2>1 DEF Emplaced
  <2>5. \A q : q # 0 /\ Registered(q) => Registered(q)'
    BY <2>4 DEF Registered
  <2>6. \A q : Registered(q)' => Registered(q) \/ q = h[x].q
    BY <2>4 DEF Registered
  <2>7. \A y \in Handlers : h'[y].q = h[y].q
    BY <1>b, <2>2
  <2>8. ASSUME NEW q \in DOMAIN queues', queues'[q].running
        PROVE  Registered(q)' \/ \E y \in Handlers : h'[y].q = q
    <3>1. q # 0 /\ q \in DOMAIN queues /\ queues[q].running
      BY <1>0, <2>1, <2>8
    <3> QED
      BY <2>5, <2>7, <3>1 DEF QueueInv, QueueOwnership
  <2>9. QueuesFree' => \A c \in Clients : file_queues_'[c] # 0 => queues'[file_queues_'[c]].running
    BY <1>0, <2>1, <2>3, <2>4 DEF QueueInv, QueueOwnership
  <2>10. ASSUME NEW y \in Handlers, h'[y].pc = "emplace"
         PROVE  /\ queues'[h'[y].q].running /\ \A q : q = h'[y].q => ~Registered(q)'
                /\ \A z \in Handlers : z # y => h'[z].q # h'[y].q
    <3>1. y # x /\ h'[y] = h[y] /\ h[y].pc = "emplace"
      BY <1>b, <2>2, <2>10
    <3>2. /\ queues[h[y].q].running /\ ~Registered(h[y].q)
          /\ \A z \in Handlers : z # y => h[z].q # h[y].q
      BY <3>1 DEF QueueInv, BuiltAlone
    <3>3. h[y].q # h[x].q
      BY <2>3, <3>1
    <3> QED
      BY <2>1, <2>6, <2>7, <3>1, <3>2, <3>3
  <2> QED
    BY <2>8, <2>9, <2>10 DEF QueueInv, QueueOwnership, BuiltAlone
<1> QED
  BY <1>1, <1>2, <1>3

LEMMA ReleasedQueue ==
  ASSUME Typed, NEW x \in Handlers, Released(x)
  PROVE  h' = [h EXCEPT ![x] = h'[x]] /\ h'[x].q = 0 /\ h'[x].pc \in {"read", "next", "idle"}
<1>0. h \in [Handlers -> Local(Len(queues))] /\ h[x] \in Local(Len(queues))
  BY TypedFacts, Variables
<1>a. x[1] \in {"accept", "file", "text"}
  BY HandlerNames
<1>1. CASE x[1] = "accept"
  <2>1. h' = [h EXCEPT ![x] = [@ EXCEPT !.pc = "read", !.q = 0]]
    BY <1>1 DEF Released
  <2> QED
    BY <1>0, <2>1 DEF Local
<1>2. CASE x[1] = "file"
  <2>1. h' = [h EXCEPT ![x] = [@ EXCEPT !.pc = "next", !.q = 0, !.sock = NoMsg]]
    BY <1>2 DEF Released
  <2> QED
    BY <1>0, <2>1 DEF Local
<1>3. CASE x[1] = "text"
  <2>1. h' = [h EXCEPT ![x] = Idle]
    BY <1>3 DEF Released
  <2> QED
    BY <1>0, <2>1 DEF Idle
<1> QED
  BY <1>a, <1>1, <1>2, <1>3

LEMMA DropQueueInv ==
  ASSUME Typed, QueueInv, NEW x \in Handlers, Drop(x) \/ Join(x)
  PROVE  QueueInv'
<1>0. /\ h \in [Handlers -> Local(Len(queues))] /\ h[x] \in Local(Len(queues)) /\ HandlerOK(x, h[x])
      /\ DOMAIN queues = 1..Len(queues) /\ Len(queues) \in Nat
      /\ \A q \in DOMAIN queues : queues[q] \in QueueType
      /\ file_queues_ \in [Clients -> 0..Len(queues)]
  BY TypedFacts, Variables
<1>a. UNCHANGED <<server, file_queues_>> /\ (QueuesFree' = QueuesFree)
  BY DEF Drop, Join, serverVars, queueVars, QueuesFree
<1>1. CASE Drop(x) /\ h[x].q # 0 /\ ~Registered(h[x].q)
  <2>1. Stopped(h[x].q) /\ h' = [h EXCEPT ![x].pc = "join"] /\ h[x].pc = "drop"
    BY <1>1 DEF Drop, Goto, At
  <2>2. h[x].q \in DOMAIN queues
    BY <1>0, <1>1 DEF Local
  <2>3. /\ DOMAIN queues' = DOMAIN queues /\ ~queues'[h[x].q].running
        /\ \A q \in DOMAIN queues : q # h[x].q => queues'[q] = queues[q]
    BY <2>1, <2>2, StoppedKeeps
  <2>4. \A y \in Handlers : h'[y].q = h[y].q /\ (h'[y].pc = "emplace" => y # x /\ h[y].pc = "emplace")
    BY <1>0, <2>1 DEF Local
  <2>5. \A q : Registered(q)' <=> Registered(q)
    BY <1>a DEF Registered
  <2>6. ASSUME NEW q \in DOMAIN queues', queues'[q].running
        PROVE  Registered(q)' \/ \E y \in Handlers : h'[y].q = q
    <3>1. q \in DOMAIN queues /\ queues[q].running
      BY <2>3, <2>6
    <3> QED
      BY <2>4, <2>5, <3>1 DEF QueueInv, QueueOwnership
  <2>7. QueuesFree' => \A c \in Clients : file_queues_'[c] # 0 => queues'[file_queues_'[c]].running
    <3>1. \A c \in Clients : file_queues_[c] # h[x].q /\ (file_queues_[c] # 0 => file_queues_[c] \in DOMAIN queues)
      BY <1>0, <1>1 DEF Registered
    <3> QED
      BY <1>a, <2>3, <3>1 DEF QueueInv, QueueOwnership
  <2>8. ASSUME NEW y \in Handlers, h'[y].pc = "emplace"
        PROVE  /\ queues'[h'[y].q].running /\ \A q : q = h'[y].q => ~Registered(q)'
               /\ \A z \in Handlers : z # y => h'[z].q # h'[y].q
    <3>1. y # x /\ h[y].pc = "emplace" /\ h'[y].q = h[y].q
      BY <2>4, <2>8
    <3>2. h[y].q # 0 /\ h[y].q \in 0..Len(queues)
      BY <3>1, TypedFacts DEF HandlerOK, Local
    <3>3. /\ queues[h[y].q].running /\ ~Registered(h[y].q) /\ h[y].q \in DOMAIN queues
          /\ \A z \in Handlers : z # y => h[z].q # h[y].q
      BY <1>0, <3>1, <3>2 DEF QueueInv, BuiltAlone
    <3> QED
      BY <2>3, <2>4, <2>5, <3>1, <3>3
  <2> QED
    BY <2>6, <2>7, <2>8 DEF QueueInv, QueueOwnership, BuiltAlone
<1>2. CASE Drop(x) /\ ~(h[x].q # 0 /\ ~Registered(h[x].q))
  <2>1. Released(x) /\ UNCHANGED queues
    BY <1>2 DEF Drop
  <2> QED
    BY <1>2, <1>a, <2>1, ReleasedQueue, QueueInvKept
<1>3. CASE Join(x)
  <2>1. Released(x) /\ UNCHANGED queues /\ ~queues[h[x].q].running /\ h[x].q # 0
    BY <1>0, <1>3 DEF Join, queueVars, At, HandlerOK
  <2> QED
    BY <1>a, <2>1, ReleasedQueue, QueueInvKept
<1> QED
  BY <1>1, <1>2, <1>3

LEMMA StopQueueInv == ASSUME Typed, QueueInv, Stop PROVE QueueInv'
<1>0. /\ DOMAIN queues = 1..Len(queues) /\ Len(queues) \in Nat
      /\ \A q \in DOMAIN queues : queues[q] \in QueueType
      /\ file_queues_ \in [Clients -> 0..Len(queues)]
      /\ \A y \in Handlers : h[y].pc = "emplace" => h[y].q # 0 /\ h[y].q \in DOMAIN queues
  <2>1. \A y \in Handlers : h[y].pc = "emplace" => h[y].q # 0 /\ h[y].q \in 0..Len(queues)
    BY TypedFacts DEF HandlerOK, Local
  <2> QED
    BY <2>1, Variables
<1>1. CASE CloseFileAcceptor \/ QueueJoined \/ CloseTextClients \/ CloseFileClients \/ StopContext
  <2>1. UNCHANGED <<h, file_queues_, queues>>
    BY <1>1 DEF CloseFileAcceptor, QueueJoined, CloseTextClients, CloseFileClients, StopContext, queueVars
  <2>2. server.pc \notin {"queues", "join"} \/ server'.pc \in {"queues", "join"}
    <3>1. server' = [server EXCEPT !.pc = "queues"] => server'.pc = "queues"
      BY DEF Typed, TypeOK
    <3> QED
      BY <1>1, <3>1 DEF CloseFileAcceptor, QueueJoined, CloseTextClients, CloseFileClients, StopContext
  <2> QED
    BY <2>1, <2>2, QueueInvSame DEF QueuesFree
<1>2. ASSUME NEW p \in DOMAIN queues, StopQueue(p) PROVE QueueInv'
  <2>1. Stopped(p) /\ Registered(p) /\ UNCHANGED <<h, file_queues_>> /\ server'.pc = "join"
    BY <1>2 DEF StopQueue
  <2>2. /\ DOMAIN queues' = DOMAIN queues
        /\ \A q \in DOMAIN queues : queues'[q].running => queues[q].running
        /\ \A q \in DOMAIN queues : q # p => queues'[q] = queues[q]
    BY <2>1, StoppedKeeps
  <2>3. \A q : Registered(q)' <=> Registered(q)
    BY <2>1 DEF Registered
  <2>4. QueueOwnership'
    BY <2>1, <2>2, <2>3 DEF QueueInv, QueueOwnership, QueuesFree
  <2>5. ASSUME NEW y \in Handlers, h[y].pc = "emplace"
        PROVE  queues'[h[y].q].running
    BY <1>0, <2>1, <2>2, <2>5 DEF QueueInv, BuiltAlone
  <2>6. BuiltAlone'
    BY <2>1, <2>3, <2>5 DEF QueueInv, BuiltAlone
  <2> QED
    BY <2>4, <2>6 DEF QueueInv
<1>3. CASE ClearQueues
  <2>1. /\ file_queues_' = [c \in Clients |-> 0] /\ UNCHANGED <<h, queues>>
        /\ \A c \in Clients : file_queues_[c] # 0 => ~queues[file_queues_[c]].running
    BY <1>3 DEF ClearQueues
  <2>2. \A q \in DOMAIN queues : queues[q].running => ~Registered(q)
    BY <1>0, <2>1 DEF Registered
  <2>3. \A q \in DOMAIN queues : ~Registered(q)'
    BY <1>0, <2>1 DEF Registered
  <2>4. QueueOwnership'
    BY <2>1, <2>2 DEF QueueInv, QueueOwnership
  <2>5. BuiltAlone'
    BY <1>0, <2>1, <2>3 DEF QueueInv, BuiltAlone
  <2> QED
    BY <2>4, <2>5 DEF QueueInv
<1> QED
  BY <1>1, <1>2, <1>3 DEF Stop

LEMMA QueueInvStep == ASSUME Typed, QueueInv, [Next]_vars PROVE QueueInv'
<1>0. /\ h \in [Handlers -> Local(Len(queues))] /\ DOMAIN queues = 1..Len(queues)
      /\ \A q \in DOMAIN queues : queues[q] \in QueueType
      /\ \A x \in Handlers : h[x] \in Local(Len(queues)) /\ HandlerOK(x, h[x])
  BY TypedFacts, Variables
<1>a. ASSUME UNCHANGED <<server, file_queues_, queues>>
      PROVE  /\ (QueuesFree' => QueuesFree) /\ DOMAIN queues' = DOMAIN queues
             /\ \A q \in DOMAIN queues : queues'[q].running <=> queues[q].running
  BY <1>a DEF QueuesFree
<1>1. ASSUME NEW c \in Clients, Client(c) PROVE QueueInv'
  <2>0. UNCHANGED <<server, file_queues_, queues>>
    BY <1>1 DEF Client, Connect, ReceiveText, ReceiveFile, ReceiveSendHistory, ReadError, queueVars, serverVars
  <2>1. CASE Connect(c) \/ (\E kind \in {"text", "file"} : ReadError(kind, c))
    BY <1>a, <2>0, <2>1, QueueInvSame DEF Connect, ReadError
  <2>2. ASSUME NEW kind \in {"text", "file"}, Reading(kind, c),
               h' = [h EXCEPT ![Reader(kind, c)] = h'[Reader(kind, c)]],
               h'[Reader(kind, c)].pc \in {"push", "clients", "find"},
               LocalChange(Reader(kind, c))
        PROVE  QueueInv'
    <3> DEFINE x == Reader(kind, c)
    <3>1. x \in Handlers /\ h[x].pc = "idle"
      BY <2>2, ReaderNames DEF Reading, At
    <3>2. h[x].q = 0
      BY <1>0, <3>1 DEF HandlerOK, Holding
    <3>3. h'[x].q = 0 /\ h'[x].pc # "emplace"
      BY <2>2 DEF LocalChange, HandlerOK, Holding
    <3> QED
      BY <1>a, <2>0, <2>2, <3>1, <3>2, <3>3, QueueInvKept
  <2>3. CASE ReceiveText(c)
    <3>1. LocalChange(Reader("text", c))
      BY <2>3, BeginLocal
    <3>2. h'[Reader("text", c)].pc = "push"
      BY <1>0, <2>3, ReaderNames DEF ReceiveText, Local
    <3> QED
      BY <2>2, <2>3, <3>1, <3>2 DEF LocalChange, ReceiveText
  <2>4. CASE ReceiveFile(c)
    <3>1. LocalChange(Reader("file", c))
      BY <2>4, BeginLocal
    <3>2. h'[Reader("file", c)].pc = "clients"
      BY <1>0, <2>4, ReaderNames DEF ReceiveFile, Local
    <3> QED
      BY <2>2, <2>4, <3>1, <3>2 DEF LocalChange, ReceiveFile
  <2>5. CASE ReceiveSendHistory(c) /\ UNCHANGED h
    BY <1>a, <2>0, <2>5, QueueInvSame
  <2>6. CASE ReceiveSendHistory(c) /\ ~UNCHANGED h
    <3>1. LocalChange(Reader("text", c))
      BY <2>6, BeginLocal
    <3>2. h'[Reader("text", c)].pc = "find"
      BY <1>0, <2>6, ReaderNames DEF ReceiveSendHistory, Local
    <3> QED
      BY <2>2, <2>6, <3>1, <3>2 DEF LocalChange, ReceiveSendHistory
  <2> QED
    BY <1>1, <2>1, <2>3, <2>4, <2>5, <2>6 DEF Client
<1>2. CASE Accept
  <2>0. UNCHANGED <<server, file_queues_, queues>> /\ Acceptor \in Handlers
    <3>1. Acceptor \in Handlers
      BY DEF Handlers
    <3>2. UNCHANGED <<server, file_queues_, queues>>
      BY <1>2 DEF Accept, AcceptTextConnection, AcceptFileConnection, StartReading, queueVars
    <3> QED
      BY <3>1, <3>2
  <2>1. CASE \E c \in Clients : AcceptTextConnection(c)
    BY <1>a, <2>0, <2>1, QueueInvSame DEF AcceptTextConnection
  <2>2. ASSUME NEW c \in Clients, AcceptFileConnection(c) PROVE QueueInv'
    <3>1. /\ h' = [h EXCEPT ![Acceptor].pc = "lookup", ![Acceptor].sock = c]
          /\ h[Acceptor].pc = "idle"
      BY <2>2 DEF AcceptFileConnection, At
    <3>2. h'[Acceptor].q = h[Acceptor].q /\ h'[Acceptor].pc # "emplace"
          /\ h' = [h EXCEPT ![Acceptor] = h'[Acceptor]]
      BY <1>0, <2>0, <3>1 DEF Local
    <3> QED
      BY <1>a, <2>0, <3>2, QueueInvKept
  <2>3. CASE StartReading
    <3>1. h' = [h EXCEPT ![Acceptor] = Idle] /\ h[Acceptor].pc = "read"
      BY <2>3 DEF StartReading, At
    <3>2. h[Acceptor].q = 0
      BY <1>0, <2>0, <3>1 DEF HandlerOK, Holding
    <3>3. h'[Acceptor].q = h[Acceptor].q /\ h'[Acceptor].pc # "emplace"
          /\ h' = [h EXCEPT ![Acceptor] = h'[Acceptor]]
      BY <1>0, <2>0, <3>1, <3>2 DEF Idle
    <3> QED
      BY <1>a, <2>0, <3>3, QueueInvKept
  <2> QED
    BY <1>2, <2>1, <2>2, <2>3 DEF Accept
<1>3. ASSUME NEW x \in Handlers, Handler(x) PROVE QueueInv'
  <2>1. CASE Lookup(x) \/ Emplace(x)
    BY <2>1, LookupQueueInv
  <2>2. CASE Drop(x) \/ Join(x)
    BY <2>2, DropQueueInv
  <2>3. CASE ~Lookup(x) /\ ~Emplace(x) /\ ~Drop(x) /\ ~Join(x)
    <3>1. /\ h'[x].q = h[x].q /\ h'[x].pc # "emplace" /\ UNCHANGED file_queues_
          /\ DOMAIN queues' = DOMAIN queues
          /\ \A q \in DOMAIN queues : queues'[q].running <=> queues[q].running
      BY <1>3, <2>3, HoldsQueue
    <3>2. h' = [h EXCEPT ![x] = h'[x]]
      BY <1>3, HandlerLocal DEF LocalChange
    <3>3. QueuesFree' => QueuesFree
      BY <1>3, HandlerFrame DEF QueuesFree
    <3> QED
      BY <3>1, <3>2, <3>3, QueueInvKept
  <2> QED
    BY <2>1, <2>2, <2>3
<1>4. ASSUME NEW q \in DOMAIN queues, Worker(q) PROVE QueueInv'
  <2>1. UNCHANGED <<server, h, file_queues_>>
    BY <1>4 DEF Worker, BeginTransfer, EndTransfer, SpuriousWakeup, serverVars
  <2>2. DOMAIN queues' = DOMAIN queues /\ \A p \in DOMAIN queues : queues'[p].running <=> queues[p].running
    BY <1>0, <1>4 DEF Worker, BeginTransfer, EndTransfer, SpuriousWakeup, QueueType
  <2> QED
    BY <2>1, <2>2, QueueInvSame DEF QueuesFree
<1>5. CASE StopServer
  BY <1>5, QueueInvSame DEF StopServer, queueVars, QueuesFree
<1>6. CASE UNCHANGED vars
  BY <1>6, <1>a, QueueInvSame DEF vars, queueVars, serverVars
<1> QED
  BY <1>1, <1>2, <1>3, <1>4, <1>5, <1>6, StopQueueInv DEF Next

LEMMA InitQueueInv == Init => QueueInv
<1> SUFFICES ASSUME Init PROVE QueueInv
  OBVIOUS
<1>1. /\ \A i, j \in DOMAIN file_port_clients_ : file_port_clients_[i] = file_port_clients_[j] => i = j
      /\ file_port_clients_ \in Seq(Clients) /\ DOMAIN file_port_clients_ = 1..Len(file_port_clients_)
  BY CameOnce DEF Init
<1>2. DOMAIN queues = DOMAIN file_port_clients_ /\ \A q \in DOMAIN queues : queues[q].running
  BY DEF Init, NewQueue
<1>3. ASSUME NEW q \in DOMAIN queues PROVE Registered(q)
  <2> DEFINE c == file_port_clients_[q]
  <2>1. c \in Clients /\ c \in Elements(file_port_clients_)
    BY <1>1, <1>2, ElementOfSeq DEF Elements
  <2>2. file_queues_[c] = CHOOSE p \in DOMAIN queues : file_port_clients_[p] = c
    BY <2>1 DEF Init
  <2>3. file_queues_[c] = q
    BY <1>1, <1>2, <2>2
  <2> QED
    BY <2>1, <2>3 DEF Registered
<1>4. ASSUME NEW c \in Clients, file_queues_[c] # 0 PROVE queues[file_queues_[c]].running
  <2>1. c \in Elements(file_port_clients_)
        /\ file_queues_[c] = CHOOSE q \in DOMAIN queues : file_port_clients_[q] = c
    BY <1>4 DEF Init
  <2>2. file_queues_[c] \in DOMAIN queues
    BY <1>2, <2>1 DEF Elements
  <2> QED
    BY <1>2, <2>2
<1>5. \A x \in Handlers : h[x].pc = "idle"
  BY DEF Init, Idle
<1> QED
  BY <1>3, <1>4, <1>5 DEF QueueInv, QueueOwnership, BuiltAlone

\* No worker runs without an owner, and none that is registered was stopped by a handler that
\* lost the race to register its own queue: GetOrCreateFileQueueForSocket unlocks between the
\* search and the emplace, and ~FileTransferQueue runs in the handler (ServerManager.cpp:289).
THEOREM RegistryOwnsQueues == Spec => []QueueOwnership
<1>1. Init => Typed /\ QueueInv
  BY InitTyped, InitQueueInv
<1>2. Typed /\ QueueInv /\ [Next]_vars => (Typed /\ QueueInv)'
  BY TypedStep, QueueInvStep
<1>3. Typed /\ QueueInv => QueueOwnership
  BY DEF QueueInv
<1> QED
  BY <1>1, <1>2, <1>3, PTL DEF Spec

-----------------------------------------------------------------------------
(* The history and its replay.                                             *)

\* Whose local variables a step changes.
LEMMA WhoSteps ==
  ASSUME Typed, [Next]_vars
  PROVE  \/ UNCHANGED h
         \/ \E x \in Handlers : Handler(x)
         \/ \E x \in Handlers : /\ h[x].pc \in {"idle", "read"} /\ h' = [h EXCEPT ![x] = h'[x]]
                                /\ h'[x].pc \in {"push", "clients", "find", "lookup", "idle"}
<1>0. h \in [Handlers -> Local(Len(queues))] /\ \A x \in Handlers : h[x] \in Local(Len(queues))
  BY TypedFacts, Variables
<1>1. ASSUME NEW c \in Clients, Client(c), ~UNCHANGED h
      PROVE  \E x \in Handlers : /\ h[x].pc \in {"idle", "read"} /\ h' = [h EXCEPT ![x] = h'[x]]
                                 /\ h'[x].pc \in {"push", "clients", "find", "lookup", "idle"}
  <2>1. CASE ReceiveText(c)
    <3>1. h'[Reader("text", c)].pc = "push" /\ h[Reader("text", c)].pc = "idle"
      BY <1>0, <2>1, ReaderNames DEF ReceiveText, Reading, At, Local
    <3> QED
      BY <2>1, <3>1, BeginLocal, ReaderNames DEF LocalChange
  <2>2. CASE ReceiveFile(c)
    <3>1. h'[Reader("file", c)].pc = "clients" /\ h[Reader("file", c)].pc = "idle"
      BY <1>0, <2>2, ReaderNames DEF ReceiveFile, Reading, At, Local
    <3> QED
      BY <2>2, <3>1, BeginLocal, ReaderNames DEF LocalChange
  <2>3. CASE ReceiveSendHistory(c)
    <3>1. h'[Reader("text", c)].pc = "find" /\ h[Reader("text", c)].pc = "idle"
      BY <1>0, <1>1, <2>3, ReaderNames DEF ReceiveSendHistory, Reading, At, Local
    <3> QED
      BY <2>3, <3>1, BeginLocal, ReaderNames DEF LocalChange
  <2> QED
    BY <1>1, <2>1, <2>2, <2>3 DEF Client, Connect, ReadError
<1>2. CASE Accept
  <2>0. Acceptor \in Handlers
    BY DEF Handlers
  <2>1. ASSUME NEW c \in Clients, AcceptFileConnection(c)
        PROVE  h'[Acceptor].pc = "lookup" /\ h[Acceptor].pc = "idle" /\ h' = [h EXCEPT ![Acceptor] = h'[Acceptor]]
    BY <1>0, <2>0, <2>1, BeginLocal DEF AcceptFileConnection, At, Local, LocalChange
  <2>2. ASSUME StartReading
        PROVE  h'[Acceptor].pc = "idle" /\ h[Acceptor].pc = "read" /\ h' = [h EXCEPT ![Acceptor] = h'[Acceptor]]
    BY <1>0, <2>0, <2>2 DEF StartReading, At, Local, Idle
  <2>3. (\E c \in Clients : AcceptTextConnection(c)) => UNCHANGED h
    BY DEF AcceptTextConnection
  <2> QED
    BY <1>2, <2>0, <2>1, <2>2, <2>3 DEF Accept
<1>3. ASSUME NEW q \in DOMAIN queues, Worker(q) PROVE UNCHANGED h
  BY <1>3 DEF Worker, BeginTransfer, EndTransfer, SpuriousWakeup
<1>4. CASE StopServer \/ Stop \/ UNCHANGED vars
  BY <1>4 DEF StopServer, Stop, CloseFileAcceptor, StopQueue, QueueJoined, ClearQueues, CloseTextClients,
              CloseFileClients, StopContext, vars
<1> QED
  BY <1>1, <1>2, <1>3, <1>4 DEF Next

\* A replay begins with the lock.
LEMMA ReplayBegins ==
  ASSUME Typed, NEW x \in Handlers, Handler(x), h'[x].pc = "replay"
  PROVE  LockHistory(x) \/ Replay(x)
<1>0. h \in [Handlers -> Local(Len(queues))] /\ h[x] \in Local(Len(queues))
  BY TypedFacts, Variables
<1>1. CASE Lookup(x) \/ Emplace(x)
  <2>1. Caller(x) \in {"drop", "enqueue", "lock"}
    BY HandlerNames DEF Caller
  <2> QED
    BY <1>0, <1>1, <2>1 DEF Lookup, FindOrBuild, Emplace, Goto, Local
<1>2. CASE Drop(x) \/ Join(x)
  <2>1. Released(x) \/ h' = [h EXCEPT ![x].pc = "join"]
    BY <1>2 DEF Drop, Join, Goto
  <2>2. h' = [h EXCEPT ![x].pc = "join"] => h'[x].pc = "join"
    BY <1>0 DEF Local
  <2> QED
    BY <2>1, <2>2, ReleasedQueue
<1>3. CASE PushText(x) \/ CopyFileClients(x) \/ NextFileClient(x) \/ EnqueueFile(x)
  BY <1>0, <1>3 DEF PushText, CopyFileClients, NextFileClient, EnqueueFile, At, Goto, Local
<1>4. CASE SendText(x) \/ SendLog(x)
  <2>1. h[x].pc \in {"send", "sendlog"} /\ h' = Advance(x)
    BY <1>4 DEF SendText, SendLog, At
  <2>2. h' = [h EXCEPT ![x] = Idle] \/ h' = [h EXCEPT ![x].todo = Tail(@)]
    BY <2>1 DEF Advance
  <2> QED
    BY <1>0, <2>1, <2>2 DEF Idle, Local
<1>5. CASE CopyTextClients(x)
  BY <1>0, <1>5 DEF CopyTextClients, Local, Idle
<1>6. CASE FindFileSocket(x) \/ FileSocketClosed(x) \/ UnlockHistory(x) \/ SendEnd(x)
  BY <1>0, <1>6 DEF FindFileSocket, FileSocketClosed, UnlockHistory, SendEnd, At, Goto, Local
<1> QED
  BY <1>1, <1>2, <1>3, <1>4, <1>5, <1>6 DEF Handler

LEMMA FromFrame ==
  ASSUME [Next]_vars
  PROVE  UNCHANGED from \/ \E x \in Handlers : LockHistory(x)
<1>1. ASSUME NEW c \in Clients, Client(c) PROVE UNCHANGED from
  BY <1>1 DEF Client, Connect, ReceiveText, ReceiveFile, ReceiveSendHistory, ReadError, historyVars
<1>2. CASE Accept
  BY <1>2 DEF Accept, AcceptTextConnection, AcceptFileConnection, StartReading, historyVars
<1>3. ASSUME NEW x \in Handlers, Handler(x), ~LockHistory(x) PROVE UNCHANGED from
  <2>1. CASE Lookup(x) \/ Emplace(x) \/ Drop(x) \/ Join(x)
    BY <2>1 DEF Lookup, Emplace, Drop, Join, historyVars
  <2>2. CASE PushText(x) \/ SendText(x) \/ CopyFileClients(x) \/ NextFileClient(x) \/ EnqueueFile(x)
    BY <2>2 DEF PushText, SendText, CopyFileClients, NextFileClient, EnqueueFile, historyVars
  <2>3. CASE CopyTextClients(x) \/ SendLog(x) \/ FindFileSocket(x) \/ FileSocketClosed(x)
    BY <2>3 DEF CopyTextClients, SendLog, FindFileSocket, FileSocketClosed, historyVars
  <2>4. CASE Replay(x) \/ UnlockHistory(x) \/ SendEnd(x)
    BY <2>4 DEF Replay, UnlockHistory, SendEnd, historyVars
  <2> QED
    BY <1>3, <2>1, <2>2, <2>3, <2>4 DEF Handler
<1>4. ASSUME NEW q \in DOMAIN queues, Worker(q) PROVE UNCHANGED from
  BY <1>4 DEF Worker, BeginTransfer, EndTransfer, SpuriousWakeup, historyVars
<1>5. CASE StopServer \/ Stop \/ UNCHANGED vars
  BY <1>5 DEF StopServer, Stop, CloseFileAcceptor, StopQueue, QueueJoined, ClearQueues, CloseTextClients,
              CloseFileClients, StopContext, vars, historyVars
<1> QED
  BY <1>1, <1>2, <1>3, <1>4, <1>5 DEF Next

\* Only a reader of a text socket replays.
LEMMA NoReplay == ASSUME Typed, HistoryFree PROVE \A y \in Handlers : h[y].pc # "replay"
<1> SUFFICES ASSUME NEW y \in Handlers, h[y].pc = "replay" PROVE FALSE
  OBVIOUS
<1>1. y[1] = "text"
  BY TypedFacts DEF HandlerOK
<1>2. y[2] \in Clients /\ y = Reader("text", y[2])
  BY <1>1, HandlerNames DEF Reader
<1> QED
  BY <1>2 DEF HistoryFree, At

LEMMA SegmentStep == ASSUME Typed, ReplayIsSegment, [Next]_vars PROVE ReplayIsSegment'
<1> DEFINE Segment == \A j \in DOMAIN message_history_' :
                        message_history_'[j] = log'[Len(log') - Len(message_history_') + j]
<1>0. /\ h \in [Handlers -> Local(Len(queues))] /\ \A x \in Handlers : h[x] \in Local(Len(queues)) /\ HandlerOK(x, h[x])
      /\ from \in [Clients -> 0..(Len(log) + 1)]
  BY TypedFacts, Variables
<1>1. Segment
  <2>1. CASE UNCHANGED <<message_history_, log>>
    BY <2>1 DEF ReplayIsSegment
  <2>2. ASSUME NEW x \in Handlers, PushText(x) PROVE Segment
    BY <2>2, PushOK, PushTextOK DEF ReplayIsSegment
  <2>3. ASSUME NEW c \in Clients, ReceiveFile(c) PROVE Segment
    BY <2>3, PushOK, ReceiveFileOK DEF ReplayIsSegment
  <2> QED
    BY <2>1, <2>2, <2>3, HistoryFrame
<1>2. ASSUME NEW y \in Handlers, h'[y].pc = "replay", h[y].pc # "replay" PROVE LockHistory(y)
  <2>1. PICK x \in Handlers : Handler(x)
    BY <1>0, <1>2, WhoSteps
  <2>2. x = y
    BY <1>0, <1>2, <2>1, HandlerLocal DEF LocalChange
  <2> QED
    BY <1>2, <2>1, <2>2, ReplayBegins DEF Replay, At
<1>3. CASE UNCHANGED <<message_history_, log, from>>
  <2>1. ASSUME NEW c \in Clients, h'[Reader("text", c)].pc = "replay" , h[Reader("text", c)].pc # "replay"
        PROVE  from'[c] = Len(log') - Len(message_history_') + 1
    <3>1. LockHistory(Reader("text", c))
      BY <1>2, <2>1, ReaderNames
    <3>2. from' = [from EXCEPT ![c] = Len(log) - Len(message_history_) + 1]
      BY <3>1, ReaderNames DEF LockHistory
    <3> QED
      BY <1>0, <1>3, <3>2
  <2> QED
    BY <1>1, <1>3, <2>1, ReaderNames DEF ReplayIsSegment, At
<1>4. ASSUME NEW x \in Handlers, LockHistory(x) PROVE ReplayIsSegment'
  <2>1. /\ x[1] = "text" /\ x[2] \in Clients /\ x = Reader("text", x[2])
    <3>1. x[1] = "text"
      BY <1>0, <1>4 DEF LockHistory, At, HandlerOK
    <3> QED
      BY <3>1, HandlerNames DEF Reader
  <2>2. /\ UNCHANGED <<message_history_, log>>
        /\ from' = [from EXCEPT ![x[2]] = Len(log) - Len(message_history_) + 1]
        /\ h' = [h EXCEPT ![x].pc = "replay", ![x].i = 1]
        /\ \A y \in Handlers : h[y].pc # "replay"
    BY <1>4, NoReplay DEF LockHistory
  <2>3. ASSUME NEW c \in Clients, h'[Reader("text", c)].pc = "replay" PROVE c = x[2]
    BY <1>0, <2>1, <2>2, <2>3, ReaderNames
  <2> QED
    BY <1>0, <1>1, <2>1, <2>2, <2>3 DEF ReplayIsSegment, At
<1>5. CASE \/ \E x \in Handlers : PushText(x)
           \/ \E c \in Clients : ReceiveFile(c)
  <2>1. \A y \in Handlers : h[y].pc # "replay"
    BY <1>5, NoReplay DEF PushText, ReceiveFile
  <2>2. \A y \in Handlers : ~LockHistory(y)
    <3>1. ASSUME NEW y \in Handlers, LockHistory(y) PROVE FALSE
      <4>1. UNCHANGED log
        BY <3>1 DEF LockHistory
      <4>2. Len(log') # Len(log)
        <5>1. ASSUME NEW x \in Handlers, PushText(x) PROVE Len(log') = Len(log) + 1
          BY <5>1, PushOK, PushTextOK
        <5>2. ASSUME NEW c \in Clients, ReceiveFile(c) PROVE Len(log') = Len(log) + 2
          BY <5>2, PushOK, ReceiveFileOK
        <5> QED
          BY <1>5, <5>1, <5>2, TypedFacts
      <4> QED
        BY <4>1, <4>2
    <3> QED
      BY <3>1
  <2>3. \A y \in Handlers : h'[y].pc # "replay"
    BY <1>2, <2>1, <2>2
  <2> QED
    BY <1>1, <2>3, ReaderNames DEF ReplayIsSegment, At
<1> QED
  BY <1>3, <1>4, <1>5, HistoryFrame, FromFrame

\* The history is always the end of everything that was pushed, and a replay walks over the
\* segment it began with: SendHistory keeps history_mutex_ for the whole of it, and PushMessage
\* waits (ServerManager.cpp, PushMessageToHistory and the SendHistory handler).
THEOREM HistoryStaysPut == Spec => []ReplayIsSegment
<1>1. Init => Typed /\ ReplayIsSegment
  <2>1. Init => ReplayIsSegment
    <3>1. Init => \A c \in Clients : h[Reader("text", c)].pc = "idle"
      BY ReaderNames DEF Init, Idle
    <3>2. Init => DOMAIN message_history_ = {}
      BY DEF Init
    <3> QED
      BY <3>1, <3>2 DEF ReplayIsSegment, At
  <2> QED
    BY <2>1, InitTyped
<1>2. Typed /\ ReplayIsSegment /\ [Next]_vars => (Typed /\ ReplayIsSegment)'
  BY TypedStep, SegmentStep
<1>3. Typed /\ ReplayIsSegment => ReplayIsSegment
  OBVIOUS
<1> QED
  BY <1>1, <1>2, <1>3, PTL DEF Spec

\* The entries of files among those ever pushed.
FileEntries == {i \in DOMAIN log : log[i].kind = "file"}

LEMMA FilesReceived ==
  ASSUME Typed
  PROVE  Received("file") = Cardinality(FileEntries) /\ IsFiniteSet(FileEntries)
         /\ Cardinality(FileEntries) \in Nat
<1>1. IsFiniteSet(1..Len(log)) /\ DOMAIN log = 1..Len(log)
  BY TypedFacts, FS_Interval, LenProperties DEF Typed, TypeOK
<1>2. IsFiniteSet(FileEntries) /\ Cardinality(FileEntries) \in Nat
  BY <1>1, FS_Subset, FS_CardinalityType DEF FileEntries
<1>3. {x \in Handlers : h[x].pc = "push" /\ "file" = "text"} = {}
  OBVIOUS
<1>4. Received("file") = Cardinality(FileEntries) + 0
  BY <1>3, FS_EmptySet DEF Received, FileEntries
<1> QED
  BY <1>2, <1>4

\* One entry more of a file for each that is received, and none otherwise.
LEMMA FilesCounted ==
  ASSUME Typed, Typed'
  PROVE  /\ UNCHANGED log => Received("file")' = Received("file")
         /\ \A x \in Handlers : PushText(x) => Received("file")' = Received("file")
         /\ \A c \in Clients : ReceiveFile(c) => Received("file")' = Received("file") + 1
<1>0. /\ Received("file") = Cardinality(FileEntries) /\ IsFiniteSet(FileEntries)
      /\ Received("file")' = Cardinality(FileEntries')
      /\ Len(log) \in Nat /\ DOMAIN log = 1..Len(log) /\ DOMAIN log' = 1..Len(log')
  <2>1. {x \in Handlers : h'[x].pc = "push" /\ "file" = "text"} = {}
    OBVIOUS
  <2>2. IsFiniteSet(1..Len(log')) /\ DOMAIN log' = 1..Len(log')
    BY FS_Interval, LenProperties DEF Typed, TypeOK
  <2>3. IsFiniteSet(FileEntries') /\ Cardinality(FileEntries') \in Nat
    BY <2>2, FS_Subset, FS_CardinalityType DEF FileEntries
  <2>4. Received("file")' = Cardinality(FileEntries') + 0
    BY <2>1, FS_EmptySet DEF Received, FileEntries
  <2>5. Received("file")' = Cardinality(FileEntries')
    BY <2>3, <2>4
  <2>6. Len(log) \in Nat /\ DOMAIN log = 1..Len(log)
    BY LenProperties DEF Typed, TypeOK
  <2> QED
    BY <2>2, <2>5, <2>6, FilesReceived
<1>1. UNCHANGED log => Received("file")' = Received("file")
  BY <1>0 DEF FileEntries
<1>2. ASSUME NEW x \in Handlers, PushText(x) PROVE Received("file")' = Received("file")
  <2>1. /\ Len(log') = Len(log) + 1
        /\ \A j \in 1..Len(log') : log'[j] = IF j <= Len(log) THEN log[j] ELSE h[x].msg
    <3>1. /\ Len(log') = Len(log) + 1
          /\ \A j \in 1..Len(log') :
               log'[j] = IF j <= Len(log) THEN log[j] ELSE <<h[x].msg>>[j - Len(log)]
      BY <1>2, PushOK, PushTextOK
    <3>2. \A j \in 1..Len(log') : j <= Len(log) \/ j - Len(log) = 1
      BY <1>0, <3>1
    <3> QED
      BY <1>2, <3>1, <3>2, PushTextOK
  <2>2. h[x].msg.kind # "file"
    BY <1>2, PushTextOK, Kinds
  <2>3. FileEntries' = FileEntries
    BY <1>0, <2>1, <2>2 DEF FileEntries
  <2> QED
    BY <1>0, <2>3
<1>3. ASSUME NEW c \in Clients, ReceiveFile(c) PROVE Received("file")' = Received("file") + 1
  <2> DEFINE n == Received("file") + 1
  <2>1. Len(log') = Len(log) + 2
    BY <1>3, PushOK, ReceiveFileOK
  <2>2. \A j \in 1..Len(log') :
          log'[j] = IF j <= Len(log) THEN log[j] ELSE <<FileLog(c, n), File(c, n)>>[j - Len(log)]
    BY <1>3, PushOK, ReceiveFileOK
  <2>3. log'[Len(log) + 1].kind = "log" /\ log'[Len(log) + 2].kind = "file"
    <3>1. Len(log) + 1 \in 1..Len(log') /\ ~(Len(log) + 1 <= Len(log)) /\ (Len(log) + 1) - Len(log) = 1
      BY <1>0, <2>1
    <3>2. Len(log) + 2 \in 1..Len(log') /\ ~(Len(log) + 2 <= Len(log)) /\ (Len(log) + 2) - Len(log) = 2
      BY <1>0, <2>1
    <3>3. FileLog(c, n).kind = "log" /\ File(c, n).kind = "file"
      BY <1>3, ReceiveFileOK, Kinds
    <3> HIDE DEF n
    <3> QED
      BY <2>2, <3>1, <3>2, <3>3
  <2>4. FileEntries' = FileEntries \cup {Len(log) + 2} /\ Len(log) + 2 \notin FileEntries
    <3>1. \A j \in 1..Len(log) : j \in 1..Len(log') /\ log'[j] = log[j]
      BY <1>0, <2>1, <2>2
    <3>2. DOMAIN log' = DOMAIN log \cup {Len(log) + 1, Len(log) + 2}
      BY <1>0, <2>1
    <3>3. \A j \in DOMAIN log : log'[j].kind = log[j].kind
      BY <1>0, <3>1
    <3>4. FileEntries' = {j \in DOMAIN log' : log'[j].kind = "file"}
      BY DEF FileEntries
    <3>5. FileEntries' = FileEntries \cup {Len(log) + 2}
      BY ONLY <2>3, <3>2, <3>3, <3>4 DEF FileEntries
    <3>6. Len(log) + 2 \notin DOMAIN log
      BY <1>0
    <3> QED
      BY <3>5, <3>6 DEF FileEntries
  <2> QED
    BY <1>0, <2>4, FS_AddElement
<1> QED
  BY <1>1, <1>2, <1>3

LEMMA HoldsLastStep == ASSUME Typed, Typed', HistoryHoldsLast, [Next]_vars PROVE HistoryHoldsLast'
<1>0. /\ Len(message_history_) \in Nat /\ MAX_HISTORY_MESSAGES \in Nat \ {0}
      /\ Received("file") \in Nat /\ message_history_ \in Seq(Messages)
      /\ Len(message_history_) >= MAX_HISTORY_MESSAGES \/ message_history_ = log
      /\ Len(message_history_) <= MAX_HISTORY_MESSAGES + Received("file")
  BY ConstantsAssumption, ReceivedNat, LenProperties DEF Typed, TypeOK, HistoryHoldsLast
\* What a push of n entries does.
<1>1. ASSUME NEW entries \in Seq(Messages), Len(entries) \in {1, 2}, Push(entries),
             Received("file")' = Received("file") + Len(entries) - 1
      PROVE  HistoryHoldsLast'
  <2> DEFINE longer == message_history_ \o entries
  <2>1. longer \in Seq(Messages) /\ Len(longer) = Len(message_history_) + Len(entries)
    BY <1>0, ConcatProperties
  <2>2. /\ log' = log \o entries
        /\ message_history_' = IF Len(longer) > MAX_HISTORY_MESSAGES THEN Tail(longer) ELSE longer
    BY <1>1 DEF Push
  <2>3. message_history_ = log => longer = log'
    BY <2>2
  <2> HIDE DEF longer
  <2>4. CASE Len(longer) > MAX_HISTORY_MESSAGES
    <3>1. longer # <<>>
      BY <1>0, <2>1, <2>4, EmptySeq
    <3>2. Len(message_history_') = Len(longer) - 1
      BY <2>1, <2>2, <2>4, <3>1, HeadTailProperties
    <3>3. Len(message_history_') >= MAX_HISTORY_MESSAGES
      BY <1>0, <1>1, <2>1, <2>4, <3>2
    <3>4. Len(message_history_') <= MAX_HISTORY_MESSAGES + Received("file")'
      BY <1>0, <1>1, <2>1, <3>2
    <3> QED
      BY <3>3, <3>4 DEF HistoryHoldsLast
  <2>5. CASE ~(Len(longer) > MAX_HISTORY_MESSAGES)
    <3>1. message_history_' = longer
      BY <2>2, <2>5
    <3> DEFINE l == Len(message_history_)
               e == Len(entries)
               r == Received("file")
    <3>a. /\ l \in Nat /\ MAX_HISTORY_MESSAGES \in Nat /\ r \in Nat /\ e \in {1, 2}
          /\ ~(l + e > MAX_HISTORY_MESSAGES)
      BY <1>0, <1>1, <2>1, <2>5
    <3>b. ~(l >= MAX_HISTORY_MESSAGES) /\ l + e <= MAX_HISTORY_MESSAGES + (r + e - 1)
      <4> HIDE DEF l, e, r
      <4> QED
        BY ONLY <3>a
    <3>2. ~(Len(message_history_) >= MAX_HISTORY_MESSAGES)
      BY <3>b
    <3>3. message_history_' = log'
      BY <1>0, <2>3, <3>1, <3>2
    <3>4. Len(message_history_') <= MAX_HISTORY_MESSAGES + Received("file")'
      BY <1>1, <2>1, <3>1, <3>b
    <3> QED
      BY <3>3, <3>4 DEF HistoryHoldsLast
  <2> QED
    BY <2>4, <2>5
<1>2. CASE UNCHANGED <<message_history_, log>>
  <2>1. Received("file")' = Received("file")
    BY <1>2, FilesCounted
  <2> QED
    BY <1>0, <1>2, <2>1 DEF HistoryHoldsLast
<1>3. ASSUME NEW x \in Handlers, PushText(x) PROVE HistoryHoldsLast'
  <2>1. Received("file")' = Received("file") + 1 - 1
    BY <1>0, <1>3, FilesCounted
  <2> QED
    BY <1>1, <1>3, <2>1, PushTextOK
<1>4. ASSUME NEW c \in Clients, ReceiveFile(c) PROVE HistoryHoldsLast'
  <2>1. Received("file")' = Received("file") + 2 - 1
    BY <1>0, <1>4, FilesCounted
  <2> QED
    BY <1>1, <1>4, <2>1, ReceiveFileOK
<1> QED
  BY <1>2, <1>3, <1>4, HistoryFrame

\* The history keeps the last MAX_HISTORY_MESSAGES entries for whoever joins, and grows past
\* that limit by one entry for each file at most: Broadcast pushes two entries for a file,
\* the announcement and the file, and takes out one (ServerManager.cpp:356).
THEOREM HistoryKeepsLast == Spec => []HistoryHoldsLast
<1>1. Init => HistoryHoldsLast
  <2> SUFFICES ASSUME Init PROVE HistoryHoldsLast
    OBVIOUS
  <2>1. message_history_ = <<>> /\ log = <<>> /\ Len(message_history_) = 0
    BY EmptySeq DEF Init
  <2>2. Received("file") \in Nat
    BY InitTyped, ReceivedNat
  <2> QED
    BY <2>1, <2>2, ConstantsAssumption DEF HistoryHoldsLast
<1>2. Typed /\ HistoryHoldsLast /\ [Next]_vars => (Typed /\ HistoryHoldsLast)'
  BY TypedStep, HoldsLastStep
<1> QED
  BY <1>1, <1>2, InitTyped, PTL DEF Spec

-----------------------------------------------------------------------------
(* Which clients are listed.                                               *)

SocketNames == {"text", "file"} \X Clients

Listing ==
  /\ \A s \in SocketNames : s \notin Sockets => conn[s] = "none"
  /\ \A c \in Clients : <<"text", c>> \in Sockets /\ <<"file", c>> \in Sockets =>
       (conn[<<"text", c>>] = "none" <=> conn[<<"file", c>>] = "none")
  /\ \A c \in Elements(text_port_clients_) : conn[<<"text", c>>] # "none"
  /\ \A c \in Clients : joined[c] # 0 =>
       /\ conn[<<"file", c>>] \in {"listed", "reading", "closed"}
       /\ IsOpen("file", c) => c \in Elements(file_port_clients_)
  /\ \A c \in Elements(file_port_clients_) : joined[c] # 0
  /\ \A c \in found : joined[c] # 0
  /\ h[Acceptor].pc # "idle" => joined[h[Acceptor].sock] # 0

\* A connection that was listed stays open until it is closed for good.
NotReopened ==
  \A c \in Clients : joined[c] # 0 => joined'[c] # 0 /\ (IsOpen("file", c)' => IsOpen("file", c))

SameAcceptor ==
  h'[Acceptor].pc # "idle" => h[Acceptor].pc # "idle" /\ h'[Acceptor].sock = h[Acceptor].sock

LEMMA ListedElements ==
  ASSUME Typed
  PROVE  /\ Elements(text_port_clients_) \subseteq Clients /\ Elements(file_port_clients_) \subseteq Clients
         /\ found \subseteq Clients
         /\ \A x \in Handlers : x[1] = "accept" /\ h[x].pc # "idle" => h[x].sock \in Clients
<1>1. ASSUME NEW s \in Seq(Clients) PROVE Elements(s) \subseteq Clients
  BY ElementOfSeq, LenProperties DEF Elements
<1> QED
  BY <1>1, Variables, TypedFacts DEF HandlerOK

LEMMA AppendElements ==
  ASSUME NEW S, NEW s \in Seq(S), NEW c \in S
  PROVE  Elements(Append(s, c)) = Elements(s) \cup {c}
<1>1. /\ Append(s, c) \in Seq(S) /\ Len(Append(s, c)) = Len(s) + 1
      /\ \A i \in 1..Len(s) : Append(s, c)[i] = s[i]
      /\ Append(s, c)[Len(s) + 1] = c
  BY AppendProperties
<1>2. Len(s) \in Nat /\ DOMAIN s = 1..Len(s) /\ DOMAIN Append(s, c) = 1..(Len(s) + 1)
  BY <1>1, LenProperties
<1> QED
  BY <1>1, <1>2 DEF Elements

LEMMA ListingKept ==
  ASSUME Typed, Listing, UNCHANGED <<text_port_clients_, file_port_clients_, joined>>,
         found' \subseteq found \cup Elements(file_port_clients_), SameAcceptor,
         \A s \in SocketNames :
           \/ conn'[s] = conn[s]
           \/ conn[s] \in {"backlog", "accepted"} /\ conn'[s] \in {"accepted", "closed"}
  PROVE  Listing' /\ NotReopened
<1>0. \A c \in Clients : <<"text", c>> \in SocketNames /\ <<"file", c>> \in SocketNames
  BY DEF SocketNames
<1>1. \A s \in SocketNames : s \notin Sockets => conn'[s] = "none"
  BY DEF Listing
<1>2. \A s \in SocketNames : conn'[s] = "none" <=> conn[s] = "none"
  OBVIOUS
<1>3. Elements(text_port_clients_)' = Elements(text_port_clients_)
      /\ Elements(file_port_clients_)' = Elements(file_port_clients_)
  BY DEF Elements
<1>4. \A c \in Clients : joined[c] # 0 =>
        /\ conn'[<<"file", c>>] = conn[<<"file", c>>]
        /\ conn[<<"file", c>>] \in {"listed", "reading", "closed"}
        /\ IsOpen("file", c) => c \in Elements(file_port_clients_)
  BY <1>0 DEF Listing
<1>5. NotReopened
  BY <1>4 DEF NotReopened, IsOpen
<1>6. \A c \in Clients : joined'[c] # 0 =>
        /\ conn'[<<"file", c>>] \in {"listed", "reading", "closed"}
        /\ IsOpen("file", c)' => c \in Elements(file_port_clients_)'
  BY <1>3, <1>4 DEF IsOpen
<1>7. \A c \in Clients : <<"text", c>> \in Sockets /\ <<"file", c>> \in Sockets =>
        (conn'[<<"text", c>>] = "none" <=> conn'[<<"file", c>>] = "none")
  BY <1>0, <1>2 DEF Listing
<1>8. \A c \in Elements(text_port_clients_)' : conn'[<<"text", c>>] # "none"
  BY <1>0, <1>2, <1>3, ListedElements DEF Listing
<1>9. /\ \A c \in Elements(file_port_clients_)' : joined'[c] # 0
      /\ \A c \in found' : joined'[c] # 0
      /\ h'[Acceptor].pc # "idle" => joined'[h'[Acceptor].sock] # 0
  BY <1>3 DEF Listing, SameAcceptor
<1> QED
  BY <1>1, <1>5, <1>6, <1>7, <1>8, <1>9 DEF Listing

\* The accept handler works on one socket.
LEMMA AcceptorKept ==
  ASSUME Typed, NEW x \in Handlers, Handler(x)
  PROVE  SameAcceptor
<1>0. /\ h \in [Handlers -> Local(Len(queues))] /\ h[x] \in Local(Len(queues)) /\ HandlerOK(x, h[x])
      /\ h' = [h EXCEPT ![x] = h'[x]] /\ Acceptor \in Handlers
  <2>1. Acceptor \in Handlers
    BY DEF Handlers
  <2> QED
    BY <2>1, TypedFacts, Variables, HandlerLocal DEF LocalChange
<1>1. CASE x # Acceptor
  BY <1>0, <1>1 DEF SameAcceptor
<1>2. CASE x = Acceptor
  <2>1. x[1] = "accept"
    BY <1>2 DEF Acceptor
  <2>2. h[x].pc \notin {"push", "send", "find", "lock", "replay", "end", "clients", "next", "enqueue", "log",
                        "sendlog"}
    BY <1>0, <2>1 DEF HandlerOK
  <2>3. Lookup(x) \/ Emplace(x) \/ Drop(x) \/ Join(x)
    <3>1. ~PushText(x) /\ ~SendText(x) /\ ~CopyFileClients(x) /\ ~NextFileClient(x) /\ ~EnqueueFile(x)
      BY <2>2 DEF PushText, SendText, CopyFileClients, NextFileClient, EnqueueFile, At
    <3>2. ~CopyTextClients(x) /\ ~SendLog(x) /\ ~FindFileSocket(x) /\ ~FileSocketClosed(x)
      BY <2>1, <2>2 DEF CopyTextClients, SendLog, FindFileSocket, FileSocketClosed, At
    <3>3. ~LockHistory(x) /\ ~Replay(x) /\ ~UnlockHistory(x) /\ ~SendEnd(x)
      BY <2>2 DEF LockHistory, Replay, UnlockHistory, SendEnd, At
    <3> QED
      BY <3>1, <3>2, <3>3 DEF Handler
  <2>4. h[x].pc # "idle"
    BY <2>3 DEF Lookup, Emplace, Drop, Join, At
  <2>5. h'[x].sock = h[x].sock
    <3>1. CASE Lookup(x) \/ Emplace(x)
      BY <1>0, <3>1 DEF Lookup, FindOrBuild, Emplace, Goto, Local
    <3>2. CASE Drop(x) \/ Join(x)
      <4>1. Released(x) \/ h' = [h EXCEPT ![x].pc = "join"]
        BY <3>2 DEF Drop, Join, Goto
      <4>2. Released(x) => h' = [h EXCEPT ![x] = [@ EXCEPT !.pc = "read", !.q = 0]]
        BY <2>1 DEF Released
      <4> QED
        BY <1>0, <4>1, <4>2 DEF Local
    <3> QED
      BY <2>3, <3>1, <3>2
  <2> QED
    BY <1>2, <2>4, <2>5 DEF SameAcceptor
<1> QED
  BY <1>1, <1>2

LEMMA FoundFrame ==
  ASSUME [Next]_vars
  PROVE  \/ UNCHANGED found
         \/ \E x \in Handlers : FindFileSocket(x) /\ found' = found \cup {x[2]}
                                /\ x[2] \in Elements(file_port_clients_)
<1>1. ASSUME NEW c \in Clients, Client(c) PROVE UNCHANGED found
  BY <1>1 DEF Client, Connect, ReceiveText, ReceiveFile, ReceiveSendHistory, ReadError, historyVars
<1>2. CASE Accept
  BY <1>2 DEF Accept, AcceptTextConnection, AcceptFileConnection, StartReading, historyVars
<1>3. ASSUME NEW x \in Handlers, Handler(x), ~FindFileSocket(x) PROVE UNCHANGED found
  <2>1. CASE Lookup(x) \/ Emplace(x) \/ Drop(x) \/ Join(x)
    BY <2>1 DEF Lookup, Emplace, Drop, Join, historyVars
  <2>2. CASE PushText(x) \/ SendText(x) \/ CopyFileClients(x) \/ NextFileClient(x) \/ EnqueueFile(x)
    BY <2>2 DEF PushText, SendText, CopyFileClients, NextFileClient, EnqueueFile, historyVars
  <2>3. CASE CopyTextClients(x) \/ SendLog(x) \/ LockHistory(x) \/ FileSocketClosed(x)
    BY <2>3 DEF CopyTextClients, SendLog, LockHistory, FileSocketClosed, historyVars
  <2>4. CASE Replay(x) \/ UnlockHistory(x) \/ SendEnd(x)
    BY <2>4 DEF Replay, UnlockHistory, SendEnd, historyVars
  <2> QED
    BY <1>3, <2>1, <2>2, <2>3, <2>4 DEF Handler
<1>4. ASSUME NEW q \in DOMAIN queues, Worker(q) PROVE UNCHANGED found
  BY <1>4 DEF Worker, BeginTransfer, EndTransfer, SpuriousWakeup, historyVars
<1>5. CASE StopServer \/ Stop \/ UNCHANGED vars
  BY <1>5 DEF StopServer, Stop, CloseFileAcceptor, StopQueue, QueueJoined, ClearQueues, CloseTextClients,
              CloseFileClients, StopContext, vars, historyVars
<1>6. ASSUME NEW x \in Handlers, FindFileSocket(x), ~UNCHANGED found
      PROVE  found' = found \cup {x[2]} /\ x[2] \in Elements(file_port_clients_)
  BY <1>6 DEF FindFileSocket
<1> QED
  BY <1>1, <1>2, <1>3, <1>4, <1>5, <1>6 DEF Next

LEMMA ListingConnect ==
  ASSUME Typed, Listing, NEW c \in Clients, Connect(c)
  PROVE  Listing' /\ NotReopened
<1>0. /\ conn \in [SocketNames -> {"none", "backlog", "accepted", "listed", "reading", "closed"}]
      /\ \A d \in Clients : <<"text", d>> \in SocketNames /\ <<"file", d>> \in SocketNames
      /\ Sockets \subseteq SocketNames
  BY ConstantsAssumption, Variables DEF SocketNames
<1>1. /\ UNCHANGED <<h, found, joined, text_port_clients_, file_port_clients_>>
      /\ Listening("file")
      /\ \E s \in Sockets : s[2] = c /\ conn[s] = "none"
      /\ \A s \in SocketNames : conn'[s] = IF s[2] # c \/ s \notin Sockets THEN conn[s]
                                    ELSE IF Listening(s[1]) THEN "backlog" ELSE "closed"
  BY <1>0 DEF Connect, serverVars, chatVars, historyVars
<1>2. \A s \in SocketNames : s[2] = c /\ s \in Sockets => conn'[s] \in {"backlog", "closed"} /\ conn[s] = "none"
  <2>1. PICK s \in Sockets : s[2] = c /\ conn[s] = "none"
    BY <1>1
  <2>2. s = <<"text", c>> \/ s = <<"file", c>>
    BY <1>0, <2>1 DEF SocketNames
  <2>3. ASSUME NEW r \in SocketNames, r[2] = c, r \in Sockets PROVE conn[r] = "none"
    <3>1. r = <<"text", c>> \/ r = <<"file", c>>
      BY <2>3 DEF SocketNames
    <3> QED
      BY <2>1, <2>2, <2>3, <3>1 DEF Listing
  <2> QED
    BY <1>1, <2>3
<1>3. \A s \in SocketNames : conn'[s] = "none" => conn[s] = "none"
  BY <1>1
<1>4. joined[c] = 0
  BY <1>0, <1>1, <1>2 DEF Listing, SocketNames
<1>5. \A d \in Clients : d # c => conn'[<<"text", d>>] = conn[<<"text", d>>] /\ conn'[<<"file", d>>] = conn[<<"file", d>>]
  BY <1>0, <1>1
<1>6. /\ Elements(text_port_clients_)' = Elements(text_port_clients_)
      /\ Elements(file_port_clients_)' = Elements(file_port_clients_)
  BY <1>1 DEF Elements
<1>7. \A s \in SocketNames : s \notin Sockets => conn'[s] = "none"
  BY <1>1 DEF Listing
<1>8. \A d \in Clients : <<"text", d>> \in Sockets /\ <<"file", d>> \in Sockets =>
        (conn'[<<"text", d>>] = "none" <=> conn'[<<"file", d>>] = "none")
  BY <1>0, <1>2, <1>5 DEF Listing
<1>9. \A d \in Elements(text_port_clients_)' : conn'[<<"text", d>>] # "none"
  BY <1>0, <1>3, <1>6, ListedElements DEF Listing
<1>10. \A d \in Clients : joined'[d] # 0 =>
         /\ conn'[<<"file", d>>] \in {"listed", "reading", "closed"}
         /\ IsOpen("file", d)' => d \in Elements(file_port_clients_)'
  BY <1>1, <1>4, <1>5, <1>6 DEF Listing, IsOpen
<1>11. NotReopened
  BY <1>1, <1>4, <1>5 DEF NotReopened, IsOpen
<1>12. /\ \A d \in Elements(file_port_clients_)' : joined'[d] # 0
       /\ \A d \in found' : joined'[d] # 0
       /\ h'[Acceptor].pc # "idle" => joined'[h'[Acceptor].sock] # 0
  BY <1>1, <1>6 DEF Listing
<1> QED
  BY <1>7, <1>8, <1>9, <1>10, <1>11, <1>12 DEF Listing

LEMMA ListingAccept ==
  ASSUME Typed, Listing, Accept
  PROVE  Listing' /\ NotReopened
<1>0. /\ conn \in [SocketNames -> {"none", "backlog", "accepted", "listed", "reading", "closed"}]
      /\ \A d \in Clients : <<"text", d>> \in SocketNames /\ <<"file", d>> \in SocketNames
      /\ text_port_clients_ \in Seq(Clients) /\ file_port_clients_ \in Seq(Clients)
      /\ joined \in [Clients -> 0..(Len(log) + 1)] /\ Len(log) \in Nat
      /\ h \in [Handlers -> Local(Len(queues))] /\ h[Acceptor] \in Local(Len(queues))
      /\ Acceptor \in Handlers /\ Acceptor[1] = "accept"
  <2>1. Acceptor \in Handlers /\ Acceptor[1] = "accept"
    BY DEF Handlers, Acceptor
  <2> QED
    BY <2>1, TypedFacts, Variables DEF SocketNames
<1>1. ASSUME NEW c \in Clients, AcceptTextConnection(c) PROVE Listing' /\ NotReopened
  <2>1. /\ UNCHANGED <<h, found, joined, file_port_clients_>>
        /\ conn[<<"text", c>>] \in {"backlog", "accepted"}
        /\ \A s \in SocketNames : conn'[s] = IF s = <<"text", c>> THEN "reading" ELSE conn[s]
        /\ text_port_clients_' = Append(text_port_clients_, c)
    BY <1>0, <1>1 DEF AcceptTextConnection, Accepted, historyVars
  <2>2. Elements(text_port_clients_)' = Elements(text_port_clients_) \cup {c}
        /\ Elements(file_port_clients_)' = Elements(file_port_clients_)
    <3>1. Elements(Append(text_port_clients_, c)) = Elements(text_port_clients_) \cup {c}
      BY <1>0, AppendElements
    <3> QED
      BY <2>1, <3>1 DEF Elements
  <2>3. \A s \in SocketNames : conn'[s] = "none" <=> conn[s] = "none"
    BY <2>1
  <2>4. \A s \in SocketNames : s \notin Sockets => conn'[s] = "none"
    BY <2>3 DEF Listing
  <2>5. \A d \in Clients : <<"text", d>> \in Sockets /\ <<"file", d>> \in Sockets =>
          (conn'[<<"text", d>>] = "none" <=> conn'[<<"file", d>>] = "none")
    BY <1>0, <2>3 DEF Listing
  <2>6. \A d \in Elements(text_port_clients_)' : conn'[<<"text", d>>] # "none"
    BY <1>0, <2>1, <2>2, <2>3, ListedElements DEF Listing
  <2>7. \A d \in Clients : conn'[<<"file", d>>] = conn[<<"file", d>>]
    BY <1>0, <2>1
  <2> QED
    BY <2>1, <2>2, <2>4, <2>5, <2>6, <2>7 DEF Listing, NotReopened, IsOpen
<1>2. ASSUME NEW c \in Clients, AcceptFileConnection(c) PROVE Listing' /\ NotReopened
  <2>1. /\ UNCHANGED <<found, text_port_clients_>>
        /\ conn[<<"file", c>>] \in {"backlog", "accepted"}
        /\ \A s \in SocketNames : conn'[s] = IF s = <<"file", c>> THEN "listed" ELSE conn[s]
        /\ file_port_clients_' = Append(file_port_clients_, c)
        /\ joined' = [joined EXCEPT ![c] = Len(log) + 1]
        /\ h' = [h EXCEPT ![Acceptor].pc = "lookup", ![Acceptor].sock = c]
    BY <1>0, <1>2 DEF AcceptFileConnection, Accepted, historyVars
  <2>2. Elements(file_port_clients_)' = Elements(file_port_clients_) \cup {c}
        /\ Elements(text_port_clients_)' = Elements(text_port_clients_)
    <3>1. Elements(Append(file_port_clients_, c)) = Elements(file_port_clients_) \cup {c}
      BY <1>0, AppendElements
    <3> QED
      BY <2>1, <3>1 DEF Elements
  <2>3. \A s \in SocketNames : conn'[s] = "none" <=> conn[s] = "none"
    BY <2>1
  <2>4. \A s \in SocketNames : s \notin Sockets => conn'[s] = "none"
    BY <2>3 DEF Listing
  <2>5. \A d \in Clients : <<"text", d>> \in Sockets /\ <<"file", d>> \in Sockets =>
          (conn'[<<"text", d>>] = "none" <=> conn'[<<"file", d>>] = "none")
    BY <1>0, <2>3 DEF Listing
  <2>6. \A d \in Elements(text_port_clients_)' : conn'[<<"text", d>>] # "none"
    BY <1>0, <2>2, <2>3, ListedElements DEF Listing
  <2>7. \A d \in Clients : IF d = c THEN conn'[<<"file", d>>] = "listed"
                                    ELSE conn'[<<"file", d>>] = conn[<<"file", d>>]
    <3>1. ASSUME NEW d \in Clients, d # c PROVE conn'[<<"file", d>>] = conn[<<"file", d>>]
      BY <1>0, <2>1, <3>1
    <3>2. conn'[<<"file", c>>] = "listed"
      BY <1>0, <2>1
    <3> QED
      BY <3>1, <3>2
  <2>8. joined'[c] # 0 /\ joined[c] = 0 /\ \A d \in Clients : d # c => joined'[d] = joined[d]
    <3>1. joined[c] = 0
      BY <2>1 DEF Listing
    <3>2. Len(log) + 1 # 0
      BY <1>0
    <3> QED
      BY <1>0, <2>1, <3>1, <3>2
  <2>9. h'[Acceptor].sock = c
    BY <1>0, <2>1 DEF Local
  <2>10. \A d \in Clients : joined'[d] # 0 =>
           /\ conn'[<<"file", d>>] \in {"listed", "reading", "closed"}
           /\ IsOpen("file", d)' => d \in Elements(file_port_clients_)'
    BY <2>2, <2>7, <2>8 DEF Listing, IsOpen
  <2>11. NotReopened
    BY <2>7, <2>8 DEF NotReopened, IsOpen
  <2>12. /\ \A d \in Elements(file_port_clients_)' : joined'[d] # 0
         /\ \A d \in found' : joined'[d] # 0
         /\ h'[Acceptor].pc # "idle" => joined'[h'[Acceptor].sock] # 0
    BY <2>1, <2>2, <2>8, <2>9, ListedElements DEF Listing
  <2> QED
    BY <2>4, <2>5, <2>6, <2>10, <2>11, <2>12 DEF Listing
<1>3. CASE StartReading
  <2> DEFINE c == h[Acceptor].sock
  <2>1. /\ UNCHANGED <<found, joined, text_port_clients_, file_port_clients_>>
        /\ h' = [h EXCEPT ![Acceptor] = Idle] /\ h[Acceptor].pc = "read"
        /\ conn' = [conn EXCEPT ![<<"file", c>>] = IF @ = "closed" THEN @ ELSE "reading"]
    BY <1>3 DEF StartReading, chatVars, historyVars, At
  <2>2. c \in Clients /\ joined[c] # 0
    BY <1>0, <2>1, ListedElements DEF Listing
  <2>3. conn[<<"file", c>>] \in {"listed", "reading", "closed"}
    BY <2>2 DEF Listing
  <2>4. \A s \in SocketNames : conn'[s] = IF s = <<"file", c>> /\ conn[s] # "closed" THEN "reading" ELSE conn[s]
    BY <1>0, <2>1
  <2>5. Elements(file_port_clients_)' = Elements(file_port_clients_)
        /\ Elements(text_port_clients_)' = Elements(text_port_clients_)
    BY <2>1 DEF Elements
  <2>6. \A s \in SocketNames : conn'[s] = "none" <=> conn[s] = "none"
    BY <2>3, <2>4
  <2>7. \A s \in SocketNames : s \notin Sockets => conn'[s] = "none"
    BY <2>6 DEF Listing
  <2>8. \A d \in Clients : <<"text", d>> \in Sockets /\ <<"file", d>> \in Sockets =>
          (conn'[<<"text", d>>] = "none" <=> conn'[<<"file", d>>] = "none")
    BY <1>0, <2>6 DEF Listing
  <2>9. \A d \in Elements(text_port_clients_)' : conn'[<<"text", d>>] # "none"
    BY <1>0, <2>5, <2>6, ListedElements DEF Listing
  <2>10. \A d \in Clients : IF d = c /\ conn[<<"file", d>>] # "closed"
                            THEN conn'[<<"file", d>>] = "reading"
                            ELSE conn'[<<"file", d>>] = conn[<<"file", d>>]
    BY <1>0, <2>4
  <2>11. \A d \in Clients : joined'[d] # 0 =>
           /\ conn'[<<"file", d>>] \in {"listed", "reading", "closed"}
           /\ IsOpen("file", d)' => d \in Elements(file_port_clients_)'
    BY <2>1, <2>5, <2>10 DEF Listing, IsOpen
  <2>12. NotReopened
    BY <2>1, <2>10 DEF NotReopened, IsOpen
  <2>13. h'[Acceptor].pc = "idle"
    BY <1>0, <2>1 DEF Idle
  <2>14. /\ \A d \in Elements(file_port_clients_)' : joined'[d] # 0
         /\ \A d \in found' : joined'[d] # 0
    BY <2>1, <2>5 DEF Listing
  <2> QED
    BY <2>7, <2>8, <2>9, <2>11, <2>12, <2>13, <2>14 DEF Listing
<1> QED
  BY <1>1, <1>2, <1>3 DEF Accept

LEMMA ListingClose ==
  ASSUME Typed, Listing, CloseTextClients \/ CloseFileClients
  PROVE  Listing' /\ NotReopened
<1>0. /\ conn \in [SocketNames -> {"none", "backlog", "accepted", "listed", "reading", "closed"}]
      /\ \A d \in Clients : <<"text", d>> \in SocketNames /\ <<"file", d>> \in SocketNames
      /\ UNCHANGED <<h, found, joined>>
  BY Variables DEF SocketNames, CloseTextClients, CloseFileClients, historyVars
<1>1. CASE CloseTextClients
  <2>1. /\ UNCHANGED file_port_clients_ /\ text_port_clients_' = <<>>
        /\ \A s \in SocketNames : conn'[s] = IF s[1] = "text" /\ s[2] \in Elements(text_port_clients_)
                                      THEN "closed" ELSE conn[s]
    BY <1>0, <1>1 DEF CloseTextClients, Closed
  <2>2. Elements(file_port_clients_)' = Elements(file_port_clients_) /\ Elements(text_port_clients_)' = {}
    BY <2>1 DEF Elements
  <2>3. /\ \A d \in Clients : conn'[<<"file", d>>] = conn[<<"file", d>>]
        /\ \A d \in Clients : conn'[<<"text", d>>] = IF d \in Elements(text_port_clients_) THEN "closed"
                                                     ELSE conn[<<"text", d>>]
    BY <1>0, <2>1
  <2>4. \A s \in SocketNames : conn'[s] = "none" <=> conn[s] = "none"
    <3>1. \A s \in SocketNames : s[1] = "text" /\ s[2] \in Elements(text_port_clients_) => s = <<"text", s[2]>>
      BY DEF SocketNames
    <3> QED
      BY <2>1, <3>1 DEF Listing
  <2>5. \A s \in SocketNames : s \notin Sockets => conn'[s] = "none"
    BY <2>4 DEF Listing
  <2>6. \A d \in Clients : <<"text", d>> \in Sockets /\ <<"file", d>> \in Sockets =>
          (conn'[<<"text", d>>] = "none" <=> conn'[<<"file", d>>] = "none")
    BY <1>0, <2>4 DEF Listing
  <2> QED
    BY <1>0, <2>2, <2>3, <2>5, <2>6 DEF Listing, NotReopened, IsOpen
<1>2. CASE CloseFileClients
  <2>1. /\ UNCHANGED text_port_clients_ /\ file_port_clients_' = <<>>
        /\ \A s \in SocketNames : conn'[s] = IF s[1] = "file" /\ s[2] \in Elements(file_port_clients_)
                                      THEN "closed" ELSE conn[s]
    BY <1>0, <1>2 DEF CloseFileClients, Closed
  <2>2. Elements(text_port_clients_)' = Elements(text_port_clients_) /\ Elements(file_port_clients_)' = {}
    BY <2>1 DEF Elements
  <2>3. \A d \in Clients : conn'[<<"file", d>>] = IF d \in Elements(file_port_clients_) THEN "closed"
                                                  ELSE conn[<<"file", d>>]
    BY <1>0, <2>1
  <2>4. \A s \in SocketNames : conn'[s] = "none" <=> conn[s] = "none"
    <3>1. \A s \in SocketNames : s[1] = "file" /\ s[2] \in Elements(file_port_clients_) =>
                            s = <<"file", s[2]>> /\ s[2] \in Clients
      BY DEF SocketNames
    <3> QED
      BY <2>1, <3>1 DEF Listing
  <2>5. \A s \in SocketNames : s \notin Sockets => conn'[s] = "none"
    BY <2>4 DEF Listing
  <2>6. \A d \in Clients : <<"text", d>> \in Sockets /\ <<"file", d>> \in Sockets =>
          (conn'[<<"text", d>>] = "none" <=> conn'[<<"file", d>>] = "none")
    BY <1>0, <2>4 DEF Listing
  <2>7. \A d \in Elements(text_port_clients_)' : conn'[<<"text", d>>] # "none"
    BY <1>0, <2>2, <2>4, ListedElements DEF Listing
  <2>8. \A d \in Clients : joined[d] # 0 =>
          /\ conn'[<<"file", d>>] = "closed"
          /\ ~IsOpen("file", d)'
    BY <2>3 DEF Listing, IsOpen
  <2> QED
    BY <1>0, <2>2, <2>5, <2>6, <2>7, <2>8 DEF Listing, NotReopened
<1> QED
  BY <1>1, <1>2

LEMMA ListingStep == ASSUME Typed, Listing, [Next]_vars PROVE Listing' /\ NotReopened
<1>0. /\ conn \in [SocketNames -> {"none", "backlog", "accepted", "listed", "reading", "closed"}]
      /\ h \in [Handlers -> Local(Len(queues))]
  BY Variables DEF SocketNames
<1>a. CASE /\ UNCHANGED <<conn, text_port_clients_, file_port_clients_, joined, found>>
           /\ SameAcceptor
  BY <1>a, ListingKept
<1>b. UNCHANGED h => SameAcceptor
  BY DEF SameAcceptor
<1>c. ASSUME NEW kind \in {"text", "file"}, CloseAcceptor(kind)
      PROVE  \A s \in SocketNames :
               \/ conn'[s] = conn[s]
               \/ conn[s] \in {"backlog", "accepted"} /\ conn'[s] \in {"accepted", "closed"}
  BY <1>0, <1>c DEF CloseAcceptor
<1>1. ASSUME NEW c \in Clients, Client(c) PROVE Listing' /\ NotReopened
  <2>1. CASE Connect(c)
    BY <2>1, ListingConnect
  <2>2. ASSUME NEW kind \in {"text", "file"}, LocalChange(Reader(kind, c)) PROVE SameAcceptor
    <3>1. Reader(kind, c) # Acceptor /\ Acceptor \in Handlers
      BY DEF Reader, Acceptor, Handlers
    <3> QED
      BY <1>0, <2>2, <3>1 DEF LocalChange, SameAcceptor
  <2>3. CASE ReceiveText(c) \/ ReceiveFile(c) \/ ReceiveSendHistory(c)
    BY <1>a, <2>2, <2>3, BeginLocal
    DEF ReceiveText, ReceiveFile, ReceiveSendHistory, serverVars, chatVars, historyVars
  <2>4. CASE (\E kind \in {"text", "file"} : ReadError(kind, c))
    BY <1>a, <1>b, <2>4 DEF ReadError, serverVars, chatVars, historyVars
  <2> QED
    BY <1>1, <2>1, <2>3, <2>4 DEF Client
<1>2. ASSUME NEW x \in Handlers, Handler(x) PROVE Listing' /\ NotReopened
  <2>1. UNCHANGED <<conn, text_port_clients_, file_port_clients_, joined>> /\ SameAcceptor
    BY <1>2, HandlerFrame, AcceptorKept
  <2>2. found' \subseteq found \cup Elements(file_port_clients_)
    BY FoundFrame
  <2> QED
    BY <2>1, <2>2, ListingKept
<1>3. ASSUME NEW q \in DOMAIN queues, Worker(q) PROVE Listing' /\ NotReopened
  BY <1>3, <1>a, <1>b DEF Worker, BeginTransfer, EndTransfer, SpuriousWakeup, serverVars, chatVars, historyVars
<1>4. CASE StopServer \/ CloseFileAcceptor
  <2>1. /\ UNCHANGED <<text_port_clients_, file_port_clients_, joined, found, h>>
        /\ CloseAcceptor("text") \/ CloseAcceptor("file")
    BY <1>4 DEF StopServer, CloseFileAcceptor, chatVars, historyVars
  <2> QED
    BY <1>b, <1>c, <2>1, ListingKept
<1>5. CASE QueueJoined \/ ClearQueues \/ StopContext \/ (\E q \in DOMAIN queues : StopQueue(q))
  BY <1>5, <1>a, <1>b DEF QueueJoined, ClearQueues, StopContext, StopQueue, chatVars, historyVars
<1>6. CASE UNCHANGED vars
  BY <1>6, <1>a, <1>b DEF vars, serverVars, chatVars, historyVars
<1> QED
  BY <1>1, <1>2, <1>3, <1>4, <1>5, <1>6, ListingAccept, ListingClose DEF Next, Stop

LEMMA InitListing == Init => Listing
<1> SUFFICES ASSUME Init PROVE Listing
  OBVIOUS
<1>1. /\ Elements(text_port_clients_) = {c \in Present : <<"text", c>> \in Sockets}
      /\ Elements(file_port_clients_) = {c \in Present : <<"file", c>> \in Sockets}
  BY CameOnce DEF Init
<1>2. /\ \A s \in SocketNames : conn[s] = IF s \in Sockets /\ s[2] \in Present THEN "reading" ELSE "none"
      /\ \A c \in Clients : <<"text", c>> \in SocketNames /\ <<"file", c>> \in SocketNames
      /\ Present \subseteq Clients
  BY ConstantsAssumption DEF Init, SocketNames
<1>3. \A c \in Clients : joined[c] = IF c \in Elements(file_port_clients_) THEN 1 ELSE 0
  BY DEF Init
<1>4. h[Acceptor].pc = "idle" /\ found = {}
  BY DEF Init, Handlers, Idle
<1>5. \A c \in Clients : /\ conn[<<"text", c>>] = IF c \in Elements(text_port_clients_) THEN "reading" ELSE "none"
                         /\ conn[<<"file", c>>] = IF c \in Elements(file_port_clients_) THEN "reading" ELSE "none"
  BY <1>1, <1>2
<1>6. \A s \in SocketNames : s \notin Sockets => conn[s] = "none"
  BY <1>2
<1>7. \A c \in Clients : <<"text", c>> \in Sockets /\ <<"file", c>> \in Sockets =>
        (conn[<<"text", c>>] = "none" <=> conn[<<"file", c>>] = "none")
  BY <1>1, <1>5
<1>8. Elements(text_port_clients_) \subseteq Clients /\ Elements(file_port_clients_) \subseteq Clients
  BY <1>1, <1>2
<1>9. \A c \in Clients : joined[c] # 0 =>
        /\ conn[<<"file", c>>] \in {"listed", "reading", "closed"}
        /\ IsOpen("file", c) => c \in Elements(file_port_clients_)
  BY <1>3, <1>5
<1>10. /\ \A c \in Elements(text_port_clients_) : conn[<<"text", c>>] # "none"
       /\ \A c \in Elements(file_port_clients_) : joined[c] # 0
  <2>1. \A c \in Elements(text_port_clients_) : conn[<<"text", c>>] = "reading"
    BY <1>5, <1>8
  <2>2. \A c \in Elements(file_port_clients_) : joined[c] = 1
    BY <1>3, <1>8
  <2> QED
    BY <2>1, <2>2
<1> QED
  BY <1>4, <1>6, <1>7, <1>9, <1>10 DEF Listing

-----------------------------------------------------------------------------
(* Files on their way to a client.                                         *)

\* The broadcast of f has still to come to c.
Pending(f, c) ==
  LET r == h[Reader("file", f.by)]
  IN /\ r.msg = f
     /\ \/ r.pc = "clients"
        \/ r.pc \in {"next", "lookup", "emplace", "enqueue", "drop", "join"} /\ c \in Elements(r.todo)
        \/ r.pc \in {"lookup", "emplace", "enqueue"} /\ r.sock = c

LEMMA HeadOrTail ==
  ASSUME NEW S, NEW s \in Seq(S), NEW c \in Elements(s)
  PROVE  s # <<>> /\ (c = Head(s) \/ c \in Elements(Tail(s)))
<1>1. PICK i \in DOMAIN s : s[i] = c
  BY DEF Elements
<1>2. DOMAIN s = 1..Len(s) /\ Len(s) \in Nat
  BY LenProperties
<1>3. s # <<>>
  BY <1>1
<1>4. /\ Tail(s) \in Seq(S) /\ Len(Tail(s)) = Len(s) - 1
      /\ \A j \in 1..Len(Tail(s)) : Tail(s)[j] = s[j + 1]
  BY <1>3, HeadTailProperties
<1>5. DOMAIN Tail(s) = 1..(Len(s) - 1)
  BY <1>4, LenProperties
<1>6. CASE i = 1
  BY <1>1, <1>3, <1>6
<1>7. CASE i # 1
  <2>1. i - 1 \in 1..(Len(s) - 1)
    BY <1>2, <1>7
  <2>2. Tail(s)[i - 1] = s[i]
    BY <1>2, <1>4, <2>1
  <2> QED
    BY <1>1, <1>3, <1>5, <2>1, <2>2 DEF Elements
<1> QED
  BY <1>6, <1>7

\* Nothing handed to a queue is taken back.
LEMMA HandedGrows ==
  ASSUME Typed, [Next]_vars, NEW c \in Clients
  PROVE  handed[c] \subseteq handed'[c]
<1>0. handed \in [Clients -> SUBSET Files]
  BY Variables
<1>a. ASSUME NEW d, NEW q, NEW f, Enqueue(d, q, f) PROVE handed[c] \subseteq handed'[c]
  BY <1>0, <1>a DEF Enqueue
<1>1. ASSUME NEW d \in Clients, Client(d) PROVE UNCHANGED handed
  BY <1>1 DEF Client, Connect, ReceiveText, ReceiveFile, ReceiveSendHistory, ReadError, queueVars
<1>2. CASE Accept
  BY <1>2 DEF Accept, AcceptTextConnection, AcceptFileConnection, StartReading, queueVars
<1>3. ASSUME NEW x \in Handlers, Handler(x) PROVE handed[c] \subseteq handed'[c]
  <2>1. CASE Lookup(x) \/ Emplace(x) \/ Drop(x) \/ Join(x)
    BY <2>1 DEF Lookup, Emplace, Drop, Join, queueVars
  <2>2. CASE PushText(x) \/ SendText(x) \/ CopyFileClients(x) \/ NextFileClient(x)
    BY <2>2 DEF PushText, SendText, CopyFileClients, NextFileClient, queueVars
  <2>3. CASE CopyTextClients(x) \/ SendLog(x) \/ LockHistory(x) \/ FileSocketClosed(x) \/ FindFileSocket(x)
    BY <2>3 DEF CopyTextClients, SendLog, LockHistory, FileSocketClosed, FindFileSocket, queueVars
  <2>4. CASE UnlockHistory(x) \/ SendEnd(x)
    BY <2>4 DEF UnlockHistory, SendEnd, queueVars
  <2>5. CASE EnqueueFile(x) \/ Replay(x)
    BY <1>a, <2>5 DEF EnqueueFile, Replay
  <2> QED
    BY <1>3, <2>1, <2>2, <2>3, <2>4, <2>5 DEF Handler
<1>4. ASSUME NEW q \in DOMAIN queues, Worker(q) PROVE UNCHANGED handed
  BY <1>4 DEF Worker, BeginTransfer, EndTransfer, SpuriousWakeup
<1>5. CASE StopServer \/ Stop \/ UNCHANGED vars
  BY <1>5 DEF StopServer, Stop, CloseFileAcceptor, StopQueue, QueueJoined, ClearQueues, CloseTextClients,
              CloseFileClients, StopContext, vars, queueVars
<1> QED
  BY <1>1, <1>2, <1>3, <1>4, <1>5 DEF Next

\* A broadcast comes to every client it has to come to, unless its socket is closed.
LEMMA PendingStep ==
  ASSUME Typed, Listing, [Next]_vars, NEW f \in Files, NEW c \in Clients,
         joined[c] # 0, IsOpen("file", c), f.by # c, Pending(f, c)
  PROVE  Pending(f, c)' \/ f \in handed'[c]
<1> DEFINE x == Reader("file", f.by)
<1>0. /\ x \in Handlers /\ x[1] = "file" /\ x[2] = f.by
      /\ h \in [Handlers -> Local(Len(queues))] /\ h[x] \in Local(Len(queues)) /\ HandlerOK(x, h[x])
      /\ c \in Elements(file_port_clients_)
      /\ handed \in [Clients -> SUBSET Files]
  <2>1. f.by \in Clients
    BY Kinds
  <2> QED
    BY <2>1, ReaderNames, TypedFacts, Variables DEF Listing
<1>1. h[x].msg = f /\ h[x].pc \in {"clients", "next", "lookup", "emplace", "enqueue", "drop", "join"}
  BY DEF Pending
<1>2. CASE h'[x] = h[x]
  BY <1>2 DEF Pending
<1>3. CASE h'[x] # h[x]
  <2>1. Handler(x)
    <3>1. PICK y \in Handlers :
            \/ Handler(y)
            \/ h[y].pc \in {"idle", "read"} /\ h' = [h EXCEPT ![y] = h'[y]]
      BY <1>3, WhoSteps
    <3>2. h' = [h EXCEPT ![y] = h'[y]]
      BY <3>1, HandlerLocal DEF LocalChange
    <3>3. y = x
      BY <1>0, <1>3, <3>2
    <3> QED
      BY <1>1, <3>1, <3>3
  <2>2. CASE CopyFileClients(x)
    <3>1. h'[x].pc = "next" /\ h'[x].todo = file_port_clients_ /\ h'[x].msg = f
      BY <1>0, <1>1, <2>2 DEF CopyFileClients, Local
    <3> QED
      BY <1>0, <3>1 DEF Pending
  <2>3. CASE NextFileClient(x)
    <3>1. h[x].pc = "next" /\ c \in Elements(h[x].todo)
      BY <2>3 DEF NextFileClient, At, Pending
    <3>2. h[x].todo # <<>> /\ (c = NextClient(x) \/ c \in Elements(Tail(h[x].todo)))
      BY <1>0, <3>1, HeadOrTail DEF Local, NextClient
    <3>3. CASE NextClient(x) = x[2] \/ ~IsOpen("file", NextClient(x))
      <4>1. h' = [h EXCEPT ![x].todo = Tail(h[x].todo)]
        BY <2>3, <3>2, <3>3 DEF NextFileClient, ClientsAfter
      <4>2. h'[x].pc = "next" /\ h'[x].todo = Tail(h[x].todo) /\ h'[x].msg = f
        BY <1>0, <1>1, <3>1, <4>1 DEF Local
      <4>3. c \in Elements(Tail(h[x].todo))
        BY <1>0, <3>2, <3>3
      <4> QED
        BY <4>2, <4>3 DEF Pending
    <3>4. CASE ~(NextClient(x) = x[2] \/ ~IsOpen("file", NextClient(x)))
      <4>1. h' = [h EXCEPT ![x].pc = "lookup", ![x].sock = NextClient(x), ![x].todo = Tail(@)]
        BY <2>3, <3>2, <3>4 DEF NextFileClient
      <4>2. h'[x].pc = "lookup" /\ h'[x].todo = Tail(h[x].todo) /\ h'[x].msg = f /\ h'[x].sock = NextClient(x)
        BY <1>0, <1>1, <4>1 DEF Local
      <4> QED
        BY <3>2, <4>2 DEF Pending
    <3> QED
      BY <3>3, <3>4
  <2>4. CASE Lookup(x) \/ Emplace(x)
    <3>1. Caller(x) = "enqueue" /\ h[x].pc \in {"lookup", "emplace"}
      BY <1>0, <2>4 DEF Caller, Lookup, Emplace, At
    <3>2. \/ h' = [h EXCEPT ![x].pc = "enqueue"]
          \/ \E q : h' = [h EXCEPT ![x].q = q, ![x].pc = "enqueue"]
          \/ \E q : h' = [h EXCEPT ![x].q = q, ![x].pc = "emplace"]
      BY <2>4, <3>1 DEF Lookup, FindOrBuild, Emplace, Goto
    <3>3. /\ h'[x].pc \in {"enqueue", "emplace"} /\ h'[x].todo = h[x].todo
          /\ h'[x].sock = h[x].sock /\ h'[x].msg = f
      <4>1. \/ h'[x] = [h[x] EXCEPT !.pc = "enqueue"]
            \/ \E q, pc : pc \in {"enqueue", "emplace"} /\ h'[x] = [h[x] EXCEPT !.q = q, !.pc = pc]
        BY <1>0, <3>2
      <4>2. ASSUME NEW q, NEW pc, h'[x] = [h[x] EXCEPT !.q = q, !.pc = pc]
            PROVE  h'[x].pc = pc /\ h'[x].todo = h[x].todo /\ h'[x].sock = h[x].sock /\ h'[x].msg = f
        BY <1>0, <1>1, <4>2 DEF Local
      <4>3. h'[x] = [h[x] EXCEPT !.pc = "enqueue"] =>
              h'[x].pc = "enqueue" /\ h'[x].todo = h[x].todo /\ h'[x].sock = h[x].sock /\ h'[x].msg = f
        BY <1>0, <1>1 DEF Local
      <4>4. CASE h'[x] # [h[x] EXCEPT !.pc = "enqueue"]
        <5>1. PICK q, pc : pc \in {"enqueue", "emplace"} /\ h'[x] = [h[x] EXCEPT !.q = q, !.pc = pc]
          BY <4>1, <4>4
        <5> QED
          BY <4>2, <5>1
      <4> QED
        BY <4>3, <4>4
    <3> QED
      BY <3>1, <3>3 DEF Pending
  <2>5. CASE EnqueueFile(x)
    <3>1. h[x].pc = "enqueue" /\ (c \in Elements(h[x].todo) \/ h[x].sock = c)
      BY <2>5 DEF EnqueueFile, At, Pending
    <3>2. h'[x].pc = "drop" /\ h'[x].todo = h[x].todo /\ h'[x].msg = f
      BY <1>0, <1>1, <2>5 DEF EnqueueFile, Goto, Local
    <3>3. handed' = [handed EXCEPT ![h[x].sock] = @ \cup {f}]
      BY <1>1, <2>5 DEF EnqueueFile, Enqueue
    <3>4. h[x].sock = c => f \in handed'[c]
      BY <1>0, <3>3
    <3> QED
      BY <3>1, <3>2, <3>4 DEF Pending
  <2>6. CASE Drop(x) \/ Join(x)
    <3>1. h[x].pc \in {"drop", "join"} /\ c \in Elements(h[x].todo)
      BY <2>6 DEF Drop, Join, At, Pending
    <3>2. Released(x) \/ h' = [h EXCEPT ![x].pc = "join"]
      BY <2>6 DEF Drop, Join, Goto
    <3>3. Released(x) => h' = [h EXCEPT ![x] = [@ EXCEPT !.pc = "next", !.q = 0, !.sock = NoMsg]]
      BY <1>0 DEF Released
    <3>4. h'[x] = [h[x] EXCEPT !.pc = "join"] \/ h'[x] = [h[x] EXCEPT !.pc = "next", !.q = 0, !.sock = NoMsg]
      BY <1>0, <3>2, <3>3
    <3>5. h'[x].pc \in {"join", "next"} /\ h'[x].todo = h[x].todo /\ h'[x].msg = f
      BY <1>0, <1>1, <3>4 DEF Local
    <3> QED
      BY <3>1, <3>5 DEF Pending
  <2>7. CopyFileClients(x) \/ NextFileClient(x) \/ Lookup(x) \/ Emplace(x) \/ EnqueueFile(x) \/ Drop(x) \/ Join(x)
    <3>1. ~PushText(x) /\ ~SendText(x) /\ ~CopyTextClients(x) /\ ~SendLog(x) /\ ~FindFileSocket(x)
      BY <1>1 DEF PushText, SendText, CopyTextClients, SendLog, FindFileSocket, At
    <3>2. ~FileSocketClosed(x) /\ ~LockHistory(x) /\ ~Replay(x) /\ ~UnlockHistory(x) /\ ~SendEnd(x)
      BY <1>0, <1>1 DEF FileSocketClosed, LockHistory, Replay, UnlockHistory, SendEnd, At
    <3> QED
      BY <2>1, <3>1, <3>2 DEF Handler
  <2> QED
    BY <2>2, <2>3, <2>4, <2>5, <2>6, <2>7
<1> QED
  BY <1>2, <1>3

\* The log grows at its end, and a file that is pushed has its broadcast before it.
LEMMA LogGrows ==
  ASSUME Typed, [Next]_vars
  PROVE  /\ \A i \in DOMAIN log : i \in DOMAIN log' /\ log'[i] = log[i]
         /\ \A i \in DOMAIN log' \ DOMAIN log : log'[i] \in Files =>
              LET r == h'[Reader("file", log'[i].by)]
              IN r.pc = "clients" /\ r.msg = log'[i]
<1>0. log \in Seq(Messages) /\ DOMAIN log = 1..Len(log) /\ Len(log) \in Nat
      /\ h \in [Handlers -> Local(Len(queues))] /\ \A x \in Handlers : h[x] \in Local(Len(queues))
  BY Variables, TypedFacts
<1>1. CASE UNCHANGED log
  BY <1>1
<1>2. ASSUME NEW x \in Handlers, PushText(x)
      PROVE  /\ \A i \in DOMAIN log : i \in DOMAIN log' /\ log'[i] = log[i]
             /\ \A i \in DOMAIN log' \ DOMAIN log : log'[i] \notin Files
  <2>1. /\ log' \in Seq(Messages) /\ Len(log') = Len(log) + 1
        /\ \A j \in 1..Len(log') : log'[j] = IF j <= Len(log) THEN log[j] ELSE <<h[x].msg>>[j - Len(log)]
        /\ <<h[x].msg>>[1] = h[x].msg /\ h[x].msg \in Texts
    BY <1>2, PushOK, PushTextOK
  <2>2. DOMAIN log' = 1..(Len(log) + 1)
    BY <2>1, LenProperties
  <2>3. h[x].msg \notin Files
    BY <2>1, Kinds
  <2>4. log'[Len(log) + 1] = h[x].msg
    BY <1>0, <2>1
  <2> QED
    BY <1>0, <2>1, <2>2, <2>3, <2>4
<1>3. ASSUME NEW c \in Clients, ReceiveFile(c)
      PROVE  /\ \A i \in DOMAIN log : i \in DOMAIN log' /\ log'[i] = log[i]
             /\ \A i \in DOMAIN log' \ DOMAIN log : log'[i] \in Files =>
                  LET r == h'[Reader("file", log'[i].by)]
                  IN r.pc = "clients" /\ r.msg = log'[i]
  <2> DEFINE n == Received("file") + 1
             f == File(c, n)
             entries == <<FileLog(c, n), f>>
  <2>1. /\ log' \in Seq(Messages) /\ Len(log') = Len(log) + 2
        /\ \A j \in 1..Len(log') : log'[j] = IF j <= Len(log) THEN log[j] ELSE entries[j - Len(log)]
        /\ entries[1] = FileLog(c, n) /\ entries[2] = f /\ FileLog(c, n) \in Logs
    BY <1>3, PushOK, ReceiveFileOK
  <2>2. DOMAIN log' = 1..(Len(log) + 2)
    BY <2>1, LenProperties
  <2>3. FileLog(c, n) \notin Files
    BY <2>1, Kinds
  <2>4. log'[Len(log) + 1] = FileLog(c, n) /\ log'[Len(log) + 2] = f
    <3>1. Len(log) + 1 \in 1..Len(log') /\ Len(log) + 2 \in 1..Len(log') /\ Len(log) + 1 - Len(log) = 1
          /\ Len(log) + 2 - Len(log) = 2 /\ ~(Len(log) + 1 <= Len(log)) /\ ~(Len(log) + 2 <= Len(log))
      BY <1>0, <2>1
    <3> HIDE DEF entries, n, f
    <3> QED
      BY <2>1, <3>1
  <2>5. f.by = c
    BY DEF File
  <2>6. h'[Reader("file", c)].pc = "clients" /\ h'[Reader("file", c)].msg = f
    <3>1. h' = [h EXCEPT ![Reader("file", c)].pc = "clients", ![Reader("file", c)].msg = f]
      BY <1>3 DEF ReceiveFile
    <3> HIDE DEF f
    <3> QED
      BY <1>0, <3>1, ReaderNames DEF Local
  <2> HIDE DEF n, f, entries
  <2>7. \A i \in DOMAIN log' \ DOMAIN log : i = Len(log) + 1 \/ i = Len(log) + 2
    BY <1>0, <2>2
  <2>8. \A i \in DOMAIN log : i \in DOMAIN log' /\ log'[i] = log[i]
    BY <1>0, <2>1, <2>2
  <2>9. ASSUME NEW i \in DOMAIN log' \ DOMAIN log, log'[i] \in Files
        PROVE  h'[Reader("file", log'[i].by)].pc = "clients" /\ h'[Reader("file", log'[i].by)].msg = log'[i]
    <3>1. log'[i] = f
      BY <2>3, <2>4, <2>7, <2>9
    <3> QED
      BY <2>5, <2>6, <3>1
  <2> QED
    BY <2>8, <2>9
<1> QED
  BY <1>1, <1>2, <1>3, HistoryFrame

LEMMA JoinedFrame ==
  ASSUME Typed, [Next]_vars
  PROVE  \/ UNCHANGED joined
         \/ \E c \in Clients : AcceptFileConnection(c)
<1>1. ASSUME NEW c \in Clients, Client(c) PROVE UNCHANGED joined
  BY <1>1 DEF Client, Connect, ReceiveText, ReceiveFile, ReceiveSendHistory, ReadError, serverVars
<1>2. CASE Accept
  <2>1. ASSUME NEW c \in Clients, AcceptTextConnection(c) PROVE UNCHANGED joined
    BY <2>1 DEF AcceptTextConnection
  <2>2. StartReading => UNCHANGED joined
    BY DEF StartReading
  <2> QED
    BY <1>2, <2>1, <2>2 DEF Accept
<1>3. ASSUME NEW q \in DOMAIN queues, Worker(q) PROVE UNCHANGED joined
  BY <1>3 DEF Worker, BeginTransfer, EndTransfer, SpuriousWakeup, serverVars
<1>4. CASE StopServer \/ Stop \/ UNCHANGED vars
  BY <1>4, StopQueuesOK DEF StopServer, vars, serverVars
<1> QED
  BY <1>1, <1>2, <1>3, <1>4, HandlerFrame DEF Next

-----------------------------------------------------------------------------
(* A file that was pushed while a socket was listed reaches its queue.     *)

ListedInv ==
  \A i \in DOMAIN log, f \in Files, c \in Clients :
    /\ log[i] = f /\ f.by # c
    /\ joined[c] # 0 /\ IsOpen("file", c) /\ joined[c] <= i
    => f \in handed[c] \/ Pending(f, c)

LEMMA ListedStep == ASSUME Typed, Listing, ListedInv, [Next]_vars PROVE ListedInv'
<1> SUFFICES ASSUME NEW i \in DOMAIN log', NEW f \in Files, NEW c \in Clients,
                    log'[i] = f, f.by # c,
                    joined'[c] # 0, IsOpen("file", c)', joined'[c] <= i
             PROVE  f \in handed'[c] \/ Pending(f, c)'
  BY DEF ListedInv
<1>0. /\ DOMAIN log = 1..Len(log) /\ Len(log) \in Nat
      /\ joined \in [Clients -> 0..(Len(log) + 1)]
  BY Variables
<1>1. joined'[c] = joined[c]
  <2>1. ASSUME NEW d \in Clients, AcceptFileConnection(d), d = c PROVE FALSE
    <3>1. joined'[c] = Len(log) + 1 /\ log' = log
      BY <1>0, <2>1 DEF AcceptFileConnection, historyVars
    <3> QED
      BY <1>0, <3>1
  <2>2. ASSUME NEW d \in Clients, AcceptFileConnection(d), d # c PROVE joined'[c] = joined[c]
    BY <1>0, <2>2 DEF AcceptFileConnection
  <2> QED
    BY <2>1, <2>2, JoinedFrame
<1>2. IsOpen("file", c)
  BY <1>1, ListingStep DEF NotReopened
<1>3. CASE i \in DOMAIN log
  <2>1. log[i] = f
    BY <1>3, LogGrows
  <2>2. f \in handed[c] \/ Pending(f, c)
    BY <1>1, <1>2, <1>3, <2>1 DEF ListedInv
  <2> QED
    BY <1>1, <1>2, <2>2, HandedGrows, PendingStep
<1>4. CASE i \notin DOMAIN log
  BY <1>4, LogGrows DEF Pending
<1> QED
  BY <1>3, <1>4

\* Every file pushed while a file socket is listed and open is queued for it when its
\* broadcast has been through the clients: whichever of the accept handler, a broadcast and
\* SendHistory builds its queue, and whatever StopServer closes meanwhile (Broadcast pushes
\* to the history before it copies the clients; ServerManager.cpp, Broadcast).
THEOREM BroadcastReachesListed == Spec => []FilesReachListed
<1>1. Init => Typed /\ Listing /\ ListedInv
  <2>1. Init => DOMAIN log = {}
    BY DEF Init
  <2> QED
    BY <2>1, InitTyped, InitListing DEF ListedInv
<1>2. Typed /\ Listing /\ ListedInv /\ [Next]_vars => (Typed /\ Listing /\ ListedInv)'
  BY TypedStep, ListingStep, ListedStep
<1>3. Typed /\ Listing /\ ListedInv => FilesReachListed
  <2>1. ASSUME Typed, ListedInv, NEW c \in Clients, NEW f \in Files,
               joined[c] # 0, IsOpen("file", c), f.by # c,
               FileBroadcastDone(f), joined[c] <= Position(f)
        PROVE  f \in handed[c]
    <3>1. Position(f) \in DOMAIN log /\ log[Position(f)] = f
      BY <2>1 DEF FileBroadcastDone, Logged, Elements, Position
    <3>2. f \in handed[c] \/ Pending(f, c)
      BY <2>1, <3>1 DEF ListedInv
    <3> QED
      BY <2>1, <3>2 DEF FileBroadcastDone, Pending
  <2> QED
    BY <2>1 DEF FilesReachListed
<1> QED
  BY <1>1, <1>2, <1>3, PTL DEF Spec

-----------------------------------------------------------------------------
(* A file that was pushed before, while or after SendHistory replays.      *)

Unlocked == {"lookup", "emplace", "lock"}

\* Once SendHistory has the lock, a file is queued, or its broadcast has still to come, or
\* the replay has.
JoinerInv ==
  \A c \in found : IsOpen("file", c) =>
    LET r == h[Reader("text", c)]
    IN /\ r.pc \in {"lock", "replay"} => r.q # 0
       /\ r.pc \notin Unlocked =>
            \A i \in DOMAIN log, f \in Files :
              log[i] = f /\ f.by # c /\ from[c] <= i =>
                \/ f \in handed[c]
                \/ Pending(f, c)
                \/ r.pc = "replay" /\ from[c] + r.i - 1 <= i

\* What the reader of c does when it changes its local variables.
LEMMA ReaderStep ==
  ASSUME Typed, [Next]_vars, NEW c \in Clients, h'[Reader("text", c)] # h[Reader("text", c)]
  PROVE  \/ Handler(Reader("text", c))
         \/ /\ h[Reader("text", c)].pc \in {"idle", "read"}
            /\ h'[Reader("text", c)].pc \in {"push", "clients", "find", "lookup", "idle"}
<1> DEFINE y == Reader("text", c)
<1>1. PICK x \in Handlers :
        \/ Handler(x)
        \/ /\ h[x].pc \in {"idle", "read"} /\ h' = [h EXCEPT ![x] = h'[x]]
           /\ h'[x].pc \in {"push", "clients", "find", "lookup", "idle"}
  BY WhoSteps
<1>2. h' = [h EXCEPT ![x] = h'[x]]
  BY <1>1, HandlerLocal DEF LocalChange
<1>3. h \in [Handlers -> Local(Len(queues))] /\ y \in Handlers
  BY Variables, ReaderNames
<1>4. x = y
  BY <1>2, <1>3
<1> QED
  BY <1>1, <1>4

\* Only the lock leads out of the steps before it.
LEMMA UnlockedEnds ==
  ASSUME Typed, NEW x \in Handlers, Handler(x), x[1] = "text", h[x].pc \in Unlocked, h'[x].pc \notin Unlocked
  PROVE  LockHistory(x)
<1>0. h \in [Handlers -> Local(Len(queues))] /\ h[x] \in Local(Len(queues))
  BY TypedFacts, Variables
<1>1. Lookup(x) \/ Emplace(x) \/ FileSocketClosed(x) \/ LockHistory(x)
  <2>1. ~Drop(x) /\ ~Join(x) /\ ~PushText(x) /\ ~SendText(x) /\ ~CopyFileClients(x) /\ ~NextFileClient(x)
    BY DEF Unlocked, Drop, Join, PushText, SendText, CopyFileClients, NextFileClient, At
  <2>2. ~EnqueueFile(x) /\ ~CopyTextClients(x) /\ ~SendLog(x) /\ ~FindFileSocket(x)
    BY DEF Unlocked, EnqueueFile, CopyTextClients, SendLog, FindFileSocket, At
  <2>3. ~Replay(x) /\ ~UnlockHistory(x) /\ ~SendEnd(x)
    BY DEF Unlocked, Replay, UnlockHistory, SendEnd, At
  <2> QED
    BY <2>1, <2>2, <2>3 DEF Handler
<1>2. Caller(x) = "lock"
  BY DEF Caller
<1>3. Lookup(x) => h'[x].pc \in Unlocked
  BY <1>0, <1>2 DEF Lookup, FindOrBuild, Local, Unlocked
<1>4. Emplace(x) \/ FileSocketClosed(x) => h'[x].pc \in Unlocked
  BY <1>0, <1>2 DEF Emplace, FileSocketClosed, Goto, Local, Unlocked
<1> QED
  BY <1>1, <1>3, <1>4

\* A socket that is found has its queue when the replay begins, unless it is closed.
LEMMA QueueForReplay ==
  ASSUME Typed, NEW c \in found, IsOpen("file", c),
         Handler(Reader("text", c)), h'[Reader("text", c)].pc \in {"lock", "replay"},
         h[Reader("text", c)].pc \in {"lock", "replay"} => h[Reader("text", c)].q # 0
  PROVE  h'[Reader("text", c)].q # 0
<1> DEFINE x == Reader("text", c)
<1>0. /\ h \in [Handlers -> Local(Len(queues))] /\ h[x] \in Local(Len(queues)) /\ HandlerOK(x, h[x])
      /\ x \in Handlers /\ x[1] = "text" /\ x[2] = c /\ c \in Clients
      /\ h[x].pc # "find" /\ Len(queues) \in Nat
      /\ h' = [h EXCEPT ![x] = h'[x]] /\ h'[x] \in Local(Len(queues')) /\ HandlerOK(x, h'[x])
  <2>1. c \in Clients
    BY ListedElements
  <2>2. x \in Handlers /\ x[1] = "text" /\ x[2] = c
    BY <2>1, ReaderNames
  <2>3. h[x].pc # "find"
    BY <2>1 DEF Typed, AskedOnce
  <2> HIDE DEF x
  <2> QED
    BY <2>1, <2>2, <2>3, TypedFacts, Variables, HandlerLocal DEF LocalChange, x
<1> HIDE DEF x
<1>1. CASE Lookup(x)
  <2>1. CASE file_queues_[h[x].sock] # 0
    <3>1. h' = [h EXCEPT ![x].q = file_queues_[h[x].sock], ![x].pc = Caller(x)]
      BY <1>1, <2>1 DEF Lookup, FindOrBuild
    <3>2. h'[x].q = file_queues_[h[x].sock]
      BY <1>0, <3>1 DEF Local
    <3> QED
      BY <2>1, <3>2 DEF x
  <2>2. CASE file_queues_[h[x].sock] = 0
    <3>1. h' = [h EXCEPT ![x].q = Len(queues'), ![x].pc = "emplace"]
      BY <1>1, <2>2 DEF Lookup, FindOrBuild
    <3> QED
      BY <1>0, <3>1 DEF Local, x
  <2> QED
    BY <2>1, <2>2
<1>2. CASE Emplace(x)
  <2>1. h' = [h EXCEPT ![x].pc = Caller(x)] /\ h[x].q # 0
    BY <1>0, <1>2 DEF Emplace, Goto, At, HandlerOK
  <2> QED
    BY <1>0, <2>1 DEF Local
<1>3. CASE FindFileSocket(x) \/ FileSocketClosed(x)
  BY <1>0, <1>3 DEF FindFileSocket, FileSocketClosed, At, HandlerOK
<1>4. CASE ~Lookup(x) /\ ~Emplace(x) /\ ~Drop(x) /\ ~Join(x) /\ ~FindFileSocket(x) /\ ~FileSocketClosed(x)
  <2>1. h'[x].q = h[x].q
    BY <1>0, <1>4, HoldsQueue DEF x
  <2>2. LockHistory(x) \/ Replay(x)
    <3>1. ASSUME PushText(x) \/ SendText(x) \/ CopyFileClients(x) \/ NextFileClient(x) \/ EnqueueFile(x)
                 \/ CopyTextClients(x) \/ SendLog(x)
          PROVE  h'[x].pc \notin {"lock", "replay"}
      <4>1. h[x].pc \in {"push", "send", "clients", "next", "enqueue", "log", "sendlog"}
        BY <3>1 DEF PushText, SendText, CopyFileClients, NextFileClient, EnqueueFile, CopyTextClients,
                    SendLog, At
      <4>2. PushText(x) \/ SendText(x)
        BY <1>0, <3>1 DEF CopyFileClients, NextFileClient, EnqueueFile, CopyTextClients, SendLog, At, HandlerOK
      <4>3. \/ h' = [h EXCEPT ![x].pc = "send"]
            \/ h' = [h EXCEPT ![x] = Idle] \/ h' = [h EXCEPT ![x].todo = Tail(@)]
        BY <4>2 DEF PushText, SendText, Goto, Advance
      <4> QED
        BY <1>0, <4>1, <4>3 DEF Local, Idle
    <3>2. UnlockHistory(x) \/ SendEnd(x) => h'[x].pc \notin {"lock", "replay"}
      BY <1>0 DEF UnlockHistory, SendEnd, Goto, Local
    <3> QED
      BY <1>4, <3>1, <3>2 DEF Handler, x
  <2>3. h[x].pc \in {"lock", "replay"}
    BY <2>2 DEF LockHistory, Replay, At
  <2> QED
    BY <2>1, <2>3 DEF x
<1>5. CASE Drop(x) \/ Join(x)
  <2>1. Released(x) \/ h' = [h EXCEPT ![x].pc = "join"]
    BY <1>5 DEF Drop, Join, Goto
  <2>2. h' = [h EXCEPT ![x].pc = "join"] => h'[x].pc = "join"
    BY <1>0 DEF Local
  <2> QED
    BY <1>0, <2>1, <2>2, ReleasedQueue DEF x
<1> QED
  BY <1>1, <1>2, <1>3, <1>4, <1>5 DEF x

LEMMA JoinerStep ==
  ASSUME Typed, Listing, ReplayIsSegment, JoinerInv, [Next]_vars PROVE JoinerInv'
<1> SUFFICES ASSUME NEW c \in found', IsOpen("file", c)'
             PROVE  LET r == h'[Reader("text", c)]
                    IN /\ r.pc \in {"lock", "replay"} => r.q # 0
                       /\ r.pc \notin Unlocked =>
                            \A i \in DOMAIN log', f \in Files :
                              log'[i] = f /\ f.by # c /\ from'[c] <= i =>
                                \/ f \in handed'[c]
                                \/ Pending(f, c)'
                                \/ r.pc = "replay" /\ from'[c] + r.i - 1 <= i
  BY DEF JoinerInv
<1> DEFINE x == Reader("text", c)
<1>1. CASE c \notin found
  <2>1. PICK y \in Handlers : FindFileSocket(y) /\ found' = found \cup {y[2]}
                              /\ y[2] \in Elements(file_port_clients_)
    BY <1>1, FoundFrame
  <2>2. y[2] = c /\ h[y].pc = "find"
    BY <1>1, <2>1 DEF FindFileSocket, At
  <2>3. y = x
    <3>1. y[1] = "text"
      BY <2>2, TypedFacts DEF HandlerOK
    <3> QED
      BY <2>2, <3>1, HandlerNames DEF Reader
  <2>4. h'[x].pc = "lookup"
    <3>1. h' = [h EXCEPT ![y].pc = "lookup", ![y].sock = y[2]]
      BY <2>1 DEF FindFileSocket
    <3>2. h \in [Handlers -> Local(Len(queues))]
      BY Variables
    <3> QED
      BY <2>3, <3>1, <3>2 DEF Local
  <2> QED
    BY <2>4 DEF Unlocked
<1>2. CASE c \in found
  <2>0. /\ c \in Clients /\ joined[c] # 0 /\ IsOpen("file", c)
        /\ x \in Handlers /\ x[1] = "text" /\ x[2] = c
        /\ h \in [Handlers -> Local(Len(queues))] /\ h[x] \in Local(Len(queues)) /\ HandlerOK(x, h[x])
        /\ from \in [Clients -> 0..(Len(log) + 1)]
        /\ DOMAIN log = 1..Len(log) /\ Len(log) \in Nat
        /\ DOMAIN message_history_ = 1..Len(message_history_) /\ Len(message_history_) \in Nat
        /\ Len(message_history_) <= Len(log)
    <3>1. c \in Clients /\ joined[c] # 0
      BY <1>2, ListedElements DEF Listing
    <3>2. IsOpen("file", c)
      BY <3>1, ListingStep DEF NotReopened
    <3>3. x \in Handlers /\ x[1] = "text" /\ x[2] = c
      BY <3>1, ReaderNames
    <3> HIDE DEF x
    <3> QED
      BY <3>1, <3>2, <3>3, TypedFacts, Variables
  <2>1. /\ h[x].pc \in {"lock", "replay"} => h[x].q # 0
        /\ h[x].pc \notin Unlocked =>
             \A i \in DOMAIN log, f \in Files :
               log[i] = f /\ f.by # c /\ from[c] <= i =>
                 \/ f \in handed[c]
                 \/ Pending(f, c)
                 \/ h[x].pc = "replay" /\ from[c] + h[x].i - 1 <= i
    BY <1>2, <2>0 DEF JoinerInv
  <2>2. h'[x] = h[x] \/ Handler(x) \/ (h[x].pc \notin Unlocked /\ h'[x].pc \notin {"lock", "replay", "emplace"})
    BY <2>0, ReaderStep DEF Unlocked
  <2>3. h'[x].pc \in {"lock", "replay"} => h'[x].q # 0
    BY <1>2, <2>0, <2>1, <2>2, QueueForReplay
  <2>4. ASSUME h'[x].pc \notin Unlocked, LockHistory(x)
        PROVE  h'[x].pc = "replay" /\ from'[c] + h'[x].i - 1 = from'[c]
    <3>1. h' = [h EXCEPT ![x].pc = "replay", ![x].i = 1]
          /\ from' = [from EXCEPT ![c] = Len(log) - Len(message_history_) + 1]
      BY <2>0, <2>4 DEF LockHistory
    <3>2. h'[x].pc = "replay" /\ h'[x].i = 1 /\ from'[c] = Len(log) - Len(message_history_) + 1
      BY <2>0, <3>1 DEF Local
    <3>3. from'[c] \in Int
      BY <2>0, <3>2
    <3> QED
      BY <3>2, <3>3
  <2>5. ASSUME h'[x].pc \notin Unlocked, ~LockHistory(x),
               NEW i \in DOMAIN log', NEW f \in Files, log'[i] = f, f.by # c, from'[c] <= i
        PROVE  \/ f \in handed'[c]
               \/ Pending(f, c)'
               \/ h'[x].pc = "replay" /\ from'[c] + h'[x].i - 1 <= i
    <3>1. from'[c] = from[c]
      <4>1. ASSUME NEW y \in Handlers, LockHistory(y), y # x PROVE from'[c] = from[c]
        <5>1. y[1] = "text" /\ y[2] # c
          <6>1. y[1] = "text"
            BY <4>1, TypedFacts DEF LockHistory, At, HandlerOK
          <6> QED
            BY <4>1, <6>1, HandlerNames DEF Reader
        <5> QED
          BY <2>0, <4>1, <5>1 DEF LockHistory
      <4> QED
        BY <2>5, <4>1, FromFrame
    <3>2. h[x].pc \notin Unlocked
      <4>1. h[x].pc \in Unlocked => h'[x] = h[x] \/ Handler(x)
        BY <2>2
      <4> QED
        BY <2>0, <2>5, <4>1, UnlockedEnds
    <3>3. CASE i \notin DOMAIN log
      BY <2>5, <3>3, LogGrows DEF Pending
    <3>4. CASE i \in DOMAIN log
      <4>1. log[i] = f /\ from[c] <= i
        BY <2>5, <3>1, <3>4, LogGrows
      <4>2. CASE f \in handed[c] \/ Pending(f, c)
        BY <2>0, <2>5, <4>2, HandedGrows, PendingStep
      <4>3. CASE h[x].pc = "replay" /\ from[c] + h[x].i - 1 <= i
        <5>0. /\ from[c] = Len(log) - Len(message_history_) + 1 /\ h[x].i \in Nat /\ h[x].q # 0
              /\ \A j \in DOMAIN message_history_ :
                   message_history_[j] = log[Len(log) - Len(message_history_) + j]
          BY <2>0, <2>1, <4>3 DEF ReplayIsSegment, At, Local
        <5>1. CASE h'[x] = h[x]
          BY <3>1, <4>3, <5>1
        <5>2. CASE Replay(x)
          <6>1. h'[x].pc = "replay" /\ h'[x].i = h[x].i + 1
            <7>1. h' = [h EXCEPT ![x].i = @ + 1]
              BY <5>2 DEF Replay
            <7> QED
              BY <2>0, <4>3, <7>1 DEF Local
          <6>2. CASE from[c] + h[x].i - 1 < i
            <7>1. from[c] + (h[x].i + 1) - 1 <= i
              BY <2>0, <3>4, <5>0, <6>2
            <7> QED
              BY <3>1, <6>1, <7>1
          <6>3. CASE from[c] + h[x].i - 1 = i
            <7>1. h[x].i \in DOMAIN message_history_
              BY <2>0, <4>3, <5>0, <5>2 DEF Replay, HandlerOK
            <7>2. message_history_[h[x].i] = f
              <8>1. Len(log) - Len(message_history_) + h[x].i = i
                BY <2>0, <5>0, <6>3
              <8>2. message_history_[h[x].i] = log[Len(log) - Len(message_history_) + h[x].i]
                BY <5>0, <7>1
              <8> QED
                BY <4>1, <8>1, <8>2
            <7>3. Enqueue(c, h[x].q, f)
              BY <2>0, <2>5, <5>0, <5>2, <7>2, Kinds DEF Replay
            <7>4. handed' = [handed EXCEPT ![c] = @ \cup {f}] /\ handed \in [Clients -> SUBSET Files]
              BY <7>3, Variables DEF Enqueue
            <7> QED
              BY <2>0, <7>4
          <6> QED
            BY <2>0, <3>4, <4>3, <5>0, <6>2, <6>3
        <5>3. CASE UnlockHistory(x)
          BY <2>0, <3>4, <4>3, <5>0, <5>3 DEF UnlockHistory
        <5>4. Handler(x) => Replay(x) \/ UnlockHistory(x)
          <6>1. ~Lookup(x) /\ ~Emplace(x) /\ ~Drop(x) /\ ~Join(x) /\ ~PushText(x) /\ ~SendText(x)
            BY <4>3 DEF Lookup, Emplace, Drop, Join, PushText, SendText, At
          <6>2. ~CopyFileClients(x) /\ ~NextFileClient(x) /\ ~EnqueueFile(x) /\ ~CopyTextClients(x)
            BY <4>3 DEF CopyFileClients, NextFileClient, EnqueueFile, CopyTextClients, At
          <6>3. ~SendLog(x) /\ ~FindFileSocket(x) /\ ~FileSocketClosed(x) /\ ~LockHistory(x) /\ ~SendEnd(x)
            BY <4>3 DEF SendLog, FindFileSocket, FileSocketClosed, LockHistory, SendEnd, At
          <6> QED
            BY <6>1, <6>2, <6>3 DEF Handler
        <5>5. h'[x] = h[x] \/ Handler(x)
          BY <2>0, <4>3, ReaderStep
        <5> QED
          BY <5>1, <5>2, <5>3, <5>4, <5>5
      <4> QED
        BY <2>1, <2>5, <3>2, <3>4, <4>1, <4>2, <4>3
    <3> QED
      BY <3>3, <3>4
  <2> QED
    BY <2>3, <2>4, <2>5
<1> QED
  BY <1>1, <1>2

\* A joiner whose file socket was listed when SendHistory looked for it is handed every file
\* that the history still held, and every later one: what is pushed before the replay is in
\* it, and what is pushed after it was copied to a list that has the joiner
\* (ServerManager.cpp, Broadcast and the SendHistory handler).
HandedToJoiner ==
  \A c \in found, f \in Files :
    /\ Answered(c) /\ f.by # c /\ IsOpen("file", c)
    /\ FileBroadcastDone(f) /\ from[c] <= Position(f)
    => f \in handed[c]

LEMMA JoinerIsHanded == Spec => []HandedToJoiner
<1> DEFINE Inv == Typed /\ Listing /\ ReplayIsSegment /\ JoinerInv
<1>1. Init => Inv
  <2>1. Init => ReplayIsSegment
    <3>1. Init => \A c \in Clients : h[Reader("text", c)].pc = "idle"
      BY ReaderNames DEF Init, Idle
    <3>2. Init => DOMAIN message_history_ = {}
      BY DEF Init
    <3> QED
      BY <3>1, <3>2 DEF ReplayIsSegment, At
  <2>2. Init => JoinerInv
    BY DEF Init, JoinerInv
  <2> QED
    BY <2>1, <2>2, InitTyped, InitListing
<1>2. Inv /\ [Next]_vars => Inv'
  BY TypedStep, ListingStep, SegmentStep, JoinerStep
<1>3. Inv => HandedToJoiner
  <2>1. ASSUME Typed, JoinerInv, NEW c \in found, NEW f \in Files,
               Answered(c), f.by # c, IsOpen("file", c),
               FileBroadcastDone(f), from[c] <= Position(f)
        PROVE  f \in handed[c]
    <3>1. Position(f) \in DOMAIN log /\ log[Position(f)] = f
      BY <2>1 DEF FileBroadcastDone, Logged, Elements, Position
    <3>2. h[Reader("text", c)].pc = "idle"
      BY <2>1 DEF Answered, At
    <3>3. f \in handed[c] \/ Pending(f, c)
      BY <2>1, <3>1, <3>2 DEF JoinerInv, Unlocked
    <3> QED
      BY <2>1, <3>3 DEF FileBroadcastDone, Pending
  <2> QED
    BY <2>1 DEF HandedToJoiner
<1> QED
  BY <1>1, <1>2, <1>3, PTL DEF Spec

-----------------------------------------------------------------------------
(* What happens to a queue, and who waits for whom.                        *)

\* StopServer is at its queues or past them.
Stopping == server.pc \notin {"up", "closing"}

\* A handler puts a file in the queue that it holds.
Enqueues(x, c, f) ==
  /\ h[x].q \in DOMAIN queues /\ Enqueue(c, h[x].q, f)
  /\ h[x].pc \in {"enqueue", "replay"}
  /\ c = (IF x[1] = "text" THEN x[2] ELSE h[x].sock)
  /\ UNCHANGED <<file_queues_, files>>

LEMMA QueueSteps ==
  ASSUME Typed, [Next]_vars
  PROVE  \/ UNCHANGED <<queues, handed, files>>
         \/ \E x \in Handlers : /\ Lookup(x) /\ UNCHANGED <<handed, files>>
                                /\ h[x].sock \in Clients /\ queues' = Append(queues, NewQueue(h[x].sock))
         \/ \E x \in Handlers : \E c \in Clients : \E f \in Files : Enqueues(x, c, f)
         \/ \E x \in Handlers : /\ Drop(x) /\ ~Registered(h[x].q) /\ h[x].q \in DOMAIN queues
                                /\ Stopped(h[x].q)
         \/ \E q \in DOMAIN queues : StopQueue(q) \/ Worker(q)
<1>0. /\ DOMAIN queues = 1..Len(queues)
      /\ \A x \in Handlers : h[x] \in Local(Len(queues)) /\ HandlerOK(x, h[x])
      /\ message_history_ \in Seq(Messages) /\ DOMAIN message_history_ = 1..Len(message_history_)
  BY TypedFacts, Variables
<1> DEFINE Same == UNCHANGED <<queues, handed, files>>
<1>1. ASSUME NEW d \in Clients, Client(d) PROVE Same
  BY <1>1 DEF Client, Connect, ReceiveText, ReceiveFile, ReceiveSendHistory, ReadError, queueVars
<1>2. Accept => Same
  BY DEF Accept, AcceptTextConnection, AcceptFileConnection, StartReading, queueVars
<1>3. ASSUME NEW x \in Handlers, Handler(x)
      PROVE  \/ Same
             \/ /\ Lookup(x) /\ UNCHANGED <<handed, files>>
                /\ h[x].sock \in Clients /\ queues' = Append(queues, NewQueue(h[x].sock))
             \/ \E c \in Clients : \E f \in Files : Enqueues(x, c, f)
             \/ Drop(x) /\ ~Registered(h[x].q) /\ h[x].q \in DOMAIN queues /\ Stopped(h[x].q)
  <2>1. CASE Lookup(x)
    <3>1. h[x].sock \in Clients
      BY <1>0, <2>1 DEF Lookup, At, HandlerOK
    <3> QED
      BY <2>1, <3>1 DEF Lookup, FindOrBuild
  <2>2. CASE Drop(x)
    <3>1. h[x].q # 0 => h[x].q \in DOMAIN queues
      BY <1>0 DEF Local
    <3> QED
      BY <2>2, <3>1 DEF Drop
  <2>3. CASE EnqueueFile(x)
    <3>1. h[x].pc = "enqueue" /\ Enqueue(h[x].sock, h[x].q, h[x].msg) /\ UNCHANGED <<file_queues_, files>>
      BY <2>3 DEF EnqueueFile, At
    <3>2. x[1] = "file" /\ h[x].msg \in Files /\ h[x].sock \in Clients /\ h[x].q # 0
      BY <1>0, <3>1 DEF HandlerOK
    <3>3. h[x].q \in DOMAIN queues
      BY <1>0, <3>2 DEF Local
    <3>4. Enqueues(x, h[x].sock, h[x].msg)
      BY <3>1, <3>2, <3>3 DEF Enqueues
    <3> QED
      BY <3>2, <3>4
  <2>4. CASE Replay(x)
    <3> DEFINE m == message_history_[h[x].i]
    <3>1. /\ h[x].pc = "replay" /\ h[x].i <= Len(message_history_) /\ UNCHANGED <<file_queues_, files>>
          /\ \/ UNCHANGED <<queues, handed>>
             \/ m.kind = "file" /\ h[x].q # 0 /\ Enqueue(x[2], h[x].q, m)
      BY <2>4 DEF Replay, At
    <3>2. CASE UNCHANGED <<queues, handed>>
      BY <3>1, <3>2
    <3>3. CASE m.kind = "file" /\ h[x].q # 0 /\ Enqueue(x[2], h[x].q, m)
      <4>1. x[1] = "text" /\ x[2] \in Clients
        BY <1>0, <3>1, HandlerNames DEF HandlerOK
      <4>2. h[x].i \in DOMAIN message_history_
        BY <1>0, <3>1 DEF Local, HandlerOK
      <4>3. m \in Messages
        BY <1>0, <4>2, ElementOfSeq
      <4>4. m \in Files
        BY <3>3, <4>3, Kinds DEF Messages
      <4>5. h[x].q \in DOMAIN queues
        BY <1>0, <3>3 DEF Local
      <4>6. Enqueues(x, x[2], m)
        BY <3>1, <3>3, <4>1, <4>5 DEF Enqueues
      <4> QED
        BY <4>1, <4>4, <4>6
    <3> QED
      BY <3>1, <3>2, <3>3
  <2>5. CASE Emplace(x) \/ Join(x) \/ PushText(x) \/ SendText(x) \/ CopyFileClients(x) \/ NextFileClient(x)
    BY <2>5 DEF Emplace, Join, PushText, SendText, CopyFileClients, NextFileClient, queueVars
  <2>6. CASE CopyTextClients(x) \/ SendLog(x) \/ LockHistory(x) \/ FileSocketClosed(x) \/ FindFileSocket(x)
    BY <2>6 DEF CopyTextClients, SendLog, LockHistory, FileSocketClosed, FindFileSocket, queueVars
  <2>7. CASE UnlockHistory(x) \/ SendEnd(x)
    BY <2>7 DEF UnlockHistory, SendEnd, queueVars
  <2> QED
    BY <1>3, <2>1, <2>2, <2>3, <2>4, <2>5, <2>6, <2>7 DEF Handler
<1>4. CASE Stop
  <2>1. CASE ClearQueues
    BY <2>1 DEF ClearQueues
  <2> QED
    BY <1>4, <2>1 DEF Stop, CloseFileAcceptor, QueueJoined, CloseTextClients, CloseFileClients,
                      StopContext, queueVars
<1>5. StopServer \/ UNCHANGED vars => Same
  BY DEF StopServer, vars, queueVars
<1> QED
  BY <1>1, <1>2, <1>3, <1>4, <1>5 DEF Next

\* A queue keeps its socket, and never runs again.
LEMMA StoppedForGood ==
  ASSUME Typed, [Next]_vars, NEW q \in DOMAIN queues
  PROVE  /\ q \in DOMAIN queues' /\ queues'[q].sock = queues[q].sock
         /\ queues'[q].running => queues[q].running
<1>0. /\ DOMAIN queues = 1..Len(queues) /\ Len(queues) \in Nat
      /\ \A p \in DOMAIN queues : queues[p] \in QueueType
  BY Variables
<1>1. ASSUME NEW c \in Clients, queues' = Append(queues, NewQueue(c))
      PROVE  q \in DOMAIN queues' /\ queues'[q] = queues[q]
  <2>1. NewQueue(c) \in QueueType
    BY EmptySeq DEF NewQueue, QueueType
  <2> QED
    BY <1>0, <1>1, <2>1, QueueAdded
<1>2. ASSUME NEW x, NEW c, NEW f, Enqueues(x, c, f)
      PROVE  /\ q \in DOMAIN queues' /\ queues'[q].sock = queues[q].sock
             /\ queues'[q].running => queues[q].running
  BY <1>0, <1>2 DEF Enqueues, Enqueue, QueueType
<1>3. ASSUME NEW p \in DOMAIN queues, Stopped(p)
      PROVE  /\ q \in DOMAIN queues' /\ queues'[q].sock = queues[q].sock
             /\ queues'[q].running => queues[q].running
  BY <1>3, StoppedKeeps
<1>4. ASSUME NEW p \in DOMAIN queues, Worker(p)
      PROVE  /\ q \in DOMAIN queues' /\ queues'[q].sock = queues[q].sock
             /\ queues'[q].running => queues[q].running
  BY <1>0, <1>4, WakeupKeeps DEF Worker, BeginTransfer, EndTransfer, QueueType
<1> QED
  BY <1>1, <1>2, <1>3, <1>4, QueueSteps DEF StopQueue

\* What StopServer and the handlers join has been told to stop.
Joining ==
  /\ \A x \in Handlers : h[x].pc = "join" => ~queues[h[x].q].running
  /\ server.pc = "join" => server.q \in DOMAIN queues /\ ~queues[server.q].running

\* A handler joins the queue that it has just stopped.
LEMMA JoinBegins ==
  ASSUME Typed, NEW x \in Handlers, Handler(x), h'[x].pc = "join"
  PROVE  /\ Drop(x) /\ Stopped(h[x].q) /\ h'[x].q = h[x].q
         /\ h[x].q \in DOMAIN queues
<1>0. /\ h \in [Handlers -> Local(Len(queues))] /\ h[x] \in Local(Len(queues))
      /\ DOMAIN queues = 1..Len(queues)
  BY TypedFacts, Variables
<1>1. CASE Lookup(x) \/ Emplace(x)
  <2>1. Caller(x) \in {"drop", "enqueue", "lock"}
    BY HandlerNames DEF Caller
  <2> QED
    BY <1>0, <1>1, <2>1 DEF Lookup, FindOrBuild, Emplace, Goto, Local
<1>2. CASE Drop(x) \/ Join(x)
  <2>1. ~Released(x)
    BY ReleasedQueue
  <2>2. Drop(x) /\ Stopped(h[x].q) /\ h' = [h EXCEPT ![x].pc = "join"] /\ h[x].q # 0
    BY <1>2, <2>1 DEF Drop, Join, Goto
  <2> QED
    BY <1>0, <2>2 DEF Local
<1>3. CASE PushText(x) \/ CopyFileClients(x) \/ NextFileClient(x) \/ EnqueueFile(x)
  BY <1>0, <1>3 DEF PushText, CopyFileClients, NextFileClient, EnqueueFile, At, Goto, Local
<1>4. CASE SendText(x) \/ SendLog(x)
  <2>1. h[x].pc \in {"send", "sendlog"} /\ h' = Advance(x)
    BY <1>4 DEF SendText, SendLog, At
  <2>2. h' = [h EXCEPT ![x] = Idle] \/ h' = [h EXCEPT ![x].todo = Tail(@)]
    BY <2>1 DEF Advance
  <2>3. h' = [h EXCEPT ![x] = Idle] => h'[x].pc = "idle"
    BY <1>0 DEF Idle
  <2>4. h' = [h EXCEPT ![x].todo = Tail(@)] => h'[x].pc = h[x].pc
    BY <1>0 DEF Local
  <2> QED
    BY <2>1, <2>2, <2>3, <2>4
<1>5. CASE CopyTextClients(x)
  BY <1>0, <1>5 DEF CopyTextClients, Local, Idle
<1>6. CASE FindFileSocket(x) \/ FileSocketClosed(x) \/ LockHistory(x)
  BY <1>0, <1>6 DEF FindFileSocket, FileSocketClosed, LockHistory, At, Goto, Local
<1>7. CASE Replay(x) \/ UnlockHistory(x) \/ SendEnd(x)
  BY <1>0, <1>7 DEF Replay, UnlockHistory, SendEnd, At, Goto, Local
<1> QED
  BY <1>1, <1>2, <1>3, <1>4, <1>5, <1>6, <1>7 DEF Handler

LEMMA JoiningStep == ASSUME Typed, Joining, [Next]_vars PROVE Joining'
<1>0. /\ h \in [Handlers -> Local(Len(queues))]
      /\ \A x \in Handlers : h[x] \in Local(Len(queues)) /\ HandlerOK(x, h[x])
      /\ DOMAIN queues = 1..Len(queues) /\ Len(queues) \in Nat
      /\ \A p \in DOMAIN queues : queues[p] \in QueueType
  BY TypedFacts, Variables
<1>a. ASSUME NEW p \in DOMAIN queues, Stopped(p) PROVE ~queues'[p].running
  BY <1>a, StoppedKeeps
<1>1. ASSUME NEW x \in Handlers, h'[x].pc = "join" PROVE ~queues'[h'[x].q].running
  <2>1. CASE h'[x] = h[x]
    <3>1. h[x].q \in DOMAIN queues /\ ~queues[h[x].q].running
      BY <1>0, <1>1, <2>1 DEF Joining, HandlerOK, Local
    <3> QED
      BY <2>1, <3>1, StoppedForGood
  <2>2. CASE h'[x] # h[x]
    <3>1. PICK y \in Handlers :
            \/ Handler(y)
            \/ /\ h' = [h EXCEPT ![y] = h'[y]]
               /\ h'[y].pc \in {"push", "clients", "find", "lookup", "idle"}
      BY <2>2, WhoSteps
    <3>2. h' = [h EXCEPT ![y] = h'[y]]
      BY <3>1, HandlerLocal DEF LocalChange
    <3>3. y = x
      BY <1>0, <2>2, <3>2
    <3>4. Handler(x)
      BY <1>1, <3>1, <3>3
    <3> QED
      BY <1>1, <1>a, <3>4, JoinBegins
  <2> QED
    BY <2>1, <2>2
<1>2. ASSUME server'.pc = "join" PROVE server'.q \in DOMAIN queues' /\ ~queues'[server'.q].running
  <2>1. CASE UNCHANGED server
    <3>1. server.q \in DOMAIN queues /\ ~queues[server.q].running
      BY <1>2, <2>1 DEF Joining
    <3> QED
      BY <2>1, <3>1, StoppedForGood
  <2>2. ASSUME NEW q \in DOMAIN queues, StopQueue(q) PROVE server'.q \in DOMAIN queues' /\ ~queues'[server'.q].running
    <3>1. server' = [pc |-> "join", q |-> q] /\ Stopped(q)
      BY <2>2 DEF StopQueue
    <3> QED
      BY <1>a, <3>1, StoppedForGood
  <2>3. UNCHANGED server \/ \E q \in DOMAIN queues : StopQueue(q)
    <3>0. server \in [pc : {"up", "closing", "queues", "join", "text", "file", "context", "down"},
                      q : 0..Len(queues)]
      BY DEF Typed, TypeOK
    <3>1. ASSUME NEW d \in Clients, Client(d) PROVE UNCHANGED server
      BY <3>1 DEF Client, Connect, ReceiveText, ReceiveFile, ReceiveSendHistory, ReadError, serverVars
    <3>2. Accept => UNCHANGED server
      BY DEF Accept, AcceptTextConnection, AcceptFileConnection, StartReading
    <3>3. ASSUME NEW q \in DOMAIN queues, Worker(q) PROVE UNCHANGED server
      BY <3>3 DEF Worker, BeginTransfer, EndTransfer, SpuriousWakeup, serverVars
    <3>4. StopServer \/ CloseFileAcceptor \/ QueueJoined \/ ClearQueues \/ CloseTextClients
          \/ CloseFileClients \/ StopContext => server'.pc # "join"
      BY <3>0 DEF StopServer, CloseFileAcceptor, QueueJoined, ClearQueues, CloseTextClients,
                  CloseFileClients, StopContext
    <3>5. UNCHANGED vars => UNCHANGED server
      BY DEF vars, serverVars
    <3> QED
      BY <1>2, <3>1, <3>2, <3>3, <3>4, <3>5, HandlerFrame DEF Next, Stop
  <2> QED
    BY <2>1, <2>2, <2>3
<1> QED
  BY <1>1, <1>2 DEF Joining

\* Who waits for history_mutex_, file_queues_mutex_ or a worker waits for one that goes on, or
\* for a worker that was told to stop: no cycle runs through the two mutexes, the three joins
\* and the threads of the server.  Of the workers, one in its last transfer ends with it; one
\* that has missed the notification of stop (FileTransferQueue.cpp:183-185) need not end.
THEOREM WaitingIsForWorkers == Spec => []WaitsEndAtWorkers
<1>1. Init => Typed /\ Joining
  <2>1. Init => Joining
    BY DEF Init, Joining, Idle
  <2> QED
    BY <2>1, InitTyped
<1>2. Typed /\ Joining /\ [Next]_vars => (Typed /\ Joining)'
  BY TypedStep, JoiningStep
<1>3. Typed /\ Joining => WaitsEndAtWorkers
  <2> SUFFICES ASSUME Typed, Joining PROVE WaitsEndAtWorkers
    OBVIOUS
  <2> DEFINE WorkerOf(q) == LastTransfer(q) \/ Overslept(q)
  <2>0. ASSUME NEW q, ~queues[q].running, ~Ends(q) PROVE WorkerOf(q)
    BY <2>0 DEF Ends, LastTransfer, Overslept
  <2>1. server.pc \in {"up", "down"} \/ StopCanGoOn \/ WorkerOf(server.q)
    BY <2>0 DEF Joining, StopCanGoOn
  <2>2. ~QueuesFree => StopCanGoOn \/ WorkerOf(server.q)
    BY <2>1 DEF QueuesFree
  <2>3. ~HistoryFree => \E y \in Handlers : At(y, "replay") /\ CanGoOn(y)
    <3>1. SUFFICES ASSUME NEW c \in Clients, At(Reader("text", c), "replay")
                   PROVE  \E y \in Handlers : At(y, "replay") /\ CanGoOn(y)
      BY DEF HistoryFree
    <3>2. CanGoOn(Reader("text", c))
      BY <3>1 DEF CanGoOn, At
    <3> QED
      BY <3>1, <3>2, ReaderNames
  <2>4. ASSUME NEW x \in Handlers, ~At(x, "idle"), ~CanGoOn(x)
        PROVE  \/ h[x].pc \in {"push", "lock"} /\ \E y \in Handlers : At(y, "replay") /\ CanGoOn(y)
               \/ h[x].pc \in {"lookup", "emplace"} /\ (StopCanGoOn \/ WorkerOf(server.q))
               \/ At(x, "join") /\ WorkerOf(h[x].q)
    <3>1. CASE h[x].pc \in {"push", "lock"}
      BY <2>3, <2>4, <3>1 DEF CanGoOn, At
    <3>2. CASE h[x].pc \in {"lookup", "emplace"}
      BY <2>2, <2>4, <3>2 DEF CanGoOn, At
    <3>3. CASE At(x, "join")
      <4>1. ~queues[h[x].q].running
        BY <3>3 DEF Joining, At
      <4>2. ~Ends(h[x].q)
        BY <2>4, <3>3, <4>1 DEF CanGoOn, At
      <4> QED
        BY <2>0, <3>3, <4>1, <4>2
    <3> QED
      BY <2>4, <3>1, <3>2, <3>3 DEF CanGoOn
  <2> QED
    BY <2>1, <2>4 DEF WaitsEndAtWorkers
<1> QED
  BY <1>1, <1>2, <1>3, PTL DEF Spec

-----------------------------------------------------------------------------
(* A file that was handed to a queue is not lost.                          *)

\* Whose queue a handler holds.
HeldFor(x) == IF x[1] = "text" THEN x[2] ELSE h[x].sock

\* A queue is registered for its own socket, and held for it.
SocketsMatch ==
  /\ \A c \in Clients : file_queues_[c] # 0 => queues[file_queues_[c]].sock = c
  /\ \A x \in Handlers : h[x].q # 0 => queues[h[x].q].sock = HeldFor(x)

\* A queue stops for StopServer, or when another one is registered for its socket: one is, as
\* soon as a handler is past emplace.
LosersStop ==
  /\ \A q \in DOMAIN queues : ~queues[q].running => Stopping \/ file_queues_[queues[q].sock] \notin {0, q}
  /\ \A x \in Handlers : h[x].q # 0 /\ h[x].pc # "emplace" =>
       Stopping \/ file_queues_[queues[h[x].q].sock] # 0

LEMMA StoppingStays == ASSUME Typed, [Next]_vars, Stopping PROVE Stopping'
<1>0. server \in [pc : {"up", "closing", "queues", "join", "text", "file", "context", "down"},
                  q : 0..Len(queues)]
  BY DEF Typed, TypeOK
<1>1. ASSUME NEW d \in Clients, Client(d) PROVE UNCHANGED server
  BY <1>1 DEF Client, Connect, ReceiveText, ReceiveFile, ReceiveSendHistory, ReadError, serverVars
<1>2. Accept => UNCHANGED server
  BY DEF Accept, AcceptTextConnection, AcceptFileConnection, StartReading
<1>3. ASSUME NEW q \in DOMAIN queues, Worker(q) PROVE UNCHANGED server
  BY <1>3 DEF Worker, BeginTransfer, EndTransfer, SpuriousWakeup, serverVars
<1>4. ASSUME NEW q \in DOMAIN queues, StopQueue(q) PROVE Stopping'
  BY <1>4 DEF StopQueue, Stopping
<1>5. ~StopServer
  BY DEF StopServer, Stopping
<1>6. CloseFileAcceptor \/ QueueJoined \/ ClearQueues \/ CloseTextClients \/ CloseFileClients
      \/ StopContext => Stopping'
  BY <1>0 DEF CloseFileAcceptor, QueueJoined, ClearQueues, CloseTextClients, CloseFileClients,
              StopContext, Stopping
<1>7. UNCHANGED server => Stopping'
  BY DEF Stopping
<1>8. UNCHANGED vars => UNCHANGED server
  BY DEF vars, serverVars
<1> QED
  BY <1>1, <1>2, <1>3, <1>4, <1>5, <1>6, <1>7, <1>8, HandlerFrame DEF Next, Stop

\* The registry changes when a handler registers its queue, and is cleared when StopServer
\* is past the queues.
LEMMA RegistrySteps ==
  ASSUME Typed, [Next]_vars
  PROVE  \/ UNCHANGED file_queues_
         \/ \E x \in Handlers : Emplace(x)
         \/ /\ ClearQueues /\ Stopping' /\ UNCHANGED <<h, queues>>
            /\ file_queues_' = [c \in Clients |-> 0]
<1>1. ASSUME NEW d \in Clients, Client(d) PROVE UNCHANGED file_queues_
  BY <1>1 DEF Client, Connect, ReceiveText, ReceiveFile, ReceiveSendHistory, ReadError, queueVars
<1>2. Accept => UNCHANGED file_queues_
  BY DEF Accept, AcceptTextConnection, AcceptFileConnection, StartReading, queueVars
<1>3. ASSUME NEW x \in Handlers, Handler(x) PROVE Emplace(x) \/ UNCHANGED file_queues_
  <2>1. CASE Lookup(x) \/ Drop(x) \/ Join(x)
    BY <2>1 DEF Lookup, Drop, Join, queueVars
  <2>2. CASE ~Lookup(x) /\ ~Drop(x) /\ ~Join(x) /\ ~Emplace(x)
    BY <1>3, <2>2, HoldsQueue
  <2> QED
    BY <2>1, <2>2
<1>4. ASSUME NEW q \in DOMAIN queues, Worker(q) PROVE UNCHANGED file_queues_
  BY <1>4 DEF Worker, BeginTransfer, EndTransfer, SpuriousWakeup
<1>5. ASSUME NEW q \in DOMAIN queues, StopQueue(q) PROVE UNCHANGED file_queues_
  BY <1>5 DEF StopQueue
<1>6. CASE ClearQueues
  <2>1. Stopping
    BY <1>6 DEF ClearQueues, Stopping
  <2> QED
    BY <1>6, <2>1, StoppingStays DEF ClearQueues
<1>7. StopServer \/ CloseFileAcceptor \/ QueueJoined \/ CloseTextClients \/ CloseFileClients
      \/ StopContext \/ UNCHANGED vars => UNCHANGED file_queues_
  BY DEF StopServer, CloseFileAcceptor, QueueJoined, CloseTextClients, CloseFileClients, StopContext,
         vars, queueVars
<1> QED
  BY <1>1, <1>2, <1>3, <1>4, <1>5, <1>6, <1>7 DEF Next, Stop

\* A handler that holds a queue has held it, registered it or found it.
LEMMA HolderSteps ==
  ASSUME Typed, [Next]_vars, NEW x \in Handlers, h'[x].q # 0
  PROVE  \/ h'[x] = h[x]
         \/ Lookup(x) \/ Emplace(x)
         \/ /\ h'[x].q = h[x].q /\ h[x].pc # "emplace"
            /\ x[1] # "text" => h'[x].sock = h[x].sock
<1>0. /\ h \in [Handlers -> Local(Len(queues))] /\ h[x] \in Local(Len(queues)) /\ HandlerOK(x, h[x])
  BY TypedFacts, Variables
<1>1. SUFFICES ASSUME h'[x] # h[x], ~Lookup(x), ~Emplace(x)
               PROVE  /\ h'[x].q = h[x].q /\ h[x].pc # "emplace"
                      /\ x[1] # "text" => h'[x].sock = h[x].sock
  OBVIOUS
<1>2. Handler(x)
  <2>1. PICK y \in Handlers :
          \/ Handler(y)
          \/ /\ h' = [h EXCEPT ![y] = h'[y]]
             /\ h'[y].pc \in {"push", "clients", "find", "lookup", "idle"}
    BY <1>1, WhoSteps
  <2>2. h' = [h EXCEPT ![y] = h'[y]]
    BY <2>1, HandlerLocal DEF LocalChange
  <2>3. y = x
    BY <1>0, <1>1, <2>2
  <2>4. HandlerOK(x, h'[x])
    BY QueuesAndHandlers DEF HandlersOK
  <2>5. h'[x].pc \notin {"push", "clients", "find", "lookup", "idle"}
    BY <2>4 DEF HandlerOK, Holding
  <2> QED
    BY <2>1, <2>3, <2>5
<1>3. CASE Drop(x) \/ Join(x)
  <2>1. ~Released(x)
    BY ReleasedQueue
  <2>2. h' = [h EXCEPT ![x].pc = "join"] /\ h[x].pc = "drop"
    BY <1>3, <2>1 DEF Drop, Join, Goto, At
  <2> QED
    BY <1>0, <2>2 DEF Local
<1>4. CASE ~Drop(x) /\ ~Join(x)
  <2>1. h'[x].q = h[x].q /\ h[x].q # 0
    BY <1>1, <1>2, <1>4, HoldsQueue
  <2>2. h[x].pc \in Holding
    BY <1>0, <2>1 DEF HandlerOK
  <2>3. EnqueueFile(x) \/ LockHistory(x) \/ Replay(x) \/ UnlockHistory(x) \/ SendEnd(x)
    <3>1. ~PushText(x) /\ ~SendText(x) /\ ~CopyFileClients(x) /\ ~NextFileClient(x)
      BY <2>2 DEF PushText, SendText, CopyFileClients, NextFileClient, At, Holding
    <3>2. ~CopyTextClients(x) /\ ~SendLog(x) /\ ~FindFileSocket(x) /\ ~FileSocketClosed(x)
      BY <2>2 DEF CopyTextClients, SendLog, FindFileSocket, FileSocketClosed, At, Holding
    <3> QED
      BY <1>1, <1>2, <1>4, <3>1, <3>2 DEF Handler
  <2>4. CASE EnqueueFile(x)
    <3>1. h' = [h EXCEPT ![x].pc = "drop"] /\ h[x].pc = "enqueue"
      BY <2>4 DEF EnqueueFile, Goto, At
    <3> QED
      BY <1>0, <2>1, <3>1 DEF Local
  <2>5. CASE LockHistory(x) \/ Replay(x) \/ UnlockHistory(x) \/ SendEnd(x)
    <3>1. h[x].pc \in {"lock", "replay", "end"}
      BY <2>5 DEF LockHistory, Replay, UnlockHistory, SendEnd, At
    <3> QED
      BY <1>0, <2>1, <3>1 DEF HandlerOK
  <2> QED
    BY <2>3, <2>4, <2>5
<1> QED
  BY <1>3, <1>4

\* What a handler finds, builds and registers.
LEMMA LookupSteps ==
  ASSUME Typed, NEW x \in Handlers
  PROVE  /\ Lookup(x) => /\ h[x].sock \in Clients /\ HeldFor(x) = h[x].sock /\ h'[x].sock = h[x].sock
                         /\ \/ /\ file_queues_[h[x].sock] # 0 /\ h'[x].q = file_queues_[h[x].sock]
                               /\ UNCHANGED queues
                            \/ /\ h'[x].pc = "emplace" /\ h'[x].q = Len(queues) + 1
                               /\ queues'[h'[x].q].sock = h[x].sock
         /\ Emplace(x) => /\ h[x].sock \in Clients /\ HeldFor(x) = h[x].sock /\ h'[x].sock = h[x].sock
                          /\ h'[x].q = h[x].q /\ h[x].q \in DOMAIN queues /\ h[x].q # 0
                          /\ UNCHANGED queues
                          /\ file_queues_' = [file_queues_ EXCEPT ![h[x].sock] = IF @ = 0 THEN h[x].q ELSE @]
<1>0. /\ h \in [Handlers -> Local(Len(queues))] /\ h[x] \in Local(Len(queues)) /\ HandlerOK(x, h[x])
      /\ DOMAIN queues = 1..Len(queues)
  BY TypedFacts, Variables
<1>1. Lookup(x) \/ Emplace(x) => h[x].sock \in Clients /\ HeldFor(x) = h[x].sock
  BY <1>0 DEF Lookup, Emplace, At, HandlerOK, HeldFor
<1>2. ASSUME Lookup(x), file_queues_[h[x].sock] # 0
      PROVE  h'[x].sock = h[x].sock /\ h'[x].q = file_queues_[h[x].sock] /\ UNCHANGED queues
  BY <1>0, <1>2 DEF Lookup, FindOrBuild, Local
<1>3. ASSUME Lookup(x), file_queues_[h[x].sock] = 0
      PROVE  /\ h'[x].sock = h[x].sock /\ h'[x].pc = "emplace" /\ h'[x].q = Len(queues) + 1
             /\ queues'[h'[x].q].sock = h[x].sock
  <2>1. /\ queues' = Append(queues, NewQueue(h[x].sock))
        /\ h' = [h EXCEPT ![x].q = Len(queues'), ![x].pc = "emplace"]
    BY <1>3 DEF Lookup, FindOrBuild
  <2>2. NewQueue(h[x].sock) \in QueueType /\ NewQueue(h[x].sock).sock = h[x].sock
    BY <1>1, <1>3, EmptySeq DEF NewQueue, QueueType
  <2>3. Len(queues') = Len(queues) + 1 /\ queues'[Len(queues) + 1] = NewQueue(h[x].sock)
    BY <2>1, <2>2, QueueAdded
  <2>4. h'[x].sock = h[x].sock /\ h'[x].pc = "emplace" /\ h'[x].q = Len(queues')
    BY <1>0, <2>1 DEF Local
  <2> QED
    BY <2>2, <2>3, <2>4
<1>4. ASSUME Emplace(x)
      PROVE  /\ h'[x].sock = h[x].sock /\ h'[x].q = h[x].q /\ h[x].q \in DOMAIN queues /\ h[x].q # 0
             /\ UNCHANGED queues
             /\ file_queues_' = [file_queues_ EXCEPT ![h[x].sock] = IF @ = 0 THEN h[x].q ELSE @]
  <2>1. h' = [h EXCEPT ![x].pc = Caller(x)] /\ h[x].pc = "emplace"
    BY <1>4 DEF Emplace, Goto, At
  <2>2. h[x].q # 0 /\ h[x].q \in DOMAIN queues
    BY <1>0, <2>1 DEF HandlerOK, Local
  <2>3. h'[x].sock = h[x].sock /\ h'[x].q = h[x].q
    BY <1>0, <2>1 DEF Local
  <2> QED
    BY <1>4, <2>2, <2>3 DEF Emplace, Emplaced
<1> QED
  BY <1>1, <1>2, <1>3, <1>4

LEMMA SocketsMatchStep == ASSUME Typed, SocketsMatch, [Next]_vars PROVE SocketsMatch'
<1>0. /\ h \in [Handlers -> Local(Len(queues))]
      /\ file_queues_ \in [Clients -> 0..Len(queues)]
      /\ \A x \in Handlers : h[x] \in Local(Len(queues)) /\ HandlerOK(x, h[x])
      /\ DOMAIN queues = 1..Len(queues) /\ Len(queues) \in Nat
  BY TypedFacts, Variables
<1>1. ASSUME NEW c \in Clients, file_queues_'[c] # 0 PROVE queues'[file_queues_'[c]].sock = c
  <2>1. CASE file_queues_'[c] = file_queues_[c]
    <3>1. file_queues_[c] \in DOMAIN queues /\ queues[file_queues_[c]].sock = c
      BY <1>0, <1>1, <2>1 DEF SocketsMatch
    <3> QED
      BY <2>1, <3>1, StoppedForGood
  <2>2. CASE file_queues_'[c] # file_queues_[c]
    <3>1. PICK x \in Handlers : Emplace(x)
      BY <1>0, <1>1, <2>2, RegistrySteps
    <3>2. /\ HeldFor(x) = h[x].sock /\ h[x].q # 0 /\ h[x].q \in DOMAIN queues /\ h[x].sock \in Clients
          /\ file_queues_' = [file_queues_ EXCEPT ![h[x].sock] = IF @ = 0 THEN h[x].q ELSE @]
      BY <3>1, LookupSteps
    <3>3. c = h[x].sock /\ file_queues_'[c] = h[x].q
      BY <1>0, <2>2, <3>2
    <3>4. queues[h[x].q].sock = c
      BY <3>2, <3>3 DEF SocketsMatch
    <3> QED
      BY <3>2, <3>3, <3>4, StoppedForGood
  <2> QED
    BY <2>1, <2>2
<1>2. ASSUME NEW x \in Handlers, h'[x].q # 0 PROVE queues'[h'[x].q].sock = HeldFor(x)'
  <2>1. CASE h'[x].q = h[x].q /\ (x[1] # "text" => h'[x].sock = h[x].sock)
    <3>1. h[x].q \in DOMAIN queues /\ queues[h[x].q].sock = HeldFor(x)
      BY <1>0, <1>2, <2>1 DEF SocketsMatch, Local
    <3>2. HeldFor(x)' = HeldFor(x)
      BY <2>1 DEF HeldFor
    <3> QED
      BY <2>1, <3>1, <3>2, StoppedForGood
  <2>2. CASE Emplace(x)
    BY <2>1, <2>2, LookupSteps
  <2>3. CASE Lookup(x)
    <3>1. HeldFor(x)' = h[x].sock
      BY <2>3, LookupSteps DEF HeldFor
    <3>2. CASE file_queues_[h[x].sock] # 0 /\ h'[x].q = file_queues_[h[x].sock] /\ UNCHANGED queues
      BY <2>3, <3>1, <3>2, LookupSteps DEF SocketsMatch
    <3> QED
      BY <2>3, <3>1, <3>2, LookupSteps
  <2> QED
    BY <1>2, <2>1, <2>2, <2>3, HolderSteps
<1> QED
  BY <1>1, <1>2 DEF SocketsMatch

LEMMA LosersStopStep == ASSUME Typed, SocketsMatch, LosersStop, [Next]_vars PROVE LosersStop'
<1>0. /\ h \in [Handlers -> Local(Len(queues))]
      /\ file_queues_ \in [Clients -> 0..Len(queues)]
      /\ \A x \in Handlers : h[x] \in Local(Len(queues)) /\ HandlerOK(x, h[x])
      /\ DOMAIN queues = 1..Len(queues) /\ Len(queues) \in Nat
      /\ \A p \in DOMAIN queues : queues[p] \in QueueType
  BY TypedFacts, Variables
<1>a. ASSUME NEW c \in Clients, file_queues_[c] # 0 PROVE Stopping' \/ file_queues_'[c] = file_queues_[c]
  <2>1. ASSUME NEW x \in Handlers, Emplace(x) PROVE file_queues_'[c] = file_queues_[c]
    BY <1>0, <1>a, <2>1, LookupSteps
  <2> QED
    BY <2>1, RegistrySteps
<1>b. ASSUME NEW q \in DOMAIN queues, file_queues_[queues[q].sock] \notin {0, q}
      PROVE  Stopping' \/ file_queues_'[queues'[q].sock] \notin {0, q}
  <2>1. queues[q].sock \in Clients /\ queues'[q].sock = queues[q].sock
    BY <1>0, StoppedForGood DEF QueueType
  <2> QED
    BY <1>a, <1>b, <2>1
<1>1. ASSUME NEW q \in DOMAIN queues', ~queues'[q].running
      PROVE  Stopping' \/ file_queues_'[queues'[q].sock] \notin {0, q}
  <2>1. CASE q \in DOMAIN queues /\ ~queues[q].running
    BY <1>b, <2>1, StoppingStays DEF LosersStop
  <2>2. CASE q \in DOMAIN queues /\ queues[q].running
    <3>1. ~UNCHANGED queues
      BY <1>1, <2>2
    <3>2. ASSUME NEW x \in Handlers, queues' = Append(queues, NewQueue(h[x].sock)), h[x].sock \in Clients
          PROVE  FALSE
      <4>1. NewQueue(h[x].sock) \in QueueType
        BY <3>2, EmptySeq DEF NewQueue, QueueType
      <4> QED
        BY <1>1, <2>2, <3>2, <4>1, QueueAdded
    <3>3. ASSUME NEW x, NEW c, NEW f, Enqueues(x, c, f) PROVE FALSE
      BY <1>0, <1>1, <2>2, <3>3 DEF Enqueues, Enqueue, QueueType
    <3>4. ASSUME NEW p \in DOMAIN queues, Worker(p) PROVE FALSE
      <4>1. ~SpuriousWakeup(p)
        BY <1>1, <2>2, WakeupKeeps
      <4> QED
        BY <1>0, <1>1, <2>2, <3>4, <4>1 DEF Worker, BeginTransfer, EndTransfer, QueueType
    <3>5. ASSUME NEW p \in DOMAIN queues, StopQueue(p) PROVE Stopping'
      BY <3>5 DEF StopQueue, Stopping
    <3>6. ASSUME NEW x \in Handlers, Drop(x), ~Registered(h[x].q), h[x].q \in DOMAIN queues, Stopped(h[x].q)
          PROVE  Stopping' \/ file_queues_'[queues'[q].sock] \notin {0, q}
      <4>1. q = h[x].q
        BY <1>1, <2>2, <3>6, StoppedKeeps
      <4>2. h[x].pc # "emplace" /\ h[x].q # 0
        BY <1>0, <3>6 DEF Drop, At
      <4>3. Stopping \/ file_queues_[queues[q].sock] # 0
        BY <4>1, <4>2 DEF LosersStop
      <4>4. queues[q].sock \in Clients
        BY <1>0, <2>2 DEF QueueType
      <4>5. file_queues_[queues[q].sock] # q
        BY <3>6, <4>1, <4>4 DEF Registered
      <4> QED
        BY <1>b, <2>2, <4>3, <4>5, StoppingStays
    <3> QED
      BY <3>1, <3>2, <3>3, <3>4, <3>5, <3>6, QueueSteps
  <2>3. CASE q \notin DOMAIN queues
    <3>1. ASSUME NEW x \in Handlers, queues' = Append(queues, NewQueue(h[x].sock)), h[x].sock \in Clients
          PROVE  FALSE
      <4>1. NewQueue(h[x].sock) \in QueueType /\ NewQueue(h[x].sock).running
        BY <3>1, EmptySeq DEF NewQueue, QueueType
      <4>2. q = Len(queues) + 1 /\ queues'[q] = NewQueue(h[x].sock)
        BY <1>0, <1>1, <2>3, <3>1, <4>1, QueueAdded
      <4> QED
        BY <1>1, <4>1, <4>2
    <3>2. ASSUME DOMAIN queues' = DOMAIN queues PROVE FALSE
      BY <1>1, <2>3, <3>2
    <3>3. ASSUME NEW x, NEW c, NEW f, Enqueues(x, c, f) PROVE FALSE
      BY <3>2, <3>3 DEF Enqueues, Enqueue
    <3>4. ASSUME NEW p \in DOMAIN queues, Worker(p) \/ Stopped(p) PROVE FALSE
      BY <1>1, <2>3, <3>2, <3>4, StoppedKeeps DEF Worker, BeginTransfer, EndTransfer, SpuriousWakeup
    <3> QED
      BY <1>1, <2>3, <3>1, <3>3, <3>4, QueueSteps DEF StopQueue
  <2> QED
    BY <2>1, <2>2, <2>3
<1>2. ASSUME NEW x \in Handlers, h'[x].q # 0, h'[x].pc # "emplace"
      PROVE  Stopping' \/ file_queues_'[queues'[h'[x].q].sock] # 0
  <2>1. CASE h'[x].q = h[x].q /\ h[x].pc # "emplace"
    <3>1. h[x].q \in DOMAIN queues /\ (Stopping \/ file_queues_[queues[h[x].q].sock] # 0)
      BY <1>0, <1>2, <2>1 DEF LosersStop, Local
    <3>2. queues[h[x].q].sock \in Clients /\ queues'[h[x].q].sock = queues[h[x].q].sock
      BY <1>0, <3>1, StoppedForGood DEF QueueType
    <3> QED
      BY <1>a, <2>1, <3>1, <3>2, StoppingStays
  <2>2. CASE Emplace(x)
    <3>1. /\ h[x].sock \in Clients /\ HeldFor(x) = h[x].sock /\ h'[x].q = h[x].q
          /\ h[x].q # 0 /\ UNCHANGED queues
          /\ file_queues_' = [file_queues_ EXCEPT ![h[x].sock] = IF @ = 0 THEN h[x].q ELSE @]
      BY <2>2, LookupSteps
    <3>2. queues[h[x].q].sock = h[x].sock
      BY <3>1 DEF SocketsMatch
    <3>3. file_queues_'[h[x].sock] # 0
      BY <1>0, <3>1
    <3> QED
      BY <3>1, <3>2, <3>3
  <2>3. CASE Lookup(x)
    <3>1. /\ h[x].sock \in Clients /\ file_queues_[h[x].sock] # 0
          /\ h'[x].q = file_queues_[h[x].sock] /\ UNCHANGED <<queues, file_queues_>>
      BY <1>2, <2>3, LookupSteps DEF Lookup
    <3>2. queues[h'[x].q].sock = h[x].sock
      BY <3>1 DEF SocketsMatch
    <3> QED
      BY <3>1, <3>2
  <2> QED
    BY <1>2, <2>1, <2>2, <2>3, HolderSteps
<1> QED
  BY <1>1, <1>2 DEF LosersStop

\* A socket that was closed is not opened again, and a text socket that is read from is
\* read from until it is closed.
LEMMA ClosedForGood ==
  ASSUME Typed, Listing, [Next]_vars, NEW kind \in {"text", "file"}, NEW c \in Clients
  PROVE  /\ ~IsOpen(kind, c) => ~IsOpen(kind, c)'
         /\ conn[<<"text", c>>] = "reading" => conn'[<<"text", c>>] \in {"reading", "closed"}
<1> DEFINE Stays == /\ conn[<<kind, c>>] = "closed" => conn'[<<kind, c>>] = "closed"
                    /\ conn[<<"text", c>>] = "reading" => conn'[<<"text", c>>] \in {"reading", "closed"}
<1>0. /\ conn \in [SocketNames -> {"none", "backlog", "accepted", "listed", "reading", "closed"}]
      /\ <<kind, c>> \in SocketNames /\ <<"text", c>> \in SocketNames /\ Sockets \subseteq SocketNames
  BY ConstantsAssumption, Variables DEF SocketNames
<1>1. SUFFICES Stays
  BY DEF IsOpen
<1>a. UNCHANGED conn => Stays
  OBVIOUS
<1>2. ASSUME NEW d \in Clients, Connect(d) PROVE Stays
  <2>1. CASE d # c
    BY <1>0, <1>2, <2>1 DEF Connect, SocketNames
  <2>2. CASE d = c
    <3>1. PICK s \in Sockets : s[2] = c /\ conn[s] = "none"
      BY <1>2, <2>2 DEF Connect
    <3>2. s \in {<<"text", c>>, <<"file", c>>}
      BY <1>0, <3>1 DEF SocketNames
    <3>3. \A k \in {"text", "file"} : conn[<<k, c>>] # "none" => <<k, c>> \notin Sockets
      BY <1>0, <3>1, <3>2 DEF Listing
    <3>4. ASSUME NEW k \in {"text", "file"}, conn[<<k, c>>] # "none" PROVE conn'[<<k, c>>] = conn[<<k, c>>]
      <4>1. <<k, c>> \in SocketNames /\ <<k, c>> \notin Sockets
        BY <3>3, <3>4 DEF SocketNames
      <4> QED
        BY <1>0, <1>2, <4>1 DEF Connect
    <3> QED
      BY <3>4
  <2> QED
    BY <2>1, <2>2
<1>3. CASE Accept
  <2>1. ASSUME NEW d \in Clients, AcceptTextConnection(d) PROVE Stays
    <3>1. conn[<<"text", d>>] \in {"backlog", "accepted"} /\ conn' = [conn EXCEPT ![<<"text", d>>] = "reading"]
      BY <2>1 DEF AcceptTextConnection, Accepted
    <3> QED
      BY <1>0, <3>1
  <2>2. ASSUME NEW d \in Clients, AcceptFileConnection(d) PROVE Stays
    <3>1. conn[<<"file", d>>] \in {"backlog", "accepted"} /\ conn' = [conn EXCEPT ![<<"file", d>>] = "listed"]
      BY <2>2 DEF AcceptFileConnection, Accepted
    <3> QED
      BY <1>0, <3>1
  <2>3. CASE StartReading
    BY <1>0, <2>3 DEF StartReading
  <2> QED
    BY <1>3, <2>1, <2>2, <2>3 DEF Accept
<1>4. ASSUME NEW k, CloseAcceptor(k) PROVE Stays
  BY <1>0, <1>4 DEF CloseAcceptor, SocketNames
<1>5. ASSUME NEW k, NEW listed, conn' = Closed(k, listed) PROVE Stays
  BY <1>0, <1>5 DEF Closed, SocketNames
<1> HIDE DEF Stays
<1>6. ASSUME NEW d \in Clients, Client(d), ~Connect(d) PROVE UNCHANGED conn
  BY <1>6 DEF Client, ReceiveText, ReceiveFile, ReceiveSendHistory, ReadError, serverVars
<1>7. ASSUME NEW q \in DOMAIN queues, Worker(q) PROVE UNCHANGED conn
  BY <1>7 DEF Worker, BeginTransfer, EndTransfer, SpuriousWakeup, serverVars
<1>8. CASE StopServer
  BY <1>4, <1>8 DEF StopServer
<1>9. CASE Stop
  BY <1>4, <1>5, <1>9, <1>a DEF Stop, CloseFileAcceptor, StopQueue, QueueJoined, ClearQueues,
                               CloseTextClients, CloseFileClients, StopContext
<1>10. UNCHANGED vars => UNCHANGED conn
  BY DEF vars, serverVars
<1> QED
  BY <1>2, <1>3, <1>6, <1>7, <1>8, <1>9, <1>10, <1>a, HandlerFrame DEF Next

\* What was written stays written, and who has left has left.
LEMMA FilesGrow ==
  ASSUME Typed, [Next]_vars, NEW c \in Clients
  PROVE  files[c] \subseteq files'[c] /\ left \subseteq left'
<1>0. files \in [Clients -> SUBSET Files]
  BY DEF Typed, TypeOK
<1>1. files[c] \subseteq files'[c]
  <2>1. ASSUME NEW q \in DOMAIN queues, Worker(q) PROVE files[c] \subseteq files'[c]
    BY <1>0, <2>1 DEF Worker, BeginTransfer, EndTransfer, SpuriousWakeup
  <2>2. ASSUME NEW q \in DOMAIN queues, StopQueue(q) PROVE UNCHANGED files
    BY <2>2 DEF StopQueue
  <2>3. ASSUME NEW x \in Handlers, Drop(x) PROVE UNCHANGED files
    BY <2>3 DEF Drop
  <2> QED
    BY <2>1, <2>2, <2>3, QueueSteps DEF Enqueues
<1>2. left \subseteq left'
  <2>1. ASSUME NEW d \in Clients, Client(d) PROVE left \subseteq left'
    BY <2>1 DEF Client, Connect, ReceiveText, ReceiveFile, ReceiveSendHistory, ReadError, SeesEnd
  <2>2. Accept => UNCHANGED left
    BY DEF Accept, AcceptTextConnection, AcceptFileConnection, StartReading
  <2>3. ASSUME NEW q \in DOMAIN queues, Worker(q) PROVE UNCHANGED left
    BY <2>3 DEF Worker, BeginTransfer, EndTransfer, SpuriousWakeup
  <2>4. StopServer \/ UNCHANGED vars => UNCHANGED left
    BY DEF StopServer, vars
  <2> QED
    BY <2>1, <2>2, <2>3, <2>4, HandlerFrame, StopQueuesOK DEF Next
<1> QED
  BY <1>1, <1>2

\* A file is in a queue: its worker is at it, or has yet to come to it.
InQueue(c, f) ==
  \E q \in DOMAIN queues :
    queues[q].sock = c /\ (queues[q].active = f \/ f \in Elements(queues[q].todo))
NotLost ==
  \A c \in Clients : \A f \in handed[c] :
    f \in files[c] \/ <<"file", c>> \in left \/ ~IsOpen("file", c) \/ InQueue(c, f)

LEMMA InQueueStep ==
  ASSUME Typed, [Next]_vars, NEW c \in Clients, NEW f \in Files,
         InQueue(c, f), <<"file", c>> \notin left, IsOpen("file", c)
  PROVE  f \in files'[c] \/ InQueue(c, f)'
<1>0. /\ DOMAIN queues = 1..Len(queues) /\ files \in [Clients -> SUBSET Files]
      /\ \A p \in DOMAIN queues : queues[p] \in QueueType
  BY Variables DEF Typed, TypeOK
<1>1. PICK q \in DOMAIN queues :
        queues[q].sock = c /\ (queues[q].active = f \/ f \in Elements(queues[q].todo))
  BY DEF InQueue
<1>2. q \in DOMAIN queues' /\ queues'[q].sock = c
  BY <1>1, StoppedForGood
<1>3. queues[q].todo \in Seq(Files)
  BY <1>0 DEF QueueType
<1>4. SUFFICES f \in files'[c] \/ queues'[q].active = f \/ f \in Elements(queues'[q].todo)
  BY <1>2 DEF InQueue
<1>5. CASE queues'[q].active = queues[q].active /\ queues'[q].todo = queues[q].todo
  BY <1>1, <1>5 DEF Elements
<1>6. ASSUME NEW d \in Clients, queues' = Append(queues, NewQueue(d))
      PROVE  queues'[q] = queues[q]
  <2>1. NewQueue(d) \in QueueType
    BY EmptySeq DEF NewQueue, QueueType
  <2> QED
    BY <1>6, <2>1, QueueAdded
<1>7. ASSUME NEW x, NEW d, NEW g \in Files, Enqueues(x, d, g)
      PROVE  queues'[q].active = f \/ f \in Elements(queues'[q].todo)
  <2>1. queues'[q].active = queues[q].active
        /\ queues'[q].todo \in {queues[q].todo, Append(queues[q].todo, g)}
    BY <1>0, <1>7 DEF Enqueues, Enqueue, QueueType
  <2>2. Elements(Append(queues[q].todo, g)) = Elements(queues[q].todo) \cup {g}
    BY <1>3, AppendElements
  <2> QED
    BY <1>1, <2>1, <2>2
<1>8. ASSUME NEW p \in DOMAIN queues, Stopped(p)
      PROVE  queues'[q].active = queues[q].active /\ queues'[q].todo = queues[q].todo
  BY <1>8, StoppedKeeps
<1>9. ASSUME NEW p \in DOMAIN queues, BeginTransfer(p)
      PROVE  queues'[q].active = f \/ f \in Elements(queues'[q].todo)
  <2>1. CASE p # q
    BY <1>0, <1>1, <1>9, <2>1 DEF BeginTransfer
  <2>2. CASE p = q
    <3>1. /\ queues[q].active = NoMsg
          /\ queues'[q].active = Head(queues[q].todo) /\ queues'[q].todo = Tail(queues[q].todo)
      BY <1>0, <1>9, <2>2 DEF BeginTransfer, QueueType
    <3>2. f \in Elements(queues[q].todo)
      BY <1>1, <3>1, Kinds
    <3> QED
      BY <1>3, <3>1, <3>2, HeadOrTail
  <2> QED
    BY <2>1, <2>2
<1>10. ASSUME NEW p \in DOMAIN queues, EndTransfer(p)
       PROVE  f \in files'[c] \/ queues'[q].active = f \/ f \in Elements(queues'[q].todo)
  <2>1. CASE p # q \/ queues[q].active # f
    BY <1>0, <1>1, <1>10, <2>1 DEF EndTransfer, QueueType
  <2>2. CASE p = q /\ queues[q].active = f
    <3>1. files' = [files EXCEPT ![c] = @ \cup {f}]
      BY <1>1, <1>10, <2>2 DEF EndTransfer
    <3> QED
      BY <1>0, <3>1
  <2> QED
    BY <2>1, <2>2
<1>11. ASSUME NEW p \in DOMAIN queues, SpuriousWakeup(p)
       PROVE  queues'[q].active = queues[q].active /\ queues'[q].todo = queues[q].todo
  BY <1>11, WakeupKeeps
<1> QED
  BY <1>5, <1>6, <1>7, <1>8, <1>9, <1>10, <1>11, QueueSteps DEF StopQueue, Worker

LEMMA NotLostStep ==
  ASSUME Typed, Listing, SocketsMatch, NotLost, [Next]_vars
  PROVE  NotLost'
<1>0. /\ DOMAIN queues = 1..Len(queues) /\ handed \in [Clients -> SUBSET Files]
      /\ \A p \in DOMAIN queues : queues[p] \in QueueType
  BY Variables
<1>1. SUFFICES ASSUME NEW c \in Clients, NEW f \in handed'[c]
               PROVE  \/ f \in files'[c] \/ <<"file", c>> \in left'
                      \/ ~IsOpen("file", c)' \/ InQueue(c, f)'
  BY DEF NotLost
<1>2. CASE f \in handed[c]
  <2>1. f \in Files
    BY <1>0, <1>2
  <2>2. f \in files[c] \/ <<"file", c>> \in left \/ ~IsOpen("file", c) \/ InQueue(c, f)
    BY <1>2 DEF NotLost
  <2> QED
    BY <2>1, <2>2, FilesGrow, ClosedForGood, InQueueStep
<1>3. CASE f \notin handed[c]
  <2>1. PICK x \in Handlers, d \in Clients, g \in Files : Enqueues(x, d, g)
    <3>1. handed' # handed
      BY <1>1, <1>3
    <3>2. ASSUME NEW q \in DOMAIN queues, StopQueue(q) \/ Worker(q) PROVE UNCHANGED handed
      BY <3>2 DEF StopQueue, Worker, BeginTransfer, EndTransfer, SpuriousWakeup
    <3>3. ASSUME NEW x \in Handlers, Drop(x) PROVE UNCHANGED handed
      BY <3>3 DEF Drop
    <3> QED
      BY <3>1, <3>2, <3>3, QueueSteps
  <2>2. handed' = [handed EXCEPT ![d] = @ \cup {g}]
    BY <2>1 DEF Enqueues, Enqueue
  <2>3. c = d /\ f = g
    BY <1>0, <1>1, <1>3, <2>2
  <2> DEFINE q == h[x].q
  <2>4. /\ q \in DOMAIN queues /\ c = HeldFor(x)
        /\ queues' = [queues EXCEPT ![q].todo = Append(@, f), ![q].worker = "spins"]
    BY <2>1, <2>3 DEF Enqueues, Enqueue, HeldFor
  <2> HIDE DEF q
  <2>5. queues[q].sock = c
    BY <1>0, <2>4 DEF SocketsMatch, q
  <2>6. queues'[q].todo = Append(queues[q].todo, f) /\ queues[q].todo \in Seq(Files)
    BY <1>0, <2>4 DEF QueueType
  <2>7. f \in Elements(queues'[q].todo)
    BY <2>3, <2>6, AppendElements
  <2>8. q \in DOMAIN queues' /\ queues'[q].sock = c
    BY <2>4, <2>5, StoppedForGood
  <2> QED
    BY <2>7, <2>8 DEF InQueue
<1> QED
  BY <1>2, <1>3

LEMMA InitFilesKept == Init => SocketsMatch /\ LosersStop /\ NotLost
<1> SUFFICES ASSUME Init PROVE SocketsMatch /\ LosersStop /\ NotLost
  OBVIOUS
<1>1. ASSUME NEW c \in Clients, file_queues_[c] # 0 PROVE queues[file_queues_[c]].sock = c
  <2>1. /\ c \in Elements(file_port_clients_) /\ DOMAIN queues = DOMAIN file_port_clients_
        /\ \A q \in DOMAIN queues : queues[q].sock = file_port_clients_[q]
        /\ file_queues_[c] = CHOOSE q \in DOMAIN queues : file_port_clients_[q] = c
    BY <1>1 DEF Init, NewQueue
  <2>2. file_queues_[c] \in DOMAIN queues /\ file_port_clients_[file_queues_[c]] = c
    BY <2>1 DEF Elements
  <2> QED
    BY <2>1, <2>2
<1>2. \A x \in Handlers : h[x].q = 0
  BY DEF Init, Idle
<1>3. \A q \in DOMAIN queues : queues[q].running
  BY DEF Init, NewQueue
<1>4. \A c \in Clients : handed[c] = {}
  BY DEF Init
<1> QED
  BY <1>1, <1>2, <1>3, <1>4 DEF SocketsMatch, LosersStop, NotLost

\* A file that a handler has put in a queue reaches the socket or waits for a worker that runs:
\* the destructor of a queue that lost the race to register (FileTransferQueue.cpp:24) is the
\* only one that drops files while the server is up.
THEOREM NoFileLost == Spec => []FilesKept
<1> DEFINE Inv == Typed /\ Listing /\ SocketsMatch /\ LosersStop /\ NotLost
<1>1. Init => Inv
  BY InitTyped, InitListing, InitFilesKept
<1>2. Inv /\ [Next]_vars => Inv'
  BY TypedStep, ListingStep, SocketsMatchStep, LosersStopStep, NotLostStep
<1>3. Inv => FilesKept
  <2> SUFFICES ASSUME Inv, NEW c \in Clients, NEW f \in handed[c],
                      f \notin files[c], <<"file", c>> \notin left, IsOpen("file", c)
               PROVE  \E q \in DOMAIN queues :
                        /\ queues[q].sock = c
                        /\ \/ queues[q].active = f
                           \/ /\ f \in Elements(queues[q].todo)
                              /\ \/ queues[q].running
                                 \/ file_queues_[c] \notin {0, q}
                                 \/ server.pc \notin {"up", "closing"}
    BY DEF FilesKept, Kept
  <2>1. PICK q \in DOMAIN queues :
          queues[q].sock = c /\ (queues[q].active = f \/ f \in Elements(queues[q].todo))
    BY DEF NotLost, InQueue
  <2>2. queues[q].running \/ Stopping \/ file_queues_[c] \notin {0, q}
    BY <2>1 DEF LosersStop
  <2> QED
    BY <2>1, <2>2 DEF Stopping
<1> QED
  BY <1>1, <1>2, <1>3, PTL DEF Spec

\* A joiner whose file socket was listed when SendHistory looked for it loses no file that the
\* history still held, and no later one, but with StopServer or with the queue of a handler that
\* lost the race between the search and the emplace (ServerManager.cpp:289-305): it is handed
\* every one of them, and what it is handed is kept.
THEOREM JoinerFilesKept == Spec => []FilesReachJoiner
<1>1. TypeOK /\ HandedToJoiner /\ FilesKept => FilesReachJoiner
  <2> SUFFICES ASSUME TypeOK, HandedToJoiner, FilesKept, NEW c \in found, NEW f \in Files,
                      Answered(c), f.by # c, FileBroadcastDone(f), from[c] <= Position(f)
               PROVE  Kept(c, f)
    BY DEF FilesReachJoiner
  <2>1. c \in Clients
    BY DEF TypeOK
  <2>2. CASE IsOpen("file", c)
    BY <2>1, <2>2 DEF HandedToJoiner, FilesKept
  <2>3. CASE ~IsOpen("file", c)
    BY <2>3 DEF Kept
  <2> QED
    BY <2>2, <2>3
<1> QED
  BY <1>1, ServerTyping, JoinerIsHanded, NoFileLost, PTL

-----------------------------------------------------------------------------
(* A text that was pushed before, while or after SendHistory replays.      *)

\* Who asked for the history reads from a text socket that is listed, or closed.
AskedReads == \A c \in asked : conn[<<"text", c>>] \in {"reading", "closed"}

\* A text is broadcast by the reader of its sender.
Signed == \A x \in Handlers : h[x].pc \in {"push", "send"} => h[x].msg.by = x[2]

\* A text in hand goes to every client that is listed, but for those it came too early for.
HandInv ==
  \A c \in Elements(text_port_clients_), m \in Texts :
    InHand(m) /\ m \notin early[c] => c \in Elements(h[Reader("text", m.by)].todo)

\* The broadcast of m has still to come to c.
Sending(m, c) ==
  LET r == h[Reader("text", m.by)] IN r.msg = m /\ r.pc = "send" /\ c \in Elements(r.todo)

\* Once SendHistory has the lock, a text is sent, or its broadcast has still to come, or
\* the replay has.
TextInv ==
  \A c \in asked : <<"text", c>> \notin left /\ IsOpen("text", c) =>
    LET r == h[Reader("text", c)]
    IN r.pc \notin Unlocked \cup {"find"} =>
         \A i \in DOMAIN log, m \in Texts :
           log[i] = m /\ m.by # c /\ m \notin early[c] /\ from[c] <= i =>
             \/ m \in texts[c]
             \/ Sending(m, c)
             \/ r.pc = "replay" /\ from[c] + r.i - 1 <= i

TextsInv == AskedReads /\ Signed /\ HandInv /\ TextInv

LEMMA ListFrame ==
  ASSUME [Next]_vars, ~\E d \in Clients : AcceptTextConnection(d)
  PROVE  text_port_clients_' \in {text_port_clients_, <<>>}
<1>1. ASSUME NEW c \in Clients, Client(c) PROVE UNCHANGED text_port_clients_
  BY <1>1 DEF Client, Connect, ReceiveText, ReceiveFile, ReceiveSendHistory, ReadError, chatVars
<1>2. ASSUME NEW c \in Clients, AcceptFileConnection(c) PROVE UNCHANGED text_port_clients_
  BY <1>2 DEF AcceptFileConnection
<1>3. StartReading => UNCHANGED text_port_clients_
  BY DEF StartReading, chatVars
<1>4. ASSUME NEW q \in DOMAIN queues, Worker(q) PROVE UNCHANGED text_port_clients_
  BY <1>4 DEF Worker, BeginTransfer, EndTransfer, SpuriousWakeup, chatVars
<1>5. CASE StopServer \/ UNCHANGED vars
  BY <1>5 DEF StopServer, vars, chatVars
<1>6. CASE Stop
  BY <1>6 DEF Stop, CloseFileAcceptor, StopQueue, QueueJoined, ClearQueues, CloseTextClients,
              CloseFileClients, StopContext, chatVars
<1> QED
  BY <1>1, <1>2, <1>3, <1>4, <1>5, <1>6, HandlerFrame DEF Next, Accept

\* A request is received from a text socket that is read from.
LEMMA AskedFrame ==
  ASSUME [Next]_vars
  PROVE  \/ UNCHANGED asked
         \/ \E c \in Clients : ReceiveSendHistory(c) /\ asked' = asked \cup {c}
<1>1. ASSUME NEW c \in Clients, Client(c), ~ReceiveSendHistory(c) PROVE UNCHANGED asked
  BY <1>1 DEF Client, Connect, ReceiveText, ReceiveFile, ReadError
<1>2. Accept => UNCHANGED asked
  BY DEF Accept, AcceptTextConnection, AcceptFileConnection, StartReading
<1>3. ASSUME NEW q \in DOMAIN queues, Worker(q) PROVE UNCHANGED asked
  BY <1>3 DEF Worker, BeginTransfer, EndTransfer, SpuriousWakeup
<1>4. CASE StopServer \/ Stop \/ UNCHANGED vars
  BY <1>4 DEF StopServer, Stop, CloseFileAcceptor, StopQueue, QueueJoined, ClearQueues, CloseTextClients,
              CloseFileClients, StopContext, vars
<1>5. ASSUME NEW c \in Clients, ReceiveSendHistory(c) PROVE asked' = asked \cup {c}
  BY <1>5 DEF ReceiveSendHistory
<1> QED
  BY <1>1, <1>2, <1>3, <1>4, <1>5, HandlerFrame DEF Next

LEMMA AskedReadsStep == ASSUME Typed, Listing, AskedReads, [Next]_vars PROVE AskedReads'
<1> SUFFICES ASSUME NEW c \in asked' PROVE conn'[<<"text", c>>] \in {"reading", "closed"}
  BY DEF AskedReads
<1>1. CASE c \in asked
  <2>1. c \in Clients /\ conn[<<"text", c>>] \in {"reading", "closed"}
    BY <1>1, Variables DEF AskedReads
  <2>2. IsOpen("text", c)' \/ conn'[<<"text", c>>] = "closed"
    BY DEF IsOpen
  <2>3. ~IsOpen("text", c) \/ conn[<<"text", c>>] = "reading"
    BY <2>1 DEF IsOpen
  <2> QED
    BY <2>1, <2>2, <2>3, ClosedForGood
<1>2. CASE c \notin asked
  <2>1. PICK d \in Clients : ReceiveSendHistory(d) /\ asked' = asked \cup {d}
    BY <1>2, AskedFrame
  <2>2. c = d /\ conn[<<"text", d>>] = "reading" /\ UNCHANGED conn
    BY <1>2, <2>1 DEF ReceiveSendHistory, Reading, serverVars
  <2> QED
    BY <2>2
<1> QED
  BY <1>1, <1>2

\* A broadcast begins when its text is received,
LEMMA PushBegins ==
  ASSUME Typed, [Next]_vars, NEW x \in Handlers, h'[x].pc = "push", h'[x] # h[x]
  PROVE  /\ x[1] = "text" /\ x[2] \in Clients /\ ReceiveText(x[2])
         /\ h'[x].msg.by = x[2] /\ h'[x].todo = text_port_clients_
<1>0. h \in [Handlers -> Local(Len(queues))] /\ \A y \in Handlers : h[y] \in Local(Len(queues))
  BY TypedFacts, Variables
<1>1. ASSUME NEW c \in Clients, Client(c), ~ReceiveText(c) PROVE FALSE
  <2>1. CASE ReceiveFile(c)
    <3>1. h' = [h EXCEPT ![Reader("file", c)] = h'[Reader("file", c)]]
      BY <2>1, BeginLocal DEF LocalChange
    <3>2. h'[Reader("file", c)].pc = "clients"
      BY <1>0, <2>1, ReaderNames DEF ReceiveFile, Local
    <3> QED
      BY <1>0, <3>1, <3>2
  <2>2. CASE ReceiveSendHistory(c)
    <3>1. h' = [h EXCEPT ![Reader("text", c)] = h'[Reader("text", c)]]
      BY <2>2, BeginLocal DEF LocalChange
    <3>2. h'[Reader("text", c)].pc = "find"
      BY <1>0, <2>2, ReaderNames DEF ReceiveSendHistory, Local
    <3> QED
      BY <1>0, <3>1, <3>2
  <2> QED
    BY <1>1, <2>1, <2>2 DEF Client, Connect, ReadError
<1>2. CASE Accept
  <2>1. ASSUME NEW c \in Clients, AcceptFileConnection(c) PROVE FALSE
    <3>1. h' = [h EXCEPT ![Acceptor] = h'[Acceptor]]
      BY <2>1, BeginLocal DEF LocalChange
    <3>2. h'[Acceptor].pc = "lookup"
      BY <1>0, <2>1, ReaderNames DEF AcceptFileConnection, Local
    <3> QED
      BY <1>0, <3>1, <3>2
  <2>2. CASE StartReading
    BY <1>0, <2>2 DEF StartReading, Idle
  <2> QED
    BY <1>2, <2>1, <2>2 DEF Accept, AcceptTextConnection
<1>3. ASSUME NEW y \in Handlers, Handler(y) PROVE FALSE
  <2>1. h' = [h EXCEPT ![y] = h'[y]] /\ h'[y].pc # "push"
    BY <1>3, HandlerLocal, NoneBegins DEF LocalChange
  <2> QED
    BY <1>0, <2>1
<1>4. ASSUME NEW q \in DOMAIN queues, Worker(q) PROVE UNCHANGED h
  BY <1>4 DEF Worker, BeginTransfer, EndTransfer, SpuriousWakeup
<1>5. CASE StopServer \/ Stop \/ UNCHANGED vars
  BY <1>5 DEF StopServer, Stop, CloseFileAcceptor, StopQueue, QueueJoined, ClearQueues, CloseTextClients,
              CloseFileClients, StopContext, vars
<1>6. ASSUME NEW c \in Clients, ReceiveText(c)
      PROVE  /\ x[1] = "text" /\ x[2] = c
             /\ h'[x].msg.by = x[2] /\ h'[x].todo = text_port_clients_
  <2>1. h' = [h EXCEPT ![Reader("text", c)] = h'[Reader("text", c)]]
    BY <1>6, BeginLocal DEF LocalChange
  <2>2. x = Reader("text", c)
    BY <1>0, <2>1
  <2>3. /\ h'[x].msg = Text(c, Received("text") + 1)
        /\ h'[x].todo = text_port_clients_
    BY <1>0, <1>6, <2>2 DEF ReceiveText, Local
  <2> QED
    BY <2>2, <2>3, ReaderNames DEF Text
<1> QED
  BY <1>1, <1>2, <1>3, <1>4, <1>5, <1>6 DEF Next

\* and goes on with the push, when the text is in the log.
LEMMA SendBegins ==
  ASSUME Typed, NEW x \in Handlers, Handler(x), h'[x].pc = "send"
  PROVE  (PushText(x) \/ SendText(x)) /\ h'[x].msg = h[x].msg
<1>0. h \in [Handlers -> Local(Len(queues))] /\ h[x] \in Local(Len(queues))
  BY TypedFacts, Variables
<1>1. CASE Lookup(x) \/ Emplace(x)
  <2>1. Caller(x) \in {"drop", "enqueue", "lock"}
    BY HandlerNames DEF Caller
  <2> QED
    BY <1>0, <1>1, <2>1 DEF Lookup, FindOrBuild, Emplace, Goto, Local
<1>2. CASE Drop(x) \/ Join(x)
  <2>1. Released(x) \/ h' = [h EXCEPT ![x].pc = "join"]
    BY <1>2 DEF Drop, Join, Goto
  <2>2. h' = [h EXCEPT ![x].pc = "join"] => h'[x].pc = "join"
    BY <1>0 DEF Local
  <2> QED
    BY <2>1, <2>2, ReleasedQueue
<1>3. CASE CopyFileClients(x) \/ NextFileClient(x) \/ EnqueueFile(x)
  BY <1>0, <1>3 DEF CopyFileClients, NextFileClient, EnqueueFile, At, Goto, Local
<1>4. CASE SendText(x) \/ SendLog(x)
  <2>1. h[x].pc \in {"send", "sendlog"} /\ h' = Advance(x)
    BY <1>4 DEF SendText, SendLog, At
  <2>2. h' = [h EXCEPT ![x] = Idle] \/ h' = [h EXCEPT ![x].todo = Tail(@)]
    BY <2>1 DEF Advance
  <2>3. h'[x].pc = h[x].pc /\ h'[x].msg = h[x].msg
    BY <1>0, <2>1, <2>2 DEF Idle, Local
  <2> QED
    BY <1>4, <2>3 DEF SendLog, At
<1>5. CASE CopyTextClients(x)
  BY <1>0, <1>5 DEF CopyTextClients, Local, Idle
<1>6. CASE FindFileSocket(x) \/ FileSocketClosed(x) \/ LockHistory(x)
  BY <1>0, <1>6 DEF FindFileSocket, FileSocketClosed, LockHistory, At, Goto, Local
<1>7. CASE Replay(x) \/ UnlockHistory(x) \/ SendEnd(x)
  BY <1>0, <1>7 DEF Replay, UnlockHistory, SendEnd, At, Goto, Local
<1>8. CASE PushText(x)
  BY <1>0, <1>8 DEF PushText, Goto, Local
<1> QED
  BY <1>1, <1>2, <1>3, <1>4, <1>5, <1>6, <1>7, <1>8 DEF Handler

LEMMA SignedStep == ASSUME Typed, Signed, [Next]_vars PROVE Signed'
<1> SUFFICES ASSUME NEW x \in Handlers, h'[x].pc \in {"push", "send"} PROVE h'[x].msg.by = x[2]
  BY DEF Signed
<1>1. CASE h'[x] = h[x]
  BY <1>1 DEF Signed
<1>2. CASE h'[x] # h[x] /\ h'[x].pc = "push"
  BY <1>2, PushBegins
<1>3. CASE h'[x] # h[x] /\ h'[x].pc = "send"
  <2>1. Handler(x)
    <3>1. PICK y \in Handlers :
            \/ Handler(y)
            \/ /\ h' = [h EXCEPT ![y] = h'[y]]
               /\ h'[y].pc \in {"push", "clients", "find", "lookup", "idle"}
      BY <1>3, WhoSteps
    <3>2. h' = [h EXCEPT ![y] = h'[y]]
      BY <3>1, HandlerLocal DEF LocalChange
    <3>3. y = x
      BY <1>3, <3>2, Variables
    <3> QED
      BY <1>3, <3>1, <3>3
  <2> QED
    BY <1>3, <2>1, SendBegins DEF Signed, PushText, SendText, At
<1> QED
  BY <1>1, <1>2, <1>3

LEMMA HandStep == ASSUME Typed, AskedReads, HandInv, [Next]_vars PROVE HandInv'
<1> SUFFICES ASSUME NEW c \in Elements(text_port_clients_'), NEW m \in Texts,
                    InHand(m)', m \notin early'[c]
             PROVE  c \in Elements(h'[Reader("text", m.by)].todo)
  BY DEF HandInv, Elements
<1> DEFINE x == Reader("text", m.by)
<1>0. /\ x \in Handlers /\ h'[x].pc = "push" /\ h'[x].msg = m
      /\ text_port_clients_ \in Seq(Clients) /\ early \in [Clients -> SUBSET Texts]
      /\ Elements(text_port_clients_) \subseteq Clients
  <2>1. x \in Handlers
    BY Kinds, ReaderNames
  <2> QED
    BY <2>1, Variables, ListedElements DEF InHand, At, Typed, TypeOK
<1>1. ASSUME NEW d \in Clients, AcceptTextConnection(d)
      PROVE  c \in Elements(h'[x].todo)
  <2>1. /\ UNCHANGED h /\ text_port_clients_' = Append(text_port_clients_, d)
        /\ early' = [early EXCEPT ![d] = {n \in Texts : InHand(n)}]
    BY <1>1 DEF AcceptTextConnection
  <2>2. InHand(m)
    BY <2>1 DEF InHand, At
  <2>3. c # d
    BY <1>0, <2>1, <2>2
  <2>4. c \in Elements(text_port_clients_)
    BY <1>0, <2>1, <2>3, AppendElements
  <2>5. early'[c] = early[c]
    BY <1>0, <2>1, <2>3, <2>4
  <2> QED
    BY <2>1, <2>2, <2>4, <2>5 DEF HandInv
<1>2. ASSUME UNCHANGED early, c \in Elements(text_port_clients_)
      PROVE  c \in Elements(h'[x].todo)
  <2>1. CASE h'[x] = h[x]
    <3>1. InHand(m)
      BY <1>0, <2>1 DEF InHand, At
    <3> QED
      BY <1>2, <2>1, <3>1 DEF HandInv
  <2>2. CASE h'[x] # h[x]
    BY <1>0, <1>2, <2>2, PushBegins
  <2> QED
    BY <2>1, <2>2
<1>3. CASE ~\E d \in Clients : AcceptTextConnection(d)
  <2>1. UNCHANGED early
    BY <1>3, EarlyFrame
  <2>2. text_port_clients_' \in {text_port_clients_, <<>>}
    BY <1>3, ListFrame
  <2> QED
    BY <1>2, <2>1, <2>2 DEF Elements
<1> QED
  BY <1>1, <1>3

\* What was sent stays sent.
LEMMA TextsGrow ==
  ASSUME Typed, [Next]_vars, NEW c \in Clients
  PROVE  texts[c] \subseteq texts'[c]
<1>0. texts \in [Clients -> SUBSET (Texts \cup Logs \cup {Begin, End})]
  BY DEF Typed, TypeOK
<1>a. ASSUME NEW d, NEW m, Send(d, m) PROVE texts[c] \subseteq texts'[c]
  BY <1>0, <1>a DEF Send
<1>1. ASSUME NEW d \in Clients, Client(d) PROVE texts[c] \subseteq texts'[c]
  BY <1>1, <1>a DEF Client, Connect, ReceiveText, ReceiveFile, ReceiveSendHistory, ReadError
<1>2. Accept => UNCHANGED texts
  BY DEF Accept, AcceptTextConnection, AcceptFileConnection, StartReading
<1>3. ASSUME NEW x \in Handlers, Handler(x) PROVE texts[c] \subseteq texts'[c]
  <2>1. CASE Lookup(x) \/ Emplace(x) \/ Drop(x) \/ Join(x)
    BY <2>1 DEF Lookup, Emplace, Drop, Join
  <2>2. CASE PushText(x) \/ CopyFileClients(x) \/ NextFileClient(x) \/ EnqueueFile(x)
    BY <2>2 DEF PushText, CopyFileClients, NextFileClient, EnqueueFile
  <2>3. CASE CopyTextClients(x) \/ LockHistory(x) \/ FileSocketClosed(x) \/ FindFileSocket(x)
    BY <2>3 DEF CopyTextClients, LockHistory, FileSocketClosed, FindFileSocket
  <2>4. CASE UnlockHistory(x)
    BY <2>4 DEF UnlockHistory
  <2>5. CASE SendText(x) \/ SendLog(x) \/ Replay(x) \/ SendEnd(x)
    BY <1>a, <2>5 DEF SendText, SendLog, Replay, SendEnd
  <2> QED
    BY <1>3, <2>1, <2>2, <2>3, <2>4, <2>5 DEF Handler
<1>4. ASSUME NEW q \in DOMAIN queues, Worker(q) PROVE UNCHANGED texts
  BY <1>4 DEF Worker, BeginTransfer, EndTransfer, SpuriousWakeup
<1>5. CASE StopServer \/ Stop \/ UNCHANGED vars
  BY <1>5 DEF StopServer, Stop, CloseFileAcceptor, StopQueue, QueueJoined, ClearQueues, CloseTextClients,
              CloseFileClients, StopContext, vars
<1> QED
  BY <1>1, <1>2, <1>3, <1>4, <1>5 DEF Next

\* A text that is sent to a client that is there arrives.
LEMMA SentThere ==
  ASSUME Typed, NEW c \in Clients, <<"text", c>> \notin left, IsOpen("text", c), NEW m, Send(c, m)
  PROVE  m \in texts'[c]
  BY DEF Send, Typed, TypeOK

\* A broadcast comes to every client it has to come to, if it is still there.
LEMMA SendingStep ==
  ASSUME Typed, [Next]_vars, NEW m \in Texts, NEW c \in Clients,
         <<"text", c>> \notin left, IsOpen("text", c), m.by # c, Sending(m, c)
  PROVE  Sending(m, c)' \/ m \in texts'[c]
<1> DEFINE x == Reader("text", m.by)
<1>0. /\ x \in Handlers /\ x[1] = "text" /\ x[2] = m.by
      /\ h \in [Handlers -> Local(Len(queues))] /\ h[x] \in Local(Len(queues))
  <2>1. m.by \in Clients
    BY Kinds
  <2> QED
    BY <2>1, ReaderNames, TypedFacts, Variables
<1>1. h[x].msg = m /\ h[x].pc = "send" /\ c \in Elements(h[x].todo)
  BY DEF Sending
<1>2. CASE h'[x] = h[x]
  BY <1>2 DEF Sending
<1>3. CASE h'[x] # h[x]
  <2>1. Handler(x)
    BY <1>1, <1>3, Kinds, ReaderStep
  <2>2. SendText(x)
    <3>1. ~Lookup(x) /\ ~Emplace(x) /\ ~Drop(x) /\ ~Join(x) /\ ~PushText(x) /\ ~CopyFileClients(x)
      BY <1>1 DEF Lookup, Emplace, Drop, Join, PushText, CopyFileClients, At
    <3>2. ~NextFileClient(x) /\ ~EnqueueFile(x) /\ ~CopyTextClients(x) /\ ~SendLog(x) /\ ~FindFileSocket(x)
      BY <1>1 DEF NextFileClient, EnqueueFile, CopyTextClients, SendLog, FindFileSocket, At
    <3>3. ~FileSocketClosed(x) /\ ~LockHistory(x) /\ ~Replay(x) /\ ~UnlockHistory(x) /\ ~SendEnd(x)
      BY <1>1 DEF FileSocketClosed, LockHistory, Replay, UnlockHistory, SendEnd, At
    <3> QED
      BY <2>1, <3>1, <3>2, <3>3 DEF Handler
  <2>3. h[x].todo \in Seq(Clients) /\ h[x].todo # <<>>
        /\ (c = NextClient(x) \/ c \in Elements(Tail(h[x].todo)))
    BY <1>0, <1>1, HeadOrTail DEF Local, NextClient
  <2>4. CASE c = NextClient(x)
    BY <1>0, <1>1, <2>2, <2>4, SentThere DEF SendText
  <2>5. CASE c \in Elements(Tail(h[x].todo))
    <3>1. Len(h[x].todo) # 1
      <4>1. Len(h[x].todo) = 1 => Len(Tail(h[x].todo)) = 0 /\ Tail(h[x].todo) \in Seq(Clients)
        BY <2>3, HeadTailProperties
      <4>2. Len(h[x].todo) = 1 => Tail(h[x].todo) = <<>>
        BY <4>1, EmptySeq
      <4> QED
        BY <2>5, <4>2 DEF Elements
    <3>2. h' = [h EXCEPT ![x].todo = Tail(@)]
      BY <2>2, <3>1 DEF SendText, Advance
    <3>3. h'[x].msg = m /\ h'[x].pc = "send" /\ h'[x].todo = Tail(h[x].todo)
      BY <1>0, <1>1, <3>2 DEF Local
    <3> QED
      BY <2>5, <3>3 DEF Sending
  <2> QED
    BY <2>3, <2>4, <2>5
<1> QED
  BY <1>2, <1>3

\* A text that enters the log was in hand, and its broadcast goes on to its clients.
LEMMA TextLogged ==
  ASSUME Typed, Signed, [Next]_vars, NEW i \in DOMAIN log' \ DOMAIN log, log'[i] \in Texts
  PROVE  LET m == log'[i]
             x == Reader("text", m.by)
         IN  InHand(m) /\ PushText(x) /\ h'[x].msg = m /\ h'[x].pc = "send" /\ h'[x].todo = h[x].todo
<1>0. log \in Seq(Messages) /\ DOMAIN log = 1..Len(log) /\ Len(log) \in Nat
      /\ h \in [Handlers -> Local(Len(queues))] /\ \A x \in Handlers : h[x] \in Local(Len(queues))
  BY Variables, TypedFacts
<1>1. ASSUME NEW c \in Clients, ReceiveFile(c) PROVE FALSE
  <2> DEFINE n == Received("file") + 1
             entries == <<FileLog(c, n), File(c, n)>>
  <2>1. /\ log' \in Seq(Messages) /\ Len(log') = Len(log) + 2
        /\ \A j \in 1..Len(log') : log'[j] = IF j <= Len(log) THEN log[j] ELSE entries[j - Len(log)]
        /\ entries[1] \in Logs /\ entries[2] \in Files
    BY <1>1, PushOK, ReceiveFileOK
  <2> HIDE DEF entries, n
  <2>2. DOMAIN log' = 1..(Len(log) + 2)
    BY <2>1, LenProperties
  <2>3. i \in 1..Len(log') /\ ~(i <= Len(log)) /\ i - Len(log) \in {1, 2}
    BY <1>0, <2>1, <2>2
  <2>4. log'[i] \in Logs \cup Files
    BY <2>1, <2>3
  <2> QED
    BY <2>4, Kinds
<1>2. PICK x \in Handlers : PushText(x)
  BY <1>1, HistoryFrame
<1>3. log'[i] = h[x].msg
  <2>1. /\ log' \in Seq(Messages) /\ Len(log') = Len(log) + 1
        /\ \A j \in 1..Len(log') : log'[j] = IF j <= Len(log) THEN log[j] ELSE <<h[x].msg>>[j - Len(log)]
        /\ <<h[x].msg>>[1] = h[x].msg
    BY <1>2, PushOK, PushTextOK
  <2>2. DOMAIN log' = 1..(Len(log) + 1)
    BY <2>1, LenProperties
  <2>3. i \in 1..Len(log') /\ ~(i <= Len(log)) /\ i - Len(log) = 1
    BY <1>0, <2>1, <2>2
  <2> QED
    BY <2>1, <2>3
<1>4. x[1] = "text" /\ h[x].pc = "push" /\ h[x].msg.by = x[2]
  BY <1>2, TypedFacts DEF PushText, At, HandlerOK, Signed
<1>5. x = Reader("text", log'[i].by)
  BY <1>3, <1>4, HandlerNames DEF Reader
<1>6. h'[x].msg = h[x].msg /\ h'[x].pc = "send" /\ h'[x].todo = h[x].todo
  BY <1>0, <1>2 DEF PushText, Goto, Local
<1> QED
  BY <1>2, <1>3, <1>4, <1>5, <1>6 DEF InHand, At

\* The steps before a replay are left by the lock alone.
LEMMA BeforeLock ==
  ASSUME Typed, NEW x \in Handlers, Handler(x), x[1] = "text",
         h[x].pc \in Unlocked \cup {"find"}, h'[x].pc \notin Unlocked \cup {"find"}
  PROVE  LockHistory(x)
<1>1. CASE h[x].pc \in Unlocked
  BY <1>1, UnlockedEnds
<1>2. CASE h[x].pc = "find"
  <2>1. h \in [Handlers -> Local(Len(queues))]
    BY Variables
  <2>2. FindFileSocket(x)
    <3>1. ~Lookup(x) /\ ~Emplace(x) /\ ~Drop(x) /\ ~Join(x) /\ ~PushText(x) /\ ~SendText(x)
      BY <1>2 DEF Lookup, Emplace, Drop, Join, PushText, SendText, At
    <3>2. ~CopyFileClients(x) /\ ~NextFileClient(x) /\ ~EnqueueFile(x) /\ ~CopyTextClients(x) /\ ~SendLog(x)
      BY <1>2 DEF CopyFileClients, NextFileClient, EnqueueFile, CopyTextClients, SendLog, At
    <3>3. ~FileSocketClosed(x) /\ ~LockHistory(x) /\ ~Replay(x) /\ ~UnlockHistory(x) /\ ~SendEnd(x)
      BY <1>2 DEF FileSocketClosed, LockHistory, Replay, UnlockHistory, SendEnd, At
    <3> QED
      BY <3>1, <3>2, <3>3 DEF Handler
  <2>3. \/ h' = [h EXCEPT ![x].pc = "lookup", ![x].sock = x[2]]
        \/ h' = [h EXCEPT ![x].pc = "lock"]
    BY <2>2 DEF FindFileSocket, Goto
  <2>4. h'[x].pc \in {"lookup", "lock"}
    BY <2>1, <2>3 DEF Local
  <2> QED
    BY <2>4 DEF Unlocked
<1> QED
  BY <1>1, <1>2

\* A step of a replay sends its entry, if that is a text.
LEMMA ReplayStep ==
  ASSUME Typed, ReplayIsSegment, [Next]_vars, NEW c \in Clients, <<"text", c>> \notin left, IsOpen("text", c),
         h[Reader("text", c)].pc = "replay",
         NEW i \in DOMAIN log, NEW m \in Texts, log[i] = m, from[c] + h[Reader("text", c)].i - 1 <= i
  PROVE  \/ m \in texts'[c]
         \/ /\ h'[Reader("text", c)].pc = "replay"
            /\ from[c] + h'[Reader("text", c)].i - 1 <= i
<1> DEFINE x == Reader("text", c)
<1>0. /\ x \in Handlers /\ x[1] = "text" /\ x[2] = c
      /\ h \in [Handlers -> Local(Len(queues))] /\ h[x] \in Local(Len(queues)) /\ HandlerOK(x, h[x])
      /\ DOMAIN log = 1..Len(log) /\ Len(log) \in Nat
      /\ DOMAIN message_history_ = 1..Len(message_history_) /\ Len(message_history_) \in Nat
      /\ Len(message_history_) <= Len(log)
      /\ from[c] = Len(log) - Len(message_history_) + 1 /\ h[x].i \in Nat
      /\ \A j \in DOMAIN message_history_ :
           message_history_[j] = log[Len(log) - Len(message_history_) + j]
  <2>1. x \in Handlers /\ x[1] = "text" /\ x[2] = c
    BY ReaderNames
  <2>2. from[c] = Len(log) - Len(message_history_) + 1
        /\ \A j \in DOMAIN message_history_ :
             message_history_[j] = log[Len(log) - Len(message_history_) + j]
    BY DEF ReplayIsSegment, At
  <2>3. h \in [Handlers -> Local(Len(queues))] /\ h[x] \in Local(Len(queues)) /\ HandlerOK(x, h[x])
    BY <2>1, TypedFacts, Variables
  <2>4. h[x].i \in Nat
    BY <2>3 DEF Local
  <2> QED
    BY <2>1, <2>2, <2>3, <2>4, Variables
<1>1. CASE h'[x] = h[x]
  BY <1>1
<1>2. CASE Replay(x)
  <2>1. h'[x].pc = "replay" /\ h'[x].i = h[x].i + 1
    <3>1. h' = [h EXCEPT ![x].i = @ + 1]
      BY <1>2 DEF Replay
    <3> QED
      BY <1>0, <3>1 DEF Local
  <2>2. CASE from[c] + h[x].i - 1 < i
    <3>1. from[c] + (h[x].i + 1) - 1 <= i
      BY <1>0, <2>2
    <3> QED
      BY <2>1, <3>1
  <2>3. CASE from[c] + h[x].i - 1 = i
    <3>1. h[x].i \in DOMAIN message_history_
      BY <1>0, <1>2 DEF Replay, HandlerOK
    <3>2. message_history_[h[x].i] = m
      <4>1. Len(log) - Len(message_history_) + h[x].i = i
        BY <1>0, <2>3
      <4>2. message_history_[h[x].i] = log[Len(log) - Len(message_history_) + h[x].i]
        BY <1>0, <3>1
      <4> QED
        BY <4>1, <4>2
    <3>3. m.kind # "file"
      BY Kinds
    <3>4. Send(c, m)
      BY <1>0, <1>2, <3>2, <3>3 DEF Replay
    <3> QED
      BY <3>4, SentThere
  <2> QED
    BY <1>0, <2>2, <2>3
<1>3. CASE UnlockHistory(x)
  <2>1. h[x].i > Len(message_history_)
    BY <1>3 DEF UnlockHistory
  <2> QED
    BY <1>0, <2>1
<1>4. Handler(x) => Replay(x) \/ UnlockHistory(x)
  <2>1. ~Lookup(x) /\ ~Emplace(x) /\ ~Drop(x) /\ ~Join(x) /\ ~PushText(x) /\ ~SendText(x)
    BY DEF Lookup, Emplace, Drop, Join, PushText, SendText, At
  <2>2. ~CopyFileClients(x) /\ ~NextFileClient(x) /\ ~EnqueueFile(x) /\ ~CopyTextClients(x)
    BY DEF CopyFileClients, NextFileClient, EnqueueFile, CopyTextClients, At
  <2>3. ~SendLog(x) /\ ~FindFileSocket(x) /\ ~FileSocketClosed(x) /\ ~LockHistory(x) /\ ~SendEnd(x)
    BY DEF SendLog, FindFileSocket, FileSocketClosed, LockHistory, SendEnd, At
  <2> QED
    BY <2>1, <2>2, <2>3 DEF Handler
<1> QED
  BY <1>1, <1>2, <1>3, <1>4, ReaderStep

\* Another client's lock does not touch where the replay to c began.
LEMMA FromKept ==
  ASSUME Typed, [Next]_vars, NEW c \in Clients, ~LockHistory(Reader("text", c))
  PROVE  from'[c] = from[c]
<1>1. ASSUME NEW y \in Handlers, LockHistory(y) PROVE from'[c] = from[c]
  <2>1. y[1] = "text"
    BY <1>1, TypedFacts DEF LockHistory, At, HandlerOK
  <2>2. y[2] # c
    BY <1>1, <2>1, HandlerNames DEF Reader
  <2>3. from \in [Clients -> 0..(Len(log) + 1)]
    BY Variables
  <2> QED
    BY <1>1, <2>2, <2>3 DEF LockHistory
<1> QED
  BY <1>1, FromFrame

LEMMA TextStep ==
  ASSUME Typed, Listing, ReplayIsSegment, TextsInv, [Next]_vars PROVE TextInv'
<1> SUFFICES ASSUME NEW c \in asked', <<"text", c>> \notin left', IsOpen("text", c)',
                    h'[Reader("text", c)].pc \notin Unlocked \cup {"find"},
                    NEW i \in DOMAIN log', NEW m \in Texts,
                    log'[i] = m, m.by # c, m \notin early'[c], from'[c] <= i
             PROVE  \/ m \in texts'[c]
                    \/ Sending(m, c)'
                    \/ h'[Reader("text", c)].pc = "replay" /\ from'[c] + h'[Reader("text", c)].i - 1 <= i
  BY DEF TextInv
<1> DEFINE x == Reader("text", c)
<1>0. /\ h \in [Handlers -> Local(Len(queues))]
      /\ from \in [Clients -> 0..(Len(log) + 1)] /\ early \in [Clients -> SUBSET Texts]
      /\ Len(log) \in Nat /\ Len(message_history_) \in Nat /\ asked \subseteq Clients
      /\ AskedReads /\ Signed /\ HandInv /\ TextInv
  BY Variables DEF TextsInv, Typed, TypeOK
<1>1. c \in asked /\ c \in Clients
  <2>1. ASSUME NEW d \in Clients, ReceiveSendHistory(d), c = d PROVE FALSE
    <3>1. h' = [h EXCEPT ![x].pc = "find"] /\ x \in Handlers
      <4>1. ~SeesEnd("text", c)
        BY DEF SeesEnd
      <4> QED
        BY <2>1, <4>1, ReaderNames DEF ReceiveSendHistory
    <3> QED
      BY <1>0, <3>1 DEF Local
  <2> QED
    BY <1>0, <2>1, AskedFrame
<1>2. <<"text", c>> \notin left /\ IsOpen("text", c)
  BY <1>1, FilesGrow, ClosedForGood
<1>3. conn[<<"text", c>>] = "reading" /\ c \in Elements(text_port_clients_)
  <2>1. conn[<<"text", c>>] = "reading"
    BY <1>0, <1>1, <1>2 DEF AskedReads, IsOpen
  <2> QED
    BY <1>1, <2>1 DEF Typed, ReadersListed
<1>4. early'[c] = early[c]
  <2>1. ASSUME NEW d \in Clients, AcceptTextConnection(d) PROVE early'[c] = early[c]
    <3>1. c # d
      BY <1>3, <2>1 DEF AcceptTextConnection, Accepted
    <3> QED
      BY <1>0, <1>1, <2>1, <3>1 DEF AcceptTextConnection
  <2> QED
    BY <2>1, EarlyFrame
<1>5. x \in Handlers /\ x[1] = "text" /\ x[2] = c /\ h[x] \in Local(Len(queues))
  BY <1>1, ReaderNames, TypedFacts
<1>6. CASE i \notin DOMAIN log
  <2>1. /\ InHand(m) /\ h'[Reader("text", m.by)].msg = m /\ h'[Reader("text", m.by)].pc = "send"
        /\ h'[Reader("text", m.by)].todo = h[Reader("text", m.by)].todo
    BY <1>0, <1>6, TextLogged
  <2>2. c \in Elements(h[Reader("text", m.by)].todo)
    BY <1>0, <1>3, <1>4, <2>1 DEF HandInv
  <2> QED
    BY <2>1, <2>2 DEF Sending
<1>7. CASE LockHistory(x)
  <2>1. h' = [h EXCEPT ![x].pc = "replay", ![x].i = 1]
        /\ from' = [from EXCEPT ![c] = Len(log) - Len(message_history_) + 1]
    BY <1>5, <1>7 DEF LockHistory
  <2>2. h'[x].pc = "replay" /\ h'[x].i = 1 /\ from'[c] = Len(log) - Len(message_history_) + 1
    BY <1>0, <1>1, <1>5, <2>1 DEF Local
  <2>3. from'[c] + 1 - 1 = from'[c]
    BY <1>0, <2>2
  <2> QED
    BY <2>2, <2>3
<1>8. CASE i \in DOMAIN log /\ ~LockHistory(x)
  <2>1. from'[c] = from[c]
    BY <1>1, <1>8, FromKept
  <2>2. h[x].pc \notin Unlocked \cup {"find"}
    <3>1. CASE h'[x] = h[x]
      BY <3>1
    <3>2. CASE Handler(x)
      BY <1>5, <1>8, <3>2, BeforeLock
    <3>3. CASE h[x].pc \in {"idle", "read"}
      BY <3>3 DEF Unlocked
    <3> QED
      BY <1>1, <3>1, <3>2, <3>3, ReaderStep
  <2>3. log[i] = m
    BY <1>8, LogGrows
  <2>4. \/ m \in texts[c]
        \/ Sending(m, c)
        \/ h[x].pc = "replay" /\ from[c] + h[x].i - 1 <= i
    BY <1>0, <1>1, <1>2, <1>4, <1>8, <2>1, <2>2, <2>3 DEF TextInv
  <2>5. CASE m \in texts[c]
    BY <1>1, <2>5, TextsGrow
  <2>6. CASE Sending(m, c)
    BY <1>1, <1>2, <2>6, SendingStep
  <2>7. CASE h[x].pc = "replay" /\ from[c] + h[x].i - 1 <= i
    BY <1>1, <1>2, <1>8, <2>1, <2>3, <2>7, ReplayStep
  <2> QED
    BY <2>4, <2>5, <2>6, <2>7
<1> QED
  BY <1>6, <1>7, <1>8

LEMMA InitTexts == Init => TextsInv
<1> SUFFICES ASSUME Init PROVE TextsInv
  OBVIOUS
<1>1. \A x \in Handlers : h[x].pc = "idle"
  BY DEF Init, Idle
<1>2. Signed
  BY <1>1 DEF Signed
<1>3. HandInv
  <2>1. \A m \in Texts : ~InHand(m)
    BY <1>1, Kinds, ReaderNames DEF InHand, At
  <2> QED
    BY <2>1 DEF HandInv
<1>4. AskedReads /\ TextInv
  BY DEF Init, AskedReads, TextInv
<1> QED
  BY <1>2, <1>3, <1>4 DEF TextsInv

\* A joiner is sent every text that the history held when it was replayed to it, and every
\* later one, but for those whose broadcast had copied the list of clients before the joiner
\* was in it and had yet to push: the window of Broadcast (ServerManager.cpp:435) is the only
\* way to miss a text.
THEOREM JoinerMissesOnlyEarlyTexts == Spec => []TextsReachJoiner
<1> DEFINE Inv == Typed /\ Listing /\ ReplayIsSegment /\ TextsInv
<1>1. Init => Inv
  <2>1. Init => ReplayIsSegment
    <3>1. Init => \A c \in Clients : h[Reader("text", c)].pc = "idle"
      BY ReaderNames DEF Init, Idle
    <3>2. Init => DOMAIN message_history_ = {}
      BY DEF Init
    <3> QED
      BY <3>1, <3>2 DEF ReplayIsSegment, At
  <2> QED
    BY <2>1, InitTyped, InitListing, InitTexts
<1>2. Inv /\ [Next]_vars => Inv'
  BY TypedStep, ListingStep, SegmentStep, AskedReadsStep, SignedStep, HandStep, TextStep DEF TextsInv
<1>3. Inv => TextsReachJoiner
  <2>1. ASSUME Typed, TextsInv, NEW c \in Clients, NEW m \in Texts,
               Answered(c), m.by # c, m \notin early[c], <<"text", c>> \notin left, IsOpen("text", c),
               TextBroadcastDone(m), from[c] <= Position(m)
        PROVE  m \in texts[c]
    <3>1. Position(m) \in DOMAIN log /\ log[Position(m)] = m
      BY <2>1 DEF TextBroadcastDone, Logged, Elements, Position
    <3>2. h[Reader("text", c)].pc = "idle" /\ c \in asked
      BY <2>1 DEF Answered, At
    <3>3. m \in texts[c] \/ Sending(m, c)
      BY <2>1, <3>1, <3>2 DEF TextsInv, TextInv, Unlocked
    <3> QED
      BY <2>1, <3>3 DEF TextBroadcastDone, Sending
  <2> QED
    BY <2>1 DEF TextsReachJoiner
<1> QED
  BY <1>1, <1>2, <1>3, PTL DEF Spec
-----------------------------------------------------------------------------
(* Two workers write to one socket only while a handler holds the loser.   *)

Held(q) == \E x \in Handlers : h[x].q = q

\* A transfer in progress is that of a queue which somebody can still reach.
ActiveOwned == \A q \in DOMAIN queues : queues[q].active # NoMsg => Registered(q) \/ Held(q)

\* StopServer stops the registered queues one by one, and waits for each.
StoppedIdle ==
  \A q \in DOMAIN queues : Registered(q) /\ ~queues[q].running =>
    queues[q].active = NoMsg \/ (server.pc = "join" /\ server.q = q)

\* A handler lets go of a queue that is registered, or whose worker it has joined.
LEMMA LetGo ==
  ASSUME Typed, [Next]_vars, NEW x \in Handlers, h[x].q # 0, h'[x].q # h[x].q
  PROVE  (Join(x) \/ (Drop(x) /\ Registered(h[x].q))) /\ UNCHANGED file_queues_
<1>0. /\ h \in [Handlers -> Local(Len(queues))] /\ h[x] \in Local(Len(queues)) /\ HandlerOK(x, h[x])
  BY TypedFacts, Variables
<1>1. Handler(x)
  <2>1. PICK y \in Handlers :
          \/ Handler(y)
          \/ h[y].pc \in {"idle", "read"} /\ h' = [h EXCEPT ![y] = h'[y]]
    BY WhoSteps
  <2>2. h' = [h EXCEPT ![y] = h'[y]]
    BY <2>1, HandlerLocal DEF LocalChange
  <2>3. y = x
    BY <1>0, <2>2
  <2>4. h[x].pc \notin {"idle", "read"}
    BY <1>0 DEF HandlerOK, Holding
  <2> QED
    BY <2>1, <2>3, <2>4
<1>2. ~Lookup(x) /\ ~Emplace(x)
  <2>1. h[x].pc # "lookup"
    BY <1>0 DEF HandlerOK, Holding
  <2> QED
    BY <2>1, LookupSteps DEF Lookup, At
<1>3. Drop(x) \/ Join(x)
  BY <1>1, <1>2, HoldsQueue
<1>4. CASE Drop(x)
  <2>1. ~Goto(x, "join")
    BY <1>0 DEF Goto, Local
  <2> QED
    BY <1>4, <2>1 DEF Drop
<1>5. Join(x) => UNCHANGED file_queues_
  BY DEF Join, queueVars
<1> QED
  BY <1>3, <1>4, <1>5

\* A transfer in progress was in progress, or has just begun.
LEMMA ActiveSteps ==
  ASSUME Typed, [Next]_vars, NEW q \in DOMAIN queues', queues'[q].active # NoMsg
  PROVE  q \in DOMAIN queues /\ (queues[q].active # NoMsg \/ BeginTransfer(q))
<1>0. /\ DOMAIN queues = 1..Len(queues) /\ Len(queues) \in Nat
      /\ \A p \in DOMAIN queues : queues[p] \in QueueType
  BY Variables
<1>1. ASSUME NEW c \in Clients, queues' = Append(queues, NewQueue(c))
      PROVE  q \in DOMAIN queues /\ queues[q].active # NoMsg
  <2>1. NewQueue(c) \in QueueType /\ NewQueue(c).active = NoMsg
    BY EmptySeq DEF NewQueue, QueueType
  <2>2. /\ DOMAIN queues' = 1..(Len(queues) + 1) /\ queues'[Len(queues) + 1] = NewQueue(c)
        /\ \A p \in DOMAIN queues : queues'[p] = queues[p]
    BY <1>0, <1>1, <2>1, QueueAdded, LenProperties
  <2>3. q # Len(queues) + 1
    BY <2>1, <2>2
  <2> QED
    BY <1>0, <2>2, <2>3
<1>2. ASSUME NEW x, NEW c, NEW f, Enqueues(x, c, f)
      PROVE  q \in DOMAIN queues /\ queues[q].active # NoMsg
  BY <1>0, <1>2 DEF Enqueues, Enqueue, QueueType
<1>3. ASSUME NEW p \in DOMAIN queues, Stopped(p)
      PROVE  q \in DOMAIN queues /\ queues[q].active # NoMsg
  BY <1>3, StoppedKeeps
<1>4. ASSUME NEW p \in DOMAIN queues, Worker(p)
      PROVE  q \in DOMAIN queues /\ (queues[q].active # NoMsg \/ BeginTransfer(q))
  <2>1. CASE BeginTransfer(p)
    <3>1. CASE p = q
      BY <2>1, <3>1
    <3>2. CASE p # q
      BY <1>0, <2>1, <3>2 DEF BeginTransfer
    <3> QED
      BY <3>1, <3>2
  <2>2. CASE EndTransfer(p)
    BY <1>0, <2>2 DEF EndTransfer, QueueType
  <2>3. CASE SpuriousWakeup(p)
    BY <2>3, <1>4, WakeupKeeps
  <2> QED
    BY <1>4, <2>1, <2>2, <2>3 DEF Worker
<1> QED
  BY <1>1, <1>2, <1>3, <1>4, QueueSteps DEF StopQueue

\* A queue is let go when its worker is joined, or when StopServer clears the registry.
LEMMA OwnedStep ==
  ASSUME Typed, [Next]_vars, NEW q \in DOMAIN queues, Registered(q) \/ Held(q)
  PROVE  \/ Registered(q)' \/ Held(q)' \/ queues[q].active = NoMsg
         \/ Registered(q) /\ ClearQueues
<1>0. /\ DOMAIN queues = 1..Len(queues) /\ q # 0 /\ file_queues_ \in [Clients -> 0..Len(queues)]
  BY Variables
<1>1. CASE Registered(q)
  <2>1. PICK c \in Clients : file_queues_[c] = q
    BY <1>1 DEF Registered
  <2>2. CASE UNCHANGED file_queues_
    BY <2>1, <2>2 DEF Registered
  <2>3. ASSUME NEW x \in Handlers, Emplace(x) PROVE Registered(q)'
    <3>1. file_queues_'[c] = q
      BY <1>0, <2>1, <2>3, LookupSteps
    <3> QED
      BY <3>1 DEF Registered
  <2> QED
    BY <1>1, <2>2, <2>3, RegistrySteps
<1>2. CASE Held(q)
  <2>1. PICK x \in Handlers : h[x].q = q
    BY <1>2 DEF Held
  <2>2. CASE h'[x].q = q
    BY <2>2 DEF Held
  <2>3. CASE h'[x].q # q
    <3>1. (Join(x) \/ Registered(q)) /\ UNCHANGED file_queues_
      BY <1>0, <2>1, <2>3, LetGo
    <3>2. Join(x) => queues[q].active = NoMsg
      BY <2>1 DEF Join, Ends
    <3>3. Registered(q) => Registered(q)'
      BY <3>1 DEF Registered
    <3> QED
      BY <3>1, <3>2, <3>3
  <2> QED
    BY <2>2, <2>3
<1> QED
  BY <1>1, <1>2

LEMMA ActiveOwnedStep ==
  ASSUME Typed, QueueInv, ActiveOwned, StoppedIdle, [Next]_vars PROVE ActiveOwned'
<1> SUFFICES ASSUME NEW q \in DOMAIN queues', queues'[q].active # NoMsg
             PROVE  Registered(q)' \/ Held(q)'
  BY DEF ActiveOwned
<1>1. q \in DOMAIN queues /\ (queues[q].active # NoMsg \/ BeginTransfer(q))
  BY ActiveSteps
<1>2. CASE BeginTransfer(q)
  <2>1. queues[q].running /\ UNCHANGED <<file_queues_, h>>
    BY <1>2 DEF BeginTransfer
  <2>2. Registered(q) \/ Held(q)
    BY <1>1, <2>1 DEF QueueInv, QueueOwnership, Held
  <2> QED
    BY <2>1, <2>2 DEF Registered, Held
<1>3. CASE queues[q].active # NoMsg
  <2>1. Registered(q) \/ Held(q)
    BY <1>1, <1>3 DEF ActiveOwned
  <2>2. ~(Registered(q) /\ ClearQueues)
    <3>1. ASSUME Registered(q), ClearQueues PROVE FALSE
      <4>1. PICK c \in Clients : file_queues_[c] = q
        BY <3>1 DEF Registered
      <4>2. q # 0
        BY <1>1, Variables
      <4>3. ~queues[q].running /\ server.pc = "queues"
        BY <3>1, <4>1, <4>2 DEF ClearQueues
      <4> QED
        BY <1>1, <1>3, <3>1, <4>3 DEF StoppedIdle
    <3> QED
      BY <3>1
  <2> QED
    BY <1>1, <1>3, <2>1, <2>2, OwnedStep
<1> QED
  BY <1>1, <1>2, <1>3

\* StopServer waits at a queue until its transfer has ended.
LEMMA ServerWaits ==
  ASSUME Typed, [Next]_vars, server.pc = "join", queues[server.q].active # NoMsg
  PROVE  UNCHANGED server
<1>1. ASSUME NEW d \in Clients, Client(d) PROVE UNCHANGED server
  BY <1>1 DEF Client, Connect, ReceiveText, ReceiveFile, ReceiveSendHistory, ReadError, serverVars
<1>2. Accept => UNCHANGED server
  BY DEF Accept, AcceptTextConnection, AcceptFileConnection, StartReading
<1>3. ASSUME NEW q \in DOMAIN queues, Worker(q) PROVE UNCHANGED server
  BY <1>3 DEF Worker, BeginTransfer, EndTransfer, SpuriousWakeup, serverVars
<1>4. ASSUME NEW q \in DOMAIN queues PROVE ~StopQueue(q)
  BY DEF StopQueue
<1>5. ~(StopServer \/ CloseFileAcceptor \/ QueueJoined \/ ClearQueues \/ CloseTextClients
        \/ CloseFileClients \/ StopContext)
  BY DEF StopServer, CloseFileAcceptor, QueueJoined, Ends, ClearQueues, CloseTextClients,
         CloseFileClients, StopContext
<1>6. UNCHANGED vars => UNCHANGED server
  BY DEF vars, serverVars
<1> QED
  BY <1>1, <1>2, <1>3, <1>4, <1>5, <1>6, HandlerFrame DEF Next, Stop

\* What stops a queue.
LEMMA StopSteps ==
  ASSUME Typed, [Next]_vars, NEW q \in DOMAIN queues, queues[q].running, ~queues'[q].running
  PROVE  StopQueue(q) \/ (~Registered(q) /\ UNCHANGED file_queues_)
<1>0. /\ DOMAIN queues = 1..Len(queues) /\ Len(queues) \in Nat
      /\ \A p \in DOMAIN queues : queues[p] \in QueueType
  BY Variables
<1>1. ASSUME NEW c \in Clients, queues' = Append(queues, NewQueue(c)) PROVE FALSE
  <2>1. NewQueue(c) \in QueueType
    BY EmptySeq DEF NewQueue, QueueType
  <2> QED
    BY <1>0, <1>1, <2>1, QueueAdded
<1>2. ASSUME NEW x, NEW c, NEW f, Enqueues(x, c, f) PROVE FALSE
  BY <1>0, <1>2 DEF Enqueues, Enqueue, QueueType
<1>3. ASSUME NEW p \in DOMAIN queues, Stopped(p) PROVE p = q
  BY <1>3, StoppedKeeps
<1>4. ASSUME NEW p \in DOMAIN queues, Worker(p) PROVE FALSE
  <2>1. ~SpuriousWakeup(p)
    BY WakeupKeeps
  <2> QED
    BY <1>0, <1>4, <2>1 DEF Worker, BeginTransfer, EndTransfer, QueueType
<1>5. ASSUME NEW x \in Handlers, Drop(x), ~Registered(h[x].q), h[x].q \in DOMAIN queues, Stopped(h[x].q)
      PROVE  ~Registered(q) /\ UNCHANGED file_queues_
  BY <1>3, <1>5 DEF Drop
<1>6. ASSUME NEW p \in DOMAIN queues, StopQueue(p) PROVE p = q
  BY <1>3, <1>6 DEF StopQueue
<1> QED
  BY <1>1, <1>2, <1>4, <1>5, <1>6, QueueSteps

LEMMA StoppedIdleStep ==
  ASSUME Typed, QueueInv, StoppedIdle, [Next]_vars PROVE StoppedIdle'
<1> SUFFICES ASSUME NEW q \in DOMAIN queues', Registered(q)', ~queues'[q].running,
                    queues'[q].active # NoMsg
             PROVE  server'.pc = "join" /\ server'.q = q
  BY DEF StoppedIdle
<1>1. q \in DOMAIN queues /\ queues[q].active # NoMsg
  <2>1. q \in DOMAIN queues /\ (queues[q].active # NoMsg \/ BeginTransfer(q))
    BY ActiveSteps
  <2>2. ~BeginTransfer(q)
    <3>1. queues[q] \in QueueType
      BY <2>1, Variables
    <3> QED
      BY <2>1, <3>1 DEF BeginTransfer, QueueType
  <2> QED
    BY <2>1, <2>2
<1>2. CASE queues[q].running
  <2>1. StopQueue(q) \/ (~Registered(q) /\ UNCHANGED file_queues_)
    BY <1>1, <1>2, StopSteps
  <2>2. StopQueue(q)
    BY <2>1 DEF Registered
  <2> QED
    BY <2>2 DEF StopQueue
<1>3. CASE ~queues[q].running
  <2>1. Registered(q)
    <3>1. SUFFICES ASSUME ~Registered(q) PROVE FALSE
      OBVIOUS
    <3>2. PICK c \in Clients : file_queues_'[c] = q /\ file_queues_[c] # q
      BY <3>1 DEF Registered
    <3>3. q # 0 /\ file_queues_ \in [Clients -> 0..Len(queues)]
      BY <1>1, Variables
    <3>4. PICK x \in Handlers : Emplace(x)
      BY <3>2, <3>3, RegistrySteps
    <3>5. h[x].q = q /\ h[x].pc = "emplace"
      BY <3>2, <3>3, <3>4, LookupSteps DEF Emplace, At
    <3> QED
      BY <1>3, <3>5 DEF QueueInv, BuiltAlone
  <2>2. server.pc = "join" /\ server.q = q
    BY <1>1, <1>3, <2>1 DEF StoppedIdle
  <2>3. UNCHANGED server
    BY <1>1, <2>2, ServerWaits
  <2> QED
    BY <2>2, <2>3
<1> QED
  BY <1>2, <1>3

\* When two workers are in a transfer to one socket, one of them belongs to a queue that lost
\* the race in GetOrCreateFileQueueForSocket, and the handler that lost it holds that queue
\* until the transfer ends (ServerManager.cpp:289): a mix of two files has an end, and no
\* worker outlives the registry that StopServer clears.
THEOREM MixEndsWithTheRace == Spec => []MixEndsWithRace
<1> DEFINE Inv == Typed /\ QueueInv /\ SocketsMatch /\ ActiveOwned /\ StoppedIdle
<1>1. Init => Inv
  <2>1. Init => \A q \in DOMAIN queues : queues[q].active = NoMsg
    BY DEF Init, NewQueue
  <2>2. Init => ActiveOwned /\ StoppedIdle
    BY <2>1 DEF ActiveOwned, StoppedIdle
  <2> QED
    BY <2>2, InitTyped, InitQueueInv, InitFilesKept
<1>2. Inv /\ [Next]_vars => Inv'
  BY TypedStep, QueueInvStep, SocketsMatchStep, ActiveOwnedStep, StoppedIdleStep
<1>3. Inv => MixEndsWithRace
  <2> SUFFICES ASSUME Inv, NEW q \in DOMAIN queues, NEW r \in DOMAIN queues,
                      q # r, queues[q].sock = queues[r].sock,
                      queues[q].active # NoMsg, queues[r].active # NoMsg
               PROVE  \E p \in {q, r} : ~Registered(p) /\ \E x \in Handlers : h[x].q = p
    BY DEF MixEndsWithRace
  <2>1. ~(Registered(q) /\ Registered(r))
    <3>1. ASSUME NEW c \in Clients, NEW d \in Clients, file_queues_[c] = q, file_queues_[d] = r
          PROVE  FALSE
      <4>1. q # 0 /\ r # 0
        BY Variables
      <4>2. queues[q].sock = c /\ queues[r].sock = d
        BY <3>1, <4>1 DEF SocketsMatch
      <4> QED
        BY <3>1, <4>2
    <3> QED
      BY <3>1 DEF Registered
  <2>2. (Registered(q) \/ Held(q)) /\ (Registered(r) \/ Held(r))
    BY DEF ActiveOwned
  <2> QED
    BY <2>1, <2>2 DEF Held
<1> QED
  BY <1>1, <1>2, <1>3, PTL DEF Spec
=============================================================================
