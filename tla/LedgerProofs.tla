---------------------------- MODULE LedgerProofs ----------------------------
(***************************************************************************)
(* FileTransferQueue implements TransferLedger, for every set of callers,   *)
(* every set of operations they use and every bound.                       *)
(***************************************************************************)
EXTENDS FileTransferQueueProofs

-----------------------------------------------------------------------------
(* The ledger of a deque.                                                  *)

LedgerOf(q) ==
  [id \in {q[i].id : i \in DOMAIN q} |-> q[CHOOSE i \in DOMAIN q : q[i].id = id].state]

IsLedger(L) == L = [id \in DOMAIN L |-> L[id]]

\* A deque in which no two places hold the same file.
Distinct(q) ==
  /\ q \in Seq(Item)
  /\ \A i, j \in DOMAIN q : q[i].id = q[j].id => i = j

LEMMA DistinctFacts ==
  ASSUME NEW q, Distinct(q)
  PROVE  /\ Len(q) \in Nat /\ DOMAIN q = 1..Len(q)
         /\ \A i \in DOMAIN q : q[i] \in Item /\ q[i].id \in Ids
<1>1. q \in Seq(Item)
  BY DEF Distinct
<1>2. \A i \in 1..Len(q) : q[i] \in Item
  BY <1>1, ElementOfSeq
<1> QED BY <1>1, <1>2, LenProperties DEF Item

\* The ledger says of every file in the deque what the deque does.
LEMMA LedgerFacts ==
  ASSUME NEW q, Distinct(q)
  PROVE  /\ DOMAIN LedgerOf(q) = {q[i].id : i \in DOMAIN q}
         /\ \A i \in DOMAIN q : LedgerOf(q)[q[i].id] = q[i].state
         /\ IsLedger(LedgerOf(q))
<1>1. DOMAIN LedgerOf(q) = {q[i].id : i \in DOMAIN q}
  BY DEF LedgerOf
<1>2. ASSUME NEW i \in DOMAIN q
      PROVE  LedgerOf(q)[q[i].id] = q[i].state
  <2> DEFINE k == CHOOSE j \in DOMAIN q : q[j].id = q[i].id
  <2>1. k \in DOMAIN q /\ q[k].id = q[i].id
    OBVIOUS
  <2>2. LedgerOf(q)[q[i].id] = q[k].state
    BY DEF LedgerOf
  <2> HIDE DEF k
  <2>3. k = i
    BY <2>1 DEF Distinct
  <2> QED BY <2>2, <2>3
<1>3. IsLedger(LedgerOf(q))
  BY DEF LedgerOf, IsLedger
<1> QED BY <1>1, <1>2, <1>3

\* What says the same of the same files is the ledger.
LEMMA LedgerIs ==
  ASSUME NEW q, Distinct(q), NEW L,
         IsLedger(L),
         DOMAIN L = {q[i].id : i \in DOMAIN q},
         \A i \in DOMAIN q : L[q[i].id] = q[i].state
  PROVE  LedgerOf(q) = L
<1> DEFINE M == LedgerOf(q)
<1>1. /\ DOMAIN M = {q[i].id : i \in DOMAIN q}
      /\ \A i \in DOMAIN q : M[q[i].id] = q[i].state
      /\ IsLedger(M)
  BY LedgerFacts
<1> HIDE DEF M
<1>2. \A id \in DOMAIN L : M[id] = L[id]
  BY <1>1
<1>3. M = L
  BY <1>1, <1>2 DEF IsLedger
<1> QED BY <1>3 DEF M

-----------------------------------------------------------------------------
(* What the changes of a deque are to its ledger.                          *)

\* The files of a set get a new state, where they are.
Marked(q, r, G, v) ==
  /\ DOMAIN r = DOMAIN q
  /\ \A i \in DOMAIN q :
       /\ r[i].id = q[i].id
       /\ r[i].state = IF q[i].id \in G THEN v ELSE q[i].state

MarkedLedger(L, G, v) == [id \in DOMAIN L |-> IF id \in G THEN v ELSE L[id]]

LEMMA MarkedInPlace ==
  ASSUME NEW q, Distinct(q), NEW r \in Seq(Item), NEW G, NEW v, Marked(q, r, G, v)
  PROVE  LedgerOf(r) = MarkedLedger(LedgerOf(q), G, v)
<1> DEFINE M == LedgerOf(q)
           L == [id \in DOMAIN M |-> IF id \in G THEN v ELSE M[id]]
<1>0. /\ DOMAIN r = DOMAIN q
      /\ \A i \in DOMAIN q :
           /\ r[i].id = q[i].id
           /\ r[i].state = IF q[i].id \in G THEN v ELSE q[i].state
  BY DEF Marked
<1>1. /\ DOMAIN M = {q[i].id : i \in DOMAIN q}
      /\ \A i \in DOMAIN q : M[q[i].id] = q[i].state
  BY LedgerFacts
<1>2. Distinct(r)
  BY <1>0 DEF Distinct
<1> HIDE DEF M
<1>3. IsLedger(L) /\ DOMAIN L = DOMAIN M
  BY DEF IsLedger
<1>4. DOMAIN L = {r[i].id : i \in DOMAIN r}
  BY <1>0, <1>1, <1>3
<1>5. \A i \in DOMAIN r : L[r[i].id] = r[i].state
  BY <1>0, <1>1
<1> HIDE DEF L
<1>6. LedgerOf(r) = L
  BY <1>2, <1>3, <1>4, <1>5, LedgerIs
<1> QED BY <1>6 DEF L, M, MarkedLedger

\* A file joins at the end.
LEMMA AppendedFile ==
  ASSUME NEW q, Distinct(q), NEW it \in Item, it.state = "Queued",
         \A i \in DOMAIN q : q[i].id # it.id
  PROVE  LedgerOf(Append(q, it)) =
           [id \in DOMAIN LedgerOf(q) \cup {it.id} |->
              IF id = it.id THEN "Queued" ELSE LedgerOf(q)[id]]
<1> DEFINE M == LedgerOf(q)
           r == Append(q, it)
           L == [id \in DOMAIN M \cup {it.id} |-> IF id = it.id THEN "Queued" ELSE M[id]]
<1>1. /\ DOMAIN M = {q[i].id : i \in DOMAIN q}
      /\ \A i \in DOMAIN q : M[q[i].id] = q[i].state
  BY LedgerFacts
<1>2. Len(q) \in Nat /\ DOMAIN q = 1..Len(q)
  BY DistinctFacts
<1>3. /\ r \in Seq(Item) /\ Len(r) = Len(q) + 1
      /\ \A i \in 1..Len(q) : r[i] = q[i]
      /\ r[Len(q) + 1] = it
  BY AppendProperties DEF Distinct
<1> HIDE DEF M, r
<1>4. DOMAIN r = 1..(Len(q) + 1)
  BY <1>3, LenProperties
<1>5. Distinct(r)
  BY <1>2, <1>3, <1>4 DEF Distinct
<1>6. IsLedger(L) /\ DOMAIN L = DOMAIN M \cup {it.id}
  BY DEF IsLedger
<1>7. \A i \in DOMAIN r : (i \in DOMAIN q /\ r[i] = q[i]) \/ (i = Len(q) + 1 /\ r[i] = it)
  BY <1>2, <1>3, <1>4
<1>8. DOMAIN L = {r[i].id : i \in DOMAIN r}
  <2>1. \A i \in DOMAIN q : i \in DOMAIN r /\ r[i] = q[i]
    BY <1>2, <1>3, <1>4
  <2>2. Len(q) + 1 \in DOMAIN r
    BY <1>2, <1>4
  <2> QED BY <1>1, <1>3, <1>7, <2>1, <2>2
<1>9. \A i \in DOMAIN r : L[r[i].id] = r[i].state
  BY <1>1, <1>7
<1> HIDE DEF L
<1>10. LedgerOf(r) = L
  BY <1>5, <1>6, <1>8, <1>9, LedgerIs
<1> QED BY <1>10 DEF L, M, r

\* A file leaves.
LEMMA RemovedFile ==
  ASSUME NEW q, Distinct(q), NEW k \in DOMAIN q
  PROVE  /\ RemoveAt(q, k) \in Seq(Item)
         /\ LedgerOf(RemoveAt(q, k)) =
              [other \in DOMAIN LedgerOf(q) \ {q[k].id} |-> LedgerOf(q)[other]]
<1> DEFINE M == LedgerOf(q)
           r == RemoveAt(q, k)
           L == [other \in DOMAIN M \ {q[k].id} |-> M[other]]
<1>1. /\ DOMAIN M = {q[i].id : i \in DOMAIN q}
      /\ \A i \in DOMAIN q : M[q[i].id] = q[i].state
  BY LedgerFacts
<1>2. Len(q) \in Nat /\ DOMAIN q = 1..Len(q) /\ k \in 1..Len(q) /\ q \in Seq(Item)
  BY DistinctFacts DEF Distinct
<1>3. /\ r \in Seq(Item) /\ Len(r) = Len(q) - 1
      /\ \A j \in 1..(Len(q) - 1) : r[j] = IF j < k THEN q[j] ELSE q[j + 1]
  BY <1>2, RemoveAtProperties
<1> HIDE DEF M, r
<1>4. DOMAIN r = 1..(Len(q) - 1)
  BY <1>3, LenProperties
<1> DEFINE from(j) == IF j < k THEN j ELSE j + 1
           to(i) == IF i < k THEN i ELSE i - 1
<1>5. /\ \A j \in DOMAIN r : from(j) \in DOMAIN q /\ from(j) # k /\ r[j] = q[from(j)]
      /\ \A i, j \in DOMAIN r : from(i) = from(j) => i = j
  BY <1>2, <1>3, <1>4
<1>6. \A i \in DOMAIN q : i # k => to(i) \in DOMAIN r /\ r[to(i)] = q[i]
  BY <1>2, <1>3, <1>4
<1> HIDE DEF from, to
<1>7. Distinct(r)
  BY <1>3, <1>5 DEF Distinct
<1>8. IsLedger(L) /\ DOMAIN L = DOMAIN M \ {q[k].id}
  BY DEF IsLedger
<1>9. \A i \in DOMAIN q : q[i].id = q[k].id => i = k
  BY DEF Distinct
<1>10. \A j \in DOMAIN r : r[j].id \in DOMAIN L /\ L[r[j].id] = r[j].state
  BY <1>1, <1>5, <1>8, <1>9
<1>11. DOMAIN L = {r[j].id : j \in DOMAIN r}
  <2>1. \A id \in DOMAIN L : \E j \in DOMAIN r : r[j].id = id
    BY <1>1, <1>6, <1>8
  <2> HIDE DEF L
  <2> QED BY <1>10, <2>1
<1> HIDE DEF L
<1>12. LedgerOf(r) = L
  BY <1>7, <1>8, <1>10, <1>11, LedgerIs
<1> QED BY <1>3, <1>12 DEF L, M, r

-----------------------------------------------------------------------------
(* What the steps of the queue are to the ledger.                          *)

\* The id of the file in the worker's hand, 0 for none.
Active == IF wpc \in Busy THEN item.id ELSE 0

LEMMA QueueFacts ==
  ASSUME IInv
  PROVE  /\ Distinct(queue_) /\ next_id_ \in Nat
         /\ \A i \in DOMAIN queue_ : queue_[i].id \in Ids /\ queue_[i].id < next_id_
<1>1. TypeOK /\ QueueOrder
  BY DEF IInv, Safety
<1>2. Distinct(queue_)
  BY <1>1, DistinctIds DEF Distinct, TypeOK
<1> QED BY <1>1, <1>2, DequeFacts DEF QueueOrder

\* A step that leaves the deque and the worker's item alone.
LEMMA LedgerStutters ==
  ASSUME UNCHANGED <<queue_, next_id_, running_>>, Active' = Active
  PROVE  UNCHANGED Ledger!lvars
BY DEF Ledger!lvars, Active

LEMMA SubmitStep ==
  ASSUME IInv, NEW c \in Callers, NEW fromPath \in BOOLEAN, enqueue(c, fromPath)
  PROVE  Ledger!Submit
<1> DEFINE it == NewItem(fromPath)
           n == next_id_ - 1 + 1
<1>1. /\ queue_' = Append(queue_, it) /\ next_id_' = next_id_ + 1
      /\ UNCHANGED <<wpc, item, running_>> /\ next_id_ <= MaxId
  BY DEF enqueue, Pushed, workerVars
<1>2. it \in Item /\ it.id = next_id_ /\ it.state = "Queued"
  BY <1>1, NewItemIsItem DEF IInv, NewItem
<1>3. n = next_id_ /\ next_id_' - 1 = n
  BY <1>1, QueueFacts
<1>4. Distinct(queue_) /\ \A i \in DOMAIN queue_ : queue_[i].id # it.id
  BY <1>2, QueueFacts DEF Ids
<1> HIDE DEF it
<1>5. LedgerOf(Append(queue_, it)) =
        [id \in DOMAIN LedgerOf(queue_) \cup {it.id} |->
           IF id = it.id THEN "Queued" ELSE LedgerOf(queue_)[id]]
  BY <1>2, <1>4, AppendedFile
<1>6. LedgerOf(queue_') =
        [id \in DOMAIN LedgerOf(queue_) \cup {n} |->
           IF id = n THEN "Queued" ELSE LedgerOf(queue_)[id]]
  <2>1. it.id = n
    BY <1>2, <1>3
  <2> QED BY <1>1, <1>5, <2>1
<1>7. Active' = Active
  BY <1>1 DEF Active
<1> QED BY <1>1, <1>3, <1>6, <1>7 DEF Ledger!Submit, LedgerOf, Active

LEMMA ForgetStep ==
  ASSUME IInv, NEW c \in Callers, NEW id \in Ids, remove(c, id)
  PROVE  \E known \in DOMAIN LedgerOf(queue_) : Ledger!Forget(known)
<1>1. /\ UNCHANGED <<next_id_, running_, wpc, item>>
      /\ \E i \in DOMAIN queue_ : queue_[i].id = id /\ queue_' = RemoveAt(queue_, i)
  BY DEF remove, workerVars
<1>2. PICK k \in DOMAIN queue_ : queue_[k].id = id /\ queue_' = RemoveAt(queue_, k)
  BY <1>1
<1>3. Distinct(queue_)
  BY QueueFacts
<1>4. id \in DOMAIN LedgerOf(queue_)
  BY <1>2, <1>3, LedgerFacts
<1>5. LedgerOf(RemoveAt(queue_, k)) =
        [other \in DOMAIN LedgerOf(queue_) \ {queue_[k].id} |-> LedgerOf(queue_)[other]]
  BY <1>3, RemovedFile
<1>6. LedgerOf(queue_') = [other \in DOMAIN LedgerOf(queue_) \ {id} |-> LedgerOf(queue_)[other]]
  BY <1>2, <1>5
<1>7. Ledger!Forget(id)
  BY <1>1, <1>4, <1>6 DEF Ledger!Forget, LedgerOf
<1> QED BY <1>4, <1>7

LEMMA MarkedOne ==
  ASSUME NEW L, IsLedger(L), NEW v
  PROVE  /\ \A x \in DOMAIN L : MarkedLedger(L, {x}, v) = [L EXCEPT ![x] = v]
         /\ \A G : G \cap DOMAIN L = {} => MarkedLedger(L, G, v) = L
         /\ \A G : MarkedLedger(L, G, v) = MarkedLedger(L, G \cap DOMAIN L, v)
BY DEF MarkedLedger, IsLedger

\* A step that gives the files of a set a new state, where they are.
LEMMA MarkStep ==
  ASSUME IInv, IInv', NEW G, NEW v, Marked(queue_, queue_', G, v)
  PROVE  LedgerOf(queue_') = MarkedLedger(LedgerOf(queue_), G, v)
<1>1. Distinct(queue_)
  BY QueueFacts
<1>2. queue_' \in Seq(Item)
  BY DEF IInv, TypeOK
<1> QED BY <1>1, <1>2, MarkedInPlace

LEMMA ResubmitStep ==
  ASSUME IInv, IInv', NEW c \in Callers, NEW id \in Ids, retry(c, id)
  PROVE  \E known \in DOMAIN LedgerOf(queue_) : Ledger!Resubmit(known)
<1>1. /\ UNCHANGED <<next_id_, running_, wpc, item>> /\ DOMAIN queue_' = DOMAIN queue_
      /\ \E i \in DOMAIN queue_ : queue_[i].id = id
  BY DEF retry, Update, workerVars
<1>2. Distinct(queue_) /\ \A i \in DOMAIN queue_ : queue_[i] \in Item
  BY QueueFacts, DistinctFacts
<1>3. Marked(queue_, queue_', {id}, "Queued")
  <2>1. \A i \in DOMAIN queue_ :
          IF queue_[i].id = id
          THEN queue_'[i].id = queue_[i].id /\ queue_'[i].state = "Queued"
          ELSE queue_'[i] = queue_[i]
    BY <1>2, ItemUpdateFields DEF retry, Update
  <2> QED BY <1>1, <2>1 DEF Marked
<1>4. LedgerOf(queue_') = MarkedLedger(LedgerOf(queue_), {id}, "Queued")
  BY <1>3, MarkStep
<1>5. id \in DOMAIN LedgerOf(queue_)
  BY <1>1, <1>2, LedgerFacts
<1>6. LedgerOf(queue_') = [LedgerOf(queue_) EXCEPT ![id] = "Queued"]
  BY <1>2, <1>4, <1>5, MarkedOne, LedgerFacts
<1>7. Ledger!Resubmit(id)
  BY <1>1, <1>5, <1>6 DEF Ledger!Resubmit, LedgerOf
<1> QED BY <1>5, <1>7

\* cancel and cancel_all: nothing happens to the ledger if no file is marked.
LEMMA CancelStep ==
  ASSUME IInv, IInv', NEW G, UNCHANGED <<next_id_, running_, wpc, item>>,
         Marked(queue_, queue_', G, "Canceled")
  PROVE  \/ \E ids \in SUBSET DOMAIN LedgerOf(queue_) : Ledger!Cancel(ids)
         \/ UNCHANGED Ledger!lvars
<1>1. PICK H : H = G \cap DOMAIN LedgerOf(queue_)
  OBVIOUS
<1>2. LedgerOf(queue_') = MarkedLedger(LedgerOf(queue_), G, "Canceled")
  BY MarkStep
<1>3. IsLedger(LedgerOf(queue_))
  BY QueueFacts, LedgerFacts
<1>4. CASE H = {}
  <2>1. LedgerOf(queue_') = LedgerOf(queue_)
    BY <1>1, <1>2, <1>3, <1>4, MarkedOne
  <2> QED BY <2>1 DEF Ledger!lvars, LedgerOf
<1>5. CASE H # {}
  <2>1. LedgerOf(queue_') = MarkedLedger(LedgerOf(queue_), H, "Canceled")
    BY <1>1, <1>2, <1>3, MarkedOne
  <2>2. H \in SUBSET DOMAIN LedgerOf(queue_)
    BY <1>1
  <2>3. Ledger!Cancel(H)
    BY <1>5, <2>1, <2>2 DEF Ledger!Cancel, LedgerOf, MarkedLedger
  <2> QED BY <2>2, <2>3
<1> QED BY <1>4, <1>5

LEMMA CancelsStep ==
  ASSUME IInv, IInv', NEW c \in Callers, NEW id, cancel(c, id) \/ cancel_all(c)
  PROVE  \/ \E ids \in SUBSET DOMAIN LedgerOf(queue_) : Ledger!Cancel(ids)
         \/ UNCHANGED Ledger!lvars
<1>1. /\ Distinct(queue_) /\ \A i \in DOMAIN queue_ : queue_[i] \in Item
      /\ UNCHANGED <<next_id_, running_, wpc, item>> /\ DOMAIN queue_' = DOMAIN queue_
  BY QueueFacts, DistinctFacts DEF cancel, cancel_all, Update, workerVars
<1>2. CASE cancel(c, id)
  <2>1. \A i \in DOMAIN queue_ :
          IF queue_[i].id = id
          THEN queue_'[i].id = queue_[i].id /\ queue_'[i].state = "Canceled"
          ELSE queue_'[i] = queue_[i]
    BY <1>1, <1>2, ItemUpdateFields DEF cancel, Update
  <2>2. Marked(queue_, queue_', {id}, "Canceled")
    BY <1>1, <2>1 DEF Marked
  <2> QED BY <1>1, <2>2, CancelStep
<1>3. CASE cancel_all(c)
  <2> DEFINE Marks(i) == queue_[i].state \in {"Queued", "Failed", "Sending"}
  <2>1. \A i \in DOMAIN queue_ :
          /\ queue_'[i].id = queue_[i].id
          /\ queue_'[i].state = IF Marks(i) THEN "Canceled" ELSE queue_[i].state
    BY <1>1, <1>3, ItemUpdateFields DEF cancel_all
  <2>2. PICK G : G = {queue_[i].id : i \in {j \in DOMAIN queue_ : Marks(j)}}
    OBVIOUS
  <2>3. \A i \in DOMAIN queue_ : queue_[i].id \in G <=> Marks(i)
    BY <1>1, <2>2 DEF Distinct
  <2> HIDE DEF Marks
  <2>4. Marked(queue_, queue_', G, "Canceled")
    BY <1>1, <2>1, <2>3 DEF Marked
  <2> QED BY <1>1, <2>4, CancelStep
<1> QED BY <1>2, <1>3

\* The first Queued item is the oldest one, because the deque is in order of ids.
LEMMA BeginStep ==
  ASSUME IInv, IInv', Pick
  PROVE  \E id \in DOMAIN LedgerOf(queue_) : Ledger!Begin(id)
<1>1. PICK k \in DOMAIN queue_ :
        FirstQueued(k) /\ item' = queue_[k] /\ queue_' = [queue_ EXCEPT ![k] = Picked(queue_[k])]
  BY DEF Pick
<1>2. wpc = "wait" /\ wpc' = "build" /\ next_id_' = next_id_ /\ running_ /\ running_' = running_
  BY DEF Pick, OwnStep
<1>3. /\ Distinct(queue_) /\ Len(queue_) \in Nat /\ DOMAIN queue_ = 1..Len(queue_)
      /\ \A i \in DOMAIN queue_ : queue_[i] \in Item /\ queue_[i].id \in Nat
  BY QueueFacts, DistinctFacts DEF Ids
<1>4. PICK L, id : L = LedgerOf(queue_) /\ id = queue_[k].id
  OBVIOUS
<1>5. /\ DOMAIN L = {queue_[i].id : i \in DOMAIN queue_}
      /\ \A i \in DOMAIN queue_ : L[queue_[i].id] = queue_[i].state
      /\ IsLedger(L)
  BY <1>3, <1>4, LedgerFacts
<1>6. id \in DOMAIN L /\ L[id] = "Queued" /\ item'.id = id
  BY <1>1, <1>4, <1>5 DEF FirstQueued
<1>7. \A other \in DOMAIN L : L[other] = "Queued" => id <= other
  <2>1. \A i \in DOMAIN queue_ : queue_[i].state = "Queued" => queue_[k].id <= queue_[i].id
    <3>1. \A i \in DOMAIN queue_ : queue_[i].state = "Queued" => ~(i < k)
      BY <1>1, <1>3 DEF FirstQueued
    <3>2. \A i \in DOMAIN queue_ : k < i => queue_[k].id < queue_[i].id
      BY DEF IInv, Safety, QueueOrder
    <3> QED BY <1>3, <3>1, <3>2
  <2> QED BY <1>4, <1>5, <2>1
<1>8. LedgerOf(queue_') = [L EXCEPT ![id] = "Sending"]
  <2>1. \A i \in DOMAIN queue_ :
          IF queue_[i].id = id
          THEN queue_'[i].id = queue_[i].id /\ queue_'[i].state = "Sending"
          ELSE queue_'[i] = queue_[i]
    <3>1. queue_'[k].id = queue_[k].id /\ queue_'[k].state = "Sending"
      BY <1>1, <1>3, ItemUpdateFields
    <3>2. \A i \in DOMAIN queue_ : queue_[i].id = id => i = k
      BY <1>3, <1>4 DEF Distinct
    <3> QED BY <1>1, <1>4, <3>1, <3>2
  <2>2. Marked(queue_, queue_', {id}, "Sending")
    BY <1>1, <2>1 DEF Marked
  <2>3. LedgerOf(queue_') = MarkedLedger(L, {id}, "Sending")
    BY <1>4, <2>2, MarkStep
  <2>4. IsLedger(L) /\ id \in DOMAIN L
    BY <1>5, <1>6
  <2>5. MarkedLedger(L, {id}, "Sending") = [L EXCEPT ![id] = "Sending"]
    BY ONLY <2>4, MarkedOne
  <2> QED BY <2>3, <2>5
<1>9. Active = 0 /\ Active' = id
  BY <1>2, <1>6 DEF Active, Busy
<1>10. Ledger!Begin(id)
  <2>1. /\ LedgerOf(queue_') = [LedgerOf(queue_) EXCEPT ![id] = "Sending"]
        /\ id \in DOMAIN LedgerOf(queue_) /\ LedgerOf(queue_)[id] = "Queued"
        /\ \A other \in DOMAIN LedgerOf(queue_) : LedgerOf(queue_)[other] = "Queued" => id <= other
    BY <1>4, <1>6, <1>7, <1>8
  <2> QED BY <1>2, <1>9, <2>1 DEF Ledger!Begin, LedgerOf, Active
<1> QED BY <1>4, <1>6, <1>10

\* A transfer ends with a verdict, which a cancellation or a removal has preempted.
LEMMA SettleStep ==
  ASSUME IInv, IInv', GiveUp \/ Finish
  PROVE  \E verdict \in {"Done", "Failed"} : Ledger!Settle(verdict)
<1>1. /\ wpc \in Busy /\ wpc' = "loop" /\ next_id_' = next_id_ /\ running_' = running_
      /\ DOMAIN queue_' = DOMAIN queue_
  BY DEF GiveUp, Finish, OwnStep, Update, Busy
<1>2. /\ Distinct(queue_) /\ \A i \in DOMAIN queue_ : queue_[i] \in Item
  BY QueueFacts, DistinctFacts
<1>3. PICK L, id : L = LedgerOf(queue_) /\ id = item.id
  OBVIOUS
<1>4. /\ DOMAIN L = {queue_[i].id : i \in DOMAIN queue_}
      /\ \A i \in DOMAIN queue_ : L[queue_[i].id] = queue_[i].state
      /\ IsLedger(L)
  BY <1>2, <1>3, LedgerFacts
<1>5. id \in Nat /\ id # 0 /\ Active = id /\ Active' = 0
  <2>1. item.id \in Ids
    BY <1>1 DEF IInv, TypeOK, Item
  <2> QED BY <1>1, <1>3, <2>1 DEF Ids, Active, Busy
<1>6. PICK verdict \in {"Done", "Failed"} :
        \A i \in DOMAIN queue_ :
          IF queue_[i].id = id
          THEN /\ queue_'[i].id = queue_[i].id
               /\ queue_'[i].state = IF queue_[i].state = "Canceled" THEN "Canceled" ELSE verdict
          ELSE queue_'[i] = queue_[i]
  <2>1. CASE GiveUp
    <3>1. \A i \in DOMAIN queue_ :
            IF queue_[i].id = id
            THEN /\ queue_'[i].id = queue_[i].id
                 /\ queue_'[i].state = IF queue_[i].state = "Canceled" THEN "Canceled" ELSE "Failed"
            ELSE queue_'[i] = queue_[i]
      BY <1>2, <1>3, <2>1, ItemUpdateFields DEF GiveUp, Update
    <3> QED BY <3>1
  <2>2. CASE Finish
    <3>1. \A i \in DOMAIN queue_ :
            IF queue_[i].id = id
            THEN /\ queue_'[i].id = queue_[i].id
                 /\ queue_'[i].state = IF queue_[i].state = "Canceled" THEN "Canceled"
                                       ELSE IF ec THEN "Failed" ELSE "Done"
            ELSE queue_'[i] = queue_[i]
      BY <1>2, <1>3, <2>2, ItemUpdateFields DEF Finish, Update
    <3>2. CASE ec
      BY <3>1, <3>2
    <3>3. CASE ~ec
      BY <3>1, <3>3
    <3> QED BY <3>2, <3>3
  <2> QED BY <2>1, <2>2
<1>7. LedgerOf(queue_') =
        IF id \in DOMAIN L /\ L[id] # "Canceled" THEN [L EXCEPT ![id] = verdict] ELSE L
  <2>1. CASE id \in DOMAIN L /\ L[id] # "Canceled"
    <3>1. Marked(queue_, queue_', {id}, verdict)
      BY <1>1, <1>4, <1>6, <2>1 DEF Marked
    <3>2. LedgerOf(queue_') = MarkedLedger(L, {id}, verdict)
      BY <1>3, <3>1, MarkStep
    <3>3. MarkedLedger(L, {id}, verdict) = [L EXCEPT ![id] = verdict]
      BY ONLY <1>4, <2>1, MarkedOne
    <3> QED BY <2>1, <3>2, <3>3
  <2>2. CASE ~(id \in DOMAIN L /\ L[id] # "Canceled")
    <3>1. Marked(queue_, queue_', {}, verdict)
      BY <1>1, <1>4, <1>6, <2>2 DEF Marked
    <3>2. LedgerOf(queue_') = MarkedLedger(L, {}, verdict)
      BY <1>3, <3>1, MarkStep
    <3>3. MarkedLedger(L, {}, verdict) = L
      BY <1>4, MarkedOne
    <3> QED BY <2>2, <3>2, <3>3
  <2> QED BY <2>1, <2>2
<1>8. Ledger!Settle(verdict)
  <2>1. LedgerOf(queue_') =
          IF Active \in DOMAIN LedgerOf(queue_) /\ LedgerOf(queue_)[Active] # "Canceled"
          THEN [LedgerOf(queue_) EXCEPT ![Active] = verdict] ELSE LedgerOf(queue_)
    BY <1>3, <1>5, <1>7
  <2>2. Active # 0 /\ Active' = 0 /\ next_id_' = next_id_ /\ running_' = running_
    BY <1>1, <1>5
  <2> QED BY <2>1, <2>2 DEF Ledger!Settle, LedgerOf, Active
<1> QED BY <1>6, <1>8

-----------------------------------------------------------------------------
(* The refinement.                                                         *)

LEMMA LedgerStart == Init => Ledger!Start
<1> SUFFICES ASSUME Init PROVE Ledger!Start
  OBVIOUS
<1>1. queue_ = <<>> /\ next_id_ - 1 = 0 /\ Active = 0 /\ running_ = TRUE
  BY DEF Init, Active, Busy
<1>2. DOMAIN queue_ = {}
  BY <1>1
<1>3. LedgerOf(queue_) = [id \in {} |-> "Queued"]
  BY <1>2 DEF LedgerOf
<1> QED BY <1>1, <1>3 DEF Ledger!Start, LedgerOf, Active

LEMMA LedgerStep == IInv /\ IInv' /\ [Next]_vars => [Ledger!Change]_(Ledger!lvars)
<1> SUFFICES ASSUME IInv, IInv', [Next]_vars
             PROVE  Ledger!Change \/ UNCHANGED Ledger!lvars
  OBVIOUS
<1> USE DEF workerVars, sockVars, OwnStep, WorkerLocals
<1> DEFINE Files == DOMAIN LedgerOf(queue_)
<1>0. /\ Ledger!Submit \/ Ledger!Halt => Ledger!Change
      /\ \A id \in Files : Ledger!Begin(id) \/ Ledger!Resubmit(id) \/ Ledger!Forget(id) => Ledger!Change
      /\ \A verdict \in {"Done", "Failed"} : Ledger!Settle(verdict) => Ledger!Change
      /\ \A ids \in SUBSET Files : Ledger!Cancel(ids) => Ledger!Change
  BY DEF Ledger!Change, LedgerOf
<1> HIDE DEF Files
<1>1. ASSUME NEW c \in Callers, Call(c)
      PROVE  Ledger!Change \/ UNCHANGED Ledger!lvars
  <2>1. ASSUME NEW fromPath \in BOOLEAN, enqueue(c, fromPath) PROVE Ledger!Change
    BY <1>0, <2>1, SubmitStep
  <2>2. ASSUME NEW id \in Ids, remove(c, id) PROVE Ledger!Change
    BY <1>0, <2>2, ForgetStep DEF Files
  <2>3. ASSUME NEW id \in Ids, retry(c, id) PROVE Ledger!Change
    BY <1>0, <2>3, ResubmitStep DEF Files
  <2>4. ASSUME NEW id \in Ids, cancel(c, id)
        PROVE  Ledger!Change \/ UNCHANGED Ledger!lvars
    BY <1>0, <2>4, CancelsStep DEF Files
  <2>5. CASE cancel_all(c)
    BY <1>0, <2>5, CancelsStep DEF Files
  <2>6. CASE pause(c) \/ resume(c)
    BY <2>6, LedgerStutters DEF pause, resume, Active
  <2>7. CASE stop(c)
    <3>1. Ledger!Halt
      BY <2>7 DEF stop, callVars, Ledger!Halt
    <3> QED BY <1>0, <3>1
  <2> QED BY <1>1, <2>1, <2>2, <2>3, <2>4, <2>5, <2>6, <2>7 DEF Call
<1>2. ASSUME NEW c \in Callers, Return(c)
      PROVE  UNCHANGED Ledger!lvars
  <2>1. UNCHANGED <<queue_, next_id_, running_, wpc, item>>
    BY <1>2 DEF Return, ResumeNotify, CancelAllClose, StopNotify, StopJoin, callVars
  <2> QED BY <2>1, LedgerStutters DEF Active
<1>3. CASE Pick
  BY <1>0, <1>3, BeginStep DEF Files
<1>4. CASE GiveUp \/ Finish
  BY <1>0, <1>4, SettleStep
<1>5. CASE LoopHead \/ WaitFalse \/ Block \/ WaitStopped \/ PickNothing
  <2>1. UNCHANGED <<queue_, next_id_, running_>> /\ wpc \notin Busy /\ wpc' \notin Busy
    BY <1>5 DEF LoopHead, WaitFalse, Block, WaitStopped, PickNothing, Busy
  <2> QED BY <2>1, LedgerStutters DEF Active
\* The worker goes on with the item in hand.
<1>6. CASE Build \/ GetSocket \/ WriteFails \/ WriteChunk
  <2>1. UNCHANGED <<queue_, next_id_, running_>> /\ wpc \in Busy /\ wpc' \in Busy
    BY <1>6 DEF Build, GetSocket, WriteFails, WriteChunk, Busy
  <2>2. item \in Item
    BY <2>1 DEF IInv, TypeOK
  <2>3. item' = item \/ item' = [item EXCEPT !.message = TRUE]
    BY <1>6 DEF Build, GetSocket, WriteFails, WriteChunk
  <2>4. item'.id = item.id
    BY <2>2, <2>3, ItemUpdateFields
  <2> QED BY <2>1, <2>4, LedgerStutters DEF Active
<1>7. CASE \/ SpuriousWakeup \/ Connected \/ PeerLost \/ Disconnect \/ ReplaceSocket
           \/ StartConnect \/ UNCHANGED vars
  <2>1. UNCHANGED <<queue_, next_id_, running_, wpc, item>>
    BY <1>7 DEF SpuriousWakeup, Connected, PeerLost, Disconnect, ReplaceSocket, StartConnect,
                callVars, vars
  <2> QED BY <2>1, LedgerStutters DEF Active
<1> QED BY <1>1, <1>2, <1>3, <1>4, <1>5, <1>6, <1>7 DEF Next, WorkerStep

\* The queue, with its threads, its lock and its sockets, is a ledger: one transfer at a
\* time, in the order of submission, a verdict that never overwrites a cancellation, no
\* transfer begun after stop, and no other change to any file, whatever is called in
\* whatever order.
THEOREM QueueIsLedger == Spec => LedgerSpec
<1>1. Init => Ledger!Start
  BY LedgerStart
<1>2. IInv /\ IInv' /\ [Next]_vars => [Ledger!Change]_(Ledger!lvars)
  BY LedgerStep
<1>3. Spec => Ledger!Spec
  BY <1>1, <1>2, Invariance, PTL DEF Spec, Ledger!Spec
<1> QED BY <1>3 DEF LedgerSpec
=============================================================================
